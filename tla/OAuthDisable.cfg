SPECIFICATION Spec
CONSTANTS
    Clients = {worldview, artbin}
    Declarative = {worldview}
    Services = {}
    Refreshing = {worldview, artbin}
    Users = {u1}
    Codes = {x1}
    Tokens = {k1, k2, k3}
    Resources = {r1}
    Admins = {a1}
    Null = null
    CodeLifetime = 0
    AccessLifetime = 1
    RefreshLifetime = 1
    MaxTime = 1
SYMMETRY Symmetry
CHECK_DEADLOCK FALSE
PROPERTIES
    DisabledStaysRevoked
