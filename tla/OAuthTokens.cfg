SPECIFICATION Spec
CONSTANTS
    Clients = {worldview, artbin, service}
    Declarative = {worldview, service}
    Services = {service}
    Refreshing = {worldview, artbin}
    Users = {u1}
    Codes = {x1}
    Tokens = {k1, k2, k3}
    Resources = {r1}
    Admins = {a1}
    Null = null
    CodeLifetime = 0
    AccessLifetime = 1
    RefreshLifetime = 1
    MaxTime = 1
SYMMETRY Symmetry
CONSTRAINT Bounds
CHECK_DEADLOCK FALSE
INVARIANTS
    TypeOK
    OneIssuePerCredential
    FamilyOneLive
    CompromisedFamilyDead
PROPERTIES
    ConsentSpec
    IssuedWithinPolicy
