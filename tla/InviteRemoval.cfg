SPECIFICATION Spec
CONSTANTS
    Handlers = {h1, h2}
    Codes = {c1, c2}
    Tickets = {t1}
    Subjects = {s1}
    Names = {ann, bob}
    Founder = ann
    Null = null
    MaxUser = 2
    MaxUsesCap = 1
    Lifetime = 1
    MaxTime = 0
    Changing = {1, 2}
    Modes = {TRUE, FALSE}
SYMMETRY Symmetry
CHECK_DEADLOCK FALSE
INVARIANTS
    MembersCounted
