SPECIFICATION Spec
CONSTANTS
    Handlers = {h1, h2}
    Codes = {c1}
    Tickets = {t1, t2}
    Subjects = {s1, s2}
    Names = {ann, bob, cat}
    Founder = ann
    Null = null
    MaxUser = 3
    MaxUsesCap = 2
    Lifetime = 1
    MaxTime = 1
    Changing = {2}
    Modes = {TRUE}
SYMMETRY Symmetry
CHECK_DEADLOCK FALSE
INVARIANTS
    TypeOK
    UsesWithinMax
    PendingWithinMax
PROPERTIES
    ClaimedForGood
    QuotaSpec
