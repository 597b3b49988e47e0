SPECIFICATION Spec
CONSTANTS
    Calls = {c1, c2, c3}
    CSRs <- MCCSRs
    CAFlags = {TRUE, FALSE}
    Serials = {1, 2, 3}
    MaxDeaths = 1
    None = None
SYMMETRY Symmetry
INVARIANTS
    TypeOK
    UniqueSerials
    ReturnedInIndex
    ReturnedIsRequested
    TempsFollowCalls
PROPERTIES
    KeepsContract
CHECK_DEADLOCK FALSE
