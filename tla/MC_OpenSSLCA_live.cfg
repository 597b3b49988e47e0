SPECIFICATION FairSpec
CONSTANTS
    Calls = {c1, c2, c3}
    CSRs <- LiveCSRs
    CAFlags = {FALSE}
    Serials = {1, 2, 3}
    MaxDeaths = 1
    None = None
PROPERTIES
    CallsEnd
CHECK_DEADLOCK FALSE
