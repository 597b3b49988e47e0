SPECIFICATION FairSpec
CONSTANTS
    Requests = {r1, r2}
    Identities <- MCIdentities
    IdentitiesMatch <- identitiesMatch
    LineBreaks <- MCLineBreaks
    CSRs <- MCCSRs
    Serials = {s1, s2}
    Inputs <- AllInputs
    CSRAttrsConfigured = TRUE
    MaxRestarts = 1
    None = None
    Torn = Torn
INVARIANTS
    TypeOK
    GrantedIsRecorded
    RecordsAgree
    StoredWasAuthorised
    IssuedWasAuthorised
    RefusedLeavesNothing
    ExitIsOrderly
PROPERTIES
    EnrollmentEnds
    ShutdownEnds
    RecordsImmutable
    RefinesRegistry
CHECK_DEADLOCK FALSE
