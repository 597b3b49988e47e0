SPECIFICATION FairSpec
CONSTANTS
    Calls = {c1, c2}
    CSRs <- MCCSRs
    Serials = {s1, s2, s3}
    Users = {u1, u2, u3}
    CAFlags = {TRUE, FALSE}
    None = None
INVARIANTS
    TypeOK
    ReturnedIsEnrolled
    EnrolledForOneCall
PROPERTIES
    KeepsContract
    CallsEnd
CHECK_DEADLOCK FALSE
