SPECIFICATION Spec
CONSTANTS
    Functions = {"IssueCertificate"}
    None = None
    LineBreaks <- MCLineBreaks
    Malformed = Malformed
    Garbled = Garbled
    Names = {1, 2, 3}
    Hosts = {1, 2}
    MaxList = 2
    MaxBody = 5
    LineLength = 8
    SerialBytes = 2
    DefaultSkew = 2
    CSRs <- MCCSRs
    Certificates <- MCCertificates
    IdentityPairs <- MCIdentityPairs
    Bodies <- MCBodies
    Sources <- MCSources
    Configurations <- MCConfigurations
    Requests <- MCRequests
    LocalCAs <- MCLocalCAs
    Now <- MCNow
    Buffers <- MCBuffers
INVARIANTS
    SubjectIsCopied
CHECK_DEADLOCK FALSE
