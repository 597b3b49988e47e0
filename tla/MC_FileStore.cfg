SPECIFICATION Spec
CONSTANTS
    Clients = {w1, w2}
    Serials = {s1}
    Data = {d1, d2}
    None = None
    Torn = Torn
SYMMETRY Symmetry
INVARIANTS
    TypeOK
    NoTornFile
    MetaHasCertificate
    AckedReadable
    NoLeakedTemp
PROPERTIES
    StoredStays
