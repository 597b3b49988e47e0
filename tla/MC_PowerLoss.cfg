SPECIFICATION SpecPower
CONSTANTS
    Clients = {w1}
    Serials = {s1}
    Data = {d1}
    None = None
    Torn = Torn
INVARIANTS
    NoTornRecord
