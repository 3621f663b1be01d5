SPECIFICATION SFFairSpec
CONSTANTS
    Calls = {c1, c2, c3, c4}
    Keys = {k1, k2}
    Values = {v1}
    None = None
INVARIANTS
    SFTypeOK
    OneLoadPerKey
    RegistryIsExact
    ResultIsTheFlights
    CancellationHasACause
PROPERTIES
    WaitersReturn
CHECK_DEADLOCK FALSE
