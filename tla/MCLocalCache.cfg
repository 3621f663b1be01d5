SPECIFICATION LCSpec
CONSTANTS
    k1 = k1
    k2 = k2
    k3 = k3
    k4 = k4
    Keys = {k1, k2, k3, k4}
    Prefixes <- TwoPrefixes
    MaxSize = 2
INVARIANTS
    LCTypeOK
    KeptWhileRecent
PROPERTIES
    ImplementsLRU
