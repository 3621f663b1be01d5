SPECIFICATION SFFairSpec
CONSTANTS
    Calls = {c1, c2, c3}
    Keys = {k1}
    Values = {v1}
    None = None
PROPERTIES
    EveryWaiterReturns
CHECK_DEADLOCK FALSE
