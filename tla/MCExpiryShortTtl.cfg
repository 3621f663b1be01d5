SPECIFICATION ExSpec
CONSTANTS
    c1 = c1
    c2 = c2
    c3 = c3
    Calls <- MCCalls
    Instances = {1, 2}
    Owner <- MCOwner
    Offset <- MCOffset
    Second = 2
    MaxTime = 4
    Kinds = {"set"}
    CallTtls = {1}
    Policies <- MCPolicies
    Config <- MCConfig
    NewTtls = {2}
    None = None
INVARIANTS
    SetReachesRedis
CHECK_DEADLOCK FALSE
