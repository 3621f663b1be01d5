SPECIFICATION ExSpec
CONSTANTS
    Instances = {1, 2}
    c1 = c1
    c2 = c2
    c3 = c3
    Calls <- MCCalls
    Owner <- MCOwner
    Offset <- MCOffset
    Second = 2
    MaxTime = 4
    Kinds = {"set", "load", "get", "delete", "expire", "expire_local"}
    CallTtls = {1, None}
    Policies <- MCPolicies
    Config <- MCConfig
    NewTtls = {2}
    None = None
SYMMETRY Symmetry
INVARIANTS
    ExTypeOK
    DeadlineFollowsEnvelope
    DropHasACause
    RevivedHasACause
PROPERTIES
    ServedInTime
    RefusedHasACause
CHECK_DEADLOCK FALSE
