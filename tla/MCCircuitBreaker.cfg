SPECIFICATION CBFairSpec
CONSTANTS
    Calls = {c1, c2, c3, c4}
    FailureThreshold = 2
    RecoveryTimeout = 2
    HalfOpenMaxCalls = 2
    MaxFailures = 4
    MaxCancels = 3
    None = None
INVARIANTS
    CBTypeOK
    StateMatchesCount
    ProbesBounded
    WedgedOnlyByCancellation
PROPERTIES
    FailureReopens
    Recovers
CHECK_DEADLOCK FALSE
