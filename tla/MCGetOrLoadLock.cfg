SPECIFICATION Spec
CONSTANTS
    i1 = i1
    i2 = i2
    r1 = r1
    r2 = r2
    r3 = r3
    Instances = {i1, i2}
    Requests = {r1, r2, r3}
    HomeOf <- TwoAndOne
    Fallbacks = {}
    Cancellable <- FirstRequest
    Faults = {"redis", "expire"}
    Polls = 1
    Seed = Seed
    SeedAges = {"unborn", "hard"}
    Default = Default
    Unread = Unread
    None = None
INVARIANTS
    GLTypeOK
    LockProtects
PROPERTIES
    ReleaseOnlyOwn
CHECK_DEADLOCK FALSE
