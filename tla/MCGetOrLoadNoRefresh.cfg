SPECIFICATION Spec
CONSTANTS
    i1 = i1
    i2 = i2
    r1 = r1
    r2 = r2
    r3 = r3
    Instances = {i1, i2}
    Requests = {r1, r2}
    HomeOf <- OnePerInstance
    Fallbacks = {}
    Cancellable <- NoTask
    Faults = {}
    Polls = 1
    Seed = Seed
    SeedAges = {"soft"}
    Default = Default
    Unread = Unread
    None = None
INVARIANTS
    RefreshRefreshes
CHECK_DEADLOCK FALSE
