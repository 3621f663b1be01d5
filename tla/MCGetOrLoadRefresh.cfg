SPECIFICATION FairSpec
CONSTANTS
    i1 = i1
    i2 = i2
    r1 = r1
    r2 = r2
    r3 = r3
    Instances = {i1, i2}
    Requests = {r1, r2}
    HomeOf <- OnePerInstance
    Fallbacks = {r2}
    Cancellable <- NoTask
    Faults = {"loader", "age", "crash"}
    Polls = 2
    Seed = Seed
    SeedAges = {"unborn", "fresh", "soft", "hard"}
    Default = Default
    Unread = Unread
    None = None
INVARIANTS
    NoLockLeftBehind
PROPERTIES
    TasksEnd
CHECK_DEADLOCK FALSE
