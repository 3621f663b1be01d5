SPECIFICATION Spec
CONSTANTS
    i1 = i1
    i2 = i2
    r1 = r1
    r2 = r2
    r3 = r3
    Instances = {i1}
    Requests = {r1, r2, r3}
    HomeOf <- AllOnOne
    Fallbacks = {r2, r3}
    Cancellable <- FirstTwoRequests
    Faults = {"loader", "evict"}
    Polls = 1
    Seed = Seed
    SeedAges = {"soft", "hard"}
    Default = Default
    Unread = Unread
    None = None
INVARIANTS
    StaleOnlyOnFailure
PROPERTIES
    ImplementsSingleFlight
CHECK_DEADLOCK FALSE
