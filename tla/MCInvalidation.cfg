SPECIFICATION InvSpec
CONSTANTS
    Instances = {i1, i2}
    Ops = {c1, c2, c3}
    Kinds = {"get", "load", "refresh", "set", "delete_many", "delete_prefix"}
    Once = {"get", "load", "refresh", "delete_many", "delete_prefix"}
    MaxFailures = 1
    MaxOver = 1
    MaxTroubles = 1
    Seed = Seed
    Unread = Unread
    None = None
SYMMETRY Symmetry
INVARIANTS
    InvTypeOK
    RedisNeverGoesBack
    StaleHasACause
    ReadYourWrites
    CoherentWhenSettled
    VanishesWithACause
CHECK_DEADLOCK FALSE
