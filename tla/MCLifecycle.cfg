SPECIFICATION LifeFairSpec
CONSTANTS
    Refreshes = {t1, t2}
    Periodics = {p1, p2}
    BatchSize = 2
    Features = {"broadcast", "startup", "lifespan", "periodic"}
    Faults = {"listener", "redis", "loader", "sharer"}
    None = None
INVARIANTS
    LifeTypeOK
    ClosedIsQuiet
    OnePeriodic
    LeftBehindHasACause
    UnattendedHasACause
PROPERTIES
    CloseEnds
CHECK_DEADLOCK FALSE
