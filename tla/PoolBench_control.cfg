SPECIFICATION BenchSpec
CONSTANTS
    Capacity = 3
    InitKeys = 2
    Threshold = 3
    RefillTarget = 4
    PrefetchRate = 1
    Unit = 4
    Draws = {}
    MaxConsumed = 3
    Controllers = {c1, c2}
    Updates <- ControlUpdates
    MaxUpdates = 5
    CapacityCeiling = 4
    RateCeiling = 1
    Bench = c1
    REPS = 2
    NUM_KEYS = 2
    LOAD_WORKERS = 2
    SmallCapacity = 2
    LowMark = 2
    HighMark = 4
    SlowRate = 1
INVARIANTS
    TypeOK
    OvershootBounded
    EmptyButForOneTick
    ConfiguredIsFull
PROPERTIES
    Settles
