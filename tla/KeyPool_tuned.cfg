SPECIFICATION FairSpec
CONSTANTS
    Capacity = 5
    InitKeys = 6
    Threshold = 2
    RefillTarget = 4
    PrefetchRate = 2
    Unit = 4
    Draws = {1, 2, 6}
    MaxConsumed = 6
    Controllers = {c1}
    Updates <- TuningUpdates
    MaxUpdates = 2
    CapacityCeiling = 5
    RateCeiling = 2
INVARIANTS
    StoredWithinCapacity
    Ledger
    LowMeansArmed
PROPERTIES
    RefillCompletes
    ImplementsKeyStore
