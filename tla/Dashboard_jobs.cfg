\* Jobs, edits, resets and scenarios.
CONSTANTS
    None = None
    NodeOrder <- Order
    Links <- AllLinks
    EndsOf <- Ends
    CostOf <- Cost
    Source = "milano"
    Destination = "venezia"
    MainLinks <- Main
    InitialPool <- Pools
    Relays = {"parma"}
    Keys = {1, 10}
    PoolEdits <- PoolChanges
    MaxJobs = 2
    MaxEdits = 2
SPECIFICATION Spec
INVARIANTS TypeOK LatestOnly Settled
PROPERTIES PlansAreBest JobsEnd
\* Nobody clicks any more.
CHECK_DEADLOCK FALSE
