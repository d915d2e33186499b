SPECIFICATION FairSpec
CONSTANTS
    r1 = r1
    Requests = {r1}
    Resolutions <- BothWays
    NumKeys <- OneKey
    Routes <- AllRoutes
    Kms <- KmsNodes
    InitStored <- Stock
    HttpTimeout = 3
    AuditTimeout = 1
    AuditResults <- Prompt
    ConnectResults <- SlowConnect
    SourceResults <- AnySource
    KmsResults <- HungKms
    MaxCrashes = 1
INVARIANTS
    TypeOK
    KeysConserved
    TrailTellsAnswer
    AuditOrder
    AnsweredInTime
PROPERTIES
    EveryRequestAnswered
    ImplementsCircuitService
CHECK_DEADLOCK FALSE
