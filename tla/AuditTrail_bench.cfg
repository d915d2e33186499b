\* The audit log is slow, loses writes or carries them out too late.
SPECIFICATION TrailSpec
CONSTANTS
    r1 = r1
    Requests = {r1}
    Resolutions <- BothWays
    NumKeys <- OneKey
    Routes <- AllRoutes
    Kms <- KmsNodes
    InitStored <- Stock
    HttpTimeout = 30
    AuditTimeout = 2
    AuditResults <- AuditLog
    ConnectResults <- Prompt
    SourceResults <- HttpSource
    KmsResults <- PromptKms
    MaxCrashes = 0
    Tables <- SomeTables
    Limit = 200
    MaxLate = 1
    NoSample = NoSample
INVARIANTS
    RejectedCostsNothing
    AuditNeverBreaksFlow
    SampleIsOfThisRun
    GapsAreLeftOut
    TimesTellOrder
\* Every request is sent once.
CHECK_DEADLOCK FALSE
