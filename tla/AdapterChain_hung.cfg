SPECIFICATION Spec
CONSTANTS
    r1 = r1
    Requests = {r1}
    Resolutions <- Resolves
    NumKeys <- OneKey
    Routes <- RelayRoute
    Kms <- KmsNodes
    InitStored <- Stock
    HttpTimeout = 10
    AuditTimeout = 3
    AuditResults <- HungAudit
    ConnectResults <- Prompt
    SourceResults <- Prompt
    KmsResults <- Prompt
    MaxCrashes = 0
INVARIANTS
    AuditNeverBreaksFlow
CHECK_DEADLOCK FALSE
