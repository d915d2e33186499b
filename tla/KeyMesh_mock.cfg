\* One circuit between two simulated KMSs, as config/kms_registry.yaml has them.
SPECIFICATION Spec
CONSTANTS
    r1 = r1
    r2 = r2
    Requests = {r1}
    Endpoints <- Simulated
    Cities = {"d", "e"}
    Backend <- AllBackends
    Others <- Nobody
    Free = Free
    Watched = {}
    InitPeers <- Nobody
    Failing = {}
    MaxOutages = 0
INVARIANTS
    VerifiedKeyIsShared
CHECK_DEADLOCK FALSE
