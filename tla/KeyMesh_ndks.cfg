\* A full mesh of Next Door KMEs, one of which may stop and start again, and a
\* simulated KMS.
SPECIFICATION FairSpec
CONSTANTS
    r1 = r1
    r2 = r2
    Requests = {r1, r2}
    Endpoints <- SomeEndpoints
    Cities = {"a", "b", "c", "d"}
    Backend <- Backends
    Others <- FullMesh
    Free = Free
    Watched = {"a"}
    InitPeers <- AlmostWarm
    Failing = {"b"}
    MaxOutages = 1
INVARIANTS
    TypeOK
    KeyReachesFarEnd
    UsedKeyIsGone
PROPERTIES
    EveryCallEnds
    MeshReforms
\* The circuits are finitely many.
CHECK_DEADLOCK FALSE
