\* ONOS: a fetch that began before a refresh may end after it.
SPECIFICATION Spec
CONSTANTS
    Nodes = {"a", "b", "c"}
    Tasks = {t1, t2, t3}
    None = None
    Live = TRUE
    Sources <- OnosSources
    Edits <- OneEdit
    Source = "a"
    Destination = "c"
    MaxChanges = 1
SYMMETRY TaskSymmetry
INVARIANTS RefreshedIsFresh
\* The tasks are finitely many.
CHECK_DEADLOCK FALSE
