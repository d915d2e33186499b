\* ONOS: the devices and the links are read one after the other, and may fail.
SPECIFICATION Spec
CONSTANTS
    Nodes = {"a", "b", "c"}
    Tasks = {t1, t2, t3}
    None = None
    Live = TRUE
    Sources <- OnosSources
    Edits <- OnosEdits
    Source = "a"
    Destination = "c"
    MaxChanges = 1
SYMMETRY TaskSymmetry
INVARIANTS TypeOK AnswerWasCurrent
\* The tasks are finitely many.
CHECK_DEADLOCK FALSE
