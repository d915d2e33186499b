\* A user clicks on a link, and a request follows.
SPECIFICATION PageSpec
CONSTANTS
    Nodes = {"a", "b", "c"}
    Tasks = {t1, t2}
    None = None
    Live = FALSE
    Sources <- StaticSources
    Edits <- AnyEdits
    Source = "a"
    Destination = "c"
    MaxChanges = 0
    Home <- Mesh
    PageLinks <- AllShown
    Clicked <- OneLink
    FormLinks <- Nothing
    Cities <- Nothing
    MaxPosts = 1
SYMMETRY TaskSymmetry
INVARIANT FallbackIsFound
\* The tasks are finitely many.
CHECK_DEADLOCK FALSE
