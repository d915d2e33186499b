\* Static source: loading takes no await; the posts of the page, other clients'
\* edits and refreshes interleave with requests.
SPECIFICATION PageSpec
CONSTANTS
    Nodes = {"a", "b", "c"}
    Tasks = {t1, t2, t3}
    None = None
    Live = FALSE
    Sources <- PageSources
    Edits <- AnyEdits
    Source = "a"
    Destination = "c"
    MaxChanges = 1
    Home <- Sparse
    PageLinks <- OneLink
    Clicked <- Clickable
    FormLinks <- MoreLinks
    Cities <- MoreCities
    MaxPosts = 2
SYMMETRY TaskSymmetry
INVARIANTS AnswerWasCurrent PathIsCheapest EditsStay RefreshedIsFresh 
\* The tasks are finitely many.
CHECK_DEADLOCK FALSE
