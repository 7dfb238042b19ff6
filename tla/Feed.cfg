SPECIFICATION Spec
CONSTANTS
    Ids = {1, 2, 3, 4}
    None = None
    MaxLimit = 2
    MaxTime = 1
CHECK_DEADLOCK FALSE
INVARIANTS
    PagesDescend
    NothingSkipped
    PromisedPageHasRows
    UnreadCountCoversPage
