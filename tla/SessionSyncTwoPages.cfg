SPECIFICATION FairSpec
CONSTANTS
    b1 = b1
    b2 = b2
    n1 = n1
    n2 = n2
    n3 = n3
    x = x
    None = None
    Order = Order
    Pages = {b1, b2}
    Names = {n1, n2}
    Tabs = {x}
    UserOps <- EditsAndPanel
    Careful = TRUE
    MaxMark = 2
    MaxTabOps = 1
    MaxLosses = 0
    MaxReloads = 1
    MayLoadOffline = FALSE
    RunsInit = FALSE
INVARIANTS
    PagesFollowTheirVersion
    SavedPagesShowTheirVersion
PROPERTIES
    SavesKeepWhatOthersChanged
    Converges
