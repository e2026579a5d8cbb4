SPECIFICATION Spec
CONSTANTS
    b1 = b1
    b2 = b2
    n1 = n1
    n2 = n2
    n3 = n3
    x = x
    None = None
    Order = Order
    Pages = {b1}
    Names = {n1, n2}
    Tabs = {x}
    UserOps <- Edits
    Careful = FALSE
    MaxMark = 2
    MaxTabOps = 1
    MaxLosses = 0
    MaxReloads = 0
    MayLoadOffline = FALSE
    RunsInit = FALSE
INVARIANTS
    UnsavedUntilDelivered
