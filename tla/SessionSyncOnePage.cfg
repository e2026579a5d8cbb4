SPECIFICATION Spec
CONSTANTS
    b1 = b1
    b2 = b2
    n1 = n1
    n2 = n2
    n3 = n3
    x = x
    None = None
    Order = Order
    Pages = {b1}
    Names = {n1, n2}
    Tabs = {x}
    UserOps <- EditsAndClose
    Careful = TRUE
    MaxMark = 2
    MaxTabOps = 3
    MaxLosses = 1
    MaxReloads = 1
    MayLoadOffline = TRUE
    RunsInit = TRUE
INVARIANTS
    TypeOK
    UnsavedCoversEdits
PROPERTIES
    EditsSurvive
