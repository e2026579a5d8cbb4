SPECIFICATION Spec
CONSTANTS
    t1 = t1
    t2 = t2
    hub = hub
    far = far
    p1 = p1
    p2 = p2
    v = v
    th1 = th1
    th2 = th2
    None = None
    Tasks = {t1, t2}
    Machines = {hub}
    HubMachine = hub
    PidTakers = {p1}
    LeaseTakers = {}
    Home <- AllHub
    AskFor <- AskHub
    Place <- PlaceNarrow
    Scopes <- NarrowScopes
    Priorities = {0, 1}
    Threads = {th1}
    MaxRequeues = 1
    RequeueCap = 0
    MaxRestarts = 0
PROPERTIES
    NoOvertaking
