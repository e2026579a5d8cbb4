SPECIFICATION FairSpec
CONSTANTS
    t1 = t1
    t2 = t2
    hub = hub
    far = far
    p1 = p1
    p2 = p2
    v = v
    th1 = th1
    th2 = th2
    None = None
    Tasks = {t1}
    Machines = {hub, far}
    HubMachine = hub
    PidTakers = {p2}
    LeaseTakers = {v}
    Home <- AllFar
    AskFor <- AskFar
    Place <- PlaceAnywhere
    Scopes <- FarScope
    Priorities = {0}
    Threads = {th1, th2}
    MaxRequeues = 1
    RequeueCap = 0
    MaxRestarts = 1
PROPERTIES
    DeadTakerIsReaped
    SilentTakerIsReaped
