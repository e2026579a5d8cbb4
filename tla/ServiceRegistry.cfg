SPECIFICATION Spec
CONSTANTS
    c1 = c1
    c2 = c2
    q1 = q1
    th1 = th1
    th2 = th2
    None = None
    Sandboxes = {c1, c2}
    Servers = {q1}
    Ports = {0, 1}
    Threads = {th1, th2}
    MaxCrashes = 1
SYMMETRY Alike
INVARIANTS
    TypeOK
PROPERTIES
    OnePortOneRow
    RunningStaysListed
    StopsStayOnTheirPort
