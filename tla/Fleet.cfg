SPECIFICATION FairSpec
CONSTANTS
    m1 = m1
    m2 = m2
    here = here
    far = far
    lan = lan
    s = s
    t = t
    th1 = th1
    th2 = th2
    k1 = k1
    None = None
    Names = {m1, m2}
    Hosts = {here, far, lan}
    LocalHosts = {here}
    Sessions = {s, t}
    Extends <- LongerNames
    Bootstrap <- TwoProfilesHere
    Threads = {th1, th2}
    MaxRequests = 2
    Connections = {k1}
    SessionHosts = {lan}
    Tailnet = {here, far}
    Controller = here
    Aliases = {lan}
    Malformed = {far}
    Scripts = {1, 2}
INVARIANTS
    TypeOK
    OnlyListedMachines
    ListedMachinesGetIn
    DownOnlyInRestarts
PROPERTIES
    ImplementsProfileList
    KillsSpareProfiles
    UpdatesKeepTheHub
    SweepEndsFirst
    BothSidesClose
    HubComesBack
CHECK_DEADLOCK FALSE
