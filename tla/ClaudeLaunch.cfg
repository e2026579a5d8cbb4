SPECIFICATION LaunchSpec
CONSTANTS
    a1 = a1
    s1 = s1
    s2 = s2
    r1 = r1
    r2 = r2
    None = None
    Other = Other
    Agents = {a1}
    Places = {s1, s2}
    Extends <- LongerNames
    Launchers = {"tmux", "process"}
    Requests = {r1, r2}
    Workspace = s1
SYMMETRY Alike
INVARIANTS
    TypeOK
    RunningIsRegistered
    LaunchTypeOK
    OutcomesAgree
    PromptsAreRead
PROPERTIES
    StopEndsItAlone
    ImplementsAgents
    SecondWindowsAreRaces
