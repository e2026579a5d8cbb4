SPECIFICATION Spec
CONSTANTS
    a1 = a1
    a2 = a2
    s1 = s1
    s2 = s2
    s3 = s3
    None = None
    Other = Other
    Agents = {a1, a2}
    Places = {s1, s2, s3}
    Extends <- LongerNames
    Launchers = {"byobu-tmux"}
PROPERTIES
    StopEndsItAlone
