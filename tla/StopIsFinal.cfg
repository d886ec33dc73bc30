SPECIFICATION Spec
CONSTANTS
    NoProfile = NoProfile
    Profiles = {p1}
    MisreadNames = {}
    Slots = {s1, s2}
    Faults = {}
    MaxFaults = 0
    MaxWants = 2
    DebugBuild = FALSE
INVARIANT StopIsFinal
CHECK_DEADLOCK FALSE
