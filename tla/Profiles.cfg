SPECIFICATION Spec
CONSTANTS
    None = None
    Torn = Torn
    Corrupt = Corrupt
    Profiles = {p1, p2}
    Contents = {c1, c2}
    DefaultRaw = c1
    Updates = {u1, u2}
    Faults = {"uiKill", "extKill", "corrupt", "writeFails"}
    MaxFaults = 2
    MaxOps = 2
    MaxStarts = 1
SYMMETRY Symmetry
INVARIANTS TypeOK ActiveListed ListSurvives DeletedStaysDeleted DeletedLeavesNothing
    LocalsHaveFiles RuntimeFollowsRaw LaunchUsesRaw
CHECK_DEADLOCK FALSE
