SPECIFICATION Spec
CONSTANTS
    NoProfile = NoProfile
    Profiles = {p1, p2}
    MisreadNames = {p2}
    Slots = {s1, s2}
    Faults = {"lost", "reject", "stopReject", "uiKill", "vpnCrash", "extDestroy", "sysDisconnect", "profileGone"}
    MaxFaults = 1
    MaxWants = 2
    DebugBuild = TRUE
SYMMETRY SlotSymmetry
INVARIANTS TypeOK RunningClaimBacked StartExclusive DestroyExclusive ConnectedIsTruthful SamplingOnlyConnected
CHECK_DEADLOCK FALSE
