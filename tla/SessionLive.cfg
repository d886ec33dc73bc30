SPECIFICATION FairSpec
CONSTANTS
    NoProfile = NoProfile
    Profiles = {p1}
    MisreadNames = {}
    Slots = {s1, s2}
    Faults = {"lost", "reject", "uiKill", "vpnCrash", "sysDisconnect"}
    MaxFaults = 1
    MaxWants = 2
    DebugBuild = FALSE
PROPERTIES UiReturns DisconnectTearsDown
CHECK_DEADLOCK FALSE
