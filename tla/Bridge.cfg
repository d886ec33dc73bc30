SPECIFICATION FairSpec
CONSTANTS
    None = None
    Dialers = {d1, d2}
    Ops = {"start", "stop", "disable"}
    SyncCalls = {"isRunning", "enable"}
    MaxDials = 1
    MaxOps = 2
    MaxJs = 2
INVARIANTS TypeOK SuccessUnlessLate QuietAfterStop
PROPERTIES HookedWhileStarted WaitsEnd
CHECK_DEADLOCK FALSE
