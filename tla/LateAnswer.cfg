SPECIFICATION Spec
CONSTANTS
    None = None
    Dialers = {d1}
    Ops = {"start"}
    SyncCalls = {}
    MaxDials = 2
    MaxOps = 1
    MaxJs = 1
INVARIANT SuccessMeansProtected
CHECK_DEADLOCK FALSE
