SPECIFICATION Spec
CONSTANTS
    MaxMoved = 1
    MaxSessions = 2
    MaxEvents = 2
INVARIANTS NeverOvercounts QuietAfterStop
PROPERTIES LostOnlyByOverlap
CHECK_DEADLOCK FALSE
