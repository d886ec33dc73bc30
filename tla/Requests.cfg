SPECIFICATION FairSpec
CONSTANTS
    Nodes = {n1, n2}
    Groups = {g1, g2}
    None = None
    MaxRequests = 2
    MaxEvents = 2
INVARIANTS AnswerIsMine CoreUsesSaved
PROPERTIES DelaysAreKept RequestsSettle
CHECK_DEADLOCK FALSE
