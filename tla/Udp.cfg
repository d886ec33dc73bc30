SPECIFICATION FairSpec
CONSTANTS
    Origins = {o1, o2}
    Targets = {t1, t2}
    Invalid = Invalid
    QueueCapacity = 1
    SenderCapacity = 2
    MaxPackets = 3
INVARIANTS OneOwner SentInOrder EntryIsOwn RepliesMatch
PROPERTIES PacketsSettle
CHECK_DEADLOCK FALSE
