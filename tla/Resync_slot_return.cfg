SPECIFICATION FairSpec
CONSTANTS
    Peer = {p1}
    Topic = {t1}
    MaxSlots = 1
    MaxTopics = 1
    MaxManual = 1
    Overrun = FALSE
    MaxAttempt = 2
    MaxRequests = 1
PROPERTY DueIsClaimed
CHECK_DEADLOCK FALSE
