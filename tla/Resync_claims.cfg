SPECIFICATION Spec
CONSTANTS
    Peer = {p1}
    Topic = {t1, t2}
    MaxSlots = 2
    MaxTopics = 1
    MaxManual = 1
    Overrun = TRUE
    MaxAttempt = 3
    MaxRequests = 2
INVARIANTS
    OneTurn
    OwnerKnown
    NoLostRequest
    ForceSurvives
    OwedIsLive
CHECK_DEADLOCK FALSE
