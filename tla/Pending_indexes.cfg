SPECIFICATION Spec
CONSTANTS
    Op = {1, 2, 3, 4, 5, 6}
    Deps <- ShortcutDeps
    Topic = {"t1", "t2"}
    TopicOf <- ShortcutTopics
    Charge <- ShortcutCharges
    Source = {s1, s2}
    MaxOps = 3
    MaxBytes = 5
    MaxSourceOps = 2
    MaxSourceBytes = 2
    MaxTopicOps = 3
    MaxTopicBytes = 4
    MaxWaiters = 1
    MaxMissing = 2
    MaxRejected = 1
    MaxIdle = 0
    MaxTime = 1
SYMMETRY Sources
INVARIANTS
    IndexesAgree
    WaitsExact
    RejectedStaysOut
    UsageExact
CHECK_DEADLOCK FALSE
