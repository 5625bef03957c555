SPECIFICATION Spec
CONSTANTS
    Op = {1, 2}
    Deps <- PairDeps
    Topic = {"t1"}
    TopicOf <- PairTopics
    Charge <- PairCharges
    Source = {s1}
    MaxOps = 4
    MaxBytes = 4
    MaxSourceOps = 4
    MaxSourceBytes = 4
    MaxTopicOps = 4
    MaxTopicBytes = 4
    MaxWaiters = 2
    MaxMissing = 2
    MaxRejected = 2
    MaxIdle = 1
    MaxTime = 3
PROPERTY ExpiresOnlyIdle
CHECK_DEADLOCK FALSE
