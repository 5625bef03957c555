SPECIFICATION Spec
CONSTANTS
    Peer = {1, 2}
    Replica = {1}
    Founders = {{1}}
    EventType = {"note"}
    Policy = {"all"}
    LocalPayload <- NoPayload
    ForeignPayload <- StrangePayload
    GenesisId = {1}
    OpId = {11}
    ForeignId = {21, 22}
    Sealable = {}
    Fragile = {}
    MaxActors = 3
    MaxEvictions = 1
    MaxBatch = 2
    MaxForeign = 2
INVARIANTS
    ChainsLinked
    Rooted
    CausalMembership
CHECK_DEADLOCK FALSE
