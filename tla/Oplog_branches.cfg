SPECIFICATION Spec
CONSTANTS
    Peer = {1, 2}
    Replica = {1, 2}
    Founders = {{1, 2}}
    EventType = {"note"}
    Policy = {"all"}
    LocalPayload <- EventsOnly
    ForeignPayload <- NoPayload
    GenesisId = {1, 2, 3}
    OpId = {11, 12}
    ForeignId = {}
    Sealable = {1}
    Fragile = {2}
    MaxActors = 3
    MaxEvictions = 1
    MaxBatch = 2
    MaxForeign = 0
INVARIANTS
    OwnWorkKept
PROPERTIES
    BranchDescends
    BranchGrows
CHECK_DEADLOCK FALSE
