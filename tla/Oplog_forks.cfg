SPECIFICATION Spec
CONSTANTS
    Peer = {1, 2}
    Replica = {1, 2}
    Founders = {{1, 2}}
    EventType = {"note"}
    Policy = {"all"}
    LocalPayload <- EventsOnly
    ForeignPayload <- NoPayload
    GenesisId = {1}
    OpId = {11, 12, 13}
    ForeignId = {}
    Sealable = {}
    Fragile = {1}
    MaxActors = 3
    MaxEvictions = 1
    MaxBatch = 2
    MaxForeign = 0
INVARIANTS
    BufferLive
    ReadyIsDecided
CHECK_DEADLOCK FALSE
