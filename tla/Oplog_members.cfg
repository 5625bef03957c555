SPECIFICATION FairSpec
CONSTANTS
    Peer = {1, 2}
    Replica = {1, 2}
    Founders = {{1, 2}}
    EventType = {"note"}
    Policy = {"all"}
    LocalPayload <- ExpelPayload
    ForeignPayload <- NoPayload
    GenesisId = {1, 2}
    OpId = {11, 12}
    ForeignId = {}
    Sealable = {}
    Fragile = {}
    MaxActors = 3
    MaxEvictions = 1
    MaxBatch = 1
    MaxForeign = 0
INVARIANTS
    StateIsFold
    LocalOpsAdmissible
    MembersCanWrite
PROPERTY Convergence
CHECK_DEADLOCK FALSE
