SPECIFICATION FairSpec
CONSTANTS
    Depth = 2
    CacheNodes = 9
    Actor <- MCActor
    Facade = {1, 2}
    Inline = 1
    Batch = 3
    BatchEntries = 2
    MaxRejected = 1
    Scenes <- MCScenes
INVARIANTS
    RowsExact
    ClockIsPast
    UpgradeKeeps
    CacheExact
    ClockAlgebra
PROPERTIES
    Finishes
CHECK_DEADLOCK FALSE
