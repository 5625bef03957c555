SPECIFICATION FairSpec
CONSTANTS
  Node = {1, 2}
  Op = {1, 2, 3, 4, 5, 6, 7, 8, 9}
  Dag <- History
  Worlds <- Scenes
  Links <- Link
  PageOps = 2
  MaxRepair = 1
INVARIANTS AckSound OwedOrHeld OwedServable
PROPERTIES CompleteIsTrue Converges
CHECK_DEADLOCK FALSE
