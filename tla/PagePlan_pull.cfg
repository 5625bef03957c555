SPECIFICATION FairSpec
CONSTANTS
  Actor = {1,2,3,4}
  MaxSeq = 2
  Histories <- Small
  Items = 3
  PageOps = 2
  PageActors = 2
  PagePositions = 2
  Visits = 4
  Mode = {"named","informed","push"}
  Collisions = {{},{3}}
  MaxLost = 1
  MaxEvictions = 1
  MaxWipes = 1
  MaxOutside = 1
INVARIANTS PagesAdmissible NothingHeldIsSent
PROPERTIES PullCompletes
CHECK_DEADLOCK FALSE
