SPECIFICATION FairSpec
CONSTANTS
  Source = {1, 2}
  Topic = {1, 2}
  Branch = {1, 2}
  Span = 3
  Caller = {1, 2}
  Joined <- JoinedLate
  Offers <- Mixed
  Namespaces = 2
  SourceNamespaces = 1
  TotalBytes = 4
  SourceBytes = 4
  NamespaceBytes = 4
  MaxPending = 2
  SourcePending = 1
  TopicPending = 2
  Chunk = 2
  Idle = 0
  MaxTime = 1
  MaxCalls = 3
  MaxCrashes = 1
INVARIANTS WholeHistory ClaimOwned StagedWithinLimits
PROPERTIES AtomicBirth ClaimCompletes
CHECK_DEADLOCK FALSE
