SPECIFICATION FairSpec
CONSTANTS
  Jobs = {j1, j2, j3, j4}
  MAX_QUEUED = 2
  MAX_JOBS_RETAINED = 3
  MaxBoots = 2
INVARIANTS
  TableBounded
  OrderMatchesTable
  QueuedIsReachable
PROPERTIES
  OnlyFinishedEvicted
  AcceptedIsFinished
  ImplementsJobBoard
CHECK_DEADLOCK FALSE
