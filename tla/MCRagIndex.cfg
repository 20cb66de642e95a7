SPECIFICATION FairSpec
CONSTANTS
  c1 = c1
  c2 = c2
  a = a
  b = b
  Conns <- MCConns
  Tables <- MCTables
  Owned <- Shared
  MaxVersion = 2
  MaxTasks = 2
  MaxRetries = 2
  MaxWorkers = 2
  Crashes = 1
INVARIANTS
  IndexSound
  IndexFollowsBundle
PROPERTIES
  OwnerKept
  IndexEnds
CHECK_DEADLOCK FALSE
