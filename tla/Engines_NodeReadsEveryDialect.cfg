SPECIFICATION FairSpec
CONSTANTS
  RowCap = 2
  ScanCap = 3
  Callers = {"first", "second", "sweep"}
  Sweeper = "sweep"
  Ids = {"c", "e"}
  Jobs <- MCJobs
  PoolSize = 1
  MaxFaults = 2
INVARIANT
  NodeReadsEveryDialect
CHECK_DEADLOCK FALSE
