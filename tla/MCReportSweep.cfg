CONSTANTS
  r1 = r1
  r2 = r2
  Schedules = {r1, r2}
  Cron <- MCCron
  Hooks <- MCHooks
  Mailed = {r1}
  Malformed = {"bad"}
  MaxTime = 3
  MaxSweeps = 2
  MaxWorkers = 2
  Crashes = 1
SPECIFICATION FairSpec
INVARIANTS
  RecordsTrue
  OneMailPerMinute
PROPERTIES
  DueIsTried
CHECK_DEADLOCK FALSE
