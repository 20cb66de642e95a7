SPECIFICATION FairSpec
CONSTANTS
  MaxJobs = 3
  MaxVersion = 2
  MaxWorkers = 2
  Crashes = 1
INVARIANTS
  StatusSound
PROPERTIES
  BundleMonotone
  Settles
CHECK_DEADLOCK FALSE
