SPECIFICATION FairSpec
CONSTANTS
  MaxPlannerAttempts = 2
  MaxExecutorAttempts = 2
  NConns = 2
  Deletable = {1, 2}
INVARIANTS
  TypeOK
  ExecutesValidatedPlan
  RightConnection
  ResultShown
PROPERTIES
  ImplementsTurn
CHECK_DEADLOCK FALSE
