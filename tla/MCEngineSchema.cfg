SPECIFICATION SchemaSpec
CONSTANTS
  Worlds <- MCWorlds
  DistinctCap = 2
  TermsCap = 2
  Share = 2
  Docs = 2
  IdNames <- MCIdNames
  MaxFaults = 2
INVARIANTS
  
  KeysAsDeclared
  SampleSaysAll
CHECK_DEADLOCK FALSE
