CONSTANTS
  Connections = {c1}
  Keys = {k1, k2}
  MaxVersion = 2
  TTL = 2
  MaxTurns = 1
  MaxRequests = 2
  Outages = 1
SPECIFICATION CacheFairSpec
INVARIANTS
  CacheSound
PROPERTIES
  StaleAnswersEnd
  DeletedAreForgotten
CHECK_DEADLOCK FALSE
