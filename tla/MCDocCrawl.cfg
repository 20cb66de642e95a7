SPECIFICATION FairCrawl
CONSTANTS
  Worlds <- MCWorlds
  Cap = 4
  MaxFaults = 2
INVARIANTS
  FailuresContained
  DocumentsApart
  CapKept
PROPERTIES
  CrawlEnds
CHECK_DEADLOCK FALSE
