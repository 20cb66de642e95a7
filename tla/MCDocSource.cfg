CONSTANTS
  Sources = {s1}
  Names <- MCNames
  Contents <- MCContents
  MaxReloads = 1
  MaxRuns = 2
  MaxRetries = 0
  MaxWorkers = 2
  Faults = 1
  Workspaces = {"w"}
  WorkspaceOf <- MCWorkspaceOf
SPECIFICATION FairSpec
INVARIANTS
  SourcesSound
PROPERTIES
  ChunksReplaced
  HarvestSettles
  ChangesReachIndex
CHECK_DEADLOCK FALSE
