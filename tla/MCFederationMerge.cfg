SPECIFICATION MergeSpec
CONSTANTS
  Null = Null
  Doc = Doc
  Nested = {Doc}
  MaxRows = 3
  Cells <- MCCells
  Drafts <- MCDrafts
  Bundles <- MCBundles
  SubResults <- MCSubResults
INVARIANTS
  MergeSound
  AcceptedPlansMerge
CHECK_DEADLOCK FALSE
