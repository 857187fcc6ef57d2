SPECIFICATION FairSpec
CONSTANTS
  Batches <- MCBatches
  MaxPasses = 2
INVARIANTS
  BatchTakenToItsEnd
  RowsOwned
  AbortedNeverRan
PROPERTIES
  OrderedSpec
  ToolBehindIntent
  BatchEnds
CHECK_DEADLOCK FALSE
