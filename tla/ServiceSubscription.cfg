SPECIFICATION FairSpec
CONSTANTS
  MaxChanges = 2
  MaxRebinds = 1
  MaxDrops = 1
INVARIANTS
  GapFree
PROPERTIES
  ViewSpec
  Converges
CHECK_DEADLOCK FALSE
