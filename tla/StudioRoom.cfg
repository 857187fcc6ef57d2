SPECIFICATION FairSpec
CONSTANTS
  Sessions = {s1}
  Rooms = {r1}
  NoRoom = NoRoom
  MaxOps = 1
  MaxCommands = 2
  MaxReads = 2
  MaxFaults = 1
INVARIANTS
  ReportsAreTrue
  AdmittedAddOnce
  EvidenceCurrent
PROPERTIES
  SentForALiveRequest
  ToolCallsReturn
CHECK_DEADLOCK FALSE
