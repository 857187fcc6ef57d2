SPECIFICATION Spec
CONSTANTS
  MaxItems = 3
  MaxHooks = 1
  MaxRounds = 4
INVARIANTS
  InboxKept
PROPERTIES
  UserInputFirst
  NextRunWaits
CHECK_DEADLOCK FALSE
