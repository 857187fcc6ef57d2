SPECIFICATION Spec
CONSTANTS
  Ops = {o1}
  None = None
  MaxAttempts = 2
  MaxEffects = 2
  MaxPasses = 2
  MaxAborts = 1
  MaxCrashes = 0
INVARIANTS
  AbortWakesRetryWait
CHECK_DEADLOCK FALSE
