SPECIFICATION FairSpec
CONSTANTS
  Callers = {c1, c2, c3}
  Calls = {"prompt", "structural", "resume", "abort", "waitForIdle", "runWhenIdle", "direct", "close"}
  Restored = Restored
  None = None
  MaxWaits = 1
INVARIANTS
  TypeOK
  IdleExclusive
  NoLostWakeup
  AnswersItsOwn
  AbortMeansSettled
  CloseWaitsForCallback
PROPERTIES
  CallsReturn
CHECK_DEADLOCK FALSE
