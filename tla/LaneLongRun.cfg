SPECIFICATION FairSpec
CONSTANTS
  Ops = {o1}
  None = None
  MaxAttempts = 2
  MaxEffects = 3
  MaxPasses = 2
  MaxAborts = 1
  MaxCrashes = 1
INVARIANTS
  FramesOwned
PROPERTIES
  EffectBehindIntent
  OutcomeWrittenOnce
  
  NoAbandonedEffect
CHECK_DEADLOCK FALSE
