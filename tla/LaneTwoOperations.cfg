SPECIFICATION Spec
CONSTANTS
  Ops = {o1, o2}
  None = None
  MaxAttempts = 2
  MaxEffects = 2
  MaxPasses = 2
  MaxAborts = 2
  MaxCrashes = 1
SYMMETRY OpSymmetry
INVARIANTS
  TypeOK
  SignalMeansCancelled
  PassGoesOn
  CapabilityCurrent
PROPERTIES
  LifecycleSpec
CHECK_DEADLOCK FALSE
