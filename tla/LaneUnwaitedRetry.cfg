SPECIFICATION Spec
CONSTANTS
  Callers = {c1, c2, c3}
  Calls = {"resume", "direct"}
  Restored = Restored
  None = None
  MaxWaits = 1
SYMMETRY CallerSymmetry
INVARIANTS
  ConveniencesNeverFault
CHECK_DEADLOCK FALSE
