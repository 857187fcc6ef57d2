SPECIFICATION FairSpec
CONSTANTS
  Clients = {c1}
  Sessions = {s1}
  Announcing = {s1}
  MaxEvents = 3
INVARIANTS
  GoneHoldsNothing
CHECK_DEADLOCK FALSE
