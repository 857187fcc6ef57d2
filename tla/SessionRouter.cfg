SPECIFICATION FairSpec
CONSTANTS
  Clients = {c1, c2}
  Sessions = {s1, s2}
  Announcing = {s1}
  MaxEvents = 4
INVARIANTS
  LeasesAccounted
  RouteCurrent
PROPERTIES
  CallsKeepLease
  OperationsEnd
CHECK_DEADLOCK FALSE
