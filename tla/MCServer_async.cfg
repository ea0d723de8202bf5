SPECIFICATION Spec
CONSTANTS
  Ports = {p1}
  MaxReqs = 2
  MaxConns = 3
  MaxBreaks = 1
  SyncClose = FALSE
  None = None
INVARIANTS
  SettledByItsEngine
CHECK_DEADLOCK FALSE
