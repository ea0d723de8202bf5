SPECIFICATION FairSpec
CONSTANTS
  Ports = {p1, p2}
  MaxReqs = 2
  MaxConns = 2
  MaxBreaks = 1
  SyncClose = TRUE
  None = None
INVARIANTS
  TypeOK
  SettledByItsEngine
  OneEngine
  NoPromiseIsLost
PROPERTIES
  RequestsAnswered
CHECK_DEADLOCK FALSE
