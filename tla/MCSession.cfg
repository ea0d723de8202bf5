SPECIFICATION FairSpec
CONSTANTS
  Calls = {c1, c2}
  Kinds = {"request", "continue", "step", "wait", "query"}
  Paths = {p}
  MaxSeq = 4
  TimeoutOn = TRUE
  Nothing = Nothing
INVARIANTS
  TypeOK
  PendingIsOpen
  CallsMatchRequests
PROPERTIES
  LedgerSpec
  RequestsSettle
  StepSeesTheStop
CHECK_DEADLOCK FALSE
