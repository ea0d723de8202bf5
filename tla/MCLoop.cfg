SPECIFICATION FairSpec
CONSTANTS
  Lines = {1}
  MaxNum = 2
  MaxInbox = 1
  Commands = {"continue", "until"}
INVARIANTS
  TypeOK
  EngineKnowsBreakpoints
PROPERTIES
  StopsRightly
  WatchIsKept
  CommandEnds
CHECK_DEADLOCK FALSE
