SPECIFICATION Spec
CONSTANTS
  Files = {f}
  Lines = {l, m}
  MainLine = l
  Scopes = 2
  SlowSources = FALSE
  MaxStops = 2
  MaxRefreshes = 2
  MaxCommands = 2
INVARIANTS TypeOK ShownIsNewest GutterIsTrue NoRefreshIsLost
PROPERTIES NeverBack
CHECK_DEADLOCK FALSE
