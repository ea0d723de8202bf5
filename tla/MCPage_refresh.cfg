SPECIFICATION Spec
CONSTANTS
  Files = {f, g}
  Lines = {l, m}
  MainLine = l
  Scopes = 2
  SlowSources = TRUE
  MaxStops = 2
  MaxRefreshes = 3
  MaxCommands = 1
INVARIANTS ShownIsNewest
CHECK_DEADLOCK FALSE
