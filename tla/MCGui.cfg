SPECIFICATION FairSpec
CONSTANTS
  Words = {"run", "starti", "continue", "print", "frame", "kill"}
  Overlaps = FALSE
  MaxCommands = 2
  MaxQueue = 1
  MaxPauses = 3
  MaxDepth = 2
  MaxClicks = 2
  MaxDisplays = 2
INVARIANTS TypeOK ShownIsCurrent ToolbarTells
PROPERTIES PendingIsShown
CHECK_DEADLOCK FALSE
