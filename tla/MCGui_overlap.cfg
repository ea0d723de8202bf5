SPECIFICATION Spec
CONSTANTS
  Words = {"run", "starti", "continue", "print", "frame", "kill"}
  Overlaps = TRUE
  MaxCommands = 3
  MaxQueue = 1
  MaxPauses = 2
  MaxDepth = 2
  MaxClicks = 2
  MaxDisplays = 1
INVARIANTS NeverOffersRunning
CHECK_DEADLOCK FALSE
