SPECIFICATION FairSpec
CONSTANTS
  Fronts = {"batch", "repl"}
  Modes = {"listen", "connect", "external"}
  Words = {"info", "print", "locals", "display", "frame", "interrupt", "continue", "run", "starti", "kill", "quit", "quitN"}
  MaxLines = 2
  MaxDepth = 2
INVARIANTS
  TypeOK
  OneDebuggee
  RecordsTell
  ExitStatus
PROPERTIES
  BatchEnds
CHECK_DEADLOCK FALSE
