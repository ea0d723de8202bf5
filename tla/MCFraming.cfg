SPECIFICATION Spec
CONSTANTS
  Readers = {"engine", "raw", "target", "page", "dap", "text", "lines", "output"}
  Streams <- MCStreams
  HeaderDigits = 2
  MaxPartial = 6
  MaxShown = 2
  MaxConnections = 2
  MaxReads = 6
INVARIANTS TypeOK Delivered
CHECK_DEADLOCK FALSE
