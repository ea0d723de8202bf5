SPECIFICATION FairSpec
CONSTANTS
  MaxFrames = 3
  MaxChunks = 2
  MaxPerChunk = 2
  HandlerMayClose = TRUE
INVARIANTS
  TypeOK
  PendingIsKnown
PROPERTIES
  ChannelSpec
  LinkEnds
CHECK_DEADLOCK FALSE
