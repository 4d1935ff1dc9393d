SPECIFICATION LifeSpec
CONSTANTS
  Messages <- FramedMessages
  BodyLen = 2
  Chunkings <- TwoByteChunkings
  DebugBuild = TRUE
INVARIANT DoneFiresOnce
CHECK_DEADLOCK FALSE
