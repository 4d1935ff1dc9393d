SPECIFICATION LifeSpec
CONSTANTS
  Messages <- CloseDelimited
  BodyLen = 2
  Chunkings <- TwoByteChunkings
  DebugBuild = TRUE
PROPERTY DoneEventually
CHECK_DEADLOCK FALSE
