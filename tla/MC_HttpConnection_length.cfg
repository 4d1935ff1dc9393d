SPECIFICATION LifeSpec
CONSTANTS
  Messages <- LengthKeepAlive
  BodyLen = 2
  Chunkings <- TwoByteChunkings
  DebugBuild = TRUE
INVARIANT BodyIsExact
CHECK_DEADLOCK FALSE
