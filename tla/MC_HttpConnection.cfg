SPECIFICATION LifeSpec
CONSTANTS
  Messages <- FramedMessages
  BodyLen = 2
  Chunkings <- TwoByteChunkings
  DebugBuild = TRUE
INVARIANT TypeOK
INVARIANT HasMessageBodyMatchesSpec
INVARIANT BodyIsExact
PROPERTY DoneEventually
INVARIANT OwnershipSafe
PROPERTY NoLeak
CHECK_DEADLOCK FALSE
