CONSTANTS
  A = A
  B = B
  Buffers = {A}
  Lens = {0, 1, 2}
  MaxBytes = 4
  MaxReadable = 5
  MaxSegments = 4
  Garbage = {0}
  ReserveKeepsWriteIt = TRUE
  CopyInProduces = TRUE

SPECIFICATION Spec
CONSTRAINT StateBound

INVARIANT BufferInvariant
