CONSTANTS
  A = A
  B = B
  Buffers = {A}
  Lens = {1, 2}
  MaxBytes = 4
  MaxReadable = 5
  MaxSegments = 4
  Garbage = {0}
  ReserveKeepsWriteIt = TRUE
  CopyInProduces = FALSE

SPECIFICATION Spec
CONSTRAINT StateBound

INVARIANT BufferInvariant
