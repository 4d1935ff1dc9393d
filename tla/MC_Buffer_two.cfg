\* Two Buffers, both upstream fixes applied: copyIn(Buffer) between two
\* lists, each with its own m_writeIt and mixed Data.
CONSTANTS
  A = A
  B = B
  Buffers = {A, B}
  Lens = {1, 2}
  MaxBytes = 2
  MaxReadable = 3
  MaxSegments = 3
  Garbage = {0}
  ReserveKeepsWriteIt = TRUE
  CopyInProduces = TRUE

SPECIFICATION Spec
CONSTRAINT StateBound

INVARIANT BufferInvariant
PROPERTY ContentsRefined
