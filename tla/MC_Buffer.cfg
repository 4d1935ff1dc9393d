\* One Buffer, deep bounds, both upstream fixes applied: checks the rest of
\* buffer.cpp.
CONSTANTS
  A = A
  B = B
  Buffers = {A}
  Lens = {1, 2}
  MaxBytes = 5
  MaxReadable = 5
  MaxSegments = 4
  Garbage = {0}
  ReserveKeepsWriteIt = TRUE
  CopyInProduces = TRUE

SPECIFICATION Spec
CONSTRAINT StateBound

INVARIANT TypeOK
INVARIANT BufferInvariant
INVARIANT QueriesAgreeWithContent
INVARIANT FindDelimitedCorrect
INVARIANT WriteBufHasRoom
PROPERTY ContentsRefined
