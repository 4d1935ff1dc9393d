\* Two fibers, two keys, four operations: enough for two updates of one
\* key to race, and a set to land between another fiber's read and write.
CONSTANTS
  p = p
  q = q
  k1 = k1
  k2 = k2
  Fibers <- MCFibers
  Keys <- MCKeys
  Values = {7}
  NoFiber = NoFiber
  Absent = Absent
  MaxOps = 4
SPECIFICATION Spec
INVARIANT TypeOK
PROPERTY CacheLinearizable
PROPERTY AllFinish
