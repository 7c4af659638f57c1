SPECIFICATION Spec
CONSTANTS
  k = k
  a = a
  b = b
  NONE = NONE
  Keys = {k}
  Values = {a}
  Slaves = {s1, s2}
  Writes <- OneWrite
  TableSize = 1
  RingMax = 2
  CacheMax = 1
  HoldMax = 1
  MaxWrites = 2
  MaxCrashes = 1
SYMMETRY SlaveSymmetry
INVARIANTS
  FullSyncExclusive
  StreamInOrder
  StreamMeetsSnapshot
CHECK_DEADLOCK FALSE
