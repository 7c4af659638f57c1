SPECIFICATION FairSpec
CONSTANTS
  k = k
  a = a
  b = b
  NONE = NONE
  Keys = {k}
  Values = {a, b}
  Slaves = {s1}
  Writes <- AllWrites
  TableSize = 1
  RingMax = 2
  CacheMax = 1
  HoldMax = 2
  MaxWrites = 3
  MaxCrashes = 1
INVARIANTS
  ReplicaConverges

  
CHECK_DEADLOCK FALSE
