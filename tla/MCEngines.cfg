SPECIFICATION Spec
CONSTANTS
  a = a
  b = b
  NONE = NONE
  TreeKeys = 10
  ModKeys = {4}
  WaitKeys = 9
  Keys <- AllKeys
  Values = {a, b}
  Calls <- EngineCalls
  Faults = {"SET", "MOD", "HSET", "HMOD", "LSET", "LMOD", "RSET"}
  KVS_ARRAY_SIZE = 3
  MAX_TABLE_SIZE = 2
  Hash <- Parity
  SKIPLIST_MAX_LEVEL = 3
VIEW Data
INVARIANTS
  WellFormed
  DestroyFreesAll

  
