SPECIFICATION FairSpec
CONSTANTS
  a = a
  b = b
  NONE = NONE
  Keys = {1, 2, 3, 4}
  Values = {a, b}
  ArrayKeys = {1, 2}
  KVS_ARRAY_SIZE = 2
  Files <- Snapshots
  Disks <- OldFiles
  ConfFiles <- Confs
  Word = 4
  Window = 1
  Faults = {"link", "fork", "child", "split", "sendfile", "verbs", "malloc", "mmap", "crash"}
INVARIANTS
  LoadsWhole
  FinishedIsHeard
  OwnThenSnapshot
PROPERTIES
  
  MasterFreed
CHECK_DEADLOCK FALSE
