SPECIFICATION FairSpec
CONSTANTS
  Pids = {p1, p2}
  NoPid = NoPid
  Pairs = 2
  MaxVersion = 4
  Faults = {"socketpair", "fork", "malloc", "child", "rename", "skip"}
INVARIANTS
  OneChild
  
  DumpIsSnapshot
PROPERTIES
  DumpNeverOlder
  
CHECK_DEADLOCK FALSE
