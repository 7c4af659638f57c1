SPECIFICATION ThreadsSpec
CONSTANTS
  Capacity = 5
  Overhead = 1
  Buffers <- MCBuffers
  NULL = NULL
  Fds = {f1, f2}
  TableSize = 1
  MaxBurst = 2
  MaxSends = 1
INVARIANTS
  TableIsOpen
  NoLostWakeUp
PROPERTIES
  StreamEndsAtGap
  RecordTaken
  AgentEnds
CHECK_DEADLOCK FALSE
