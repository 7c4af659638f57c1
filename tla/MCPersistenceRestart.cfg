SPECIFICATION Spec
CONSTANTS
  k = k
  a = a
  b = b
  NONE = NONE
  Keys = {k}
  Values = {a, b}
  Writes <- KeyWrites
  Faults = {}
  MaxFrames = 3
  MaxDumps = 1
  MaxCrashes = 1
INVARIANTS
  RestartRecovers
CHECK_DEADLOCK FALSE
