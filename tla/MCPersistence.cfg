SPECIFICATION Spec
CONSTANTS
  k = k
  a = a
  b = b
  NONE = NONE
  Keys = {k}
  Values = {a, b}
  Writes <- KeyWrites
  Faults = {"log", "io"}
  MaxFrames = 4
  MaxDumps = 3
  MaxCrashes = 2
INVARIANTS
  FileOverDump
PROPERTIES
  CrashRollsBack
CONSTRAINT Undamaged
CHECK_DEADLOCK FALSE
