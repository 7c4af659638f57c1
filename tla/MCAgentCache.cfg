SPECIFICATION Spec
CONSTANTS
  Capacity = 8
  HeadLen = 2
  SizeMax = 8
  Byte = {0, 1, 2}
  LenBytes <- MCLenBytes
  LenOf <- MCLenOf
  Buffers <- MCBuffers
  NULL = NULL
INVARIANTS
  RingHoldsRecords
PROPERTIES
  ImplementsFifo
