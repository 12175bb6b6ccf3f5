CONSTANTS
  SegSize = 6
  IntSize = 1
  PtrSize = 1
  FlagBit = 128
  Profiled = TRUE
  Requests = {1, 7}
  Strays = {0, 5}
  Data <- MCData
SPECIFICATION Spec
VIEW DataView
INVARIANTS TypeOK SizesIntact MaxUsedCoversUse
PROPERTY DataKept
