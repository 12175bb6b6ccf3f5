CONSTANTS
  SegSize = 9
  IntSize = 1
  PtrSize = 1
  FlagBit = 128
  Profiled = FALSE
  Requests = {1, 10}
  Strays = {0, 8}
  Data <- MCData
SPECIFICATION Spec
INVARIANT TopSizeRead
