CONSTANTS
  SegSize = 6
  IntSize = 1
  PtrSize = 1
  FlagBit = 128
  Profiled = FALSE
  Requests = {0, 7}
  Strays = {0, 5}
  Data <- MCData
SPECIFICATION Spec
INVARIANT ErrcodeDocumented
