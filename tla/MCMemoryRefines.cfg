CONSTANTS
  SegSize = 10
  IntSize = 1
  PtrSize = 2
  FlagBit = 128
  Profiled = FALSE
  Requests = {0, 1, 11}
  Strays = {0, 9}
  Data <- MCData
SPECIFICATION Spec
VIEW BookkeepingView
INVARIANTS BlocksDisjoint SegmentShape TopSizes
PROPERTY ImplementsTwoStacks
