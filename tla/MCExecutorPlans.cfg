CONSTANTS
  SegSize = 9
  IntSize = 1
  ItemSize = 2
  Byte = 8
  t1 = t1
  t2 = t2
  Plans <- MCPlans
  Tables = {t1, t2}
  MaxDicts = 3
  OtherSizes = {2}
  None = None
  Damaged = Damaged
  Junk = Junk
SPECIFICATION Spec
VIEW ExecutorView
INVARIANTS TypeOK OthersKept DictionariesOwned DictionaryFits MemoryReturned ListInMemory
PROPERTIES StoredIsDefined ExecuteReturns
