CONSTANTS
  SegSize = 14
  IntSize = 1
  ItemSize = 1
  Byte = 4
  t1 = t1
  t2 = t2
  Tables = {t1}
  TableLen <- MCTableLen
  NameLen <- MCNameLen
  Schemas <- MCOne
  MaxOpen = 1
  Faults = {}
  OtherSizes = {3}
  None = None
  Damaged = Damaged
  Garbled = Garbled
SPECIFICATION RetrySpec
INVARIANT RetryHarmless
