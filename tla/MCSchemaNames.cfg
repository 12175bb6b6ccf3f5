CONSTANTS
  SegSize = 14
  IntSize = 1
  ItemSize = 1
  Byte = 8
  t1 = t1
  t2 = t2
  Tables = {t1}
  TableLen <- MCTableLen
  NameLen <- MCNameLen
  Schemas <- MCOverlong
  MaxOpen = 1
  Faults = {}
  OtherSizes = {}
  None = None
  Damaged = Damaged
  Garbled = Garbled
SPECIFICATION AnyNamesSpec
INVARIANT NamesFit
