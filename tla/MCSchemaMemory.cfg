CONSTANTS
  SegSize = 13
  IntSize = 1
  ItemSize = 1
  Byte = 4
  t1 = t1
  t2 = t2
  Tables = {t1}
  TableLen <- MCTableLen
  NameLen <- MCNameLen
  Schemas <- MCMemorySchemas
  MaxOpen = 2
  Faults = {"close", "read", "seek"}
  OtherSizes = {2}
  None = None
  Damaged = Damaged
  Garbled = Garbled
SPECIFICATION Spec
VIEW SchemaView
INVARIANTS OthersKept NothingLost
PROPERTY FreesInOrder

