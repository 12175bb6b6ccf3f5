CONSTANTS
  SegSize = 11
  IntSize = 1
  ItemSize = 1
  Byte = 4
  t1 = t1
  t2 = t2
  Tables = {t1, t2}
  TableLen <- MCTableLen
  NameLen <- MCNameLen
  Schemas <- MCStoreSchemas
  MaxOpen = 1
  Faults = {"create", "write", "seek", "read", "remove", "power"}
  OtherSizes = {}
  None = None
  Damaged = Damaged
  Garbled = Garbled
SPECIFICATION Spec
SYMMETRY TableSymmetry
VIEW SchemaView
INVARIANT TypeOK
PROPERTY ImplementsStore

