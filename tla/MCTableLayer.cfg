CONSTANTS
  SegSize = 7
  IntSize = 1
  ItemSize = 1
  Byte = 8
  t1 = t1
  Plans <- MCPlans
  Tables = {t1}
  MaxDicts = 2
  Junk = Junk
  TableLen <- MCTableLen
  NameLen <- MCNameLen
  Schemas <- MCSchemas
  MaxOpen = 1
  Faults = {"write", "power"}
  Garbled = Garbled
  None = None
  Damaged = Damaged
SPECIFICATION Spec
VIEW LayerView
INVARIANTS TypeOK BlocksKept MemoryReturned
PROPERTIES LoadedAsDefined ImplementsExecutor ImplementsSchemas CallsReturn
