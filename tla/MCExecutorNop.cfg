CONSTANTS
  SegSize = 8
  IntSize = 1
  ItemSize = 2
  Byte = 8
  t1 = t1
  t2 = t2
  Plans <- NopBetween
  Tables = {t1, t2}
  MaxDicts = 3
  OtherSizes = {1, 2}
  None = None
  Damaged = Damaged
  Junk = Junk
SPECIFICATION Spec
PROPERTY NopDoesNothing
