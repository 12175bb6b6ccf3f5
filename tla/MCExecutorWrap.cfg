CONSTANTS
  SegSize = 8
  IntSize = 1
  ItemSize = 2
  Byte = 4
  t1 = t1
  t2 = t2
  Plans <- LongPlan
  Tables = {t1, t2}
  MaxDicts = 3
  OtherSizes = {1, 2}
  None = None
  Damaged = Damaged
  Junk = Junk
SPECIFICATION Spec
PROPERTY RunsToTheEnd
