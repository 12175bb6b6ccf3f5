CONSTANTS
  Names = {"f"}
  Bytes <- MCBytes
  Sizes = {1, 2}
  Counts = {1, 2}
  Offsets <- MCOffsets
  WriteCounts = {1}
  Modes = {"rb", "w", "w+b", "wb+"}
  Faults = {}
  MaxSize = 4
  MaxHeap = 3
  Word = 16
  None = None
SPECIFICATION Spec
PROPERTY CreatesForUpdate
