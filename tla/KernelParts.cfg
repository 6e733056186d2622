SPECIFICATION PartsSpec
CONSTANTS
  HeapSizes <- MCHeapSizes
  HeaderSize = 2
  Requests = {0, 1, 2, 3, 5}
  Printers = {1, 2, 3}
  Columns = 2
  Rows = 2
  ByteRange = 4
  s1 = s1
  s2 = s2
  r = r
  Tasks <- MCTasks
  Casts <- MCCasts
  Arrays <- MCArrays
  Keys = {0, 1, 2}
  WordRange = 8
  Nibble = 2
  Bases = {0, 1, 27, 228, 255}
  Limits <- MCLimits
  Numbers <- MCNumbers
  Words = 3
  Sectors <- MCSectors
  Counts <- MCCounts
  Data <- MCData
  Noise <- MCNoise
INVARIANTS HeapIsSound CursorSettles SearchIsRight SegmentIsExact NumbersAreRight
  SectorsAreKept
PROPERTIES ImplementsAllocator PartSearchEnds
CHECK_DEADLOCK FALSE
