SPECIFICATION Spec
CONSTANTS
  Bounds = {0, 1, 3, 5}
  ToCount = ToCount
  ChunkSizes = {1, 2, 4}
  MaxSlots = 4
INVARIANT ReadsWhatStood
INVARIANT ReadsTheRange
PROPERTY NeverPastTheEnd
