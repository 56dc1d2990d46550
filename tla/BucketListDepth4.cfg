SPECIFICATION HistorySpec
CONSTANTS
  Keys = {k1}
  Values = {v1, v2}
  Tombstone = Tombstone
  Absent = Absent
  NoMerge = NoMerge
  Depth = 4
  MaxSeq = 72
  MaxWrites = 2
INVARIANTS Restorable BucketsHoldTheirInterval
PROPERTIES ImplementsMap
SYMMETRY ValueSymmetry
CHECK_DEADLOCK FALSE
