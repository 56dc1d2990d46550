SPECIFICATION DifferentialSpec
CONSTANTS
  Keys = {k1}
  Values = {v1, v2}
  Tombstone = Tombstone
  Absent = Absent
  NoMerge = NoMerge
  Depth = 3
  MaxSeq = 20
  MaxOps = 2
INVARIANTS CommitmentsAgree GeometryAgrees
PROPERTIES ImplementsList BatchesTakeEffect
CHECK_DEADLOCK FALSE
