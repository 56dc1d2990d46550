SPECIFICATION MCSpec
CONSTANTS
    Keys = {k1, k2}
    Values = {v1}
    Tombstone = Tombstone
    Absent = Absent
    Depth = 3
    MaxSeq = 8
    NoMerge = NoMerge
    StorageIds = {1,2,3,4,5,6,7,8,9,10,11,12,13,14,15,16}
    Null = 0
    Views = {r1}
    NoList = NoList
    MaxToken = 4
    None = None
INVARIANTS RefsExact OpenHandlesAreCurrent
PROPERTIES ViewsFrozen ImplementsList HandlesEndOnce ImplementsDatabase
CHECK_DEADLOCK FALSE
