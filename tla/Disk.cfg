SPECIFICATION MCSpec
CONSTANTS
    Keys = {k1, k2}
    Values = {v1}
    Tombstone = Tombstone
    Absent = Absent
    Depth = 2
    MaxSeq = 4
    NoMerge = NoMerge
    Metadata = {m1}
    NoMetadata = NoMetadata
    Views = {r1}
    PerBlob = TRUE
    V2 = TRUE
    None = None
    Batches <- Buckets
    MaxDebris = 0
    MaxRetained = 0
INVARIANTS OwnerIsCurrent PinsReadable AlwaysReopens
PROPERTIES ImplementsDatabase
