SPECIFICATION Spec
CONSTANTS
    Keys = {k1}
    Values = {v1}
    Tombstone = Tombstone
    Absent = Absent
    Depth = 3
    MaxSeq = 2
    NoMerge = NoMerge
    Metadata = {m1}
    NoMetadata = NoMetadata
    Views = {r1}
    PerBlob = FALSE
    V2 = FALSE
    None = None
    Batches <- Buckets
    MaxDebris = 1
    MaxRetained = 0
INVARIANTS InitializationResumes
