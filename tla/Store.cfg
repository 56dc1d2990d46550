SPECIFICATION MCSpec
CONSTANTS
    Blobs = {b1, b2}
    Writers = {w1, w2}
    PerBlob = TRUE
    V2 = TRUE
    Overlap = TRUE
    MaxPublications = 3
    Hashes = {h1, h2, h3}
    Threads = {t1, t2}
    MaxBuckets = 2
    Slots = {1, 2, 3, 4}
    Alike = h3
    CompressedSize <- Sizes
    NoHash = NoHash
INVARIANTS
    PublishedIsDurable ConfirmedIsKept ReturnedIsDurable
    CountsAreExact HeldIsItsBucket ListIsRecency WarmReadsPlain
SYMMETRY Symmetry
CHECK_DEADLOCK FALSE
