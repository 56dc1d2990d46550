SPECIFICATION Spec
CONSTANTS
    Blobs = {b1, b2}
    Writers = {w1}
    PerBlob = FALSE
    V2 = TRUE
    Overlap = FALSE
    MaxPublications = 2
INVARIANTS PublishedIsDurable
