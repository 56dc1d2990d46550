SPECIFICATION Spec
CONSTANTS
    Blobs = {b1, b2}
    Writers = {w1}
    PerBlob = FALSE
    V2 = FALSE
    Overlap = TRUE
    MaxPublications = 2
INVARIANTS PublishedIsDurable
