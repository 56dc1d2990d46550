SPECIFICATION Spec
CONSTANTS
    Blobs = {b1, b2}
    Writers = {w1}
    PerBlob = TRUE
    V2 = TRUE
    Overlap = FALSE
    MaxPublications = 2
INVARIANTS DeliveredIsDurable
