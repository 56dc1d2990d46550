SPECIFICATION FairSpec
CONSTANTS
    Clients = {c1, c2}
    Batches = {b1, b2}
    Metadata = {m1, m2}
    Capacity = 2
    MaxSeq = 3
    None = None
INVARIANTS TypeOK NoLostWakeup AcknowledgedSurvives NothingLeftAtJoin
PROPERTIES FailureIsFinal ImplementsLog WaitReturns ShutdownEnds
