SPECIFICATION MCSpec
CONSTANTS
    Procs = {p1, p2}
    Outputs = {o1, o2}
    MaxRuns = 3
    MaxFaults = 1
    MaxEdits = 1
    MaxInputs = 2
    Errors = {1, 2}
    FrameSizes = {21, 50}
    Target = 42
    MaxRecords = 10
    MaxSlot = 4
    BenchRecords = {4, 8}
    BenchBatches = {1, 3}
    Samples = 6
    None = None
    Advances = 128
INVARIANTS
    ToolsAreWhole EndedMeansCurrent VerdictIsRight VectorsAgree PathsBindTheIndex
    JudgementIsRight AssertionHolds
PROPERTIES WrapperEnds
CHECK_DEADLOCK FALSE
