SPECIFICATION GuidedSpec
CONSTANTS
    MaxInputs = 1
    Errors = {1}
INVARIANTS EveryTargetIsTried
CHECK_DEADLOCK FALSE
