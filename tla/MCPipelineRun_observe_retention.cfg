SPECIFICATION Spec
CONSTANTS
    N = 3
    MaxRetries = 0
    Modes <- MCObserve
    MaxRuns = 3
    RetentionMax = 4
    Faults = {"llm"}
INVARIANTS
    RecoveredNotForeign
CHECK_DEADLOCK FALSE
