SPECIFICATION Spec
CONSTANTS
    N = 3
    MaxRetries = 0
    Modes <- MCObserve
    MaxRuns = 3
    RetentionMax = 0
    Faults = {"llm", "score"}
INVARIANTS
    SkippedIsAccepted
CHECK_DEADLOCK FALSE
