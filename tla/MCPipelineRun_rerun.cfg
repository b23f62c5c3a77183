SPECIFICATION Spec
CONSTANTS
    N = 2
    MaxRetries = 1
    Modes <- MCFresh
    MaxRuns = 2
    RetentionMax = 0
    Faults = {"llm", "late", "score", "rollback", "crash"}
INVARIANTS
    ThreadEndsInOutputs
CHECK_DEADLOCK FALSE
