SPECIFICATION Spec
CONSTANTS
    N = 2
    MaxRetries = 2
    Modes <- MCAware12
    MaxRuns = 2
    RetentionMax = 0
    Faults = {"llm", "late", "rollback", "crash"}
INVARIANTS
    VerdictOfAccepted
    OnePairPerItem
PROPERTIES
    RunStops
CHECK_DEADLOCK FALSE
