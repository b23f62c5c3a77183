SPECIFICATION Spec
CONSTANTS
    N = 3
    MaxRetries = 1
    Modes <- MCAware
    MaxRuns = 3
    RetentionMax = 0
    Faults = {"llm", "late", "score", "rollback", "crash"}
INVARIANTS
    TypeOK
    SkippedIsAccepted
    PromptHistoryIsAccepted
    ReturnedThreadMatchesOutputs
    PassingVerdictOfAccepted
PROPERTIES
    DoneStaysDone
    RefinesAcceptedLog
CHECK_DEADLOCK FALSE
