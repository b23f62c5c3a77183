SPECIFICATION SettlingSpec
CONSTANTS
    T = 3
    Restores = {1}
    MaxWrites = 1
    MaxFaults = 2
    Faults = {"overwrite", "restore", "crash"}
    OnceFaults = {"overwrite", "version", "journal", "restore", "crash", "race"}
    MaxAttempts = 3
    InsertRetries = 1
    MaxHistoryFaults = 1
    Pipelines = {1, 2}
    MaxCallRetries = 1
    MaxCalls = 1
INVARIANTS
    RestoreIsWhole
    HistoryIsWhole
    RefusalsAreLearned
PROPERTIES
    OperationsEnd
CHECK_DEADLOCK FALSE
