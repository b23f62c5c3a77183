SPECIFICATION Spec
CONSTANTS
    T = 2
    Restores = {1}
    MaxWrites = 0
    MaxFaults = 2
    Faults = {"late", "restore"}
INVARIANTS
    CompletedMeansAll
CHECK_DEADLOCK FALSE
