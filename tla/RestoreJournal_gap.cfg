SPECIFICATION Spec
CONSTANTS
    T = 2
    Restores = {1}
    MaxWrites = 0
    MaxFaults = 1
    Faults = {"gap"}
INVARIANTS
    AllOrNothing
CHECK_DEADLOCK FALSE
