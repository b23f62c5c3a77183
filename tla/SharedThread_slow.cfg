SPECIFICATION Spec
CONSTANTS
    w1 = w1
    w2 = w2
    Workers = {w1, w2}
    Cdf = FALSE
    OutOfOrder = TRUE
    SyncFails = FALSE
    MaxTick = 2
    MaxTurns = 2
    MaxPrunes = 0
PROPERTIES
    AppendsPickedUp
CHECK_DEADLOCK FALSE
