SPECIFICATION SharedSpec
CONSTANTS
    w1 = w1
    w2 = w2
    Workers = {w1, w2}
    Cdf = TRUE
    OutOfOrder = TRUE
    SyncFails = FALSE
    MaxTick = 1
    MaxTurns = 2
    MaxPrunes = 1
    Single = w1
    SingleTicks = 3
    SingleTurns = 3
    SharedTables = 2
    RivalRestores = {1, 2}
    MaxWrites = 1
    MaxFaults = 2
    RivalFaults = {"overwrite", "late", "version", "journal", "restore", "crash"}
INVARIANTS
    TurnsInOrder
PROPERTIES
    ManyReadFresh
    OneRollsBackOwnTurn
    RivalsEraseOwnWork
CHECK_DEADLOCK FALSE
