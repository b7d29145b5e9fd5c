SPECIFICATION KernelSpec
CONSTANTS
    NCpus = 2
    Threads = {1, 2}
    Day = 10
    Start = 8
    MaxNow = 4
    MaxEvents = 5
    MaxLost = 1
INVARIANTS
    SameResult
    StampsAreRight
    RowsSumToWall
    WaitsAreFound
CHECK_DEADLOCK FALSE
