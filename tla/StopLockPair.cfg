SPECIFICATION FairLockSpec
CONSTANTS
    Shells = {wrapper, daemon}
    MaxDeaths = 1
    SlowStop = FALSE
    NoPid = NoPid
INVARIANTS MutualExclusion ShutdownHappens
PROPERTIES KeepsPromise EveryStopReturns
CHECK_DEADLOCK FALSE
