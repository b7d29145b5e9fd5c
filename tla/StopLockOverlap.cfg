SPECIFICATION LockSpec
CONSTANTS
    Shells = {wrapper, daemon, operator}
    MaxDeaths = 0
    SlowStop = FALSE
    NoPid = NoPid
INVARIANTS MutualExclusion
SYMMETRY Symmetry
CHECK_DEADLOCK FALSE
