SPECIFICATION FairStabilitySpec
CONSTANTS
    ClRequired = 2
    ExRequired = 3
    Containers <- TwoCounts
    Procs <- ZeroOrMore
    MaxChanges = 3
    Empty = Empty
    Unread = Unread
PROPERTIES StableUnlessNoLaunch
CHECK_DEADLOCK FALSE
