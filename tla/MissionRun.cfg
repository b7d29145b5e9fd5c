SPECIFICATION Spec
CONSTANTS
    c1 = c1
    c2 = c2
    Containers <- MCContainers
    Fish <- MCFish
    Older <- MCOlder
    Targets <- MCFish
    Awaited <- MCAwaited
    Actions <- MCActions
    Launches <- MCLaunches
    StopContainers = TRUE
    MaxFailures = 1
INVARIANTS
    ConfirmedIsWhole
    EverySessionIsStopped
PROPERTIES
    MissionEnds
CHECK_DEADLOCK FALSE
