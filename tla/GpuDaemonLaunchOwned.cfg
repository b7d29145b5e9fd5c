SPECIFICATION Spec
CONSTANTS
    yolo = yolo
    seg = seg
    Nodes <- TwoNodes
    Applications <- UserAndLaunch
    Disabled = FALSE
    AutoStop = FALSE
    ScanStable = 1
    FirstStage <- Ready
    MaxRuns = 2
PROPERTIES LaunchOwnedIsNeverRelaunched
CHECK_DEADLOCK FALSE
