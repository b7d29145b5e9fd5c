SPECIFICATION FairSpec
CONSTANTS
    yolo = yolo
    seg = seg
    Nodes <- TwoNodes
    Applications <- UserAndLaunch
    Disabled = FALSE
    AutoStop = FALSE
    ScanStable = 1
    FirstStage <- Ready
    MaxRuns = 2
PROPERTIES UnrecognisedIsRelaunched
CHECK_DEADLOCK FALSE
