SPECIFICATION FairSpec
CONSTANTS
    yolo = yolo
    seg = seg
    Nodes <- TwoNodes
    Applications <- EveryKind
    Disabled = FALSE
    AutoStop = FALSE
    ScanStable = 1
    FirstStage <- FromLinked
    MaxRuns = 2
INVARIANTS OneRunAtATime HandlingPrecedesSignals
PROPERTIES UnderNsysIsLeftAlone SeenIsHandled
CHECK_DEADLOCK FALSE
