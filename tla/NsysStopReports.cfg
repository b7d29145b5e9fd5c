SPECIFICATION FairSpec
CONSTANTS
    yolo = yolo
    seg = seg
    container = container
    Children <- TwoChildren
    Foreign <- OneForeign
    Settings <- SelfOrNot
    Timeout = 12
    Slack = 1
    CollectorTimes <- Prompt
    MinWait = 2
    StableFor = 1
    QuietFor = 1
    Drain = 30
    Never = Never
INVARIANTS ReportsBeforeDone FlushedBeforeGivingUp
PROPERTIES StopEnds
CHECK_DEADLOCK FALSE
