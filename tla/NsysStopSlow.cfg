SPECIFICATION Spec
CONSTANTS
    yolo = yolo
    seg = seg
    container = container
    Children <- TwoChildren
    Foreign <- OneForeign
    Settings <- SlowStop
    Timeout = 12
    Slack = 1
    CollectorTimes <- Prompt
    MinWait = 2
    StableFor = 1
    QuietFor = 1
    Drain = 30
    Never = Never
INVARIANTS DrainedMeansDone
CHECK_DEADLOCK FALSE
