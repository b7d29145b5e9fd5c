SPECIFICATION Spec
CONSTANTS
    n1 = n1
    n2 = n2
    Nodes <- MCNodes
    Early <- MCEarly
    Workers <- MCWorkers
    Modes <- MCModes
    MaxPolls = 3
    MaxDeaths = 0
INVARIANT MergeIsComplete
CHECK_DEADLOCK FALSE
