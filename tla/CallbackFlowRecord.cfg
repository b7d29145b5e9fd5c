SPECIFICATION Spec
SYMMETRY MCSymmetry
CONSTANTS
    t1 = t1
    t2 = t2
    Threads <- MCThreads
    Subs = {"sub"}
    Timers = {"tmr"}
    Polled = {"poll"}
    TopicOf <- MCTopicOf
    NodeOf <- MCNodeOf
    Publishers = {"drive", "out", "aux"}
    PubTopic <- MCPubTopic
    PubNode <- MCPubNode
    Writes <- MCWrites
    ThreadWrites = {"drive"}
    Containers = {"queue"}
    MaxDepth = 2
    MaxEvents <- MCMaxEvents
    MaxLost <- MCMaxLost
    LookBack = 2
    MinPublishes = 1
    DispatchSlack = 3
    RetainSlack = 2
    HopLimit = 3
INVARIANTS
    OwnersSurviveLoss
    HopsAreReal
    PolledReadsAreReal
    EvidenceIsReal
    PointersAreReal
CHECK_DEADLOCK FALSE
