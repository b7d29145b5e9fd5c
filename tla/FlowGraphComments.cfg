CONSTANTS
    Endpoints <- MCEndpoints
    Kind <- MCKind
    On <- MCOn
    NoTopic = "-"
    Twice <- MCTwice
    Intra <- MCIntra
    Bare <- MCBare
    Synchronised <- MCSynchronised
    DataTopics <- MCDataTopics
    TypeOf <- MCTypeOf
    ExecOf <- MCExecOf
    Applications <- MCApplications
SPECIFICATION GraphSpec
\* What two comments say of the graph: both are violated (tlc -continue)
INVARIANTS OnlyServersAnswer SelfPairsAreKept
CHECK_DEADLOCK FALSE
