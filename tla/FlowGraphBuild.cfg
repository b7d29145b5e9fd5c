CONSTANTS
    Endpoints <- MCEndpoints
    Kind <- MCKind
    On <- MCOn
    NoTopic = "-"
    Twice <- MCTwice
    Intra <- MCIntra
    Bare <- MCBare
    Synchronised <- MCSynchronised
    DataTopics <- MCDataTopics
    TypeOf <- MCTypeOf
    ExecOf <- MCExecOf
    Applications <- MCApplications
SPECIFICATION GraphSpec
INVARIANTS HopsAreKept CallsAreRouted JoinsStayTogether NodeEdgesAreInteractions
CHECK_DEADLOCK FALSE
