SPECIFICATION Spec
CONSTANTS
    Wrappers = {w1, w2, w3}
    Stoppers = {o1, o2}
    MaxKills = 1
    PastRaces = FALSE
    None = None
INVARIANTS NodesAreTraced LastDecStops SessionCanBeFound
SYMMETRY Symmetry
CHECK_DEADLOCK FALSE
