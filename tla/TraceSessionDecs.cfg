SPECIFICATION Spec
CONSTANTS
    Wrappers = {w1, w2}
    Stoppers = {}
    MaxKills = 0
    PastRaces = TRUE
    None = None
INVARIANTS LastDecAlwaysStops
CHECK_DEADLOCK FALSE
