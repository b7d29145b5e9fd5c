SPECIFICATION Spec
CONSTANTS
    Starters = {s1, s2}
    Stoppers = {}
    Watchers = {}
    Impatient = {}
    None = None
INVARIANTS OneAtWork
CHECK_DEADLOCK FALSE
