SPECIFICATION FairSpec
CONSTANTS
    Starters = {s1, s2}
    Stoppers = {t1, t2}
    Watchers = {w1}
    Impatient = {t1}
    None = None
INVARIANTS AtMostOneDaemon DaemonCanBeFound
PROPERTIES StopDaemonReturns
CHECK_DEADLOCK FALSE
