SPECIFICATION FairSpec
CONSTANTS
    c1 = c1
    c2 = c2
    k1 = k1
    k2 = k2
    w1 = w1
    Callers = {c1, c2}
    Keys = {k1, k2}
    Workers = {w1}
    Capacity = 2
    NoTask = NoTask
CHECK_DEADLOCK FALSE
PROPERTIES NobodyStarves CloseTerminates
