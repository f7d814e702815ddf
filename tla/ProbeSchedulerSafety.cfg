SPECIFICATION Spec
CONSTANTS
    c1 = c1
    c2 = c2
    c3 = c3
    k1 = k1
    k2 = k2
    k3 = k3
    w1 = w1
    w2 = w2
    Callers = {c1, c2, c3}
    Keys = {k1, k2, k3}
    Workers = {w1, w2}
    Capacity = 2
    NoTask = NoTask
SYMMETRY Symmetry
CHECK_DEADLOCK FALSE
INVARIANTS Accounting NoWaiterLost
PROPERTIES  ImplementsService
