SPECIFICATION HealthSpec
CONSTANTS
    a = a
    b = b
    o1 = o1
    o2 = o2
    Tags = {a, b}
    Ops = {o1, o2}
    Threshold = 2
    NoTag = NoTag
SYMMETRY Symmetry
INVARIANT
    NoTrialIsWasted
