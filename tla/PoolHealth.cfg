SPECIFICATION FairHealthSpec
CONSTANTS
    a = a
    b = b
    o1 = o1
    o2 = o2
    o3 = o3
    Tags = {a, b}
    Ops = {o1, o2, o3}
    Threshold = 2
    NoTag = NoTag
INVARIANTS TrialsAreMade
PROPERTIES Recovers
