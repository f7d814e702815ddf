SPECIFICATION Spec
CONSTANTS
    r1 = r1
    r2 = r2
    a = a
    b = b
    Routes = {r1, r2}
    Tags = {a, b}
    p1 = p1
    p2 = p2
    Ports = {p1, p2}
    NoPort = NoPort
    Kinds = {"source", "select", "all"}
    UserKinds = {"promote", "delete", "detach", "fail", "exclude", "reorder"}
    MaxOps = 1
INVARIANTS  RolledBack
 
SYMMETRY Symmetry
CHECK_DEADLOCK FALSE
