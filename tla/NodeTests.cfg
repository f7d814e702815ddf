SPECIFICATION Spec
CONSTANTS
    j1 = j1
    j2 = j2
    v1 = v1
    v2 = v2
    n1 = n1
    n2 = n2
    n3 = n3
    r1 = r1
    r2 = r2
    A = A
    C = C
    page = page
    auth = auth
    Jobs = {j1, j2}
    Verifiers = {v1, v2}
    Owners = {j1, j2, v1, v2}
    Routes = {r1, r2}
    Targets = {page, auth}
    TwoStep = {auth}
    Nodes = {n1, n2, n3}
    Unknown = Unknown
    NoOne = NoOne
    Slots = 1
    HistoryKeep = 1
    Rounds = 2
    TagsOf <- MCTagsOf
    PrintOf <- MCPrintOf
    Menus <- MCMenus
INVARIANTS ResultsAddUp FinishedIsHonest HistoryIsTrue KnownAtTheEnd EveryNodeJudged NothingLeaks
SYMMETRY Alike
CHECK_DEADLOCK FALSE
