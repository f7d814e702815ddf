SPECIFICATION FairSpec
CONSTANTS
    Loops = {l1, l2}
    Callers = {c1}
    Ways = {"managed", "fetch"}
    MaxGen = 2
    NoLoop = NoLoop
    NoCaller = NoCaller
INVARIANTS LoopIsOwned SuccessIsReal
PROPERTIES RefreshesBegin LifecycleIsReleased
