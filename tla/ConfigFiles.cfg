SPECIFICATION Spec
CONSTANTS
    Routes = {"a", "b", "ac"}
    Bare <- BareOf
    Short = Short
    Mixed = Mixed
    None = None
    NoPorts = NoPorts
    Beginnings <- SmallBeginnings
    TakenSets = {{}, {2}}
    BasePort = 1
    LastPort = 6
    Listener = 3
    MaxOps = 3
    MaxFaults = 1
    MaxRuns = 2
INVARIANTS  FilesAreWhole  BootServesPool
PROPERTIES RestoreUndone
CHECK_DEADLOCK FALSE
