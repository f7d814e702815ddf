SPECIFICATION Spec
CONSTANTS
    n1 = n1
    n2 = n2
    Ids = {n1, n2}
    JobIds = {1, 2}
    NoNode = NoNode
    NoJob = NoJob
    MaxJobs = 1
    MaxAge = 1
    LeftNodes <- MCLeftNodes
    LeftJobs <- MCLeftJobs
    MaxTime = 2
    MaxCalls = 3
SYMMETRY Symmetry
INVARIANTS StoreAgrees
PROPERTIES CleanStart RetentionKeepsWork
