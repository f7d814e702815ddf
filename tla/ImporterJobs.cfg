SPECIFICATION Spec
CONSTANTS
    a = a
    Tags <- OneTag
    Works <- UrlWork
    MaxJobs = 3
    Menus <- MCMenus
    MaxStages = 2
    MaxParses = 1
    MaxReaders = 1
INVARIANTS RunsInTurn ChildrenFirst CanceledLeavesNothing
 
CHECK_DEADLOCK FALSE
