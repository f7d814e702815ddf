SPECIFICATION FairSpec
CONSTANTS
    a = a
    Tags <- OneTag
    Works <- UrlWork
    MaxJobs = 3
    Menus <- LiveMenus
    MaxStages = 1
    MaxParses = 1
    MaxReaders = 1
PROPERTIES AllEnds
CHECK_DEADLOCK FALSE
