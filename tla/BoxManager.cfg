SPECIFICATION FairSpec
CONSTANTS
    n1 = n1
    NodeSets <- SomeNodeSets
    NoCfg = NoCfg
CHECK_DEADLOCK FALSE
INVARIANTS OneInstance ClosedIsQuiet  PortsArePersisted 
PROPERTIES CloseCompletes
