CONSTANTS
    Node = {1, 2}
    MaxNodes = 2
    Slot = {0}
    Seed <- MCSeed
    Setups <- MCReplication
    Key = {k1}
    Val = {v1}
    NoVal = NoVal
    MaxConns = 2
    MaxQueue = 4
    MaxTerm = 1
SPECIFICATION FairSpec
PROPERTY
    PutsAreReplicated
CHECK_DEADLOCK FALSE
