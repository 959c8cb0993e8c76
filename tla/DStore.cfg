CONSTANTS
    Node = {1, 2}
    MaxNodes = 2
    Slot = {0}
    Seed <- MCSeed
    Key = {k1}
    Val = {v1}
    NoVal = NoVal
    MaxConns = 2
    MaxQueue = 4
    MaxTerm = 1
    Setups <- MCSetups
SPECIFICATION Spec
INVARIANTS
    TypeOK
    ConnectedPeersAreLinked
    MappedSocketsBelong
    StoreLeaderWasElected
    HoldersWereLeaders
CHECK_DEADLOCK FALSE
