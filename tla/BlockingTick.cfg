\* The socket as built: recvfrom waits for a datagram.
CONSTANTS
    Node = {n1, n2, n3}
    NoNode = NoNode
    Link <- AllPairs
    Reply <- GrantsOnly
    Blocking = TRUE
    MaxTerm = 2
    MaxCrashes = 0
    MaxSaveFaults = 0
SPECIFICATION FairSpec
PROPERTY SomebodyStands
CHECK_DEADLOCK FALSE
