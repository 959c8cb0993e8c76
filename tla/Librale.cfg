CONSTANTS
    \* Sockets: three nodes on two hosts.  The network is a set: every send may arrive late, twice
    \* or never.
    n1 = n1
    n2 = n2
    n3 = n3
    Node <- MCNode
    HostOf <- MCHostOf
    PortOf <- MCPortOf
    NoPort = NoPort
    NoDatagram = NoDatagram
    \* TCP server: one slot that two connections take in turn, reads of one or two bytes, six bytes
    \* each: enough for a line too long for line[] and for an overflow of recv_buf.
    Slot = {0}
    Conn = {c1, c2}
    NoConn = NoConn
    BufferSize = 3
    MaxBytes = 6
    MaxDepth = 3
    \* Hash table: every chain of up to three entries.
    k1 = k1
    k2 = k2
    k3 = k3
    k4 = k4
    b1 = b1
    b2 = b2
    Key <- MCKey
    Value = {v1, v2}
    None = None
    Bucket <- MCBucket
    hash <- MChash
    hash_func <- MChash_func
    \* Table of nodes: two threads, three ids for two places.
    Thread = {"app", "loop"}
    NodeId = {1, 2, 3}
    SelfId = 1
    MAX_NODES = 2
    MaxIo = 1
    MaxCrash = 1
    MaxChange = 3
SYMMETRY Symmetry
SPECIFICATION LibraleSpec
INVARIANTS
    LonelyRequestsGetOut
    ClientSocketsAreInUse
    FramingExact
    BuffersHold
    OwnerInStep
    OncePerKey
    ClusterTypeOK
    UniqueIds
    FileHoldsTable
    ListingIsComplete
PROPERTIES
    ImplementsKeyValue
    RestartFindsASave
\* Bounded events are used up, and reentered callbacks end at MaxDepth.
CHECK_DEADLOCK FALSE
