\* Three nodes, two terms, no crash: is a term led by one node only?
CONSTANTS
    Node = {n1, n2, n3}
    NoNode = NoNode
    Link <- AllPairs
    Reply <- GrantsOnly
    Blocking = FALSE
    MaxTerm = 2
    MaxCrashes = 0
    MaxSaveFaults = 0
SYMMETRY Symmetry
SPECIFICATION Spec
INVARIANT ElectionSafety
