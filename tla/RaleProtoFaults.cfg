\* Two nodes, two terms, one crash, one failed or torn save: what survives a bad disk.
\* All kinds of answer are delivered.
CONSTANTS
    Node = {n1, n2}
    NoNode = NoNode
    Link <- AllPairs
    Reply <- AllAnswers
    Blocking = FALSE
    MaxTerm = 2
    MaxCrashes = 1
    MaxSaveFaults = 1
SYMMETRY Symmetry
SPECIFICATION Spec
INVARIANTS
    DoubleVoteNeedsFaultAndCrash
    LeaderWasElected
