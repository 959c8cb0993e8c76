\* Three nodes, two terms, two crashes: the protocol of rale_proto.c over a network that
\* delivers requests and answers.
CONSTANTS
    Node = {n1, n2, n3}
    NoNode = NoNode
    Link <- AllPairs
    Reply <- GrantsOnly
    Blocking = FALSE
    MaxTerm = 2
    MaxCrashes = 2
    MaxSaveFaults = 0
SYMMETRY Symmetry
SPECIFICATION Spec
INVARIANTS
    TypeOK
    OneVotePerTerm
    VoteOutlivesCrash
    CampaignsOnOwnVote
    LeaderWasElected
    MajorityElectionSafety
PROPERTIES
    TermNeverRewinds
