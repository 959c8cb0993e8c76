------------------------------ MODULE RaleProto ------------------------------
(***************************************************************************)
(* Leader election of librale (librale/src/rale_proto.c), one process per  *)
(* cluster node.  A tick of a node (rale_quram_process) hands at most one  *)
(* datagram to rale_handle_message and then runs the duties of its role.   *)
(*                                                                         *)
(* Time.  last_heartbeat, election_deadline, next_heartbeat_at and         *)
(* next_vote_request_at are compared with time(NULL) and nothing bounds    *)
(* the time between two ticks, so a timer that a duty tests may or may not *)
(* have expired: the duty that tests it is an action that may be taken.    *)
(* Duties whose timers have not expired change nothing, so a datagram and  *)
(* a duty are separate actions.                                            *)
(*                                                                         *)
(* Datagrams.  net holds every datagram ever sent.  UDP may delay, reorder *)
(* and duplicate: a datagram stays deliverable; a lost one is simply never *)
(* received.                                                               *)
(***************************************************************************)
EXTENDS Integers, FiniteSets

CONSTANTS
    Node,           \* the ids in cluster.nodes, the same on every node
    NoNode,         \* the id -1
    Link,           \* pairs <<a, b>>: a datagram a sends to b's rale_port gets out
    Reply,          \* per kind of answer, pairs <<a, b>>: an answer of a to the sender b gets out
    Blocking,       \* TRUE: recvfrom waits for a datagram (the socket as built)
    MaxTerm,        \* bound: no node stands for a later term
    MaxCrashes,     \* bound on process crashes
    MaxSaveFaults   \* bound on failed or torn writes of rale.state

ASSUME NodeAssumption == IsFiniteSet(Node) /\ NoNode \notin Node

\* The answers of rale_handle_message.  VOTE_DENIED is not a message it knows and
\* HEARTBEAT_ACK only refreshes last_heartbeat: both leave the state as it is.
AnswerKind == {"VOTE_GRANTED", "VOTE_DENIED", "HEARTBEAT_ACK"}

ASSUME TransportAssumption ==
    Link \in SUBSET (Node \X Node) /\ Reply \in [AnswerKind -> SUBSET (Node \X Node)]
ASSUME BoundAssumption ==
    /\ Blocking \in BOOLEAN
    /\ MaxTerm \in Nat
    /\ MaxCrashes \in Nat
    /\ MaxSaveFaults \in Nat

VARIABLES
    up,             \* the process runs
    role,           \* current_rale_state.role
    currentTerm,    \* current_rale_state.current_term
    votedFor,       \* current_rale_state.voted_for
    leaderId,       \* current_rale_state.leader_id
    electionActive, \* static election_active
    votesReceived,  \* static votes_received
    file,           \* what rale_state_load finds in rale.state
    net,            \* datagrams sent
    awake,          \* recvfrom has returned in this tick (used when Blocking)
    crashes, saveFaults,   \* how much of the two bounds is used
    cast,           \* history: <<voter, term, candidate>> for every vote given
    backers,        \* history: voters of the own term counted in this election
    elections       \* history: every transition to leader

nodeVars == <<up, role, currentTerm, votedFor, leaderId, electionActive, votesReceived>>
vars == <<nodeVars, file, net, awake, crashes, saveFaults, cast, backers, elections>>

Id == Node \cup {NoNode}
Term == 0..MaxTerm

\* A text file "term voted_for leader_id ...".
StateFile == [term : Term, vote : Id, leader : Id]

\* No file, or one that does not parse: rale_state_load leaves the defaults.
NoFile == [term |-> 0, vote |-> NoNode, leader |-> NoNode]

Message ==
    [type : {"VOTE_REQUEST", "VOTE_GRANTED", "HEARTBEAT"}, from : Node, to : Node, term : Term]
        \cup [type : {"VOTE_DENIED", "HEARTBEAT_ACK"}, from : Node, to : Node]

Election == [leader : Node, term : Term, backers : SUBSET Node]

-----------------------------------------------------------------------------
(* Sending.  rale_send_message opens a client socket, binds it to the      *)
(* TARGET port and gives up silently when it cannot: Link and Reply say    *)
(* for which pairs it can (module Udp).                                    *)

Broadcast(n, type, t) ==
    {[type |-> type, from |-> n, to |-> p, term |-> t] : p \in {q \in Node \ {n} : <<n, q>> \in Link}}

\* rale_send_message(response, sender_ip, sender_port): m is the message.
Answer(n, m) == IF <<n, m.to>> \in Reply[m.type] THEN {m} ELSE {}

-----------------------------------------------------------------------------
(* rale_state_save and rale_state_load.  Callers ignore the return code:   *)
(* after a failed save the node goes on with what it has in memory.        *)

\* fopen "w" fails and the old contents stay, or the write does and the file is empty.
SaveFails(n) ==
    /\ saveFaults < MaxSaveFaults
    /\ saveFaults' = saveFaults + 1
    /\ file' \in {file, [file EXCEPT ![n] = NoFile]}

\* A mutant: only the term reaches the file.
SaveWithoutVote(n) ==
    /\ file' = [file EXCEPT ![n] = [term |-> currentTerm'[n], vote |-> NoNode,
                                    leader |-> leaderId'[n]]]
    /\ UNCHANGED saveFaults

\* The node saves its state as it is after the step.
rale_state_save(n) ==
    \/ /\ file' = [file EXCEPT ![n] = [term |-> currentTerm'[n], vote |-> votedFor'[n],
                                       leader |-> leaderId'[n]]]
       /\ UNCHANGED saveFaults
    \/ SaveFails(n)

\* Of the two saves of a VOTE_REQUEST of a later term, rale_become_follower's succeeds and
\* the vote's does not reach the file.
VoteNotSaved(n, t) ==
    /\ saveFaults < MaxSaveFaults
    /\ saveFaults' = saveFaults + 1
    /\ file' = [file EXCEPT ![n] = [term |-> t, vote |-> NoNode, leader |-> leaderId[n]]]

-----------------------------------------------------------------------------
Init ==
    /\ up = [n \in Node |-> TRUE]
    /\ role = [n \in Node |-> "follower"]
    /\ currentTerm = [n \in Node |-> 0]
    /\ votedFor = [n \in Node |-> NoNode]
    /\ leaderId = [n \in Node |-> NoNode]
    /\ electionActive = [n \in Node |-> FALSE]
    /\ votesReceived = [n \in Node |-> 0]
    /\ file = [n \in Node |-> NoFile]
    /\ net = {}
    /\ awake = [n \in Node |-> FALSE]
    /\ crashes = 0
    /\ saveFaults = 0
    /\ cast = {}
    /\ backers = [n \in Node |-> {}]
    /\ elections = {}

-----------------------------------------------------------------------------
(* Role changes.  Each fixes role, leaderId and the election counters; the *)
(* caller fixes currentTerm and votedFor and saves.                        *)

\* rale_become_follower(known_leader); NoNode keeps the old leader_id.
rale_become_follower(n, known_leader) ==
    /\ role' = [role EXCEPT ![n] = "follower"]
    /\ leaderId' = [leaderId EXCEPT ![n] = IF known_leader # NoNode THEN known_leader ELSE @]
    /\ electionActive' = [electionActive EXCEPT ![n] = FALSE]
    /\ votesReceived' = [votesReceived EXCEPT ![n] = 0]
    /\ backers' = [backers EXCEPT ![n] = {}]

KeepRole == UNCHANGED <<role, leaderId, electionActive, votesReceived, backers>>

rale_become_leader(n, supporters) ==
    /\ role' = [role EXCEPT ![n] = "leader"]
    /\ leaderId' = [leaderId EXCEPT ![n] = n]
    /\ electionActive' = [electionActive EXCEPT ![n] = FALSE]
    /\ votesReceived' = [votesReceived EXCEPT ![n] = 0]
    /\ elections' = elections \cup {[leader |-> n, term |-> currentTerm[n], backers |-> supporters]}
    /\ backers' = [backers EXCEPT ![n] = {}]

rale_start_election(n) ==
    /\ currentTerm[n] < MaxTerm
    /\ currentTerm' = [currentTerm EXCEPT ![n] = @ + 1]
    /\ votedFor' = [votedFor EXCEPT ![n] = n]
    /\ role' = [role EXCEPT ![n] = "candidate"]
    /\ electionActive' = [electionActive EXCEPT ![n] = TRUE]
    /\ votesReceived' = [votesReceived EXCEPT ![n] = 1]
    /\ UNCHANGED leaderId
    /\ rale_state_save(n)
    /\ net' = net \cup Broadcast(n, "VOTE_REQUEST", currentTerm[n] + 1)
    /\ cast' = cast \cup {<<n, currentTerm[n] + 1, n>>}
    /\ backers' = [backers EXCEPT ![n] = {n}]
    /\ UNCHANGED <<up, crashes, elections>>

-----------------------------------------------------------------------------
(* Duties, the second half of a tick.                                      *)

\* A tick reaches its duties once udp_process_messages has returned.
DutiesReached(n) ==
    /\ up[n]
    /\ Blocking => awake[n]

TickEnds(n) == awake' = [awake EXCEPT ![n] = FALSE]

\* No heartbeat for the keep-alive timeout.
rale_handle_follower_duties(n) ==
    /\ role[n] = "follower"
    /\ DutiesReached(n)
    /\ TickEnds(n)
    /\ rale_start_election(n)

\* The vote requests of this term are sent again every second, and the same tick may go on
\* to the deadline below ...
ResendVoteRequests(n) ==
    /\ role[n] = "candidate"
    /\ DutiesReached(n)
    /\ TickEnds(n) \/ UNCHANGED awake
    /\ net' = net \cup Broadcast(n, "VOTE_REQUEST", currentTerm[n])
    /\ UNCHANGED <<nodeVars, file, crashes, saveFaults, cast, backers, elections>>

\* ... and the candidate stands again when its deadline has passed.
rale_handle_candidate_duties(n) ==
    /\ role[n] = "candidate"
    /\ DutiesReached(n)
    /\ TickEnds(n)
    /\ rale_start_election(n)

\* rale_send_heartbeat, once per heartbeat interval.
rale_handle_leader_duties(n) ==
    /\ role[n] = "leader"
    /\ DutiesReached(n)
    /\ TickEnds(n)
    /\ net' = net \cup Broadcast(n, "HEARTBEAT", currentTerm[n])
    /\ UNCHANGED <<nodeVars, file, crashes, saveFaults, cast, backers, elections>>

Duties(n) ==
    \/ rale_handle_follower_duties(n)
    \/ ResendVoteRequests(n)
    \/ rale_handle_candidate_duties(n)
    \/ rale_handle_leader_duties(n)

-----------------------------------------------------------------------------
(* rale_handle_message, the first half of a tick: one action per message.  *)

Receives(n, m, type) ==
    /\ up[n]
    /\ m.to = n
    /\ m.type = type
    /\ ~awake[n]

\* The duties of this tick follow, unless the timer they test was just reset.
Wakes(n, timerReset) == awake' = [awake EXCEPT ![n] = Blocking /\ ~timerReset]

\* A request of a lower term is denied and changes nothing.
DenyVote(n, m) ==
    /\ Receives(n, m, "VOTE_REQUEST")
    /\ m.term < currentTerm[n]
    /\ net' = net \cup Answer(n, [type |-> "VOTE_DENIED", from |-> n, to |-> m.from])
    /\ Wakes(n, FALSE)
    /\ UNCHANGED <<nodeVars, file, crashes, saveFaults, cast, backers, elections>>

\* A mutant: the vote of the term is not looked at.
GrantWhoeverAsks(n, candidate, vote, r) == r # "leader"

\* The vote of the term is free or already belongs to the candidate.
GrantRule(n, candidate, vote, r) == r # "leader" /\ vote \in {NoNode, candidate}

\* A mutant: a request of a later term takes the sender for the leader.
FollowCandidate(n, m) == rale_become_follower(n, m.from)

\* A mutant: a later term is taken over without stepping down.
AdoptInPlace(n, m) == KeepRole

\* A later term makes the node a follower of nobody in particular.
AdoptTerm(n, m) == rale_become_follower(n, NoNode)

HandleVoteRequest(n, m) ==
    /\ Receives(n, m, "VOTE_REQUEST")
    /\ m.term >= currentTerm[n]
    /\ LET later == m.term > currentTerm[n]
           vote == IF later THEN NoNode ELSE votedFor[n]
           grant == GrantRule(n, m.from, vote, IF later THEN "follower" ELSE role[n])
       IN  /\ IF later THEN AdoptTerm(n, m) ELSE KeepRole
           /\ currentTerm' = [currentTerm EXCEPT ![n] = m.term]
           /\ votedFor' = [votedFor EXCEPT ![n] = IF grant THEN m.from ELSE vote]
           /\ \/ (later \/ grant) /\ rale_state_save(n)
              \/ later /\ grant /\ VoteNotSaved(n, m.term)
              \/ ~later /\ ~grant /\ UNCHANGED <<file, saveFaults>>
           /\ net' = IF grant
                     THEN net \cup Answer(n, [type |-> "VOTE_GRANTED", from |-> n,
                                              to |-> m.from, term |-> m.term])
                     ELSE net
           /\ cast' = IF grant THEN cast \cup {<<n, m.term, m.from>>} ELSE cast
    /\ Wakes(n, FALSE)
    /\ UNCHANGED <<up, crashes, elections>>

\* A later term is adopted; an EARLIER one is not refused: the sender becomes
\* the leader and the receiver a follower, whatever the term.
HandleHeartbeat(n, m) ==
    /\ Receives(n, m, "HEARTBEAT")
    /\ LET later == m.term > currentTerm[n]
       IN  /\ currentTerm' = [currentTerm EXCEPT ![n] = IF later THEN m.term ELSE @]
           /\ votedFor' = [votedFor EXCEPT ![n] = IF later THEN NoNode ELSE @]
    /\ rale_become_follower(n, m.from)
    /\ rale_state_save(n)
    /\ net' = net \cup Answer(n, [type |-> "HEARTBEAT_ACK", from |-> n, to |-> m.from])
    /\ Wakes(n, TRUE)
    /\ UNCHANGED <<up, crashes, cast, elections>>

\* "HEARTBEAT_ACK" also starts with "HEARTBEAT": it refreshes last_heartbeat and
\* is acknowledged in turn.
HandleHeartbeatAck(n, m) ==
    /\ Receives(n, m, "HEARTBEAT_ACK")
    /\ net' = net \cup Answer(n, [type |-> "HEARTBEAT_ACK", from |-> n, to |-> m.from])
    /\ Wakes(n, role[n] = "follower")
    /\ UNCHANGED <<nodeVars, file, crashes, saveFaults, cast, backers, elections>>

\* votes_received > node_count / 2
Majority(votes) == votes > Cardinality(Node) \div 2

\* Ignored without an election or from a later term.  Every other grant counts:
\* the voter is parsed and not used, and an earlier term is not refused.
HandleVoteGranted(n, m) ==
    /\ Receives(n, m, "VOTE_GRANTED")
    /\ IF electionActive[n] /\ m.term <= currentTerm[n]
       THEN LET supporters == IF m.term = currentTerm[n] THEN backers[n] \cup {m.from}
                                                         ELSE backers[n]
            IN  IF Majority(votesReceived[n] + 1)
                THEN /\ rale_become_leader(n, supporters)
                     /\ UNCHANGED <<currentTerm, votedFor>>
                     /\ rale_state_save(n)
                ELSE /\ votesReceived' = [votesReceived EXCEPT ![n] = @ + 1]
                     /\ backers' = [backers EXCEPT ![n] = supporters]
                     /\ UNCHANGED <<role, currentTerm, votedFor, leaderId, electionActive,
                                    file, saveFaults, elections>>
       ELSE UNCHANGED <<role, currentTerm, votedFor, leaderId, electionActive, votesReceived,
                        file, saveFaults, backers, elections>>
    /\ Wakes(n, FALSE)
    /\ UNCHANGED <<up, net, crashes, cast>>

\* "Unknown message type".
HandleVoteDenied(n, m) ==
    /\ Receives(n, m, "VOTE_DENIED")
    /\ Wakes(n, FALSE)
    /\ UNCHANGED <<nodeVars, file, net, crashes, saveFaults, cast, backers, elections>>

rale_handle_message(n, m) ==
    \/ DenyVote(n, m)
    \/ HandleVoteRequest(n, m)
    \/ HandleHeartbeat(n, m)
    \/ HandleHeartbeatAck(n, m)
    \/ HandleVoteGranted(n, m)
    \/ HandleVoteDenied(n, m)

-----------------------------------------------------------------------------
(* Commands and failures.                                                  *)

\* rale_process_command("STEP_DOWN"): leader_id keeps its value.
StepDown(n) ==
    /\ up[n]
    /\ rale_become_follower(n, NoNode)
    /\ UNCHANGED <<currentTerm, votedFor>>
    /\ rale_state_save(n)
    /\ UNCHANGED <<up, net, awake, crashes, cast, elections>>

\* Memory is lost; what is kept of it here is never read again.
Dies(n) ==
    /\ up[n]
    /\ crashes < MaxCrashes
    /\ crashes' = crashes + 1
    /\ up' = [up EXCEPT ![n] = FALSE]
    /\ role' = [role EXCEPT ![n] = "follower"]
    /\ electionActive' = [electionActive EXCEPT ![n] = FALSE]
    /\ votesReceived' = [votesReceived EXCEPT ![n] = 0]
    /\ backers' = [backers EXCEPT ![n] = {}]
    /\ awake' = [awake EXCEPT ![n] = FALSE]
    /\ UNCHANGED <<currentTerm, votedFor, leaderId, net, cast, elections>>

Crash(n) == Dies(n) /\ UNCHANGED <<file, saveFaults>>

\* Killed inside a VOTE_REQUEST of a later term, between the save of
\* rale_become_follower and the save of the vote.
CrashBetweenSaves(n, m) ==
    /\ Receives(n, m, "VOTE_REQUEST")
    /\ m.term > currentTerm[n]
    /\ Dies(n)
    /\ file' = [file EXCEPT ![n] = [term |-> m.term, vote |-> NoNode, leader |-> leaderId[n]]]
    /\ UNCHANGED saveFaults

\* Killed inside rale_state_save after fopen "w" truncated the file.
CrashInSave(n) ==
    /\ Dies(n)
    /\ saveFaults < MaxSaveFaults
    /\ saveFaults' = saveFaults + 1
    /\ file' = [file EXCEPT ![n] = NoFile]

\* A mutant: the saved term is not loaded.
LoadTermZero(n) == 0

\* A mutant: the second field of the file is read for the first.
LoadNextField(n) == file[n].vote

\* rale_state_load
LoadTerm(n) == file[n].term

\* rale_proto_init in a new process.
rale_proto_init(n) ==
    /\ ~up[n]
    /\ up' = [up EXCEPT ![n] = TRUE]
    /\ currentTerm' = [currentTerm EXCEPT ![n] = LoadTerm(n)]
    /\ votedFor' = [votedFor EXCEPT ![n] = file[n].vote]
    /\ leaderId' = [leaderId EXCEPT ![n] = file[n].leader]
    /\ UNCHANGED <<role, electionActive, votesReceived, file, net, awake, crashes, saveFaults,
                   cast, backers, elections>>

Next ==
    \/ \E n \in Node : Duties(n)
    \/ \E m \in net : rale_handle_message(m.to, m)
    \/ \E n \in Node : StepDown(n)
    \/ \E n \in Node : Crash(n)
    \/ \E m \in net : CrashBetweenSaves(m.to, m)
    \/ \E n \in Node : CrashInSave(n)
    \/ \E n \in Node : rale_proto_init(n)

Spec == Init /\ [][Next]_vars

\* raled's loop thread ticks for as long as the process runs.
Tick(n) == Duties(n) \/ \E m \in net : m.to = n /\ rale_handle_message(n, m)
FairSpec == Spec /\ \A n \in Node : WF_vars(Tick(n))

-----------------------------------------------------------------------------
(* Properties.                                                             *)

\* Every variable holds a value of its C type's modelled range.
TypeOK ==
    /\ up \in [Node -> BOOLEAN]
    /\ role \in [Node -> {"follower", "candidate", "leader"}]
    /\ currentTerm \in [Node -> Term]
    /\ votedFor \in [Node -> Id]
    /\ leaderId \in [Node -> Id]
    /\ electionActive \in [Node -> BOOLEAN]
    /\ votesReceived \in [Node -> Nat]
    /\ file \in [Node -> StateFile]
    /\ net \subseteq Message
    /\ awake \in [Node -> BOOLEAN]
    /\ crashes \in 0..MaxCrashes
    /\ saveFaults \in 0..MaxSaveFaults
    /\ cast \subseteq Node \X Term \X Node
    /\ backers \in [Node -> SUBSET Node]
    /\ elections \subseteq Election

\* A node gives its vote of a term to one candidate, over any number of crashes and
\* restarts between two requests (rale_handle_message, VOTE_REQUEST).
OneVotePerTerm ==
    \A v \in Node, t \in Term, c1, c2 \in Node :
        <<v, t, c1>> \in cast /\ <<v, t, c2>> \in cast => c1 = c2

\* A save that fails, or a crash, does no harm alone: memory carries the vote until the
\* process dies, and the file carries it over a crash.
DoubleVoteNeedsFaultAndCrash == saveFaults = 0 \/ crashes = 0 => OneVotePerTerm

\* A vote is in rale.state before it is announced, and stays there until the node has
\* saved a later term: what is in the file always outranks every vote ever given.
VoteOutlivesCrash ==
    \A v \in Node, t \in Term, c \in Node :
        <<v, t, c>> \in cast =>
            \/ file[v].term > t
            \/ file[v].term = t /\ file[v].vote = c

\* Whoever campaigns or leads holds its own vote of the term it does so in: nothing that
\* takes the vote away (a later term) leaves the node a candidate or a leader.
CampaignsOnOwnVote ==
    \A n \in Node :
        role[n] # "follower" => votedFor[n] = n /\ <<n, currentTerm[n], n>> \in cast

\* The leader a node names, to clients and in rale.state, won an election of a term that
\* the node has reached: a candidate is never taken for a leader.
LeaderWasElected ==
    \A n \in Node :
        leaderId[n] # NoNode =>
            \E e \in elections : e.leader = leaderId[n] /\ e.term <= currentTerm[n]

\* e was won with grants of its own term from a majority of distinct voters.
WonByMajority(e) == Cardinality(e.backers) > Cardinality(Node) \div 2

\* Of the leaders that a majority of distinct voters elected in a term there is one: only
\* grants counted twice or from an earlier term can give a term two leaders.
MajorityElectionSafety ==
    \A e1, e2 \in elections :
        /\ WonByMajority(e1)
        /\ WonByMajority(e2)
        /\ e1.term = e2.term
        => e1.leader = e2.leader

\* A node's term never decreases, over crashes and restarts too.
TermNeverRewinds == [][\A n \in Node : currentTerm'[n] >= currentTerm[n]]_vars

\* Nobody has won an election: so it stays when no VOTE_GRANTED gets out (module Udp).
NobodyElected == elections = {}

-----------------------------------------------------------------------------
(* The parts of the inductive invariants behind the properties above.      *)

\* An election is active exactly while the node is a candidate; a dead node is neither.
RolesInStep ==
    \A n \in Node :
        /\ electionActive[n] <=> role[n] = "candidate"
        /\ ~up[n] => role[n] = "follower" /\ backers[n] = {}

Elected(l, t) == \E e \in elections : e.leader = l /\ e.term = t
ElectedBy(l, t) == \E e \in elections : e.leader = l /\ e.term <= t

NamedElected(n) == leaderId[n] # NoNode => ElectedBy(leaderId[n], currentTerm[n])
FiledElected(n) == file[n].leader # NoNode => ElectedBy(file[n].leader, file[n].term)

\* Leaders, their heartbeats and the leader in rale.state come from elections.
LeadersComeFromElections ==
    /\ \A n \in Node : role[n] = "leader" => Elected(n, currentTerm[n])
    /\ \A m \in net : m.type = "HEARTBEAT" => Elected(m.from, m.term)
    /\ \A n \in Node : NamedElected(n) /\ FiledElected(n)

\* Without save faults rale.state is the memory of a running node, and is never behind the
\* last memory of a dead one.
FileInStep ==
    \A n \in Node :
        /\ up[n] => file[n] = [term |-> currentTerm[n], vote |-> votedFor[n],
                               leader |-> leaderId[n]]
        /\ file[n].term >= currentTerm[n]

\* Grants, the voters a candidate has counted and those of past elections are votes given.
SupportIsCast ==
    /\ \A m \in net : m.type = "VOTE_GRANTED" => <<m.from, m.term, m.to>> \in cast
    /\ \A n \in Node : \A v \in backers[n] : <<v, currentTerm[n], n>> \in cast
    /\ \A e \in elections : \A v \in e.backers : <<v, e.term, e.leader>> \in cast

\* As long as no process has died memory carries every vote: the node is still in its term
\* and holds it, or has left the term.
MemoryHoldsVotes ==
    /\ OneVotePerTerm
    /\ \A v \in Node :
        /\ up[v]
        /\ \A t \in Term, c \in Node :
            <<v, t, c>> \in cast => currentTerm[v] > t \/ (currentTerm[v] = t /\ votedFor[v] = c)

\* What a step preserves whatever the disk does, and what it preserves on a good disk.
RoleInvariant == TypeOK /\ RolesInStep /\ CampaignsOnOwnVote
LeaderInvariant == RoleInvariant /\ LeadersComeFromElections
VoteInvariant == RoleInvariant /\ FileInStep /\ VoteOutlivesCrash /\ OneVotePerTerm /\ SupportIsCast

-----------------------------------------------------------------------------
(* What the documents say and the code does not do.                        *)

\* "Election Safety: At most one leader per term" (docs/ARCHITECTURE.md).
ElectionSafety ==
    \A e1, e2 \in elections : e1.term = e2.term => e1.leader = e2.leader

\* "Non-blocking tick functions" (librale.h): a cluster that hears of no leader holds an
\* election, because a tick without a datagram still runs the duties.
SomebodyStands == <>(\E n \in Node : role[n] # "follower")

=============================================================================
