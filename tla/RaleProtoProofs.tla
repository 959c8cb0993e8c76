--------------------------- MODULE RaleProtoProofs ---------------------------
(* Proofs about RaleProto, for every set of nodes, every bound and every   *)
(* set of datagrams that the transport lets out.                           *)
EXTENDS RaleProto, TLAPS, FiniteSetTheorems

-----------------------------------------------------------------------------
(* Messages.                                                               *)

\* Whatever net holds is addressed between nodes, and the three kinds that carry a term
\* carry one within the bound.
LEMMA MessageShape ==
    ASSUME NEW m \in Message
    PROVE  /\ m.from \in Node
           /\ m.to \in Node
           /\ m.type \in {"VOTE_REQUEST", "VOTE_GRANTED", "HEARTBEAT"} => m.term \in Term
  BY DEF Message

\* A broadcast consists of well-formed messages of the one kind, sender and term.
LEMMA BroadcastShape ==
    ASSUME NEW n \in Node, NEW t \in Term,
           NEW type \in {"VOTE_REQUEST", "VOTE_GRANTED", "HEARTBEAT"}
    PROVE  /\ Broadcast(n, type, t) \subseteq Message
           /\ \A m \in Broadcast(n, type, t) : m.type = type /\ m.from = n /\ m.term = t
  <1> SUFFICES ASSUME NEW m \in Broadcast(n, type, t)
               PROVE  m \in Message /\ m.type = type /\ m.from = n /\ m.term = t
    OBVIOUS
  <1>1. PICK p \in Node : m = [type |-> type, from |-> n, to |-> p, term |-> t]
    BY DEF Broadcast
  <1> QED
    BY <1>1 DEF Message

\* An answer is the message given to rale_send_message, or nothing.
LEMMA AnswerShape ==
    ASSUME NEW n, NEW m
    PROVE  Answer(n, m) \subseteq {m}
  BY DEF Answer

-----------------------------------------------------------------------------
(* Types.                                                                  *)

\* What a save writes has the type of a state file.
LEMMA SaveType ==
    ASSUME NEW n \in Node, rale_state_save(n),
           file \in [Node -> StateFile], saveFaults \in 0..MaxSaveFaults,
           currentTerm'[n] \in Term, votedFor'[n] \in Id, leaderId'[n] \in Id
    PROVE  file' \in [Node -> StateFile] /\ saveFaults' \in 0..MaxSaveFaults
  <1>1. NoFile \in StateFile
    BY BoundAssumption DEF NoFile, StateFile, Term, Id
  <1> QED
    BY <1>1, BoundAssumption DEF rale_state_save, SaveFails, StateFile

\* An election started from a well-typed state leaves one.
LEMMA StartElectionType ==
    ASSUME TypeOK, NEW n \in Node, rale_start_election(n), awake' \in [Node -> BOOLEAN]
    PROVE  TypeOK'
  <1> USE DEF TypeOK, Id, rale_start_election
  <1>1. currentTerm[n] + 1 \in Term /\ currentTerm' \in [Node -> Term]
    BY BoundAssumption DEF Term
  <1>2. votedFor' \in [Node -> Id] /\ leaderId' \in [Node -> Id]
    OBVIOUS
  <1>3. file' \in [Node -> StateFile] /\ saveFaults' \in 0..MaxSaveFaults
    BY <1>1, <1>2, SaveType
  <1>4. net' \subseteq Message
    BY <1>1, BroadcastShape
  <1>5. cast' \subseteq Node \X Term \X Node
    BY <1>1
  <1> QED
    BY <1>1, <1>2, <1>3, <1>4, <1>5

\* Every step of a duty keeps the types.
LEMMA DutiesType ==
    ASSUME TypeOK, NEW n \in Node, Duties(n)
    PROVE  TypeOK'
  <1>0. awake' \in [Node -> BOOLEAN]
    BY DEF TypeOK, Duties, rale_handle_follower_duties, ResendVoteRequests,
           rale_handle_candidate_duties, rale_handle_leader_duties, TickEnds
  <1>1. CASE rale_handle_follower_duties(n) \/ rale_handle_candidate_duties(n)
    BY <1>0, <1>1, StartElectionType DEF rale_handle_follower_duties, rale_handle_candidate_duties
  <1>2. CASE ResendVoteRequests(n)
    <2>1. net' \subseteq Message
      BY <1>2, BroadcastShape DEF ResendVoteRequests, TypeOK
    <2> QED
      BY <1>0, <1>2, <2>1 DEF TypeOK, ResendVoteRequests, nodeVars
  <1>3. CASE rale_handle_leader_duties(n)
    <2>1. net' \subseteq Message
      BY <1>3, BroadcastShape DEF rale_handle_leader_duties, TypeOK
    <2> QED
      BY <1>0, <1>3, <2>1 DEF TypeOK, rale_handle_leader_duties, nodeVars
  <1> QED
    BY <1>1, <1>2, <1>3 DEF Duties

\* Every message handler keeps the types.
LEMMA HandlerType ==
    ASSUME TypeOK, NEW m \in net, NEW n, n = m.to, rale_handle_message(n, m)
    PROVE  TypeOK'
  <1>0. n \in Node /\ m \in Message /\ m.from \in Node
    BY MessageShape DEF TypeOK
  <1>a. awake' \in [Node -> BOOLEAN]
    BY <1>0, BoundAssumption
    DEF TypeOK, rale_handle_message, DenyVote, HandleVoteRequest, HandleHeartbeat,
        HandleHeartbeatAck, HandleVoteGranted, HandleVoteDenied, Wakes
  <1>1. CASE DenyVote(n, m)
    <2>1. net' \subseteq Message
      BY <1>0, <1>1, AnswerShape DEF DenyVote, TypeOK, Message
    <2> QED
      BY <1>a, <1>1, <2>1 DEF TypeOK, DenyVote, nodeVars
  <1>2. CASE HandleVoteRequest(n, m)
    <2> DEFINE later == m.term > currentTerm[n]
               vote == IF later THEN NoNode ELSE votedFor[n]
               grant == GrantRule(n, m.from, vote, IF later THEN "follower" ELSE role[n])
    <2>0. m.term \in Term
      BY <1>0, <1>2, MessageShape DEF HandleVoteRequest, Receives
    <2>1. currentTerm' \in [Node -> Term] /\ votedFor' \in [Node -> Id]
      BY <1>0, <1>2, <2>0 DEF HandleVoteRequest, TypeOK, Id
    <2>2. /\ role' \in [Node -> {"follower", "candidate", "leader"}]
          /\ leaderId' \in [Node -> Id]
          /\ electionActive' \in [Node -> BOOLEAN]
          /\ votesReceived' \in [Node -> Nat]
          /\ backers' \in [Node -> SUBSET Node]
      <3>1. CASE later
        <4>1. rale_become_follower(n, NoNode)
          BY <1>2, <3>1 DEF HandleVoteRequest, AdoptTerm
        <4> QED
          BY <1>0, <4>1 DEF rale_become_follower, TypeOK, Id
      <3>2. CASE ~later
        BY <1>2, <3>2 DEF HandleVoteRequest, KeepRole, TypeOK
      <3> QED
        BY <3>1, <3>2
    <2>3. file' \in [Node -> StateFile] /\ saveFaults' \in 0..MaxSaveFaults
      <3>1. rale_state_save(n) \/ VoteNotSaved(n, m.term) \/ UNCHANGED <<file, saveFaults>>
        BY <1>2 DEF HandleVoteRequest
      <3>2. currentTerm'[n] \in Term /\ votedFor'[n] \in Id /\ leaderId'[n] \in Id
        BY <1>0, <2>1, <2>2
      <3>3. CASE VoteNotSaved(n, m.term)
        BY <1>0, <2>0, <3>3, BoundAssumption DEF VoteNotSaved, TypeOK, StateFile, Id
      <3> QED
        BY <1>0, <3>1, <3>2, <3>3, SaveType DEF TypeOK
    <2>4. net' \subseteq Message
      <3>1. [type |-> "VOTE_GRANTED", from |-> n, to |-> m.from, term |-> m.term] \in Message
        BY <1>0, <2>0 DEF Message
      <3> QED
        BY <1>2, <3>1, AnswerShape DEF HandleVoteRequest, TypeOK
    <2>5. cast' \subseteq Node \X Term \X Node
      BY <1>0, <1>2, <2>0 DEF HandleVoteRequest, TypeOK
    <2> QED
      BY <1>a, <1>2, <2>1, <2>2, <2>3, <2>4, <2>5 DEF HandleVoteRequest, TypeOK
  <1>3. CASE HandleHeartbeat(n, m)
    <2>0. m.term \in Term
      BY <1>0, <1>3, MessageShape DEF HandleHeartbeat, Receives
    <2>1. currentTerm' \in [Node -> Term] /\ votedFor' \in [Node -> Id]
      BY <1>0, <1>3, <2>0 DEF HandleHeartbeat, TypeOK, Id
    <2>2. /\ role' \in [Node -> {"follower", "candidate", "leader"}]
          /\ leaderId' \in [Node -> Id]
          /\ electionActive' \in [Node -> BOOLEAN]
          /\ votesReceived' \in [Node -> Nat]
          /\ backers' \in [Node -> SUBSET Node]
      BY <1>0, <1>3 DEF HandleHeartbeat, rale_become_follower, TypeOK, Id
    <2>3. file' \in [Node -> StateFile] /\ saveFaults' \in 0..MaxSaveFaults
      BY <1>0, <1>3, <2>1, <2>2, SaveType DEF TypeOK, HandleHeartbeat
    <2>4. net' \subseteq Message
      BY <1>0, <1>3, AnswerShape DEF HandleHeartbeat, TypeOK, Message
    <2> QED
      BY <1>a, <1>3, <2>1, <2>2, <2>3, <2>4 DEF HandleHeartbeat, TypeOK
  <1>4. CASE HandleHeartbeatAck(n, m)
    <2>1. net' \subseteq Message
      BY <1>0, <1>4, AnswerShape DEF HandleHeartbeatAck, TypeOK, Message
    <2> QED
      BY <1>a, <1>4, <2>1 DEF TypeOK, HandleHeartbeatAck, nodeVars
  <1>5. CASE HandleVoteGranted(n, m)
    <2> DEFINE supporters == IF m.term = currentTerm[n] THEN backers[n] \cup {m.from}
                                                         ELSE backers[n]
    <2>0. supporters \in SUBSET Node
      BY <1>0 DEF TypeOK
    <2>1. CASE ~(electionActive[n] /\ m.term <= currentTerm[n])
      BY <1>a, <1>5, <2>1 DEF HandleVoteGranted, TypeOK
    <2>2. CASE /\ electionActive[n] /\ m.term <= currentTerm[n]
               /\ ~Majority(votesReceived[n] + 1)
      BY <1>0, <1>a, <1>5, <2>0, <2>2 DEF HandleVoteGranted, TypeOK
    <2>3. CASE /\ electionActive[n] /\ m.term <= currentTerm[n]
               /\ Majority(votesReceived[n] + 1)
      <3>1. /\ rale_become_leader(n, supporters)
            /\ UNCHANGED <<currentTerm, votedFor, up, net, crashes, cast>>
            /\ rale_state_save(n)
        BY <1>5, <2>3 DEF HandleVoteGranted
      <3>2. elections' \subseteq Election
        BY <1>0, <2>0, <3>1 DEF rale_become_leader, TypeOK, Election
      <3>3. /\ role' \in [Node -> {"follower", "candidate", "leader"}]
            /\ leaderId' \in [Node -> Id]
            /\ electionActive' \in [Node -> BOOLEAN]
            /\ votesReceived' \in [Node -> Nat]
            /\ backers' \in [Node -> SUBSET Node]
        BY <1>0, <3>1 DEF rale_become_leader, TypeOK, Id
      <3>4. file' \in [Node -> StateFile] /\ saveFaults' \in 0..MaxSaveFaults
        BY <1>0, <3>1, <3>3, SaveType DEF TypeOK
      <3> QED
        BY <1>a, <3>1, <3>2, <3>3, <3>4 DEF TypeOK
    <2> QED
      BY <2>1, <2>2, <2>3
  <1>6. CASE HandleVoteDenied(n, m)
    BY <1>a, <1>6 DEF HandleVoteDenied, TypeOK, nodeVars
  <1> QED
    BY <1>1, <1>2, <1>3, <1>4, <1>5, <1>6 DEF rale_handle_message

\* Commands, crashes and restarts keep the types.
LEMMA LifecycleType ==
    ASSUME TypeOK, NEW n \in Node,
           \/ StepDown(n)
           \/ Crash(n)
           \/ \E m \in net : m.to = n /\ CrashBetweenSaves(n, m)
           \/ CrashInSave(n)
           \/ rale_proto_init(n)
    PROVE  TypeOK'
  <1>1. CASE StepDown(n)
    <2>1. leaderId' \in [Node -> Id] /\ votedFor' \in [Node -> Id] /\ currentTerm' \in [Node -> Term]
      BY <1>1 DEF StepDown, rale_become_follower, TypeOK
    <2>2. file' \in [Node -> StateFile] /\ saveFaults' \in 0..MaxSaveFaults
      BY <1>1, <2>1, SaveType DEF StepDown, TypeOK
    <2> QED
      BY <1>1, <2>1, <2>2 DEF StepDown, rale_become_follower, TypeOK
  <1>2. CASE Dies(n) /\ file' \in [Node -> StateFile] /\ saveFaults' \in 0..MaxSaveFaults
    BY <1>2, BoundAssumption DEF Dies, TypeOK
  <1>3. CASE Crash(n)
    BY <1>2, <1>3 DEF Crash, TypeOK
  <1>4. ASSUME NEW m \in net, m.to = n, CrashBetweenSaves(n, m)
        PROVE  TypeOK'
    <2>1. m.term \in Term
      BY <1>4, MessageShape DEF CrashBetweenSaves, Receives, TypeOK
    <2> QED
      BY <1>2, <1>4, <2>1 DEF CrashBetweenSaves, TypeOK, StateFile, Id
  <1>5. CASE CrashInSave(n)
    <2>1. NoFile \in StateFile
      BY BoundAssumption DEF NoFile, StateFile, Term, Id
    <2> QED
      BY <1>2, <1>5, <2>1, BoundAssumption DEF CrashInSave, TypeOK
  <1>6. CASE rale_proto_init(n)
    BY <1>6 DEF rale_proto_init, TypeOK, StateFile, LoadTerm
  <1> QED
    BY <1>1, <1>3, <1>4, <1>5, <1>6

-----------------------------------------------------------------------------
(* Roles.                                                                  *)

\* A step of TypeOK, for the inductive steps below.
LEMMA TypeStep == TypeOK /\ [Next]_vars => TypeOK'
  <1> SUFFICES ASSUME TypeOK, [Next]_vars
               PROVE  TypeOK'
    OBVIOUS
  <1>1. CASE UNCHANGED vars
    BY <1>1 DEF vars, nodeVars, TypeOK
  <1>2. ASSUME NEW n \in Node, Duties(n) PROVE TypeOK'
    BY <1>2, DutiesType
  <1>3. ASSUME NEW m \in net, rale_handle_message(m.to, m) PROVE TypeOK'
    BY <1>3, HandlerType
  <1>4. ASSUME NEW n \in Node, StepDown(n) \/ Crash(n) \/ CrashInSave(n) \/ rale_proto_init(n)
        PROVE  TypeOK'
    BY <1>4, LifecycleType
  <1>5. ASSUME NEW m \in net, CrashBetweenSaves(m.to, m) PROVE TypeOK'
    <2>1. m.to \in Node
      BY MessageShape DEF TypeOK
    <2> QED
      BY <1>5, <2>1, LifecycleType
  <1> QED
    BY <1>1, <1>2, <1>3, <1>4, <1>5 DEF Next

\* Every variable of rale_proto.c keeps its range in every reachable state.
THEOREM TypeCorrect == Spec => []TypeOK
  <1>1. Init => TypeOK
    BY BoundAssumption DEF Init, TypeOK, NoFile, StateFile, Term, Id
  <1> QED
    BY <1>1, TypeStep, PTL DEF Spec

\* The role and the own vote of a node change together in every step.
LEMMA RoleStep == RoleInvariant /\ [Next]_vars => RoleInvariant'
  <1> SUFFICES ASSUME RoleInvariant, [Next]_vars
               PROVE  RolesInStep' /\ CampaignsOnOwnVote'
    BY TypeStep DEF RoleInvariant
  <1> USE DEF RoleInvariant, RolesInStep, CampaignsOnOwnVote, TypeOK
  <1>1. CASE UNCHANGED vars
    BY <1>1 DEF vars, nodeVars
  <1>2. ASSUME NEW n \in Node, Duties(n) PROVE RolesInStep' /\ CampaignsOnOwnVote'
    <2>1. CASE up[n] /\ rale_start_election(n)
      <3>1. RolesInStep'
        BY <2>1 DEF rale_start_election
      <3>2. currentTerm'[n] = currentTerm[n] + 1 /\ <<n, currentTerm[n] + 1, n>> \in cast'
        BY <2>1 DEF rale_start_election
      <3>3. \A q \in Node : q # n => currentTerm'[q] = currentTerm[q] /\ votedFor'[q] = votedFor[q]
                                                                   /\ role'[q] = role[q]
        BY <2>1 DEF rale_start_election
      <3>4. cast \subseteq cast' /\ votedFor'[n] = n
        BY <2>1 DEF rale_start_election
      <3> QED
        BY <3>1, <3>2, <3>3, <3>4
    <2>2. CASE ResendVoteRequests(n) \/ rale_handle_leader_duties(n)
      BY <2>2 DEF ResendVoteRequests, rale_handle_leader_duties, nodeVars
    <2> QED
      BY <1>2, <2>1, <2>2
      DEF Duties, rale_handle_follower_duties, rale_handle_candidate_duties, DutiesReached
  <1>3. ASSUME NEW m \in net, NEW n, n = m.to, rale_handle_message(n, m)
        PROVE  RolesInStep' /\ CampaignsOnOwnVote'
    <2>0. n \in Node /\ m.from \in Node
      BY <1>3, MessageShape
    <2>1. CASE DenyVote(n, m) \/ HandleHeartbeatAck(n, m) \/ HandleVoteDenied(n, m)
      <3>1. UNCHANGED <<nodeVars, cast, backers>>
        BY <2>1 DEF DenyVote, HandleHeartbeatAck, HandleVoteDenied
      <3> QED
        BY <3>1 DEF nodeVars
    <2>2. CASE HandleVoteRequest(n, m)
      <3>0. m.term \in Term
        BY <1>3, <2>2, MessageShape DEF HandleVoteRequest, Receives
      <3>1. CASE m.term > currentTerm[n]
        BY <2>0, <2>2, <3>1 DEF HandleVoteRequest, AdoptTerm, rale_become_follower
      <3>2. CASE ~(m.term > currentTerm[n])
        <4>1. m.term = currentTerm[n] /\ currentTerm' = currentTerm
          BY <2>0, <2>2, <3>0, <3>2 DEF HandleVoteRequest, Term
        <4>2. /\ votedFor' = [votedFor EXCEPT ![n] = IF GrantRule(n, m.from, votedFor[n], role[n])
                                                     THEN m.from ELSE votedFor[n]]
              /\ cast \subseteq cast'
              /\ up' = up
              /\ KeepRole
          BY <2>2, <3>2 DEF HandleVoteRequest
        <4>3. role[n] # "follower" => votedFor'[n] = n
          <5>1. role[n] # "follower" => votedFor[n] = n
            BY <2>0
          <5>2. GrantRule(n, m.from, votedFor[n], role[n]) /\ votedFor[n] = n => m.from = n
            BY <2>0, NodeAssumption DEF GrantRule
          <5>3. votedFor'[n] = IF GrantRule(n, m.from, votedFor[n], role[n]) THEN m.from ELSE votedFor[n]
            BY <2>0, <4>2
          <5> QED
            BY <5>1, <5>2, <5>3
        <4>4. \A q \in Node : q # n => votedFor'[q] = votedFor[q]
          BY <4>2
        <4> QED
          BY <4>1, <4>2, <4>3, <4>4 DEF KeepRole
      <3> QED
        BY <3>1, <3>2
    <2>3. CASE HandleHeartbeat(n, m)
      BY <2>0, <2>3 DEF HandleHeartbeat, rale_become_follower
    <2>4. CASE HandleVoteGranted(n, m)
      BY <2>0, <2>4 DEF HandleVoteGranted, rale_become_leader
    <2> QED
      BY <1>3, <2>1, <2>2, <2>3, <2>4 DEF rale_handle_message
  <1>4. ASSUME NEW n \in Node, StepDown(n) \/ Dies(n) \/ rale_proto_init(n)
        PROVE  RolesInStep' /\ CampaignsOnOwnVote'
    BY <1>4 DEF StepDown, rale_become_follower, Dies, rale_proto_init
  <1>5. ASSUME NEW m \in net, CrashBetweenSaves(m.to, m)
        PROVE  RolesInStep' /\ CampaignsOnOwnVote'
    BY <1>4, <1>5, MessageShape DEF CrashBetweenSaves
  <1> QED
    BY <1>1, <1>2, <1>3, <1>4, <1>5 DEF Next, Crash, CrashInSave

\* Whoever campaigns or leads has voted for itself in that term: in every reachable state,
\* with any number of crashes and whatever the disk does.
THEOREM OwnVote == Spec => []CampaignsOnOwnVote
  <1>1. Init => RoleInvariant
    BY BoundAssumption
    DEF Init, RoleInvariant, TypeOK, RolesInStep, CampaignsOnOwnVote, NoFile, StateFile, Term, Id
  <1>2. RoleInvariant => CampaignsOnOwnVote
    BY DEF RoleInvariant
  <1> QED
    BY <1>1, <1>2, RoleStep, PTL DEF Spec

-----------------------------------------------------------------------------
(* Leaders.                                                                *)

\* The leader that a save writes is the leader in memory, or the file stays as it was or
\* is left empty.
LEMMA SavedLeader ==
    ASSUME TypeOK, NEW n \in Node, rale_state_save(n)
    PROVE  /\ \A q \in Node : q # n => file'[q] = file[q]
           /\ \/ file'[n] = file[n]
              \/ file'[n].leader = NoNode
              \/ file'[n].leader = leaderId'[n] /\ file'[n].term = currentTerm'[n]
  BY DEF rale_state_save, SaveFails, NoFile, TypeOK

\* No step forgets an election, names a leader that was never elected, or sends a heartbeat
\* on behalf of one.
LEMMA LeaderStep == LeaderInvariant /\ [Next]_vars => LeaderInvariant'
  <1> SUFFICES ASSUME LeaderInvariant, [Next]_vars
               PROVE  LeadersComeFromElections'
    BY RoleStep DEF LeaderInvariant
  <1> USE DEF LeaderInvariant, RoleInvariant, LeadersComeFromElections, Elected, ElectedBy,
          NamedElected, FiledElected
  <1>a. \A e \in elections : e.term \in Term
    BY DEF TypeOK, Election
  <1>b. \A n \in Node : currentTerm[n] \in Int /\ file[n].term \in Int
    BY DEF TypeOK, StateFile, Term
  <1>1. CASE UNCHANGED vars
    BY <1>1 DEF vars, nodeVars
  <1>2. ASSUME NEW n \in Node, Duties(n) PROVE LeadersComeFromElections'
    <2>1. CASE rale_start_election(n)
      <3>1. elections' = elections /\ leaderId' = leaderId
        BY <2>1 DEF rale_start_election
      <3>2. \A q \in Node : /\ currentTerm'[q] \in Int
                            /\ currentTerm'[q] >= currentTerm[q]
                            /\ q # n => currentTerm'[q] = currentTerm[q]
        BY <1>b, <2>1 DEF rale_start_election, TypeOK
      <3>3. \A q \in Node : role'[q] = "leader" => q # n /\ role[q] = "leader"
        BY <2>1 DEF rale_start_election, TypeOK
      <3>4. \A m \in net' : m.type = "HEARTBEAT" => m \in net
        <4>1. currentTerm[n] + 1 \in Term
          BY <2>1, BoundAssumption DEF rale_start_election, TypeOK, Term
        <4>2. \A m \in Broadcast(n, "VOTE_REQUEST", currentTerm[n] + 1) : m.type = "VOTE_REQUEST"
          BY <4>1, BroadcastShape
        <4>3. net' = net \cup Broadcast(n, "VOTE_REQUEST", currentTerm[n] + 1)
          BY <2>1 DEF rale_start_election
        <4> QED
          BY <4>2, <4>3
      <3>5. ASSUME NEW q \in Node PROVE NamedElected(q)'
        <4>1. CASE leaderId[q] # NoNode
          <5>1. PICK e \in elections : e.leader = leaderId[q] /\ e.term <= currentTerm[q]
            BY <4>1
          <5>2. e.term <= currentTerm'[q]
            BY <1>a, <1>b, <3>2, <5>1 DEF Term
          <5> QED
            BY <3>1, <5>1, <5>2
        <4>2. CASE leaderId[q] = NoNode
          BY <3>1, <4>2
        <4> QED
          BY <4>1, <4>2
      <3>6. \A q \in Node : FiledElected(q)'
        BY <2>1, <3>1, <3>5, SavedLeader DEF rale_start_election
      <3>7. \A q \in Node : role'[q] = "leader" => Elected(q, currentTerm[q])'
        BY <3>1, <3>2, <3>3
      <3>8. \A m \in net' : m.type = "HEARTBEAT" => Elected(m.from, m.term)'
        BY <3>1, <3>4
      <3> QED
        BY <3>5, <3>6, <3>7, <3>8
    <2>2. CASE ResendVoteRequests(n)
      BY <2>2, BroadcastShape DEF ResendVoteRequests, nodeVars, TypeOK
    <2>3. CASE rale_handle_leader_duties(n)
      <3>1. \A m \in Broadcast(n, "HEARTBEAT", currentTerm[n]) : m.from = n /\ m.term = currentTerm[n]
        BY BroadcastShape DEF TypeOK
      <3> QED
        BY <2>3, <3>1 DEF rale_handle_leader_duties, nodeVars
    <2> QED
      BY <1>2, <2>1, <2>2, <2>3
      DEF Duties, rale_handle_follower_duties, rale_handle_candidate_duties
  <1>3. ASSUME NEW m \in net, NEW n, n = m.to, rale_handle_message(n, m)
        PROVE  LeadersComeFromElections'
    <2>0. n \in Node /\ m.from \in Node
      BY <1>3, MessageShape DEF TypeOK
    <2>1. CASE DenyVote(n, m) \/ HandleHeartbeatAck(n, m) \/ HandleVoteDenied(n, m)
      <3>1. \A x \in net' : x.type = "HEARTBEAT" => x \in net
        <4>1. CASE DenyVote(n, m)
          BY <4>1, AnswerShape DEF DenyVote
        <4>2. CASE HandleHeartbeatAck(n, m)
          BY <4>2, AnswerShape DEF HandleHeartbeatAck
        <4>3. CASE HandleVoteDenied(n, m)
          BY <4>3 DEF HandleVoteDenied
        <4> QED
          BY <2>1, <4>1, <4>2, <4>3
      <3>2. UNCHANGED <<nodeVars, file, elections>>
        BY <2>1 DEF DenyVote, HandleHeartbeatAck, HandleVoteDenied
      <3> QED
        BY <3>1, <3>2 DEF nodeVars
    <2>2. CASE HandleVoteRequest(n, m)
      <3>0. m.term \in Term
        BY <1>3, <2>2, MessageShape DEF HandleVoteRequest, Receives, TypeOK
      <3>1. elections' = elections /\ leaderId' = leaderId
        BY <2>0, <2>2 DEF HandleVoteRequest, AdoptTerm, rale_become_follower, KeepRole, TypeOK
      <3>2. /\ \A q \in Node : currentTerm'[q] >= currentTerm[q]
            /\ \A q \in Node : role'[q] = "leader" => role[q] = "leader" /\ currentTerm'[q] = currentTerm[q]
        <4>1. /\ currentTerm' = [currentTerm EXCEPT ![n] = m.term] /\ m.term >= currentTerm[n]
              /\ IF m.term > currentTerm[n] THEN AdoptTerm(n, m) ELSE KeepRole
          BY <2>2 DEF HandleVoteRequest
        <4>2. CASE m.term > currentTerm[n]
          <5>1. role' = [role EXCEPT ![n] = "follower"]
            BY <4>1, <4>2 DEF AdoptTerm, rale_become_follower
          <5> QED
            BY <1>b, <2>0, <3>0, <4>1, <5>1 DEF TypeOK, Term
        <4>3. CASE ~(m.term > currentTerm[n])
          <5>1. role' = role /\ m.term = currentTerm[n]
            BY <1>b, <2>0, <3>0, <4>1, <4>3 DEF KeepRole, Term
          <5> QED
            BY <1>b, <2>0, <4>1, <5>1 DEF TypeOK
        <4> QED
          BY <4>2, <4>3
      <3>3. \A x \in net' : x.type = "HEARTBEAT" => x \in net
        BY <2>2, AnswerShape DEF HandleVoteRequest
      <3>4. \A q \in Node : NamedElected(q)'
        <4>1. \A q \in Node : currentTerm'[q] \in Int
          BY <2>0, <2>2, <3>0 DEF HandleVoteRequest, TypeOK, Term
        <4> QED
          BY <1>a, <1>b, <3>1, <3>2, <4>1 DEF Term
      <3>5. \A q \in Node : FiledElected(q)'
        <4>1. rale_state_save(n) \/ VoteNotSaved(n, m.term) \/ file' = file
          BY <2>2 DEF HandleVoteRequest
        <4>2. CASE VoteNotSaved(n, m.term)
          <5>1. /\ file'[n].leader = leaderId'[n] /\ file'[n].term = currentTerm'[n]
                /\ \A q \in Node : q # n => file'[q] = file[q]
            BY <2>0, <2>2, <3>1, <4>2 DEF VoteNotSaved, HandleVoteRequest, TypeOK
          <5> QED
            BY <2>0, <3>1, <3>4, <5>1
        <4> QED
          BY <2>0, <3>1, <3>4, <4>1, <4>2, SavedLeader
      <3> QED
        BY <3>1, <3>2, <3>3, <3>4, <3>5
    <2>3. CASE HandleHeartbeat(n, m)
      <3>0. m.term \in Term /\ Elected(m.from, m.term)
        BY <1>3, <2>3, MessageShape DEF HandleHeartbeat, Receives, TypeOK
      <3>1. elections' = elections /\ m.from # NoNode
        BY <2>0, <2>3, NodeAssumption DEF HandleHeartbeat
      <3>2. /\ leaderId' = [leaderId EXCEPT ![n] = m.from]
            /\ \A q \in Node : role'[q] = "leader" => q # n /\ role[q] = "leader"
            /\ \A q \in Node : q # n => currentTerm'[q] = currentTerm[q]
            /\ currentTerm'[n] \in Int /\ currentTerm'[n] >= m.term
        BY <1>b, <2>0, <2>3, <3>0, <3>1 DEF HandleHeartbeat, rale_become_follower, TypeOK, Term
      <3>3. \A x \in net' : x.type = "HEARTBEAT" => x \in net
        BY <2>3, AnswerShape DEF HandleHeartbeat
      <3>4. \A q \in Node : NamedElected(q)'
        BY <1>a, <1>b, <2>0, <3>0, <3>1, <3>2 DEF TypeOK, Term
      <3>5. \A q \in Node : FiledElected(q)'
        BY <2>0, <2>3, <3>1, <3>4, SavedLeader DEF HandleHeartbeat
      <3> QED
        BY <3>1, <3>2, <3>3, <3>4, <3>5
    <2>4. CASE HandleVoteGranted(n, m)
      <3>0. net' = net /\ currentTerm' = currentTerm
        BY <2>4 DEF HandleVoteGranted
      <3>1. CASE UNCHANGED <<role, leaderId, file, elections>>
        BY <3>0, <3>1
      <3>2. ASSUME NEW supporters, rale_become_leader(n, supporters), rale_state_save(n)
            PROVE  LeadersComeFromElections'
        <4> DEFINE won == [leader |-> n, term |-> currentTerm[n], backers |-> supporters]
        <4>0. elections' = elections \cup {won}
          BY <3>2 DEF rale_become_leader
        <4>1. elections \subseteq elections' /\ Elected(n, currentTerm[n])'
          <5>1. won \in elections' /\ won.leader = n /\ won.term = currentTerm'[n]
            BY <3>0, <4>0
          <5> HIDE DEF won
          <5> QED
            BY <4>0, <5>1
        <4>2. leaderId' = [leaderId EXCEPT ![n] = n] /\ role' = [role EXCEPT ![n] = "leader"]
          BY <3>2 DEF rale_become_leader
        <4>3. \A q \in Node : NamedElected(q)'
          BY <1>b, <2>0, <3>0, <4>1, <4>2 DEF TypeOK
        <4>4. \A q \in Node : FiledElected(q)'
          BY <2>0, <3>2, <4>1, <4>3, SavedLeader
        <4> QED
          BY <2>0, <3>0, <4>1, <4>2, <4>3, <4>4 DEF TypeOK
      <3> QED
        BY <2>4, <3>1, <3>2 DEF HandleVoteGranted
    <2> QED
      BY <1>3, <2>1, <2>2, <2>3, <2>4 DEF rale_handle_message
  <1>4. ASSUME NEW n \in Node, StepDown(n) PROVE LeadersComeFromElections'
    <2>1. /\ UNCHANGED <<elections, net, leaderId, currentTerm>>
          /\ \A q \in Node : role'[q] = "leader" => role[q] = "leader"
      BY <1>4 DEF StepDown, rale_become_follower, TypeOK
    <2>2. \A q \in Node : FiledElected(q)'
      BY <1>4, <2>1, SavedLeader DEF StepDown
    <2> QED
      BY <2>1, <2>2
  <1>5. ASSUME NEW n \in Node, Dies(n),
               \A q \in Node : FiledElected(q)'
        PROVE  LeadersComeFromElections'
    BY <1>5 DEF Dies, TypeOK
  <1>6. ASSUME NEW n \in Node, Crash(n) PROVE LeadersComeFromElections'
    BY <1>5, <1>6 DEF Crash, Dies
  <1>7. ASSUME NEW m \in net, CrashBetweenSaves(m.to, m) PROVE LeadersComeFromElections'
    <2>1. m.to \in Node /\ m.term \in Term /\ m.term > currentTerm[m.to]
      BY <1>7, MessageShape DEF CrashBetweenSaves, Receives, TypeOK
    <2>2. elections' = elections /\ Dies(m.to)
      BY <1>7 DEF CrashBetweenSaves, Dies
    <2>3. \A q \in Node : FiledElected(q)'
      BY <1>7, <1>a, <1>b, <2>1, <2>2 DEF CrashBetweenSaves, TypeOK, Term
    <2> QED
      BY <1>5, <2>1, <2>2, <2>3
  <1>8. ASSUME NEW n \in Node, CrashInSave(n) PROVE LeadersComeFromElections'
    <2>1. \A q \in Node : FiledElected(q)'
      BY <1>8 DEF CrashInSave, Dies, TypeOK, NoFile
    <2> QED
      BY <1>5, <1>8, <2>1 DEF CrashInSave
  <1>9. ASSUME NEW n \in Node, rale_proto_init(n) PROVE LeadersComeFromElections'
    BY <1>9 DEF rale_proto_init, TypeOK, RolesInStep, LoadTerm
  <1> QED
    BY <1>1, <1>2, <1>3, <1>4, <1>6, <1>7, <1>8, <1>9 DEF Next

\* The leader a node names has won an election of a term the node has reached: in every
\* reachable state, with crashes, lost and repeated datagrams and failed saves.
THEOREM NamedLeaderWasElected == Spec => []LeaderWasElected
  <1>1. Init => LeaderInvariant
    BY BoundAssumption
    DEF Init, LeaderInvariant, RoleInvariant, TypeOK, RolesInStep, CampaignsOnOwnVote,
        LeadersComeFromElections, NamedElected, FiledElected, NoFile, StateFile, Term, Id
  <1>2. LeaderInvariant => LeaderWasElected
    BY DEF LeaderInvariant, LeadersComeFromElections, LeaderWasElected, NamedElected, ElectedBy
  <1> QED
    BY <1>1, <1>2, LeaderStep, PTL DEF Spec

-----------------------------------------------------------------------------
(* Votes, as long as every write has succeeded (saveFaults = 0).           *)

\* Without faults a save puts the memory into the file.
LEMMA GoodSave ==
    ASSUME saveFaults' = 0, TypeOK, NEW n \in Node, rale_state_save(n)
    PROVE  file' = [file EXCEPT ![n] = [term |-> currentTerm'[n], vote |-> votedFor'[n],
                                        leader |-> leaderId'[n]]]
  BY DEF rale_state_save, SaveFails, TypeOK

\* A step that gives no vote and takes no file back in time keeps the votes.
LEMMA KeptVotes ==
    ASSUME TypeOK, TypeOK', VoteOutlivesCrash, OneVotePerTerm, cast' = cast,
           \A q \in Node : \/ file'[q].term > file[q].term
                           \/ file'[q].term = file[q].term /\ file'[q].vote = file[q].vote
    PROVE  VoteOutlivesCrash' /\ OneVotePerTerm'
  <1>1. \A q \in Node : file[q].term \in Int /\ file'[q].term \in Int
    BY DEF TypeOK, StateFile, Term
  <1>2. \A t \in Term : t \in Int
    BY DEF Term
  <1> QED
    BY <1>1, <1>2 DEF VoteOutlivesCrash, OneVotePerTerm

\* A vote of a term that the file has not reached, or that the file leaves free, or that it
\* already shows, is the only vote of that term.
LEMMA NewVote ==
    ASSUME TypeOK, TypeOK', VoteOutlivesCrash, OneVotePerTerm,
           NEW n \in Node, NEW t \in Term, NEW c \in Node,
           \/ file[n].term < t
           \/ file[n].term = t /\ file[n].vote \in {NoNode, c},
           cast' = cast \cup {<<n, t, c>>},
           file'[n].term = t, file'[n].vote = c,
           \A q \in Node : q # n => file'[q] = file[q]
    PROVE  VoteOutlivesCrash' /\ OneVotePerTerm'
  <1>1. \A q \in Node : file[q].term \in Int /\ file'[q].term \in Int
    BY DEF TypeOK, StateFile, Term
  <1>2. \A x \in Term : x \in Int
    BY DEF Term
  <1>3. \A d \in Node : <<n, t, d>> \in cast => d = c
    BY <1>1, <1>2, NodeAssumption DEF VoteOutlivesCrash
  <1>4. \A x \in Term, d \in Node : <<n, x, d>> \in cast => x < t \/ (x = t /\ d = c)
    <2> SUFFICES ASSUME NEW x \in Term, NEW d \in Node, <<n, x, d>> \in cast, ~(x < t)
                 PROVE  x = t /\ d = c
      OBVIOUS
    <2>1. file[n].term >= x
      BY <1>1, <1>2 DEF VoteOutlivesCrash
    <2>2. x = t
      BY <1>1, <1>2, <2>1
    <2> QED
      BY <1>3, <2>2
  <1>5. OneVotePerTerm'
    BY <1>3 DEF OneVotePerTerm
  <1>6. VoteOutlivesCrash'
    <2> SUFFICES ASSUME NEW v \in Node, NEW x \in Term, NEW d \in Node, <<v, x, d>> \in cast'
                 PROVE  file'[v].term > x \/ (file'[v].term = x /\ file'[v].vote = d)
      BY DEF VoteOutlivesCrash
    <2>1. CASE v = n
      BY <1>1, <1>2, <1>4, <2>1
    <2>2. CASE v # n
      <3>1. <<v, x, d>> \in cast
        BY <2>2
      <3> QED
        BY <2>2, <3>1 DEF VoteOutlivesCrash
    <2> QED
      BY <2>1, <2>2
  <1> QED
    BY <1>5, <1>6

\* In a file that shows the memory of the node, a later term in memory is one in the file.
LEMMA FileShowsMemory ==
    ASSUME TypeOK, FileInStep, NEW n \in Node, up[n]
    PROVE  file[n].term = currentTerm[n] /\ file[n].vote = votedFor[n]
  BY DEF FileInStep, TypeOK

\* A save by a running node keeps every file in step with its node.
LEMMA SaveKeepsStep ==
    ASSUME saveFaults' = 0, TypeOK, TypeOK', FileInStep, NEW n \in Node, rale_state_save(n),
           \A q \in Node : q # n => /\ up'[q] = up[q]
                                    /\ currentTerm'[q] = currentTerm[q]
                                    /\ votedFor'[q] = votedFor[q]
                                    /\ leaderId'[q] = leaderId[q]
    PROVE  FileInStep'
  <1>1. file' = [file EXCEPT ![n] = [term |-> currentTerm'[n], vote |-> votedFor'[n],
                                     leader |-> leaderId'[n]]]
    BY GoodSave
  <1>2. file'[n] = [term |-> currentTerm'[n], vote |-> votedFor'[n], leader |-> leaderId'[n]]
    BY <1>1 DEF TypeOK
  <1>3. file'[n].term >= currentTerm'[n]
    BY <1>2 DEF TypeOK, Term
  <1>4. \A q \in Node : q # n => file'[q] = file[q]
    BY <1>1 DEF TypeOK
  <1> QED
    BY <1>2, <1>3, <1>4 DEF FileInStep

\* Duties: only an election gives a vote, the node's own in a new term.
LEMMA DutiesKeepVotes ==
    ASSUME saveFaults' = 0, VoteInvariant, TypeOK', NEW n \in Node, Duties(n)
    PROVE  FileInStep' /\ VoteOutlivesCrash' /\ OneVotePerTerm' /\ SupportIsCast'
  <1> USE DEF VoteInvariant, RoleInvariant
  <1>1. CASE up[n] /\ rale_start_election(n)
    <2>1. /\ currentTerm' = [currentTerm EXCEPT ![n] = @ + 1]
          /\ votedFor' = [votedFor EXCEPT ![n] = n]
          /\ UNCHANGED <<leaderId, up, elections>>
          /\ rale_state_save(n)
          /\ cast' = cast \cup {<<n, currentTerm[n] + 1, n>>}
          /\ backers' = [backers EXCEPT ![n] = {n}]
          /\ net' = net \cup Broadcast(n, "VOTE_REQUEST", currentTerm[n] + 1)
      BY <1>1 DEF rale_start_election
    <2>2. currentTerm[n] + 1 \in Term /\ currentTerm[n] \in Int
      BY <1>1, BoundAssumption DEF rale_start_election, TypeOK, Term
    <2>3. FileInStep'
      BY <2>1, SaveKeepsStep DEF TypeOK
    <2>4. /\ file'[n].term = currentTerm[n] + 1 /\ file'[n].vote = n
          /\ \A q \in Node : q # n => file'[q] = file[q]
      BY <2>1, GoodSave DEF TypeOK
    <2>5. file[n].term < currentTerm[n] + 1
      BY <1>1, <2>2, FileShowsMemory
    <2>6. VoteOutlivesCrash' /\ OneVotePerTerm'
      BY <2>1, <2>2, <2>4, <2>5, NewVote
    <2>7. SupportIsCast'
      <3>1. \A m \in net' : m.type = "VOTE_GRANTED" => m \in net
        <4>1. \A m \in Broadcast(n, "VOTE_REQUEST", currentTerm[n] + 1) : m.type = "VOTE_REQUEST"
          BY <2>2, BroadcastShape
        <4> QED
          BY <2>1, <4>1
      <3>2. cast \subseteq cast'
        BY <2>1
      <3>3. \A q \in Node : \A v \in backers'[q] : <<v, currentTerm'[q], q>> \in cast'
        <4> SUFFICES ASSUME NEW q \in Node, NEW v \in backers'[q]
                     PROVE  <<v, currentTerm'[q], q>> \in cast'
          OBVIOUS
        <4>1. CASE q = n
          BY <2>1, <4>1 DEF TypeOK
        <4>2. CASE q # n
          BY <2>1, <3>2, <4>2 DEF TypeOK, SupportIsCast
        <4> QED
          BY <4>1, <4>2
      <3> QED
        BY <2>1, <3>1, <3>2, <3>3 DEF SupportIsCast
    <2> QED
      BY <2>3, <2>6, <2>7
  <1>2. ASSUME NEW type \in {"VOTE_REQUEST", "HEARTBEAT"},
               net' = net \cup Broadcast(n, type, currentTerm[n]),
               UNCHANGED <<nodeVars, file, crashes, saveFaults, cast, backers, elections>>
        PROVE  FileInStep' /\ VoteOutlivesCrash' /\ OneVotePerTerm' /\ SupportIsCast'
    <2>1. \A m \in net' : m.type = "VOTE_GRANTED" => m \in net
      BY <1>2, BroadcastShape DEF TypeOK
    <2> QED
      BY <1>2, <2>1
      DEF nodeVars, FileInStep, VoteOutlivesCrash, OneVotePerTerm, SupportIsCast
  <1>3. CASE ResendVoteRequests(n)
    BY <1>2, <1>3 DEF ResendVoteRequests
  <1>4. CASE rale_handle_leader_duties(n)
    BY <1>2, <1>4 DEF rale_handle_leader_duties
  <1> QED
    BY <1>1, <1>3, <1>4
    DEF Duties, rale_handle_follower_duties, rale_handle_candidate_duties, DutiesReached

\* A step that leaves every vote, file and counted supporter alone and announces no vote.
LEMMA InertStep ==
    ASSUME VoteInvariant,
           UNCHANGED <<up, currentTerm, votedFor, leaderId, file, cast, backers, elections>>,
           \A m \in net' : m.type = "VOTE_GRANTED" => m \in net
    PROVE  FileInStep' /\ VoteOutlivesCrash' /\ OneVotePerTerm' /\ SupportIsCast'
  BY DEF VoteInvariant, FileInStep, VoteOutlivesCrash, OneVotePerTerm, SupportIsCast

\* Votes and supporters: the parts of SupportIsCast that survive when no vote is taken back
\* and whoever changes its term has forgotten its supporters.
LEMMA KeptSupport ==
    ASSUME TypeOK, SupportIsCast, cast \subseteq cast', elections' = elections,
           \A m \in net' : m.type = "VOTE_GRANTED" => m \in net \/ <<m.from, m.term, m.to>> \in cast',
           \A q \in Node : \/ backers'[q] = {}
                           \/ backers'[q] = backers[q] /\ currentTerm'[q] = currentTerm[q]
    PROVE  SupportIsCast'
  <1>1. \A m \in net' : m.type = "VOTE_GRANTED" => <<m.from, m.term, m.to>> \in cast'
    BY DEF SupportIsCast
  <1>2. \A q \in Node : \A v \in backers'[q] : <<v, currentTerm'[q], q>> \in cast'
    BY DEF SupportIsCast
  <1>3. \A e \in elections' : \A v \in e.backers : <<v, e.term, e.leader>> \in cast'
    BY DEF SupportIsCast
  <1> QED
    BY <1>1, <1>2, <1>3 DEF SupportIsCast

\* A vote request: a granted vote is saved, is free or the candidate's before, and is the
\* only one of its term.
LEMMA VoteRequestKeepsVotes ==
    ASSUME saveFaults' = 0, VoteInvariant, TypeOK', NEW n \in Node, NEW m \in net,
           HandleVoteRequest(n, m)
    PROVE  FileInStep' /\ VoteOutlivesCrash' /\ OneVotePerTerm' /\ SupportIsCast'
  <1> USE DEF VoteInvariant, RoleInvariant
  <1> DEFINE later == m.term > currentTerm[n]
             vote == IF later THEN NoNode ELSE votedFor[n]
             grant == GrantRule(n, m.from, vote, IF later THEN "follower" ELSE role[n])
             answer == [type |-> "VOTE_GRANTED", from |-> n, to |-> m.from, term |-> m.term]
  <1>0. /\ m.type = "VOTE_REQUEST" /\ m.to = n /\ up[n]
        /\ m.from \in Node /\ m.term \in Term /\ m.term >= currentTerm[n]
        /\ m.term \in Int /\ currentTerm[n] \in Int
    BY MessageShape DEF HandleVoteRequest, Receives, TypeOK, Term
  <1>1. /\ IF later THEN AdoptTerm(n, m) ELSE KeepRole
        /\ currentTerm' = [currentTerm EXCEPT ![n] = m.term]
        /\ votedFor' = [votedFor EXCEPT ![n] = IF grant THEN m.from ELSE vote]
        /\ IF later \/ grant THEN rale_state_save(n) ELSE UNCHANGED <<file, saveFaults>>
        /\ net' = IF grant THEN net \cup Answer(n, answer) ELSE net
        /\ cast' = IF grant THEN cast \cup {<<n, m.term, m.from>>} ELSE cast
        /\ UNCHANGED <<up, crashes, elections>>
    <2>1. ~VoteNotSaved(n, m.term)
      BY DEF VoteNotSaved, TypeOK
    <2> QED
      BY <2>1 DEF HandleVoteRequest
  <1>2. \A q \in Node : q # n => /\ up'[q] = up[q]
                                 /\ currentTerm'[q] = currentTerm[q]
                                 /\ votedFor'[q] = votedFor[q]
                                 /\ leaderId'[q] = leaderId[q]
    BY <1>1 DEF AdoptTerm, KeepRole, rale_become_follower, TypeOK
  <1>3. file[n].term = currentTerm[n] /\ file[n].vote = votedFor[n]
    BY <1>0, FileShowsMemory
  <1>4. \A q \in Node : \/ backers'[q] = {}
                        \/ backers'[q] = backers[q] /\ currentTerm'[q] = currentTerm[q]
    <2>1. CASE later
      <3>1. backers' = [backers EXCEPT ![n] = {}]
        BY <1>1, <2>1 DEF AdoptTerm, rale_become_follower
      <3> QED
        BY <1>2, <3>1 DEF TypeOK
    <2>2. CASE ~later
      <3>1. backers' = backers /\ currentTerm[n] = m.term
        BY <1>0, <1>1, <2>2 DEF KeepRole
      <3> QED
        BY <1>1, <3>1 DEF TypeOK
    <2> QED
      BY <2>1, <2>2
  <1>5. later => grant
    BY <1>0 DEF GrantRule
  <1>6. CASE grant
    <2>1. /\ rale_state_save(n)
          /\ votedFor' = [votedFor EXCEPT ![n] = m.from]
          /\ net' = net \cup Answer(n, answer)
          /\ cast' = cast \cup {<<n, m.term, m.from>>}
      BY <1>1, <1>6
    <2>2. FileInStep'
      BY <1>2, <2>1, SaveKeepsStep
    <2>3. /\ file'[n].term = m.term /\ file'[n].vote = m.from
          /\ \A q \in Node : q # n => file'[q] = file[q]
      BY <1>1, <2>1, GoodSave DEF TypeOK
    <2>4. vote \in {NoNode, m.from}
      BY <1>6 DEF GrantRule
    <2>5. \/ file[n].term < m.term
          \/ file[n].term = m.term /\ file[n].vote \in {NoNode, m.from}
      BY <1>0, <1>3, <2>4
    <2> HIDE DEF later, vote, grant
    <2>6. VoteOutlivesCrash' /\ OneVotePerTerm'
      BY <1>0, <2>1, <2>3, <2>5, NewVote
    <2>7. \A x \in net' : x.type = "VOTE_GRANTED" => x \in net \/ <<x.from, x.term, x.to>> \in cast'
      BY <2>1 DEF Answer
    <2>8. cast \subseteq cast' /\ elections' = elections
      BY <1>1, <2>1
    <2> QED
      BY <1>4, <2>2, <2>6, <2>7, <2>8, KeptSupport
  <1>7. CASE ~grant
    <2>1. UNCHANGED <<file, cast, net, up, leaderId, elections>> /\ currentTerm[n] = m.term
      BY <1>0, <1>1, <1>5, <1>7 DEF KeepRole
    <2>2. currentTerm' = currentTerm /\ votedFor' = votedFor /\ backers' = backers
      BY <1>0, <1>1, <1>5, <1>7, <2>1 DEF KeepRole, TypeOK
    <2> QED
      BY <2>1, <2>2, InertStep
  <1> QED
    BY <1>6, <1>7

\* The other messages: a heartbeat gives no vote, and a grant adds a voter that has cast
\* its vote of this term for the candidate.
LEMMA HandlersKeepVotes ==
    ASSUME saveFaults' = 0, VoteInvariant, TypeOK', NEW n \in Node, NEW m \in net,
           rale_handle_message(n, m)
    PROVE  FileInStep' /\ VoteOutlivesCrash' /\ OneVotePerTerm' /\ SupportIsCast'
  <1> USE DEF VoteInvariant, RoleInvariant
  <1>2. CASE DenyVote(n, m)
    <2>1. \A x \in net' : x.type = "VOTE_GRANTED" => x \in net
      BY <1>2 DEF DenyVote, Answer
    <2> QED
      BY <1>2, <2>1, InertStep DEF DenyVote, nodeVars
  <1>3. CASE HandleVoteRequest(n, m)
    BY <1>3, VoteRequestKeepsVotes
  <1>4. CASE HandleHeartbeat(n, m)
    <2>0. m.from \in Node /\ m.term \in Term /\ m.term \in Int /\ currentTerm[n] \in Int /\ up[n]
      BY <1>4, MessageShape DEF HandleHeartbeat, Receives, TypeOK, Term
    <2>1. /\ currentTerm' = [currentTerm EXCEPT ![n] = IF m.term > currentTerm[n] THEN m.term ELSE @]
          /\ votedFor' = [votedFor EXCEPT ![n] = IF m.term > currentTerm[n] THEN NoNode ELSE @]
          /\ rale_state_save(n)
          /\ UNCHANGED <<up, cast, elections>>
          /\ backers' = [backers EXCEPT ![n] = {}]
          /\ leaderId' = [leaderId EXCEPT ![n] = IF m.from # NoNode THEN m.from ELSE @]
      BY <1>4 DEF HandleHeartbeat, rale_become_follower
    <2>2. FileInStep'
      BY <2>1, SaveKeepsStep DEF TypeOK
    <2>3. file[n].term = currentTerm[n] /\ file[n].vote = votedFor[n]
      BY <2>0, FileShowsMemory
    <2>4. /\ file'[n].term = currentTerm'[n] /\ file'[n].vote = votedFor'[n]
          /\ \A q \in Node : q # n => file'[q] = file[q]
      BY <2>1, GoodSave DEF TypeOK
    <2>5. \A q \in Node : \/ file'[q].term > file[q].term
                          \/ file'[q].term = file[q].term /\ file'[q].vote = file[q].vote
      <3>1. CASE m.term > currentTerm[n]
        BY <2>0, <2>1, <2>3, <2>4, <3>1 DEF TypeOK
      <3>2. CASE ~(m.term > currentTerm[n])
        BY <2>0, <2>1, <2>3, <2>4, <3>2 DEF TypeOK
      <3> QED
        BY <3>1, <3>2
    <2>6. VoteOutlivesCrash' /\ OneVotePerTerm'
      BY <2>1, <2>5, KeptVotes
    <2>7. \A x \in net' : x.type = "VOTE_GRANTED" => x \in net
      BY <1>4 DEF HandleHeartbeat, Answer
    <2>8. \A q \in Node : \/ backers'[q] = {}
                          \/ backers'[q] = backers[q] /\ currentTerm'[q] = currentTerm[q]
      BY <2>1 DEF TypeOK
    <2> QED
      BY <2>1, <2>2, <2>6, <2>7, <2>8, KeptSupport
  <1>5. CASE HandleHeartbeatAck(n, m)
    <2>1. \A x \in net' : x.type = "VOTE_GRANTED" => x \in net
      BY <1>5 DEF HandleHeartbeatAck, Answer
    <2> QED
      BY <1>5, <2>1, InertStep DEF HandleHeartbeatAck, nodeVars
  <1>6. CASE HandleVoteGranted(n, m)
    <2>0. /\ m.type = "VOTE_GRANTED" /\ m.to = n /\ m.from \in Node
          /\ UNCHANGED <<up, net, cast, currentTerm, votedFor>>
      BY <1>6, MessageShape DEF HandleVoteGranted, Receives, TypeOK, rale_become_leader
    <2> DEFINE supporters == IF m.term = currentTerm[n] THEN backers[n] \cup {m.from}
                                                         ELSE backers[n]
    <2>1. \A v \in supporters : <<v, currentTerm[n], n>> \in cast
      BY <2>0 DEF SupportIsCast
    <2>2. CASE UNCHANGED <<leaderId, file, backers, elections>>
      BY <2>0, <2>2, InertStep
    <2>3. CASE /\ backers' = [backers EXCEPT ![n] = supporters]
               /\ UNCHANGED <<leaderId, file, elections>>
      <3>1. FileInStep' /\ VoteOutlivesCrash' /\ OneVotePerTerm'
        BY <2>0, <2>3 DEF FileInStep, VoteOutlivesCrash, OneVotePerTerm
      <3>2. \A q \in Node : \A v \in backers'[q] : <<v, currentTerm'[q], q>> \in cast'
        BY <2>0, <2>1, <2>3 DEF TypeOK, SupportIsCast
      <3> QED
        BY <2>0, <2>3, <3>1, <3>2 DEF SupportIsCast
    <2>4. CASE rale_become_leader(n, supporters) /\ rale_state_save(n)
      <3> DEFINE won == [leader |-> n, term |-> currentTerm[n], backers |-> supporters]
      <3>1. /\ elections' = elections \cup {won}
            /\ backers' = [backers EXCEPT ![n] = {}]
            /\ leaderId' = [leaderId EXCEPT ![n] = n]
        BY <2>4 DEF rale_become_leader
      <3>2. FileInStep'
        BY <2>0, <2>4, <3>1, SaveKeepsStep DEF TypeOK
      <3>3. up[n]
        BY <1>6 DEF HandleVoteGranted, Receives
      <3>4. \A q \in Node : file'[q].term = file[q].term /\ file'[q].vote = file[q].vote
        <4>1. file[n].term = currentTerm[n] /\ file[n].vote = votedFor[n]
          BY <3>3, FileShowsMemory
        <4>2. /\ file'[n].term = currentTerm[n] /\ file'[n].vote = votedFor[n]
              /\ \A q \in Node : q # n => file'[q] = file[q]
          BY <2>0, <2>4, GoodSave DEF TypeOK
        <4> QED
          BY <4>1, <4>2
      <3>5. VoteOutlivesCrash' /\ OneVotePerTerm'
        BY <2>0, <3>4, KeptVotes
      <3>6. \A q \in Node : \A v \in backers'[q] : <<v, currentTerm'[q], q>> \in cast'
        BY <2>0, <3>1 DEF TypeOK, SupportIsCast
      <3>7. \A v \in won.backers : <<v, won.term, won.leader>> \in cast
        BY <2>1
      <3> HIDE DEF won
      <3>8. \A e \in elections' : \A v \in e.backers : <<v, e.term, e.leader>> \in cast'
        BY <2>0, <3>1, <3>7 DEF SupportIsCast
      <3> QED
        BY <2>0, <3>2, <3>5, <3>6, <3>8 DEF SupportIsCast
    <2> QED
      BY <1>6, <2>2, <2>3, <2>4 DEF HandleVoteGranted
  <1>7. CASE HandleVoteDenied(n, m)
    BY <1>7, InertStep DEF HandleVoteDenied, nodeVars
  <1> QED
    BY <1>2, <1>3, <1>4, <1>5, <1>6, <1>7 DEF rale_handle_message

\* Commands, crashes and restarts: a crash leaves the file, which a restart reads back; a
\* crash between the two saves of a vote request leaves a later term without a vote.
LEMMA LifecycleKeepsVotes ==
    ASSUME saveFaults' = 0, VoteInvariant, TypeOK',
           \/ \E n \in Node : StepDown(n) \/ Crash(n) \/ CrashInSave(n) \/ rale_proto_init(n)
           \/ \E m \in net : CrashBetweenSaves(m.to, m)
    PROVE  FileInStep' /\ VoteOutlivesCrash' /\ OneVotePerTerm' /\ SupportIsCast'
  <1> USE DEF VoteInvariant, RoleInvariant
  <1>1. ASSUME NEW n \in Node, StepDown(n)
        PROVE  FileInStep' /\ VoteOutlivesCrash' /\ OneVotePerTerm' /\ SupportIsCast'
    <2>1. /\ UNCHANGED <<currentTerm, votedFor, up, net, cast, elections>>
          /\ backers' = [backers EXCEPT ![n] = {}]
          /\ leaderId' = [leaderId EXCEPT ![n] = @]
          /\ rale_state_save(n) /\ up[n]
      BY <1>1 DEF StepDown, rale_become_follower
    <2>2. FileInStep'
      BY <2>1, SaveKeepsStep DEF TypeOK
    <2>3. \A q \in Node : file'[q].term = file[q].term /\ file'[q].vote = file[q].vote
      <3>1. file[n].term = currentTerm[n] /\ file[n].vote = votedFor[n]
        BY <2>1, FileShowsMemory
      <3>2. /\ file'[n].term = currentTerm[n] /\ file'[n].vote = votedFor[n]
            /\ \A q \in Node : q # n => file'[q] = file[q]
        BY <2>1, GoodSave DEF TypeOK
      <3> QED
        BY <3>1, <3>2
    <2>4. VoteOutlivesCrash' /\ OneVotePerTerm'
      BY <2>1, <2>3, KeptVotes
    <2>5. SupportIsCast'
      BY <2>1, KeptSupport DEF TypeOK
    <2> QED
      BY <2>2, <2>4, <2>5
  <1>2. ASSUME NEW n \in Node, Crash(n)
        PROVE  FileInStep' /\ VoteOutlivesCrash' /\ OneVotePerTerm' /\ SupportIsCast'
    <2>1. /\ UNCHANGED <<currentTerm, votedFor, leaderId, net, cast, elections, file>>
          /\ backers' = [backers EXCEPT ![n] = {}]
          /\ up' = [up EXCEPT ![n] = FALSE]
      BY <1>2 DEF Crash, Dies
    <2>2. FileInStep'
      BY <2>1 DEF FileInStep, TypeOK
    <2>3. SupportIsCast'
      BY <2>1, KeptSupport DEF TypeOK
    <2> QED
      BY <2>1, <2>2, <2>3 DEF VoteOutlivesCrash, OneVotePerTerm
  <1>3. ASSUME NEW n \in Node, CrashInSave(n)
        PROVE  FALSE
    BY <1>3 DEF CrashInSave, TypeOK
  <1>4. ASSUME NEW n \in Node, rale_proto_init(n)
        PROVE  FileInStep' /\ VoteOutlivesCrash' /\ OneVotePerTerm' /\ SupportIsCast'
    <2>1. /\ UNCHANGED <<file, net, cast, backers, elections>>
          /\ up' = [up EXCEPT ![n] = TRUE] /\ ~up[n]
          /\ currentTerm' = [currentTerm EXCEPT ![n] = file[n].term]
          /\ votedFor' = [votedFor EXCEPT ![n] = file[n].vote]
          /\ leaderId' = [leaderId EXCEPT ![n] = file[n].leader]
      BY <1>4 DEF rale_proto_init, LoadTerm
    <2>2. file[n] = [term |-> file[n].term, vote |-> file[n].vote, leader |-> file[n].leader]
      BY DEF TypeOK, StateFile
    <2>3. file[n].term >= file[n].term
      BY DEF TypeOK, StateFile, Term
    <2>4. FileInStep'
      BY <2>1, <2>2, <2>3 DEF FileInStep, TypeOK
    <2>5. backers[n] = {}
      BY <2>1 DEF RolesInStep
    <2>6. SupportIsCast'
      BY <2>1, <2>5, KeptSupport DEF TypeOK
    <2> QED
      BY <2>1, <2>4, <2>6 DEF VoteOutlivesCrash, OneVotePerTerm
  <1>5. ASSUME NEW m \in net, CrashBetweenSaves(m.to, m)
        PROVE  FileInStep' /\ VoteOutlivesCrash' /\ OneVotePerTerm' /\ SupportIsCast'
    <2> DEFINE n == m.to
    <2>0. /\ n \in Node /\ m.term \in Term /\ m.term > currentTerm[n]
          /\ m.term \in Int /\ currentTerm[n] \in Int /\ up[n]
      BY <1>5, MessageShape DEF CrashBetweenSaves, Receives, TypeOK, Term
    <2>1. /\ UNCHANGED <<currentTerm, votedFor, leaderId, net, cast, elections>>
          /\ backers' = [backers EXCEPT ![n] = {}]
          /\ up' = [up EXCEPT ![n] = FALSE]
          /\ file' = [file EXCEPT ![n] = [term |-> m.term, vote |-> NoNode, leader |-> leaderId[n]]]
      BY <1>5 DEF CrashBetweenSaves, Dies
    <2> HIDE DEF n
    <2>2. file'[n].term = m.term /\ \A q \in Node : q # n => file'[q] = file[q]
      BY <2>0, <2>1 DEF TypeOK
    <2>3. FileInStep'
      BY <2>0, <2>1, <2>2 DEF FileInStep, TypeOK
    <2>4. file[n].term = currentTerm[n]
      BY <2>0, FileShowsMemory
    <2>5. VoteOutlivesCrash' /\ OneVotePerTerm'
      BY <2>0, <2>1, <2>2, <2>4, KeptVotes
    <2>6. SupportIsCast'
      BY <2>0, <2>1, KeptSupport DEF TypeOK
    <2> QED
      BY <2>3, <2>5, <2>6
  <1> QED
    BY <1>1, <1>2, <1>3, <1>4, <1>5

\* Every step keeps the vote invariant on a good disk.
LEMMA VoteStep ==
    ASSUME saveFaults' = 0, VoteInvariant, [Next]_vars
    PROVE  VoteInvariant'
  <1>1. RoleInvariant'
    BY RoleStep DEF VoteInvariant
  <1>2. TypeOK'
    BY <1>1 DEF RoleInvariant
  <1>3. CASE UNCHANGED vars
    BY <1>1, <1>3 DEF vars, nodeVars, VoteInvariant, FileInStep, VoteOutlivesCrash,
                      OneVotePerTerm, SupportIsCast
  <1>4. CASE Next
    <2>1. \A m \in net : m.to \in Node
      BY MessageShape DEF VoteInvariant, RoleInvariant, TypeOK
    <2>2. FileInStep' /\ VoteOutlivesCrash' /\ OneVotePerTerm' /\ SupportIsCast'
      BY <1>2, <1>4, <2>1, DutiesKeepVotes, HandlersKeepVotes, LifecycleKeepsVotes DEF Next
    <2> QED
      BY <1>1, <2>2 DEF VoteInvariant
  <1> QED
    BY <1>3, <1>4

\* A fault that has happened stays counted.
LEMMA FaultsStayCounted ==
    ASSUME TypeOK, [Next]_vars, saveFaults' = 0
    PROVE  saveFaults = 0
  <1>0. saveFaults \in Int /\ saveFaults >= 0
    BY DEF TypeOK
  <1>1. ASSUME NEW n, rale_state_save(n) PROVE saveFaults' \in {saveFaults, saveFaults + 1}
    BY <1>1 DEF rale_state_save, SaveFails
  <1>2. ASSUME NEW n \in Node, Duties(n) PROVE saveFaults' \in {saveFaults, saveFaults + 1}
    BY <1>1, <1>2 DEF Duties, rale_handle_follower_duties, rale_handle_candidate_duties, ResendVoteRequests,
                      rale_handle_leader_duties, rale_start_election
  <1>3. ASSUME NEW m \in net, rale_handle_message(m.to, m) PROVE saveFaults' \in {saveFaults, saveFaults + 1}
    <2>1. CASE HandleVoteRequest(m.to, m)
      BY <1>1, <2>1 DEF HandleVoteRequest, VoteNotSaved
    <2>2. CASE HandleVoteGranted(m.to, m)
      BY <1>1, <2>2 DEF HandleVoteGranted
    <2>3. CASE HandleHeartbeat(m.to, m)
      BY <1>1, <2>3 DEF HandleHeartbeat
    <2> QED
      BY <1>3, <2>1, <2>2, <2>3 DEF rale_handle_message, DenyVote, HandleHeartbeatAck, HandleVoteDenied
  <1>4. ASSUME NEW n \in Node, StepDown(n) \/ Crash(n) \/ CrashInSave(n) \/ rale_proto_init(n)
        PROVE  saveFaults' \in {saveFaults, saveFaults + 1}
    BY <1>1, <1>4 DEF StepDown, Crash, CrashInSave, rale_proto_init
  <1>5. ASSUME NEW m \in net, CrashBetweenSaves(m.to, m) PROVE saveFaults' \in {saveFaults, saveFaults + 1}
    BY <1>5 DEF CrashBetweenSaves
  <1>6. CASE UNCHANGED vars
    BY <1>6 DEF vars
  <1>7. CASE saveFaults' \in {saveFaults, saveFaults + 1}
    BY <1>0, <1>7
  <1> QED
    BY <1>2, <1>3, <1>4, <1>5, <1>6, <1>7 DEF Next

\* The vote invariant holds for as long as every write has succeeded.
LEMMA VoteInvariantWithoutFaults == Spec => [](TypeOK /\ (saveFaults = 0 => VoteInvariant))
  <1>1. Init => TypeOK /\ VoteInvariant
    BY BoundAssumption
    DEF Init, VoteInvariant, RoleInvariant, TypeOK, RolesInStep, CampaignsOnOwnVote, FileInStep,
        VoteOutlivesCrash, OneVotePerTerm, SupportIsCast, NoFile, StateFile, Term, Id
  <1>2. ASSUME TypeOK, saveFaults = 0 => VoteInvariant, [Next]_vars
        PROVE  TypeOK' /\ (saveFaults = 0 => VoteInvariant)'
    BY <1>2, TypeStep, FaultsStayCounted, VoteStep
  <1> QED
    BY <1>1, <1>2, PTL DEF Spec

\* A good disk gives the vote invariant in every reachable state.
LEMMA VoteInvariantHolds ==
    ASSUME MaxSaveFaults = 0 PROVE Spec => []VoteInvariant
  <1>1. TypeOK /\ (saveFaults = 0 => VoteInvariant) => VoteInvariant
    BY DEF TypeOK
  <1> QED
    BY <1>1, VoteInvariantWithoutFaults, PTL

\* One vote per term and node, over any number of crashes, restarts and repeated requests,
\* when every write of rale.state succeeds.
THEOREM VoteSafety ==
    ASSUME MaxSaveFaults = 0 PROVE Spec => []OneVotePerTerm
  <1>1. VoteInvariant => OneVotePerTerm
    BY DEF VoteInvariant
  <1> QED
    BY <1>1, VoteInvariantHolds, PTL

\* The vote is on disk for as long as it counts.
THEOREM VoteDurability ==
    ASSUME MaxSaveFaults = 0 PROVE Spec => []VoteOutlivesCrash
  <1>1. VoteInvariant => VoteOutlivesCrash
    BY DEF VoteInvariant
  <1> QED
    BY <1>1, VoteInvariantHolds, PTL

\* Two majorities of distinct voters share a voter, and a voter has one vote per term.
THEOREM MajoritySafety ==
    ASSUME MaxSaveFaults = 0 PROVE Spec => []MajorityElectionSafety
  <1>1. VoteInvariant => MajorityElectionSafety
    <2> SUFFICES ASSUME VoteInvariant,
                        NEW e1 \in elections, NEW e2 \in elections,
                        WonByMajority(e1), WonByMajority(e2), e1.term = e2.term
                 PROVE  e1.leader = e2.leader
      BY DEF MajorityElectionSafety
    <2>1. /\ e1.backers \in SUBSET Node /\ e2.backers \in SUBSET Node
          /\ e1.leader \in Node /\ e2.leader \in Node /\ e1.term \in Term
      BY DEF VoteInvariant, RoleInvariant, TypeOK, Election
    <2>2. /\ IsFiniteSet(Node) /\ IsFiniteSet(e1.backers) /\ IsFiniteSet(e2.backers)
          /\ Cardinality(Node) \in Nat
          /\ Cardinality(e1.backers) \in Nat /\ Cardinality(e2.backers) \in Nat
      BY <2>1, NodeAssumption, FS_Subset, FS_CardinalityType
    <2>3. Cardinality(e1.backers) + Cardinality(e2.backers) > Cardinality(Node)
      BY <2>2 DEF WonByMajority
    <2>4. e1.backers \cap e2.backers # {}
      BY <2>1, <2>2, <2>3, FS_MajoritiesIntersect
    <2>5. PICK v \in e1.backers : v \in e2.backers
      BY <2>4
    <2>6. <<v, e1.term, e1.leader>> \in cast /\ <<v, e1.term, e2.leader>> \in cast
      BY <2>5 DEF VoteInvariant, SupportIsCast
    <2> QED
      BY <2>1, <2>5, <2>6 DEF VoteInvariant, OneVotePerTerm
  <1> QED
    BY <1>1, VoteInvariantHolds, PTL

\* Terms never go back, because the file a restart reads is never behind the memory.
THEOREM TermMonotone ==
    ASSUME MaxSaveFaults = 0 PROVE Spec => TermNeverRewinds
  <1>1. ASSUME VoteInvariant, [Next]_vars
        PROVE  [\A n \in Node : currentTerm'[n] >= currentTerm[n]]_vars
    <2>0. TypeOK /\ FileInStep /\ \A q \in Node : currentTerm[q] \in Int
      BY <1>1 DEF VoteInvariant, RoleInvariant, TypeOK, Term
    <2> SUFFICES ASSUME Next, NEW n \in Node PROVE currentTerm'[n] >= currentTerm[n]
      BY <1>1
    <2>1. CASE currentTerm' = currentTerm
      BY <2>0, <2>1
    <2>2. ASSUME NEW q \in Node, Duties(q) PROVE currentTerm'[n] >= currentTerm[n]
      BY <2>0, <2>1, <2>2
      DEF Duties, rale_handle_follower_duties, rale_handle_candidate_duties,
          rale_start_election, ResendVoteRequests, rale_handle_leader_duties, nodeVars, TypeOK
    <2>3. ASSUME NEW m \in net, rale_handle_message(m.to, m)
          PROVE  currentTerm'[n] >= currentTerm[n]
      <3>1. m.to \in Node /\ m.type \in {"VOTE_REQUEST", "HEARTBEAT"} => m.term \in Int
        BY <2>0, MessageShape DEF TypeOK, Term
      <3>2. CASE HandleVoteRequest(m.to, m)
        BY <2>0, <3>1, <3>2 DEF HandleVoteRequest, Receives, TypeOK
      <3>3. CASE HandleHeartbeat(m.to, m)
        BY <2>0, <3>1, <3>3 DEF HandleHeartbeat, Receives, TypeOK
      <3>4. CASE DenyVote(m.to, m) \/ HandleHeartbeatAck(m.to, m) \/ HandleVoteGranted(m.to, m)
                 \/ HandleVoteDenied(m.to, m)
        BY <2>1, <3>4 DEF DenyVote, HandleHeartbeatAck, HandleVoteGranted, HandleVoteDenied, nodeVars
      <3> QED
        BY <2>3, <3>2, <3>3, <3>4 DEF rale_handle_message
    <2>4. ASSUME NEW q \in Node, StepDown(q) \/ Crash(q) \/ CrashInSave(q)
          PROVE  currentTerm'[n] >= currentTerm[n]
      BY <2>1, <2>4 DEF StepDown, Crash, CrashInSave, Dies
    <2>5. ASSUME NEW m \in net, CrashBetweenSaves(m.to, m)
          PROVE  currentTerm'[n] >= currentTerm[n]
      BY <2>1, <2>5 DEF CrashBetweenSaves, Dies
    <2>6. ASSUME NEW q \in Node, rale_proto_init(q) PROVE currentTerm'[n] >= currentTerm[n]
      BY <2>0, <2>6 DEF rale_proto_init, LoadTerm, FileInStep, TypeOK
    <2> QED
      BY <2>2, <2>3, <2>4, <2>5, <2>6 DEF Next
  <1> QED
    BY <1>1, VoteInvariantHolds, PTL DEF Spec, TermNeverRewinds

-----------------------------------------------------------------------------
(* Votes, as long as no process has died: memory carries them.             *)

\* A step that takes no memory back in time and gives no vote keeps the votes in memory.
LEMMA MemoryKept ==
    ASSUME TypeOK, TypeOK', MemoryHoldsVotes, up' = up, cast' = cast,
           \A q \in Node : \/ currentTerm'[q] > currentTerm[q]
                           \/ currentTerm'[q] = currentTerm[q] /\ votedFor'[q] = votedFor[q]
    PROVE  MemoryHoldsVotes'
  <1>1. \A q \in Node : currentTerm[q] \in Int /\ currentTerm'[q] \in Int
    BY DEF TypeOK, Term
  <1>2. \A t \in Term : t \in Int
    BY DEF Term
  <1>3. OneVotePerTerm'
    BY DEF MemoryHoldsVotes, OneVotePerTerm
  <1> QED
    BY <1>1, <1>2, <1>3 DEF MemoryHoldsVotes

\* A vote of a later term, or a free one, or one given before, is the only one of its term.
LEMMA MemoryVotes ==
    ASSUME TypeOK, TypeOK', MemoryHoldsVotes, up' = up, NEW n \in Node, NEW t \in Term, NEW c \in Node,
           \/ currentTerm[n] < t
           \/ currentTerm[n] = t /\ votedFor[n] \in {NoNode, c},
           cast' = cast \cup {<<n, t, c>>},
           currentTerm'[n] = t, votedFor'[n] = c,
           \A q \in Node : q # n => currentTerm'[q] = currentTerm[q] /\ votedFor'[q] = votedFor[q]
    PROVE  MemoryHoldsVotes'
  <1>1. \A q \in Node : currentTerm[q] \in Int /\ currentTerm'[q] \in Int
    BY DEF TypeOK, Term
  <1>2. \A x \in Term : x \in Int
    BY DEF Term
  <1>3. \A x \in Term, d \in Node : <<n, x, d>> \in cast =>
            currentTerm[n] > x \/ (currentTerm[n] = x /\ votedFor[n] = d)
    BY DEF MemoryHoldsVotes
  <1>4. \A d \in Node : <<n, t, d>> \in cast => d = c
    BY <1>1, <1>2, <1>3, NodeAssumption
  <1>5. OneVotePerTerm'
    BY <1>4 DEF MemoryHoldsVotes, OneVotePerTerm
  <1>6. ASSUME NEW v \in Node, NEW x \in Term, NEW d \in Node, <<v, x, d>> \in cast'
        PROVE  currentTerm'[v] > x \/ (currentTerm'[v] = x /\ votedFor'[v] = d)
    <2>1. CASE v = n
      <3>1. CASE x = t
        BY <1>4, <1>6, <2>1, <3>1
      <3>2. CASE x # t
        BY <1>1, <1>2, <1>3, <1>6, <2>1, <3>2
      <3> QED
        BY <3>1, <3>2
    <2>2. CASE v # n
      <3>1. <<v, x, d>> \in cast
        BY <1>6, <2>2
      <3> QED
        BY <2>2, <3>1 DEF MemoryHoldsVotes
    <2> QED
      BY <2>1, <2>2
  <1> QED
    BY <1>5, <1>6 DEF MemoryHoldsVotes

\* Every step keeps the votes in memory until a process dies.
LEMMA MemoryStep ==
    ASSUME TypeOK, TypeOK', crashes = 0 => MemoryHoldsVotes, [Next]_vars, crashes' = 0
    PROVE  MemoryHoldsVotes'
  <1>0. crashes \in Int /\ crashes >= 0
    BY DEF TypeOK
  <1>1. ASSUME NEW n, Dies(n) PROVE FALSE
    BY <1>0, <1>1 DEF Dies
  <1>2. \A q \in Node : currentTerm[q] \in Int
    BY DEF TypeOK, Term
  <1>3. CASE UNCHANGED vars
    BY <1>2, <1>3, MemoryKept DEF vars, nodeVars
  <1>4. ASSUME NEW n \in Node, Duties(n) PROVE MemoryHoldsVotes'
    <2>1. CASE rale_start_election(n)
      <3>1. currentTerm[n] + 1 \in Term /\ crashes' = crashes
        BY <1>2, <2>1, BoundAssumption DEF rale_start_election, TypeOK, Term
      <3>2. /\ currentTerm'[n] = currentTerm[n] + 1 /\ votedFor'[n] = n /\ up' = up
            /\ \A q \in Node : q # n => currentTerm'[q] = currentTerm[q] /\ votedFor'[q] = votedFor[q]
            /\ cast' = cast \cup {<<n, currentTerm[n] + 1, n>>}
        BY <2>1 DEF rale_start_election, TypeOK
      <3>3. currentTerm[n] < currentTerm[n] + 1
        BY <1>2
      <3> QED
        BY <3>1, <3>2, <3>3, MemoryVotes
    <2>2. CASE ResendVoteRequests(n) \/ rale_handle_leader_duties(n)
      BY <2>2, MemoryKept DEF ResendVoteRequests, rale_handle_leader_duties, nodeVars
    <2> QED
      BY <1>4, <2>1, <2>2 DEF Duties, rale_handle_follower_duties, rale_handle_candidate_duties
  <1>5. ASSUME NEW m \in net, NEW n, n = m.to, rale_handle_message(n, m) PROVE MemoryHoldsVotes'
    <2>0. n \in Node /\ m.from \in Node /\ m.type \in {"VOTE_REQUEST", "HEARTBEAT"} => m.term \in Term /\ m.term \in Int
      BY <1>5, MessageShape DEF TypeOK, Term
    <2>1. n \in Node /\ m.from \in Node
      BY <1>5, MessageShape DEF TypeOK
    <2>2. CASE DenyVote(n, m) \/ HandleHeartbeatAck(n, m) \/ HandleVoteDenied(n, m)
      BY <2>2, MemoryKept DEF DenyVote, HandleHeartbeatAck, HandleVoteDenied, nodeVars
    <2>3. CASE HandleVoteGranted(n, m)
      <3>1. UNCHANGED <<up, currentTerm, votedFor, cast, crashes>>
        BY <2>3 DEF HandleVoteGranted
      <3> QED
        BY <3>1, MemoryKept
    <2>4. CASE HandleHeartbeat(n, m)
      <3>1. m.term \in Int /\ UNCHANGED <<up, cast, crashes>>
        BY <2>0, <2>1, <2>4 DEF HandleHeartbeat, Receives
      <3>2. CASE m.term > currentTerm[n]
        <4>1. \A q \in Node : \/ currentTerm'[q] > currentTerm[q]
                              \/ currentTerm'[q] = currentTerm[q] /\ votedFor'[q] = votedFor[q]
          BY <2>4, <3>2 DEF HandleHeartbeat, TypeOK
        <4> QED
          BY <3>1, <4>1, MemoryKept
      <3>3. CASE ~(m.term > currentTerm[n])
        <4>1. \A q \in Node : currentTerm'[q] = currentTerm[q] /\ votedFor'[q] = votedFor[q]
          BY <2>4, <3>3 DEF HandleHeartbeat, TypeOK
        <4> QED
          BY <3>1, <4>1, MemoryKept
      <3> QED
        BY <3>2, <3>3
    <2>5. CASE HandleVoteRequest(n, m)
      <3> DEFINE later == m.term > currentTerm[n]
                 vote == IF later THEN NoNode ELSE votedFor[n]
                 grant == GrantRule(n, m.from, vote, IF later THEN "follower" ELSE role[n])
      <3>1. /\ m.term \in Term /\ m.term \in Int /\ m.term >= currentTerm[n]
            /\ UNCHANGED <<up, crashes>>
        BY <2>0, <2>1, <2>5 DEF HandleVoteRequest, Receives
      <3>2. /\ currentTerm' = [currentTerm EXCEPT ![n] = m.term]
            /\ votedFor' = [votedFor EXCEPT ![n] = IF grant THEN m.from ELSE vote]
            /\ cast' = IF grant THEN cast \cup {<<n, m.term, m.from>>} ELSE cast
        BY <2>5 DEF HandleVoteRequest
      <3>3. later \/ currentTerm[n] = m.term
        BY <1>2, <2>1, <3>1
      <3>4. currentTerm[n] < m.term \/ (currentTerm[n] = m.term /\ vote = votedFor[n])
        BY <1>2, <2>1, <3>1, <3>3
      <3>5. grant => vote \in {NoNode, m.from}
        BY DEF GrantRule
      <3> HIDE DEF later, vote, grant
      <3>6. CASE grant
        <4>1. /\ currentTerm'[n] = m.term /\ votedFor'[n] = m.from
              /\ cast' = cast \cup {<<n, m.term, m.from>>}
              /\ \A q \in Node : q # n => currentTerm'[q] = currentTerm[q] /\ votedFor'[q] = votedFor[q]
          BY <2>1, <3>2, <3>6 DEF TypeOK
        <4>2. currentTerm[n] < m.term \/ (currentTerm[n] = m.term /\ votedFor[n] \in {NoNode, m.from})
          BY <3>4, <3>5, <3>6
        <4> QED
          BY <2>1, <3>1, <4>1, <4>2, MemoryVotes
      <3>7. CASE ~grant
        <4>1. \A q \in Node : \/ currentTerm'[q] > currentTerm[q]
                              \/ currentTerm'[q] = currentTerm[q] /\ votedFor'[q] = votedFor[q]
          BY <1>2, <2>1, <3>1, <3>2, <3>4, <3>7 DEF TypeOK
        <4> QED
          BY <3>1, <3>2, <3>7, <4>1, MemoryKept
      <3> QED
        BY <3>6, <3>7
    <2> QED
      BY <1>5, <2>2, <2>3, <2>4, <2>5 DEF rale_handle_message
  <1>6. ASSUME NEW n \in Node, StepDown(n) PROVE MemoryHoldsVotes'
    BY <1>6, MemoryKept DEF StepDown
  <1>7. ASSUME NEW n \in Node, rale_proto_init(n) PROVE MemoryHoldsVotes'
    BY <1>7 DEF rale_proto_init, MemoryHoldsVotes
  <1>8. \A n \in Node : ~Crash(n) /\ ~CrashInSave(n)
    BY <1>1 DEF Crash, CrashInSave
  <1>9. \A m \in net : ~CrashBetweenSaves(m.to, m)
    BY <1>1 DEF CrashBetweenSaves
  <1> QED
    BY <1>3, <1>4, <1>5, <1>6, <1>7, <1>8, <1>9 DEF Next

\* Whatever the disk does and however often processes crash: a node that gives two votes of one
\* term needs both, a write that failed and a process that died.
THEOREM DoubleVoteNeedsBoth == Spec => []DoubleVoteNeedsFaultAndCrash
  <1>1. Init => TypeOK /\ MemoryHoldsVotes
    BY BoundAssumption
    DEF Init, TypeOK, MemoryHoldsVotes, OneVotePerTerm, NoFile, StateFile, Term, Id
  <1>2. ASSUME TypeOK, crashes = 0 => MemoryHoldsVotes, [Next]_vars
        PROVE  TypeOK' /\ (crashes = 0 => MemoryHoldsVotes)'
    BY <1>2, TypeStep, MemoryStep
  <1>3. Spec => [](TypeOK /\ (crashes = 0 => MemoryHoldsVotes))
    BY <1>1, <1>2, PTL DEF Spec
  <1>4. /\ TypeOK /\ (saveFaults = 0 => VoteInvariant)
        /\ TypeOK /\ (crashes = 0 => MemoryHoldsVotes)
        => DoubleVoteNeedsFaultAndCrash
    BY DEF VoteInvariant, MemoryHoldsVotes, DoubleVoteNeedsFaultAndCrash
  <1> QED
    BY <1>3, <1>4, VoteInvariantWithoutFaults, PTL

-----------------------------------------------------------------------------
(* The transport as built (UdpProofs!NoAnswerLeaves).                      *)

\* When no answer gets out, no node ever leads, whatever the cluster, the requests that get
\* through, the crashes and the saves.
THEOREM NoAnswerNoLeader ==
    ASSUME Reply["VOTE_GRANTED"] = {} PROVE Spec => []NobodyElected
  <1> DEFINE Silent == \A m \in net : m.type # "VOTE_GRANTED"
             Inv == TypeOK /\ NobodyElected /\ Silent
  <1>1. Init => Inv
    BY BoundAssumption DEF Init, TypeOK, NobodyElected, NoFile, StateFile, Term, Id
  <1>2. Inv /\ [Next]_vars => Inv'
    <2> SUFFICES ASSUME Inv, [Next]_vars PROVE Inv'
      OBVIOUS
    <2>0. TypeOK'
      BY TypeStep
    <2>1. CASE UNCHANGED vars
      BY <2>0, <2>1 DEF vars, NobodyElected
    <2>2. ASSUME NEW n \in Node, Duties(n) PROVE NobodyElected' /\ Silent'
      <3>1. elections' = elections
        BY <2>2 DEF Duties, rale_handle_follower_duties, rale_handle_candidate_duties,
                    ResendVoteRequests, rale_handle_leader_duties, rale_start_election
      <3>2. \E type \in {"VOTE_REQUEST", "HEARTBEAT"}, t \in Int :
                net' = net \cup Broadcast(n, type, t)
        <4>1. currentTerm[n] \in Int /\ currentTerm[n] + 1 \in Int
          BY DEF TypeOK, Term
        <4> QED
          BY <2>2, <4>1
          DEF Duties, rale_handle_follower_duties, rale_handle_candidate_duties,
              ResendVoteRequests, rale_handle_leader_duties, rale_start_election
      <3>3. \A x \in net' : x \in net \/ x.type # "VOTE_GRANTED"
        <4>1. PICK type \in {"VOTE_REQUEST", "HEARTBEAT"}, t \in Int :
                  net' = net \cup Broadcast(n, type, t)
          BY <3>2
        <4>2. ASSUME NEW x \in Broadcast(n, type, t) PROVE x.type = type
          <5>1. PICK p \in Node : x = [type |-> type, from |-> n, to |-> p, term |-> t]
            BY <4>2 DEF Broadcast
          <5> QED
            BY <5>1
        <4> QED
          BY <4>1, <4>2
      <3> QED
        BY <3>1, <3>3 DEF NobodyElected
    <2>3. ASSUME NEW m \in net, rale_handle_message(m.to, m) PROVE NobodyElected' /\ Silent'
      <3>1. ~HandleVoteGranted(m.to, m)
        BY DEF HandleVoteGranted, Receives
      <3>2. elections' = elections
        BY <2>3, <3>1 DEF rale_handle_message, DenyVote, HandleVoteRequest, HandleHeartbeat,
                          HandleHeartbeatAck, HandleVoteDenied
      <3>3. \A x \in net' : x \in net \/ x.type # "VOTE_GRANTED"
        <4>1. CASE DenyVote(m.to, m)
          BY <4>1 DEF DenyVote, Answer
        <4>2. CASE HandleVoteRequest(m.to, m)
          BY <4>2 DEF HandleVoteRequest, Answer
        <4>3. CASE HandleHeartbeat(m.to, m)
          BY <4>3 DEF HandleHeartbeat, Answer
        <4>4. CASE HandleHeartbeatAck(m.to, m)
          BY <4>4 DEF HandleHeartbeatAck, Answer
        <4>5. CASE HandleVoteDenied(m.to, m)
          BY <4>5 DEF HandleVoteDenied
        <4> QED
          BY <2>3, <3>1, <4>1, <4>2, <4>3, <4>4, <4>5 DEF rale_handle_message
      <3> QED
        BY <3>2, <3>3 DEF NobodyElected
    <2>4. ASSUME NEW n \in Node, StepDown(n) \/ Crash(n) \/ CrashInSave(n) \/ rale_proto_init(n)
          PROVE  NobodyElected' /\ Silent'
      BY <2>4 DEF StepDown, Crash, CrashInSave, rale_proto_init, Dies, NobodyElected
    <2>5. ASSUME NEW m \in net, CrashBetweenSaves(m.to, m) PROVE NobodyElected' /\ Silent'
      BY <2>5 DEF CrashBetweenSaves, Dies, NobodyElected
    <2> QED
      BY <2>0, <2>1, <2>2, <2>3, <2>4, <2>5 DEF Next
  <1>3. Inv => NobodyElected
    OBVIOUS
  <1> QED
    BY <1>1, <1>2, <1>3, PTL DEF Spec

=============================================================================
