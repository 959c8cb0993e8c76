------------------------------ MODULE Cluster -------------------------------
(***************************************************************************)
(* The table of nodes of librale (librale/src/cluster.c), used by several  *)
(* threads: the application, and the loop thread that takes PROPAGATE_ADD. *)
(*                                                                         *)
(* A thread takes the mutex, changes the table and saves it.  The save     *)
(* truncates the state file when it opens it, puts the lines together      *)
(* while it walks through the table, and writes them when it closes the    *)
(* file, whose results nobody looks at: a full disk leaves a short file.   *)
(* cluster_set_self_id saves after it has released the mutex.              *)
(*                                                                         *)
(* Of an entry only the id matters; its five lines count as one, and lines *)
(* as equally long.  Id 0 stands for an entry that memset has cleared.     *)
(***************************************************************************)
EXTENDS Integers, Sequences, FiniteSets

CONSTANTS
    Thread,          \* the threads of the process
    NodeId,          \* the ids a caller may name
    SelfId,          \* config->node.id, which rale_init passes to cluster_set_self_id
    MAX_NODES,
    MaxIo,           \* bound: saves that cannot open the file or write all of it
    MaxCrash,        \* bound: crashes
    MaxChange        \* bound: calls that may change the table

ASSUME ClusterAssumption ==
    MAX_NODES \in Nat \ {0} /\ NodeId \subseteq Int /\ SelfId \in NodeId /\ {MaxIo, MaxCrash, MaxChange} \subseteq Nat

VARIABLES
    initialized,     \* cluster_initialized
    table,           \* cluster.nodes
    node_count,      \* cluster.node_count
    self_id,         \* cluster.self_id
    mutex,           \* the holder of cluster_mutex, if any
    state_file,      \* the lines of the file
    has_path,        \* cluster_state_file is not empty
    pc, arg,         \* per thread, what it does and for which id
    out,             \* per thread, the lines of its FILE
    at,              \* per thread, its loop index
    listing,         \* per thread, what handle_list_command has printed
    before,          \* history, per thread: the members when it started to list
    shrunk,          \* history, per thread: a node was removed while it listed
    saved,           \* history: the members as last written to the file
    behind,          \* history: the file is older than the table: a save has failed, or the path was
                     \* set when the table was already in use, and no save has ended well since
    torn,            \* history: the file is what a save that could not write all of it has left
    mixed,           \* history: a save ran beside another save or a change, or a torn file was loaded
    events           \* how often each bounded event has happened

threadVars == <<pc, arg, out, at, listing, before>>
clusterVars == <<initialized, table, node_count, self_id, mutex, state_file, has_path, threadVars,
                 shrunk, saved, behind, torn, mixed, events>>

Nobody == "nobody"
Slots == 0..(MAX_NODES - 1)
Valid(id) == id \in 1..1000      \* MAX_REASONABLE_NODE_ID

\* The ids of the table, in order.
Members == [j \in 1..node_count |-> table[j - 1]]
Ids == {Members[j] : j \in 1..node_count}
Saving == {t \in Thread : pc[t] = "save"}

Count(e) == events' = [events EXCEPT ![e] = @ + 1]

-----------------------------------------------------------------------------
(* The file.                                                               *)

Line(k, v) == [key |-> k, value |-> v]

\* What fclose leaves: the text overwrites the start of the file, whatever is there by then.
Written(text) == text \o SubSeq(state_file, Len(text) + 1, Len(state_file))

\* The last line of a key; d if there is none.
Field(k, d) ==
    LET I == {i \in DOMAIN state_file : state_file[i].key = k}
    IN  IF I = {} THEN d ELSE state_file[CHOOSE i \in I : \A j \in I : j <= i].value

\* The lines of entries, and the index at which the loop stores the entry of line l.
NodeLines == {l \in DOMAIN state_file : state_file[l].key = "node"}
node_index(l) == Cardinality({k \in NodeLines : k < l})

\* node_count is believed; the entries fill the table from the left.
cluster_load_state ==
    /\ self_id' = Field("self_id", -1)
    /\ node_count' = Field("node_count", 0)
    /\ table' = [i \in Slots |-> IF \E l \in NodeLines : node_index(l) = i
                                  THEN state_file[CHOOSE l \in NodeLines : node_index(l) = i].value
                                  ELSE 0]

Cleared == node_count' = 0 /\ table' = [i \in Slots |-> 0]

-----------------------------------------------------------------------------
ClusterInit ==
    /\ initialized = FALSE
    /\ table = [i \in Slots |-> 0]
    /\ node_count = 0 /\ self_id = 0
    /\ mutex = Nobody
    /\ state_file = <<>>
    /\ has_path = FALSE
    /\ pc = [t \in Thread |-> "idle"]
    /\ arg = [t \in Thread |-> 0]
    /\ out = [t \in Thread |-> <<>>]
    /\ at = [t \in Thread |-> 0]
    /\ listing = [t \in Thread |-> <<>>]
    /\ before = [t \in Thread |-> {}]
    /\ shrunk = [t \in Thread |-> FALSE]
    /\ saved = <<>>
    /\ behind = FALSE /\ torn = FALSE /\ mixed = FALSE
    /\ events = [e \in {"io", "crash", "change"} |-> 0]

Quiet == \A t \in Thread : pc[t] = "idle"

\* At any time, and without the mutex.  A path that is set after cluster_init is not read, but
\* every later save writes to it.
cluster_set_state_file ==
    /\ has_path' = TRUE
    /\ behind' = (behind \/ (initialized /\ ~has_path))
    /\ UNCHANGED <<initialized, table, node_count, self_id, mutex, state_file, threadVars, shrunk,
                   saved, torn, mixed, events>>

\* rale_init and rale_finit run while no other thread uses the table.
cluster_init ==
    /\ Quiet /\ ~initialized
    /\ initialized' = TRUE
    /\ IF has_path THEN cluster_load_state ELSE self_id' = -1 /\ Cleared
    /\ behind' = FALSE
    /\ mixed' = (mixed \/ (has_path /\ torn))
    /\ UNCHANGED <<mutex, state_file, has_path, threadVars, shrunk, saved, torn, events>>

cluster_finit ==
    /\ Quiet /\ initialized
    /\ initialized' = FALSE
    /\ self_id' = 0 /\ Cleared
    /\ UNCHANGED <<mutex, state_file, has_path, threadVars, shrunk, saved, behind, torn, mixed, events>>

\* The process ends at any point; what was not yet written is lost.
ClusterCrash ==
    /\ events["crash"] < MaxCrash
    /\ Count("crash")
    /\ initialized' = FALSE
    /\ self_id' = 0 /\ Cleared
    /\ mutex' = Nobody
    /\ has_path' = FALSE
    /\ pc' = [t \in Thread |-> "idle"]
    /\ arg' = [t \in Thread |-> 0]
    /\ out' = [t \in Thread |-> <<>>]
    /\ at' = [t \in Thread |-> 0]
    /\ listing' = [t \in Thread |-> <<>>]
    /\ before' = [t \in Thread |-> {}]
    /\ shrunk' = [t \in Thread |-> FALSE]
    /\ UNCHANGED <<state_file, saved, behind, torn, mixed>>

-----------------------------------------------------------------------------
(* Calls.  The arguments are checked before the mutex is taken.            *)

Call(t, op, id) ==
    /\ initialized /\ pc[t] = "idle"
    /\ events["change"] < MaxChange
    /\ Count("change")
    /\ op \in {"add", "self"} => Valid(id)
    /\ op = "self" => id = SelfId
    /\ pc' = [pc EXCEPT ![t] = op]
    /\ arg' = [arg EXCEPT ![t] = id]
    /\ UNCHANGED <<initialized, table, node_count, self_id, mutex, state_file, has_path, out, at,
                   listing, before, shrunk, saved, behind, torn, mixed>>

\* The file is opened and truncated; the first two lines are ready.
cluster_save_state(t) ==
    /\ pc[t] = "open"
    /\ \/ /\ has_path
          /\ state_file' = <<>>
          /\ pc' = [pc EXCEPT ![t] = "save"]
          /\ out' = [out EXCEPT ![t] = <<Line("self_id", self_id), Line("node_count", node_count)>>]
          /\ at' = [at EXCEPT ![t] = 0]
          /\ mixed' = (mixed \/ Saving # {})
          /\ torn' = FALSE
          /\ UNCHANGED <<mutex, behind, events>>
       \/ /\ IF has_path THEN events["io"] < MaxIo /\ Count("io") ELSE UNCHANGED events
          /\ behind' = (behind \/ has_path)
          /\ pc' = [pc EXCEPT ![t] = "idle"]
          /\ mutex' = IF mutex = t THEN Nobody ELSE mutex
          /\ UNCHANGED <<state_file, out, at, torn, mixed>>
    /\ UNCHANGED <<initialized, table, node_count, self_id, has_path, arg, listing, before, shrunk, saved>>

\* A mutant: every line is written at once.
SaveUnbuffered(t) ==
    /\ pc[t] = "save"
    /\ at[t] < node_count
    /\ out' = [out EXCEPT ![t] = Append(@, Line("node", table[at[t]]))]
    /\ state_file' = out'[t]
    /\ at' = [at EXCEPT ![t] = @ + 1]
    /\ UNCHANGED <<initialized, table, node_count, self_id, mutex, has_path, pc, arg, listing, before,
                   shrunk, saved, behind, torn, mixed, events>>

SaveEntry(t) ==
    /\ pc[t] = "save"
    /\ at[t] < node_count
    /\ out' = [out EXCEPT ![t] = Append(@, Line("node", table[at[t]]))]
    /\ at' = [at EXCEPT ![t] = @ + 1]
    /\ UNCHANGED <<initialized, table, node_count, self_id, mutex, state_file, has_path, pc, arg,
                   listing, before, shrunk, saved, behind, torn, mixed, events>>

\* The results of fputs and fclose are ignored: only the first n lines may reach the file.
SaveClose(t) ==
    /\ pc[t] = "save"
    /\ at[t] >= node_count
    /\ \/ /\ state_file' = Written(out[t])
          /\ saved' = Members
          /\ behind' = FALSE /\ torn' = FALSE
          /\ UNCHANGED events
       \/ /\ events["io"] < MaxIo /\ Count("io")
          /\ \E n \in 0..(Len(out[t]) - 1) : state_file' = Written(SubSeq(out[t], 1, n))
          /\ behind' = TRUE /\ torn' = TRUE
          /\ UNCHANGED saved
    /\ pc' = [pc EXCEPT ![t] = "idle"]
    /\ out' = [out EXCEPT ![t] = <<>>]
    /\ mutex' = IF mutex = t THEN Nobody ELSE mutex
    /\ UNCHANGED <<initialized, table, node_count, self_id, has_path, arg, at, listing, before,
                   shrunk, mixed>>

\* The call fails: the mutex is released and nothing has changed.
Refused(t) ==
    /\ pc' = [pc EXCEPT ![t] = "idle"]
    /\ UNCHANGED <<table, node_count, mutex, shrunk, mixed>>

\* The table has changed; the thread keeps the mutex for its save.
Changed(t) ==
    /\ pc' = [pc EXCEPT ![t] = "open"]
    /\ mutex' = t
    /\ mixed' = (mixed \/ Saving # {})

\* A mutant: whether the id is new is only tested when the call is made.
AddLate(t) ==
    /\ pc[t] = "add" /\ mutex = Nobody
    /\ IF node_count >= MAX_NODES THEN Refused(t)
       ELSE /\ table' = [table EXCEPT ![node_count] = arg[t]]
            /\ node_count' = node_count + 1
            /\ Changed(t)
            /\ UNCHANGED shrunk
    /\ UNCHANGED <<initialized, self_id, state_file, has_path, arg, out, at, listing, before, saved,
                   behind, torn, events>>

\* A mutant: a full table is not noticed.
AddUnlimited(t) ==
    /\ pc[t] = "add" /\ mutex = Nobody
    /\ IF arg[t] \in Ids THEN Refused(t)
       ELSE /\ table' = [table EXCEPT ![node_count] = arg[t]]
            /\ node_count' = node_count + 1
            /\ Changed(t)
            /\ UNCHANGED shrunk
    /\ UNCHANGED <<initialized, self_id, state_file, has_path, arg, out, at, listing, before, saved,
                   behind, torn, events>>

cluster_add_node(t) ==
    /\ pc[t] = "add" /\ mutex = Nobody
    /\ IF arg[t] \in Ids \/ node_count >= MAX_NODES THEN Refused(t)
       ELSE /\ table' = [table EXCEPT ![node_count] = arg[t]]
            /\ node_count' = node_count + 1
            /\ Changed(t)
            /\ UNCHANGED shrunk
    /\ UNCHANGED <<initialized, self_id, state_file, has_path, arg, out, at, listing, before, saved,
                   behind, torn, events>>

\* A mutant: a removal is not saved.
RemoveUnsaved(t) ==
    /\ pc[t] = "remove" /\ mutex = Nobody
    /\ arg[t] \in Ids /\ arg[t] = table[node_count - 1]
    /\ node_count' = node_count - 1
    /\ pc' = [pc EXCEPT ![t] = "idle"]
    /\ shrunk' = [u \in Thread |-> TRUE]
    /\ UNCHANGED <<initialized, table, self_id, mutex, state_file, has_path, arg, out, at, listing, before,
                   saved, behind, torn, mixed, events>>

\* The entries behind the first one with the id move to the left; the last one stays where it was.
cluster_remove_node(t) ==
    /\ pc[t] = "remove" /\ mutex = Nobody
    /\ IF arg[t] \notin Ids THEN Refused(t)
       ELSE LET i == CHOOSE i \in 0..(node_count - 1) :
                         table[i] = arg[t] /\ \A j \in 0..(i - 1) : table[j] # arg[t]
            IN  /\ table' = [j \in Slots |-> IF j \in i..(node_count - 2) THEN table[j + 1] ELSE table[j]]
                /\ node_count' = node_count - 1
                /\ Changed(t)
                /\ shrunk' = [u \in Thread |-> TRUE]
    /\ UNCHANGED <<initialized, self_id, state_file, has_path, arg, out, at, listing, before, saved,
                   behind, torn, events>>

\* The save comes after the mutex has been released.
cluster_set_self_id(t) ==
    /\ pc[t] = "self" /\ mutex = Nobody
    /\ self_id' = arg[t]
    /\ pc' = [pc EXCEPT ![t] = "open"]
    /\ mixed' = (mixed \/ Saving # {})
    /\ UNCHANGED <<initialized, table, node_count, mutex, state_file, has_path, arg, out, at, listing,
                   before, shrunk, saved, behind, torn, events>>

-----------------------------------------------------------------------------
(* Reading: handle_list_command of raled asks for the number of nodes and  *)
(* then for one after the other.                                           *)

cluster_get_node_count(t) ==
    /\ pc[t] = "idle" /\ mutex = Nobody
    /\ pc' = [pc EXCEPT ![t] = "list"]
    /\ arg' = [arg EXCEPT ![t] = node_count]
    /\ at' = [at EXCEPT ![t] = 0]
    /\ listing' = [listing EXCEPT ![t] = <<>>]
    /\ before' = [before EXCEPT ![t] = Ids]
    /\ shrunk' = [shrunk EXCEPT ![t] = FALSE]
    /\ UNCHANGED <<initialized, table, node_count, self_id, mutex, state_file, has_path, out, saved,
                   behind, torn, mixed, events>>

\* A mutant: the last index is taken for one too many.
GetShort(i) == IF i + 1 >= node_count THEN <<>> ELSE <<table[i]>>

cluster_get_node_by_index(i) == IF i >= node_count THEN <<>> ELSE <<table[i]>>

handle_list_command(t) ==
    /\ pc[t] = "list" /\ mutex = Nobody
    /\ at[t] < arg[t]
    /\ listing' = [listing EXCEPT ![t] = @ \o cluster_get_node_by_index(at[t])]
    /\ at' = [at EXCEPT ![t] = @ + 1]
    /\ UNCHANGED <<initialized, table, node_count, self_id, mutex, state_file, has_path, pc, arg, out,
                   before, shrunk, saved, behind, torn, mixed, events>>

ListEnds(t) ==
    /\ pc[t] = "list" /\ at[t] >= arg[t]
    /\ pc' = [pc EXCEPT ![t] = "idle"]
    /\ UNCHANGED <<initialized, table, node_count, self_id, mutex, state_file, has_path, arg, out, at,
                   listing, before, shrunk, saved, behind, torn, mixed, events>>

-----------------------------------------------------------------------------
ClusterNext ==
    \/ cluster_set_state_file \/ cluster_init \/ cluster_finit \/ ClusterCrash
    \/ \E t \in Thread :
          \/ \E op \in {"add", "remove", "self"}, id \in NodeId : Call(t, op, id)
          \/ cluster_add_node(t) \/ cluster_remove_node(t) \/ cluster_set_self_id(t)
          \/ cluster_save_state(t) \/ SaveEntry(t) \/ SaveClose(t)
          \/ cluster_get_node_count(t) \/ handle_list_command(t) \/ ListEnds(t)

ClusterSpec == ClusterInit /\ [][ClusterNext]_clusterVars

-----------------------------------------------------------------------------
(* Properties.                                                             *)

\* Every variable holds a value of its type: node_count stays within the table.
ClusterTypeOK ==
    /\ initialized \in BOOLEAN /\ has_path \in BOOLEAN
    /\ behind \in BOOLEAN /\ torn \in BOOLEAN /\ mixed \in BOOLEAN
    /\ table \in [Slots -> NodeId \cup {0}]
    /\ node_count \in 0..MAX_NODES
    /\ self_id \in NodeId \cup {-1, 0}
    /\ mutex \in Thread \cup {Nobody}
    /\ pc \in [Thread -> {"idle", "add", "remove", "self", "open", "save", "list"}]
    /\ at \in [Thread -> 0..MAX_NODES]

\* No two entries of the table have the same id, whichever threads add and remove at the same
\* time and whatever file the table was loaded from, as long as no save ran beside another one
\* and no torn file was loaded.
UniqueIds ==
    ~mixed => \A i, j \in 0..(node_count - 1) : table[i] = table[j] => i = j

\* When no call is under way, the state file holds the table and the own id: after any save that
\* ended well, whenever the path was set and whatever failed before, unless a save ran beside
\* another one or a torn file was loaded.
FileHoldsTable ==
    Quiet /\ initialized /\ has_path /\ ~mixed /\ ~behind =>
        /\ Field("self_id", -1) = self_id
        /\ Field("node_count", 0) = node_count
        /\ \A i \in 0..(node_count - 1) :
              \E l \in NodeLines : node_index(l) = i /\ state_file[l].value = table[i]

\* A restart finds the members as some save wrote them, or none at all (the file had been
\* truncated); never a mixture.  A file that a full disk has cut short is the exception.
RestartFindsASave ==
    [][~initialized /\ initialized' /\ ~mixed /\ ~torn => Members' \in {saved, <<>>}]_clusterVars

\* A listing that no removal disturbs shows every node that was there when it began, though
\* it asks for the nodes one by one.
ListingIsComplete ==
    \A t \in Thread :
        pc[t] = "list" /\ at[t] >= arg[t] /\ ~shrunk[t] =>
            before[t] \subseteq {listing[t][j] : j \in DOMAIN listing[t]}

-----------------------------------------------------------------------------
(* The inductive invariant.                                                *)

MemberId == NodeId \cup {0}
FileLine ==
    [key : {"self_id"}, value : NodeId \cup {-1, 0}] \cup [key : {"node_count"}, value : 0..MAX_NODES]
        \cup [key : {"node"}, value : MemberId]

\* What the threads hold besides: their arguments and their lines.
ThreadsTyped ==
    /\ state_file \in Seq(FileLine) /\ out \in [Thread -> Seq(FileLine)]
    /\ events \in [{"io", "crash", "change"} -> Nat]
    /\ listing \in [Thread -> Seq(MemberId)] /\ shrunk \in [Thread -> BOOLEAN]
    /\ before \in [Thread -> SUBSET MemberId]
    /\ arg \in [Thread -> Int]
    /\ \A t \in Thread :
          /\ pc[t] \in {"add", "remove", "self"} => arg[t] \in NodeId
          /\ pc[t] = "list" => arg[t] \in 0..MAX_NODES

\* The lines of a complete save of the id sid and the members m.
FileText(sid, m) ==
    [l \in 1..(Len(m) + 2) |-> IF l = 1 THEN Line("self_id", sid)
                               ELSE IF l = 2 THEN Line("node_count", Len(m))
                               ELSE Line("node", m[l - 2])]

\* A thread that saves has the lines of the table as it is, up to its loop index; the file is
\* empty until it closes it.
SaverInStep(t) ==
    /\ state_file = <<>> /\ ~torn
    /\ at[t] <= node_count
    /\ out[t] = [l \in 1..(at[t] + 2) |-> FileText(self_id, Members)[l]]

\* As long as no save ran beside another one or a change: there is one saver, and the file is
\* torn, empty or a complete save of distinct members.
FileIsASave ==
    ~mixed =>
        /\ \A t, u \in Saving : t = u
        /\ \A t \in Saving : SaverInStep(t)
        /\ saved \in Seq(MemberId) /\ Len(saved) <= MAX_NODES
        /\ \A i, j \in DOMAIN saved : saved[i] = saved[j] => i = j
        /\ \/ torn
           \/ state_file = <<>>
           \/ \E sid \in NodeId \cup {-1, 0} : state_file = FileText(sid, saved)

\* The file shows the memory, or a save that will write it is under way.
FileShowsTable ==
    initialized /\ has_path /\ ~mixed /\ ~behind =>
        \/ \E t \in Thread : pc[t] \in {"open", "save"}
        \/ state_file = FileText(self_id, Members)
        \/ state_file = <<>> /\ node_count = 0 /\ self_id = -1

\* A listing shows the entries it has passed, and those it has to pass are still in their places.
ListingInStep ==
    \A t \in Thread : pc[t] = "list" /\ ~shrunk[t] =>
        /\ at[t] <= arg[t] /\ arg[t] <= node_count
        /\ before[t] = {table[j] : j \in 0..(arg[t] - 1)}
        /\ \A j \in 0..(at[t] - 1) : \E k \in DOMAIN listing[t] : listing[t][k] = table[j]

ClusterInvariant ==
    ClusterTypeOK /\ ThreadsTyped /\ UniqueIds /\ FileIsASave /\ FileShowsTable /\ ListingInStep
=============================================================================
