-------------------------------- MODULE DLog --------------------------------
(***************************************************************************)
(* The per-node log of librale (librale/src/dlog.c): arrays of entries,    *)
(* whose texts are allocated by rstrdup and freed by rfree, and a map from *)
(* node ids to arrays.  Threads take the mutex once to look an id up, and  *)
(* a second time to work on the log; anything may happen in between.       *)
(*                                                                         *)
(* A text is the number of its allocation.  Only dstore_init calls this    *)
(* module as built, with dlog_init; the callers here are any threads.      *)
(***************************************************************************)
EXTENDS Integers, FiniteSets

CONSTANTS
    Caller,             \* threads
    LogId,              \* the node ids they use
    MAX_LOGS,           \* MAX_NODES
    MAX_LOG_ENTRIES,
    MaxText             \* bound: allocations

ASSUME DLogAssumption ==
    LogId \subseteq Int /\ {MAX_LOGS, MAX_LOG_ENTRIES} \subseteq Nat \ {0} /\ MaxText \in Nat

VARIABLES
    entries,            \* node_logs[].entries: 0 is NULL
    entry_count,        \* node_logs[].entry_count
    commit_index,       \* node_logs[].commit_index
    node_id_map,        \* the mapped ids; 0..node_map_count - 1 are in use
    node_map_count,
    heap,               \* the texts that are allocated and not freed
    texts,              \* the number of allocations so far
    todo,               \* per thread, the call it is in, with the index it has looked up
    owner,              \* history: the node id a text was appended for
    reset               \* history: dlog_init has run on a log with entries

dlogVars == <<entries, entry_count, commit_index, node_id_map, node_map_count, heap, texts, todo,
              owner, reset>>

LogIndex == 0..(MAX_LOGS - 1)
NoCall == [op |-> "none"]
Used(i) == 0..(entry_count[i] - 1)
InLogs == UNION {{entries[i][j] : j \in Used(i)} : i \in LogIndex}

DLogInit ==
    /\ entries = [i \in LogIndex |-> [j \in 0..(MAX_LOG_ENTRIES - 1) |-> 0]]
    /\ entry_count = [i \in LogIndex |-> 0]
    /\ commit_index = [i \in LogIndex |-> 0]
    /\ node_id_map = [i \in LogIndex |-> 0]
    /\ node_map_count = 0
    /\ heap = {}
    /\ texts = 0
    /\ todo = [c \in Caller |-> NoCall]
    /\ owner = [x \in 1..MaxText |-> 0]
    /\ reset = FALSE

Emptied ==
    /\ entry_count' = [i \in LogIndex |-> 0]
    /\ commit_index' = [i \in LogIndex |-> 0]

\* A mutant: the map starts anew, too.
InitForgetsMap ==
    /\ Emptied
    /\ entries' = [i \in LogIndex |-> [j \in 0..(MAX_LOG_ENTRIES - 1) |-> 0]]
    /\ node_map_count' = 0
    /\ reset' = (reset \/ InLogs # {})
    /\ UNCHANGED <<node_id_map, heap, texts, todo, owner>>

\* The entries are forgotten, not freed; the map stays.
dlog_init ==
    /\ Emptied
    /\ entries' = [i \in LogIndex |-> [j \in 0..(MAX_LOG_ENTRIES - 1) |-> 0]]
    /\ reset' = (reset \/ InLogs # {})
    /\ UNCHANGED <<node_id_map, node_map_count, heap, texts, todo, owner>>

\* rfree sets the pointer to NULL.
dlog_finit ==
    /\ Emptied
    /\ heap' = heap \ InLogs
    /\ entries' = [i \in LogIndex |-> [j \in 0..(MAX_LOG_ENTRIES - 1) |->
                      IF j \in Used(i) THEN 0 ELSE entries[i][j]]]
    /\ UNCHANGED <<node_id_map, node_map_count, texts, todo, owner, reset>>

-----------------------------------------------------------------------------
Mapped(id) == {i \in 0..(node_map_count - 1) : node_id_map[i] = id}

\* get_node_index under the mutex, which is then released.
get_node_index(c, op, id) ==
    /\ todo[c] = NoCall
    /\ \/ /\ Mapped(id) # {}
          /\ todo' = [todo EXCEPT ![c] = [op |-> op, id |-> id, index |-> CHOOSE i \in Mapped(id) : TRUE]]
          /\ UNCHANGED <<node_id_map, node_map_count>>
       \/ /\ Mapped(id) = {} /\ node_map_count < MAX_LOGS
          /\ node_id_map' = [node_id_map EXCEPT ![node_map_count] = id]
          /\ node_map_count' = node_map_count + 1
          /\ todo' = [todo EXCEPT ![c] = [op |-> op, id |-> id, index |-> node_map_count]]
    /\ UNCHANGED <<entries, entry_count, commit_index, heap, texts, owner, reset>>

Done(c) == todo' = [todo EXCEPT ![c] = NoCall]

\* A full log refuses the entry.  A failed rstrdup leaves NULL behind the last entry.
dlog_append_entry(c) ==
    /\ todo[c].op = "append"
    /\ Done(c)
    /\ LET i == todo[c].index
           j == entry_count[i]
       IN  \/ /\ j >= MAX_LOG_ENTRIES
              /\ UNCHANGED <<entries, entry_count, heap, texts, owner>>
           \/ /\ j < MAX_LOG_ENTRIES
              /\ entries' = [entries EXCEPT ![i][j] = 0]
              /\ UNCHANGED <<entry_count, heap, texts, owner>>
           \/ /\ j < MAX_LOG_ENTRIES /\ texts < MaxText
              /\ texts' = texts + 1
              /\ heap' = heap \cup {texts'}
              /\ owner' = [owner EXCEPT ![texts'] = todo[c].id]
              /\ entries' = [entries EXCEPT ![i][j] = texts']
              /\ entry_count' = [entry_count EXCEPT ![i] = @ + 1]
    /\ UNCHANGED <<commit_index, node_id_map, node_map_count, reset>>

\* A mutant: the entries that are left do not move.
CompactInPlace(c, up_to) ==
    /\ todo[c].op = "compact"
    /\ Done(c)
    /\ LET i == todo[c].index
           E == entries[i]
           k == IF up_to > entry_count[i] THEN entry_count[i] ELSE up_to
       IN  /\ heap' = heap \ {E[j] : j \in 0..(k - 1)}
           /\ entries' = [entries EXCEPT ![i] = [j \in DOMAIN E |-> IF j < k THEN 0 ELSE E[j]]]
           /\ entry_count' = [entry_count EXCEPT ![i] = @ - k]
           /\ commit_index' = [commit_index EXCEPT ![i] = 0]
    /\ UNCHANGED <<node_id_map, node_map_count, texts, owner, reset>>

\* The first up_to entries are freed, the others move to the left.  A moved pointer stays behind
\* at its old place, beyond the end.  A negative up_to is not looked for in the code and would read
\* before the array; no caller passes one, and none is passed here.
dlog_compact(c, up_to) ==
    /\ todo[c].op = "compact"
    /\ Done(c)
    /\ LET i == todo[c].index
           E == entries[i]
           k == IF up_to > entry_count[i] THEN entry_count[i] ELSE up_to
           freed == [j \in DOMAIN E |-> IF j < k THEN 0 ELSE E[j]]
       IN  /\ heap' = heap \ {E[j] : j \in 0..(k - 1)}
           /\ entries' = [entries EXCEPT ![i] =
                  [j \in DOMAIN E |-> IF j < entry_count[i] - k THEN freed[j + k] ELSE freed[j]]]
           /\ entry_count' = [entry_count EXCEPT ![i] = @ - k]
           /\ commit_index' = [commit_index EXCEPT ![i] = 0]
    /\ UNCHANGED <<node_id_map, node_map_count, texts, owner, reset>>

\* A mutant: the first entry, not the last one.
GetFirst == IF entry_count[0] = 0 THEN 0 ELSE entries[0][0]

\* The value dlog_get finds: the last entry of the log with INDEX 0, 0 if there is none.
dlog_get == IF entry_count[0] = 0 THEN 0 ELSE entries[0][entry_count[0] - 1]

\* dlog_put appends for the node with ID 0.
dlog_put(c) == get_node_index(c, "append", 0)

DLogNext ==
    \/ dlog_init \/ dlog_finit
    \/ \E c \in Caller :
          \/ \E id \in LogId : get_node_index(c, "append", id) \/ get_node_index(c, "compact", id)
          \/ dlog_put(c)
          \/ dlog_append_entry(c)
          \/ \E up_to \in 0..(MAX_LOG_ENTRIES + 1) : dlog_compact(c, up_to)

DLogSpec == DLogInit /\ [][DLogNext]_dlogVars

-----------------------------------------------------------------------------
(* Properties.                                                             *)

\* Every entry of a log is allocated, no text is in two places, and nothing else is allocated
\* unless dlog_init ran on a log with entries: no use after free, no double free, no leak over
\* any sequence of appends, compactions and restarts.
TextsAreOwned ==
    /\ InLogs \subseteq heap
    /\ \A i1, i2 \in LogIndex : \A j1 \in Used(i1), j2 \in Used(i2) :
          entries[i1][j1] = entries[i2][j2] => i1 = i2 /\ j1 = j2
    /\ ~reset => heap = InLogs

\* A log holds entries of one node only, the one its index is mapped to, though the index was
\* looked up under an earlier hold of the mutex; and they are in the order they were appended.
LogsAreSeparate ==
    \A i \in LogIndex : \A j \in Used(i) :
        /\ owner[entries[i][j]] = node_id_map[i]
        /\ j > 0 => entries[i][j - 1] < entries[i][j]

\* "Get the latest value for node 0": what dlog_get finds is the last value put, over compactions
\* and restarts, if node 0 was the first to get a log.
GetFindsLastPut ==
    node_map_count > 0 /\ node_id_map[0] = 0 /\ dlog_get # 0 =>
        /\ owner[dlog_get] = 0
        /\ \A x \in (dlog_get + 1)..texts : owner[x] # 0

Text == 0..MaxText
Entry == 0..(MAX_LOG_ENTRIES - 1)
Pending == [op : {"append", "compact"}, id : Int, index : LogIndex]

DLogTypeOK ==
    /\ entries \in [LogIndex -> [Entry -> Text]]
    /\ entry_count \in [LogIndex -> 0..MAX_LOG_ENTRIES]
    /\ node_id_map \in [LogIndex -> Int]
    /\ node_map_count \in 0..MAX_LOGS
    /\ texts \in Text
    /\ heap \subseteq 1..texts
    /\ todo \in [Caller -> Pending \cup {NoCall}]
    /\ owner \in [1..MaxText -> Int]
    /\ reset \in BOOLEAN

\* What a thread has looked up stays true while it does not hold the mutex, and a log that is not
\* mapped is empty: a new mapping finds no entries of somebody else.
LookupsStayTrue ==
    /\ \A i, j \in 0..(node_map_count - 1) : node_id_map[i] = node_id_map[j] => i = j
    /\ \A c \in Caller : todo[c] \in Pending =>
          todo[c].index < node_map_count /\ node_id_map[todo[c].index] = todo[c].id
    /\ \A i \in LogIndex : entry_count[i] > 0 => i < node_map_count

DLogInvariant == DLogTypeOK /\ LookupsStayTrue /\ TextsAreOwned /\ LogsAreSeparate /\ GetFindsLastPut
=============================================================================
