----------------------------- MODULE PartsProofs -----------------------------
(***************************************************************************)
(* The small parts, each for every value of its constants: the shutdown    *)
(* coordination and the per-node log of librale, and the settings and PID  *)
(* files of raled.                                                         *)
(***************************************************************************)
EXTENDS Shutdown, DLog, Settings, SequenceTheorems, WellFoundedInduction, TLAPS

----------------------------------------------------------------------------
(* The shutdown coordination *)

\* When a worker signals, the flags of the other signallers stay, and the waiter is woken only
\* when all flags are down.
LEMMA SignalStep ==
    ASSUME ShutdownInvariant, NEW w \in Worker, librale_signal_shutdown_complete(w)
    PROVE  ShutdownInvariant'
  <1>1. loop' = [loop EXCEPT ![w] = "done"] /\ UNCHANGED <<signals, noted>>
    BY DEF librale_signal_shutdown_complete
  <1>2. \A u \in Worker : loop[u] = "done" => loop'[u] = "done"
    BY <1>1 DEF ShutdownInvariant
  <1>3. signals \subseteq Worker /\ Polls \in [Worker -> Subsystem]
    BY ShutdownAssumption DEF ShutdownInvariant
  <1>4. CASE ready /\ w \in signals
    <2>1. requested' = [requested EXCEPT ![Polls[w]] = FALSE]
      BY <1>4 DEF librale_signal_shutdown_complete
    <2>2. requested' \in [Subsystem -> BOOLEAN]
      BY <2>1 DEF ShutdownInvariant
    <2>3. FlagsAwaitSignallers'
      <3> SUFFICES ASSUME noted, NEW u \in signals, u # w
                   PROVE  loop'[u] = "done" \/ requested'[Polls[u]]
        BY <1>1, <1>3, <1>4 DEF FlagsAwaitSignallers, ShutdownInvariant
      <3>1. Polls[u] # Polls[w]
        BY <1>4, OneSignallerAssumption DEF ShutdownInvariant
      <3>2. requested'[Polls[u]] = requested[Polls[u]]
        BY <2>1, <3>1, <1>3 DEF ShutdownInvariant
      <3> QED
        BY <1>2, <1>3, <3>2 DEF ShutdownInvariant, FlagsAwaitSignallers
    <2>4. CASE waiter' = waiter
      <3>1. ~disturbed' => ~disturbed
        BY <1>4 DEF librale_signal_shutdown_complete
      <3> QED
        BY <1>1, <1>2, <1>3, <2>2, <2>3, <2>4, <3>1 DEF ShutdownInvariant, CompletionIsTrue
    <2>5. CASE waiter' # waiter
      <3>1. (\A s \in Subsystem : ~requested'[s]) /\ (~disturbed' => noted)
        BY <1>4, <2>5 DEF librale_signal_shutdown_complete
      <3>2. CompletionIsTrue'
        BY <1>1, <1>3, <2>3, <3>1 DEF FlagsAwaitSignallers, CompletionIsTrue
      <3> QED
        BY <1>1, <2>2, <2>3, <3>2 DEF ShutdownInvariant
    <2> QED
      BY <2>4, <2>5
  <1>5. CASE ~(ready /\ w \in signals)
    <2>1. UNCHANGED <<requested, waiter, disturbed>>
      BY <1>5 DEF librale_signal_shutdown_complete
    <2> QED
      BY <1>1, <1>2, <1>3, <2>1 DEF ShutdownInvariant, FlagsAwaitSignallers, CompletionIsTrue
  <1> QED
    BY <1>4, <1>5

\* Every step keeps the invariant.
LEMMA ShutdownStep ==
    ASSUME ShutdownInvariant, [ShutdownNext]_shutdownVars
    PROVE  ShutdownInvariant'
  <1> USE DEF ShutdownInvariant, FlagsAwaitSignallers, CompletionIsTrue
  <1>0. signals \subseteq Worker /\ Polls \in [Worker -> Subsystem]
    BY ShutdownAssumption
  <1>1. CASE librale_shutdown_init
    BY <1>1 DEF librale_shutdown_init
  <1>2. CASE librale_shutdown_cleanup
    BY <1>2 DEF librale_shutdown_cleanup
  <1>3. CASE librale_request_shutdown
    <2>1. CASE ready
      BY <1>0, <1>3, <2>1 DEF librale_request_shutdown
    <2>2. CASE ~ready
      BY <1>3, <2>2 DEF librale_request_shutdown
    <2> QED
      BY <2>1, <2>2
  <1>4. CASE graceful_shutdown
    BY <1>4 DEF graceful_shutdown
  <1>5. CASE librale_wait_for_shutdown_completion
    BY <1>5 DEF librale_wait_for_shutdown_completion
  <1>6. ASSUME NEW w \in Worker, dstore_server_loop(w) PROVE ShutdownInvariant'
    BY <1>0, <1>6 DEF dstore_server_loop
  <1>7. ASSUME NEW w \in Worker, librale_signal_shutdown_complete(w) PROVE ShutdownInvariant'
    BY <1>7, SignalStep
  <1>8. CASE UNCHANGED shutdownVars
    BY <1>8 DEF shutdownVars
  <1> QED
    BY <1>1, <1>2, <1>3, <1>4, <1>5, <1>6, <1>7, <1>8 DEF ShutdownNext, LoopStep

\* For any workers and any subsystems they poll, if a subsystem has one signaller: a wait for
\* completion that ends well, undisturbed and after a request, ends when all signallers are done.
THEOREM CompletionTrue == ShutdownSpec => []CompletionIsTrue
  <1>1. ShutdownInit => ShutdownInvariant
    BY DEF ShutdownInit, ShutdownInvariant, FlagsAwaitSignallers, CompletionIsTrue
  <1>2. ShutdownInvariant => CompletionIsTrue
    BY DEF ShutdownInvariant
  <1> QED
    BY <1>1, <1>2, ShutdownStep, PTL DEF ShutdownSpec

----------------------------------------------------------------------------
(* The per-node log *)

\* There is room for a log and an entry at least.
LEMMA DLogSizes ==
    /\ MAX_LOGS \in Nat /\ MAX_LOGS > 0 /\ MAX_LOG_ENTRIES \in Nat /\ MAX_LOG_ENTRIES > 0
    /\ MaxText \in Nat /\ LogId \subseteq Int /\ 0 \in LogIndex
  <1>1. MAX_LOGS \in Nat \ {0} /\ MAX_LOG_ENTRIES \in Nat \ {0}
    BY DLogAssumption
  <1> QED
    BY <1>1, DLogAssumption DEF LogIndex

\* What is in the logs, before and after a step.
LEMMA InLogsMembers ==
    /\ \A x : x \in InLogs <=> \E i \in LogIndex : \E j \in Used(i) : x = entries[i][j]
    /\ \A x : x \in InLogs' <=> \E i \in LogIndex : \E j \in Used(i)' : x = entries'[i][j]
  <1>1. \A x : x \in InLogs <=> \E i \in LogIndex : \E j \in Used(i) : x = entries[i][j]
    BY DEF InLogs
  <1>2. \A x : x \in InLogs' <=> \E i \in LogIndex : \E j \in Used(i)' : x = entries'[i][j]
    BY DEF InLogs
  <1> QED
    BY <1>1, <1>2

\* A thread inside a call has looked up a mapped index of its id.
LEMMA PendingCall ==
    ASSUME DLogInvariant, NEW c \in Caller, todo[c].op \in {"append", "compact"}
    PROVE  /\ todo[c] \in Pending
           /\ todo[c].index \in LogIndex /\ todo[c].index < node_map_count
           /\ todo[c].id \in Int /\ node_id_map[todo[c].index] = todo[c].id
  <1>1. todo[c] # NoCall
    BY DEF NoCall
  <1>2. todo[c] \in Pending
    BY <1>1 DEF DLogInvariant, DLogTypeOK
  <1> QED
    BY <1>2 DEF DLogInvariant, LookupsStayTrue, Pending

\* An entry in use is an allocated text, so its number is positive and was given out.
LEMMA UsedEntry ==
    ASSUME DLogInvariant, NEW i \in LogIndex, NEW j \in Used(i)
    PROVE  /\ j \in Entry /\ i < node_map_count
           /\ entries[i][j] \in InLogs /\ entries[i][j] \in heap
           /\ entries[i][j] \in 1..texts /\ entries[i][j] \in 1..MaxText
  <1>1. j \in Entry /\ i < node_map_count
    BY DLogSizes DEF Used, Entry, DLogInvariant, DLogTypeOK, LookupsStayTrue
  <1>2. entries[i][j] \in InLogs
    BY DEF InLogs
  <1>3. entries[i][j] \in heap
    BY <1>2 DEF DLogInvariant, TextsAreOwned
  <1> QED
    BY <1>1, <1>2, <1>3, DLogSizes DEF DLogInvariant, DLogTypeOK, Text

\* A step that leaves the entries in use, the texts and the map alone keeps what is said of them.
LEMMA KeptStep ==
    ASSUME DLogInvariant,
           UNCHANGED <<entry_count, heap, texts, owner, reset, node_id_map, node_map_count>>,
           \A i \in LogIndex : \A j \in Used(i) : entries'[i][j] = entries[i][j]
    PROVE  TextsAreOwned' /\ LogsAreSeparate' /\ GetFindsLastPut'
  <1>1. \A i \in LogIndex : Used(i)' = Used(i)
    BY DEF Used
  <1>2. InLogs' = InLogs
    <2>1. \A x : x \in InLogs' <=> x \in InLogs
      BY <1>1, InLogsMembers
    <2> QED
      BY <2>1
  <1>3. TextsAreOwned'
    BY <1>1, <1>2 DEF DLogInvariant, TextsAreOwned
  <1>4. LogsAreSeparate'
    <2> SUFFICES ASSUME NEW i \in LogIndex, NEW j \in Used(i)
                 PROVE  /\ owner[entries'[i][j]] = node_id_map[i]
                        /\ j > 0 => entries'[i][j - 1] < entries'[i][j]
      BY <1>1 DEF LogsAreSeparate
    <2>1. j > 0 => j - 1 \in Used(i)
      BY DEF Used, DLogInvariant, DLogTypeOK
    <2> QED
      BY <2>1 DEF DLogInvariant, LogsAreSeparate
  <1>5. 0 \in LogIndex /\ entry_count[0] \in 0..MAX_LOG_ENTRIES
    BY DLogSizes DEF DLogInvariant, DLogTypeOK
  <1>6. dlog_get' = dlog_get
    BY <1>5 DEF dlog_get, Used
  <1>7. GetFindsLastPut'
    BY <1>6 DEF DLogInvariant, GetFindsLastPut
  <1> QED
    BY <1>3, <1>4, <1>7

\* Appending for the node the index is mapped to: the new text is greater than all others, and
\* goes behind the last entry.
LEMMA AppendStep ==
    ASSUME DLogInvariant, NEW c \in Caller, dlog_append_entry(c)
    PROVE  TextsAreOwned' /\ LogsAreSeparate' /\ GetFindsLastPut'
  <1>1. PICK i \in LogIndex, id \in Int :
            /\ i = todo[c].index /\ id = todo[c].id
            /\ i \in 0..(node_map_count - 1) /\ node_id_map[i] = id
    BY PendingCall DEF dlog_append_entry, LogIndex, DLogInvariant, DLogTypeOK
  <1>2. PICK j \in 0..MAX_LOG_ENTRIES : j = entry_count[i] /\ j \notin Used(i)
    BY <1>1, DLogSizes DEF DLogInvariant, DLogTypeOK, Used
  <1>0. PICK x \in Nat : x = texts + 1
    BY DEF DLogInvariant, DLogTypeOK, Text
  <1>3. UNCHANGED <<node_id_map, node_map_count, reset>>
    BY DEF dlog_append_entry
  <1>6. ASSUME NEW y, entries' = [entries EXCEPT ![i][j] = y]
        PROVE  \A a \in LogIndex : \A b \in Used(a) : entries'[a][b] = entries[a][b]
    <2> SUFFICES ASSUME NEW a \in LogIndex, NEW b \in Used(a)
                 PROVE  entries'[a][b] = entries[a][b]
      OBVIOUS
    <2>1. b \in Entry /\ ~(a = i /\ b = j)
      BY <1>2, UsedEntry
    <2>2. entries \in [LogIndex -> [Entry -> Text]]
      BY DEF DLogInvariant, DLogTypeOK
    <2>3. CASE a # i
      BY <1>6, <2>2, <2>3
    <2>4. CASE a = i
      <3>1. entries'[a] = [entries[a] EXCEPT ![j] = y]
        BY <1>6, <2>2, <2>4
      <3>2. entries[a] \in [Entry -> Text]
        BY <2>2
      <3> QED
        BY <2>1, <2>4, <3>1, <3>2
    <2> QED
      BY <2>3, <2>4
  <1>4. CASE UNCHANGED <<entry_count, heap, texts, owner>>
    <2>1. \A a \in LogIndex : \A b \in Used(a) : entries'[a][b] = entries[a][b]
      <3>1. entries' = entries \/ entries' = [entries EXCEPT ![i][j] = 0] \/ texts' = texts + 1
        BY <1>1, <1>2 DEF dlog_append_entry
      <3>2. texts' # texts + 1
        BY <1>4 DEF DLogInvariant, DLogTypeOK, Text
      <3> QED
        BY <1>6, <3>1, <3>2
    <2> QED
      BY <1>3, <1>4, <2>1, KeptStep
  <1>5. CASE ~UNCHANGED <<entry_count, heap, texts, owner>>
    <2>1. /\ j < MAX_LOG_ENTRIES /\ texts < MaxText
          /\ texts' = x
          /\ heap' = heap \cup {x}
          /\ owner' = [owner EXCEPT ![x] = id]
          /\ entries' = [entries EXCEPT ![i][j] = x]
          /\ entry_count' = [entry_count EXCEPT ![i] = @ + 1]
      BY <1>0, <1>1, <1>2, <1>5 DEF dlog_append_entry
    <2>2. x \in 1..MaxText /\ x \notin heap /\ x \notin InLogs /\ texts \in Nat
      BY <1>0, <2>1, DLogSizes DEF DLogInvariant, DLogTypeOK, Text, TextsAreOwned
    <2>3. /\ \A a \in LogIndex : a # i => Used(a)' = Used(a)
          /\ Used(i)' = Used(i) \cup {j}
      <3>1. /\ \A a \in LogIndex : a # i => entry_count'[a] = entry_count[a]
            /\ entry_count'[i] = j + 1
        BY <1>1, <1>2, <2>1 DEF DLogInvariant, DLogTypeOK
      <3>2. \A a \in LogIndex : a # i => Used(a)' = Used(a)
        BY <3>1 DEF Used
      <3>3. Used(i) = 0..(j - 1) /\ Used(i)' = 0..((j + 1) - 1) /\ j \in Nat
        BY <1>1, <1>2, <3>1, DLogSizes DEF Used
      <3>4. 0..((j + 1) - 1) = 0..(j - 1) \cup {j}
        BY <3>3
      <3> QED
        BY <3>2, <3>3, <3>4
    <2>4. /\ \A a \in LogIndex : \A b \in Used(a) : entries'[a][b] = entries[a][b]
          /\ entries'[i][j] = x
      BY <1>2, <1>6, <2>1, DLogSizes DEF DLogInvariant, DLogTypeOK, Entry
    <2>5. /\ \A y \in 1..MaxText : y # x => owner'[y] = owner[y]
          /\ owner'[x] = id
      BY <2>1, <2>2 DEF DLogInvariant, DLogTypeOK
    <2>6. \A y : y \in InLogs' <=> y \in InLogs \/ y = x
      BY <1>1, <2>3, <2>4, InLogsMembers
    <2>7. TextsAreOwned'
      <3>1. InLogs' \subseteq heap'
        BY <2>1, <2>6 DEF DLogInvariant, TextsAreOwned
      <3>2. ASSUME NEW i1 \in LogIndex, NEW i2 \in LogIndex, NEW j1 \in Used(i1)', NEW j2 \in Used(i2)',
                   entries'[i1][j1] = entries'[i2][j2]
            PROVE  i1 = i2 /\ j1 = j2
        <4>1. \A a \in LogIndex : \A b \in Used(a)' : b \in Used(a) \/ (a = i /\ b = j)
          BY <2>3
        <4>2. \A a \in LogIndex : \A b \in Used(a) : entries'[a][b] \in InLogs /\ entries'[a][b] # x
          BY <2>2, <2>4, UsedEntry
        <4>3. CASE j1 \in Used(i1) /\ j2 \in Used(i2)
          BY <2>4, <3>2, <4>3 DEF DLogInvariant, TextsAreOwned
        <4> QED
          BY <2>4, <3>2, <4>1, <4>2, <4>3
      <3>3. ~reset' => heap' = InLogs'
        BY <1>3, <2>1, <2>6 DEF DLogInvariant, TextsAreOwned
      <3> QED
        BY <3>1, <3>2, <3>3 DEF TextsAreOwned
    <2>8. LogsAreSeparate'
      <3> SUFFICES ASSUME NEW a \in LogIndex, NEW b \in Used(a)'
                   PROVE  /\ owner'[entries'[a][b]] = node_id_map[a]
                          /\ b > 0 => entries'[a][b - 1] < entries'[a][b]
        BY <1>3 DEF LogsAreSeparate
      <3>1. CASE b \in Used(a)
        <4>1. b > 0 => b - 1 \in Used(a)
          BY <3>1 DEF Used, DLogInvariant, DLogTypeOK
        <4>2. entries[a][b] \in 1..MaxText /\ entries[a][b] # x
          BY <2>2, <3>1, UsedEntry
        <4> QED
          BY <2>4, <2>5, <3>1, <4>1, <4>2 DEF DLogInvariant, LogsAreSeparate
      <3>2. CASE a = i /\ b = j
        <4>1. b > 0 => b - 1 \in Used(a)
          BY <1>2, <3>2 DEF Used
        <4>2. b > 0 => entries[a][b - 1] \in 1..texts
          BY <4>1, UsedEntry
        <4> QED
          BY <1>0, <1>1, <2>2, <2>4, <2>5, <3>2, <4>1, <4>2
      <3> QED
        BY <2>3, <3>1, <3>2
    <2>9. GetFindsLastPut'
      <3> SUFFICES ASSUME node_map_count > 0, node_id_map[0] = 0, dlog_get' # 0
                   PROVE  /\ owner'[dlog_get'] = 0
                          /\ \A y \in (dlog_get' + 1)..x : owner'[y] # 0
        BY <1>3, <2>1 DEF GetFindsLastPut
      <3>1. 0 \in LogIndex /\ entry_count[0] \in 0..MAX_LOG_ENTRIES
        BY DLogSizes DEF DLogInvariant, DLogTypeOK
      <3>2. CASE i = 0
        <4>1. dlog_get' = x
          BY <1>2, <2>1, <2>4, <3>1, <3>2 DEF dlog_get, DLogInvariant, DLogTypeOK
        <4> QED
          BY <1>1, <2>2, <2>5, <3>2, <4>1
      <3>3. CASE i # 0
        <4>1. id # 0
          BY <1>1, <3>3 DEF DLogInvariant, LookupsStayTrue, DLogTypeOK
        <4>2. entry_count'[0] = entry_count[0]
          BY <1>1, <2>1, <3>1, <3>3 DEF DLogInvariant, DLogTypeOK
        <4>3. dlog_get = dlog_get' /\ entry_count[0] > 0 /\ entry_count[0] - 1 \in Used(0)
          BY <2>4, <3>1, <4>2 DEF dlog_get, Used
        <4>4. dlog_get \in 1..texts /\ dlog_get \in 1..MaxText
          BY <3>1, <4>3, UsedEntry DEF dlog_get
        <4>5. owner[dlog_get] = 0 /\ \A y \in (dlog_get + 1)..texts : owner[y] # 0
          BY <4>3 DEF DLogInvariant, GetFindsLastPut
        <4>6. \A y \in (dlog_get + 1)..x : y = x \/ (y \in (dlog_get + 1)..texts /\ y \in 1..MaxText)
          BY <1>0, <2>2, <4>4, DLogSizes
        <4>7. dlog_get # x /\ owner'[dlog_get] = 0
          BY <1>0, <2>2, <2>5, <4>4, <4>5
        <4>8. ASSUME NEW y \in (dlog_get + 1)..x PROVE owner'[y] # 0
          <5>1. CASE y = x
            BY <2>5, <4>1, <5>1
          <5>2. CASE y # x
            BY <2>5, <4>5, <4>6, <5>2
          <5> QED
            BY <5>1, <5>2
        <4> QED
          BY <4>3, <4>7, <4>8
      <3> QED
        BY <3>2, <3>3
    <2> QED
      BY <2>7, <2>8, <2>9
  <1> QED
    BY <1>4, <1>5

\* The first k of the n entries of log i are freed and the others are moved down.
MovedDown(i, n, k) ==
    LET freed == [b \in Entry |-> IF b < k THEN 0 ELSE entries[i][b]]
    IN  entries' = [entries EXCEPT ![i] =
                        [b \in Entry |-> IF b < n - k THEN freed[b + k] ELSE freed[b]]]

\* dlog_compact moves the entries down by as many as there are to free.
LEMMA CompactedEntries ==
    ASSUME NEW c, NEW up_to, dlog_compact(c, up_to),
           NEW i, i = todo[c].index, NEW n, n = entry_count[i], DOMAIN entries[i] = Entry,
           NEW k, k = IF up_to > n THEN n ELSE up_to
    PROVE  MovedDown(i, n, k)
  <1> DEFINE F(x, D, d) == [b \in D |-> IF b < d THEN 0 ELSE entries[x][b]]
             P(x, D, m, d) == entries' = [entries EXCEPT ![x] =
                                  [b \in D |-> IF b < m - d THEN F(x, D, d)[b + d] ELSE F(x, D, d)[b]]]
  <1>1. P(todo[c].index, DOMAIN entries[todo[c].index], entry_count[todo[c].index],
          IF up_to > entry_count[todo[c].index] THEN entry_count[todo[c].index] ELSE up_to)
    BY DEF dlog_compact
  <1>2. P(i, Entry, n, k)
    <2> HIDE DEF P
    <2> QED
      BY <1>1
  <1> QED
    BY <1>2 DEF MovedDown

\* Compaction frees the first entries of one log and shifts the others.
LEMMA CompactStep ==
    ASSUME DLogInvariant, NEW c \in Caller, NEW up_to \in Nat, dlog_compact(c, up_to)
    PROVE  TextsAreOwned' /\ LogsAreSeparate' /\ GetFindsLastPut'
  <1>1. PICK i \in LogIndex : i = todo[c].index
    BY PendingCall DEF dlog_compact
  <1>2. PICK n \in 0..MAX_LOG_ENTRIES : n = entry_count[i]
    BY DEF DLogInvariant, DLogTypeOK
  <1>3. PICK k \in 0..n : k = IF up_to > n THEN n ELSE up_to
    BY DLogSizes
  <1>4. entries \in [LogIndex -> [Entry -> Text]] /\ Used(i) = 0..(n - 1) /\ n \in Nat /\ k \in Nat
    BY <1>2, DLogSizes DEF DLogInvariant, DLogTypeOK, Used
  <1>5. /\ heap' = heap \ {entries[i][b] : b \in 0..(k - 1)}
        /\ entry_count' = [entry_count EXCEPT ![i] = n - k]
        /\ UNCHANGED <<node_id_map, node_map_count, texts, owner, reset>>
    BY <1>1, <1>2, <1>3 DEF dlog_compact
  <1>6. /\ \A a \in LogIndex : a # i => Used(a)' = Used(a)
        /\ Used(i)' = 0..(n - k - 1)
    BY <1>5 DEF Used, DLogInvariant, DLogTypeOK
  <1>7. /\ \A a \in LogIndex : a # i => entries'[a] = entries[a]
        /\ \A b \in 0..(n - k - 1) : b + k \in Used(i) /\ entries'[i][b] = entries[i][b + k]
    <2>1. DOMAIN entries[i] = Entry
      BY <1>4
    <2> DEFINE freed == [b \in Entry |-> IF b < k THEN 0 ELSE entries[i][b]]
    <2>2. entries' = [entries EXCEPT ![i] =
                          [b \in Entry |-> IF b < n - k THEN freed[b + k] ELSE freed[b]]]
      <3>1. MovedDown(i, n, k)
        BY <1>1, <1>2, <1>3, <2>1, CompactedEntries
      <3> QED
        BY <3>1 DEF MovedDown
    <2>3. entries'[i] = [b \in Entry |-> IF b < n - k THEN freed[b + k] ELSE freed[b]]
      BY <1>4, <2>2
    <2>4. ASSUME NEW b \in 0..(n - k - 1)
          PROVE  b + k \in Used(i) /\ entries'[i][b] = entries[i][b + k]
      <3>1. b \in Entry /\ b + k \in Entry /\ b + k \in Used(i) /\ ~(b + k < k) /\ b < n - k
        BY <1>4, DLogSizes DEF Entry
      <3>2. freed[b + k] = entries[i][b + k]
        BY <3>1
      <3> QED
        BY <2>3, <3>1, <3>2
    <2> QED
      BY <1>4, <2>2, <2>4
  <1>8. TextsAreOwned'
    <2>1. \A y : y \in InLogs' => y \in InLogs /\ \A b \in 0..(k - 1) : y # entries[i][b]
      <3> SUFFICES ASSUME NEW a \in LogIndex, NEW b \in Used(a)'
                   PROVE  /\ entries'[a][b] \in InLogs
                          /\ \A d \in 0..(k - 1) : entries'[a][b] # entries[i][d]
        BY InLogsMembers
      <3>0. \A d \in 0..(k - 1) : d \in Used(i)
        BY <1>4
      <3>1. CASE a # i
        <4>1. b \in Used(a) /\ entries'[a][b] = entries[a][b]
          BY <1>6, <1>7, <3>1
        <4> QED
          BY <3>0, <3>1, <4>1, UsedEntry DEF DLogInvariant, TextsAreOwned
      <3>2. CASE a = i
        <4>1. b \in 0..(n - k - 1) /\ b + k \in Used(i) /\ entries'[i][b] = entries[i][b + k]
          BY <1>6, <1>7, <3>2
        <4>2. \A d \in 0..(k - 1) : d # b + k
          BY <1>4, <4>1
        <4> QED
          BY <3>0, <3>2, <4>1, <4>2, UsedEntry DEF DLogInvariant, TextsAreOwned
      <3> QED
        BY <3>1, <3>2
    <2>2. \A y : y \in InLogs /\ (\A b \in 0..(k - 1) : y # entries[i][b]) => y \in InLogs'
      <3> SUFFICES ASSUME NEW a \in LogIndex, NEW b \in Used(a),
                          \A d \in 0..(k - 1) : entries[a][b] # entries[i][d]
                   PROVE  entries[a][b] \in InLogs'
        BY InLogsMembers
      <3>1. CASE a # i
        BY <1>6, <1>7, <3>1, InLogsMembers
      <3>2. CASE a = i
        <4>1. b \in 0..(n - 1) /\ b \notin 0..(k - 1)
          BY <1>4, <3>2
        <4>2. b - k \in 0..(n - k - 1) /\ (b - k) + k = b
          BY <1>4, <4>1
        <4>3. b - k \in Used(i)' /\ entries'[i][b - k] = entries[a][b]
          BY <1>6, <1>7, <3>2, <4>2
        <4> QED
          BY <4>3, InLogsMembers
      <3> QED
        BY <3>1, <3>2
    <2>3. InLogs' \subseteq heap'
      BY <1>5, <2>1 DEF DLogInvariant, TextsAreOwned
    <2>4. ~reset' => heap' = InLogs'
      BY <1>5, <2>1, <2>2 DEF DLogInvariant, TextsAreOwned
    <2>5. ASSUME NEW i1 \in LogIndex, NEW i2 \in LogIndex, NEW j1 \in Used(i1)', NEW j2 \in Used(i2)',
                 entries'[i1][j1] = entries'[i2][j2]
          PROVE  i1 = i2 /\ j1 = j2
      <3> DEFINE at(a, b) == IF a = i THEN b + k ELSE b
      <3>1. \A a \in LogIndex : \A b \in Used(a)' :
                at(a, b) \in Used(a) /\ entries'[a][b] = entries[a][at(a, b)]
        BY <1>6, <1>7
      <3>2. i1 = i2 /\ at(i1, j1) = at(i2, j2)
        <4> HIDE DEF at
        <4> QED
          BY <2>5, <3>1 DEF DLogInvariant, TextsAreOwned
      <3> QED
        BY <1>4, <1>6, <3>2 DEF Used
    <2> QED
      BY <2>3, <2>4, <2>5 DEF TextsAreOwned
  <1>9. LogsAreSeparate'
    <2> SUFFICES ASSUME NEW a \in LogIndex, NEW b \in Used(a)'
                 PROVE  /\ owner[entries'[a][b]] = node_id_map[a]
                        /\ b > 0 => entries'[a][b - 1] < entries'[a][b]
      BY <1>5 DEF LogsAreSeparate
    <2>1. CASE a # i
      <3>1. b \in Used(a) /\ entries'[a] = entries[a]
        BY <1>6, <1>7, <2>1
      <3> QED
        BY <3>1 DEF DLogInvariant, LogsAreSeparate
    <2>2. CASE a = i
      <3>1. /\ b \in 0..(n - k - 1) /\ b + k \in Used(i) /\ entries'[i][b] = entries[i][b + k]
            /\ b > 0 => /\ b - 1 \in 0..(n - k - 1) /\ (b - 1) + k = (b + k) - 1 /\ b + k > 0
                        /\ entries'[i][b - 1] = entries[i][(b - 1) + k]
        BY <1>4, <1>6, <1>7, <2>2
      <3> QED
        BY <2>2, <3>1 DEF DLogInvariant, LogsAreSeparate
    <2> QED
      BY <2>1, <2>2
  <1>10. GetFindsLastPut'
    <2>1. 0 \in LogIndex /\ entry_count[0] \in 0..MAX_LOG_ENTRIES
      BY DLogSizes DEF DLogInvariant, DLogTypeOK
    <2>2. dlog_get' # 0 => dlog_get' = dlog_get
      <3>1. CASE i # 0
        BY <1>5, <1>7, <2>1, <3>1 DEF dlog_get, DLogInvariant, DLogTypeOK
      <3>2. CASE i = 0
        <4>1. entry_count'[0] = n - k /\ entry_count[0] = n
          BY <1>2, <1>5, <2>1, <3>2 DEF DLogInvariant, DLogTypeOK
        <4>2. CASE n - k = 0
          BY <4>1, <4>2 DEF dlog_get
        <4>3. CASE n - k # 0
          <5>1. n - k - 1 \in 0..(n - k - 1) /\ (n - k - 1) + k = n - 1 /\ n # 0
            BY <1>4, <4>3
          <5> QED
            BY <1>7, <3>2, <4>1, <4>3, <5>1 DEF dlog_get
        <4> QED
          BY <4>2, <4>3
      <3> QED
        BY <3>1, <3>2
    <2> QED
      BY <1>5, <2>2 DEF DLogInvariant, GetFindsLastPut
  <1> QED
    BY <1>8, <1>9, <1>10

\* A step that empties every log leaves nothing to say of the entries.
LEMMA EmptiedStep ==
    ASSUME DLogInvariant, Emptied, InLogs' \subseteq heap',
           ~reset' => heap' = {}
    PROVE  TextsAreOwned' /\ LogsAreSeparate' /\ GetFindsLastPut'
  <1>1. \A i \in LogIndex : Used(i)' = {}
    BY DEF Used, Emptied
  <1>2. InLogs' = {}
    BY <1>1, InLogsMembers
  <1>3. dlog_get' = 0
    BY DLogSizes DEF dlog_get, Emptied
  <1> QED
    BY <1>1, <1>2, <1>3 DEF TextsAreOwned, LogsAreSeparate, GetFindsLastPut

\* Looking an id up touches the map alone; a new mapping takes an index with an empty log.
LEMMA LookupStep ==
    ASSUME DLogInvariant, NEW c \in Caller, NEW op \in {"append", "compact"}, NEW id \in Int,
           get_node_index(c, op, id)
    PROVE  DLogInvariant'
  <1>0. UNCHANGED <<entries, entry_count, commit_index, heap, texts, owner, reset>>
    BY DEF get_node_index
  <1>1. node_map_count \in Nat /\ node_map_count <= MAX_LOGS
    BY DLogSizes DEF DLogInvariant, DLogTypeOK
  <1>2. CASE Mapped(id) # {}
    <2>1. PICK i \in Mapped(id) : todo' = [todo EXCEPT ![c] = [op |-> op, id |-> id, index |-> i]]
      BY <1>2 DEF get_node_index
    <2>2. UNCHANGED <<node_id_map, node_map_count>>
      BY <1>2 DEF get_node_index
    <2>3. i \in LogIndex /\ i < node_map_count /\ node_id_map[i] = id
      BY <1>1, DLogSizes DEF Mapped, LogIndex
    <2>4. [op |-> op, id |-> id, index |-> i] \in Pending
      BY <2>3 DEF Pending
    <2>5. DLogTypeOK'
      BY <1>0, <2>1, <2>2, <2>4 DEF DLogInvariant, DLogTypeOK
    <2>6. LookupsStayTrue'
      BY <1>0, <2>1, <2>2, <2>3 DEF DLogInvariant, DLogTypeOK, LookupsStayTrue
    <2>7. TextsAreOwned' /\ LogsAreSeparate' /\ GetFindsLastPut'
      BY <1>0, <2>2, KeptStep
    <2> QED
      BY <2>5, <2>6, <2>7 DEF DLogInvariant
  <1>3. CASE Mapped(id) = {}
    <2>1. PICK m \in Nat : m = node_map_count
      BY <1>1
    <2>2. /\ m < MAX_LOGS
          /\ node_id_map' = [node_id_map EXCEPT ![m] = id]
          /\ node_map_count' = m + 1
          /\ todo' = [todo EXCEPT ![c] = [op |-> op, id |-> id, index |-> m]]
      BY <1>3, <2>1 DEF get_node_index
    <2>3. m \in LogIndex
      BY <2>2, DLogSizes DEF LogIndex
    <2>4. [op |-> op, id |-> id, index |-> m] \in Pending
      BY <2>3 DEF Pending
    <2>5. DLogTypeOK'
      BY <1>0, <2>1, <2>2, <2>3, <2>4, DLogSizes DEF DLogInvariant, DLogTypeOK
    <2>6. /\ \A i \in 0..(m - 1) : i \in LogIndex /\ node_id_map'[i] = node_id_map[i] /\ node_id_map[i] # id
          /\ node_id_map'[m] = id
      <3>1. node_id_map \in [LogIndex -> Int]
        BY DEF DLogInvariant, DLogTypeOK
      <3>2. \A i \in 0..(m - 1) : i \in LogIndex /\ i # m
        BY <2>2, DLogSizes DEF LogIndex
      <3>3. \A i \in 0..(m - 1) : node_id_map[i] # id
        BY <1>3, <2>1 DEF Mapped
      <3> QED
        BY <2>2, <2>3, <3>1, <3>2, <3>3
    <2>7. LookupsStayTrue'
      <3>1. \A i, j \in 0..(node_map_count' - 1) : node_id_map'[i] = node_id_map'[j] => i = j
        BY <2>1, <2>2, <2>6 DEF DLogInvariant, LookupsStayTrue
      <3>2. ASSUME NEW d \in Caller, todo'[d] \in Pending
            PROVE  todo'[d].index < node_map_count' /\ node_id_map'[todo'[d].index] = todo'[d].id
        <4>1. CASE d = c
          BY <2>2, <2>6, <4>1 DEF DLogInvariant, DLogTypeOK
        <4>2. CASE d # c
          <5>1. todo'[d] = todo[d] /\ todo[d] \in Pending
            BY <2>2, <3>2, <4>2 DEF DLogInvariant, DLogTypeOK
          <5>2. todo[d].index \in 0..(m - 1) /\ node_id_map[todo[d].index] = todo[d].id
            BY <2>1, <5>1, DLogSizes DEF DLogInvariant, LookupsStayTrue, Pending, LogIndex
          <5> QED
            BY <2>2, <2>6, <5>1, <5>2
        <4> QED
          BY <4>1, <4>2
      <3>3. \A i \in LogIndex : entry_count'[i] > 0 => i < node_map_count'
        BY <1>0, <2>1, <2>2, DLogSizes DEF DLogInvariant, LookupsStayTrue, LogIndex
      <3> QED
        BY <3>1, <3>2, <3>3 DEF LookupsStayTrue
    <2>8. \A i \in LogIndex : Used(i)' = Used(i) /\ \A j \in Used(i) : i \in 0..(m - 1)
      BY <1>0, <2>1, UsedEntry DEF Used, LogIndex
    <2>9. TextsAreOwned'
      <3>1. InLogs' = InLogs
        BY <1>0 DEF InLogs, Used
      <3> QED
        BY <1>0, <2>8, <3>1 DEF DLogInvariant, TextsAreOwned
    <2>10. LogsAreSeparate'
      BY <1>0, <2>6, <2>8 DEF DLogInvariant, LogsAreSeparate
    <2>11. GetFindsLastPut'
      <3>1. dlog_get' = dlog_get /\ entry_count[0] \in Nat
        BY <1>0, DLogSizes DEF dlog_get, DLogInvariant, DLogTypeOK
      <3>2. dlog_get # 0 => 0 < m
        BY <2>1, <3>1, DLogSizes DEF dlog_get, DLogInvariant, LookupsStayTrue
      <3>3. dlog_get # 0 => node_id_map'[0] = node_id_map[0]
        BY <2>6, <3>2
      <3> QED
        BY <1>0, <2>1, <3>1, <3>2, <3>3 DEF DLogInvariant, GetFindsLastPut
    <2> QED
      BY <2>5, <2>7, <2>9, <2>10, <2>11 DEF DLogInvariant
  <1> QED
    BY <1>2, <1>3

\* A call that ends gives up its lookup and leaves the map alone.
LEMMA DoneStep ==
    ASSUME DLogInvariant, NEW c \in Caller, todo[c].op \in {"append", "compact"}, Done(c),
           UNCHANGED <<node_id_map, node_map_count>>,
           \A i \in LogIndex : entry_count'[i] > 0 => entry_count[i] > 0 \/ i = todo[c].index
    PROVE  LookupsStayTrue' /\ todo' \in [Caller -> Pending \cup {NoCall}]
  <1>1. todo' = [todo EXCEPT ![c] = NoCall] /\ todo \in [Caller -> Pending \cup {NoCall}]
    BY DEF Done, DLogInvariant, DLogTypeOK
  <1>2. NoCall \notin Pending
    BY DEF NoCall, Pending
  <1>3. todo[c].index < node_map_count
    BY PendingCall
  <1>4. \A d \in Caller : todo'[d] \in Pending => todo'[d] = todo[d]
    BY <1>1, <1>2
  <1> QED
    BY <1>1, <1>3, <1>4 DEF DLogInvariant, LookupsStayTrue

\* Every step keeps the invariant.
LEMMA DLogStep ==
    ASSUME DLogInvariant, [DLogNext]_dlogVars
    PROVE  DLogInvariant'
  <1>0. /\ \A i \in LogIndex : entry_count[i] \in 0..MAX_LOG_ENTRIES
        /\ 0 \in Text /\ 0 \in Int
    BY DLogSizes DEF DLogInvariant, DLogTypeOK, Text
  <1>1. CASE dlog_init
    <2>1. DLogTypeOK' /\ LookupsStayTrue'
      BY <1>0, <1>1, DLogSizes DEF dlog_init, Emptied, Entry, DLogInvariant, DLogTypeOK, LookupsStayTrue
    <2>2. \A i \in LogIndex : Used(i)' = {}
      BY <1>1 DEF dlog_init, Emptied, Used
    <2>3. InLogs' \subseteq heap'
      BY <2>2, InLogsMembers
    <2>4. ~reset' => heap' = {}
      BY <1>1 DEF dlog_init, DLogInvariant, TextsAreOwned
    <2> QED
      BY <1>1, <2>1, <2>3, <2>4, EmptiedStep DEF dlog_init, DLogInvariant
  <1>2. CASE dlog_finit
    <2>1. entries' \in [LogIndex -> [Entry -> Text]]
      BY <1>0, <1>2 DEF dlog_finit, Entry, DLogInvariant, DLogTypeOK
    <2>6. heap' \subseteq heap /\ UNCHANGED <<node_id_map, node_map_count, texts, todo, owner, reset>> /\ Emptied
      BY <1>2 DEF dlog_finit
    <2>2. DLogTypeOK' /\ LookupsStayTrue'
      BY <1>0, <2>1, <2>6, DLogSizes DEF Emptied, DLogInvariant, DLogTypeOK, LookupsStayTrue
    <2>3. \A i \in LogIndex : Used(i)' = {}
      BY <1>2 DEF dlog_finit, Emptied, Used
    <2>4. InLogs' \subseteq heap'
      BY <2>3, InLogsMembers
    <2>5. ~reset' => heap' = {}
      BY <1>2 DEF dlog_finit, DLogInvariant, TextsAreOwned
    <2> QED
      BY <1>2, <2>2, <2>4, <2>5, EmptiedStep DEF dlog_finit, DLogInvariant
  <1>3. ASSUME NEW c \in Caller, NEW op \in {"append", "compact"}, NEW id \in Int, get_node_index(c, op, id)
        PROVE  DLogInvariant'
    BY <1>3, LookupStep
  <1>4. ASSUME NEW c \in Caller, dlog_append_entry(c) PROVE DLogInvariant'
    <2>1. PICK i \in LogIndex, id \in Int : i = todo[c].index /\ id = todo[c].id
      BY <1>4, PendingCall DEF dlog_append_entry
    <2>2. PICK j \in 0..MAX_LOG_ENTRIES : j = entry_count[i]
      BY <1>0
    <2>3. /\ texts' \in Text /\ heap' \subseteq 1..texts' /\ owner' \in [1..MaxText -> Int]
          /\ entries' \in [LogIndex -> [Entry -> Text]]
          /\ entry_count' \in [LogIndex -> 0..MAX_LOG_ENTRIES]
      <3>1. CASE UNCHANGED <<entry_count, heap, texts, owner>>
        <4>1. entries' = entries \/ entries' = [entries EXCEPT ![i][j] = 0] \/ texts' = texts + 1
          BY <1>4, <2>1, <2>2 DEF dlog_append_entry
        <4>2. texts' # texts + 1
          BY <3>1 DEF DLogInvariant, DLogTypeOK, Text
        <4>3. entries' \in [LogIndex -> [Entry -> Text]]
          <5>1. entries \in [LogIndex -> [Entry -> Text]] /\ 0 \in Text
            BY <1>0 DEF DLogInvariant, DLogTypeOK
          <5> QED
            BY <4>1, <4>2, <5>1
        <4> QED
          BY <3>1, <4>3 DEF DLogInvariant, DLogTypeOK
      <3>2. CASE ~UNCHANGED <<entry_count, heap, texts, owner>>
        <4>1. /\ j < MAX_LOG_ENTRIES /\ texts < MaxText
              /\ texts' = texts + 1
              /\ heap' = heap \cup {texts + 1}
              /\ owner' = [owner EXCEPT ![texts + 1] = id]
              /\ entries' = [entries EXCEPT ![i][j] = texts + 1]
              /\ entry_count' = [entry_count EXCEPT ![i] = j + 1]
          BY <1>4, <2>1, <2>2, <3>2 DEF dlog_append_entry
        <4>2. texts + 1 \in Text /\ texts + 1 \in 1..MaxText /\ j + 1 \in 0..MAX_LOG_ENTRIES
          BY <2>2, <4>1, DLogSizes DEF DLogInvariant, DLogTypeOK, Text
        <4>3. heap' \subseteq 1..texts'
          BY <4>1, <4>2 DEF DLogInvariant, DLogTypeOK, Text
        <4> QED
          BY <4>1, <4>2, <4>3 DEF DLogInvariant, DLogTypeOK
      <3> QED
        BY <3>1, <3>2
    <2>4. \A a \in LogIndex : entry_count'[a] > 0 => entry_count[a] > 0 \/ a = i
      BY <1>4, <2>1 DEF dlog_append_entry, DLogInvariant, DLogTypeOK
    <2>5. LookupsStayTrue' /\ todo' \in [Caller -> Pending \cup {NoCall}]
      BY <1>4, <2>1, <2>4, DoneStep DEF dlog_append_entry
    <2>6. DLogTypeOK'
      BY <1>4, <2>3, <2>5 DEF dlog_append_entry, DLogInvariant, DLogTypeOK
    <2> QED
      BY <1>4, <2>5, <2>6, AppendStep DEF DLogInvariant
  <1>5. ASSUME NEW c \in Caller, NEW up_to \in Nat, dlog_compact(c, up_to) PROVE DLogInvariant'
    <2>1. PICK i \in LogIndex : i = todo[c].index
      BY <1>5, PendingCall DEF dlog_compact
    <2>2. PICK n \in 0..MAX_LOG_ENTRIES : n = entry_count[i]
      BY <1>0
    <2>3. PICK k \in 0..n : k = IF up_to > n THEN n ELSE up_to
      BY DLogSizes
    <2>4. entries \in [LogIndex -> [Entry -> Text]] /\ DOMAIN entries[i] = Entry
      BY DEF DLogInvariant, DLogTypeOK
    <2> DEFINE freed == [b \in Entry |-> IF b < k THEN 0 ELSE entries[i][b]]
               shifted == [b \in Entry |-> IF b < n - k THEN freed[b + k] ELSE freed[b]]
    <2>5. entries' = [entries EXCEPT ![i] = shifted] /\ entry_count' = [entry_count EXCEPT ![i] = n - k]
      <3>1. entry_count' = [entry_count EXCEPT ![i] = n - k]
        BY <1>5, <2>1, <2>2, <2>3 DEF dlog_compact
      <3>2. MovedDown(i, n, k)
        BY <1>5, <2>1, <2>2, <2>3, <2>4, CompactedEntries
      <3> QED
        BY <3>1, <3>2 DEF MovedDown
    <2>6. shifted \in [Entry -> Text]
      <3>1. freed \in [Entry -> Text]
        BY <1>0, <2>4
      <3>2. \A b \in Entry : b < n - k => b + k \in Entry
        BY DLogSizes DEF Entry
      <3> HIDE DEF freed
      <3> QED
        BY <3>1, <3>2
    <2>7. entries' \in [LogIndex -> [Entry -> Text]] /\ n - k \in 0..MAX_LOG_ENTRIES
      <3> HIDE DEF shifted
      <3> QED
        BY <2>4, <2>5, <2>6, DLogSizes
    <2>8. heap' \subseteq heap /\ UNCHANGED <<texts, owner, reset, node_id_map, node_map_count>> /\ Done(c)
      BY <1>5 DEF dlog_compact
    <2>9. entry_count' \in [LogIndex -> 0..MAX_LOG_ENTRIES]
      BY <2>5, <2>7 DEF DLogInvariant, DLogTypeOK
    <2>10. \A a \in LogIndex : entry_count'[a] > 0 => entry_count[a] > 0 \/ a = i
      BY <2>5 DEF DLogInvariant, DLogTypeOK
    <2>11. LookupsStayTrue' /\ todo' \in [Caller -> Pending \cup {NoCall}]
      BY <1>5, <2>1, <2>8, <2>10, DoneStep DEF dlog_compact
    <2>12. DLogTypeOK'
      BY <2>7, <2>8, <2>9, <2>11 DEF DLogInvariant, DLogTypeOK
    <2> QED
      BY <1>5, <2>11, <2>12, CompactStep DEF DLogInvariant
  <1>6. CASE UNCHANGED dlogVars
    <2>1. DLogTypeOK' /\ LookupsStayTrue'
      BY <1>6 DEF dlogVars, DLogInvariant, DLogTypeOK, LookupsStayTrue
    <2>2. TextsAreOwned' /\ LogsAreSeparate' /\ GetFindsLastPut'
      BY <1>6, KeptStep DEF dlogVars
    <2> QED
      BY <2>1, <2>2 DEF DLogInvariant
  <1>7. \A c \in Caller : dlog_put(c) => DLogInvariant'
    BY <1>0, <1>3 DEF dlog_put
  <1>8. \A c \in Caller, id \in LogId :
            get_node_index(c, "append", id) \/ get_node_index(c, "compact", id) => DLogInvariant'
    BY <1>3, DLogSizes
  <1>9. \A up_to \in 0..(MAX_LOG_ENTRIES + 1) : up_to \in Nat
    OBVIOUS
  <1> QED
    BY <1>1, <1>2, <1>4, <1>5, <1>6, <1>7, <1>8, <1>9 DEF DLogNext

\* The log is empty at the start.
LEMMA DLogStart == DLogInit => DLogInvariant
  <1> SUFFICES ASSUME DLogInit PROVE DLogInvariant
    OBVIOUS
  <1>1. DLogTypeOK
    <2>1. 0 \in Text /\ 0 \in 0..MAX_LOG_ENTRIES /\ 0 \in 0..MAX_LOGS
      BY DLogSizes DEF Text
    <2>2. entries \in [LogIndex -> [Entry -> Text]] /\ entry_count \in [LogIndex -> 0..MAX_LOG_ENTRIES]
      BY <2>1 DEF DLogInit, Entry
    <2>3. todo \in [Caller -> Pending \cup {NoCall}]
      BY DEF DLogInit
    <2>4. owner \in [1..MaxText -> Int] /\ node_id_map \in [LogIndex -> Int]
      BY DEF DLogInit
    <2> QED
      BY <2>1, <2>2, <2>3, <2>4 DEF DLogInit, DLogTypeOK
  <1>2. LookupsStayTrue
    BY DEF DLogInit, LookupsStayTrue, NoCall, Pending
  <1>3. \A i \in LogIndex : Used(i) = {}
    BY DEF DLogInit, Used
  <1>4. InLogs = {}
    BY <1>3, InLogsMembers
  <1> QED
    BY <1>1, <1>2, <1>3, <1>4 DEF DLogInvariant, TextsAreOwned, LogsAreSeparate, GetFindsLastPut, DLogInit

\* For any threads, ids and sizes, whatever happens between a thread's lookup and its work: every
\* entry of a log is allocated and in one place, and nothing leaks but to dlog_init.
THEOREM TextsOwned == DLogSpec => []TextsAreOwned
  <1>1. DLogInvariant => TextsAreOwned
    BY DEF DLogInvariant
  <1> QED
    BY <1>1, DLogStart, DLogStep, PTL DEF DLogSpec

\* A log holds the entries of one node, in the order they were appended.
THEOREM LogsSeparate == DLogSpec => []LogsAreSeparate
  <1>1. DLogInvariant => LogsAreSeparate
    BY DEF DLogInvariant
  <1> QED
    BY <1>1, DLogStart, DLogStep, PTL DEF DLogSpec

\* What dlog_get finds is the last value put, if node 0 was the first to get a log.
THEOREM LastPutFound == DLogSpec => []GetFindsLastPut
  <1>1. DLogInvariant => GetFindsLastPut
    BY DEF DLogInvariant
  <1> QED
    BY <1>1, DLogStart, DLogStep, PTL DEF DLogSpec


----------------------------------------------------------------------------
(* Induction and iteration, for the loop of read_config *)

\* A set that has 0 and with every number its successor, up to n, has all of them.
LEMMA CountUp ==
    ASSUME NEW n \in Nat, NEW T, 0 \in T, \A k \in 0..(n - 1) : k \in T => k + 1 \in T
    PROVE  0..n \subseteq T
  <1> SUFFICES ASSUME ~(0..n \subseteq T) PROVE FALSE
    OBVIOUS
  <1>1. PICK M : M = {k \in 0..n : k \notin T}
    OBVIOUS
  <1>2. M \subseteq Nat /\ M # {}
    BY <1>1
  <1>3. PICK R : R = OpToRel(<, Nat)
    OBVIOUS
  <1>3a. IsWellFoundedOn(R, Nat)
    BY <1>3, NatLessThanWellFounded, Zenon
  <1>4. PICK x \in M : \A y \in M : ~(<<y, x>> \in R)
    BY <1>2, <1>3a, WFMin
  <1>5. \A a, b \in Nat : <<b, a>> \in R <=> b < a
    BY <1>3 DEF OpToRel
  <1>6. \A y \in M : ~(y < x)
    BY <1>2, <1>4, <1>5, Zenon
  <1>7. x \in 0..n /\ x \notin T /\ x # 0
    BY <1>1
  <1>8. x - 1 \in 0..(n - 1) /\ x - 1 \in 0..n /\ x - 1 < x /\ (x - 1) + 1 = x
    BY <1>7
  <1>9. x - 1 \in T
    BY <1>1, <1>6, <1>8
  <1> QED
    BY <1>7, <1>8, <1>9

\* f lists the values that start goes through under G[1], G[2] and so on.
Iterates(f, n, S, start, G) ==
    f \in [0..n -> S] /\ f[0] = start /\ \A k \in 1..n : f[k] = G[k][f[k - 1]]

\* Functions on a set can be applied one after the other.
LEMMA Iterate ==
    ASSUME NEW n \in Nat, NEW S, NEW start \in S, NEW G \in [1..n -> [S -> S]]
    PROVE  \E f : Iterates(f, n, S, start, G)
  <1> DEFINE P(m) == \E f \in [0..m -> S] : f[0] = start /\ \A k \in 1..m : f[k] = G[k][f[k - 1]]
             T == {m \in 0..n : P(m)}
  <1>1. 0 \in T
    <2>1. PICK f : f = [k \in 0..0 |-> start]
      OBVIOUS
    <2>2. f \in [0..0 -> S] /\ f[0] = start
      BY <2>1
    <2>3. \A k \in 1..0 : FALSE
      OBVIOUS
    <2>4. P(0)
      BY <2>2, <2>3
    <2> QED
      BY <2>4
  <1>2. ASSUME NEW m \in 0..(n - 1), m \in T PROVE m + 1 \in T
    <2>1. PICK f \in [0..m -> S] : f[0] = start /\ \A k \in 1..m : f[k] = G[k][f[k - 1]]
      BY <1>2
    <2>2. m + 1 \in 1..n /\ m + 1 \in 0..n /\ m \in 0..m /\ (m + 1) - 1 = m
      BY <1>2
    <2> DEFINE g == [k \in 0..(m + 1) |-> IF k = m + 1 THEN G[m + 1][f[m]] ELSE f[k]]
    <2>3. G[m + 1][f[m]] \in S
      BY <2>2
    <2>4. \A k \in 0..(m + 1) : k = m + 1 \/ k \in 0..m
      BY <1>2
    <2>5. g \in [0..(m + 1) -> S]
      BY <2>3, <2>4
    <2>6. g[0] = start
      BY <1>2, <2>1
    <2>7. ASSUME NEW k \in 1..(m + 1) PROVE g[k] = G[k][g[k - 1]]
      <3>1. k \in 0..(m + 1) /\ k - 1 \in 0..(m + 1) /\ k - 1 # m + 1
        BY <1>2
      <3>2. CASE k = m + 1
        BY <2>2, <3>1, <3>2
      <3>3. CASE k # m + 1
        <4>1. k \in 1..m
          BY <1>2, <3>3
        <4> QED
          BY <2>1, <3>1, <3>3, <4>1
      <3> QED
        BY <3>2, <3>3
    <2> HIDE DEF g
    <2>8. P(m + 1)
      BY <2>5, <2>6, <2>7
    <2> QED
      BY <2>2, <2>8
  <1> HIDE DEF P
  <1>3. 0..n \subseteq T
    <2> HIDE DEF T
    <2> QED
      BY <1>1, <1>2, CountUp
  <1>4. P(n)
    BY <1>3
  <1> QED
    BY <1>4 DEF P, Iterates

----------------------------------------------------------------------------
(* Settings: what a file of lines sets. *)

Names == DOMAIN guc_table

\* The entries of the table are of five types; both ports are numbers.
LEMMA TableTyped ==
    /\ \A n \in Names : guc_table[n].type \in {"int", "string", "destination", "level", "protocol"}
    /\ {"rale_port", "dstore_port", "raled_log_level", "log_directory", "path", "communication_socket"} \subseteq Names
    /\ guc_table["rale_port"].type = "int" /\ guc_table["dstore_port"].type = "int"
  <1>1. \A n \in Names : guc_table[n].type \in {"int", "string", "destination", "level", "protocol"}
    <2>1. /\ \A a, b : GUC_INT(a, b).type = "int"
          /\ GUC_STRING.type = "string"
          /\ \A a, b : GUC_ENUM(a, b).type = a
      BY DEF GUC_INT, GUC_STRING, GUC_ENUM
    <2> QED
      BY <2>1 DEF Names, guc_table
  <1>2. {"rale_port", "dstore_port", "raled_log_level", "log_directory", "path", "communication_socket"} \subseteq Names
    BY DEF Names, guc_table
  <1>3. guc_table["rale_port"].type = "int" /\ guc_table["dstore_port"].type = "int"
    BY DEF guc_table, GUC_INT
  <1> QED
    BY <1>1, <1>2, <1>3

\* A value that the entry n of the table may have.
Accepts(n, value) ==
    guc_table[n].type = "int" => atoi(value) \in guc_table[n].min..guc_table[n].max

\* guc_set writes what the value means, and 0 to the neighbour of rale_port.
LEMMA EntrySet ==
    ASSUME NEW S, NEW s \in [Names -> S], NEW n \in Names, NEW value, Meant(n, value) \in S, 0 \in S
    PROVE  /\ SetEntry(s, n, value) \in [Names -> S]
           /\ Accepts(n, value) =>
                /\ SetEntry(s, n, value)[n] = Meant(n, value)
                /\ \A m \in Names \ {n} : (n = "rale_port" /\ m = "dstore_port") \/ SetEntry(s, n, value)[m] = s[m]
           /\ ~Accepts(n, value) => SetEntry(s, n, value) = s
  <1>1. CASE guc_table[n].type = "int"
    <2>1. Meant(n, value) = atoi(value)
      BY <1>1 DEF Meant
    <2>2. SetEntry(s, n, value) =
             IF atoi(value) \in guc_table[n].min..guc_table[n].max THEN WriteInt(s, n, atoi(value)) ELSE s
      BY <1>1 DEF SetEntry
    <2>3. /\ WriteInt(s, n, atoi(value)) \in [Names -> S] /\ WriteInt(s, n, atoi(value))[n] = atoi(value)
          /\ \A m \in Names \ {n} : (n = "rale_port" /\ m = "dstore_port") \/ WriteInt(s, n, atoi(value))[m] = s[m]
      BY <2>1, TableTyped DEF WriteInt
    <2> QED
      BY <1>1, <2>1, <2>2, <2>3 DEF Accepts
  <1>2. CASE guc_table[n].type # "int"
    <2>1. SetEntry(s, n, value) = [s EXCEPT ![n] = Meant(n, value)]
      BY <1>2, TableTyped DEF SetEntry, Meant
    <2> QED
      BY <1>2, <2>1 DEF Accepts
  <1> QED
    BY <1>1, <1>2

\* The line l sets n.
Sets(l, n) == Alias(l.key) = n /\ Accepts(n, l.value)

\* All the values that the lines of c can give to a setting that has values in V.
Values(c, V) == V \cup {0} \cup {Meant(n, Conf[c][k].value) : n \in Names, k \in DOMAIN Conf[c]}

\* A line sets one setting or none.
LEMMA LineRead ==
    ASSUME NEW S, NEW s \in [Names -> S], NEW l, 0 \in S, \A n \in Names : Meant(n, l.value) \in S
    PROVE  /\ ReadLine(s, l) \in [Names -> S]
           /\ \A n \in Names : Sets(l, n) => ReadLine(s, l)[n] = Meant(n, l.value)
           /\ \A n \in Names : ReadLine(s, l)[n] = s[n] \/ Sets(l, n) \/ (n = "dstore_port" /\ Sets(l, "rale_port"))
  <1>1. CASE \E n \in Names : Alias(l.key) = n
    <2>1. PICK n \in Names : Alias(l.key) = n
      BY <1>1
    <2>2. ReadLine(s, l) = SetEntry(s, n, l.value)
      BY <2>1 DEF ReadLine, guc_set, Names
    <2>3. \A m \in Names : Sets(l, m) <=> m = n /\ Accepts(n, l.value)
      BY <2>1 DEF Sets
    <2>4. /\ SetEntry(s, n, l.value) \in [Names -> S]
          /\ Accepts(n, l.value) =>
               /\ SetEntry(s, n, l.value)[n] = Meant(n, l.value)
               /\ \A m \in Names \ {n} : (n = "rale_port" /\ m = "dstore_port") \/ SetEntry(s, n, l.value)[m] = s[m]
          /\ ~Accepts(n, l.value) => SetEntry(s, n, l.value) = s
      BY EntrySet
    <2> QED
      BY <2>2, <2>3, <2>4, TableTyped
  <1>2. CASE ~\E n \in Names : Alias(l.key) = n
    <2>1. ReadLine(s, l) = s
      BY <1>2 DEF ReadLine, guc_set, Names
    <2>2. \A n \in Names : ~Sets(l, n)
      BY <1>2 DEF Sets
    <2> QED
      BY <2>1, <2>2
  <1> QED
    BY <1>1, <1>2

\* f holds the settings while the lines of c are read, line by line.
Reads(f, c, s, S) ==
    /\ f \in [0..Len(Conf[c]) -> [Names -> S]]
    /\ f[0] = s
    /\ \A k \in 1..Len(Conf[c]) : f[k] = ReadLine(f[k - 1], Conf[c][k])

\* The lines of a text are numbered from 1.
LEMMA LinesCounted ==
    ASSUME NEW c \in DOMAIN Conf
    PROVE  Len(Conf[c]) \in Nat /\ DOMAIN Conf[c] = 1..Len(Conf[c])
  BY SettingsAssumption, LenProperties

\* The settings while a file is read exist, and the last ones are what read_config leaves.
LEMMA ReadStates ==
    ASSUME NEW c \in DOMAIN Conf, NEW V, NEW s \in [Names -> V]
    PROVE  \E f : Reads(f, c, s, Values(c, V)) /\ read_config(s, c) = f[Len(Conf[c])]
  <1> DEFINE n == Len(Conf[c])
             S == Values(c, V)
             R == [Names -> S]
             Eq(f) == f = [k \in 0..n |-> IF k = 0 THEN s ELSE ReadLine(f[k - 1], Conf[c][k])]
             G == [k \in 1..n |-> [r \in R |-> ReadLine(r, Conf[c][k])]]
  <1>1. n \in Nat /\ DOMAIN Conf[c] = 1..n
    BY LinesCounted
  <1>2. s \in R /\ 0 \in S /\ \A k \in 1..n : \A m \in Names : Meant(m, Conf[c][k].value) \in S
    BY <1>1 DEF Values
  <1> HIDE DEF n, S
  <1>3. \A k \in 1..n : \A r \in R : ReadLine(r, Conf[c][k]) \in R
    BY <1>2, LineRead
  <1> HIDE DEF R
  <1>4. G \in [1..n -> [R -> R]]
    BY <1>3
  <1>5. PICK f \in [0..n -> R] : f[0] = s /\ \A k \in 1..n : f[k] = G[k][f[k - 1]]
    <2> HIDE DEF G
    <2>1. \E f : Iterates(f, n, R, s, G)
      BY <1>1, <1>2, <1>4, Iterate, Zenon
    <2> QED
      BY <2>1 DEF Iterates
  <1>6. \A k \in 1..n : k - 1 \in 0..n /\ k # 0
    BY <1>1
  <1>7. \A k \in 1..n : f[k] = ReadLine(f[k - 1], Conf[c][k])
    BY <1>5, <1>6
  <1>8. Eq(f)
    <2>1. \A k \in 0..n : f[k] = IF k = 0 THEN s ELSE ReadLine(f[k - 1], Conf[c][k])
      <3>1. \A k \in 0..n : k = 0 \/ k \in 1..n
        BY <1>1
      <3> QED
        BY <1>5, <1>7, <3>1
    <2> QED
      BY <1>5, <2>1
  <1> DEFINE h == CHOOSE g : Eq(g)
  <1>9. Eq(h)
    BY <1>8
  <1>10. read_config(s, c) = h[n]
    BY DEF read_config, n
  <1> HIDE DEF h
  <1>11. h = f
    <2>1. h[0] = s /\ \A k \in 1..n : h[k] = ReadLine(h[k - 1], Conf[c][k])
      <3>1. 0 \in 0..n /\ \A k \in 1..n : k \in 0..n
        BY <1>1
      <3> QED
        BY <1>6, <1>9, <3>1
    <2> DEFINE T == {k \in 0..n : h[k] = f[k]}
    <2>2. 0 \in T
      BY <1>1, <1>5, <2>1
    <2>3. ASSUME NEW k \in 0..(n - 1), k \in T PROVE k + 1 \in T
      <3>1. k + 1 \in 1..n /\ k + 1 \in 0..n /\ (k + 1) - 1 = k
        BY <1>1
      <3> QED
        BY <1>7, <2>1, <2>3, <3>1
    <2>4. 0..n \subseteq T
      <3> HIDE DEF T
      <3> QED
        BY <1>1, <2>2, <2>3, CountUp
    <2>5. \A k \in 0..n : h[k] = f[k]
      BY <2>4
    <2>6. h = [k \in 0..n |-> h[k]]
      BY <1>9
    <2> QED
      BY <1>5, <2>5, <2>6
  <1>12. Reads(f, c, s, Values(c, V))
    BY <1>5, <1>7 DEF Reads, n, R, S
  <1> QED
    BY <1>10, <1>11, <1>12 DEF n

\* What a reading of c has to leave in the settings r.
Effective(c, r) ==
    \A n \in Names : \A k \in ValuedIn[c][n] :
        \/ \E l \in ValuedIn[c][n] : l > k
        \/ n = "dstore_port" /\ \E l \in ValuedIn[c]["rale_port"] : l > k
        \/ r[n] = Meant(n, Conf[c][k].value)

\* After a file is read, the last valid line of each setting counts.
LEMMA ReadTakesEffect ==
    ASSUME NEW c \in DOMAIN Conf, NEW V, NEW s \in [Names -> V]
    PROVE  /\ read_config(s, c) \in [Names -> Values(c, V)]
           /\ Effective(c, read_config(s, c))
  <1>1. PICK f : Reads(f, c, s, Values(c, V)) /\ read_config(s, c) = f[Len(Conf[c])]
    BY ReadStates
  <1>2. PICK n : n = Len(Conf[c])
    OBVIOUS
  <1>3. n \in Nat /\ DOMAIN Conf[c] = 1..n
    BY <1>2, LinesCounted
  <1>4. \A m \in Names : \A k : k \in ValuedIn[c][m] <=> k \in 1..n /\ Sets(Conf[c][k], m)
    BY <1>3 DEF ValuedIn, Valued, Sets, Accepts, Names
  <1>5. PICK S : S = Values(c, V)
    OBVIOUS
  <1>6. 0 \in S /\ \A k \in 1..n : \A m \in Names : Meant(m, Conf[c][k].value) \in S
    BY <1>3, <1>5 DEF Values
  <1>7. f \in [0..n -> [Names -> S]] /\ \A k \in 1..n : f[k] = ReadLine(f[k - 1], Conf[c][k])
    BY <1>1, <1>2, <1>5 DEF Reads
  <1> DEFINE Holds(m, k, x) ==
                \/ \E l \in ValuedIn[c][m] : l > k /\ l <= x
                \/ m = "dstore_port" /\ \E l \in ValuedIn[c]["rale_port"] : l > k /\ l <= x
                \/ f[x][m] = Meant(m, Conf[c][k].value)
             P(x) == \A m \in Names : \A k \in ValuedIn[c][m] : k <= x => Holds(m, k, x)
             T == {x \in 0..n : P(x)}
  <1>8. 0 \in T
    <2>1. P(0)
      BY <1>4
    <2> QED
      BY <1>3, <2>1
  <1>9. ASSUME NEW x \in 0..(n - 1), x \in T PROVE x + 1 \in T
    <2>1. x + 1 \in 1..n /\ x + 1 \in 0..n /\ (x + 1) - 1 = x /\ x \in 0..n
      BY <1>3
    <2>2. PICK l : l = Conf[c][x + 1]
      OBVIOUS
    <2>3. f[x] \in [Names -> S] /\ f[x + 1] = ReadLine(f[x], l)
      BY <1>7, <2>1, <2>2
    <2>4. /\ \A m \in Names : Sets(l, m) => f[x + 1][m] = Meant(m, l.value)
          /\ \A m \in Names : f[x + 1][m] = f[x][m] \/ Sets(l, m) \/ (m = "dstore_port" /\ Sets(l, "rale_port"))
      BY <1>6, <2>1, <2>2, <2>3, LineRead
    <2>5. ASSUME NEW m \in Names, NEW k \in ValuedIn[c][m], k <= x + 1 PROVE Holds(m, k, x + 1)
      <3>0. k \in 1..n
        BY <1>4
      <3>1. CASE k = x + 1
        BY <1>4, <2>2, <2>4, <3>1
      <3>2. CASE k <= x
        <4>1. Holds(m, k, x)
          BY <1>9, <3>2
        <4>2. CASE \E y \in ValuedIn[c][m] : y > k /\ y <= x
          <5>1. PICK y \in ValuedIn[c][m] : y > k /\ y <= x
            BY <4>2
          <5>2. y <= x + 1
            BY <1>4, <5>1
          <5> QED
            BY <5>1, <5>2
        <4>3. CASE m = "dstore_port" /\ \E y \in ValuedIn[c]["rale_port"] : y > k /\ y <= x
          <5>1. PICK y \in ValuedIn[c]["rale_port"] : y > k /\ y <= x
            BY <4>3
          <5>2. y <= x + 1
            BY <1>4, <5>1, TableTyped
          <5> QED
            BY <4>3, <5>1, <5>2
        <4>4. CASE f[x][m] = Meant(m, Conf[c][k].value)
          <5>1. x + 1 > k /\ x + 1 <= x + 1
            BY <3>0, <3>2
          <5>2. CASE Sets(l, m)
            <6>1. x + 1 \in ValuedIn[c][m]
              BY <1>4, <2>1, <2>2, <5>2
            <6> QED
              BY <5>1, <6>1
          <5>3. CASE m = "dstore_port" /\ Sets(l, "rale_port")
            <6>1. x + 1 \in ValuedIn[c]["rale_port"]
              BY <1>4, <2>1, <2>2, <5>3, TableTyped
            <6> QED
              BY <5>1, <5>3, <6>1
          <5>4. CASE f[x + 1][m] = f[x][m]
            BY <4>4, <5>4
          <5> QED
            BY <2>4, <5>2, <5>3, <5>4
        <4> QED
          BY <4>1, <4>2, <4>3, <4>4
      <3> QED
        BY <2>5, <3>0, <3>1, <3>2
    <2> HIDE DEF Holds
    <2> QED
      BY <2>1, <2>5
  <1>10. 0..n \subseteq T
    <2> HIDE DEF T
    <2> QED
      BY <1>3, <1>8, <1>9, CountUp
  <1>11. n \in 0..n /\ P(n)
    BY <1>3, <1>10
  <1>12. Effective(c, f[n])
    BY <1>4, <1>11 DEF Effective
  <1> QED
    BY <1>1, <1>2, <1>5, <1>7, <1>11, <1>12

----------------------------------------------------------------------------
(* Settings: the PID files. *)

\* No file is there when the processes start.
LEMMA SettingsStart == SettingsInit => PerProcess /\ PortsAreApart /\ FilesAreSafe /\ NamesAreTrue
  <1> SUFFICES ASSUME SettingsInit PROVE PerProcess /\ PortsAreApart /\ FilesAreSafe /\ NamesAreTrue
    OBVIOUS
  <1>1. \A i \in Instance : phase[i] = "new"
    BY DEF SettingsInit
  <1>2. \A p \in DOMAIN pid_files : pid_files[p] \notin Instance
    BY SettingsAssumption DEF SettingsInit
  <1>3. PerProcess
    BY DEF SettingsInit, PerProcess
  <1> QED
    BY <1>1, <1>2, <1>3 DEF PortsAreApart, Bound, FilesAreSafe, Publishes, NamesAreTrue

\* Going on from one phase to another changes the phase of one process.
LEMMA Gone == 
    ASSUME PerProcess, NEW i \in Instance, NEW p, Goto(i, p)
    PROVE  DOMAIN phase' = Instance /\ \A j \in Instance : phase'[j] = IF j = i THEN p ELSE phase[j]
  BY DEF PerProcess, Goto

\* The records of the processes stay per process.
LEMMA PerProcessStep ==
    ASSUME PerProcess, [SettingsNext]_settingsVars
    PROVE  PerProcess'
  <1>1. ASSUME NEW i \in Instance, NEW p, Goto(i, p) PROVE DOMAIN phase' = Instance
    BY <1>1, Gone
  <1>2. ASSUME NEW i \in Instance, NEW d \in BOOLEAN, NEW v \in BOOLEAN, parse_arguments(i, d, v) PROVE PerProcess'
    BY <1>1, <1>2 DEF parse_arguments, PerProcess
  <1>3. ASSUME NEW i \in Instance, run_config_checks(i) PROVE PerProcess'
    BY <1>1, <1>3 DEF run_config_checks, PerProcess
  <1>4. ASSUME NEW i \in Instance, check_pid_file(i) \/ remove_stale_pid_file(i) \/ fill_pid_file(i)
                                    \/ cleanup_resources(i) \/ remove_pid_file(i) \/ Kill(i)
        PROVE  PerProcess'
    BY <1>1, <1>4
    DEF check_pid_file, remove_stale_pid_file, fill_pid_file, RunsUnwritten, cleanup_resources, remove_pid_file, Kill, PerProcess
  <1>5. ASSUME NEW i \in Instance, initialize_librale(i) PROVE PerProcess'
    BY <1>1, <1>5 DEF initialize_librale, PerProcess
  <1>6. ASSUME NEW i \in Instance, create_pid_file(i) PROVE PerProcess'
    BY <1>1, <1>6 DEF create_pid_file, RunsUnwritten, PerProcess
  <1>7. ASSUME NEW i \in Instance, reload(i) PROVE PerProcess'
    BY <1>7 DEF reload, PerProcess
  <1>8. CASE EditConf
    BY <1>8 DEF EditConf, PerProcess
  <1>9. CASE UNCHANGED settingsVars
    BY <1>9 DEF settingsVars, PerProcess
  <1> QED
    BY <1>2, <1>3, <1>4, <1>5, <1>6, <1>7, <1>8, <1>9 DEF SettingsNext

\* Reading settings does not touch the other processes.
LEMMA PortsOfOthers ==
    ASSUME PerProcess, NEW i \in Instance, NEW s, settings' = [settings EXCEPT ![i] = s]
    PROVE  \A j \in Instance \ {i} : settings'[j].rale_port = settings[j].rale_port
  BY DEF PerProcess

\* The ports of the processes whose sockets are bound stay apart: initialize_librale binds only
\* what nobody holds, and a reload that changes rale_port is remembered.
LEMMA PortsStep ==
    ASSUME PerProcess, PortsAreApart, [SettingsNext]_settingsVars
    PROVE  PortsAreApart'
  <1>1. ASSUME Bound' \subseteq Bound, librale_cfg' = librale_cfg, moved' = moved,
               \A j \in Bound' : settings'[j].rale_port = settings[j].rale_port
        PROVE  PortsAreApart'
    BY <1>1 DEF PortsAreApart, PidFileOf
  <1>2. ASSUME NEW i \in Instance, NEW p, Goto(i, p), p \in {"create", "fill", "runs"} => i \in Bound
        PROVE  Bound' \subseteq Bound
    BY <1>2, Gone DEF Bound
  <1>3. ASSUME NEW i \in Instance, NEW p, Goto(i, p), p \notin {"create", "fill", "runs"}
        PROVE  Bound' \subseteq Bound \ {i}
    BY <1>3, Gone DEF Bound
  <1>4. ASSUME NEW i \in Instance, NEW d \in BOOLEAN, NEW v \in BOOLEAN, parse_arguments(i, d, v)
        PROVE  PortsAreApart'
    <2>1. Bound' \subseteq Bound \ {i} 
      BY <1>4, <1>3 DEF parse_arguments
    <2>2. \A j \in Instance \ {i} : settings'[j].rale_port = settings[j].rale_port
      BY <1>4, PortsOfOthers DEF parse_arguments
    <2> QED
      BY <1>1, <1>4, <2>1, <2>2 DEF parse_arguments, Bound
  <1>5. ASSUME NEW i \in Instance, run_config_checks(i) PROVE PortsAreApart'
    <2>1. Bound' \subseteq Bound \ {i} 
      BY <1>5, <1>3 DEF run_config_checks
    <2>2. \A j \in Instance \ {i} : settings'[j].rale_port = settings[j].rale_port
      BY <1>5, PortsOfOthers DEF run_config_checks
    <2> QED
      BY <1>1, <1>5, <2>1, <2>2 DEF run_config_checks, Bound
  <1>6. ASSUME NEW i \in Instance, check_pid_file(i) \/ remove_stale_pid_file(i) \/ cleanup_resources(i) \/ Kill(i)
                                    \/ remove_pid_file(i)
        PROVE  PortsAreApart'
    <2>1. Bound' \subseteq Bound
      BY <1>3, <1>6 DEF check_pid_file, remove_stale_pid_file, cleanup_resources, remove_pid_file, Kill
    <2> QED
      BY <1>1, <1>6, <2>1 DEF check_pid_file, remove_stale_pid_file, cleanup_resources, remove_pid_file, Kill
  <1>7. ASSUME NEW i \in Instance, create_pid_file(i) \/ fill_pid_file(i) PROVE PortsAreApart'
    <2>1. i \in Bound
      BY <1>7 DEF create_pid_file, fill_pid_file, Bound
    <2>2. Bound' \subseteq Bound
      BY <1>2, <1>7, <2>1 DEF create_pid_file, fill_pid_file, RunsUnwritten
    <2> QED
      BY <1>1, <1>7, <2>2 DEF create_pid_file, fill_pid_file, RunsUnwritten
  <1>8. ASSUME NEW i \in Instance, initialize_librale(i) PROVE PortsAreApart'
    <2>1. CASE Goto(i, "exited") /\ librale_cfg' = librale_cfg
      <3>1. Bound' \subseteq Bound
        BY <1>3, <2>1
      <3> QED
        BY <1>1, <1>8, <2>1, <3>1 DEF initialize_librale
    <2>2. CASE /\ CanStart(settings[i])
               /\ librale_cfg' = [librale_cfg EXCEPT ![i] = LibraleConfig(settings[i])]
      <3>1. Bound' \subseteq Bound \cup {i} /\ i \notin Bound
        BY <1>8, <2>2, Gone DEF initialize_librale, Bound
      <3>2. \A j \in Bound : librale_cfg'[j] = librale_cfg[j]
        BY <1>8, <2>2, <3>1 DEF initialize_librale, PerProcess, Bound
      <3>3. librale_cfg'[i].rale_port = settings[i].rale_port
        BY <1>8, <2>2 DEF initialize_librale, PerProcess, LibraleConfig, librale_config_create
      <3>4. settings[i].rale_port # 0 => \A j \in Bound : librale_cfg[j].rale_port # settings[i].rale_port
        BY <2>2 DEF CanStart
      <3> QED
        BY <1>8, <3>1, <3>2, <3>3, <3>4 DEF initialize_librale, PortsAreApart, PidFileOf
    <2> QED
      BY <1>8, <2>1, <2>2 DEF initialize_librale
  <1>9. ASSUME NEW i \in Instance, reload(i) PROVE PortsAreApart'
    <2>1. \A j \in Instance \ {i} : settings'[j].rale_port = settings[j].rale_port
      BY <1>9, PortsOfOthers DEF reload
    <2>2. ~moved' => ~moved /\ \A j \in Instance : settings'[j].rale_port = settings[j].rale_port
      BY <1>9, <2>1 DEF reload, PerProcess
    <2>3. Bound' = Bound /\ librale_cfg' = librale_cfg /\ Bound \subseteq Instance
      BY <1>9 DEF reload, Bound
    <2> QED
      BY <2>2, <2>3 DEF PortsAreApart, PidFileOf
  <1>10. CASE EditConf \/ UNCHANGED settingsVars
    BY <1>1, <1>10 DEF EditConf, settingsVars, Bound
  <1> QED
    BY <1>4, <1>5, <1>6, <1>7, <1>8, <1>9, <1>10 DEF SettingsNext

\* A PID file names a process that filled it and is to remove it: only fill_pid_file writes a name,
\* and a process removes the file it filled unless a reload has moved it.
LEMMA NamesStep ==
    ASSUME PerProcess, NamesAreTrue, [SettingsNext]_settingsVars
    PROVE  NamesAreTrue'
  <1> DEFINE Naming == {"runs", "cleaned", "killed"}
  <1>1. ASSUME NEW i \in Instance, NEW p, Goto(i, p), moved' = moved,
               phase[i] \in Naming => p \in Naming,
               \A j \in Instance : phase[j] \in Naming => settings'[j].rale_port = settings[j].rale_port,
               \A q \in DOMAIN pid_files' : pid_files'[q] \in Instance =>
                    q \in DOMAIN pid_files /\ pid_files'[q] = pid_files[q]
        PROVE  NamesAreTrue'
    BY <1>1, Gone DEF NamesAreTrue, PidFileOf
  <1>2. ASSUME NEW i \in Instance, NEW d \in BOOLEAN, NEW v \in BOOLEAN, parse_arguments(i, d, v)
        PROVE  NamesAreTrue'
    <2>1. \A j \in Instance : phase[j] \in Naming => settings'[j].rale_port = settings[j].rale_port
      BY <1>2, PortsOfOthers DEF parse_arguments
    <2> QED
      BY <1>1, <1>2, <2>1 DEF parse_arguments
  <1>3. ASSUME NEW i \in Instance, run_config_checks(i) PROVE NamesAreTrue'
    <2>1. \A j \in Instance : phase[j] \in Naming => settings'[j].rale_port = settings[j].rale_port
      BY <1>3, PortsOfOthers DEF run_config_checks
    <2> QED
      BY <1>1, <1>3, <2>1 DEF run_config_checks
  <1>4. ASSUME NEW i \in Instance, check_pid_file(i) \/ cleanup_resources(i) \/ Kill(i) \/ initialize_librale(i)
        PROVE  NamesAreTrue'
    BY <1>1, <1>4 DEF check_pid_file, cleanup_resources, Kill, initialize_librale
  <1>5. ASSUME NEW i \in Instance, remove_stale_pid_file(i) PROVE NamesAreTrue'
    BY <1>1, <1>5 DEF remove_stale_pid_file, Unlinked
  <1>6. ASSUME NEW i \in Instance, create_pid_file(i) PROVE NamesAreTrue'
    BY <1>1, <1>6, SettingsAssumption DEF create_pid_file, RunsUnwritten
  <1>7. ASSUME NEW i \in Instance, fill_pid_file(i) PROVE NamesAreTrue'
    <2>1. \A q \in DOMAIN pid_files' : /\ q \in DOMAIN pid_files
                                       /\ pid_files'[q] = pid_files[q] \/ (q = PidFileOf(i) /\ pid_files'[q] = i)
      BY <1>7 DEF fill_pid_file
    <2>2. phase'[i] = "runs" /\ \A j \in Instance \ {i} : phase'[j] = phase[j]
      BY <1>7, Gone DEF fill_pid_file, RunsUnwritten
    <2>3. settings' = settings /\ moved' = moved
      BY <1>7 DEF fill_pid_file
    <2> QED
      BY <2>1, <2>2, <2>3 DEF NamesAreTrue, PidFileOf
  <1>8. ASSUME NEW i \in Instance, reload(i) PROVE NamesAreTrue'
    <2>1. ~moved' => ~moved /\ \A j \in Instance : settings'[j].rale_port = settings[j].rale_port
      BY <1>8, PortsOfOthers DEF reload, PerProcess
    <2> QED
      BY <1>8, <2>1 DEF reload, NamesAreTrue, PidFileOf
  <1>9. ASSUME NEW i \in Instance, remove_pid_file(i) PROVE NamesAreTrue'
    <2>1. \A q \in DOMAIN pid_files' : q \in DOMAIN pid_files /\ q # PidFileOf(i) /\ pid_files'[q] = pid_files[q]
      BY <1>9 DEF remove_pid_file, Unlinked
    <2>2. \A j \in Instance \ {i} : phase'[j] = phase[j]
      BY <1>9, Gone DEF remove_pid_file
    <2> QED
      BY <1>9, <2>1, <2>2 DEF remove_pid_file, NamesAreTrue, PidFileOf
  <1>10. CASE EditConf \/ UNCHANGED settingsVars
    BY <1>10 DEF EditConf, settingsVars, NamesAreTrue, PidFileOf
  <1> QED
    BY <1>2, <1>3, <1>4, <1>5, <1>6, <1>7, <1>8, <1>9, <1>10 DEF SettingsNext

\* Nobody removes the file of a daemon: who looks at it finds it empty or a process that is alive,
\* and who would clean up after itself on the same port would have the port.
LEMMA FilesStep ==
    ASSUME PerProcess, PortsAreApart, FilesAreSafe, [SettingsNext]_settingsVars
    PROVE  FilesAreSafe'
  <1> DEFINE Removes == {"remove", "cleaned"}
             Safe(i) == /\ Named(PidFileOf(i)) = IF phase[i] = "fill" THEN "empty" ELSE i
                        /\ \A j \in Instance \ {i} : phase[j] \in Removes => PidFileOf(j) # PidFileOf(i)
  <1>0. ASSUME ~moved, ~raced, NEW i \in Instance, Publishes(i) PROVE Safe(i)
    BY <1>0 DEF FilesAreSafe
  <1>1. ASSUME NEW i \in Instance, Publishes(i), ~moved, NEW j \in Instance, j \in Bound, PidFileOf(j) = PidFileOf(i)
        PROVE  i = j
    <2>1. i \in Bound
      BY <1>1 DEF Publishes, Bound
    <2> QED
      BY <1>1, <2>1 DEF PortsAreApart, Publishes
  <1>2. ASSUME NEW i \in Instance, NEW p, Goto(i, p), moved' = moved, raced' = raced, daemon_mode' = daemon_mode,
               unwritten' = unwritten, settings' = settings, pid_files' = pid_files, p \notin {"fill", "runs"},
               p \in Removes => \A j \in Instance \ {i} : Publishes(j) /\ ~moved /\ ~raced => PidFileOf(j) # PidFileOf(i)
        PROVE  FilesAreSafe'
    BY <1>0, <1>2, Gone DEF FilesAreSafe, Publishes, PidFileOf, Named
  <1>3. ASSUME NEW i \in Instance, ~Publishes(i)', phase'[i] \notin Removes, moved' = moved, raced' = raced,
               pid_files' = pid_files, unwritten \subseteq unwritten', unwritten' \subseteq unwritten \cup {i},
               \A j \in Instance \ {i} : /\ settings'[j].rale_port = settings[j].rale_port /\ phase'[j] = phase[j]
                                         /\ daemon_mode'[j] = daemon_mode[j]
        PROVE  FilesAreSafe'
    BY <1>0, <1>3 DEF FilesAreSafe, Publishes, PidFileOf, Named
  <1>4. ASSUME NEW i \in Instance, NEW d \in BOOLEAN, NEW v \in BOOLEAN, parse_arguments(i, d, v)
        PROVE  FilesAreSafe'
    <2>1. \A j \in Instance \ {i} : settings'[j].rale_port = settings[j].rale_port
      BY <1>4, PortsOfOthers DEF parse_arguments
    <2>2. phase'[i] \in {"exited", "check", "init"} /\ \A j \in Instance \ {i} : phase'[j] = phase[j]
      BY <1>4, Gone DEF parse_arguments
    <2>3. \A j \in Instance \ {i} : daemon_mode'[j] = daemon_mode[j]
      BY <1>4 DEF parse_arguments, PerProcess
    <2> QED
      BY <1>3, <1>4, <2>1, <2>2, <2>3 DEF parse_arguments, Publishes
  <1>5. ASSUME NEW i \in Instance, run_config_checks(i) PROVE FilesAreSafe'
    <2>1. \A j \in Instance \ {i} : settings'[j].rale_port = settings[j].rale_port
      BY <1>5, PortsOfOthers DEF run_config_checks
    <2>2. phase'[i] \in {"failed", "passed"} /\ \A j \in Instance \ {i} : phase'[j] = phase[j]
      BY <1>5, Gone DEF run_config_checks
    <2> QED
      BY <1>3, <1>5, <2>1, <2>2 DEF run_config_checks, Publishes
  <1>6. ASSUME NEW i \in Instance, check_pid_file(i) PROVE FilesAreSafe'
    <2>1. ASSUME NEW j \in Instance \ {i}, Publishes(j), ~moved, ~raced, PidFileOf(j) = PidFileOf(i)
          PROVE  Goto(i, "init") \/ Goto(i, "exited")
      <3>1. Named(PidFileOf(i)) = "empty" \/ (Named(PidFileOf(i)) = j /\ Alive(j))
        BY <1>0, <2>1 DEF Publishes, Alive
      <3> QED
        BY <1>6, <3>1 DEF check_pid_file
    <2>2. PICK p \in {"init", "exited", "remove"} : Goto(i, p)
      BY <1>6 DEF check_pid_file
    <2>3. phase'[i] = p
      BY <2>2, Gone
    <2>4. p = "remove" => \A j \in Instance \ {i} : Publishes(j) /\ ~moved /\ ~raced => PidFileOf(j) # PidFileOf(i)
      BY <2>1, <2>3, Gone
    <2> QED
      BY <1>2, <1>6, <2>2, <2>4 DEF check_pid_file
  <1>7. ASSUME NEW i \in Instance, cleanup_resources(i) PROVE FilesAreSafe'
    <2>1. i \in Bound
      BY <1>7 DEF cleanup_resources, Bound
    <2> QED
      BY <1>1, <1>2, <1>7, <2>1 DEF cleanup_resources
  <1>8. ASSUME NEW i \in Instance, Kill(i) PROVE FilesAreSafe'
    BY <1>2, <1>8 DEF Kill
  <1>9. ASSUME NEW i \in Instance, remove_stale_pid_file(i) \/ remove_pid_file(i) PROVE FilesAreSafe'
    <2>1. /\ phase[i] \in Removes /\ pid_files' = Unlinked(PidFileOf(i))
          /\ phase'[i] \in {"init", "stopped"} /\ \A j \in Instance \ {i} : phase'[j] = phase[j]
          /\ settings' = settings /\ moved' = moved /\ raced' = raced /\ daemon_mode' = daemon_mode
          /\ unwritten' = unwritten
      BY <1>9, Gone DEF remove_stale_pid_file, remove_pid_file
    <2>2. \A q : q # PidFileOf(i) => Named(q)' = Named(q)
      BY <2>1 DEF Named, Unlinked
    <2>3. ASSUME NEW j \in Instance, Publishes(j)', ~moved, ~raced PROVE Safe(j)'
      <3>1. j # i /\ Publishes(j)
        BY <2>1, <2>3 DEF Publishes, PidFileOf
      <3>2. Safe(j)
        BY <1>0, <2>3, <3>1
      <3>3. PidFileOf(j) # PidFileOf(i) /\ PidFileOf(j)' = PidFileOf(j)
        BY <2>1, <3>1, <3>2 DEF PidFileOf
      <3>4. Named(PidFileOf(j))' = Named(PidFileOf(j))
        BY <2>2, <3>3
      <3> QED
        BY <2>1, <3>1, <3>2, <3>4 DEF PidFileOf
    <2> QED
      BY <2>1, <2>3 DEF FilesAreSafe
  <1>10. ASSUME NEW i \in Instance, initialize_librale(i) PROVE FilesAreSafe'
    <2>1. phase'[i] \in {"create", "runs", "exited"} /\ (phase'[i] = "runs" => ~daemon_mode[i])
      BY <1>10, Gone DEF initialize_librale
    <2>2. \A j \in Instance \ {i} : phase'[j] = phase[j]
      BY <1>10, Gone DEF initialize_librale
    <2> QED
      BY <1>3, <1>10, <2>1, <2>2 DEF initialize_librale, Publishes
  <1>u. ASSUME NEW i \in Instance, RunsUnwritten(i), moved' = moved, raced' = raced, daemon_mode' = daemon_mode,
               settings' = settings, pid_files' = pid_files
        PROVE  FilesAreSafe'
    <2>1. /\ phase'[i] = "runs" /\ \A j \in Instance \ {i} : phase'[j] = phase[j]
          /\ unwritten' = unwritten \cup {i}
      BY <1>u, Gone DEF RunsUnwritten
    <2> QED
      BY <1>3, <1>u, <2>1 DEF Publishes
  <1>11. ASSUME NEW i \in Instance, create_pid_file(i), ~(RunsUnwritten(i) /\ pid_files' = pid_files) PROVE FilesAreSafe'
    <2>1. /\ phase[i] = "create" /\ phase'[i] = "fill" /\ \A j \in Instance \ {i} : phase'[j] = phase[j]
          /\ settings' = settings /\ moved' = moved /\ daemon_mode' = daemon_mode
          /\ unwritten' = unwritten
      BY <1>11, Gone DEF create_pid_file
    <2>2. \A q : Named(q)' = IF q = PidFileOf(i) THEN "empty" ELSE Named(q)
      BY <1>11 DEF create_pid_file, Named
    <2>3. ~raced' => ~raced /\ \A j \in Instance \ {i} : phase[j] \in Removes => PidFileOf(j) # PidFileOf(i)
      BY <1>11 DEF create_pid_file, PerProcess
    <2>4. \A j \in Instance : PidFileOf(j)' = PidFileOf(j)
      BY <2>1 DEF PidFileOf
    <2>5. ASSUME NEW j \in Instance, Publishes(j)', ~moved, ~raced' PROVE Safe(j)'
      <3>1. CASE j = i
        <4>1. Named(PidFileOf(i))' = "empty"
          BY <2>2, <2>4
        <4> QED
          BY <2>1, <2>3, <2>4, <2>5, <3>1, <4>1
      <3>2. CASE j # i
        <4>1. Publishes(j) /\ ~raced
          BY <2>1, <2>3, <2>4, <2>5, <3>2 DEF Publishes
        <4>2. Safe(j)
          BY <1>0, <2>5, <4>1
        <4>3. PidFileOf(j) # PidFileOf(i)
          BY <1>1, <2>1, <2>5, <3>2, <4>1 DEF Bound
        <4>4. Named(PidFileOf(j))' = Named(PidFileOf(j))
          BY <2>2, <2>4, <4>3
        <4> QED
          BY <2>1, <2>4, <3>2, <4>2, <4>4
      <3> QED
        BY <3>1, <3>2
    <2> QED
      BY <2>1, <2>5 DEF FilesAreSafe
  <1>12. ASSUME NEW i \in Instance, fill_pid_file(i), ~(RunsUnwritten(i) /\ pid_files' = pid_files) PROVE FilesAreSafe'
    <2>1. /\ phase[i] = "fill" /\ phase'[i] = "runs" /\ \A j \in Instance \ {i} : phase'[j] = phase[j]
          /\ settings' = settings /\ moved' = moved /\ raced' = raced /\ daemon_mode' = daemon_mode
          /\ unwritten' = unwritten
      BY <1>12, Gone DEF fill_pid_file
    <2>2. \A q : q # PidFileOf(i) => Named(q)' = Named(q)
      BY <1>12 DEF fill_pid_file, Named
    <2>3. Named(PidFileOf(i)) = "empty" => Named(PidFileOf(i))' = i
      BY <1>12, <2>1 DEF fill_pid_file, Named, PidFileOf
    <2>4. \A j \in Instance : PidFileOf(j)' = PidFileOf(j)
      BY <2>1 DEF PidFileOf
    <2>5. ASSUME NEW j \in Instance, Publishes(j)', ~moved, ~raced PROVE Safe(j)'
      <3>1. Publishes(j)
        BY <2>1, <2>4, <2>5 DEF Publishes
      <3>2. Safe(j)
        BY <1>0, <2>5, <3>1
      <3>3. CASE j = i
        BY <2>1, <2>3, <2>4, <3>2, <3>3
      <3>4. CASE j # i
        <4>1. PidFileOf(j) # PidFileOf(i)
          BY <1>1, <2>1, <2>5, <3>1, <3>4 DEF Bound
        <4>2. Named(PidFileOf(j))' = Named(PidFileOf(j))
          BY <2>2, <2>4, <4>1
        <4> QED
          BY <2>1, <2>4, <3>2, <3>4, <4>2
      <3> QED
        BY <3>3, <3>4
    <2> QED
      BY <2>1, <2>5 DEF FilesAreSafe
  <1>13. ASSUME NEW i \in Instance, reload(i) PROVE FilesAreSafe'
    <2>1. ~moved' => ~moved /\ \A j \in Instance : settings'[j].rale_port = settings[j].rale_port
      BY <1>13, PortsOfOthers DEF reload, PerProcess
    <2> QED
      BY <1>0, <1>13, <2>1 DEF reload, FilesAreSafe, Publishes, PidFileOf, Named
  <1>14. CASE EditConf \/ UNCHANGED settingsVars
    BY <1>14 DEF EditConf, settingsVars, FilesAreSafe, Publishes, PidFileOf, Named
  <1>15. ASSUME NEW i \in Instance, create_pid_file(i) \/ fill_pid_file(i) PROVE FilesAreSafe'
    <2>1. CASE RunsUnwritten(i) /\ pid_files' = pid_files
      <3>1. /\ moved' = moved /\ raced' = raced /\ daemon_mode' = daemon_mode
            /\ settings' = settings /\ pid_files' = pid_files
        BY <1>15, <2>1, Gone DEF create_pid_file, fill_pid_file, RunsUnwritten
      <3> QED
        BY <1>u, <2>1, <3>1
    <2> QED
      BY <1>11, <1>12, <1>15, <2>1
  <1> QED
    BY <1>4, <1>5, <1>6, <1>7, <1>8, <1>9, <1>10, <1>13, <1>14, <1>15 DEF SettingsNext

----------------------------------------------------------------------------
(* Settings: reading. *)

\* Settings and history of all processes but i stay.
LEMMA OthersKept ==
    ASSUME PerProcess, ReadsInStep, FileTakesEffect, NEW i \in Instance, NEW s, NEW r,
           NEW p, settings'[i] = s, read'[i] = r, phase'[i] = p, conf' = conf,
           \A j \in Instance \ {i} : settings'[j] = settings[j] /\ read'[j] = read[j] /\ phase'[j] = phase[j],
           s = [n \in Names |-> s[n]], r \in DOMAIN Conf \cup {"none"},
           p = "new" => r = "none", r # "none" => Effective(r, s)
    PROVE  ReadsInStep' /\ FileTakesEffect'
  <1>2. ReadsInStep'
    BY DEF ReadsInStep, Names
  <1>3. \A j \in Instance : read[j] # "none" => Effective(read[j], settings[j])
    BY DEF FileTakesEffect, Effective, Names
  <1>4. \A j \in Instance : read'[j] # "none" => Effective(read'[j], settings'[j])
    BY <1>3
  <1>5. FileTakesEffect'
    BY <1>4 DEF FileTakesEffect, Effective, Names
  <1> QED
    BY <1>2, <1>5

\* Settings are a function whose values are in a set, so that a file can be read into them.
LEMMA SettingsRead ==
    ASSUME NEW s, s = [n \in Names |-> s[n]], NEW c \in DOMAIN Conf
    PROVE  read_config(s, c) = [n \in Names |-> read_config(s, c)[n]] /\ Effective(c, read_config(s, c))
  <1>1. PICK V : V = {s[n] : n \in Names}
    OBVIOUS
  <1>2. s \in [Names -> V]
    BY <1>1
  <1>3. read_config(s, c) \in [Names -> Values(c, V)] /\ Effective(c, read_config(s, c))
    BY <1>2, ReadTakesEffect
  <1> QED
    BY <1>3

\* --verbose sets one setting.
LEMMA VerboseSet ==
    ASSUME NEW s, s = [n \in Names |-> s[n]]
    PROVE  LET t == guc_set(s, "raled_log_level", "debug") IN t = [n \in Names |-> t[n]]
  <1> DEFINE v == "debug"
             S == {s[n] : n \in Names} \cup {0, Meant("raled_log_level", v)}
  <1>1. s \in [Names -> S] /\ 0 \in S /\ Meant("raled_log_level", v) \in S
    OBVIOUS
  <1>2. "raled_log_level" \in Names
    BY TableTyped
  <1> HIDE DEF S, v
  <1>3. SetEntry(s, "raled_log_level", v) \in [Names -> S]
    BY <1>1, <1>2, EntrySet
  <1>4. Alias("raled_log_level") = "raled_log_level"
    BY DEF Alias
  <1>5. guc_set(s, "raled_log_level", v) = SetEntry(s, "raled_log_level", v)
    BY <1>2, <1>4 DEF guc_set, Names
  <1> QED
    BY <1>3, <1>5 DEF v

\* A step that changes neither settings nor what was read.
LEMMA ReadingKept ==
    ASSUME ReadsInStep, FileTakesEffect, settings' = settings, read' = read,
           conf' \in DOMAIN Conf \cup {"none"}, \A j \in Instance : phase'[j] = "new" => phase[j] = "new"
    PROVE  ReadsInStep' /\ FileTakesEffect'
  <1>1. ReadsInStep'
    BY DEF ReadsInStep
  <1>2. FileTakesEffect'
    BY DEF FileTakesEffect
  <1> QED
    BY <1>1, <1>2

\* Whatever is read, at start or after, takes effect.
LEMMA ReadingStep ==
    ASSUME PerProcess, ReadsInStep, FileTakesEffect, [SettingsNext]_settingsVars
    PROVE  ReadsInStep' /\ FileTakesEffect'
  <1>1. ASSUME NEW i \in Instance, NEW d \in BOOLEAN, NEW v \in BOOLEAN, parse_arguments(i, d, v)
        PROVE  ReadsInStep' /\ FileTakesEffect'
    <2>1. CASE conf = "none"
      <3>1. \A j \in Instance : phase'[j] = "new" => phase[j] = "new"
        BY <1>1, <2>1 DEF parse_arguments, Goto, PerProcess
      <3> QED
        BY <1>1, <2>1, <3>1, ReadingKept DEF parse_arguments, ReadsInStep
    <2>2. CASE conf # "none"
      <3>1. settings[i] = [n \in Names |-> settings[i][n]] /\ conf \in DOMAIN Conf
        BY <2>2 DEF ReadsInStep, Names
      <3>2. PICK s : /\ s = IF v THEN guc_set(settings[i], "raled_log_level", "debug") ELSE settings[i]
                     /\ settings' = [settings EXCEPT ![i] = read_config(s, conf)]
        BY <1>1, <2>2 DEF parse_arguments, PerProcess
      <3>3. s = [n \in Names |-> s[n]]
        BY <3>1, <3>2, VerboseSet
      <3>4. read_config(s, conf) = [n \in Names |-> read_config(s, conf)[n]] /\ Effective(conf, read_config(s, conf))
        BY <3>1, <3>3, SettingsRead
      <3>5. PICK p \in {"check", "init"} : phase' = [phase EXCEPT ![i] = p]
        BY <1>1, <2>2 DEF parse_arguments, Goto
      <3>6. read' = [read EXCEPT ![i] = conf] /\ conf' = conf
        BY <1>1, <2>2 DEF parse_arguments
      <3>7. /\ settings'[i] = read_config(s, conf) /\ read'[i] = conf /\ phase'[i] = p
            /\ \A j \in Instance \ {i} : settings'[j] = settings[j] /\ read'[j] = read[j] /\ phase'[j] = phase[j]
        BY <3>2, <3>5, <3>6 DEF PerProcess
      <3> QED
        BY <3>1, <3>4, <3>6, <3>7, OthersKept
    <2> QED
      BY <2>1, <2>2
  <1>2. ASSUME NEW i \in Instance, run_config_checks(i) PROVE ReadsInStep' /\ FileTakesEffect'
    <2>1. settings[i] = [n \in Names |-> settings[i][n]] /\ conf \in DOMAIN Conf /\ read[i] = "none"
      BY <1>2 DEF ReadsInStep, Names, run_config_checks
    <2>2. PICK s : s = read_config(settings[i], conf) /\ settings' = [settings EXCEPT ![i] = Completed(s)]
      BY <1>2 DEF run_config_checks
    <2>3. s = [n \in Names |-> s[n]]
      BY <2>1, <2>2, SettingsRead
    <2>4. PICK t : t = Completed(s)
      OBVIOUS
    <2>5. t = [n \in Names |-> t[n]]
      BY <2>3, <2>4 DEF Completed
    <2>6. PICK p \in {"failed", "passed"} : phase' = [phase EXCEPT ![i] = p]
      BY <1>2 DEF run_config_checks, Goto
    <2>7. read' = read /\ conf' = conf
      BY <1>2 DEF run_config_checks
    <2>8. /\ settings'[i] = t /\ read'[i] = "none" /\ phase'[i] = p
          /\ \A j \in Instance \ {i} : settings'[j] = settings[j] /\ read'[j] = read[j] /\ phase'[j] = phase[j]
      BY <2>1, <2>2, <2>4, <2>6, <2>7 DEF PerProcess
    <2> QED
      BY <2>5, <2>7, <2>8, OthersKept
  <1>3. ASSUME NEW i \in Instance, reload(i) PROVE ReadsInStep' /\ FileTakesEffect'
    <2>1. settings[i] = [n \in Names |-> settings[i][n]] /\ conf \in DOMAIN Conf
      BY <1>3 DEF ReadsInStep, Names, reload
    <2>2. PICK s : s = read_config(settings[i], conf) /\ settings' = [settings EXCEPT ![i] = s]
      BY <1>3 DEF reload
    <2>3. s = [n \in Names |-> s[n]] /\ Effective(conf, s)
      BY <2>1, <2>2, SettingsRead
    <2>4. /\ settings'[i] = s /\ read'[i] = conf /\ phase'[i] = "runs" /\ conf' = conf
          /\ \A j \in Instance \ {i} : settings'[j] = settings[j] /\ read'[j] = read[j] /\ phase'[j] = phase[j]
      BY <1>3, <2>2 DEF reload, PerProcess
    <2> QED
      BY <2>1, <2>3, <2>4, OthersKept
  <1>4. ASSUME NEW i \in Instance, check_pid_file(i) \/ remove_stale_pid_file(i) \/ initialize_librale(i)
                                    \/ create_pid_file(i) \/ fill_pid_file(i) \/ cleanup_resources(i)
                                    \/ remove_pid_file(i) \/ Kill(i)
        PROVE  ReadsInStep' /\ FileTakesEffect'
    <2>1. \E p : p # "new" /\ Goto(i, p)
      BY <1>4
      DEF check_pid_file, remove_stale_pid_file, initialize_librale, create_pid_file, fill_pid_file,
          RunsUnwritten, cleanup_resources, remove_pid_file, Kill
    <2>2. \A j \in Instance : phase'[j] = "new" => phase[j] = "new"
      BY <2>1 DEF Goto, PerProcess
    <2>3. settings' = settings /\ read' = read /\ conf' = conf
      BY <1>4
      DEF check_pid_file, remove_stale_pid_file, initialize_librale, create_pid_file, fill_pid_file,
          RunsUnwritten, cleanup_resources, remove_pid_file, Kill
    <2> QED
      BY <2>2, <2>3, ReadingKept DEF ReadsInStep
  <1>5. CASE EditConf \/ UNCHANGED settingsVars
    BY <1>5, ReadingKept DEF EditConf, settingsVars, ReadsInStep
  <1> QED
    BY <1>1, <1>2, <1>3, <1>4, <1>5 DEF SettingsNext

\* Nobody has read anything at first.
LEMMA ReadingStart == SettingsInit => ReadsInStep /\ FileTakesEffect
  <1> SUFFICES ASSUME SettingsInit PROVE ReadsInStep /\ FileTakesEffect
    OBVIOUS
  <1>1. \A i \in Instance : settings[i] = Unset /\ read[i] = "none"
    BY DEF SettingsInit
  <1> QED
    BY <1>1, SettingsAssumption DEF SettingsInit, ReadsInStep, FileTakesEffect, Unset

----------------------------------------------------------------------------
(* Settings: the theorems. *)

\* SettingsInvariant holds at the start and after every step.
LEMMA SettingsInvariantHolds == SettingsSpec => []SettingsInvariant
  <1>1. SettingsInit => SettingsInvariant
    BY SettingsStart, ReadingStart DEF SettingsInvariant
  <1>2. SettingsInvariant /\ [SettingsNext]_settingsVars => SettingsInvariant'
    BY PerProcessStep, PortsStep, FilesStep, NamesStep, ReadingStep DEF SettingsInvariant
  <1> QED
    BY <1>1, <1>2, PTL DEF SettingsSpec

\* For any processes, texts of the configuration file and kills: until a reload moves a port or a
\* process removes the file another one creates, a running daemon that could write its PID file has
\* it, naming itself, and one that stopped has left none (create_pid_file, fill_pid_file,
\* remove_pid_file of raled_main.c), though opening and writing the file may fail.
THEOREM PidFilesTrue == SettingsSpec => []PidFilesInStep
  <1>1. SettingsInvariant => PidFilesInStep
    BY DEF SettingsInvariant, FilesAreSafe, Publishes, NamesAreTrue, PidFilesInStep
  <1> QED
    BY SettingsInvariantHolds, <1>1, PTL

\* For every text of the configuration file, read at start or by a reload into whatever was set
\* before: the last valid line of a setting counts (read_config, guc_set), but for dstore_port
\* before rale_port.
THEOREM LastLineCounts == SettingsSpec => []FileTakesEffect
  <1>1. SettingsInvariant => FileTakesEffect
    BY DEF SettingsInvariant
  <1> QED
    BY SettingsInvariantHolds, <1>1, PTL
=============================================================================
