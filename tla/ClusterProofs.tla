---------------------------- MODULE ClusterProofs ----------------------------
(***************************************************************************)
(* The table of nodes and its state file, for any threads, ids and sizes:  *)
(* ids stay unique, a restart finds a complete save or nothing, and the    *)
(* file shows the table whenever no call is under way.                     *)
(***************************************************************************)
EXTENDS Cluster, SequenceTheorems, FiniteSetTheorems, WellFoundedInduction, TLAPS

----------------------------------------------------------------------------
(* Numbers and sets *)

\* A set of natural numbers has a least one.
LEMMA NatMin ==
    ASSUME NEW T, T \subseteq Nat, T # {}
    PROVE  \E x \in T : \A y \in T : x <= y
  <1>1. PICK R : R = OpToRel(<, Nat)
    OBVIOUS
  <1>2. \E x \in T : \A y \in T : ~(<<y, x>> \in R)
    BY <1>1, NatLessThanWellFounded, WFMin
  <1>3. \A x, y \in Nat : <<y, x>> \in R <=> y < x
    BY <1>1 DEF OpToRel
  <1>4. PICK x \in T : \A y \in T : ~(<<y, x>> \in R)
    BY <1>2
  <1>5. \A y \in T : ~(y < x)
    BY <1>3, <1>4, Zenon
  <1>6. \A y \in T : x <= y
    BY <1>5
  <1> QED
    BY <1>6

\* A set of positions has a last one.
LEMMA LastPosition ==
    ASSUME NEW n \in Nat, NEW I, I \subseteq 1..n, I # {}
    PROVE  \E i \in I : \A j \in I : j <= i
  <1>1. PICK T : T = {n - i : i \in I}
    OBVIOUS
  <1>2. T \subseteq Nat /\ T # {}
    <2>1. \A i \in I : n - i \in Nat
      OBVIOUS
    <2>2. PICK i \in I : TRUE
      OBVIOUS
    <2>3. n - i \in T
      BY <1>1
    <2> QED
      BY <1>1, <2>1, <2>3
  <1>3. PICK x \in T : \A y \in T : x <= y
    BY <1>2, NatMin
  <1>4. PICK i \in I : x = n - i
    BY <1>1, <1>3
  <1>5. \A j \in I : n - i <= n - j /\ i \in Int /\ j \in Int
    BY <1>1, <1>3, <1>4
  <1> QED
    BY <1>5

\* The bounds of the table.
LEMMA ClusterSizes ==
    /\ MAX_NODES \in Nat /\ MAX_NODES > 0 /\ NodeId \subseteq Int /\ SelfId \in NodeId
    /\ Slots \subseteq Nat /\ \A i \in Slots : i < MAX_NODES
  BY ClusterAssumption DEF Slots

----------------------------------------------------------------------------
(* What a file says *)

\* A field that is read from any file has the type of the lines of its key.
LEMMA FieldTyped ==
    ASSUME state_file \in Seq(FileLine)
    PROVE  /\ Field("self_id", -1) \in NodeId \cup {-1, 0}
           /\ Field("node_count", 0) \in 0..MAX_NODES
  <1>1. ASSUME NEW k, NEW d, Field(k, d) # d
        PROVE  \E l \in 1..Len(state_file) : state_file[l].key = k /\ Field(k, d) = state_file[l].value
    <2> DEFINE I == {i \in DOMAIN state_file : state_file[i].key = k}
    <2>1. DOMAIN state_file = 1..Len(state_file) /\ Len(state_file) \in Nat
      BY LenProperties
    <2>2. I # {}
      BY <1>1 DEF Field
    <2>3. \E i \in I : \A j \in I : j <= i
      BY <2>1, <2>2, LastPosition
    <2>4. Field(k, d) = state_file[CHOOSE i \in I : \A j \in I : j <= i].value
      BY <2>2 DEF Field
    <2>5. (CHOOSE i \in I : \A j \in I : j <= i) \in I
      BY <2>3
    <2> QED
      BY <2>1, <2>4, <2>5
  <1>2. \A l \in 1..Len(state_file) : state_file[l] \in FileLine
    BY ElementOfSeq
  <1>3. \A x \in FileLine : /\ x.key = "self_id" => x.value \in NodeId \cup {-1, 0}
                            /\ x.key = "node_count" => x.value \in 0..MAX_NODES
    BY DEF FileLine
  <1>4. Field("self_id", -1) \in NodeId \cup {-1, 0}
    BY <1>1, <1>2, <1>3
  <1>5. Field("node_count", 0) \in 0..MAX_NODES
    BY <1>1, <1>2, <1>3, ClusterSizes
  <1> QED
    BY <1>4, <1>5

\* The lines of a complete save.
LEMMA TextShape ==
    ASSUME NEW m \in Seq(MemberId), Len(m) <= MAX_NODES, NEW sid \in NodeId \cup {-1, 0}
    PROVE  /\ FileText(sid, m) \in Seq(FileLine)
           /\ Len(FileText(sid, m)) = Len(m) + 2
           /\ DOMAIN FileText(sid, m) = 1..(Len(m) + 2)
           /\ FileText(sid, m)[1] = Line("self_id", sid)
           /\ FileText(sid, m)[2] = Line("node_count", Len(m))
           /\ \A l \in 3..(Len(m) + 2) : FileText(sid, m)[l] = Line("node", m[l - 2])
  <1>0. Len(m) \in Nat /\ Len(m) + 2 \in Nat
    BY LenProperties
  <1>1. \A l \in 1..(Len(m) + 2) :
            FileText(sid, m)[l] = IF l = 1 THEN Line("self_id", sid)
                                  ELSE IF l = 2 THEN Line("node_count", Len(m))
                                  ELSE Line("node", m[l - 2])
    BY DEF FileText
  <1>2. \A l \in 3..(Len(m) + 2) : m[l - 2] \in MemberId
    BY <1>0, ElementOfSeq
  <1>3. /\ Line("self_id", sid) \in FileLine
        /\ Line("node_count", Len(m)) \in FileLine
        /\ \A x \in MemberId : Line("node", x) \in FileLine
    BY <1>0, ClusterSizes DEF Line, FileLine
  <1>4. \A l \in 1..(Len(m) + 2) : FileText(sid, m)[l] \in FileLine
    <2> SUFFICES ASSUME NEW l \in 1..(Len(m) + 2) PROVE FileText(sid, m)[l] \in FileLine
      OBVIOUS
    <2>1. CASE l \in {1, 2}
      BY <1>1, <1>3, <2>1
    <2>2. CASE l \notin {1, 2}
      <3>1. l \in 3..(Len(m) + 2)
        BY <1>0, <2>2
      <3> QED
        BY <1>1, <1>2, <1>3, <2>2, <3>1
    <2> QED
      BY <2>1, <2>2
  <1>5. FileText(sid, m) \in [1..(Len(m) + 2) -> FileLine]
    <2>1. FileText(sid, m) = [l \in 1..(Len(m) + 2) |-> FileText(sid, m)[l]]
      BY DEF FileText
    <2> QED
      BY <1>4, <2>1
  <1>6. FileText(sid, m) \in Seq(FileLine) /\ Len(FileText(sid, m)) = Len(m) + 2
    BY <1>0, <1>5
  <1> QED
    BY <1>0, <1>1, <1>5, <1>6

\* What is read from the file of a complete save.
LEMMA TextRead ==
    ASSUME NEW m \in Seq(MemberId), Len(m) <= MAX_NODES, NEW sid \in NodeId \cup {-1, 0},
           state_file = FileText(sid, m)
    PROVE  /\ Field("self_id", -1) = sid
           /\ Field("node_count", 0) = Len(m)
           /\ NodeLines = 3..(Len(m) + 2)
           /\ \A l \in 3..(Len(m) + 2) : node_index(l) = l - 3 /\ state_file[l].value = m[l - 2]
  <1>0. Len(m) \in Nat
    BY LenProperties
  <1>1. /\ DOMAIN state_file = 1..(Len(m) + 2)
        /\ state_file[1] = Line("self_id", sid) /\ state_file[2] = Line("node_count", Len(m))
        /\ \A l \in 3..(Len(m) + 2) : state_file[l] = Line("node", m[l - 2])
    BY TextShape
  <1>2. \A l \in 1..(Len(m) + 2) : l = 1 \/ l = 2 \/ l \in 3..(Len(m) + 2)
    BY <1>0
  <1>3. /\ state_file[1].key = "self_id" /\ state_file[1].value = sid
        /\ state_file[2].key = "node_count" /\ state_file[2].value = Len(m)
        /\ \A l \in 3..(Len(m) + 2) : state_file[l].key = "node" /\ state_file[l].value = m[l - 2]
    <2>1. \A k, v : Line(k, v).key = k /\ Line(k, v).value = v
      BY DEF Line
    <2> QED
      BY <1>1, <2>1
  <1>4. /\ {i \in DOMAIN state_file : state_file[i].key = "self_id"} = {1}
        /\ {i \in DOMAIN state_file : state_file[i].key = "node_count"} = {2}
    BY <1>0, <1>1, <1>2, <1>3
  <1>5. Field("self_id", -1) = sid
    <2>1. (CHOOSE i \in {1} : \A j \in {1} : j <= i) = 1
      OBVIOUS
    <2> QED
      BY <1>3, <1>4, <2>1 DEF Field
  <1>6. Field("node_count", 0) = Len(m)
    <2>1. (CHOOSE i \in {2} : \A j \in {2} : j <= i) = 2
      OBVIOUS
    <2> QED
      BY <1>3, <1>4, <2>1 DEF Field
  <1>7. NodeLines = 3..(Len(m) + 2)
    BY <1>0, <1>1, <1>2, <1>3 DEF NodeLines
  <1>8. ASSUME NEW l \in 3..(Len(m) + 2) PROVE node_index(l) = l - 3
    <2>1. {k \in NodeLines : k < l} = 3..(l - 1)
      BY <1>0, <1>7
    <2>2. Cardinality(3..(l - 1)) = IF 3 > l - 1 THEN 0 ELSE (l - 1) - 3 + 1
      BY FS_Interval
    <2>3. Cardinality(3..(l - 1)) = l - 3
      BY <1>0, <2>2
    <2> QED
      BY <2>1, <2>3 DEF node_index
  <1> QED
    BY <1>3, <1>5, <1>6, <1>7, <1>8

\* Nothing is read from an empty file.
LEMMA EmptyRead ==
    ASSUME state_file = <<>>
    PROVE  Field("self_id", -1) = -1 /\ Field("node_count", 0) = 0 /\ NodeLines = {}
  <1>1. DOMAIN state_file = {}
    OBVIOUS
  <1> QED
    BY <1>1 DEF Field, NodeLines

\* The table as a sequence.
LEMMA MembersShape ==
    ASSUME table \in [Slots -> MemberId], node_count \in 0..MAX_NODES
    PROVE  /\ Members \in Seq(MemberId) /\ Len(Members) = node_count
           /\ DOMAIN Members = 1..node_count
           /\ \A j \in 1..node_count : Members[j] = table[j - 1]
  <1>1. \A j \in 1..node_count : j - 1 \in Slots
    BY ClusterSizes DEF Slots
  <1>2. Members \in [1..node_count -> MemberId] /\ node_count \in Nat
    BY <1>1, ClusterSizes DEF Members
  <1> QED
    BY <1>2 DEF Members

\* Loading any file gives a table.
LEMMA LoadTyped ==
    ASSUME state_file \in Seq(FileLine), cluster_load_state
    PROVE  /\ table' \in [Slots -> MemberId]
           /\ node_count' \in 0..MAX_NODES
           /\ self_id' \in NodeId \cup {-1, 0}
  <1>1. \A l \in NodeLines : state_file[l].value \in MemberId
    <2> SUFFICES ASSUME NEW l \in NodeLines PROVE state_file[l].value \in MemberId
      OBVIOUS
    <2>1. state_file[l] \in FileLine /\ state_file[l].key = "node"
      BY LenProperties, ElementOfSeq DEF NodeLines
    <2> QED
      BY <2>1 DEF FileLine
  <1>2. 0 \in MemberId
    BY DEF MemberId
  <1>3. \A i \in Slots : (\E l \in NodeLines : node_index(l) = i) =>
            (CHOOSE l \in NodeLines : node_index(l) = i) \in NodeLines
    OBVIOUS
  <1>4. table' \in [Slots -> MemberId]
    BY <1>1, <1>2, <1>3 DEF cluster_load_state
  <1> QED
    BY <1>4, FieldTyped DEF cluster_load_state

\* Loading a complete save gives its members and its id; loading an empty file gives none.
LEMMA LoadFinds ==
    ASSUME cluster_load_state, NEW m \in Seq(MemberId), Len(m) <= MAX_NODES
    PROVE  /\ \A sid \in NodeId \cup {-1, 0} : state_file = FileText(sid, m) =>
                 self_id' = sid /\ node_count' = Len(m) /\ \A i \in 0..(Len(m) - 1) : table'[i] = m[i + 1]
           /\ state_file = <<>> => self_id' = -1 /\ node_count' = 0
  <1>1. ASSUME NEW sid \in NodeId \cup {-1, 0}, state_file = FileText(sid, m)
        PROVE  self_id' = sid /\ node_count' = Len(m) /\ \A i \in 0..(Len(m) - 1) : table'[i] = m[i + 1]
    <2>0. Len(m) \in Nat
      BY LenProperties
    <2>1. self_id' = sid /\ node_count' = Len(m)
      BY <1>1, TextRead DEF cluster_load_state
    <2>2. ASSUME NEW i \in 0..(Len(m) - 1) PROVE table'[i] = m[i + 1]
      <3>1. i \in Slots /\ i + 3 \in 3..(Len(m) + 2) /\ (i + 3) - 2 = i + 1
        BY <2>0, ClusterSizes DEF Slots
      <3>2. i + 3 \in NodeLines /\ node_index(i + 3) = i /\ state_file[i + 3].value = m[i + 1]
        BY <1>1, <3>1, TextRead
      <3>3. \A l \in NodeLines : node_index(l) = i => l = i + 3
        BY <1>1, TextRead
      <3>4. (CHOOSE l \in NodeLines : node_index(l) = i) = i + 3
        BY <3>2, <3>3
      <3>5. table'[i] = state_file[CHOOSE l \in NodeLines : node_index(l) = i].value
        BY <3>1, <3>2 DEF cluster_load_state
      <3> QED
        BY <3>2, <3>4, <3>5
    <2> QED
      BY <2>1, <2>2
  <1>2. state_file = <<>> => self_id' = -1 /\ node_count' = 0
    BY EmptyRead DEF cluster_load_state
  <1> QED
    BY <1>1, <1>2

----------------------------------------------------------------------------
(* Types *)

ClusterTypes == ClusterTypeOK /\ ThreadsTyped

\* The lines of a table in memory are lines of a file.
LEMMA LinesTyped ==
    ASSUME ClusterTypes
    PROVE  /\ Line("self_id", self_id) \in FileLine
           /\ Line("node_count", node_count) \in FileLine
           /\ \A i \in Slots : Line("node", table[i]) \in FileLine
           /\ \A text \in Seq(FileLine) : Written(text) \in Seq(FileLine)
  <1>1. Line("self_id", self_id) \in FileLine /\ Line("node_count", node_count) \in FileLine
    BY DEF ClusterTypes, ClusterTypeOK, Line, FileLine
  <1>2. \A i \in Slots : Line("node", table[i]) \in FileLine
    BY DEF ClusterTypes, ClusterTypeOK, Line, FileLine, MemberId
  <1>3. ASSUME NEW text \in Seq(FileLine) PROVE Written(text) \in Seq(FileLine)
    <2>1. state_file \in Seq(FileLine) /\ Len(text) \in Nat /\ Len(state_file) \in Nat
      BY LenProperties DEF ClusterTypes, ThreadsTyped
    <2>2. \A i \in (Len(text) + 1)..Len(state_file) : state_file[i] \in FileLine
      BY <2>1, ElementOfSeq
    <2>3. SubSeq(state_file, Len(text) + 1, Len(state_file)) \in Seq(FileLine)
      BY <2>1, <2>2, SubSeqProperties
    <2> QED
      BY <2>3, ConcatProperties DEF Written
  <1> QED
    BY <1>1, <1>2, <1>3

\* The steps of a save keep the types.
LEMMA SaveTyped ==
    ASSUME ClusterTypes, NEW t \in Thread, cluster_save_state(t) \/ SaveEntry(t) \/ SaveClose(t)
    PROVE  ClusterTypes'
  <1> USE DEF ClusterTypes
  <1>1. CASE cluster_save_state(t)
    <2>1. <<Line("self_id", self_id), Line("node_count", node_count)>> \in Seq(FileLine)
      BY LinesTyped
    <2>2. <<>> \in Seq(FileLine) /\ 0 \in 0..MAX_NODES
      BY ClusterSizes
    <2>3. out' \in [Thread -> Seq(FileLine)] /\ state_file' \in Seq(FileLine)
      BY <1>1, <2>1, <2>2 DEF cluster_save_state, ThreadsTyped
    <2>4. at' \in [Thread -> 0..MAX_NODES] /\ mixed' \in BOOLEAN /\ mutex' \in Thread \cup {Nobody}
      BY <1>1, <2>2 DEF cluster_save_state, ClusterTypeOK
    <2>7. behind' \in BOOLEAN /\ torn' \in BOOLEAN
      BY <1>1 DEF cluster_save_state, ClusterTypeOK
    <2>5. /\ pc' \in [Thread -> {"idle", "add", "remove", "self", "open", "save", "list"}]
          /\ \A u \in Thread : pc'[u] = pc[u] \/ pc'[u] \in {"idle", "save"}
      BY <1>1 DEF cluster_save_state, ClusterTypeOK
    <2>6. events' \in [{"io", "crash", "change"} -> Nat]
      BY <1>1 DEF cluster_save_state, Count, ThreadsTyped
    <2> QED
      BY <1>1, <2>3, <2>4, <2>5, <2>6, <2>7 DEF cluster_save_state, ClusterTypeOK, ThreadsTyped
  <1>2. CASE SaveEntry(t)
    <2>1. at[t] \in Slots /\ at[t] + 1 \in 0..MAX_NODES
      BY <1>2, ClusterSizes DEF SaveEntry, ClusterTypeOK, Slots
    <2>2. Append(out[t], Line("node", table[at[t]])) \in Seq(FileLine)
      BY <2>1, LinesTyped, AppendProperties DEF ThreadsTyped
    <2>3. out' \in [Thread -> Seq(FileLine)]
      BY <1>2, <2>2 DEF SaveEntry, ThreadsTyped
    <2> QED
      BY <1>2, <2>1, <2>3 DEF SaveEntry, ClusterTypeOK, ThreadsTyped
  <1>3. CASE SaveClose(t)
    <2>1. state_file' \in Seq(FileLine)
      <3>1. out[t] \in Seq(FileLine) /\ Len(out[t]) \in Nat
        BY LenProperties DEF ThreadsTyped
      <3>2. ASSUME NEW n \in 0..(Len(out[t]) - 1) PROVE SubSeq(out[t], 1, n) \in Seq(FileLine)
        <4>1. \A i \in 1..n : out[t][i] \in FileLine
          BY <3>1, ElementOfSeq
        <4> QED
          BY <3>1, <4>1, SubSeqProperties
      <3> QED
        BY <1>3, <3>1, <3>2, LinesTyped DEF SaveClose
    <2>4. events' \in [{"io", "crash", "change"} -> Nat]
      BY <1>3 DEF SaveClose, Count, ThreadsTyped
    <2>5. behind' \in BOOLEAN /\ torn' \in BOOLEAN
      BY <1>3 DEF SaveClose
    <2>2. out' \in [Thread -> Seq(FileLine)]
      BY <1>3 DEF SaveClose, ThreadsTyped
    <2>3. /\ pc' \in [Thread -> {"idle", "add", "remove", "self", "open", "save", "list"}]
          /\ \A u \in Thread : pc'[u] = pc[u] \/ pc'[u] = "idle"
          /\ mutex' \in Thread \cup {Nobody}
      BY <1>3 DEF SaveClose, ClusterTypeOK
    <2> QED
      BY <1>3, <2>1, <2>2, <2>3, <2>4, <2>5 DEF SaveClose, ClusterTypeOK, ThreadsTyped
  <1> QED
    BY <1>1, <1>2, <1>3

\* The steps that change the table keep the types.
LEMMA ChangeTyped ==
    ASSUME ClusterTypes, NEW t \in Thread,
           cluster_add_node(t) \/ cluster_remove_node(t) \/ cluster_set_self_id(t)
    PROVE  ClusterTypes'
  <1> USE DEF ClusterTypes
  <1>0. /\ (Saving # {}) \in BOOLEAN
        /\ 0 \in NodeId \cup {0} /\ node_count \in Nat /\ node_count <= MAX_NODES
    BY ClusterSizes DEF ClusterTypeOK
  <1>1. CASE cluster_add_node(t)
    <2>1. /\ pc' \in [Thread -> {"idle", "add", "remove", "self", "open", "save", "list"}]
          /\ \A u \in Thread : pc'[u] = pc[u] \/ pc'[u] \in {"idle", "open"}
          /\ mutex' \in Thread \cup {Nobody}
      BY <1>1 DEF cluster_add_node, Refused, Changed, ClusterTypeOK
    <2>2. mixed' \in BOOLEAN /\ shrunk' = shrunk
      BY <1>0, <1>1 DEF cluster_add_node, Refused, Changed, ClusterTypeOK
    <2>3. table' \in [Slots -> NodeId \cup {0}] /\ node_count' \in 0..MAX_NODES
      <3>1. CASE arg[t] \in Ids \/ node_count >= MAX_NODES
        BY <1>1, <3>1 DEF cluster_add_node, Refused, ClusterTypeOK
      <3>2. CASE ~(arg[t] \in Ids \/ node_count >= MAX_NODES)
        <4>1. node_count \in Slots /\ node_count + 1 \in 0..MAX_NODES /\ arg[t] \in NodeId
          BY <1>0, <1>1, <3>2, ClusterSizes DEF Slots, cluster_add_node, ThreadsTyped
        <4> QED
          BY <1>1, <3>2, <4>1 DEF cluster_add_node, ClusterTypeOK
      <3> QED
        BY <3>1, <3>2
    <2> QED
      BY <1>1, <2>1, <2>2, <2>3 DEF cluster_add_node, ClusterTypeOK, ThreadsTyped
  <1>2. CASE cluster_remove_node(t)
    <2>1. /\ pc' \in [Thread -> {"idle", "add", "remove", "self", "open", "save", "list"}]
          /\ \A u \in Thread : pc'[u] = pc[u] \/ pc'[u] \in {"idle", "open"}
          /\ mutex' \in Thread \cup {Nobody}
      BY <1>2 DEF cluster_remove_node, Refused, Changed, ClusterTypeOK
    <2>2. mixed' \in BOOLEAN /\ shrunk' \in [Thread -> BOOLEAN]
      BY <1>0, <1>2 DEF cluster_remove_node, Refused, Changed, ClusterTypeOK, ThreadsTyped
    <2>3. table' \in [Slots -> NodeId \cup {0}] /\ node_count' \in 0..MAX_NODES
      <3>1. CASE arg[t] \notin Ids
        BY <1>2, <3>1 DEF cluster_remove_node, Refused, ClusterTypeOK
      <3>2. CASE arg[t] \in Ids
        <4>1. node_count > 0 /\ node_count - 1 \in 0..MAX_NODES
          BY <1>0, <3>2, ClusterSizes DEF Ids
        <4>2. \A i \in Int, j \in Slots : j \in i..(node_count - 2) => j + 1 \in Slots
          BY <1>0, ClusterSizes DEF Slots
        <4>3. PICK i : /\ i = CHOOSE k \in 0..(node_count - 1) :
                               table[k] = arg[t] /\ \A j \in 0..(k - 1) : table[j] # arg[t]
                       /\ table' = [j \in Slots |-> IF j \in i..(node_count - 2) THEN table[j + 1] ELSE table[j]]
                       /\ node_count' = node_count - 1
          BY <1>2, <3>2 DEF cluster_remove_node
        <4>4. \A j \in Slots : j \in i..(node_count - 2) => j + 1 \in Slots
          BY <1>0, ClusterSizes DEF Slots
        <4> QED
          BY <4>1, <4>3, <4>4 DEF ClusterTypeOK
      <3> QED
        BY <3>1, <3>2
    <2> QED
      BY <1>2, <2>1, <2>2, <2>3 DEF cluster_remove_node, ClusterTypeOK, ThreadsTyped
  <1>3. CASE cluster_set_self_id(t)
    <2>1. /\ pc' \in [Thread -> {"idle", "add", "remove", "self", "open", "save", "list"}]
          /\ \A u \in Thread : pc'[u] = pc[u] \/ pc'[u] = "open"
          /\ mixed' \in BOOLEAN /\ self_id' \in NodeId
      BY <1>0, <1>3 DEF cluster_set_self_id, ClusterTypeOK, ThreadsTyped
    <2> QED
      BY <1>3, <2>1 DEF cluster_set_self_id, ClusterTypeOK, ThreadsTyped
  <1> QED
    BY <1>1, <1>2, <1>3

\* The calls and the listings keep the types.
LEMMA ThreadTyped ==
    ASSUME ClusterTypes, NEW t \in Thread,
           \/ \E op \in {"add", "remove", "self"}, id \in NodeId : Call(t, op, id)
           \/ cluster_get_node_count(t) \/ handle_list_command(t) \/ ListEnds(t)
    PROVE  ClusterTypes'
  <1> USE DEF ClusterTypes
  <1>1. ASSUME NEW op \in {"add", "remove", "self"}, NEW id \in NodeId, Call(t, op, id) PROVE ClusterTypes'
    <2>1. id \in Int /\ arg' = [arg EXCEPT ![t] = id] /\ pc' = [pc EXCEPT ![t] = op]
      BY <1>1, ClusterSizes DEF Call
    <2>2. events' \in [{"io", "crash", "change"} -> Nat]
      BY <1>1 DEF Call, Count, ThreadsTyped
    <2>3. pc' \in [Thread -> {"idle", "add", "remove", "self", "open", "save", "list"}] /\ arg' \in [Thread -> Int]
      BY <2>1 DEF ClusterTypeOK, ThreadsTyped
    <2>4. \A u \in Thread : /\ pc'[u] \in {"add", "remove", "self"} => arg'[u] \in NodeId
                            /\ pc'[u] = "list" => arg'[u] \in 0..MAX_NODES
      BY <2>1 DEF ClusterTypeOK, ThreadsTyped
    <2> QED
      BY <1>1, <2>2, <2>3, <2>4 DEF Call, ClusterTypeOK, ThreadsTyped
  <1>2. CASE cluster_get_node_count(t)
    <2>1. node_count \in Int /\ node_count \in 0..MAX_NODES /\ 0 \in 0..MAX_NODES
      BY ClusterSizes DEF ClusterTypeOK
    <2>2. Ids \subseteq MemberId
      BY MembersShape, ElementOfSeq DEF Ids, ClusterTypeOK, MemberId
    <2>3. /\ pc' \in [Thread -> {"idle", "add", "remove", "self", "open", "save", "list"}]
          /\ arg' \in [Thread -> Int] /\ at' \in [Thread -> 0..MAX_NODES]
          /\ \A u \in Thread : /\ pc'[u] \in {"add", "remove", "self"} => arg'[u] \in NodeId
                               /\ pc'[u] = "list" => arg'[u] \in 0..MAX_NODES
      BY <1>2, <2>1 DEF cluster_get_node_count, ClusterTypeOK, ThreadsTyped
    <2>4. /\ listing' \in [Thread -> Seq(MemberId)] /\ before' \in [Thread -> SUBSET MemberId]
          /\ shrunk' \in [Thread -> BOOLEAN]
      BY <1>2, <2>2 DEF cluster_get_node_count, ThreadsTyped
    <2> QED
      BY <1>2, <2>3, <2>4 DEF cluster_get_node_count, ClusterTypeOK, ThreadsTyped
  <1>3. CASE handle_list_command(t)
    <2>1. at[t] + 1 \in 0..MAX_NODES /\ at[t] \in Nat
      BY <1>3, ClusterSizes DEF handle_list_command, ClusterTypeOK, ThreadsTyped
    <2>2. cluster_get_node_by_index(at[t]) \in Seq(MemberId)
      <3>1. CASE at[t] >= node_count
        BY <3>1 DEF cluster_get_node_by_index
      <3>2. CASE ~(at[t] >= node_count)
        <4>1. at[t] \in Slots /\ table[at[t]] \in MemberId
          BY <2>1, <3>2, ClusterSizes DEF Slots, ClusterTypeOK, MemberId
        <4> QED
          BY <3>2, <4>1 DEF cluster_get_node_by_index
      <3> QED
        BY <3>1, <3>2
    <2>3. listing[t] \o cluster_get_node_by_index(at[t]) \in Seq(MemberId)
      BY <2>2, ConcatProperties DEF ThreadsTyped
    <2>4. listing' \in [Thread -> Seq(MemberId)] /\ at' \in [Thread -> 0..MAX_NODES]
      BY <1>3, <2>1, <2>3 DEF handle_list_command, ClusterTypeOK, ThreadsTyped
    <2> QED
      BY <1>3, <2>4 DEF handle_list_command, ClusterTypeOK, ThreadsTyped
  <1>4. CASE ListEnds(t)
    <2>1. /\ pc' \in [Thread -> {"idle", "add", "remove", "self", "open", "save", "list"}]
          /\ \A u \in Thread : pc'[u] = pc[u] \/ pc'[u] = "idle"
      BY <1>4 DEF ListEnds, ClusterTypeOK
    <2> QED
      BY <1>4, <2>1 DEF ListEnds, ClusterTypeOK, ThreadsTyped
  <1> QED
    BY <1>1, <1>2, <1>3, <1>4

\* A table that memset has cleared.
LEMMA ClearedTyped ==
    ASSUME Cleared
    PROVE  /\ table' \in [Slots -> MemberId] /\ node_count' \in 0..MAX_NODES
           /\ node_count' = 0
  BY ClusterSizes DEF Cleared, MemberId

\* Starting, stopping and crashing keep the types.
LEMMA ProcessTyped ==
    ASSUME ClusterTypes, cluster_set_state_file \/ cluster_init \/ cluster_finit \/ ClusterCrash
    PROVE  ClusterTypes'
  <1> USE DEF ClusterTypes
  <1>1. CASE cluster_set_state_file
    BY <1>1 DEF cluster_set_state_file, threadVars, ClusterTypeOK, ThreadsTyped
  <1>2. CASE cluster_init
    <2>1. /\ table' \in [Slots -> NodeId \cup {0}] /\ node_count' \in 0..MAX_NODES
          /\ self_id' \in NodeId \cup {-1, 0}
      <3>1. CASE has_path
        BY <1>2, <3>1, LoadTyped DEF cluster_init, ThreadsTyped, MemberId
      <3>2. CASE ~has_path
        BY <1>2, <3>2, ClearedTyped DEF cluster_init, MemberId
      <3> QED
        BY <3>1, <3>2
    <2> QED
      BY <1>2, <2>1 DEF cluster_init, threadVars, ClusterTypeOK, ThreadsTyped
  <1>3. CASE cluster_finit
    BY <1>3, ClearedTyped DEF cluster_finit, threadVars, ClusterTypeOK, ThreadsTyped, MemberId
  <1>4. CASE ClusterCrash
    <2>1. table' \in [Slots -> NodeId \cup {0}] /\ node_count' \in 0..MAX_NODES
      BY <1>4, ClearedTyped DEF ClusterCrash, MemberId
    <2>2. events' \in [{"io", "crash", "change"} -> Nat]
      BY <1>4 DEF ClusterCrash, Count, ThreadsTyped
    <2>3. /\ 0 \in 0..MAX_NODES /\ <<>> \in Seq(FileLine) /\ <<>> \in Seq(MemberId)
      BY ClusterSizes
    <2>4. /\ pc' \in [Thread -> {"idle", "add", "remove", "self", "open", "save", "list"}]
          /\ at' \in [Thread -> 0..MAX_NODES] /\ arg' \in [Thread -> Int]
          /\ \A u \in Thread : pc'[u] = "idle"
      BY <1>4, <2>3 DEF ClusterCrash
    <2>5. /\ out' \in [Thread -> Seq(FileLine)] /\ listing' \in [Thread -> Seq(MemberId)]
          /\ before' \in [Thread -> SUBSET MemberId] /\ shrunk' \in [Thread -> BOOLEAN]
      BY <1>4, <2>3 DEF ClusterCrash
    <2> QED
      BY <1>4, <2>1, <2>2, <2>4, <2>5 DEF ClusterCrash, ClusterTypeOK, ThreadsTyped
  <1> QED
    BY <1>1, <1>2, <1>3, <1>4

\* Every step keeps the types.
LEMMA ClusterTypesStep ==
    ASSUME ClusterTypes, [ClusterNext]_clusterVars
    PROVE  ClusterTypes'
  <1>1. CASE UNCHANGED clusterVars
    BY <1>1 DEF clusterVars, threadVars, ClusterTypes, ClusterTypeOK, ThreadsTyped
  <1> QED
    BY <1>1, ProcessTyped, ThreadTyped, ChangeTyped, SaveTyped DEF ClusterNext

\* The first state has its types.
LEMMA ClusterTypesInit == ClusterInit => ClusterTypes
  <1> SUFFICES ASSUME ClusterInit PROVE ClusterTypes
    OBVIOUS
  <1>1. 0 \in 0..MAX_NODES /\ <<>> \in Seq(FileLine) /\ <<>> \in Seq(MemberId)
    BY ClusterSizes
  <1>2. ClusterTypeOK
    BY <1>1 DEF ClusterInit, ClusterTypeOK
  <1>3. out \in [Thread -> Seq(FileLine)] /\ listing \in [Thread -> Seq(MemberId)]
    BY <1>1 DEF ClusterInit
  <1>4. before \in [Thread -> SUBSET MemberId] /\ shrunk \in [Thread -> BOOLEAN] /\ arg \in [Thread -> Int]
    BY DEF ClusterInit
  <1>5. ThreadsTyped
    BY <1>1, <1>3, <1>4 DEF ClusterInit, ThreadsTyped
  <1> QED
    BY <1>2, <1>5 DEF ClusterTypes

\* For any threads, ids and sizes, whatever the file holds: the table, its count and the own id are
\* within their bounds.
THEOREM ClusterTypeCorrect == ClusterSpec => []ClusterTypeOK
  <1>1. ClusterTypes => ClusterTypeOK
    BY DEF ClusterTypes
  <1> QED
    BY <1>1, ClusterTypesInit, ClusterTypesStep, PTL DEF ClusterSpec

----------------------------------------------------------------------------
(* Unique ids *)

\* What has once been mixed stays so.
LEMMA MixedStays ==
    ASSUME ClusterTypes, ClusterNext, ~mixed'
    PROVE  ~mixed
  <1>1. mixed \in BOOLEAN
    BY DEF ClusterTypes, ClusterTypeOK
  <1>2. \A t \in Thread : ~cluster_add_node(t) \/ ~mixed
    BY <1>1 DEF cluster_add_node, Refused, Changed
  <1>3. \A t \in Thread : ~cluster_remove_node(t) \/ ~mixed
    BY <1>1 DEF cluster_remove_node, Refused, Changed
  <1>4. \A t \in Thread : ~cluster_set_self_id(t) \/ ~mixed
    BY <1>1 DEF cluster_set_self_id
  <1>5. \A t \in Thread : ~cluster_save_state(t) \/ ~mixed
    BY <1>1 DEF cluster_save_state
  <1>6. \A t \in Thread : ~(SaveEntry(t) \/ SaveClose(t)) \/ ~mixed
    BY DEF SaveEntry, SaveClose
  <1>7. \A t \in Thread, op \in {"add", "remove", "self"}, id \in NodeId : ~Call(t, op, id) \/ ~mixed
    BY DEF Call
  <1>8. \A t \in Thread : ~(cluster_get_node_count(t) \/ handle_list_command(t) \/ ListEnds(t)) \/ ~mixed
    BY DEF cluster_get_node_count, handle_list_command, ListEnds
  <1>9. ~(cluster_set_state_file \/ cluster_init \/ cluster_finit \/ ClusterCrash) \/ ~mixed
    BY <1>1 DEF cluster_set_state_file, cluster_init, cluster_finit, ClusterCrash
  <1> QED
    BY <1>2, <1>3, <1>4, <1>5, <1>6, <1>7, <1>8, <1>9 DEF ClusterNext

\* What a refused call, a save or a listing leaves alone, and a change does to the table.
LEMMA AddsOne ==
    ASSUME ClusterTypes, NEW t \in Thread, cluster_add_node(t)
    PROVE  \/ Refused(t)
           \/ /\ arg[t] \notin Ids /\ node_count < MAX_NODES /\ node_count \in Slots /\ Changed(t)
              /\ node_count' = node_count + 1
              /\ table'[node_count] = arg[t]
              /\ \A j \in 0..(node_count - 1) : table'[j] = table[j]
              /\ shrunk' = shrunk
  <1>1. node_count \in Nat /\ table \in [Slots -> MemberId]
    BY ClusterSizes DEF ClusterTypes, ClusterTypeOK, MemberId
  <1>2. CASE Refused(t)
    BY <1>2
  <1>3. CASE ~Refused(t)
    <2>1. /\ arg[t] \notin Ids /\ ~(node_count >= MAX_NODES) /\ Changed(t)
          /\ table' = [table EXCEPT ![node_count] = arg[t]] /\ node_count' = node_count + 1
          /\ shrunk' = shrunk
      BY <1>3 DEF cluster_add_node
    <2>2. node_count < MAX_NODES /\ node_count \in Slots
      BY <1>1, <2>1, ClusterSizes DEF Slots
    <2>3. \A j \in 0..(node_count - 1) : j \in Slots /\ j # node_count
      BY <1>1, <2>2, ClusterSizes DEF Slots
    <2> QED
      BY <1>1, <2>1, <2>2, <2>3
  <1> QED
    BY <1>2, <1>3

\* A removal closes the gap.
LEMMA RemovesOne ==
    ASSUME ClusterTypes, NEW t \in Thread, cluster_remove_node(t)
    PROVE  \/ Refused(t)
           \/ /\ Changed(t) /\ node_count' = node_count - 1
              /\ \E i \in 0..(node_count - 1) :
                    \A j \in 0..(node_count - 2) : table'[j] = IF j < i THEN table[j] ELSE table[j + 1]
              /\ shrunk' = [u \in Thread |-> TRUE]
  <1>1. node_count \in 0..MAX_NODES /\ table \in [Slots -> MemberId]
    BY DEF ClusterTypes, ClusterTypeOK, MemberId
  <1>2. CASE Refused(t)
    BY <1>2
  <1>3. CASE ~Refused(t)
    <2>1. arg[t] \in Ids
      BY <1>3 DEF cluster_remove_node
    <2>2. PICK i : /\ i = CHOOSE k \in 0..(node_count - 1) :
                           table[k] = arg[t] /\ \A j \in 0..(k - 1) : table[j] # arg[t]
                   /\ table' = [j \in Slots |-> IF j \in i..(node_count - 2) THEN table[j + 1] ELSE table[j]]
                   /\ node_count' = node_count - 1 /\ Changed(t) /\ shrunk' = [u \in Thread |-> TRUE]
      BY <2>1 DEF cluster_remove_node
    <2>3. \E k \in 0..(node_count - 1) : table[k] = arg[t] /\ \A j \in 0..(k - 1) : table[j] # arg[t]
      <3> DEFINE T == {k \in 0..(node_count - 1) : table[k] = arg[t]}
      <3>1. T \subseteq Nat
        BY <1>1
      <3>2. T # {}
        <4>1. PICK j \in 1..node_count : Members[j] = arg[t]
          BY <2>1 DEF Ids
        <4>2. j - 1 \in 0..(node_count - 1) /\ table[j - 1] = arg[t]
          BY <1>1, <4>1, MembersShape
        <4> QED
          BY <4>2
      <3>3. PICK k \in T : \A y \in T : k <= y
        <4> HIDE DEF T
        <4> QED
          BY <3>1, <3>2, NatMin
      <3>4. \A j \in 0..(k - 1) : table[j] # arg[t]
        BY <1>1, <3>3
      <3> QED
        BY <3>3, <3>4
    <2>4. i \in 0..(node_count - 1)
      BY <2>2, <2>3
    <2>5. ASSUME NEW j \in 0..(node_count - 2) PROVE table'[j] = IF j < i THEN table[j] ELSE table[j + 1]
      <3>1. j \in Slots /\ (j \in i..(node_count - 2) <=> ~(j < i))
        BY <1>1, <2>4, ClusterSizes DEF Slots
      <3> QED
        BY <2>2, <3>1
    <2> QED
      BY <2>2, <2>4, <2>5
  <1> QED
    BY <1>2, <1>3

\* Every step keeps the ids unique.
LEMMA UniqueIdsStep ==
    ASSUME ClusterTypes, UniqueIds, FileIsASave, ClusterNext
    PROVE  UniqueIds'
  <1> SUFFICES ASSUME ~mixed' PROVE \A i, j \in 0..(node_count' - 1) : table'[i] = table'[j] => i = j
    BY DEF UniqueIds
  <1>1. ~mixed /\ node_count \in 0..MAX_NODES /\ table \in [Slots -> MemberId]
    BY MixedStays DEF ClusterTypes, ClusterTypeOK, MemberId
  <1>2. \A i, j \in 0..(node_count - 1) : table[i] = table[j] => i = j
    BY <1>1 DEF UniqueIds
  <1>3. CASE table' = table /\ node_count' = node_count
    BY <1>2, <1>3
  <1>4. CASE Cleared
    BY <1>4 DEF Cleared
  <1>5. ASSUME NEW t \in Thread, cluster_add_node(t)
        PROVE  \A i, j \in 0..(node_count' - 1) : table'[i] = table'[j] => i = j
    <2>1. CASE Refused(t)
      BY <1>3, <2>1 DEF Refused
    <2>2. CASE ~Refused(t)
      <3>1. /\ arg[t] \notin Ids /\ node_count' = node_count + 1 /\ table'[node_count] = arg[t]
            /\ \A j \in 0..(node_count - 1) : table'[j] = table[j]
        BY <1>5, <2>2, AddsOne
      <3>2. \A j \in 0..(node_count - 1) : table[j] # arg[t]
        <4> SUFFICES ASSUME NEW j \in 0..(node_count - 1) PROVE table[j] \in Ids
          BY <3>1
        <4>1. j + 1 \in 1..node_count /\ Members[j + 1] = table[j]
          BY <1>1, MembersShape
        <4> QED
          BY <4>1 DEF Ids
      <3>3. \A i \in 0..(node_count' - 1) : i = node_count \/ i \in 0..(node_count - 1)
        BY <1>1, <3>1
      <3> QED
        BY <1>2, <3>1, <3>2, <3>3
    <2> QED
      BY <2>1, <2>2
  <1>6. ASSUME NEW t \in Thread, cluster_remove_node(t)
        PROVE  \A i, j \in 0..(node_count' - 1) : table'[i] = table'[j] => i = j
    <2>1. CASE Refused(t)
      BY <1>3, <2>1 DEF Refused
    <2>2. CASE ~Refused(t)
      <3>1. node_count' = node_count - 1
        BY <1>6, <2>2, RemovesOne
      <3>2. PICK i \in 0..(node_count - 1) :
                 \A j \in 0..(node_count - 2) : table'[j] = IF j < i THEN table[j] ELSE table[j + 1]
        BY <1>6, <2>2, RemovesOne
      <3> SUFFICES ASSUME NEW a \in 0..(node_count' - 1), NEW b \in 0..(node_count' - 1), table'[a] = table'[b]
                   PROVE  a = b
        OBVIOUS
      <3>3. /\ a \in 0..(node_count - 2) /\ b \in 0..(node_count - 2)
            /\ {a, b, a + 1, b + 1} \subseteq 0..(node_count - 1)
        BY <1>1, <3>1
      <3>4. (IF a < i THEN table[a] ELSE table[a + 1]) = (IF b < i THEN table[b] ELSE table[b + 1])
        BY <3>2, <3>3
      <3>5. (IF a < i THEN a ELSE a + 1) = (IF b < i THEN b ELSE b + 1)
        BY <1>2, <3>3, <3>4
      <3> QED
        BY <3>3, <3>5
    <2> QED
      BY <2>1, <2>2
  <1>7. CASE cluster_init
    <2>1. CASE ~has_path
      BY <1>4, <1>7, <2>1 DEF cluster_init
    <2>2. CASE has_path
      <3>1. cluster_load_state /\ saved \in Seq(MemberId) /\ Len(saved) <= MAX_NODES /\ Len(saved) \in Nat
        BY <1>1, <1>7, <2>2, LenProperties DEF cluster_init, FileIsASave
      <3>2. CASE state_file = <<>>
        BY <3>1, <3>2, LoadFinds
      <3>3. CASE state_file # <<>>
        <4>0. ~torn
          BY <1>7, <2>2 DEF cluster_init, ClusterTypes, ClusterTypeOK
        <4>1. PICK sid \in NodeId \cup {-1, 0} : state_file = FileText(sid, saved)
          BY <1>1, <3>3, <4>0 DEF FileIsASave
        <4>2. node_count' = Len(saved) /\ \A i \in 0..(Len(saved) - 1) : table'[i] = saved[i + 1]
          BY <3>1, <4>1, LoadFinds
        <4>3. \A i, j \in 1..Len(saved) : saved[i] = saved[j] => i = j
          BY <1>1, <3>1, LenProperties DEF FileIsASave
        <4>4. \A i \in 0..(Len(saved) - 1) : i + 1 \in 1..Len(saved)
          BY <3>1
        <4> QED
          BY <4>2, <4>3, <4>4
      <3> QED
        BY <3>2, <3>3
    <2> QED
      BY <2>1, <2>2
  <1>8. CASE cluster_finit \/ ClusterCrash
    BY <1>4, <1>8 DEF cluster_finit, ClusterCrash
  <1>9. CASE cluster_set_state_file
    BY <1>3, <1>9 DEF cluster_set_state_file
  <1>10. ASSUME NEW t \in Thread, NEW op \in {"add", "remove", "self"}, NEW id \in NodeId, Call(t, op, id)
         PROVE  \A i, j \in 0..(node_count' - 1) : table'[i] = table'[j] => i = j
    BY <1>3, <1>10 DEF Call
  <1>11. ASSUME NEW t \in Thread,
                \/ cluster_set_self_id(t) \/ cluster_save_state(t) \/ SaveEntry(t) \/ SaveClose(t)
                \/ cluster_get_node_count(t) \/ handle_list_command(t) \/ ListEnds(t)
         PROVE  \A i, j \in 0..(node_count' - 1) : table'[i] = table'[j] => i = j
    BY <1>3, <1>11 DEF cluster_set_self_id, cluster_save_state, SaveEntry, SaveClose, cluster_get_node_count,
                       handle_list_command, ListEnds
  <1> QED
    BY <1>5, <1>6, <1>7, <1>8, <1>9, <1>10, <1>11 DEF ClusterNext

----------------------------------------------------------------------------
(* The file is a save *)

\* A step that starts no save and leaves the table, the file and the savers' lines alone.
LEMMA SaversLeftAlone ==
    ASSUME FileIsASave, ~mixed, Saving' \subseteq Saving,
           UNCHANGED <<table, node_count, self_id, state_file, saved, torn>>,
           \A t \in Saving' : at'[t] = at[t] /\ out'[t] = out[t]
    PROVE  FileIsASave'
  <1>1. Members' = Members
    BY DEF Members
  <1>2. \A t \in Saving' : SaverInStep(t)
    BY DEF FileIsASave
  <1>3. FileText(self_id, Members)' = FileText(self_id, Members)
    BY <1>1 DEF FileText
  <1>4. \A t \in Saving' : SaverInStep(t)'
    BY <1>2, <1>3 DEF SaverInStep
  <1>5. (\E sid \in NodeId \cup {-1, 0} : state_file = FileText(sid, saved)) =>
            (\E sid \in NodeId \cup {-1, 0} : state_file = FileText(sid, saved))'
    BY DEF FileText
  <1> QED
    BY <1>4, <1>5 DEF FileIsASave

\* A step that leaves the file alone, when nobody saves.
LEMMA NobodySaves ==
    ASSUME FileIsASave, ~mixed, Saving' = {}, UNCHANGED <<state_file, saved, torn>>
    PROVE  FileIsASave'
  BY DEF FileIsASave, FileText

\* What a saver has put together by the end of its loop is the table.
LEMMA SaverHasAll ==
    ASSUME ClusterTypes, FileIsASave, ~mixed, NEW t \in Saving, at[t] >= node_count
    PROVE  out[t] = FileText(self_id, Members) /\ Written(out[t]) = out[t]
  <1>1. /\ Members \in Seq(MemberId) /\ Len(Members) = node_count /\ self_id \in NodeId \cup {-1, 0}
        /\ node_count \in 0..MAX_NODES /\ at[t] \in 0..MAX_NODES /\ out[t] \in Seq(FileLine)
    BY MembersShape DEF ClusterTypes, ClusterTypeOK, ThreadsTyped, MemberId, Saving
  <1>2. /\ at[t] <= node_count /\ state_file = <<>>
        /\ out[t] = [l \in 1..(at[t] + 2) |-> FileText(self_id, Members)[l]]
    BY DEF FileIsASave, SaverInStep
  <1>3. at[t] = node_count
    BY <1>1, <1>2, ClusterSizes
  <1>4. out[t] = FileText(self_id, Members)
    <2>1. FileText(self_id, Members) = [l \in 1..(node_count + 2) |-> FileText(self_id, Members)[l]]
      BY <1>1 DEF FileText
    <2> QED
      BY <1>2, <1>3, <2>1
  <1>5. Written(out[t]) = out[t]
    <2>1. Len(out[t]) \in Nat /\ Len(<<>>) = 0
      BY <1>1, LenProperties
    <2>2. SubSeq(state_file, Len(out[t]) + 1, Len(state_file)) = <<>>
      BY <1>2, <2>1
    <2>3. out[t] \o <<>> = out[t]
      BY <1>1, ConcatEmptySeq
    <2> QED
      BY <2>2, <2>3 DEF Written
  <1> QED
    BY <1>4, <1>5

\* The steps of a save keep the file one.
LEMMA SaveKeepsFile ==
    ASSUME ClusterTypes, UniqueIds, FileIsASave, ~mixed, ~mixed', NEW t \in Thread,
           cluster_save_state(t) \/ SaveEntry(t) \/ SaveClose(t)
    PROVE  FileIsASave'
  <1>1. /\ Members \in Seq(MemberId) /\ Len(Members) = node_count /\ DOMAIN Members = 1..node_count
        /\ \A j \in 1..node_count : Members[j] = table[j - 1]
        /\ self_id \in NodeId \cup {-1, 0} /\ node_count \in 0..MAX_NODES /\ node_count <= MAX_NODES
        /\ table \in [Slots -> MemberId]
    BY MembersShape, ClusterSizes DEF ClusterTypes, ClusterTypeOK, MemberId
  <1>2. /\ pc \in [Thread -> {"idle", "add", "remove", "self", "open", "save", "list"}]
        /\ at \in [Thread -> 0..MAX_NODES] /\ out \in [Thread -> Seq(FileLine)]
    BY DEF ClusterTypes, ClusterTypeOK, ThreadsTyped
  <1>3. /\ FileText(self_id, Members)[1] = Line("self_id", self_id)
        /\ FileText(self_id, Members)[2] = Line("node_count", node_count)
        /\ \A l \in 3..(node_count + 2) : FileText(self_id, Members)[l] = Line("node", table[l - 3])
    <2>1. \A l \in 3..(node_count + 2) : l - 2 \in 1..node_count /\ (l - 2) - 1 = l - 3
      BY <1>1
    <2> QED
      BY <1>1, <2>1, TextShape
  <1>4. CASE cluster_save_state(t)
    <2>1. CASE pc'[t] = "idle"
      <3>1. UNCHANGED <<table, node_count, self_id, state_file, saved, torn, at, out>> /\ Saving' \subseteq Saving
        BY <1>2, <1>4, <2>1 DEF cluster_save_state, Saving
      <3> QED
        BY <3>1, SaversLeftAlone
    <2>2. CASE pc'[t] # "idle"
      <3>1. /\ has_path /\ state_file' = <<>> /\ ~torn' /\ pc' = [pc EXCEPT ![t] = "save"] /\ Saving = {}
            /\ out' = [out EXCEPT ![t] = <<Line("self_id", self_id), Line("node_count", node_count)>>]
            /\ at' = [at EXCEPT ![t] = 0]
            /\ UNCHANGED <<table, node_count, self_id, saved>>
        BY <1>2, <1>4, <2>2 DEF cluster_save_state
      <3>2. Saving' = {t}
        BY <1>2, <3>1 DEF Saving
      <3>3. out'[t] = <<Line("self_id", self_id), Line("node_count", node_count)>> /\ at'[t] = 0
        BY <1>2, <3>1
      <3>4. out'[t] = [l \in 1..2 |-> FileText(self_id, Members)[l]]
        BY <1>3, <3>3
      <3>5. SaverInStep(t)'
        <4>1. Members' = Members
          BY <3>1 DEF Members
        <4>2. FileText(self_id, Members)' = FileText(self_id, Members)
          BY <3>1, <4>1 DEF FileText
        <4>3. at'[t] <= node_count' /\ at'[t] + 2 = 2
          BY <1>1, <3>1, <3>3, ClusterSizes
        <4>4. out'[t] = [l \in 1..(at'[t] + 2) |-> FileText(self_id, Members)'[l]]
          BY <3>4, <4>2, <4>3
        <4> QED
          BY <3>1, <4>3, <4>4 DEF SaverInStep
      <3> QED
        BY <3>1, <3>2, <3>5 DEF FileIsASave
    <2> QED
      BY <2>1, <2>2
  <1>5. CASE SaveEntry(t)
    <2>1. /\ t \in Saving /\ at[t] < node_count
          /\ out' = [out EXCEPT ![t] = Append(@, Line("node", table[at[t]]))]
          /\ at' = [at EXCEPT ![t] = @ + 1]
          /\ UNCHANGED <<table, node_count, self_id, state_file, saved, torn, pc>>
      BY <1>5 DEF SaveEntry, Saving
    <2>2. Saving' = {t}
      BY <2>1 DEF Saving, FileIsASave
    <2>3. /\ state_file = <<>> /\ ~torn
          /\ out[t] = [l \in 1..(at[t] + 2) |-> FileText(self_id, Members)[l]]
      BY <2>1 DEF FileIsASave, SaverInStep
    <2>4. at[t] \in Nat /\ at'[t] = at[t] + 1 /\ out'[t] = Append(out[t], Line("node", table[at[t]]))
      BY <1>2, <2>1
    <2>5. out'[t] = [l \in 1..((at[t] + 1) + 2) |-> FileText(self_id, Members)[l]]
      <3>1. at[t] + 3 \in 3..(node_count + 2) /\ (at[t] + 3) - 3 = at[t]
        BY <1>1, <2>1, <2>4
      <3>2. FileText(self_id, Members)[at[t] + 3] = Line("node", table[at[t]])
        BY <1>3, <3>1
      <3>3. out[t] \in Seq(FileLine) /\ Len(out[t]) = at[t] + 2
        BY <1>2, <2>3, <2>4
      <3>4. \A l \in 1..(at[t] + 2) : out[t][l] = FileText(self_id, Members)[l]
        BY <2>3
      <3>5. /\ out'[t] \in Seq(FileLine) /\ Len(out'[t]) = at[t] + 3
            /\ \A l \in 1..(at[t] + 2) : out'[t][l] = out[t][l]
            /\ out'[t][at[t] + 3] = Line("node", table[at[t]])
        <4>1. Line("node", table[at[t]]) \in FileLine
          <5>1. at[t] \in Slots
            BY <1>1, <2>1, <2>4, ClusterSizes DEF Slots
          <5> QED
            BY <5>1, LinesTyped
        <4> QED
          BY <2>4, <3>3, <4>1, AppendProperties
      <3>6. \A l \in 1..(at[t] + 3) : out'[t][l] = FileText(self_id, Members)[l]
        <4>1. \A l \in 1..(at[t] + 3) : l \in 1..(at[t] + 2) \/ l = at[t] + 3
          BY <2>4
        <4> QED
          BY <3>2, <3>4, <3>5, <4>1
      <3>7. out'[t] = [l \in 1..(at[t] + 3) |-> out'[t][l]] /\ (at[t] + 1) + 2 = at[t] + 3
        BY <2>4, <3>5
      <3> QED
        BY <3>6, <3>7
    <2>6. SaverInStep(t)'
      <3>1. Members' = Members
        BY <2>1 DEF Members
      <3>2. FileText(self_id, Members)' = FileText(self_id, Members)
        BY <2>1, <3>1 DEF FileText
      <3>3. at'[t] <= node_count'
        BY <1>1, <2>1, <2>4
      <3>4. out'[t] = [l \in 1..(at'[t] + 2) |-> FileText(self_id, Members)'[l]]
        BY <2>4, <2>5, <3>2
      <3> QED
        BY <2>1, <2>3, <3>3, <3>4 DEF SaverInStep
    <2> QED
      BY <2>1, <2>2, <2>6 DEF FileIsASave, FileText
  <1>6. CASE SaveClose(t)
    <2>1. t \in Saving /\ at[t] >= node_count
      BY <1>6 DEF SaveClose, Saving
    <2>3. Saving' = {}
      BY <1>2, <1>6, <2>1 DEF SaveClose, Saving, FileIsASave
    <2>6. CASE torn'
      <3>1. saved' = saved
        BY <1>6, <2>6 DEF SaveClose
      <3> QED
        BY <2>3, <2>6, <3>1 DEF FileIsASave
    <2> SUFFICES ASSUME ~torn' PROVE FileIsASave'
      BY <2>6
    <2>2. state_file' = FileText(self_id, Members) /\ saved' = Members
      BY <1>6, <2>1, SaverHasAll DEF SaveClose
    <2>4. \A i, j \in DOMAIN Members : Members[i] = Members[j] => i = j
      <3>1. \A i \in 1..node_count : i - 1 \in 0..(node_count - 1)
        BY <1>1
      <3> QED
        BY <1>1, <3>1 DEF UniqueIds
    <2>5. \E sid \in NodeId \cup {-1, 0} : state_file' = FileText(sid, saved)'
      BY <1>1, <2>2 DEF FileText
    <2> QED
      BY <1>1, <2>2, <2>3, <2>4, <2>5 DEF FileIsASave
  <1> QED
    BY <1>4, <1>5, <1>6

\* Every step keeps the file a save.
LEMMA FileIsASaveStep ==
    ASSUME ClusterTypes, UniqueIds, FileIsASave, ClusterNext
    PROVE  FileIsASave'
  <1> SUFFICES ASSUME ~mixed' PROVE FileIsASave'
    BY DEF FileIsASave
  <1>1. ~mixed /\ pc \in [Thread -> {"idle", "add", "remove", "self", "open", "save", "list"}]
    BY MixedStays DEF ClusterTypes, ClusterTypeOK
  <1>2. CASE cluster_set_state_file
    BY <1>1, <1>2, SaversLeftAlone DEF cluster_set_state_file, threadVars, Saving
  <1>3. CASE cluster_init \/ cluster_finit
    BY <1>1, <1>3, NobodySaves DEF cluster_init, cluster_finit, Quiet, Saving, threadVars
  <1>4. CASE ClusterCrash
    BY <1>1, <1>4, NobodySaves DEF ClusterCrash, Saving
  <1>5. ASSUME NEW t \in Thread, NEW op \in {"add", "remove", "self"}, NEW id \in NodeId, Call(t, op, id)
        PROVE  FileIsASave'
    BY <1>1, <1>5, SaversLeftAlone DEF Call, Saving
  <1>6. ASSUME NEW t \in Thread, cluster_add_node(t) PROVE FileIsASave'
    <2>1. CASE Refused(t)
      BY <1>1, <1>6, <2>1, SaversLeftAlone DEF Refused, cluster_add_node, Saving
    <2>2. CASE ~Refused(t)
      BY <1>1, <1>6, <2>2, NobodySaves DEF Changed, cluster_add_node, Saving
    <2> QED
      BY <2>1, <2>2
  <1>7. ASSUME NEW t \in Thread, cluster_remove_node(t) PROVE FileIsASave'
    <2>1. CASE Refused(t)
      BY <1>1, <1>7, <2>1, SaversLeftAlone DEF Refused, cluster_remove_node, Saving
    <2>2. CASE ~Refused(t)
      BY <1>1, <1>7, <2>2, NobodySaves DEF Changed, cluster_remove_node, Saving
    <2> QED
      BY <2>1, <2>2
  <1>8. ASSUME NEW t \in Thread, cluster_set_self_id(t) PROVE FileIsASave'
    BY <1>1, <1>8, NobodySaves DEF cluster_set_self_id, Saving
  <1>9. ASSUME NEW t \in Thread, cluster_get_node_count(t) \/ handle_list_command(t) \/ ListEnds(t)
        PROVE  FileIsASave'
    <2>1. pc[t] \in {"idle", "list"} /\ pc'[t] \in {"idle", "list"}
      BY <1>1, <1>9 DEF cluster_get_node_count, handle_list_command, ListEnds
    <2>2. /\ UNCHANGED <<table, node_count, self_id, state_file, saved, torn, out>>
          /\ \A u \in Thread : u = t \/ pc'[u] = pc[u]
      BY <1>1, <1>9 DEF cluster_get_node_count, handle_list_command, ListEnds
    <2>3. \A u \in Thread : u = t \/ at'[u] = at[u]
      BY <1>9 DEF cluster_get_node_count, handle_list_command, ListEnds, ClusterTypes, ClusterTypeOK
    <2> QED
      BY <1>1, <2>1, <2>2, <2>3, SaversLeftAlone DEF Saving
  <1> QED
    BY <1>1, <1>2, <1>3, <1>4, <1>5, <1>6, <1>7, <1>8, <1>9, SaveKeepsFile DEF ClusterNext

----------------------------------------------------------------------------
(* The file shows the table *)

\* A step that ends no save, and leaves table, file and own id alone.
LEMMA ShownStays ==
    ASSUME FileShowsTable, initialized, has_path, ~mixed, ~behind,
           UNCHANGED <<table, node_count, self_id, state_file>>,
           \A t \in Thread : pc[t] \in {"open", "save"} => pc'[t] \in {"open", "save"}
    PROVE  FileShowsTable'
  <1>1. FileText(self_id, Members)' = FileText(self_id, Members)
    BY DEF FileText, Members
  <1> QED
    BY <1>1 DEF FileShowsTable

\* Every step keeps the file in step with the table.
LEMMA FileShowsTableStep ==
    ASSUME ClusterTypes, FileIsASave, FileShowsTable, ClusterNext
    PROVE  FileShowsTable'
  <1> SUFFICES ASSUME initialized', has_path', ~mixed', ~behind'
               PROVE  FileShowsTable'
    BY DEF FileShowsTable
  <1>1. /\ ~mixed /\ pc \in [Thread -> {"idle", "add", "remove", "self", "open", "save", "list"}]
        /\ behind \in BOOLEAN /\ torn \in BOOLEAN
        /\ Members \in Seq(MemberId) /\ Len(Members) = node_count
    BY MixedStays, MembersShape DEF ClusterTypes, ClusterTypeOK, ThreadsTyped, MemberId
  <1>2. CASE cluster_set_state_file
    <2>1. initialized /\ has_path /\ ~behind
      BY <1>1, <1>2 DEF cluster_set_state_file, ClusterTypes, ClusterTypeOK
    <2>2. UNCHANGED <<table, node_count, self_id, state_file, pc>>
      BY <1>2 DEF cluster_set_state_file, threadVars
    <2> QED
      BY <1>1, <2>1, <2>2, ShownStays
  <1>3. CASE cluster_init
    <2>1. /\ cluster_load_state /\ saved \in Seq(MemberId) /\ Len(saved) <= MAX_NODES /\ Len(saved) \in Nat
          /\ state_file' = state_file
      BY <1>1, <1>3, LenProperties DEF cluster_init, FileIsASave
    <2>2. CASE state_file = <<>>
      BY <2>1, <2>2, LoadFinds DEF FileShowsTable
    <2>3. CASE state_file # <<>>
      <3>0. ~torn
        BY <1>1, <1>3 DEF cluster_init
      <3>1. PICK sid \in NodeId \cup {-1, 0} : state_file = FileText(sid, saved)
        BY <1>1, <2>3, <3>0 DEF FileIsASave
      <3>2. /\ self_id' = sid /\ node_count' = Len(saved)
            /\ \A i \in 0..(Len(saved) - 1) : table'[i] = saved[i + 1]
        BY <2>1, <3>1, LoadFinds
      <3>3. Members' = saved
        <4>1. Members' = [j \in 1..Len(saved) |-> table'[j - 1]]
          BY <3>2 DEF Members
        <4>2. \A j \in 1..Len(saved) : j - 1 \in 0..(Len(saved) - 1) /\ (j - 1) + 1 = j
          BY <2>1
        <4>3. Members' = [j \in 1..Len(saved) |-> saved[j]]
          BY <3>2, <4>1, <4>2
        <4>4. saved = [j \in 1..Len(saved) |-> saved[j]]
          BY <2>1
        <4> QED
          BY <4>3, <4>4
      <3>4. FileText(self_id, Members)' = FileText(sid, saved)
        BY <3>2, <3>3 DEF FileText
      <3> QED
        BY <2>1, <3>1, <3>4 DEF FileShowsTable
    <2> QED
      BY <2>2, <2>3
  <1>4. CASE cluster_finit \/ ClusterCrash
    BY <1>4 DEF cluster_finit, ClusterCrash
  <1>5. ASSUME NEW t \in Thread, NEW op \in {"add", "remove", "self"}, NEW id \in NodeId, Call(t, op, id)
        PROVE  FileShowsTable'
    <2>1. UNCHANGED <<initialized, has_path, table, node_count, self_id, state_file, behind>>
      BY <1>5 DEF Call
    <2>3. \A u \in Thread : pc[u] \in {"open", "save"} => pc'[u] \in {"open", "save"}
      BY <1>1, <1>5 DEF Call
    <2> QED
      BY <1>1, <2>1, <2>3, ShownStays
  <1>6. ASSUME NEW t \in Thread, pc'[t] \in {"open", "save"} PROVE FileShowsTable'
    BY <1>6 DEF FileShowsTable
  <1>7. ASSUME NEW t \in Thread, cluster_add_node(t) \/ cluster_remove_node(t) PROVE FileShowsTable'
    <2>1. CASE Refused(t)
      <3>1. UNCHANGED <<initialized, has_path, table, node_count, self_id, state_file, behind>>
        BY <1>7, <2>1 DEF Refused, cluster_add_node, cluster_remove_node
      <3>2. \A u \in Thread : pc[u] \in {"open", "save"} => pc'[u] \in {"open", "save"}
        BY <1>1, <1>7, <2>1 DEF Refused, cluster_add_node, cluster_remove_node
      <3> QED
        BY <1>1, <3>1, <3>2, ShownStays
    <2>2. CASE ~Refused(t)
      <3>1. Changed(t)
        BY <1>7, <2>2 DEF cluster_add_node, cluster_remove_node
      <3> QED
        BY <1>1, <1>6, <3>1 DEF Changed
    <2> QED
      BY <2>1, <2>2
  <1>8. ASSUME NEW t \in Thread, cluster_set_self_id(t) PROVE FileShowsTable'
    BY <1>1, <1>6, <1>8 DEF cluster_set_self_id
  <1>9. ASSUME NEW t \in Thread, cluster_save_state(t) PROVE FileShowsTable'
    <2>1. has_path
      BY <1>9 DEF cluster_save_state
    <2>3. pc' = [pc EXCEPT ![t] = "save"]
      BY <1>9, <2>1 DEF cluster_save_state
    <2> QED
      BY <1>1, <1>6, <2>3
  <1>10. ASSUME NEW t \in Thread, SaveEntry(t) PROVE FileShowsTable'
    BY <1>6, <1>10 DEF SaveEntry
  <1>11. ASSUME NEW t \in Thread, SaveClose(t) PROVE FileShowsTable'
    <2>1. t \in Saving /\ at[t] >= node_count
      BY <1>11 DEF SaveClose, Saving
    <2>2. state_file' = FileText(self_id, Members)
      BY <1>1, <1>11, <2>1, SaverHasAll DEF SaveClose
    <2>3. FileText(self_id, Members)' = FileText(self_id, Members)
      BY <1>11 DEF FileText, Members, SaveClose
    <2> QED
      BY <2>2, <2>3 DEF FileShowsTable
  <1>12. ASSUME NEW t \in Thread, cluster_get_node_count(t) \/ handle_list_command(t) \/ ListEnds(t)
         PROVE  FileShowsTable'
    <2>1. UNCHANGED <<initialized, has_path, table, node_count, self_id, state_file, behind>>
      BY <1>12 DEF cluster_get_node_count, handle_list_command, ListEnds
    <2>2. \A u \in Thread : pc[u] \in {"open", "save"} => pc'[u] \in {"open", "save"}
      BY <1>1, <1>12 DEF cluster_get_node_count, handle_list_command, ListEnds
    <2> QED
      BY <1>1, <2>1, <2>2, ShownStays
  <1> QED
    BY <1>2, <1>3, <1>4, <1>5, <1>7, <1>8, <1>9, <1>10, <1>11, <1>12 DEF ClusterNext

----------------------------------------------------------------------------
(* Listings *)

\* The conjunct of ListingInStep about one thread.
ListsInStep(t) ==
    pc[t] = "list" /\ ~shrunk[t] =>
        /\ at[t] <= arg[t] /\ arg[t] <= node_count
        /\ before[t] = {table[j] : j \in 0..(arg[t] - 1)}
        /\ \A j \in 0..(at[t] - 1) : \E k \in DOMAIN listing[t] : listing[t][k] = table[j]

\* A step of somebody else that removes nothing keeps a listing in step.
LEMMA ListingLeftAlone ==
    ASSUME ClusterTypes, NEW t \in Thread, ListsInStep(t),
           pc'[t] = "list" => pc[t] = "list" /\ shrunk'[t] = shrunk[t] /\ at'[t] = at[t] /\ arg'[t] = arg[t]
                                /\ before'[t] = before[t] /\ listing'[t] = listing[t],
           node_count' \in Int, node_count' >= node_count,
           \A j \in 0..(node_count - 1) : table'[j] = table[j]
    PROVE  ListsInStep(t)'
  <1> SUFFICES ASSUME pc'[t] = "list", ~shrunk'[t]
               PROVE  /\ at'[t] <= arg'[t] /\ arg'[t] <= node_count'
                      /\ before'[t] = {table'[j] : j \in 0..(arg'[t] - 1)}
                      /\ \A j \in 0..(at'[t] - 1) : \E k \in DOMAIN listing'[t] : listing'[t][k] = table'[j]
    BY DEF ListsInStep
  <1>1. node_count \in Int /\ at[t] \in Int /\ arg[t] \in Int
    BY ClusterSizes DEF ClusterTypes, ClusterTypeOK, ThreadsTyped
  <1>2. /\ at[t] <= arg[t] /\ arg[t] <= node_count
        /\ before[t] = {table[j] : j \in 0..(arg[t] - 1)}
        /\ \A j \in 0..(at[t] - 1) : \E k \in DOMAIN listing[t] : listing[t][k] = table[j]
    BY DEF ListsInStep
  <1>3. /\ \A j \in 0..(arg[t] - 1) : table'[j] = table[j]
        /\ \A j \in 0..(at[t] - 1) : table'[j] = table[j]
    BY <1>1, <1>2
  <1>4. arg[t] <= node_count'
    BY <1>1, <1>2
  <1>5. {table'[j] : j \in 0..(arg[t] - 1)} = {table[j] : j \in 0..(arg[t] - 1)}
    BY <1>3
  <1> QED
    BY <1>2, <1>3, <1>4, <1>5

\* Every step keeps the listings in step.
LEMMA ListingInStepStep ==
    ASSUME ClusterTypes, ListingInStep, ClusterNext
    PROVE  ListingInStep'
  <1>1. \A u \in Thread : ListsInStep(u)
    BY DEF ListingInStep, ListsInStep
  <1> SUFFICES ASSUME NEW u \in Thread PROVE ListsInStep(u)'
    BY DEF ListingInStep, ListsInStep
  <1>2. /\ pc \in [Thread -> {"idle", "add", "remove", "self", "open", "save", "list"}]
        /\ at \in [Thread -> 0..MAX_NODES] /\ arg \in [Thread -> Int] /\ listing \in [Thread -> Seq(MemberId)]
        /\ before \in [Thread -> SUBSET MemberId] /\ shrunk \in [Thread -> BOOLEAN]
        /\ node_count \in 0..MAX_NODES /\ node_count \in Int /\ table \in [Slots -> MemberId]
    <2>1. table \in [Slots -> MemberId]
      BY DEF ClusterTypes, ClusterTypeOK, MemberId
    <2>2. node_count \in 0..MAX_NODES /\ node_count \in Int
      BY ClusterSizes DEF ClusterTypes, ClusterTypeOK
    <2> QED
      BY <2>1, <2>2 DEF ClusterTypes, ClusterTypeOK, ThreadsTyped
  <1>3. CASE cluster_set_state_file
    BY <1>1, <1>2, <1>3, ListingLeftAlone DEF cluster_set_state_file, threadVars
  <1>4. CASE cluster_init \/ cluster_finit \/ ClusterCrash
    <2>1. pc'[u] # "list"
      BY <1>4 DEF cluster_init, cluster_finit, ClusterCrash, Quiet, threadVars
    <2> QED
      BY <2>1 DEF ListsInStep
  <1>5. ASSUME NEW t \in Thread, NEW op \in {"add", "remove", "self"}, NEW id \in NodeId, Call(t, op, id)
        PROVE  ListsInStep(u)'
    <2>1. /\ pc'[u] = "list" => u # t /\ pc[u] = "list" /\ arg'[u] = arg[u]
          /\ UNCHANGED <<table, node_count, at, before, listing, shrunk>>
      BY <1>2, <1>5 DEF Call
    <2> QED
      BY <1>1, <1>2, <2>1, ListingLeftAlone
  <1>6. ASSUME NEW t \in Thread, cluster_add_node(t) PROVE ListsInStep(u)'
    <2>1. CASE Refused(t)
      <3>1. /\ pc'[u] = "list" => pc[u] = "list"
            /\ UNCHANGED <<table, node_count, at, arg, before, listing, shrunk>>
        BY <1>2, <1>6, <2>1 DEF cluster_add_node, Refused
      <3> QED
        BY <1>1, <1>2, <3>1, ListingLeftAlone
    <2>2. CASE ~Refused(t)
      <3>1. /\ node_count' = node_count + 1 /\ Changed(t) /\ shrunk' = shrunk
            /\ \A j \in 0..(node_count - 1) : table'[j] = table[j]
        BY <1>6, <2>2, AddsOne
      <3>2. /\ pc'[u] = "list" => pc[u] = "list"
            /\ UNCHANGED <<at, arg, before, listing>>
        BY <1>2, <1>6, <3>1 DEF cluster_add_node, Changed
      <3>3. node_count' \in Int /\ node_count' >= node_count
        BY <1>2, <3>1
      <3> QED
        BY <1>1, <3>1, <3>2, <3>3, ListingLeftAlone
    <2> QED
      BY <2>1, <2>2
  <1>7. ASSUME NEW t \in Thread, cluster_remove_node(t) PROVE ListsInStep(u)'
    <2>1. CASE Refused(t)
      <3>1. /\ pc'[u] = "list" => pc[u] = "list"
            /\ UNCHANGED <<table, node_count, at, arg, before, listing, shrunk>>
        BY <1>2, <1>7, <2>1 DEF cluster_remove_node, Refused
      <3> QED
        BY <1>1, <1>2, <3>1, ListingLeftAlone
    <2>2. CASE ~Refused(t)
      <3>1. shrunk'[u]
        BY <1>7, <2>2, RemovesOne
      <3> QED
        BY <3>1 DEF ListsInStep
    <2> QED
      BY <2>1, <2>2
  <1>8. ASSUME NEW t \in Thread, cluster_set_self_id(t) \/ SaveClose(t) \/ ListEnds(t) PROVE ListsInStep(u)'
    <2>1. /\ pc'[u] = "list" => pc[u] = "list"
          /\ UNCHANGED <<table, node_count, at, arg, before, listing, shrunk>>
      BY <1>2, <1>8 DEF cluster_set_self_id, SaveClose, ListEnds
    <2> QED
      BY <1>1, <1>2, <2>1, ListingLeftAlone
  <1>9. ASSUME NEW t \in Thread, cluster_save_state(t) \/ SaveEntry(t) PROVE ListsInStep(u)'
    <2>1. /\ pc'[u] = "list" => pc[u] = "list" /\ at'[u] = at[u]
          /\ UNCHANGED <<table, node_count, arg, before, listing, shrunk>>
      BY <1>2, <1>9 DEF cluster_save_state, SaveEntry
    <2> QED
      BY <1>1, <1>2, <2>1, ListingLeftAlone
  <1>10. ASSUME NEW t \in Thread, cluster_get_node_count(t) PROVE ListsInStep(u)'
    <2>1. CASE u # t
      <3>1. /\ pc'[u] = pc[u] /\ at'[u] = at[u] /\ arg'[u] = arg[u] /\ before'[u] = before[u]
            /\ listing'[u] = listing[u] /\ shrunk'[u] = shrunk[u] /\ UNCHANGED <<table, node_count>>
        BY <1>2, <1>10, <2>1 DEF cluster_get_node_count
      <3>2. node_count' \in Int /\ node_count' >= node_count
        BY <1>2, <3>1
      <3> QED
        BY <1>1, <3>1, <3>2, ListingLeftAlone
    <2>2. CASE u = t
      <3>1. /\ at'[u] = 0 /\ arg'[u] = node_count /\ before'[u] = Ids /\ UNCHANGED <<table, node_count>>
        BY <1>2, <1>10, <2>2 DEF cluster_get_node_count
      <3>2. Ids = {table[j] : j \in 0..(node_count - 1)}
        <4>1. Ids = {table[j - 1] : j \in 1..node_count}
          BY <1>2, MembersShape DEF Ids
        <4>2. \A j \in 0..(node_count - 1) : j + 1 \in 1..node_count /\ (j + 1) - 1 = j
          BY <1>2
        <4>3. \A j \in 1..node_count : j - 1 \in 0..(node_count - 1)
          BY <1>2
        <4> QED
          BY <4>1, <4>2, <4>3
      <3>3. \A j \in 0..(at'[u] - 1) : FALSE
        BY <3>1
      <3>4. at'[u] <= arg'[u] /\ arg'[u] <= node_count'
        BY <1>2, <3>1, ClusterSizes
      <3>5. before'[u] = {table'[j] : j \in 0..(arg'[u] - 1)}
        BY <3>1, <3>2
      <3> QED
        BY <3>3, <3>4, <3>5 DEF ListsInStep
    <2> QED
      BY <2>1, <2>2
  <1>11. ASSUME NEW t \in Thread, handle_list_command(t) PROVE ListsInStep(u)'
    <2>1. CASE u # t
      <3>1. /\ pc'[u] = pc[u] /\ at'[u] = at[u] /\ arg'[u] = arg[u] /\ before'[u] = before[u]
            /\ listing'[u] = listing[u] /\ shrunk'[u] = shrunk[u] /\ UNCHANGED <<table, node_count>>
        BY <1>2, <1>11, <2>1 DEF handle_list_command
      <3>2. node_count' \in Int /\ node_count' >= node_count
        BY <1>2, <3>1
      <3> QED
        BY <1>1, <3>1, <3>2, ListingLeftAlone
    <2>2. CASE u = t
      <3>1. /\ pc[u] = "list" /\ at[u] < arg[u] /\ at'[u] = at[u] + 1
            /\ listing'[u] = listing[u] \o cluster_get_node_by_index(at[u])
            /\ UNCHANGED <<table, node_count, pc, arg, before, shrunk>>
        BY <1>2, <1>11, <2>2 DEF handle_list_command
      <3> SUFFICES ASSUME ~shrunk[u] PROVE ListsInStep(u)'
        BY <3>1 DEF ListsInStep
      <3>2. /\ arg[u] <= node_count /\ before[u] = {table[j] : j \in 0..(arg[u] - 1)}
            /\ \A j \in 0..(at[u] - 1) : \E k \in DOMAIN listing[u] : listing[u][k] = table[j]
        BY <1>1, <3>1 DEF ListsInStep
      <3>3. at[u] \in Nat /\ arg[u] \in Int /\ listing[u] \in Seq(MemberId) /\ Len(listing[u]) \in Nat
        BY <1>2, ClusterSizes, LenProperties
      <3>4. cluster_get_node_by_index(at[u]) = <<table[at[u]]>>
        BY <1>2, <3>1, <3>2, <3>3 DEF cluster_get_node_by_index
      <3>5. at[u] \in Slots
        BY <1>2, <3>1, <3>2, <3>3, ClusterSizes DEF Slots
      <3>6. <<table[at[u]]>> \in Seq(MemberId) /\ Len(<<table[at[u]]>>) = 1 /\ <<table[at[u]]>>[1] = table[at[u]]
        BY <1>2, <3>5
      <3>7. /\ DOMAIN listing'[u] = 1..(Len(listing[u]) + 1)
            /\ \A k \in 1..Len(listing[u]) : listing'[u][k] = listing[u][k]
            /\ listing'[u][Len(listing[u]) + 1] = table[at[u]]
        BY <3>1, <3>3, <3>4, <3>6
      <3>8. DOMAIN listing[u] = 1..Len(listing[u])
        BY <3>3, LenProperties
      <3>9. ASSUME NEW j \in 0..(at'[u] - 1) PROVE \E k \in DOMAIN listing'[u] : listing'[u][k] = table[j]
        <4>1. CASE j = at[u]
          <5>1. Len(listing[u]) + 1 \in DOMAIN listing'[u]
            BY <3>3, <3>7
          <5> QED
            BY <3>7, <4>1, <5>1
        <4>2. CASE j # at[u]
          <5>1. j \in 0..(at[u] - 1)
            BY <3>1, <3>3, <4>2
          <5>2. PICK k \in DOMAIN listing[u] : listing[u][k] = table[j]
            BY <3>2, <5>1
          <5>3. k \in DOMAIN listing'[u] /\ listing'[u][k] = table[j]
            BY <3>3, <3>7, <3>8, <5>2
          <5> QED
            BY <5>3
        <4> QED
          BY <4>1, <4>2
      <3>10. at'[u] <= arg'[u] /\ arg'[u] <= node_count'
        BY <3>1, <3>2, <3>3
      <3>11. before'[u] = {table'[j] : j \in 0..(arg'[u] - 1)}
        BY <3>1, <3>2
      <3> QED
        BY <3>1, <3>9, <3>10, <3>11 DEF ListsInStep
    <2> QED
      BY <2>1, <2>2
  <1> QED
    BY <1>3, <1>4, <1>5, <1>6, <1>7, <1>8, <1>9, <1>10, <1>11 DEF ClusterNext

----------------------------------------------------------------------------
(* The theorems *)

\* The inductive invariant holds at first.
LEMMA ClusterInvariantInit == ClusterInit => ClusterInvariant
  <1> SUFFICES ASSUME ClusterInit PROVE ClusterInvariant
    OBVIOUS
  <1>1. ClusterTypeOK /\ ThreadsTyped
    BY ClusterTypesInit DEF ClusterTypes
  <1>2. UniqueIds
    BY DEF ClusterInit, UniqueIds
  <1>3. Saving = {} /\ saved = <<>> /\ state_file = <<>>
    BY DEF ClusterInit, Saving
  <1>4. FileIsASave
    BY <1>3, ClusterSizes DEF FileIsASave
  <1>5. FileShowsTable /\ ListingInStep
    BY DEF ClusterInit, FileShowsTable, ListingInStep
  <1> QED
    BY <1>1, <1>2, <1>4, <1>5 DEF ClusterInvariant

\* The inductive invariant is kept by every step.
LEMMA ClusterInvariantStep ==
    ASSUME ClusterInvariant, [ClusterNext]_clusterVars
    PROVE  ClusterInvariant'
  <1>1. ClusterTypes /\ UniqueIds /\ FileIsASave /\ FileShowsTable /\ ListingInStep
    BY DEF ClusterInvariant, ClusterTypes
  <1>2. CASE ClusterNext
    BY <1>1, <1>2, ClusterTypesStep, UniqueIdsStep, FileIsASaveStep, FileShowsTableStep, ListingInStepStep
       DEF ClusterInvariant, ClusterTypes
  <1>3. CASE UNCHANGED clusterVars
    <2>1. ClusterTypes' /\ UniqueIds'
      BY <1>1, <1>3, ClusterTypesStep DEF clusterVars, UniqueIds
    <2>2. FileIsASave'
      <3>1. CASE mixed
        BY <1>3, <3>1 DEF clusterVars, FileIsASave
      <3>2. CASE ~mixed
        BY <1>1, <1>3, <3>2, SaversLeftAlone DEF clusterVars, threadVars, Saving
      <3> QED
        BY <3>1, <3>2
    <2>3. FileShowsTable'
      <3>1. FileText(self_id, Members)' = FileText(self_id, Members)
        BY <1>3 DEF clusterVars, FileText, Members
      <3> QED
        BY <1>1, <1>3, <3>1 DEF clusterVars, threadVars, FileShowsTable
    <2>4. ListingInStep'
      BY <1>1, <1>3 DEF clusterVars, threadVars, ListingInStep
    <2> QED
      BY <2>1, <2>2, <2>3, <2>4 DEF ClusterInvariant, ClusterTypes
  <1> QED
    BY <1>2, <1>3

\* The invariant holds for ever.
LEMMA ClusterInvariantHolds == ClusterSpec => []ClusterInvariant
  BY ClusterInvariantInit, ClusterInvariantStep, PTL DEF ClusterSpec

\* What the invariant says of a file that is read when nobody works on it.
LEMMA ShownIsRead == ClusterInvariant => FileHoldsTable
  <1> SUFFICES ASSUME ClusterInvariant, Quiet, initialized, has_path, ~mixed, ~behind
               PROVE  /\ Field("self_id", -1) = self_id
                      /\ Field("node_count", 0) = node_count
                      /\ \A i \in 0..(node_count - 1) :
                            \E l \in NodeLines : node_index(l) = i /\ state_file[l].value = table[i]
    BY DEF FileHoldsTable
  <1>1. /\ Members \in Seq(MemberId) /\ Len(Members) = node_count /\ node_count \in Nat
        /\ \A j \in 1..node_count : Members[j] = table[j - 1]
        /\ self_id \in NodeId \cup {-1, 0} /\ node_count <= MAX_NODES
    BY MembersShape, ClusterSizes DEF ClusterInvariant, ClusterTypeOK, MemberId
  <1>2. CASE state_file = <<>> /\ node_count = 0 /\ self_id = -1
    BY <1>2, EmptyRead
  <1>3. CASE state_file = FileText(self_id, Members)
    <2>1. /\ Field("self_id", -1) = self_id /\ Field("node_count", 0) = node_count
          /\ NodeLines = 3..(node_count + 2)
          /\ \A l \in 3..(node_count + 2) : node_index(l) = l - 3 /\ state_file[l].value = Members[l - 2]
      BY <1>1, <1>3, TextRead
    <2>2. ASSUME NEW i \in 0..(node_count - 1)
          PROVE  \E l \in NodeLines : node_index(l) = i /\ state_file[l].value = table[i]
      <3>1. /\ i + 3 \in 3..(node_count + 2) /\ (i + 3) - 3 = i /\ (i + 3) - 2 = i + 1
            /\ i + 1 \in 1..node_count /\ (i + 1) - 1 = i
        BY <1>1
      <3>2. i + 3 \in NodeLines /\ node_index(i + 3) = i /\ state_file[i + 3].value = table[i]
        BY <1>1, <2>1, <3>1
      <3> QED
        BY <3>2
    <2> QED
      BY <2>1, <2>2
  <1> QED
    BY <1>2, <1>3 DEF ClusterInvariant, FileShowsTable, Quiet

\* What the invariant says of a listing that has come to its end.
LEMMA ListedIsComplete == ClusterInvariant => ListingIsComplete
  <1> SUFFICES ASSUME ClusterInvariant, NEW t \in Thread, pc[t] = "list", at[t] >= arg[t], ~shrunk[t]
               PROVE  before[t] \subseteq {listing[t][j] : j \in DOMAIN listing[t]}
    BY DEF ListingIsComplete
  <1>1. /\ at[t] <= arg[t] /\ at[t] \in Int /\ arg[t] \in Int
        /\ before[t] = {table[j] : j \in 0..(arg[t] - 1)}
        /\ \A j \in 0..(at[t] - 1) : \E k \in DOMAIN listing[t] : listing[t][k] = table[j]
    <2>1. at[t] \in Int /\ arg[t] \in Int
      BY ClusterSizes DEF ClusterInvariant, ClusterTypeOK, ThreadsTyped
    <2> QED
      BY <2>1 DEF ClusterInvariant, ListingInStep
  <1>2. at[t] = arg[t]
    BY <1>1
  <1> QED
    BY <1>1, <1>2

\* For any threads and ids: however adds, removals, saves, crashes and loads follow each other, no
\* two entries of the table have the same id, unless a save ran beside another one or a torn file
\* was loaded.
THEOREM IdsUnique == ClusterSpec => []UniqueIds
  <1>1. ClusterInvariant => UniqueIds
    BY DEF ClusterInvariant
  <1> QED
    BY <1>1, ClusterInvariantHolds, PTL

\* For any threads and ids: between calls the file holds the table and the own id, whenever the path
\* was set and whatever failed before the last save, if that one ended well; unless a save ran
\* beside another one or a torn file was loaded.
THEOREM FileHolds == ClusterSpec => []FileHoldsTable
  BY ClusterInvariantHolds, ShownIsRead, PTL

\* For any threads and ids: a listing that no removal disturbs shows every node that was there.
THEOREM ListingsComplete == ClusterSpec => []ListingIsComplete
  BY ClusterInvariantHolds, ListedIsComplete, PTL

\* For any threads and ids: a start of the process finds the members of some complete save, or none,
\* unless a full disk has cut the file short.
THEOREM RestartFinds == ClusterSpec => RestartFindsASave
  <1>1. ASSUME ClusterInvariant, [ClusterNext]_clusterVars, ~initialized, initialized', ~mixed, ~torn
        PROVE  Members' \in {saved, <<>>}
    <2>1. cluster_init
      <3>1. \A t \in Thread : ~initialized' \/ ~(cluster_add_node(t) \/ cluster_remove_node(t)
                                  \/ cluster_set_self_id(t) \/ cluster_save_state(t))
        BY <1>1 DEF cluster_add_node, cluster_remove_node, cluster_set_self_id, cluster_save_state
      <3>2. \A t \in Thread : ~(SaveEntry(t) \/ SaveClose(t) \/ cluster_get_node_count(t)
                                  \/ handle_list_command(t) \/ ListEnds(t))
        BY <1>1 DEF SaveEntry, SaveClose, cluster_get_node_count, handle_list_command, ListEnds
      <3>3. \A t \in Thread, op \in {"add", "remove", "self"}, id \in NodeId : ~Call(t, op, id)
        BY <1>1 DEF Call
      <3>4. ~(cluster_set_state_file \/ cluster_finit \/ ClusterCrash \/ UNCHANGED clusterVars)
        BY <1>1 DEF cluster_set_state_file, cluster_finit, ClusterCrash, clusterVars
      <3> QED
        BY <1>1, <3>1, <3>2, <3>3, <3>4 DEF ClusterNext
    <2>2. node_count' = 0 => Members' = <<>>
      BY DEF Members
    <2>3. CASE ~has_path
      BY <2>1, <2>2, <2>3 DEF cluster_init, Cleared
    <2>4. CASE has_path
      <3>1. cluster_load_state /\ saved \in Seq(MemberId) /\ Len(saved) <= MAX_NODES /\ Len(saved) \in Nat
        BY <1>1, <2>1, <2>4, LenProperties DEF cluster_init, ClusterInvariant, FileIsASave
      <3>2. CASE state_file = <<>>
        BY <2>2, <3>1, <3>2, LoadFinds
      <3>3. CASE state_file # <<>>
        <4>1. PICK sid \in NodeId \cup {-1, 0} : state_file = FileText(sid, saved)
          BY <1>1, <3>3 DEF ClusterInvariant, FileIsASave
        <4>2. node_count' = Len(saved) /\ \A i \in 0..(Len(saved) - 1) : table'[i] = saved[i + 1]
          BY <3>1, <4>1, LoadFinds
        <4>3. \A j \in 1..Len(saved) : j - 1 \in 0..(Len(saved) - 1) /\ (j - 1) + 1 = j
          BY <3>1
        <4>4. Members' = [j \in 1..Len(saved) |-> saved[j]]
          BY <4>2, <4>3 DEF Members
        <4>5. saved = [j \in 1..Len(saved) |-> saved[j]]
          BY <3>1
        <4> QED
          BY <4>4, <4>5
      <3> QED
        BY <3>2, <3>3
    <2> QED
      BY <2>3, <2>4
  <1> QED
    BY <1>1, ClusterInvariantHolds, PTL DEF ClusterSpec, RestartFindsASave

=============================================================================
