---------------------------- MODULE DStoreProofs ----------------------------
(***************************************************************************)
(* The distributed store, for any nodes, tables, slots, layers that work   *)
(* and events: what it says of connections and leaders is true.            *)
(***************************************************************************)
EXTENDS DStore, FiniteSetTheorems, SequenceTheorems, WellFoundedInduction, TLAPS

----------------------------------------------------------------------------
(* Constants and lines *)

\* The ids are numbers from 1 on: they differ from -1 and 0.
LEMMA IdFacts ==
    /\ NoNode \notin Node /\ Gone \notin Node /\ NoNode # Gone
    /\ NULL \notin ConnId /\ Idle \notin ConnId /\ NULL # Idle
    /\ MaxNodes \in Nat /\ MaxTerm \in Nat /\ MaxConns \in Nat
    /\ Running \notin Index
    /\ MaxNodes \notin Index
  BY NodesAssumption, LimitAssumption DEF NoNode, Gone, NULL, Idle, ConnId, Running, Index

\* The fields of a line, by its type.
LEMMA LineFields ==
    ASSUME NEW m \in Line
    PROVE  /\ m.type = "HELLO" => m.id \in Node
           /\ m.type = "PROPAGATE_ADD" => m.id \in Node
           /\ m.type = "LEADER" => m.term \in 0..MaxTerm /\ m.leader \in Node
           /\ m.type \in {"PUT", "FORWARD_PUT"} => m.key \in Key /\ m.val \in Val
           /\ m.type \in {"DELETE", "FORWARD_DELETE"} => m.key \in Key
  BY DEF Line

\* The lines that any connection may carry.
LEMMA PlainLines ==
    ASSUME NEW f
    PROVE  /\ \A id \in Node : [type |-> "PROPAGATE_ADD", id |-> id] \in LinesOf(f)
           /\ \A id \in Node \cup {Gone} : [type |-> "PROPAGATE_REMOVE", id |-> id] \in LinesOf(f)
           /\ \A k \in Key : /\ [type |-> "DELETE", key |-> k] \in LinesOf(f)
                             /\ [type |-> "FORWARD_DELETE", key |-> k] \in LinesOf(f)
           /\ \A k \in Key, v \in Val : /\ [type |-> "PUT", key |-> k, val |-> v] \in LinesOf(f)
                                        /\ [type |-> "FORWARD_PUT", key |-> k, val |-> v] \in LinesOf(f)
           /\ KeepAlive \in LinesOf(f)
           /\ \A t \in 0..MaxTerm, l \in Leaders : Leader(t, l) \in LinesOf(f)
  <1>1. \A id \in Node : [type |-> "PROPAGATE_ADD", id |-> id] \in LinesOf(f)
    BY DEF LinesOf, Line
  <1>2. \A id \in Node \cup {Gone} : [type |-> "PROPAGATE_REMOVE", id |-> id] \in LinesOf(f)
    BY DEF LinesOf, Line
  <1>3. \A k \in Key : /\ [type |-> "DELETE", key |-> k] \in LinesOf(f)
                       /\ [type |-> "FORWARD_DELETE", key |-> k] \in LinesOf(f)
    BY DEF LinesOf, Line
  <1>4. \A k \in Key, v \in Val : /\ [type |-> "PUT", key |-> k, val |-> v] \in LinesOf(f)
                                  /\ [type |-> "FORWARD_PUT", key |-> k, val |-> v] \in LinesOf(f)
    BY DEF LinesOf, Line
  <1>5. KeepAlive \in LinesOf(f)
    BY DEF LinesOf, Line, KeepAlive
  <1>6. \A t \in 0..MaxTerm, l \in Leaders : Leader(t, l) \in LinesOf(f)
    <2>1. \A l \in Leaders : l \in Node
      BY DEF Leaders
    <2> QED
      BY <2>1 DEF LinesOf, Line, Leader
  <1> QED
    BY <1>1, <1>2, <1>3, <1>4, <1>5, <1>6

\* A line without a HELLO may go over any connection.
LEMMA LinesWiden ==
    ASSUME NEW f, NEW q \in Seq(LinesOf(NoNode))
    PROVE  q \in Seq(LinesOf(f)) /\ q \in Seq(Line)
  <1>1. LinesOf(NoNode) \subseteq LinesOf(f)
    BY IdFacts, LineFields DEF LinesOf
  <1>2. LinesOf(NoNode) \subseteq Line
    BY DEF LinesOf
  <1> QED
    BY <1>1, <1>2, SeqMonotonic

----------------------------------------------------------------------------
(* Connections whose lines are true, and what sending does to them *)

GoodLines(k) == k.up \in Seq(LinesOf(k.from)) /\ k.down \in Seq(LinesOf(NoNode))
GoodConns(cs) == cs \in [ConnId -> Connection] /\ \A c \in ConnId : GoodLines(cs[c])

SameEnds(cs, ds) ==
    \A c \in ConnId : /\ ds[c].from = cs[c].from /\ ds[c].to = cs[c].to
                      /\ ds[c].client = cs[c].client /\ ds[c].server = cs[c].server

\* Keeping the ends of the connections is transitive.
LEMMA SameEndsTrans ==
    ASSUME NEW a, NEW b, NEW d, SameEnds(a, b), SameEnds(b, d)
    PROVE  SameEnds(a, d)
  BY DEF SameEnds

\* The lines that one kind of sender may send are lines.
LEMMA LinesTyped ==
    ASSUME NEW f, NEW q \in Seq(LinesOf(f))
    PROVE  q \in Seq(Line)
  <1>1. LinesOf(f) \subseteq Line
    BY DEF LinesOf
  <1> QED
    BY <1>1, SeqMonotonic

\* A connection with other lines.
LEMMA WithUp ==
    ASSUME NEW k \in Connection, GoodLines(k), NEW q \in Seq(LinesOf(k.from))
    PROVE  LET d == [k EXCEPT !.up = q]
           IN  /\ d \in Connection /\ GoodLines(d)
               /\ d.from = k.from /\ d.to = k.to /\ d.client = k.client /\ d.server = k.server
  <1>1. q \in Seq(Line)
    BY LinesTyped
  <1> QED
    BY <1>1 DEF Connection, GoodLines

\* Replacing what is under way to the client leaves the rest of a connection.
LEMMA WithDown ==
    ASSUME NEW k \in Connection, GoodLines(k), NEW q \in Seq(LinesOf(NoNode))
    PROVE  LET d == [k EXCEPT !.down = q]
           IN  /\ d \in Connection /\ GoodLines(d)
               /\ d.from = k.from /\ d.to = k.to /\ d.client = k.client /\ d.server = k.server
  <1>1. q \in Seq(Line)
    BY LinesTyped
  <1> QED
    BY <1>1 DEF Connection, GoodLines

\* tcp_client_send adds lines and opens or closes nothing.
LEMMA ClientSends ==
    ASSUME NEW cs, GoodConns(cs), NEW n, NEW I, NEW lines \in Seq(LinesOf(NoNode))
    PROVE  GoodConns(tcp_client_send(cs, n, I, lines)) /\ SameEnds(cs, tcp_client_send(cs, n, I, lines))
  <1> DEFINE ds == tcp_client_send(cs, n, I, lines)
  <1>1. ds = [c \in ConnId |-> ds[c]]
    BY DEF tcp_client_send
  <1>2. ASSUME NEW c \in ConnId
        PROVE  /\ ds[c] \in Connection /\ GoodLines(ds[c])
               /\ ds[c].from = cs[c].from /\ ds[c].to = cs[c].to
               /\ ds[c].client = cs[c].client /\ ds[c].server = cs[c].server
    <2>1. cs[c] \in Connection /\ GoodLines(cs[c])
      BY DEF GoodConns
    <2>2. lines \in Seq(LinesOf(cs[c].from))
      BY LinesWiden
    <2>3. cs[c].up \o lines \in Seq(LinesOf(cs[c].from))
      BY <2>1, <2>2, ConcatProperties DEF GoodLines
    <2>4. ds[c] = [cs[c] EXCEPT !.up = cs[c].up \o lines] \/ ds[c] = cs[c]
      BY DEF tcp_client_send
    <2>5. PICK q \in Seq(LinesOf(cs[c].from)) : q = cs[c].up \o lines
      BY <2>3
    <2>6. PICK k : k = [cs[c] EXCEPT !.up = q]
      OBVIOUS
    <2>7. /\ k \in Connection /\ GoodLines(k)
          /\ k.from = cs[c].from /\ k.to = cs[c].to /\ k.client = cs[c].client /\ k.server = cs[c].server
      BY <2>1, <2>6, WithUp
    <2>8. ds[c] = k \/ ds[c] = cs[c]
      BY <2>4, <2>5, <2>6
    <2> HIDE DEF ds
    <2> QED
      BY <2>1, <2>7, <2>8
  <1> HIDE DEF ds
  <1>3. ds \in [ConnId -> Connection]
    BY <1>1, <1>2
  <1> QED
    BY <1>2, <1>3 DEF GoodConns, SameEnds, ds

\* tcp_server_send adds lines and opens or closes nothing.
LEMMA ServerSends ==
    ASSUME NEW cs, GoodConns(cs), NEW n, NEW S, NEW lines \in Seq(LinesOf(NoNode))
    PROVE  GoodConns(tcp_server_send(cs, n, S, lines)) /\ SameEnds(cs, tcp_server_send(cs, n, S, lines))
  <1> DEFINE ds == tcp_server_send(cs, n, S, lines)
  <1>1. ds = [c \in ConnId |-> ds[c]]
    BY DEF tcp_server_send
  <1>2. ASSUME NEW c \in ConnId
        PROVE  /\ ds[c] \in Connection /\ GoodLines(ds[c])
               /\ ds[c].from = cs[c].from /\ ds[c].to = cs[c].to
               /\ ds[c].client = cs[c].client /\ ds[c].server = cs[c].server
    <2>1. cs[c] \in Connection /\ GoodLines(cs[c])
      BY DEF GoodConns
    <2>2. cs[c].down \o lines \in Seq(LinesOf(NoNode))
      BY <2>1, ConcatProperties DEF GoodLines
    <2>3. ds[c] = [cs[c] EXCEPT !.down = cs[c].down \o lines] \/ ds[c] = cs[c]
      BY DEF tcp_server_send
    <2>4. PICK q \in Seq(LinesOf(NoNode)) : q = cs[c].down \o lines
      BY <2>2
    <2>5. PICK k : k = [cs[c] EXCEPT !.down = q]
      OBVIOUS
    <2>6. /\ k \in Connection /\ GoodLines(k)
          /\ k.from = cs[c].from /\ k.to = cs[c].to /\ k.client = cs[c].client /\ k.server = cs[c].server
      BY <2>1, <2>5, WithDown
    <2>7. ds[c] = k \/ ds[c] = cs[c]
      BY <2>3, <2>4, <2>5
    <2> HIDE DEF ds
    <2> QED
      BY <2>1, <2>6, <2>7
  <1> HIDE DEF ds
  <1>3. ds \in [ConnId -> Connection]
    BY <1>1, <1>2
  <1> QED
    BY <1>2, <1>3 DEF GoodConns, SameEnds, ds

\* dstore_send_message adds one line and opens or closes nothing.
LEMMA MessageSent ==
    ASSUME NEW cs, GoodConns(cs), NEW n, NEW I, NEW line \in LinesOf(NoNode)
    PROVE  GoodConns(dstore_send_message(cs, n, I, line)) /\ SameEnds(cs, dstore_send_message(cs, n, I, line))
  <1>1. <<line>> \in Seq(LinesOf(NoNode))
    OBVIOUS
  <1> QED
    BY <1>1, ClientSends DEF dstore_send_message

\* The line at the head of a queue is taken.
LEMMA LineTaken ==
    ASSUME NEW cs, GoodConns(cs), NEW c \in ConnId
    PROVE  /\ cs[c].up # <<>> => LET ds == [cs EXCEPT ![c].up = Tail(@)]
                                 IN  /\ GoodConns(ds) /\ SameEnds(cs, ds)
                                     /\ Head(cs[c].up) \in LinesOf(cs[c].from)
           /\ cs[c].down # <<>> => LET ds == [cs EXCEPT ![c].down = Tail(@)]
                                   IN  /\ GoodConns(ds) /\ SameEnds(cs, ds)
                                       /\ Head(cs[c].down) \in LinesOf(NoNode)
  <1>1. cs \in [ConnId -> Connection] /\ \A d \in ConnId : GoodLines(cs[d])
    BY DEF GoodConns
  <1>2. cs[c].up \in Seq(LinesOf(cs[c].from)) /\ cs[c].down \in Seq(LinesOf(NoNode)) /\ cs[c] \in Connection
    BY <1>1 DEF GoodLines
  <1>3. ASSUME cs[c].up # <<>>
        PROVE  LET ds == [cs EXCEPT ![c].up = Tail(@)]
               IN  /\ GoodConns(ds) /\ SameEnds(cs, ds)
                   /\ Head(cs[c].up) \in LinesOf(cs[c].from)
    <2>1. Tail(cs[c].up) \in Seq(LinesOf(cs[c].from)) /\ Head(cs[c].up) \in LinesOf(cs[c].from)
      BY <1>2, <1>3, HeadTailProperties
    <2>2. PICK k : k = [cs[c] EXCEPT !.up = Tail(cs[c].up)]
      OBVIOUS
    <2>3. /\ k \in Connection /\ GoodLines(k)
          /\ k.from = cs[c].from /\ k.to = cs[c].to /\ k.client = cs[c].client /\ k.server = cs[c].server
      BY <1>1, <1>2, <2>1, <2>2, WithUp
    <2>4. [cs EXCEPT ![c].up = Tail(@)] = [cs EXCEPT ![c] = k]
      BY <1>1, <2>2
    <2>5. GoodConns([cs EXCEPT ![c] = k]) /\ SameEnds(cs, [cs EXCEPT ![c] = k])
      BY <1>1, <2>3 DEF GoodConns, SameEnds
    <2> QED
      BY <2>1, <2>4, <2>5
  <1>4. ASSUME cs[c].down # <<>>
        PROVE  LET ds == [cs EXCEPT ![c].down = Tail(@)]
               IN  /\ GoodConns(ds) /\ SameEnds(cs, ds)
                   /\ Head(cs[c].down) \in LinesOf(NoNode)
    <2>1. Tail(cs[c].down) \in Seq(LinesOf(NoNode)) /\ Head(cs[c].down) \in LinesOf(NoNode)
      BY <1>2, <1>4, HeadTailProperties
    <2>2. PICK k : k = [cs[c] EXCEPT !.down = Tail(cs[c].down)]
      OBVIOUS
    <2>3. /\ k \in Connection /\ GoodLines(k)
          /\ k.from = cs[c].from /\ k.to = cs[c].to /\ k.client = cs[c].client /\ k.server = cs[c].server
      BY <1>1, <1>2, <2>1, <2>2, WithDown
    <2>4. [cs EXCEPT ![c].down = Tail(@)] = [cs EXCEPT ![c] = k]
      BY <1>1, <2>2
    <2>5. GoodConns([cs EXCEPT ![c] = k]) /\ SameEnds(cs, [cs EXCEPT ![c] = k])
      BY <1>1, <2>3 DEF GoodConns, SameEnds
    <2> QED
      BY <2>1, <2>4, <2>5
  <1> QED
    BY <1>3, <1>4

----------------------------------------------------------------------------
(* The table of nodes *)

\* The least number with a property.
LEMMA Least ==
    ASSUME NEW M \in SUBSET Nat, M # {}
    PROVE  \E x \in M : \A y \in M : ~(y < x)
  <1>1. PICK R : R = OpToRel(<, Nat)
    OBVIOUS
  <1>2. PICK x \in M : \A y \in M : ~(<<y, x>> \in R)
    BY <1>1, NatLessThanWellFounded, WFMin
  <1>3. \A a, b \in Nat : <<b, a>> \in R <=> b < a
    BY <1>1 DEF OpToRel
  <1>4. \A y \in M : ~(y < x)
    BY <1>2, <1>3, Zenon
  <1> QED
    BY <1>4

IsFirst(q, id, i) == /\ i \in 0..(Len(q) - 1) /\ q[i + 1] = id
                     /\ \A j \in 0..(i - 1) : q[j + 1] # id
First(q, id) == CHOOSE i \in 0..(Len(q) - 1) : q[i + 1] = id /\ \A j \in 0..(i - 1) : q[j + 1] # id

\* An id that is in a table has a first index, and only one.
LEMMA FirstFound ==
    ASSUME NEW q \in Seq(Node), NEW id, NEW k \in 0..(Len(q) - 1), q[k + 1] = id
    PROVE  IsFirst(q, id, First(q, id)) /\ \A i : IsFirst(q, id, i) => i = First(q, id)
  <1>1. Len(q) \in Nat
    BY LenProperties
  <1>2. \E i \in 0..(Len(q) - 1) : q[i + 1] = id /\ \A j \in 0..(i - 1) : q[j + 1] # id
    <2>1. PICK M : M = {i \in 0..(Len(q) - 1) : q[i + 1] = id}
      OBVIOUS
    <2>2. M \in SUBSET Nat /\ k \in M
      BY <1>1, <2>1
    <2>3. PICK x \in M : \A y \in M : ~(y < x)
      BY <2>2, Least
    <2>4. x \in 0..(Len(q) - 1) /\ q[x + 1] = id
      BY <2>1
    <2>5. ASSUME NEW j \in 0..(x - 1) PROVE q[j + 1] # id
      <3>1. j \in 0..(Len(q) - 1) /\ j < x
        BY <1>1, <2>4
      <3> QED
        BY <2>1, <2>3, <3>1
    <2> QED
      BY <2>4, <2>5
  <1>3. IsFirst(q, id, First(q, id))
    BY <1>2 DEF First, IsFirst
  <1>4. ASSUME NEW i, IsFirst(q, id, i) PROVE i = First(q, id)
    <2>1. PICK f : f = First(q, id)
      OBVIOUS
    <2>2. f \in Nat /\ i \in Nat
      BY <1>1, <1>3, <1>4, <2>1 DEF IsFirst
    <2>3. ~(f < i) /\ ~(i < f)
      BY <1>3, <1>4, <2>1, <2>2 DEF IsFirst
    <2> QED
      BY <2>1, <2>2, <2>3
  <1> QED
    BY <1>3, <1>4

\* find_node_index_by_id gives the first index of an id, in the table if the id is.
LEMMA FindFacts ==
    ASSUME TypeOK, NEW n \in Node, NEW id
    PROVE  /\ id \in Known(n) =>
                 /\ find_node_index_by_id(n, id) = First(nodes[n], id)
                 /\ IsFirst(nodes[n], id, find_node_index_by_id(n, id))
                 /\ find_node_index_by_id(n, id) \in InTable(n)
                 /\ find_node_index_by_id(n, id) \in Index
                 /\ find_node_index_by_id(n, id) # MaxNodes
                 /\ node_id(n, find_node_index_by_id(n, id)) = id
                 /\ id \in Node
           /\ id \notin Known(n) => find_node_index_by_id(n, id) = MaxNodes
           /\ \A i \in InTable(n) : i \in Index /\ node_id(n, i) \in Known(n) /\ node_id(n, i) \in Node
  <1>1. nodes[n] \in Seq(Node) /\ Len(nodes[n]) \in Nat /\ Len(nodes[n]) <= MaxNodes /\ MaxNodes \in Nat
    BY IdFacts, LenProperties DEF TypeOK
  <1>2. \A i \in InTable(n) : i \in Index /\ node_id(n, i) \in Known(n) /\ node_id(n, i) \in Node
    <2>1. \A i \in InTable(n) : i + 1 \in 1..Len(nodes[n])
      BY <1>1 DEF InTable
    <2> QED
      BY <1>1, <2>1, ElementOfSeq DEF InTable, Index, node_id, Known
  <1>3. ASSUME id \in Known(n)
        PROVE  /\ find_node_index_by_id(n, id) = First(nodes[n], id)
               /\ IsFirst(nodes[n], id, find_node_index_by_id(n, id))
               /\ find_node_index_by_id(n, id) \in InTable(n)
               /\ node_id(n, find_node_index_by_id(n, id)) = id
               /\ id \in Node
    <2>1. PICK k \in InTable(n) : node_id(n, k) = id
      BY <1>3 DEF Known
    <2>2. find_node_index_by_id(n, id) = First(nodes[n], id)
      BY <1>3 DEF find_node_index_by_id, First, InTable, node_id
    <2>3. IsFirst(nodes[n], id, First(nodes[n], id))
      BY <1>1, <2>1, FirstFound DEF InTable, node_id
    <2> QED
      BY <1>2, <2>1, <2>2, <2>3 DEF IsFirst, InTable, node_id
  <1>4. id \notin Known(n) => find_node_index_by_id(n, id) = MaxNodes
    BY DEF find_node_index_by_id
  <1> QED
    BY <1>2, <1>3, <1>4, IdFacts

\* A node that is appended to a table leaves the indices of the others alone.
LEMMA FindAppend ==
    ASSUME TypeOK, NEW n \in Node, NEW x \in Node, nodes'[n] = Append(nodes[n], x), NEW i \in InTable(n)
    PROVE  /\ i \in InTable(n)' /\ node_id(n, i)' = node_id(n, i)
           /\ find_node_index_by_id(n, node_id(n, i)) = i => find_node_index_by_id(n, node_id(n, i))' = i
  <1>1. nodes[n] \in Seq(Node) /\ Len(nodes[n]) \in Nat
    BY LenProperties DEF TypeOK
  <1>2. /\ nodes'[n] \in Seq(Node) /\ Len(nodes'[n]) = Len(nodes[n]) + 1
        /\ \A j \in 1..Len(nodes[n]) : nodes'[n][j] = nodes[n][j]
    BY <1>1, AppendProperties
  <1>3. i \in 0..(Len(nodes[n]) - 1) /\ i \in 0..(Len(nodes'[n]) - 1) /\ i + 1 \in 1..Len(nodes[n])
    BY <1>1, <1>2 DEF InTable
  <1>4. i \in InTable(n)' /\ node_id(n, i)' = node_id(n, i)
    BY <1>2, <1>3 DEF InTable, node_id
  <1>5. ASSUME find_node_index_by_id(n, node_id(n, i)) = i
        PROVE  find_node_index_by_id(n, node_id(n, i))' = i
    <2>1. PICK id : id = node_id(n, i)
      OBVIOUS
    <2>2. IsFirst(nodes[n], id, i)
      BY <1>5, <2>1, FindFacts
    <2>3. \A j \in 0..(i - 1) : j + 1 \in 1..Len(nodes[n])
      BY <1>1, <1>3
    <2>4. IsFirst(nodes'[n], id, i)
      BY <1>2, <1>3, <2>2, <2>3 DEF IsFirst
    <2>5. i = First(nodes'[n], id)
      <3>1. PICK q \in Seq(Node) : q = nodes'[n]
        BY <1>2
      <3>2. i \in 0..(Len(q) - 1) /\ q[i + 1] = id /\ IsFirst(q, id, i)
        BY <1>3, <2>4, <3>1 DEF IsFirst
      <3>3. i = First(q, id)
        BY <3>2, FirstFound
      <3> QED
        BY <3>1, <3>3
    <2>6. id = node_id(n, i)'
      BY <1>4, <2>1
    <2>7. id \in Known(n)'
      BY <1>4, <2>6 DEF Known
    <2>8. find_node_index_by_id(n, node_id(n, i))' = First(nodes'[n], id)
      BY <2>6, <2>7 DEF find_node_index_by_id, First, InTable, node_id
    <2> QED
      BY <2>5, <2>8
  <1> QED
    BY <1>4, <1>5

----------------------------------------------------------------------------
(* Commands *)

StateFiles(fs) == fs \in [Node -> StateFile] /\ \A n \in Node : fs[n].leader \in Leaders \cup {NoNode}

\* The table of n stays, or gets a node it did not have.
TableGrows(n) ==
    \/ nodes' = nodes
    \/ \E id \in Node : /\ id \notin Known(n) /\ Len(nodes[n]) < MaxNodes
                        /\ nodes' = [nodes EXCEPT ![n] = Append(@, id)]

\* Clients are made, none is connected.
ClientsMade ==
    /\ tcp_clients' \in [Node -> [Index -> ConnId \cup {NULL, Idle}]]
    /\ \A n \in Node, i \in Index :
          \/ tcp_clients'[n][i] = tcp_clients[n][i]
          \/ tcp_clients[n][i] = NULL /\ tcp_clients'[n][i] = Idle

\* A node gets a value only if it may: allowed says which.
StoreGrows(allowed) ==
    /\ store' \in [Node -> [Key -> Val \cup {NoVal}]]
    /\ \A n \in Node, k \in Key : store'[n][k] # NoVal => store[n][k] # NoVal \/ n \in allowed

\* All that a command may do.
CommandEffect(n) ==
    /\ GoodConns(conns') /\ SameEnds(conns, conns')
    /\ TableGrows(n) /\ StateFiles(file') /\ StoreGrows(Leaders) /\ ClientsMade

StoreInvariant == TypeOK /\ LinesAreTrue /\ FilesAreTrue

\* The invariant, as the lemmas about commands need it.
LEMMA ConnsGood ==
    ASSUME StoreInvariant
    PROVE  GoodConns(conns) /\ StateFiles(file) /\ StateFiles(proto)
  BY DEF StoreInvariant, TypeOK, LinesAreTrue, FilesAreTrue, GoodConns, GoodLines, StateFiles

\* Connections that do not change keep their ends.
LEMMA SameEndsSelf == \A cs : SameEnds(cs, cs)
  BY DEF SameEnds

\* A leader that is found in rale.state was elected.
LEMMA LeaderFound ==
    ASSUME StoreInvariant, NEW n \in Node
    PROVE  /\ dstore_get_current_leader(n) \in Leaders \cup {NoNode}
           /\ dstore_is_current_leader(n) => n \in Leaders
  <1>1. dstore_get_current_leader(n) \in Leaders \cup {NoNode}
    BY ConnsGood DEF StateFiles, dstore_get_current_leader
  <1> QED
    BY <1>1, IdFacts DEF dstore_is_current_leader

\* A snapshot has members and an elected leader.
LEMMA SnapshotTrue ==
    ASSUME StoreInvariant, NEW n \in Node
    PROVE  Snapshot(n) \in Seq(LinesOf(NoNode))
  <1> DEFINE l == dstore_get_current_leader(n)
             adds == [j \in 1..Len(nodes[n]) |-> [type |-> "PROPAGATE_ADD", id |-> nodes[n][j]]]
             ends == IF l = NoNode THEN <<>> ELSE <<Leader(0, l)>>
  <1>1. nodes[n] \in Seq(Node) /\ Len(nodes[n]) \in Nat
    BY LenProperties DEF StoreInvariant, TypeOK
  <1>2. adds \in Seq(LinesOf(NoNode))
    <2>1. \A j \in 1..Len(nodes[n]) : nodes[n][j] \in Node
      BY <1>1, ElementOfSeq
    <2>2. \A id \in Node : [type |-> "PROPAGATE_ADD", id |-> id] \in LinesOf(NoNode)
      BY PlainLines
    <2>3. adds \in [1..Len(nodes[n]) -> LinesOf(NoNode)]
      BY <2>1, <2>2
    <2> HIDE DEF adds
    <2> QED
      BY <1>1, <2>3, SeqDef
  <1>3. ends \in Seq(LinesOf(NoNode))
    <2>1. l \in Leaders \cup {NoNode} /\ 0 \in 0..MaxTerm
      BY LeaderFound, IdFacts
    <2>2. l # NoNode => Leader(0, l) \in LinesOf(NoNode)
      BY <2>1, PlainLines
    <2> HIDE DEF l
    <2> QED
      BY <2>2
  <1>4. Snapshot(n) = adds \o ends
    BY DEF Snapshot
  <1> HIDE DEF adds, ends
  <1> QED
    BY <1>2, <1>3, <1>4, ConcatProperties

\* A command that is refused changes nothing but the answer under way.
LEMMA RejectedEffect ==
    ASSUME StoreInvariant, NEW n \in Node, NEW cs, GoodConns(cs), SameEnds(conns, cs), Rejected(cs)
    PROVE  CommandEffect(n)
  BY ConnsGood DEF Rejected, CommandEffect, TableGrows, StoreGrows, ClientsMade, StoreInvariant, TypeOK

\* dstore_client_init makes clients that are not connected.
LEMMA ClientsEffect ==
    ASSUME TypeOK, NEW n \in Node, NEW I, Clients(n, I)
    PROVE  ClientsMade
  <1>1. tcp_clients \in [Node -> [Index -> ConnId \cup {NULL, Idle}]]
    BY DEF TypeOK
  <1>2. tcp_clients' = [tcp_clients EXCEPT ![n] = [i \in Index |->
            IF i \in I /\ tcp_clients[n][i] = NULL /\ tcp_client_init THEN Idle ELSE tcp_clients[n][i]]]
    BY DEF Clients
  <1> QED
    BY <1>1, <1>2 DEF ClientsMade

\* A put in the table gives a value to the node that puts, if it may have one.
LEMMA InsertEffect ==
    ASSUME TypeOK, NEW n \in Node, NEW k \in Key, NEW v \in Val \cup {NoVal}, Insert(n, k, v), NEW allowed,
           v # NoVal => n \in allowed
    PROVE  StoreGrows(allowed)
  <1>1. store \in [Node -> [Key -> Val \cup {NoVal}]]
    BY DEF TypeOK
  <1>2. store' = store \/ store' = [store EXCEPT ![n][k] = v]
    BY DEF Insert
  <1>3. CASE store' = store
    BY <1>1, <1>3 DEF StoreGrows
  <1>4. CASE store' = [store EXCEPT ![n][k] = v]
    <2>1. store' \in [Node -> [Key -> Val \cup {NoVal}]]
      BY <1>1, <1>4
    <2>2. \A m \in Node, j \in Key : store'[m][j] = IF m = n /\ j = k THEN v ELSE store[m][j]
      BY <1>1, <1>4
    <2> QED
      BY <2>1, <2>2 DEF StoreGrows
  <1> QED
    BY <1>2, <1>3, <1>4

\* A command that is forwarded is a line under way.
LEMMA ForwardEffect ==
    ASSUME NEW n \in Node, NEW cs, GoodConns(cs), NEW line \in LinesOf(NoNode), Forward(n, cs, line)
    PROVE  GoodConns(conns') /\ SameEnds(cs, conns')
  <1>1. PICK I : conns' = dstore_send_message(cs, n, I, line) \/ conns' = cs
    BY DEF Forward
  <1> QED
    BY <1>1, MessageSent, SameEndsSelf

\* PUT and FORWARD_PUT store at an elected leader or are forwarded to one.
LEMMA PutEffect ==
    ASSUME StoreInvariant, NEW n \in Node, NEW cs, GoodConns(cs), SameEnds(conns, cs),
           NEW k \in Key, NEW v \in Val, PutCommand(n, cs, k, v)
    PROVE  CommandEffect(n)
  <1>1. TableGrows(n) /\ StateFiles(file')
    BY ConnsGood DEF PutCommand, TableGrows
  <1>2. CASE /\ dstore_is_current_leader(n)
             /\ Insert(n, k, v)
             /\ dstore_replicate_to_followers(n, cs, k, v)
    <2>1. StoreGrows(Leaders)
      BY <1>2, InsertEffect, LeaderFound DEF StoreInvariant
    <2>2. ClientsMade
      BY <1>2, ClientsEffect DEF StoreInvariant, dstore_replicate_to_followers
    <2>3. PICK I, line : line \in LinesOf(NoNode) /\ conns' = dstore_send_message(cs, n, I, line)
      BY <1>2, PlainLines DEF dstore_replicate_to_followers
    <2>4. GoodConns(conns') /\ SameEnds(conns, conns')
      BY <2>3, MessageSent, SameEndsTrans
    <2> QED
      BY <1>1, <2>1, <2>2, <2>4 DEF CommandEffect
  <1>3. CASE /\ Forward(n, cs, [type |-> "FORWARD_PUT", key |-> k, val |-> v])
             /\ UNCHANGED <<store, tcp_clients>>
    <2>1. [type |-> "FORWARD_PUT", key |-> k, val |-> v] \in LinesOf(NoNode)
      BY PlainLines
    <2>2. GoodConns(conns') /\ SameEnds(conns, conns')
      BY <1>3, <2>1, ForwardEffect, SameEndsTrans
    <2>3. StoreGrows(Leaders) /\ ClientsMade
      BY <1>3 DEF StoreGrows, ClientsMade, StoreInvariant, TypeOK
    <2> QED
      BY <1>1, <2>2, <2>3 DEF CommandEffect
  <1> QED
    BY <1>2, <1>3 DEF PutCommand

\* DELETE and FORWARD_DELETE store nothing.
LEMMA DeleteEffect ==
    ASSUME StoreInvariant, NEW n \in Node, NEW cs, GoodConns(cs), SameEnds(conns, cs),
           NEW k \in Key, NEW forwarded, DeleteCommand(n, cs, k, forwarded)
    PROVE  CommandEffect(n)
  <1>1. TableGrows(n) /\ StateFiles(file') /\ ClientsMade
    BY ConnsGood DEF DeleteCommand, TableGrows, ClientsMade, StoreInvariant, TypeOK
  <1>2. CASE /\ Insert(n, k, NoVal)
             /\ conns' = dstore_send_message(cs, n, {i \in InTable(n) : node_id(n, i) # n},
                                             [type |-> "DELETE", key |-> k])
    <2>1. StoreGrows(Leaders)
      BY <1>2, InsertEffect DEF StoreInvariant
    <2>2. [type |-> "DELETE", key |-> k] \in LinesOf(NoNode)
      BY PlainLines
    <2>3. GoodConns(conns') /\ SameEnds(conns, conns')
      BY <1>2, <2>2, MessageSent, SameEndsTrans
    <2> QED
      BY <1>1, <2>1, <2>3 DEF CommandEffect
  <1>3. CASE Forward(n, cs, [type |-> "FORWARD_DELETE", key |-> k]) /\ UNCHANGED store
    <2>1. [type |-> "FORWARD_DELETE", key |-> k] \in LinesOf(NoNode)
      BY PlainLines
    <2>2. GoodConns(conns') /\ SameEnds(conns, conns')
      BY <1>3, <2>1, ForwardEffect, SameEndsTrans
    <2>3. StoreGrows(Leaders)
      BY <1>3 DEF StoreGrows, StoreInvariant, TypeOK
    <2> QED
      BY <1>1, <2>2, <2>3 DEF CommandEffect
  <1> QED
    BY <1>2, <1>3 DEF DeleteCommand

\* LEADER writes the name of an elected leader into rale.state.
LEMMA LeaderEffect ==
    ASSUME StoreInvariant, NEW n \in Node, NEW cs, GoodConns(cs), SameEnds(conns, cs),
           NEW t \in 0..MaxTerm, NEW l \in Leaders, LeaderCommand(n, cs, t, l)
    PROVE  CommandEffect(n)
  <1>1. StateFiles(file')
    <2>1. file' = file \/ file' = [file EXCEPT ![n] = [term |-> t, vote |-> file[n].vote, leader |-> l]]
      BY DEF LeaderCommand, write_rale_state_leader
    <2>2. StateFiles(file) /\ l \in Node
      BY ConnsGood DEF Leaders
    <2>3. PICK e : e = [term |-> t, vote |-> file[n].vote, leader |-> l]
      OBVIOUS
    <2>4. file[n].vote \in Node \cup {NoNode}
      BY <2>2 DEF StateFiles, StateFile
    <2>5. e \in StateFile /\ e.leader \in Leaders
      BY <2>2, <2>3, <2>4 DEF StateFile
    <2>6. file \in [Node -> StateFile] /\ \A m \in Node : file[m].leader \in Leaders \cup {NoNode}
      BY <2>2 DEF StateFiles
    <2>7. StateFiles([file EXCEPT ![n] = e])
      BY <2>5, <2>6 DEF StateFiles
    <2> QED
      BY <2>1, <2>2, <2>3, <2>7
  <1> QED
    BY <1>1 DEF LeaderCommand, CommandEffect, TableGrows, StoreGrows, ClientsMade, StoreInvariant, TypeOK

\* PROPAGATE_ADD appends an id that was not in the table.
LEMMA AddEffect ==
    ASSUME StoreInvariant, NEW n \in Node, NEW cs, GoodConns(cs), SameEnds(conns, cs), NEW id \in Node,
           dstore_handle_propagated_add(n, cs, id)
    PROVE  CommandEffect(n)
  <1>1. nodes[n] \in Seq(Node) /\ Len(nodes[n]) \in Nat /\ MaxNodes \in Nat
    BY LenProperties, IdFacts DEF StoreInvariant, TypeOK
  <1>2. TableGrows(n)
    <2>1. CASE id \in Known(n) \/ Len(nodes[n]) >= MaxNodes
      BY <2>1 DEF dstore_handle_propagated_add, cluster_add_node, TableGrows
    <2>2. CASE ~(id \in Known(n) \/ Len(nodes[n]) >= MaxNodes)
      <3>1. nodes' = [nodes EXCEPT ![n] = Append(@, id)]
        BY <2>2 DEF dstore_handle_propagated_add, cluster_add_node
      <3>2. id \notin Known(n) /\ Len(nodes[n]) < MaxNodes
        BY <1>1, <2>2
      <3> QED
        BY <3>1, <3>2 DEF TableGrows
    <2> QED
      BY <2>1, <2>2
  <1> QED
    BY <1>2, ConnsGood DEF dstore_handle_propagated_add, CommandEffect, StoreGrows, ClientsMade, StoreInvariant, TypeOK

\* dstore_put_from_command, for any line that a connection carries.
LEMMA CommandDone ==
    ASSUME StoreInvariant, NEW n \in Node, NEW cs, GoodConns(cs), SameEnds(conns, cs), NEW f,
           NEW m \in LinesOf(f), dstore_put_from_command(n, cs, m)
    PROVE  CommandEffect(n)
  <1>1. m \in Line /\ (m.type = "LEADER" => m.leader \in Leaders)
    BY DEF LinesOf
  <1>2. CASE Rejected(cs)
    BY <1>2, RejectedEffect
  <1>3. CASE m.type = "LEADER" /\ LeaderCommand(n, cs, m.term, m.leader)
    BY <1>1, <1>3, LineFields, LeaderEffect
  <1>4. CASE m.type = "PROPAGATE_ADD" /\ dstore_handle_propagated_add(n, cs, m.id)
    BY <1>1, <1>4, LineFields, AddEffect
  <1>5. CASE m.type = "PUT" /\ PutCommand(n, cs, m.key, m.val)
    BY <1>1, <1>5, LineFields, PutEffect
  <1> QED
    BY <1>2, <1>3, <1>4, <1>5 DEF dstore_put_from_command, dstore_handle_propagated_remove

\* What a server does with a line is one of the commands.
LEMMA ServerCommandDone ==
    ASSUME StoreInvariant, NEW n \in Node, NEW cs, GoodConns(cs), SameEnds(conns, cs), NEW f,
           NEW m \in LinesOf(f), dstore_server_on_receive(n, cs, m)
    PROVE  CommandEffect(n)
  <1>1. m \in Line
    BY DEF LinesOf
  <1>2. CASE dstore_put_from_command(n, cs, m)
    BY <1>2, CommandDone
  <1>3. CASE m.type \in {"DELETE", "FORWARD_DELETE"} /\ DeleteCommand(n, cs, m.key, m.type = "FORWARD_DELETE")
    BY <1>1, <1>3, LineFields, DeleteEffect
  <1> QED
    BY <1>2, <1>3 DEF dstore_server_on_receive

----------------------------------------------------------------------------
(* Ends of connections *)

\* What a slot and a client need of the connection they hold.
SlotKept(cs, ds, c) == ds[c].from = cs[c].from /\ ds[c].to = cs[c].to /\ ds[c].server = cs[c].server
ClientKept(cs, ds, c) == ds[c].from = cs[c].from /\ ds[c].to = cs[c].to /\ ds[c].client = cs[c].client

\* A connection that is not there is closed at both ends.
LEMMA NoConnectionGood ==
    /\ NoConnection \in Connection /\ GoodLines(NoConnection)
    /\ ~NoConnection.client /\ NoConnection.server = "closed"
  <1>1. <<>> \in Seq(Line) /\ \A f : <<>> \in Seq(LinesOf(f))
    BY EmptySeq
  <1> QED
    BY <1>1 DEF NoConnection, Connection, GoodLines

\* Connections with the same ends serve the same slots and clients.
LEMMA SameEndsKept ==
    ASSUME NEW cs, NEW ds, SameEnds(cs, ds), NEW c \in ConnId
    PROVE  SlotKept(cs, ds, c) /\ ClientKept(cs, ds, c)
  BY DEF SameEnds, SlotKept, ClientKept

\* Connections with an end that is open are left alone.
LEMMA Tidied ==
    ASSUME NEW cs, GoodConns(cs)
    PROVE  /\ GoodConns(Tidy(cs))
           /\ \A c \in ConnId : cs[c].client \/ cs[c].server # "closed" => Tidy(cs)[c] = cs[c]
  <1> DEFINE ds == Tidy(cs)
  <1>1. ds = [c \in ConnId |-> IF ~cs[c].client /\ cs[c].server = "closed" THEN NoConnection ELSE cs[c]]
    BY DEF Tidy
  <1>2. cs \in [ConnId -> Connection] /\ \A c \in ConnId : GoodLines(cs[c])
    BY DEF GoodConns
  <1>3. \A c \in ConnId : ds[c] = NoConnection \/ ds[c] = cs[c]
    BY <1>1
  <1>4. ds \in [ConnId -> Connection]
    BY <1>1, <1>2, NoConnectionGood
  <1>5. \A c \in ConnId : cs[c].client \/ cs[c].server # "closed" => ds[c] = cs[c]
    BY <1>1
  <1> HIDE DEF ds
  <1>6. \A c \in ConnId : GoodLines(ds[c])
    BY <1>2, <1>3, NoConnectionGood
  <1> QED
    BY <1>4, <1>5, <1>6 DEF GoodConns, ds

\* Closing the server's end disturbs no other slot and no client.
LEMMA ServerCloses ==
    ASSUME NEW cs, GoodConns(cs), NEW c \in ConnId
    PROVE  /\ GoodConns(CloseServer(cs, c))
           /\ \A d \in ConnId : d # c /\ cs[d].server # "closed" => SlotKept(cs, CloseServer(cs, c), d)
           /\ \A d \in ConnId : cs[d].client => ClientKept(cs, CloseServer(cs, c), d)
  <1> DEFINE ds == [cs EXCEPT ![c].server = "closed", ![c].up = <<>>]
  <1>1. cs \in [ConnId -> Connection] /\ \A d \in ConnId : GoodLines(cs[d])
    BY DEF GoodConns
  <1>2. PICK k : k = [cs[c] EXCEPT !.server = "closed", !.up = <<>>]
    OBVIOUS
  <1>3. ds = [cs EXCEPT ![c] = k]
    BY <1>1, <1>2
  <1>4. <<>> \in Seq(Line) /\ <<>> \in Seq(LinesOf(cs[c].from))
    BY EmptySeq
  <1>5. /\ k \in Connection /\ k.from = cs[c].from /\ k.to = cs[c].to /\ k.client = cs[c].client
        /\ k.down = cs[c].down /\ k.up = <<>>
    BY <1>1, <1>2, <1>4 DEF Connection
  <1>6. GoodLines(k)
    BY <1>1, <1>4, <1>5 DEF GoodLines
  <1>7. GoodConns([cs EXCEPT ![c] = k])
    BY <1>1, <1>5, <1>6 DEF GoodConns
  <1>8. PICK es : es = [cs EXCEPT ![c] = k]
    OBVIOUS
  <1>9. CloseServer(cs, c) = Tidy(es)
    BY <1>3, <1>8 DEF CloseServer
  <1>10. \A d \in ConnId : es[d] = IF d = c THEN k ELSE cs[d]
    BY <1>1, <1>8
  <1>11. GoodConns(Tidy(es)) /\ \A d \in ConnId : es[d].client \/ es[d].server # "closed" => Tidy(es)[d] = es[d]
    BY <1>7, <1>8, Tidied
  <1>12. \A d \in ConnId : d # c /\ cs[d].server # "closed" => SlotKept(cs, Tidy(es), d)
    BY <1>10, <1>11 DEF SlotKept
  <1>13. \A d \in ConnId : cs[d].client => ClientKept(cs, Tidy(es), d)
    BY <1>5, <1>10, <1>11 DEF ClientKept
  <1> QED
    BY <1>9, <1>11, <1>12, <1>13

\* Closing the client's end disturbs no slot and no other client.
LEMMA ClientCloses ==
    ASSUME NEW cs, GoodConns(cs), NEW c \in ConnId
    PROVE  /\ GoodConns(CloseClient(cs, c))
           /\ \A d \in ConnId : cs[d].server # "closed" => SlotKept(cs, CloseClient(cs, c), d)
           /\ \A d \in ConnId : d # c /\ cs[d].client => ClientKept(cs, CloseClient(cs, c), d)
  <1> DEFINE ds == [cs EXCEPT ![c].client = FALSE, ![c].down = <<>>]
  <1>1. cs \in [ConnId -> Connection] /\ \A d \in ConnId : GoodLines(cs[d])
    BY DEF GoodConns
  <1>2. PICK k : k = [cs[c] EXCEPT !.client = FALSE, !.down = <<>>]
    OBVIOUS
  <1>3. ds = [cs EXCEPT ![c] = k]
    BY <1>1, <1>2
  <1>4. <<>> \in Seq(Line) /\ <<>> \in Seq(LinesOf(NoNode))
    BY EmptySeq
  <1>5. /\ k \in Connection /\ k.from = cs[c].from /\ k.to = cs[c].to /\ k.server = cs[c].server
        /\ k.up = cs[c].up /\ k.down = <<>>
    BY <1>1, <1>2, <1>4 DEF Connection
  <1>6. GoodLines(k)
    BY <1>1, <1>4, <1>5 DEF GoodLines
  <1>7. GoodConns([cs EXCEPT ![c] = k])
    BY <1>1, <1>5, <1>6 DEF GoodConns
  <1>8. PICK es : es = [cs EXCEPT ![c] = k]
    OBVIOUS
  <1>9. CloseClient(cs, c) = Tidy(es)
    BY <1>3, <1>8 DEF CloseClient
  <1>10. \A d \in ConnId : es[d] = IF d = c THEN k ELSE cs[d]
    BY <1>1, <1>8
  <1>11. GoodConns(Tidy(es)) /\ \A d \in ConnId : es[d].client \/ es[d].server # "closed" => Tidy(es)[d] = es[d]
    BY <1>7, <1>8, Tidied
  <1>12. \A d \in ConnId : cs[d].server # "closed" => SlotKept(cs, Tidy(es), d)
    BY <1>5, <1>10, <1>11 DEF SlotKept
  <1>13. \A d \in ConnId : d # c /\ cs[d].client => ClientKept(cs, Tidy(es), d)
    BY <1>10, <1>11 DEF ClientKept
  <1> QED
    BY <1>9, <1>11, <1>12, <1>13

\* The end of a process closes its own ends only.
LEMMA ProcessCloses ==
    ASSUME GoodConns(conns), NEW n \in Node, Dies(n)
    PROVE  /\ GoodConns(conns')
           /\ \A d \in ConnId : conns[d].server # "closed" /\ conns[d].to # n => SlotKept(conns, conns', d)
           /\ \A d \in ConnId : conns[d].client /\ conns[d].from # n => ClientKept(conns, conns', d)
  <1>1. conns \in [ConnId -> Connection] /\ \A d \in ConnId : GoodLines(conns[d])
    BY DEF GoodConns
  <1>2. PICK es : es = [c \in ConnId |->
                        [conns[c] EXCEPT !.client = @ /\ conns[c].from # n,
                                         !.server = IF conns[c].to = n THEN "closed" ELSE @,
                                         !.down = IF conns[c].from = n THEN <<>> ELSE @,
                                         !.up = IF conns[c].to = n THEN <<>> ELSE @]]
    OBVIOUS
  <1>3. conns' = Tidy(es)
    BY <1>2 DEF Dies
  <1>4. ASSUME NEW d \in ConnId
        PROVE  /\ es[d] \in Connection /\ GoodLines(es[d])
               /\ es[d].from = conns[d].from /\ es[d].to = conns[d].to
               /\ conns[d].from # n => es[d].client = conns[d].client
               /\ conns[d].to # n => es[d].server = conns[d].server
    <2>1. PICK k : k = conns[d]
      OBVIOUS
    <2>2. k \in Connection /\ GoodLines(k)
      BY <1>1, <2>1
    <2>3. es[d] = [k EXCEPT !.client = @ /\ k.from # n,
                            !.server = IF k.to = n THEN "closed" ELSE @,
                            !.down = IF k.from = n THEN <<>> ELSE @,
                            !.up = IF k.to = n THEN <<>> ELSE @]
      BY <1>2, <2>1
    <2>4. <<>> \in Seq(Line) /\ \A f : <<>> \in Seq(LinesOf(f))
      BY EmptySeq
    <2>5. /\ es[d].from = k.from /\ es[d].to = k.to
          /\ es[d].client = (k.client /\ k.from # n)
          /\ es[d].server = IF k.to = n THEN "closed" ELSE k.server
          /\ es[d].down = IF k.from = n THEN <<>> ELSE k.down
          /\ es[d].up = IF k.to = n THEN <<>> ELSE k.up
      BY <2>2, <2>3 DEF Connection
    <2>6. es[d] \in Connection
      BY <2>2, <2>3, <2>4 DEF Connection
    <2>7. GoodLines(es[d])
      BY <2>2, <2>4, <2>5 DEF GoodLines
    <2>8. k.client \in BOOLEAN
      BY <2>2 DEF Connection
    <2> QED
      BY <2>1, <2>5, <2>6, <2>7, <2>8
  <1>5. GoodConns(es)
    <2>1. es \in [ConnId -> Connection]
      BY <1>2, <1>4
    <2> QED
      BY <1>4, <2>1 DEF GoodConns
  <1>6. GoodConns(Tidy(es)) /\ \A d \in ConnId : es[d].client \/ es[d].server # "closed" => Tidy(es)[d] = es[d]
    BY <1>5, Tidied
  <1>7. \A d \in ConnId : conns[d].server # "closed" /\ conns[d].to # n => SlotKept(conns, Tidy(es), d)
    BY <1>4, <1>6 DEF SlotKept
  <1>8. \A d \in ConnId : conns[d].client /\ conns[d].from # n => ClientKept(conns, Tidy(es), d)
    BY <1>4, <1>6 DEF ClientKept
  <1> QED
    BY <1>3, <1>6, <1>7, <1>8

----------------------------------------------------------------------------
(* What keeps the parts of the invariant *)

\* Good connections and state files give the invariant on lines and files.
LEMMA StoreKept ==
    ASSUME StoreInvariant, elected' = elected, GoodConns(conns'), StateFiles(file'), StateFiles(proto')
    PROVE  /\ conns' \in [ConnId -> Connection] /\ file' \in [Node -> StateFile] /\ proto' \in [Node -> StateFile]
           /\ LinesAreTrue' /\ FilesAreTrue'
  <1>1. Leaders' = Leaders
    BY DEF Leaders
  <1>2. LinesAreTrue'
    <2>1. \A c \in ConnId : /\ conns'[c].up \in Seq(LinesOf(conns'[c].from))
                            /\ conns'[c].down \in Seq(LinesOf(NoNode))
      BY DEF GoodConns, GoodLines
    <2>2. \A c \in ConnId : LinesOf(conns[c].from)' = LinesOf(conns'[c].from) /\ LinesOf(NoNode)' = LinesOf(NoNode)
      BY <1>1 DEF LinesOf
    <2> QED
      BY <2>1, <2>2 DEF LinesAreTrue
  <1> QED
    BY <1>1, <1>2 DEF GoodConns, StateFiles, FilesAreTrue

\* Values that only leaders, or direct puts, store keep HoldersWereLeaders.
LEMMA HoldersKept ==
    ASSUME TypeOK, HoldersWereLeaders, elected' = elected, NEW allowed, StoreGrows(allowed),
           \A n \in Node : n \in allowed => n \in Leaders \/ direct'[n],
           \A n \in Node : direct[n] => direct'[n]
    PROVE  HoldersWereLeaders'
  <1>1. \A n \in Leaders : \E t \in 1..MaxTerm : <<t, n>> \in elected
    BY DEF Leaders
  <1> SUFFICES ASSUME NEW n \in Node, NEW k \in Key, store'[n][k] # NoVal
               PROVE  direct'[n] \/ \E t \in 1..MaxTerm : <<t, n>> \in elected
    BY DEF HoldersWereLeaders
  <1> QED
    BY <1>1 DEF HoldersWereLeaders, StoreGrows

\* The mapping of a slot in use stays, is cleared, or is set to the node of its connection.
LEMMA SlotsKept ==
    ASSUME TypeOK, TypeOK', SlotsInStep, MappedSocketsBelong,
           \A n \in Node, s \in Slot : client_socks'[n][s] # Idle =>
               /\ client_socks'[n][s] = client_socks[n][s]
               /\ SlotKept(conns, conns', client_socks[n][s])
               /\ client_socket_to_node'[n][s] \in {client_socket_to_node[n][s], NoNode,
                                                    conns[client_socks[n][s]].from},
           \A n \in Node, s \in Slot :
               client_socks'[n][s] = Idle /\ client_socket_to_node'[n][s] # NoNode => blind'[n]
    PROVE  SlotsInStep' /\ MappedSocketsBelong'
  <1>1. SlotsInStep'
    BY DEF SlotsInStep, SlotKept
  <1>2. MappedSocketsBelong'
    BY DEF MappedSocketsBelong, SlotKept
  <1> QED
    BY <1>1, <1>2

\* The entry of index i stays where it is.
EntryKept(n, i) ==
    i \in InTable(n) =>
        /\ i \in InTable(n)' /\ node_id(n, i)' = node_id(n, i)
        /\ find_node_index_by_id(n, node_id(n, i)) = i => find_node_index_by_id(n, node_id(n, i))' = i

\* Clients whose connection and entry stay remain in step.
LEMMA ClientsKept ==
    ASSUME ClientsInStep,
           \A n \in Node, i \in Index : tcp_clients'[n][i] \in ConnId =>
               /\ tcp_clients'[n][i] = tcp_clients[n][i]
               /\ ClientKept(conns, conns', tcp_clients[n][i])
               /\ removed'[n] \/ (~removed[n] /\ EntryKept(n, i))
    PROVE  ClientsInStep'
  <1> SUFFICES ASSUME NEW n \in Node, NEW i \in Index, tcp_clients'[n][i] \in ConnId
               PROVE  /\ conns'[tcp_clients'[n][i]].from = n /\ conns'[tcp_clients'[n][i]].client
                      /\ \A j \in Index : tcp_clients'[n][j] = tcp_clients'[n][i] => j = i
                      /\ ~removed'[n] => /\ i \in InTable(n)'
                                         /\ conns'[tcp_clients'[n][i]].to = node_id(n, i)'
    BY DEF ClientsInStep
  <1>1. PICK c \in ConnId : c = tcp_clients[n][i] /\ c = tcp_clients'[n][i]
    OBVIOUS
  <1>2. /\ conns[c].from = n /\ conns[c].client
        /\ \A j \in Index : tcp_clients[n][j] = c => j = i
        /\ ~removed[n] => i \in InTable(n) /\ conns[c].to = node_id(n, i)
    BY <1>1 DEF ClientsInStep
  <1>3. conns'[c].from = n /\ conns'[c].client /\ conns'[c].to = conns[c].to
    BY <1>1, <1>2 DEF ClientKept
  <1>4. \A j \in Index : tcp_clients'[n][j] = c => j = i
    BY <1>1, <1>2
  <1>5. ~removed'[n] => i \in InTable(n)' /\ conns'[c].to = node_id(n, i)'
    BY <1>1, <1>2, <1>3 DEF EntryKept
  <1> QED
    BY <1>1, <1>3, <1>4, <1>5

\* A status that is only ever taken back remains in step.
LEMMA StatusKept ==
    ASSUME StatusInStep,
           \A n \in Node, i \in Index : connection_status'[n][i] /\ ~blind'[n] /\ ~removed'[n] =>
               /\ connection_status[n][i] /\ ~blind[n] /\ ~removed[n]
               /\ tcp_clients[n][i] \in ConnId => tcp_clients'[n][i] \in ConnId
               /\ MarkedBySlot(n, i) => MarkedBySlot(n, i)'
    PROVE  StatusInStep'
  BY DEF StatusInStep

\* A slot that marks a peer goes on marking it while entry and mapping stay.
LEMMA MarksKept ==
    ASSUME NEW n \in Node, NEW i \in Index, EntryKept(n, i), MarkedBySlot(n, i),
           \A s \in Slot : client_socket_to_node[n][s] = node_id(n, i)
                               => client_socket_to_node'[n][s] = node_id(n, i)
    PROVE  MarkedBySlot(n, i)'
  BY DEF EntryKept, MarkedBySlot

\* A table that grows at its end keeps its entries.
LEMMA TableKept ==
    ASSUME TypeOK, NEW n \in Node, TableGrows(n)
    PROVE  /\ nodes' \in [Node -> Seq(Node)] /\ \A m \in Node : Len(nodes'[m]) <= MaxNodes
           /\ \A m \in Node, i \in Index : EntryKept(m, i)
  <1>1. nodes \in [Node -> Seq(Node)] /\ \A m \in Node : Len(nodes[m]) <= MaxNodes
    BY DEF TypeOK
  <1>2. ASSUME NEW m \in Node, nodes'[m] = nodes[m], NEW i \in Index PROVE EntryKept(m, i)
    BY <1>2 DEF EntryKept, InTable, node_id, find_node_index_by_id, Known
  <1>3. CASE nodes' = nodes
    BY <1>1, <1>2, <1>3
  <1>4. ASSUME NEW id \in Node, Len(nodes[n]) < MaxNodes, nodes' = [nodes EXCEPT ![n] = Append(@, id)]
        PROVE  /\ nodes' \in [Node -> Seq(Node)] /\ \A m \in Node : Len(nodes'[m]) <= MaxNodes
               /\ \A m \in Node, i \in Index : EntryKept(m, i)
    <2>1. /\ Append(nodes[n], id) \in Seq(Node) /\ Len(Append(nodes[n], id)) = Len(nodes[n]) + 1
          /\ Len(nodes[n]) \in Nat /\ MaxNodes \in Nat
      BY <1>1, AppendProperties, LenProperties, IdFacts
    <2>2. nodes' \in [Node -> Seq(Node)] /\ nodes'[n] = Append(nodes[n], id)
      BY <1>1, <1>4, <2>1
    <2>3. \A m \in Node : m # n => nodes'[m] = nodes[m]
      BY <1>1, <1>4
    <2>4. \A m \in Node : Len(nodes'[m]) <= MaxNodes
      BY <1>1, <1>4, <2>1, <2>2, <2>3
    <2>5. \A i \in Index : EntryKept(n, i)
      BY <1>4, <2>2, FindAppend DEF EntryKept
    <2> QED
      BY <1>2, <2>2, <2>3, <2>4, <2>5
  <1> QED
    BY <1>3, <1>4 DEF TableGrows

----------------------------------------------------------------------------
(* Steps that make and break no connection *)

\* A step that leaves the ends of the connections, the slots and the clients' connections alone.
QuietStep(n, allowed) ==
    /\ GoodConns(conns') /\ SameEnds(conns, conns')
    /\ TableGrows(n) /\ StateFiles(file') /\ StateFiles(proto') /\ ClientsMade
    /\ UNCHANGED <<elected, works, blind, removed, client_socks, client_socket_to_node>>
    /\ up' \in [Node -> BOOLEAN] /\ left' \in [Event -> Nat] /\ waits' \in [Node -> Index \cup {Running}]
    /\ connection_status' \in [Node -> [Index -> BOOLEAN]]
    /\ \A m \in Node, i \in Index : connection_status'[m][i] => connection_status[m][i]
    /\ StoreGrows(allowed) /\ \A m \in Node : m \in allowed => m \in Leaders \/ direct'[m]
    /\ direct' \in [Node -> BOOLEAN] /\ \A m \in Node : direct[m] => direct'[m]

\* A step that opens and closes nothing keeps the invariant.
LEMMA QuietInvariant ==
    ASSUME DStoreInvariant, NEW n \in Node, NEW allowed, QuietStep(n, allowed)
    PROVE  DStoreInvariant'
  <1>1. TypeOK /\ StoreInvariant
    BY DEF DStoreInvariant, StoreInvariant
  <1>2. /\ conns' \in [ConnId -> Connection] /\ file' \in [Node -> StateFile] /\ proto' \in [Node -> StateFile]
        /\ LinesAreTrue' /\ FilesAreTrue'
    BY <1>1, StoreKept DEF QuietStep
  <1>3. /\ nodes' \in [Node -> Seq(Node)] /\ \A m \in Node : Len(nodes'[m]) <= MaxNodes
        /\ \A m \in Node, i \in Index : EntryKept(m, i)
    BY <1>1, TableKept DEF QuietStep
  <1>4. TypeOK'
    BY <1>1, <1>2, <1>3 DEF TypeOK, QuietStep, ClientsMade, StoreGrows
  <1>5. HoldersWereLeaders'
    BY <1>1, HoldersKept DEF DStoreInvariant, QuietStep
  <1>6. SlotsInStep' /\ MappedSocketsBelong'
    <2>1. \A m \in Node, s \in Slot : client_socks[m][s] # Idle => client_socks[m][s] \in ConnId
      BY <1>1 DEF TypeOK
    <2>2. \A m \in Node, s \in Slot : client_socks'[m][s] # Idle =>
               /\ client_socks'[m][s] = client_socks[m][s]
               /\ SlotKept(conns, conns', client_socks[m][s])
               /\ client_socket_to_node'[m][s] = client_socket_to_node[m][s]
      BY <2>1, SameEndsKept DEF QuietStep
    <2>3. \A m \in Node, s \in Slot :
               client_socks'[m][s] = Idle /\ client_socket_to_node'[m][s] # NoNode => blind'[m]
      BY DEF DStoreInvariant, SlotsInStep, QuietStep
    <2> QED
      BY <1>1, <1>4, <2>2, <2>3, SlotsKept DEF DStoreInvariant
  <1>7. \A m \in Node, i \in Index :
            /\ tcp_clients'[m][i] \in ConnId => tcp_clients'[m][i] = tcp_clients[m][i]
            /\ tcp_clients[m][i] \in ConnId => tcp_clients'[m][i] = tcp_clients[m][i]
    BY IdFacts DEF QuietStep, ClientsMade
  <1>8. removed' = removed /\ blind' = blind /\ client_socket_to_node' = client_socket_to_node
    BY DEF QuietStep
  <1>9. ClientsInStep'
    <2>1. \A m \in Node : removed[m] \in BOOLEAN
      BY <1>1 DEF TypeOK
    <2>2. \A m \in Node, i \in Index : tcp_clients'[m][i] \in ConnId =>
               /\ tcp_clients'[m][i] = tcp_clients[m][i]
               /\ ClientKept(conns, conns', tcp_clients[m][i])
               /\ removed'[m] \/ (~removed[m] /\ EntryKept(m, i))
      BY <1>3, <1>7, <1>8, <2>1, SameEndsKept DEF QuietStep
    <2> QED
      BY <2>2, ClientsKept DEF DStoreInvariant
  <1>10. StatusInStep'
    <2>1. \A m \in Node, i \in Index : MarkedBySlot(m, i) => MarkedBySlot(m, i)'
      BY <1>3, <1>8, MarksKept
    <2>2. \A m \in Node, i \in Index : connection_status'[m][i] => connection_status[m][i]
      BY DEF QuietStep
    <2> QED
      BY <1>7, <1>8, <2>1, <2>2, StatusKept DEF DStoreInvariant
  <1> QED
    BY <1>2, <1>4, <1>5, <1>6, <1>9, <1>10 DEF DStoreInvariant

\* An event that happens is counted down.
LEMMA HappensTyped ==
    ASSUME TypeOK, NEW e \in Event, Happens(e)
    PROVE  left' \in [Event -> Nat]
  <1>1. left \in [Event -> Nat] /\ left[e] > 0
    BY DEF TypeOK, Happens
  <1>2. left[e] - 1 \in Nat
    BY <1>1
  <1> QED
    BY <1>1, <1>2 DEF Happens

\* A command, whichever side it came from.
LEMMA CommandStep ==
    ASSUME DStoreInvariant, NEW n \in Node, CommandEffect(n),
           UNCHANGED <<envVars, client_socks, client_socket_to_node, connection_status>>,
           waits' \in [Node -> Index \cup {Running}]
    PROVE  DStoreInvariant'
  <1>1. TypeOK /\ StoreInvariant
    BY DEF DStoreInvariant, StoreInvariant
  <1>2. StateFiles(proto')
    BY <1>1, ConnsGood DEF envVars
  <1>3. QuietStep(n, Leaders)
    BY <1>1, <1>2 DEF CommandEffect, QuietStep, envVars, TypeOK
  <1> QED
    BY <1>3, QuietInvariant

\* What the invariant says of parts that a step leaves alone.
LEMMA Unchanging ==
    ASSUME DStoreInvariant
    PROVE  /\ TypeOK /\ StoreInvariant
           /\ GoodConns(conns) /\ SameEnds(conns, conns) /\ StateFiles(file) /\ StateFiles(proto)
           /\ tcp_clients' = tcp_clients => ClientsMade
           /\ store' = store => StoreGrows({})
           /\ \A n : nodes' = nodes => TableGrows(n)
  <1>1. TypeOK /\ StoreInvariant
    BY DEF DStoreInvariant, StoreInvariant
  <1>2. tcp_clients' = tcp_clients => ClientsMade
    BY <1>1 DEF ClientsMade, TypeOK
  <1>3. store' = store => StoreGrows({})
    BY <1>1 DEF StoreGrows, TypeOK
  <1> QED
    BY <1>1, <1>2, <1>3, ConnsGood, SameEndsSelf DEF TableGrows

\* Start keeps the invariant: the store's file names elected leaders.
LEMMA StartStep ==
    ASSUME DStoreInvariant, NEW n \in Node, Start(n)
    PROVE  DStoreInvariant'
  <1>1. StateFiles(proto')
    <2>1. proto' = proto \/ proto' = [proto EXCEPT ![n] = file[n]]
      BY DEF Start
    <2>2. StateFiles([proto EXCEPT ![n] = file[n]])
      BY Unchanging DEF StateFiles
    <2> QED
      BY <2>1, <2>2, Unchanging
  <1>2. up' \in [Node -> BOOLEAN]
    BY Unchanging DEF Start, TypeOK
  <1>3. QuietStep(n, {})
    BY <1>1, <1>2, Unchanging DEF Start, QuietStep, linkVars, TypeOK
  <1> QED
    BY <1>3, QuietInvariant

\* A line that a client receives.
LEMMA ReceiveStep ==
    ASSUME DStoreInvariant, NEW n \in Node, NEW i \in Index, Receive(n, i), UNCHANGED envVars
    PROVE  DStoreInvariant'
  <1>1. PICK c \in ConnId : c = tcp_clients[n][i]
    BY DEF Receive
  <1>2. PICK cs : cs = [conns EXCEPT ![c].down = Tail(@)]
    OBVIOUS
  <1>3. PICK m : m = Head(conns[c].down)
    OBVIOUS
  <1>4. conns[c].down # <<>> /\ dstore_put_from_command(n, cs, m)
    BY <1>1, <1>2, <1>3 DEF Receive
  <1>5. GoodConns(cs) /\ SameEnds(conns, cs) /\ m \in LinesOf(NoNode)
    BY <1>2, <1>3, <1>4, Unchanging, LineTaken
  <1>6. CommandEffect(n)
    BY <1>4, <1>5, Unchanging, CommandDone
  <1>7. waits' \in [Node -> Index \cup {Running}]
    BY Unchanging DEF Receive, TypeOK
  <1> QED
    BY <1>6, <1>7, CommandStep DEF Receive

\* A client that waits in recv.
LEMMA WaitStep ==
    ASSUME DStoreInvariant, NEW n \in Node, NEW i \in Index, Wait(n, i), UNCHANGED <<envVars, nodes, store, file>>
    PROVE  DStoreInvariant'
  <1>1. waits' \in [Node -> Index \cup {Running}]
    BY Unchanging DEF Wait, TypeOK
  <1>2. QuietStep(n, {})
    BY <1>1, Unchanging DEF Wait, QuietStep, envVars, TypeOK
  <1> QED
    BY <1>2, QuietInvariant

\* A connection that is refused or times out.
LEMMA ConnectFailsStep ==
    ASSUME DStoreInvariant, NEW n \in Node, NEW i \in Index, NEW marked, ConnectFails(n, i, marked),
           UNCHANGED <<envVars, nodes, store, file>>
    PROVE  DStoreInvariant'
  <1>1. connection_status \in [Node -> [Index -> BOOLEAN]]
    BY Unchanging DEF TypeOK
  <1>2. PICK b \in BOOLEAN : /\ b => connection_status[n][i]
                             /\ connection_status' = [connection_status EXCEPT ![n][i] = b]
    <2>1. PICK b : /\ b = (connection_status[n][i] /\ ~(marked /\ tcp_clients'[n][i] = Idle))
      OBVIOUS
    <2> QED
      BY <1>1, <2>1 DEF ConnectFails
  <1>3. connection_status' \in [Node -> [Index -> BOOLEAN]]
    BY <1>1, <1>2
  <1>4. \A m \in Node, j \in Index : connection_status'[m][j] => connection_status[m][j]
    BY <1>1, <1>2
  <1>5. ClientsMade
    BY Unchanging, ClientsEffect DEF ConnectFails
  <1>6. QuietStep(n, {})
    BY <1>3, <1>4, <1>5, Unchanging DEF ConnectFails, QuietStep, envVars, TypeOK
  <1> QED
    BY <1>6, QuietInvariant

\* The server's keep-alive.
LEMMA KeepAliveStep ==
    ASSUME DStoreInvariant, NEW n \in Node, NEW s \in Slot, dstore_server_send_keep_alive(n, s)
    PROVE  DStoreInvariant'
  <1>1. <<KeepAlive>> \in Seq(LinesOf(NoNode))
    BY PlainLines
  <1>2. GoodConns(conns') /\ SameEnds(conns, conns')
    BY <1>1, Unchanging, ServerSends DEF dstore_server_send_keep_alive
  <1>3. QuietStep(n, {})
    BY <1>2, Unchanging DEF dstore_server_send_keep_alive, QuietStep, envVars, linkVars, TypeOK
  <1> QED
    BY <1>3, QuietInvariant

\* A node that is added by its own application.
LEMMA AddNodeStep ==
    ASSUME DStoreInvariant, NEW n \in Node, NEW id \in Node, AddNode(n, id)
    PROVE  DStoreInvariant'
  <1>1. nodes[n] \in Seq(Node) /\ Len(nodes[n]) \in Nat /\ MaxNodes \in Nat
    BY Unchanging, LenProperties, IdFacts DEF TypeOK
  <1>2. TableGrows(n)
    <2>1. CASE Len(nodes[n]) >= MaxNodes
      BY <2>1 DEF AddNode, cluster_add_node, TableGrows
    <2>2. CASE ~(Len(nodes[n]) >= MaxNodes)
      <3>1. id \notin Known(n) /\ nodes' = [nodes EXCEPT ![n] = Append(@, id)]
        BY <2>2 DEF AddNode, cluster_add_node
      <3>2. Len(nodes[n]) < MaxNodes
        BY <1>1, <2>2
      <3> QED
        BY <3>1, <3>2 DEF TableGrows
    <2> QED
      BY <2>1, <2>2
  <1>3. left' \in [Event -> Nat]
    BY Unchanging, HappensTyped DEF AddNode, Event
  <1>4. QuietStep(n, {})
    BY <1>2, <1>3, Unchanging DEF AddNode, QuietStep, linkVars, TypeOK
  <1> QED
    BY <1>4, QuietInvariant

\* An addition or a removal that is propagated.
LEMMA PropagateStep ==
    ASSUME DStoreInvariant, NEW n \in Node, NEW id \in Node \cup {Gone}, Propagate(n, id)
    PROVE  DStoreInvariant'
  <1>1. GoodConns(conns') /\ SameEnds(conns, conns')
    <2>1. ASSUME id \in Known(n), conns' = dstore_propagate_node_addition(n, id)
          PROVE  GoodConns(conns') /\ SameEnds(conns, conns')
      <3> DEFINE add(m) == [type |-> "PROPAGATE_ADD", id |-> m]
                 told == {i \in InTable(n) : node_id(n, i) # n /\ connection_status[n][i]}
                 l == dstore_get_current_leader(n)
                 cs == dstore_send_message(conns, n, told, add(id))
                 news == <<add(n)>> \o IF l = NoNode THEN <<>> ELSE <<Leader(0, l)>>
                 i == find_node_index_by_id(n, id)
      <3>1. id \in Node
        BY <2>1, Unchanging, FindFacts
      <3>2. add(id) \in LinesOf(NoNode) /\ add(n) \in LinesOf(NoNode)
        BY <3>1, PlainLines
      <3>3. GoodConns(cs) /\ SameEnds(conns, cs)
        BY <3>2, Unchanging, MessageSent
      <3>4. news \in Seq(LinesOf(NoNode))
        <4>1. l \in Leaders \cup {NoNode} /\ 0 \in 0..MaxTerm
          BY Unchanging, LeaderFound, IdFacts
        <4>2. l # NoNode => Leader(0, l) \in LinesOf(NoNode)
          BY <4>1, PlainLines
        <4>3. PICK e \in Seq(LinesOf(NoNode)) : e = IF l = NoNode THEN <<>> ELSE <<Leader(0, l)>>
          <5> HIDE DEF l
          <5>1. <<>> \in Seq(LinesOf(NoNode))
            BY EmptySeq
          <5>2. l # NoNode => <<Leader(0, l)>> \in Seq(LinesOf(NoNode))
            BY <4>2
          <5> QED
            BY <5>1, <5>2
        <4>4. <<add(n)>> \in Seq(LinesOf(NoNode))
          BY <3>2
        <4>5. <<add(n)>> \o e \in Seq(LinesOf(NoNode))
          <5> HIDE DEF add
          <5> QED
            BY <4>4, ConcatProperties
        <4> QED
          BY <4>3, <4>5
      <3>5. conns' = cs \/ conns' = tcp_client_send(cs, n, {i}, news)
        BY <2>1 DEF dstore_propagate_node_addition
      <3> HIDE DEF cs, news
      <3> QED
        BY <3>3, <3>4, <3>5, ClientSends, SameEndsTrans
    <2>2. ASSUME conns' = dstore_propagate_node_removal(n, id)
          PROVE  GoodConns(conns') /\ SameEnds(conns, conns')
      <3>1. [type |-> "PROPAGATE_REMOVE", id |-> id] \in LinesOf(NoNode)
        BY PlainLines
      <3> QED
        BY <2>2, <3>1, Unchanging, MessageSent DEF dstore_propagate_node_removal
    <2> QED
      BY <2>1, <2>2 DEF Propagate
  <1>2. left' \in [Event -> Nat]
    BY Unchanging, HappensTyped DEF Propagate, Event
  <1>3. QuietStep(n, {})
    BY <1>1, <1>2, Unchanging DEF Propagate, QuietStep, linkVars, TypeOK
  <1> QED
    BY <1>3, QuietInvariant

\* A put of the application.
LEMMA HandlePutStep ==
    ASSUME DStoreInvariant, NEW n \in Node, NEW k \in Key, NEW v \in Val, dstore_handle_put(n, k, v)
    PROVE  DStoreInvariant'
  <1>1. StoreGrows({n})
    BY Unchanging, InsertEffect DEF dstore_handle_put
  <1>2. ClientsMade
    BY Unchanging, ClientsEffect DEF dstore_handle_put, dstore_replicate_to_followers
  <1>3. PICK I, line : line \in LinesOf(NoNode) /\ conns' = dstore_send_message(conns, n, I, line)
    BY PlainLines DEF dstore_handle_put, dstore_replicate_to_followers
  <1>4. GoodConns(conns') /\ SameEnds(conns, conns')
    BY <1>3, Unchanging, MessageSent
  <1>5. left' \in [Event -> Nat]
    BY Unchanging, HappensTyped DEF dstore_handle_put, Event
  <1>6. direct' \in [Node -> BOOLEAN] /\ direct'[n] /\ \A m \in Node : direct[m] => direct'[m]
    BY Unchanging DEF dstore_handle_put, TypeOK
  <1>7. QuietStep(n, {n})
    BY <1>1, <1>2, <1>4, <1>5, <1>6, Unchanging DEF dstore_handle_put, QuietStep, TypeOK
  <1> QED
    BY <1>7, QuietInvariant

\* A heartbeat: its sender was elected.
LEMMA HeartbeatStep ==
    ASSUME DStoreInvariant, NEW n \in Node, NEW l \in Node, NEW t \in 1..MaxTerm, Heartbeat(n, t, l)
    PROVE  DStoreInvariant'
  <1>1. l \in Leaders
    BY DEF Heartbeat, Leaders
  <1>2. t \in 0..MaxTerm
    BY IdFacts
  <1>3. PICK e : e = IF t > proto[n].term THEN [term |-> t, vote |-> NoNode, leader |-> l]
                     ELSE [proto[n] EXCEPT !.leader = l]
    OBVIOUS
  <1>4. proto' = [proto EXCEPT ![n] = e]
    BY <1>3, Unchanging DEF Heartbeat, StateFiles
  <1>5. e \in StateFile /\ e.leader = l
    <2>1. proto[n] \in StateFile
      BY Unchanging DEF StateFiles
    <2> QED
      BY <1>2, <1>3, <2>1 DEF StateFile
  <1>6. StateFiles(proto')
    BY <1>1, <1>4, <1>5, Unchanging DEF StateFiles
  <1>7. proto'[n] = e
    BY <1>4, Unchanging DEF StateFiles
  <1>8. StateFiles(file')
    <2>1. file' = file \/ file' = [file EXCEPT ![n] = e]
      BY <1>7 DEF Heartbeat
    <2>2. StateFiles([file EXCEPT ![n] = e])
      BY <1>1, <1>5, Unchanging DEF StateFiles
    <2> QED
      BY <2>1, <2>2, Unchanging
  <1>9. QuietStep(n, {})
    BY <1>6, <1>8, Unchanging DEF Heartbeat, QuietStep, linkVars, TypeOK
  <1> QED
    BY <1>9, QuietInvariant

----------------------------------------------------------------------------
(* Steps that make and break connections *)

\* One connection is replaced by another.
LEMMA ConnReplaced ==
    ASSUME NEW cs, GoodConns(cs), NEW c \in ConnId, NEW k \in Connection, GoodLines(k),
           NEW ds, ds = [cs EXCEPT ![c] = k]
    PROVE  /\ GoodConns(ds)
           /\ \A d \in ConnId : ds[d] = IF d = c THEN k ELSE cs[d]
  BY DEF GoodConns

\* What the invariant says of the slots, the clients and the marks, one by one.
LEMMA Held ==
    ASSUME DStoreInvariant
    PROVE  /\ \A n \in Node, s \in Slot : client_socks[n][s] # Idle =>
                 /\ client_socks[n][s] \in ConnId
                 /\ conns[client_socks[n][s]].to = n /\ conns[client_socks[n][s]].server = "open"
                 /\ \A r \in Slot : client_socks[n][r] = client_socks[n][s] => r = s
                 /\ client_socket_to_node[n][s] # NoNode =>
                       conns[client_socks[n][s]].from = client_socket_to_node[n][s]
           /\ \A n \in Node, s \in Slot :
                 client_socks[n][s] = Idle /\ client_socket_to_node[n][s] # NoNode => blind[n]
           /\ \A n \in Node, i \in Index : tcp_clients[n][i] \in ConnId =>
                 /\ conns[tcp_clients[n][i]].from = n /\ conns[tcp_clients[n][i]].client
                 /\ \A j \in Index : tcp_clients[n][j] = tcp_clients[n][i] => j = i
  <1>1. \A n \in Node, s \in Slot : client_socks[n][s] # Idle => client_socks[n][s] \in ConnId
    BY DEF DStoreInvariant, TypeOK
  <1> QED
    BY <1>1 DEF DStoreInvariant, SlotsInStep, MappedSocketsBelong, ClientsInStep

\* The store's part of a step that changes connections only.
LEMMA StorePart ==
    ASSUME DStoreInvariant, GoodConns(conns'), UNCHANGED <<elected, file, proto>>
    PROVE  /\ conns' \in [ConnId -> Connection] /\ LinesAreTrue' /\ FilesAreTrue'
           /\ UNCHANGED <<store, direct>> => HoldersWereLeaders'
  <1>1. conns' \in [ConnId -> Connection] /\ LinesAreTrue' /\ FilesAreTrue'
    BY Unchanging, StoreKept
  <1>2. UNCHANGED <<store, direct>> => HoldersWereLeaders'
    BY DEF DStoreInvariant, HoldersWereLeaders
  <1> QED
    BY <1>1, <1>2

\* A table that does not change keeps its entries.
LEMMA EntriesSame ==
    ASSUME TypeOK, NEW n \in Node, nodes'[n] = nodes[n], NEW i \in Index
    PROVE  EntryKept(n, i)
  BY DEF EntryKept, InTable, node_id, find_node_index_by_id, Known

\* MarkedBySlot speaks of a node, never of -1.
LEMMA MarkOfNode ==
    ASSUME TypeOK, NEW n \in Node, NEW i \in Index, MarkedBySlot(n, i)
    PROVE  node_id(n, i) \in Node /\ node_id(n, i) # NoNode /\ node_id(n, i) \in Known(n)
  BY FindFacts, IdFacts DEF MarkedBySlot

\* A connection that is accepted gets a free slot, mapped to nobody.
LEMMA AcceptStep ==
    ASSUME DStoreInvariant, NEW n \in Node, NEW c \in ConnId, Accept(n, c)
    PROVE  DStoreInvariant'
  <1>1. TypeOK /\ GoodConns(conns)
    BY Unchanging
  <1>2. PICK s \in FreeSlots(n) :
            /\ client_socks' = [client_socks EXCEPT ![n][s] = c]
            /\ dstore_server_on_connection(n, s, [conns EXCEPT ![c].server = "open"], c)
    <2>1. \E x \in FreeSlots(n) : \A r \in FreeSlots(n) : x <= r
      <3>1. FreeSlots(n) \in SUBSET Nat /\ FreeSlots(n) # {}
        BY LimitAssumption DEF FreeSlots, Accept
      <3>2. PICK x \in FreeSlots(n) : \A r \in FreeSlots(n) : ~(r < x)
        BY <3>1, Least
      <3>3. \A r \in FreeSlots(n) : x <= r
        BY <3>1, <3>2
      <3> QED
        BY <3>3
    <2>2. PICK x : x = CHOOSE y \in FreeSlots(n) : \A r \in FreeSlots(n) : y <= r
      OBVIOUS
    <2>3. x \in FreeSlots(n)
      BY <2>1, <2>2
    <2> QED
      BY <2>2, <2>3 DEF Accept
  <1>3. s \in Slot /\ client_socks[n][s] = Idle
    BY <1>2 DEF FreeSlots
  <1>4. PICK k : k = [conns[c] EXCEPT !.server = "open"]
    OBVIOUS
  <1>5. /\ k \in Connection /\ GoodLines(k) /\ k.server = "open"
        /\ k.from = conns[c].from /\ k.to = conns[c].to /\ k.client = conns[c].client
    BY <1>1, <1>4 DEF GoodConns, GoodLines, Connection
  <1>6. PICK q \in Seq(LinesOf(NoNode)) : q = k.down \o Snapshot(n)
    BY <1>5, Unchanging, SnapshotTrue, ConcatProperties DEF GoodLines
  <1>7. PICK j : j = IF k.client THEN [k EXCEPT !.down = q] ELSE k
    OBVIOUS
  <1>8. /\ j \in Connection /\ GoodLines(j) /\ j.server = "open"
        /\ j.from = conns[c].from /\ j.to = conns[c].to /\ j.client = conns[c].client
    <2>1. PICK d : d = [k EXCEPT !.down = q]
      OBVIOUS
    <2>2. /\ d \in Connection /\ GoodLines(d)
          /\ d.from = k.from /\ d.to = k.to /\ d.client = k.client /\ d.server = k.server
      BY <1>5, <2>1, WithDown
    <2>3. j = d \/ j = k
      BY <1>7, <2>1
    <2> QED
      BY <1>5, <2>2, <2>3
  <1>9. conns' = [conns EXCEPT ![c] = j]
    <2>1. conns \in [ConnId -> Connection]
      BY <1>1 DEF GoodConns
    <2>2. PICK cs : cs = [conns EXCEPT ![c] = k]
      OBVIOUS
    <2>3. [conns EXCEPT ![c].server = "open"] = cs
      BY <1>4, <2>1, <2>2
    <2>4. cs[c] = k
      BY <2>1, <2>2
    <2>5. conns' = IF cs[c].client THEN [cs EXCEPT ![c].down = @ \o Snapshot(n)] ELSE cs
      BY <1>2, <2>3 DEF dstore_server_on_connection
    <2>6. [cs EXCEPT ![c].down = @ \o Snapshot(n)] = [conns EXCEPT ![c] = [k EXCEPT !.down = q]]
      BY <1>6, <2>1, <2>2, <2>4
    <2> QED
      BY <1>7, <2>2, <2>4, <2>5, <2>6
  <1>10. GoodConns(conns') /\ \A d \in ConnId : conns'[d] = IF d = c THEN j ELSE conns[d]
    <2>1. conns \in [ConnId -> Connection] /\ \A d \in ConnId : GoodLines(conns[d])
      BY <1>1 DEF GoodConns
    <2>2. \A d \in ConnId : conns'[d] = IF d = c THEN j ELSE conns[d]
      BY <1>9, <2>1
    <2>3. conns' \in [ConnId -> Connection]
      BY <1>8, <1>9, <2>1
    <2> QED
      BY <1>8, <2>1, <2>2, <2>3 DEF GoodConns
  <1>11. /\ conns[c].to = n /\ conns[c].server = "backlog"
         /\ UNCHANGED <<envVars, tcp_clients, connection_status, waits, nodes, store, file>>
    BY DEF Accept
  <1>12. conns' \in [ConnId -> Connection] /\ LinesAreTrue' /\ FilesAreTrue' /\ HoldersWereLeaders'
    BY <1>10, <1>11, StorePart DEF envVars
  <1>13. \A m \in Node, r \in Slot : client_socks'[m][r] = IF m = n /\ r = s THEN c ELSE client_socks[m][r]
    BY <1>1, <1>2, <1>3 DEF TypeOK
  <1>14. client_socket_to_node' = [client_socket_to_node EXCEPT ![n][s] = NoNode]
    BY <1>2 DEF dstore_server_on_connection
  <1>15. \A m \in Node, r \in Slot :
            client_socket_to_node'[m][r] = IF m = n /\ r = s THEN NoNode ELSE client_socket_to_node[m][r]
    BY <1>1, <1>3, <1>14 DEF TypeOK
  <1>16. TypeOK'
    <2>1. client_socks' \in [Node -> [Slot -> ConnId \cup {Idle}]]
      BY <1>1, <1>2 DEF TypeOK
    <2>2. client_socket_to_node' \in [Node -> [Slot -> Node \cup {NoNode}]]
      BY <1>1, <1>14 DEF TypeOK
    <2> QED
      BY <1>1, <1>11, <1>12, <2>1, <2>2 DEF TypeOK, envVars
  <1>17. SlotsInStep'
    BY <1>8, <1>10, <1>11, <1>13, <1>15, Held, IdFacts DEF SlotsInStep, envVars
  <1>18. MappedSocketsBelong'
    BY <1>8, <1>10, <1>11, <1>13, <1>15, Held DEF MappedSocketsBelong
  <1>19. ClientsInStep'
    <2>1. \A m \in Node, i \in Index : tcp_clients'[m][i] \in ConnId =>
               /\ tcp_clients'[m][i] = tcp_clients[m][i]
               /\ ClientKept(conns, conns', tcp_clients[m][i])
               /\ removed'[m] \/ (~removed[m] /\ EntryKept(m, i))
      BY <1>1, <1>8, <1>10, <1>11, EntriesSame DEF envVars, ClientKept, TypeOK
    <2> QED
      BY <2>1, ClientsKept DEF DStoreInvariant
  <1>20. StatusInStep'
    <2>1. ASSUME NEW m \in Node, NEW i \in Index, ~blind[m], MarkedBySlot(m, i) PROVE MarkedBySlot(m, i)'
      <3>1. EntryKept(m, i) /\ node_id(m, i) # NoNode
        BY <1>1, <1>11, <2>1, EntriesSame, MarkOfNode
      <3>2. \A r \in Slot : client_socket_to_node[m][r] = node_id(m, i)
                               => client_socket_to_node'[m][r] = node_id(m, i)
        BY <1>3, <1>15, <2>1, <3>1, Held
      <3> QED
        BY <2>1, <3>1, <3>2, MarksKept
    <2> QED
      BY <1>11, <2>1, StatusKept DEF DStoreInvariant, envVars
  <1> QED
    BY <1>12, <1>16, <1>17, <1>18, <1>19, <1>20 DEF DStoreInvariant

\* A step that changes connections, slots and clients, but nothing that is stored.
LEMMA LinkInvariant ==
    ASSUME DStoreInvariant, GoodConns(conns'), UNCHANGED <<elected, file, proto, store, direct, works, nodes>>,
           up' \in [Node -> BOOLEAN], left' \in [Event -> Nat], waits' \in [Node -> Index \cup {Running}],
           tcp_clients' \in [Node -> [Index -> ConnId \cup {NULL, Idle}]],
           connection_status' \in [Node -> [Index -> BOOLEAN]],
           client_socks' \in [Node -> [Slot -> ConnId \cup {Idle}]],
           client_socket_to_node' \in [Node -> [Slot -> Node \cup {NoNode}]],
           blind' \in [Node -> BOOLEAN], removed' \in [Node -> BOOLEAN],
           TypeOK' => SlotsInStep' /\ MappedSocketsBelong',
           ClientsInStep', StatusInStep'
    PROVE  DStoreInvariant'
  <1>1. conns' \in [ConnId -> Connection] /\ LinesAreTrue' /\ FilesAreTrue' /\ HoldersWereLeaders'
    BY StorePart
  <1>2. TypeOK'
    BY <1>1, Unchanging DEF TypeOK
  <1> QED
    BY <1>1, <1>2 DEF DStoreInvariant

\* A table that stays keeps its entries.
LEMMA AllEntriesSame ==
    ASSUME DStoreInvariant, nodes' = nodes
    PROVE  /\ \A m \in Node, i \in Index : EntryKept(m, i)
           /\ \A m \in Node : removed[m] \in BOOLEAN /\ blind[m] \in BOOLEAN
  BY Unchanging, EntriesSame DEF TypeOK

\* A connection that nobody has accepted is closed: no slot holds it.
LEMMA RejectStep ==
    ASSUME DStoreInvariant, NEW n \in Node, NEW c \in ConnId, Reject(n, c)
    PROVE  DStoreInvariant'
  <1>1. /\ conns[c].to = n /\ conns[c].server = "backlog" /\ conns' = CloseServer(conns, c)
        /\ UNCHANGED <<envVars, linkVars, nodes, store, file>>
    BY DEF Reject
  <1>2. /\ GoodConns(conns')
        /\ \A d \in ConnId : d # c /\ conns[d].server # "closed" => SlotKept(conns, conns', d)
        /\ \A d \in ConnId : conns[d].client => ClientKept(conns, conns', d)
    BY <1>1, Unchanging, ServerCloses
  <1>3. TypeOK' => SlotsInStep' /\ MappedSocketsBelong'
    <2>1. \A m \in Node, s \in Slot : client_socks'[m][s] # Idle =>
               /\ client_socks'[m][s] = client_socks[m][s]
               /\ SlotKept(conns, conns', client_socks[m][s])
               /\ client_socket_to_node'[m][s] = client_socket_to_node[m][s]
      BY <1>1, <1>2, Held DEF linkVars
    <2>2. \A m \in Node, s \in Slot :
               client_socks'[m][s] = Idle /\ client_socket_to_node'[m][s] # NoNode => blind'[m]
      BY <1>1, Held DEF linkVars, envVars
    <2> QED
      BY <2>1, <2>2, Unchanging, SlotsKept DEF DStoreInvariant
  <1>4. ClientsInStep'
    <2>1. \A m \in Node, i \in Index : tcp_clients'[m][i] \in ConnId =>
               /\ tcp_clients'[m][i] = tcp_clients[m][i]
               /\ ClientKept(conns, conns', tcp_clients[m][i])
               /\ removed'[m] \/ (~removed[m] /\ EntryKept(m, i))
      BY <1>1, <1>2, Held, AllEntriesSame DEF linkVars, envVars
    <2> QED
      BY <2>1, ClientsKept DEF DStoreInvariant
  <1>5. StatusInStep'
    <2>1. \A m \in Node, i \in Index : MarkedBySlot(m, i) => MarkedBySlot(m, i)'
      BY <1>1, AllEntriesSame, MarksKept DEF linkVars
    <2> QED
      BY <1>1, <2>1, StatusKept DEF DStoreInvariant, linkVars, envVars
  <1> QED
    BY <1>1, <1>2, <1>3, <1>4, <1>5, Unchanging, LinkInvariant DEF linkVars, envVars, TypeOK

\* A read error frees a slot and leaves its mapping: from then on the node is blind.
LEMMA ServerReadErrorStep ==
    ASSUME DStoreInvariant, NEW n \in Node, NEW s \in Slot, ServerReadError(n, s)
    PROVE  DStoreInvariant'
  <1>1. PICK c \in ConnId : c = client_socks[n][s]
    BY Held DEF ServerReadError
  <1>2. /\ c # Idle /\ conns' = CloseServer(conns, c) /\ Happens("reset")
        /\ client_socks' = [client_socks EXCEPT ![n][s] = Idle]
        /\ blind' = [blind EXCEPT ![n] = TRUE]
        /\ UNCHANGED <<works, up, proto, elected, removed, direct, tcp_clients, connection_status,
                       client_socket_to_node, waits, nodes, store, file>>
    BY <1>1 DEF ServerReadError
  <1>3. /\ GoodConns(conns')
        /\ \A d \in ConnId : d # c /\ conns[d].server # "closed" => SlotKept(conns, conns', d)
        /\ \A d \in ConnId : conns[d].client => ClientKept(conns, conns', d)
    BY <1>2, Unchanging, ServerCloses
  <1>4. /\ client_socks' \in [Node -> [Slot -> ConnId \cup {Idle}]] /\ blind' \in [Node -> BOOLEAN]
        /\ \A m \in Node, r \in Slot : client_socks'[m][r] = IF m = n /\ r = s THEN Idle ELSE client_socks[m][r]
        /\ \A m \in Node : blind'[m] = (m = n \/ blind[m])
    BY <1>2, Unchanging DEF TypeOK
  <1>5. TypeOK' => SlotsInStep' /\ MappedSocketsBelong'
    <2>1. \A m \in Node, r \in Slot : client_socks'[m][r] # Idle =>
               /\ client_socks'[m][r] = client_socks[m][r]
               /\ SlotKept(conns, conns', client_socks[m][r])
               /\ client_socket_to_node'[m][r] = client_socket_to_node[m][r]
      BY <1>1, <1>2, <1>3, <1>4, Held
    <2>2. \A m \in Node, r \in Slot :
               client_socks'[m][r] = Idle /\ client_socket_to_node'[m][r] # NoNode => blind'[m]
      BY <1>2, <1>4, Held
    <2> QED
      BY <2>1, <2>2, Unchanging, SlotsKept DEF DStoreInvariant
  <1>6. ClientsInStep'
    <2>1. \A m \in Node, i \in Index : tcp_clients'[m][i] \in ConnId =>
               /\ tcp_clients'[m][i] = tcp_clients[m][i]
               /\ ClientKept(conns, conns', tcp_clients[m][i])
               /\ removed'[m] \/ (~removed[m] /\ EntryKept(m, i))
      BY <1>2, <1>3, Held, AllEntriesSame
    <2> QED
      BY <2>1, ClientsKept DEF DStoreInvariant
  <1>7. StatusInStep'
    <2>1. \A m \in Node, i \in Index : MarkedBySlot(m, i) => MarkedBySlot(m, i)'
      BY <1>2, AllEntriesSame, MarksKept
    <2> QED
      BY <1>2, <1>4, <2>1, StatusKept DEF DStoreInvariant
  <1>8. left' \in [Event -> Nat]
    BY <1>2, Unchanging, HappensTyped DEF Event
  <1> QED
    BY <1>2, <1>3, <1>4, <1>5, <1>6, <1>7, <1>8, Unchanging, LinkInvariant DEF TypeOK

\* HELLO maps the slot to the node at the other end of its connection, and marks its index.
LEMMA HelloStep ==
    ASSUME DStoreInvariant, NEW n \in Node, NEW s \in Slot, NEW c \in ConnId, c = client_socks[n][s],
           NEW cs, GoodConns(cs), SameEnds(conns, cs), NEW id \in Node, id = conns[c].from,
           HelloCommand(n, s, cs, id), UNCHANGED <<envVars, client_socks, waits>>
    PROVE  DStoreInvariant'
  <1>1. conns' = cs /\ UNCHANGED <<nodes, file, store, tcp_clients>>
    BY DEF HelloCommand
  <1>2. c # Idle
    BY IdFacts
  <1>3. /\ client_socket_to_node' \in [Node -> [Slot -> Node \cup {NoNode}]]
        /\ \A m \in Node, r \in Slot : client_socket_to_node'[m][r] = client_socket_to_node[m][r]
                                       \/ (m = n /\ r = s /\ client_socket_to_node'[m][r] = id)
    <2>1. client_socket_to_node \in [Node -> [Slot -> Node \cup {NoNode}]]
      BY Unchanging DEF TypeOK
    <2>2. CASE client_socket_to_node' = client_socket_to_node
      BY <2>1, <2>2
    <2>3. CASE client_socket_to_node' = [client_socket_to_node EXCEPT ![n][s] = id]
      BY <2>1, <2>3
    <2> QED
      BY <2>2, <2>3 DEF HelloCommand
  <1>4. /\ connection_status' \in [Node -> [Index -> BOOLEAN]]
        /\ \A m \in Node, i \in Index : connection_status'[m][i] =>
              \/ connection_status[m][i]
              \/ m = n /\ i = find_node_index_by_id(n, id) /\ id \in Known(n) /\ client_socket_to_node'[n][s] = id
    <2>1. CASE find_node_index_by_id(n, id) = MaxNodes
      <3>1. connection_status' = connection_status
        BY <2>1 DEF HelloCommand
      <3> QED
        BY <3>1, Unchanging DEF TypeOK
    <2>2. CASE find_node_index_by_id(n, id) # MaxNodes
      <3>1. id \in Known(n)
        BY <2>2, Unchanging, FindFacts
      <3>2. PICK x \in Index : x = find_node_index_by_id(n, id)
        BY <3>1, Unchanging, FindFacts
      <3>3. /\ connection_status' = [connection_status EXCEPT ![n][x] = TRUE]
            /\ client_socket_to_node' = [client_socket_to_node EXCEPT ![n][s] = id]
        BY <2>2, <3>2 DEF HelloCommand
      <3>4. client_socket_to_node'[n][s] = id
        BY <3>3, Unchanging DEF TypeOK
      <3>5. connection_status' \in [Node -> [Index -> BOOLEAN]]
        BY <3>3, Unchanging DEF TypeOK
      <3>6. \A m \in Node, i \in Index : connection_status'[m][i] => connection_status[m][i] \/ (m = n /\ i = x)
        <4>1. connection_status \in [Node -> [Index -> BOOLEAN]]
          BY Unchanging DEF TypeOK
        <4> QED
          BY <3>3, <4>1
      <3> QED
        BY <3>1, <3>2, <3>4, <3>5, <3>6
    <2> QED
      BY <2>1, <2>2
  <1>5. TypeOK' => SlotsInStep' /\ MappedSocketsBelong'
    <2>1. \A m \in Node, r \in Slot : client_socks'[m][r] # Idle =>
               /\ client_socks'[m][r] = client_socks[m][r]
               /\ SlotKept(conns, conns', client_socks[m][r])
               /\ client_socket_to_node'[m][r] \in {client_socket_to_node[m][r], NoNode,
                                                    conns[client_socks[m][r]].from}
      BY <1>1, <1>3, Held, SameEndsKept
    <2>2. \A m \in Node, r \in Slot :
               client_socks'[m][r] = Idle /\ client_socket_to_node'[m][r] # NoNode => blind'[m]
      <3>1. ASSUME NEW m \in Node, NEW r \in Slot, client_socks'[m][r] = Idle, client_socket_to_node'[m][r] # NoNode
            PROVE  blind'[m]
        <4>1. client_socks[m][r] = Idle /\ client_socket_to_node[m][r] # NoNode
          BY <1>2, <1>3, <3>1
        <4> QED
          BY <4>1, Held DEF envVars
      <3> QED
        BY <3>1
    <2> QED
      BY <2>1, <2>2, Unchanging, SlotsKept DEF DStoreInvariant
  <1>6. ClientsInStep'
    <2>1. \A m \in Node, i \in Index : tcp_clients'[m][i] \in ConnId =>
               /\ tcp_clients'[m][i] = tcp_clients[m][i]
               /\ ClientKept(conns, conns', tcp_clients[m][i])
               /\ removed'[m] \/ (~removed[m] /\ EntryKept(m, i))
      BY <1>1, SameEndsKept, AllEntriesSame DEF envVars
    <2> QED
      BY <2>1, ClientsKept DEF DStoreInvariant
  <1>7. ASSUME NEW m \in Node, NEW i \in Index, connection_status'[m][i], ~blind'[m], ~removed'[m]
        PROVE  tcp_clients'[m][i] \in ConnId \/ MarkedBySlot(m, i)'
    <2>1. ~blind[m] /\ ~removed[m] /\ EntryKept(m, i)
      BY <1>1, <1>7, AllEntriesSame DEF envVars
    <2>2. CASE connection_status[m][i]
      <3>1. tcp_clients[m][i] \in ConnId \/ MarkedBySlot(m, i)
        BY <2>1, <2>2 DEF DStoreInvariant, StatusInStep
      <3>2. ASSUME MarkedBySlot(m, i) PROVE MarkedBySlot(m, i)'
        <4>1. node_id(m, i) # NoNode
          BY <3>2, Unchanging, MarkOfNode
        <4>2. ASSUME NEW r \in Slot, client_socket_to_node[m][r] = node_id(m, i)
              PROVE  client_socket_to_node'[m][r] = node_id(m, i)
          <5>1. client_socks[m][r] # Idle /\ conns[client_socks[m][r]].from = client_socket_to_node[m][r]
            BY <2>1, <4>1, <4>2, Held
          <5> QED
            BY <1>3, <4>2, <5>1
        <4> QED
          BY <2>1, <3>2, <4>2, MarksKept
      <3> QED
        BY <1>1, <3>1, <3>2
    <2>3. CASE ~connection_status[m][i]
      <3>1. m = n /\ i = find_node_index_by_id(n, id) /\ id \in Known(n) /\ client_socket_to_node'[n][s] = id
        BY <1>4, <1>7, <2>3
      <3>2. i \in InTable(n) /\ node_id(n, i) = id
        BY <3>1, Unchanging, FindFacts
      <3>3. MarkedBySlot(n, i)'
        BY <2>1, <3>1, <3>2 DEF MarkedBySlot, EntryKept
      <3> QED
        BY <3>1, <3>3
    <2> QED
      BY <2>2, <2>3
  <1>8. StatusInStep'
    BY <1>7 DEF StatusInStep
  <1> QED
    BY <1>1, <1>3, <1>4, <1>5, <1>6, <1>8, Unchanging, LinkInvariant DEF envVars, TypeOK

\* The server's side of a connection handles one line.
LEMMA ServerReceiveStep ==
    ASSUME DStoreInvariant, NEW n \in Node, NEW s \in Slot, ServerReceive(n, s)
    PROVE  DStoreInvariant'
  <1>1. PICK c \in ConnId : c = client_socks[n][s]
    BY Unchanging DEF ServerReceive, TypeOK
  <1>2. PICK cs : cs = [conns EXCEPT ![c].up = Tail(@)]
    OBVIOUS
  <1>3. PICK m : m = Head(conns[c].up)
    OBVIOUS
  <1>4. /\ conns[c].up # <<>>
        /\ \/ m.type = "HELLO" /\ HelloCommand(n, s, cs, m.id)
           \/ /\ dstore_server_on_receive(n, cs, m)
              /\ UNCHANGED <<client_socket_to_node, connection_status>>
        /\ UNCHANGED <<envVars, client_socks, waits>>
    BY <1>1, <1>2, <1>3 DEF ServerReceive
  <1>5. GoodConns(cs) /\ SameEnds(conns, cs) /\ m \in LinesOf(conns[c].from)
    BY <1>2, <1>3, <1>4, Unchanging, LineTaken
  <1>6. CASE m.type = "HELLO" /\ HelloCommand(n, s, cs, m.id)
    <2>1. m.id = conns[c].from /\ m.id \in Node
      BY <1>5, <1>6, LineFields DEF LinesOf
    <2> QED
      BY <1>1, <1>4, <1>5, <1>6, <2>1, HelloStep
  <1>7. CASE /\ dstore_server_on_receive(n, cs, m)
             /\ UNCHANGED <<client_socket_to_node, connection_status>>
    <2>1. CommandEffect(n)
      BY <1>5, <1>7, Unchanging, ServerCommandDone
    <2>2. waits' \in [Node -> Index \cup {Running}]
      BY <1>4, Unchanging DEF TypeOK
    <2> QED
      BY <1>4, <1>7, <2>1, <2>2, CommandStep
  <1> QED
    BY <1>4, <1>6, <1>7

\* The slot, its mapping and the mark of its node go together.
LEMMA SlotLostStep ==
    ASSUME DStoreInvariant, NEW n \in Node, NEW s \in Slot, NEW c \in ConnId, c = client_socks[n][s],
           AtEnd(c), dstore_server_on_disconnection(n, s),
           client_socks' = [client_socks EXCEPT ![n][s] = Idle],
           conns' = CloseServer(conns, c),
           UNCHANGED <<envVars, tcp_clients, waits, nodes, store, file>>
    PROVE  DStoreInvariant'
  <1>1. /\ GoodConns(conns')
        /\ \A d \in ConnId : d # c /\ conns[d].server # "closed" => SlotKept(conns, conns', d)
        /\ \A d \in ConnId : conns[d].client => ClientKept(conns, conns', d)
    BY Unchanging, ServerCloses
  <1>2. /\ client_socks' \in [Node -> [Slot -> ConnId \cup {Idle}]]
        /\ \A m \in Node, r \in Slot : client_socks'[m][r] = IF m = n /\ r = s THEN Idle ELSE client_socks[m][r]
    BY Unchanging DEF TypeOK
  <1>3. /\ client_socket_to_node' \in [Node -> [Slot -> Node \cup {NoNode}]]
        /\ \A m \in Node, r \in Slot :
              client_socket_to_node'[m][r] = IF m = n /\ r = s THEN NoNode ELSE client_socket_to_node[m][r]
    BY Unchanging DEF TypeOK, dstore_server_on_disconnection
  <1>4. PICK x : x = find_node_index_by_id(n, client_socket_to_node[n][s])
    OBVIOUS
  <1>5. /\ connection_status' \in [Node -> [Index -> BOOLEAN]]
        /\ \A m \in Node, i \in Index : connection_status'[m][i] => connection_status[m][i] /\ ~(m = n /\ i = x)
    <2>1. connection_status \in [Node -> [Index -> BOOLEAN]]
      BY Unchanging DEF TypeOK
    <2>2. CASE x = MaxNodes
      <3>1. connection_status' = connection_status
        BY <1>4, <2>2 DEF dstore_server_on_disconnection
      <3>2. x \notin Index
        BY <2>2, IdFacts
      <3> QED
        BY <2>1, <3>1, <3>2
    <2>3. CASE x # MaxNodes
      <3>1. x \in Index
        BY <1>4, <2>3, Unchanging, FindFacts
      <3>2. connection_status' = [connection_status EXCEPT ![n][x] = FALSE]
        BY <1>4, <2>3 DEF dstore_server_on_disconnection
      <3> QED
        BY <2>1, <3>1, <3>2
    <2> QED
      BY <2>2, <2>3
  <1>6. TypeOK' => SlotsInStep' /\ MappedSocketsBelong'
    <2>1. \A m \in Node, r \in Slot : client_socks'[m][r] # Idle =>
               /\ client_socks'[m][r] = client_socks[m][r]
               /\ SlotKept(conns, conns', client_socks[m][r])
               /\ client_socket_to_node'[m][r] = client_socket_to_node[m][r]
      BY <1>1, <1>2, <1>3, Held
    <2>2. \A m \in Node, r \in Slot :
               client_socks'[m][r] = Idle /\ client_socket_to_node'[m][r] # NoNode => blind'[m]
      <3>1. ASSUME NEW m \in Node, NEW r \in Slot, client_socks'[m][r] = Idle, client_socket_to_node'[m][r] # NoNode
            PROVE  blind'[m]
        <4>1. client_socks[m][r] = Idle /\ client_socket_to_node[m][r] # NoNode
          BY <1>2, <1>3, <3>1
        <4> QED
          BY <4>1, Held DEF envVars
      <3> QED
        BY <3>1
    <2> QED
      BY <2>1, <2>2, Unchanging, SlotsKept DEF DStoreInvariant
  <1>7. ClientsInStep'
    <2>1. \A m \in Node, i \in Index : tcp_clients'[m][i] \in ConnId =>
               /\ tcp_clients'[m][i] = tcp_clients[m][i]
               /\ ClientKept(conns, conns', tcp_clients[m][i])
               /\ removed'[m] \/ (~removed[m] /\ EntryKept(m, i))
      BY <1>1, Held, AllEntriesSame DEF envVars
    <2> QED
      BY <2>1, ClientsKept DEF DStoreInvariant
  <1>8. ASSUME NEW m \in Node, NEW i \in Index, connection_status'[m][i], ~blind'[m], ~removed'[m]
        PROVE  /\ connection_status[m][i] /\ ~blind[m] /\ ~removed[m]
               /\ tcp_clients[m][i] \in ConnId => tcp_clients'[m][i] \in ConnId
               /\ MarkedBySlot(m, i) => MarkedBySlot(m, i)'
    <2>1. ASSUME MarkedBySlot(m, i) PROVE MarkedBySlot(m, i)'
      <3>1. node_id(m, i) # NoNode /\ EntryKept(m, i) /\ find_node_index_by_id(m, node_id(m, i)) = i
        BY <2>1, Unchanging, MarkOfNode, AllEntriesSame DEF MarkedBySlot
      <3>2. \A r \in Slot : client_socket_to_node[m][r] = node_id(m, i)
                               => client_socket_to_node'[m][r] = node_id(m, i)
        BY <1>3, <1>4, <1>5, <1>8, <3>1
      <3> QED
        BY <2>1, <3>1, <3>2, MarksKept
    <2> QED
      BY <1>5, <1>8, <2>1 DEF envVars
  <1>9. StatusInStep'
    BY <1>8, StatusKept DEF DStoreInvariant
  <1> QED
    BY <1>1, <1>2, <1>3, <1>5, <1>6, <1>7, <1>9, Unchanging, LinkInvariant DEF envVars, TypeOK

\* A client is freed together with the mark of its index.
LEMMA ClientFreedStep ==
    ASSUME DStoreInvariant, NEW n \in Node, NEW i \in Index, NEW c \in ConnId, c = tcp_clients[n][i],
           tcp_clients' = [tcp_clients EXCEPT ![n][i] = NULL],
           connection_status' = [connection_status EXCEPT ![n][i] = FALSE],
           conns' = CloseClient(conns, c),
           waits' = [waits EXCEPT ![n] = Running],
           UNCHANGED <<envVars, client_socks, client_socket_to_node, nodes, store, file>>
    PROVE  DStoreInvariant'
  <1>1. /\ GoodConns(conns')
        /\ \A d \in ConnId : conns[d].server # "closed" => SlotKept(conns, conns', d)
        /\ \A d \in ConnId : d # c /\ conns[d].client => ClientKept(conns, conns', d)
    BY Unchanging, ClientCloses
  <1>2. /\ tcp_clients' \in [Node -> [Index -> ConnId \cup {NULL, Idle}]]
        /\ \A m \in Node, j \in Index : tcp_clients'[m][j] = IF m = n /\ j = i THEN NULL ELSE tcp_clients[m][j]
    BY Unchanging DEF TypeOK
  <1>3. /\ connection_status' \in [Node -> [Index -> BOOLEAN]]
        /\ \A m \in Node, j \in Index : connection_status'[m][j] => connection_status[m][j] /\ ~(m = n /\ j = i)
    <2>1. connection_status \in [Node -> [Index -> BOOLEAN]]
      BY Unchanging DEF TypeOK
    <2> QED
      BY <2>1
  <1>4. waits' \in [Node -> Index \cup {Running}]
    BY Unchanging DEF TypeOK
  <1>5. TypeOK' => SlotsInStep' /\ MappedSocketsBelong'
    <2>1. \A m \in Node, r \in Slot : client_socks'[m][r] # Idle =>
               /\ client_socks'[m][r] = client_socks[m][r]
               /\ SlotKept(conns, conns', client_socks[m][r])
               /\ client_socket_to_node'[m][r] = client_socket_to_node[m][r]
      BY <1>1, Held
    <2>2. \A m \in Node, r \in Slot :
               client_socks'[m][r] = Idle /\ client_socket_to_node'[m][r] # NoNode => blind'[m]
      BY Held DEF envVars
    <2> QED
      BY <2>1, <2>2, Unchanging, SlotsKept DEF DStoreInvariant
  <1>6. ClientsInStep'
    <2>1. ASSUME NEW m \in Node, NEW j \in Index, tcp_clients'[m][j] \in ConnId
          PROVE  /\ tcp_clients'[m][j] = tcp_clients[m][j]
                 /\ ClientKept(conns, conns', tcp_clients[m][j])
                 /\ removed'[m] \/ (~removed[m] /\ EntryKept(m, j))
      <3>1. ~(m = n /\ j = i) /\ tcp_clients'[m][j] = tcp_clients[m][j]
        BY <1>2, <2>1, IdFacts
      <3>2. conns[tcp_clients[m][j]].client /\ tcp_clients[m][j] # c
        BY <2>1, <3>1, Held
      <3> QED
        BY <1>1, <2>1, <3>1, <3>2, AllEntriesSame DEF envVars
    <2> QED
      BY <2>1, ClientsKept DEF DStoreInvariant
  <1>7. StatusInStep'
    <2>1. \A m \in Node, j \in Index : MarkedBySlot(m, j) => MarkedBySlot(m, j)'
      BY AllEntriesSame, MarksKept
    <2> QED
      BY <1>2, <1>3, <2>1, StatusKept DEF DStoreInvariant, envVars
  <1> QED
    BY <1>1, <1>2, <1>3, <1>4, <1>5, <1>6, <1>7, Unchanging, LinkInvariant DEF envVars, TypeOK

\* A process that ends closes its ends of its connections, and forgets the rest.
LEMMA DiesStep ==
    ASSUME DStoreInvariant, NEW n \in Node, Dies(n), left' \in [Event -> Nat]
    PROVE  DStoreInvariant'
  <1>1. /\ GoodConns(conns')
        /\ \A d \in ConnId : conns[d].server # "closed" /\ conns[d].to # n => SlotKept(conns, conns', d)
        /\ \A d \in ConnId : conns[d].client /\ conns[d].from # n => ClientKept(conns, conns', d)
    BY Unchanging, ProcessCloses
  <1>2. UNCHANGED <<works, file, proto, elected>>
    BY DEF Dies
  <1>2a. /\ nodes' \in [Node -> Seq(Node)] /\ \A m \in Node : Len(nodes'[m]) <= MaxNodes
         /\ \A m \in Node : m # n => nodes'[m] = nodes[m]
    <2>1. nodes \in [Node -> Seq(Node)] /\ \A m \in Node : Len(nodes[m]) <= MaxNodes
      BY Unchanging DEF TypeOK
    <2>2. Seed[n] \in Seq(Node) /\ Len(Seed[n]) <= MaxNodes
      BY SeedAssumption
    <2>3. nodes' = [nodes EXCEPT ![n] = Seed[n]]
      BY DEF Dies
    <2>4. nodes' \in [Node -> Seq(Node)] /\ \A m \in Node : nodes'[m] = IF m = n THEN Seed[n] ELSE nodes[m]
      BY <2>1, <2>2, <2>3
    <2> QED
      BY <2>1, <2>2, <2>4
  <1>2b. ASSUME NEW m \in Node, m # n, NEW i \in Index PROVE EntryKept(m, i)
    <2>1. TypeOK /\ nodes'[m] = nodes[m]
      BY <1>2a, <1>2b, Unchanging
    <2> QED
      BY <2>1, EntriesSame
  <1>3. /\ tcp_clients' \in [Node -> [Index -> ConnId \cup {NULL, Idle}]]
        /\ \A m \in Node, i \in Index : tcp_clients'[m][i] = IF m = n THEN NULL ELSE tcp_clients[m][i]
    BY Unchanging DEF Dies, TypeOK
  <1>4. /\ connection_status' \in [Node -> [Index -> BOOLEAN]]
        /\ \A m \in Node, i \in Index : connection_status'[m][i] => m # n /\ connection_status[m][i]
    <2>1. connection_status \in [Node -> [Index -> BOOLEAN]]
      BY Unchanging DEF TypeOK
    <2> QED
      BY <2>1 DEF Dies
  <1>5. /\ client_socks' \in [Node -> [Slot -> ConnId \cup {Idle}]]
        /\ \A m \in Node, s \in Slot : client_socks'[m][s] = IF m = n THEN Idle ELSE client_socks[m][s]
    BY Unchanging DEF Dies, TypeOK
  <1>6. /\ client_socket_to_node' \in [Node -> [Slot -> Node \cup {NoNode}]]
        /\ \A m \in Node, s \in Slot :
              client_socket_to_node'[m][s] = IF m = n THEN NoNode ELSE client_socket_to_node[m][s]
    BY Unchanging DEF Dies, TypeOK
  <1>7. /\ up' \in [Node -> BOOLEAN] /\ waits' \in [Node -> Index \cup {Running}]
        /\ blind' \in [Node -> BOOLEAN] /\ removed' \in [Node -> BOOLEAN] /\ direct' \in [Node -> BOOLEAN]
        /\ \A m \in Node : m # n => blind'[m] = blind[m] /\ removed'[m] = removed[m] /\ direct'[m] = direct[m]
    <2>1. /\ up \in [Node -> BOOLEAN] /\ waits \in [Node -> Index \cup {Running}]
          /\ blind \in [Node -> BOOLEAN] /\ removed \in [Node -> BOOLEAN] /\ direct \in [Node -> BOOLEAN]
      BY Unchanging DEF TypeOK
    <2> QED
      BY <2>1 DEF Dies
  <1>8. /\ store' \in [Node -> [Key -> Val \cup {NoVal}]]
        /\ \A m \in Node, k \in Key : store'[m][k] = IF m = n THEN NoVal ELSE store[m][k]
    BY Unchanging DEF Dies, TypeOK
  <1>9. conns' \in [ConnId -> Connection] /\ LinesAreTrue' /\ FilesAreTrue'
    BY <1>1, <1>2, StorePart
  <1>10. TypeOK'
    <2>1. TypeOK
      BY Unchanging
    <2>2. works' \subseteq Layer /\ nodes' \in [Node -> Seq(Node)] /\ \A m \in Node : Len(nodes'[m]) <= MaxNodes
      BY <1>2, <1>2a, <2>1 DEF TypeOK
    <2>3. /\ file' \in [Node -> StateFile] /\ proto' \in [Node -> StateFile]
          /\ elected' = elected
      BY <1>2, <2>1 DEF TypeOK
    <2> QED
      BY <1>3, <1>4, <1>5, <1>6, <1>7, <1>8, <1>9, <2>1, <2>2, <2>3 DEF TypeOK
  <1>11. HoldersWereLeaders'
    BY <1>2, <1>7, <1>8 DEF DStoreInvariant, HoldersWereLeaders
  <1>12. SlotsInStep' /\ MappedSocketsBelong'
    <2>1. \A m \in Node, s \in Slot : client_socks'[m][s] # Idle =>
               /\ client_socks'[m][s] = client_socks[m][s]
               /\ SlotKept(conns, conns', client_socks[m][s])
               /\ client_socket_to_node'[m][s] = client_socket_to_node[m][s]
      <3>1. ASSUME NEW m \in Node, NEW s \in Slot, client_socks'[m][s] # Idle
            PROVE  m # n /\ client_socks'[m][s] = client_socks[m][s]
        BY <1>5, <3>1
      <3>2. ASSUME NEW m \in Node, NEW s \in Slot, client_socks[m][s] # Idle, m # n
            PROVE  SlotKept(conns, conns', client_socks[m][s])
        BY <1>1, <3>2, Held
      <3> QED
        BY <1>6, <3>1, <3>2
    <2>2. ASSUME NEW m \in Node, NEW s \in Slot,
                 client_socks'[m][s] = Idle, client_socket_to_node'[m][s] # NoNode
          PROVE  blind'[m]
      <3>1. m # n
        BY <1>6, <2>2
      <3>2. client_socks[m][s] = Idle /\ client_socket_to_node[m][s] # NoNode
        BY <1>5, <1>6, <2>2, <3>1
      <3>3. blind[m] /\ blind'[m] = blind[m]
        BY <1>7, <3>1, <3>2, Held
      <3> QED
        BY <3>3
    <2> QED
      BY <1>10, <2>1, <2>2, Unchanging, SlotsKept DEF DStoreInvariant
  <1>13. ClientsInStep'
    <2>1. ASSUME NEW m \in Node, NEW i \in Index, tcp_clients'[m][i] \in ConnId
          PROVE  /\ tcp_clients'[m][i] = tcp_clients[m][i]
                 /\ ClientKept(conns, conns', tcp_clients[m][i])
                 /\ removed'[m] \/ (~removed[m] /\ EntryKept(m, i))
      <3>1. m # n /\ tcp_clients'[m][i] = tcp_clients[m][i]
        BY <1>3, <2>1, IdFacts
      <3> QED
        BY <1>1, <1>2b, <1>7, <2>1, <3>1, Held
    <2> QED
      BY <2>1, ClientsKept DEF DStoreInvariant
  <1>14. StatusInStep'
    <2>1. ASSUME NEW m \in Node, NEW i \in Index, connection_status'[m][i], ~blind'[m], ~removed'[m]
          PROVE  /\ connection_status[m][i] /\ ~blind[m] /\ ~removed[m]
                 /\ tcp_clients[m][i] \in ConnId => tcp_clients'[m][i] \in ConnId
                 /\ MarkedBySlot(m, i) => MarkedBySlot(m, i)'
      <3>1. m # n /\ connection_status[m][i]
        BY <1>4, <2>1
      <3>2. MarkedBySlot(m, i) => MarkedBySlot(m, i)'
        BY <1>2b, <1>6, <3>1, MarksKept
      <3> QED
        BY <1>3, <1>7, <2>1, <3>1, <3>2
    <2> QED
      BY <2>1, StatusKept DEF DStoreInvariant
  <1> QED
    BY <1>9, <1>10, <1>11, <1>12, <1>13, <1>14 DEF DStoreInvariant

\* A process is told to end.
LEMMA ExitStep ==
    ASSUME DStoreInvariant, NEW n \in Node, Exit(n)
    PROVE  DStoreInvariant'
  BY Unchanging, HappensTyped, DiesStep DEF Exit, Event

\* The peer of a slot is gone: the slot is freed, or its callback takes the process down.
LEMMA ServerLostStep ==
    ASSUME DStoreInvariant, NEW n \in Node, NEW s \in Slot, ServerLost(n, s)
    PROVE  DStoreInvariant'
  <1>1. PICK c \in ConnId : c = client_socks[n][s]
    BY Held DEF ServerLost
  <1>2. CASE Dies(n) /\ UNCHANGED left
    BY <1>2, Unchanging, DiesStep DEF TypeOK
  <1>3. CASE /\ dstore_server_on_disconnection(n, s)
             /\ client_socks' = [client_socks EXCEPT ![n][s] = Idle]
             /\ conns' = CloseServer(conns, client_socks[n][s])
             /\ UNCHANGED <<envVars, tcp_clients, waits, nodes, store, file>>
    BY <1>1, <1>3, SlotLostStep DEF ServerLost
  <1> QED
    BY <1>2, <1>3 DEF ServerLost

\* The peer of a client is gone: the client is freed, or freed twice, which ends the process.
LEMMA ClientLostStep ==
    ASSUME DStoreInvariant, NEW n \in Node, NEW i \in Index, ClientLost(n, i)
    PROVE  DStoreInvariant'
  <1>1. PICK c \in ConnId : c = tcp_clients[n][i]
    BY DEF ClientLost
  <1>2. CASE Dies(n) /\ UNCHANGED left
    BY <1>2, Unchanging, DiesStep DEF TypeOK
  <1>3. CASE /\ tcp_clients' = [tcp_clients EXCEPT ![n][i] = NULL]
             /\ connection_status' = [connection_status EXCEPT ![n][i] = FALSE]
             /\ conns' = CloseClient(conns, tcp_clients[n][i])
             /\ waits' = [waits EXCEPT ![n] = Running]
             /\ UNCHANGED <<envVars, client_socks, client_socket_to_node, nodes, store, file>>
    BY <1>1, <1>3, ClientFreedStep
  <1> QED
    BY <1>2, <1>3 DEF ClientLost

\* A connection that is made takes the place of none that somebody holds.
LEMMA FreshConnection ==
    ASSUME DStoreInvariant, NEW c \in ConnId, conns[c] = NoConnection,
           NEW k \in Connection, GoodLines(k), conns' = [conns EXCEPT ![c] = k]
    PROVE  /\ GoodConns(conns') /\ conns'[c] = k
           /\ \A d \in ConnId : d # c => conns'[d] = conns[d]
           /\ \A n \in Node, s \in Slot : client_socks[n][s] # c
           /\ \A n \in Node, i \in Index : tcp_clients[n][i] # c
  <1>1. conns \in [ConnId -> Connection] /\ \A d \in ConnId : GoodLines(conns[d])
    BY Unchanging DEF GoodConns
  <1>2. conns' \in [ConnId -> Connection] /\ \A d \in ConnId : conns'[d] = IF d = c THEN k ELSE conns[d]
    BY <1>1
  <1>3. GoodConns(conns')
    BY <1>1, <1>2 DEF GoodConns
  <1>4. conns[c].server = "closed" /\ ~conns[c].client
    BY DEF NoConnection
  <1>5. c # Idle
    BY IdFacts
  <1>6. \A n \in Node, s \in Slot : client_socks[n][s] # c
    BY <1>4, <1>5, Held
  <1>7. \A n \in Node, i \in Index : tcp_clients[n][i] # c
    BY <1>4, Held
  <1> QED
    BY <1>2, <1>3, <1>6, <1>7

\* The slots keep their connections when one is made.
LEMMA SlotsAfterConnect ==
    ASSUME DStoreInvariant, NEW c \in ConnId, \A d \in ConnId : d # c => conns'[d] = conns[d],
           \A n \in Node, s \in Slot : client_socks[n][s] # c,
           UNCHANGED <<client_socks, client_socket_to_node, blind>>
    PROVE  TypeOK' => SlotsInStep' /\ MappedSocketsBelong'
  <1>1. \A m \in Node, r \in Slot : client_socks'[m][r] # Idle =>
             /\ client_socks'[m][r] = client_socks[m][r]
             /\ SlotKept(conns, conns', client_socks[m][r])
             /\ client_socket_to_node'[m][r] = client_socket_to_node[m][r]
    BY Held DEF SlotKept
  <1>2. \A m \in Node, r \in Slot :
             client_socks'[m][r] = Idle /\ client_socket_to_node'[m][r] # NoNode => blind'[m]
    BY Held
  <1> QED
    BY <1>1, <1>2, Unchanging, SlotsKept DEF DStoreInvariant

\* A client that is no node connects.
LEMMA ExternalClientStep ==
    ASSUME DStoreInvariant, NEW n \in Node, NEW c \in ConnId, NEW m \in ExternalCommand, ExternalClient(n, c, m)
    PROVE  DStoreInvariant'
  <1>1. /\ conns[c] = NoConnection /\ Happens("command")
        /\ UNCHANGED <<works, up, proto, elected, blind, removed, direct, linkVars, nodes, store, file>>
    BY DEF ExternalClient, IsFree, FreeConn
  <1>2. PICK k : k = [NoConnection EXCEPT !.to = n, !.server = "backlog", !.up = <<m>>]
    OBVIOUS
  <1>3. m \in LinesOf(NoNode)
    <2>1. m \in Line /\ m.type \in {"PUT", "DELETE"}
      BY DEF ExternalCommand, Line
    <2> QED
      BY <2>1 DEF LinesOf
  <1>4. /\ <<m>> \in Seq(LinesOf(NoNode)) /\ <<m>> \in Seq(Line)
        /\ <<>> \in Seq(Line) /\ <<>> \in Seq(LinesOf(NoNode))
    <2>1. m \in Line
      BY <1>3 DEF LinesOf
    <2>2. <<m>> \in Seq(LinesOf(NoNode)) /\ <<m>> \in Seq(Line)
      BY <1>3, <2>1
    <2> QED
      BY <2>2, EmptySeq
  <1>5. k \in Connection /\ GoodLines(k)
    BY <1>2, <1>4 DEF Connection, NoConnection, GoodLines
  <1>6. conns' = [conns EXCEPT ![c] = k]
    BY <1>2 DEF ExternalClient
  <1>7. /\ GoodConns(conns')
        /\ \A d \in ConnId : d # c => conns'[d] = conns[d]
        /\ \A h \in Node, s \in Slot : client_socks[h][s] # c
        /\ \A h \in Node, i \in Index : tcp_clients[h][i] # c
    BY <1>1, <1>5, <1>6, FreshConnection
  <1>8. TypeOK' => SlotsInStep' /\ MappedSocketsBelong'
    BY <1>1, <1>7, SlotsAfterConnect DEF linkVars
  <1>9. ClientsInStep'
    <2>1. \A h \in Node, i \in Index : tcp_clients'[h][i] \in ConnId =>
               /\ tcp_clients'[h][i] = tcp_clients[h][i]
               /\ ClientKept(conns, conns', tcp_clients[h][i])
               /\ removed'[h] \/ (~removed[h] /\ EntryKept(h, i))
      BY <1>1, <1>7, AllEntriesSame DEF linkVars, ClientKept
    <2> QED
      BY <2>1, ClientsKept DEF DStoreInvariant
  <1>10. StatusInStep'
    <2>1. \A h \in Node, i \in Index : MarkedBySlot(h, i) => MarkedBySlot(h, i)'
      BY <1>1, AllEntriesSame, MarksKept DEF linkVars
    <2> QED
      BY <1>1, <2>1, StatusKept DEF DStoreInvariant, linkVars
  <1>11. left' \in [Event -> Nat]
    BY <1>1, Unchanging, HappensTyped DEF Event
  <1> QED
    BY <1>1, <1>7, <1>8, <1>9, <1>10, <1>11, Unchanging, LinkInvariant DEF linkVars, TypeOK

\* A client connects: its index is marked, and its connection goes to the peer of the index.
LEMMA ConnectStep ==
    ASSUME DStoreInvariant, NEW n \in Node, NEW i \in Index, NEW c \in ConnId, Connect(n, i, c),
           UNCHANGED <<envVars, nodes, store, file>>
    PROVE  DStoreInvariant'
  <1>1. PICK to \in Node : to = node_id(n, i) /\ i \in InTable(n)
    BY Unchanging, FindFacts DEF Connect, Peer
  <1>2. PICK q \in Seq(LinesOf(n)) : q = IF "framing" \in works THEN <<Hello(n)>> \o Snapshot(n) ELSE <<>>
    <2>1. <<Hello(n)>> \in Seq(LinesOf(n))
      BY DEF Hello, LinesOf, Line
    <2>2. PICK e \in Seq(LinesOf(NoNode)) : e = Snapshot(n)
      BY Unchanging, SnapshotTrue
    <2>3. e \in Seq(LinesOf(n))
      BY LinesWiden
    <2>4. <<Hello(n)>> \o e \in Seq(LinesOf(n)) /\ <<>> \in Seq(LinesOf(n))
      BY <2>1, <2>3, ConcatProperties, EmptySeq
    <2> QED
      BY <2>2, <2>4
  <1>3. PICK k : k = [from |-> n, to |-> to, client |-> TRUE, server |-> "backlog", up |-> q, down |-> <<>>]
    OBVIOUS
  <1>4. /\ k \in Connection /\ GoodLines(k) /\ k.from = n /\ k.to = to /\ k.client
    <2>1. q \in Seq(Line) /\ <<>> \in Seq(Line) /\ <<>> \in Seq(LinesOf(NoNode))
      BY LinesTyped, EmptySeq
    <2> QED
      BY <1>3, <2>1 DEF Connection, GoodLines
  <1>5. /\ conns[c] = NoConnection
        /\ tcp_clients[n][i] \in {NULL, Idle}
        /\ tcp_clients' = [tcp_clients EXCEPT ![n][i] = c]
        /\ connection_status' = [connection_status EXCEPT ![n][i] = TRUE]
        /\ conns' = [conns EXCEPT ![c] = k]
        /\ UNCHANGED <<client_socks, client_socket_to_node, waits>>
    BY <1>1, <1>2, <1>3 DEF Connect, IsFree, FreeConn
  <1>6. /\ GoodConns(conns') /\ conns'[c] = k
        /\ \A d \in ConnId : d # c => conns'[d] = conns[d]
        /\ \A h \in Node, s \in Slot : client_socks[h][s] # c
        /\ \A h \in Node, j \in Index : tcp_clients[h][j] # c
    BY <1>4, <1>5, FreshConnection
  <1>7. TypeOK' => SlotsInStep' /\ MappedSocketsBelong'
    BY <1>5, <1>6, SlotsAfterConnect DEF envVars
  <1>8. /\ tcp_clients' \in [Node -> [Index -> ConnId \cup {NULL, Idle}]]
        /\ \A h \in Node, j \in Index : tcp_clients'[h][j] = IF h = n /\ j = i THEN c ELSE tcp_clients[h][j]
    BY <1>5, Unchanging DEF TypeOK
  <1>9. /\ connection_status' \in [Node -> [Index -> BOOLEAN]]
        /\ \A h \in Node, j \in Index : connection_status'[h][j] => connection_status[h][j] \/ (h = n /\ j = i)
    <2>1. connection_status \in [Node -> [Index -> BOOLEAN]]
      BY Unchanging DEF TypeOK
    <2> QED
      BY <1>5, <2>1
  <1>10. ASSUME NEW h \in Node, NEW j \in Index, tcp_clients'[h][j] \in ConnId
         PROVE  /\ conns'[tcp_clients'[h][j]].from = h /\ conns'[tcp_clients'[h][j]].client
                /\ \A x \in Index : tcp_clients'[h][x] = tcp_clients'[h][j] => x = j
                /\ ~removed'[h] => j \in InTable(h)' /\ conns'[tcp_clients'[h][j]].to = node_id(h, j)'
    <2>1. EntryKept(h, j) /\ removed' = removed
      BY AllEntriesSame DEF envVars
    <2>2. CASE h = n /\ j = i
      <3>1. tcp_clients'[h][j] = c
        BY <1>8, <2>2
      <3>2. \A x \in Index : tcp_clients'[h][x] = c => x = j
        BY <1>6, <1>8, <2>2
      <3>3. j \in InTable(h)' /\ to = node_id(h, j)'
        BY <1>1, <2>1, <2>2 DEF EntryKept
      <3> QED
        BY <1>4, <1>6, <2>2, <3>1, <3>2, <3>3
    <2>3. CASE ~(h = n /\ j = i)
      <3>1. PICK d \in ConnId : d = tcp_clients'[h][j] /\ d = tcp_clients[h][j] /\ d # c
        BY <1>6, <1>8, <1>10, <2>3
      <3>2. /\ conns'[d] = conns[d] /\ conns[d].from = h /\ conns[d].client
            /\ \A x \in Index : tcp_clients[h][x] = d => x = j
            /\ ~removed[h] => j \in InTable(h) /\ conns[d].to = node_id(h, j)
        BY <1>6, <3>1 DEF DStoreInvariant, ClientsInStep
      <3>3. \A x \in Index : tcp_clients'[h][x] = d => x = j
        BY <1>8, <3>1, <3>2
      <3>4. ~removed'[h] => j \in InTable(h)' /\ conns[d].to = node_id(h, j)'
        BY <2>1, <3>2 DEF EntryKept
      <3> QED
        BY <3>1, <3>2, <3>3, <3>4
    <2> QED
      BY <2>2, <2>3
  <1>11. ClientsInStep'
    BY <1>10 DEF ClientsInStep
  <1>12. ASSUME NEW h \in Node, NEW j \in Index, connection_status'[h][j], ~blind'[h], ~removed'[h]
         PROVE  tcp_clients'[h][j] \in ConnId \/ MarkedBySlot(h, j)'
    <2>1. CASE h = n /\ j = i
      BY <1>8, <2>1
    <2>2. CASE ~(h = n /\ j = i)
      <3>1. connection_status[h][j] /\ ~blind[h] /\ ~removed[h]
        BY <1>9, <1>12, <2>2 DEF envVars
      <3>2. tcp_clients[h][j] \in ConnId \/ MarkedBySlot(h, j)
        BY <3>1 DEF DStoreInvariant, StatusInStep
      <3>3. MarkedBySlot(h, j) => MarkedBySlot(h, j)'
        BY <1>5, AllEntriesSame, MarksKept
      <3> QED
        BY <1>8, <2>2, <3>2, <3>3
    <2> QED
      BY <2>1, <2>2
  <1>13. StatusInStep'
    BY <1>12 DEF StatusInStep
  <1> QED
    BY <1>5, <1>6, <1>7, <1>8, <1>9, <1>11, <1>13, Unchanging, LinkInvariant DEF envVars, TypeOK

\* What is left of a table when one entry is taken out.
LEMMA EntryRemoved ==
    ASSUME NEW q \in Seq(Node), NEW i \in 0..(Len(q) - 1)
    PROVE  LET r == SubSeq(q, 1, i) \o SubSeq(q, i + 2, Len(q))
           IN  r \in Seq(Node) /\ Len(r) = Len(q) - 1
  <1>1. Len(q) \in Nat /\ i \in Nat
    BY LenProperties
  <1>2. \A j \in 1..Len(q) : q[j] \in Node
    BY ElementOfSeq
  <1>3. PICK a : a = SubSeq(q, 1, i)
    OBVIOUS
  <1>4. PICK b : b = SubSeq(q, i + 2, Len(q))
    OBVIOUS
  <1>5. a \in Seq(Node) /\ Len(a) = i
    <2>1. \A j \in 1..i : q[j] \in Node
      BY <1>1, <1>2
    <2>2. a \in Seq(Node) /\ Len(a) = IF 1 <= i THEN i - 1 + 1 ELSE 0
      BY <1>1, <1>3, <2>1, SubSeqProperties
    <2> QED
      BY <1>1, <2>2
  <1>6. b \in Seq(Node) /\ Len(b) = Len(q) - i - 1
    <2>1. PICK x \in Int : x = i + 2
      BY <1>1
    <2>2. \A j \in x..Len(q) : q[j] \in Node
      BY <1>1, <1>2, <2>1
    <2>3. b = SubSeq(q, x, Len(q))
      BY <1>4, <2>1
    <2>4. b \in Seq(Node) /\ Len(b) = IF x <= Len(q) THEN Len(q) - x + 1 ELSE 0
      BY <1>1, <2>2, <2>3, SubSeqProperties
    <2> QED
      BY <1>1, <2>1, <2>4
  <1>7. a \o b \in Seq(Node) /\ Len(a \o b) = Len(a) + Len(b)
    BY <1>5, <1>6, ConcatProperties
  <1>8. Len(a \o b) = Len(q) - 1
    BY <1>1, <1>5, <1>6, <1>7
  <1> QED
    BY <1>3, <1>4, <1>7, <1>8

\* A node is removed from the table; what is kept per index stays where it was.
LEMMA RemoveNodeStep ==
    ASSUME DStoreInvariant, NEW n \in Node, NEW id \in Node, RemoveNode(n, id)
    PROVE  DStoreInvariant'
  <1>1. PICK i \in InTable(n) : i = find_node_index_by_id(n, id)
    BY Unchanging, FindFacts DEF RemoveNode
  <1>2. PICK q \in Seq(Node) : q = nodes[n] /\ Len(q) <= MaxNodes
    BY Unchanging DEF TypeOK
  <1>3. i \in 0..(Len(q) - 1) /\ Len(q) \in Nat /\ MaxNodes \in Nat
    BY <1>1, <1>2, LenProperties, IdFacts DEF InTable
  <1>4. PICK r : r = SubSeq(q, 1, i) \o SubSeq(q, i + 2, Len(q))
    OBVIOUS
  <1>5. r \in Seq(Node) /\ Len(r) <= MaxNodes
    <2>1. r \in Seq(Node) /\ Len(r) = Len(q) - 1
      BY <1>3, <1>4, EntryRemoved
    <2> QED
      BY <1>2, <1>3, <2>1
  <1>6. /\ nodes' = [nodes EXCEPT ![n] = r] /\ Happens("membership")
        /\ removed' = [removed EXCEPT ![n] = TRUE]
        /\ UNCHANGED <<works, up, proto, elected, blind, direct, linkVars, conns, store, file>>
    BY <1>1, <1>2, <1>4 DEF RemoveNode
  <1>7. /\ nodes' \in [Node -> Seq(Node)] /\ \A m \in Node : Len(nodes'[m]) <= MaxNodes
        /\ \A m \in Node : m # n => nodes'[m] = nodes[m]
    BY <1>5, <1>6, Unchanging DEF TypeOK
  <1>8. /\ removed' \in [Node -> BOOLEAN] /\ removed'[n]
        /\ \A m \in Node : m # n => removed'[m] = removed[m]
    BY <1>6, Unchanging DEF TypeOK
  <1>9. left' \in [Event -> Nat]
    BY <1>6, Unchanging, HappensTyped DEF Event
  <1>10. conns' \in [ConnId -> Connection] /\ LinesAreTrue' /\ FilesAreTrue' /\ HoldersWereLeaders'
    BY <1>6, Unchanging, StorePart
  <1>11. TypeOK'
    BY <1>6, <1>7, <1>8, <1>9, <1>10, Unchanging DEF TypeOK, linkVars
  <1>12. SlotsInStep' /\ MappedSocketsBelong'
    BY <1>6 DEF DStoreInvariant, SlotsInStep, MappedSocketsBelong, linkVars
  <1>13. ClientsInStep'
    <2>1. ASSUME NEW m \in Node, NEW j \in Index, tcp_clients'[m][j] \in ConnId
          PROVE  /\ tcp_clients'[m][j] = tcp_clients[m][j]
                 /\ ClientKept(conns, conns', tcp_clients[m][j])
                 /\ removed'[m] \/ (~removed[m] /\ EntryKept(m, j))
      <3>1. tcp_clients'[m][j] = tcp_clients[m][j] /\ ClientKept(conns, conns', tcp_clients[m][j])
        BY <1>6 DEF linkVars, ClientKept
      <3>2. removed'[m] \/ (~removed[m] /\ EntryKept(m, j))
        <4>1. CASE m = n
          BY <1>8, <4>1
        <4>2. CASE m # n
          <5>1. EntryKept(m, j) /\ removed'[m] = removed[m] /\ removed[m] \in BOOLEAN
            BY <1>7, <1>8, <4>2, Unchanging, EntriesSame DEF TypeOK
          <5> QED
            BY <5>1
        <4> QED
          BY <4>1, <4>2
      <3> QED
        BY <3>1, <3>2
    <2> QED
      BY <2>1, ClientsKept DEF DStoreInvariant
  <1>14. StatusInStep'
    <2>1. ASSUME NEW m \in Node, NEW j \in Index, connection_status'[m][j], ~blind'[m], ~removed'[m]
          PROVE  /\ connection_status[m][j] /\ ~blind[m] /\ ~removed[m]
                 /\ tcp_clients[m][j] \in ConnId => tcp_clients'[m][j] \in ConnId
                 /\ MarkedBySlot(m, j) => MarkedBySlot(m, j)'
      <3>1. m # n
        BY <1>8, <2>1
      <3>2. MarkedBySlot(m, j) => MarkedBySlot(m, j)'
        BY <1>6, <1>7, <3>1, Unchanging, EntriesSame, MarksKept DEF linkVars
      <3>3. connection_status[m][j] /\ ~blind[m]
        BY <1>6, <2>1 DEF linkVars
      <3>4. ~removed[m]
        BY <1>8, <2>1, <3>1
      <3>5. tcp_clients[m][j] \in ConnId => tcp_clients'[m][j] \in ConnId
        BY <1>6 DEF linkVars
      <3> QED
        BY <3>2, <3>3, <3>4, <3>5
    <2> QED
      BY <2>1, StatusKept DEF DStoreInvariant
  <1> QED
    BY <1>10, <1>11, <1>12, <1>13, <1>14 DEF DStoreInvariant

----------------------------------------------------------------------------
(* An election: more leaders, and so more lines that are true *)

\* Sending adds lines and leaves the ends of the connections.
Adds(cs, ds, line) ==
    /\ ds \in [ConnId -> Connection] /\ SameEnds(cs, ds)
    /\ \A c \in ConnId : /\ ds[c].up = cs[c].up \/ ds[c].up = cs[c].up \o <<line>>
                         /\ ds[c].down = cs[c].down \/ ds[c].down = cs[c].down \o <<line>>

\* The broadcast of a victory reaches each end of a connection at most once.
LEMMA BroadcastAdds ==
    ASSUME conns \in [ConnId -> Connection], NEW n \in Node, NEW t, NEW l, Leader(t, l) \in Line
    PROVE  Adds(conns, dstore_broadcast_leader_snapshot(n, t, l), Leader(t, l))
  <1>1. PICK line \in Line : line = Leader(t, l)
    OBVIOUS
  <1>2. <<line>> \in Seq(Line)
    OBVIOUS
  <1>3. PICK cs : cs = tcp_client_send(conns, n, InTable(n), <<line>>)
    OBVIOUS
  <1>4. PICK ds : ds = tcp_server_send(cs, n, {s \in Slot : client_socket_to_node[n][s] # NoNode}, <<line>>)
    OBVIOUS
  <1>5. ds = dstore_broadcast_leader_snapshot(n, t, l)
    BY <1>1, <1>3, <1>4 DEF dstore_broadcast_leader_snapshot
  <1>6. ASSUME NEW c \in ConnId
        PROVE  /\ ds[c] \in Connection
               /\ ds[c].from = conns[c].from /\ ds[c].to = conns[c].to
               /\ ds[c].client = conns[c].client /\ ds[c].server = conns[c].server
               /\ ds[c].up = conns[c].up \/ ds[c].up = conns[c].up \o <<line>>
               /\ ds[c].down = conns[c].down \/ ds[c].down = conns[c].down \o <<line>>
    <2>1. PICK k \in Connection : k = conns[c]
      OBVIOUS
    <2>2. k.up \o <<line>> \in Seq(Line) /\ k.down \o <<line>> \in Seq(Line)
      <3>1. k.up \in Seq(Line) /\ k.down \in Seq(Line)
        BY DEF Connection
      <3> QED
        BY <1>2, <3>1, ConcatProperties
    <2>3. PICK a \in Seq(Line) : a = k.up \o <<line>>
      BY <2>2
    <2>4. PICK b \in Seq(Line) : b = k.down \o <<line>>
      BY <2>2
    <2>5. cs[c] = k \/ cs[c] = [k EXCEPT !.up = a]
      BY <1>3, <2>1, <2>3 DEF tcp_client_send
    <2>6. cs[c] \in Connection /\ cs[c].down = k.down
      BY <2>5 DEF Connection
    <2>7. ds[c] = cs[c] \/ ds[c] = [cs[c] EXCEPT !.down = b]
      BY <1>4, <2>4, <2>6 DEF tcp_server_send
    <2>8. /\ cs[c].from = k.from /\ cs[c].to = k.to /\ cs[c].client = k.client /\ cs[c].server = k.server
          /\ cs[c].up = k.up \/ cs[c].up = a
      BY <2>5 DEF Connection
    <2>9. /\ ds[c] \in Connection
          /\ ds[c].from = cs[c].from /\ ds[c].to = cs[c].to
          /\ ds[c].client = cs[c].client /\ ds[c].server = cs[c].server
          /\ ds[c].up = cs[c].up /\ (ds[c].down = cs[c].down \/ ds[c].down = b)
      BY <2>6, <2>7 DEF Connection
    <2> QED
      BY <2>1, <2>3, <2>4, <2>6, <2>8, <2>9
  <1>7. ds \in [ConnId -> Connection]
    <2>1. ds = [c \in ConnId |-> ds[c]]
      BY <1>4 DEF tcp_server_send
    <2> QED
      BY <1>6, <2>1
  <1> QED
    BY <1>1, <1>5, <1>6, <1>7 DEF Adds, SameEnds

\* The term of an election is one that can be.
LEMMA NextTerm ==
    ASSUME TypeOK, Cardinality(elected) + 1 <= MaxTerm
    PROVE  Cardinality(elected) + 1 \in 1..MaxTerm
  <1>1. IsFiniteSet(1..MaxTerm)
    BY FS_Interval, IdFacts
  <1>2. IsFiniteSet((1..MaxTerm) \X Node)
    BY <1>1, NodesAssumption, FS_Product
  <1>3. IsFiniteSet(elected)
    BY <1>2, FS_Subset DEF TypeOK
  <1>4. Cardinality(elected) \in Nat
    BY <1>3, FS_CardinalityType
  <1> QED
    BY <1>4, IdFacts

\* What was a true line stays one when the leaders become more, and the new leader's is one then.
LEMMA LinesAfterElection ==
    ASSUME LinesAreTrue, Leaders \subseteq Leaders', NEW line, line \in LinesOf(NoNode)',
           Adds(conns, conns', line) \/ conns' = conns
    PROVE  LinesAreTrue'
  <1>1. \A f : LinesOf(f) \subseteq LinesOf(f)'
    BY DEF LinesOf
  <1>2. PICK G : G = LinesOf(NoNode)'
    OBVIOUS
  <1>3. LinesOf(NoNode) \subseteq G /\ line \in G
    BY <1>1, <1>2
  <1>4. ASSUME NEW c \in ConnId
        PROVE  /\ conns'[c].up \in Seq(LinesOf(conns[c].from)')
               /\ conns'[c].down \in Seq(LinesOf(NoNode)')
               /\ conns'[c].from = conns[c].from
    <2>1. PICK f : f = conns[c].from
      OBVIOUS
    <2>2. PICK F : F = LinesOf(f)'
      OBVIOUS
    <2>3. line \in F
      <3>1. line \in Line /\ line.type # "HELLO" /\ (line.type = "LEADER" => line.leader \in Leaders')
        BY IdFacts, LineFields DEF LinesOf
      <3> QED
        BY <2>2, <3>1 DEF LinesOf
    <2>4. LinesOf(f) \subseteq F
      BY <1>1, <2>2
    <2>5. conns[c].up \in Seq(F) /\ conns[c].down \in Seq(G)
      BY <1>3, <2>1, <2>4, SeqMonotonic DEF LinesAreTrue
    <2>6. <<line>> \in Seq(F) /\ <<line>> \in Seq(G)
      BY <1>3, <2>3
    <2>7. conns[c].up \o <<line>> \in Seq(F) /\ conns[c].down \o <<line>> \in Seq(G)
      BY <2>5, <2>6, ConcatProperties
    <2>8. /\ conns'[c].up = conns[c].up \/ conns'[c].up = conns[c].up \o <<line>>
          /\ conns'[c].down = conns[c].down \/ conns'[c].down = conns[c].down \o <<line>>
          /\ conns'[c].from = conns[c].from
      BY DEF Adds, SameEnds
    <2>9. conns'[c].up \in Seq(F) /\ conns'[c].down \in Seq(G)
      BY <2>5, <2>7, <2>8
    <2> QED
      BY <1>2, <2>1, <2>2, <2>8, <2>9
  <1> QED
    BY <1>4 DEF LinesAreTrue

\* A term of an election can be stored.
LEMMA TermsFit ==
    ASSUME NEW t \in 1..MaxTerm
    PROVE  t \in 0..MaxTerm
  BY IdFacts

\* What rale_proto keeps after an election: the winner's victory and the votes.
StatesAfter(l, voters, t) ==
    [n \in Node |-> IF n = l THEN [term |-> t, vote |-> l, leader |-> l]
                    ELSE IF n \in voters THEN [proto[n] EXCEPT !.term = t, !.vote = l]
                    ELSE proto[n]]

\* The saves of the voters and of the winner name leaders only.
LEMMA FilesAfterElection ==
    ASSUME DStoreInvariant, NEW L, Leaders \subseteq L, NEW l \in Node, l \in L, NEW voters, NEW t \in 1..MaxTerm,
           NEW ps, ps = StatesAfter(l, voters, t),
           LeaderElected(l, t, Save(ps))
    PROVE  /\ ps \in [Node -> StateFile] /\ file' \in [Node -> StateFile]
           /\ \A n \in Node : ps[n].leader \in L \cup {NoNode} /\ file'[n].leader \in L \cup {NoNode}
  <1> DEFINE Good(e) == e \in StateFile /\ e.leader \in L \cup {NoNode}
  <1>1. t \in 0..MaxTerm
    BY TermsFit
  <1>2. \A n \in Node : Good(proto[n]) /\ Good(file[n])
    BY Unchanging DEF StateFiles
  <1>3. ASSUME NEW e, Good(e) PROVE Good([term |-> t, vote |-> e.vote, leader |-> l])
    BY <1>1, <1>3 DEF StateFile
  <1>4. ASSUME NEW e, Good(e) PROVE Good([e EXCEPT !.term = t, !.vote = l])
    BY <1>1, <1>4 DEF StateFile
  <1>5. Good([term |-> t, vote |-> l, leader |-> l])
    BY <1>1 DEF StateFile
  <1> HIDE DEF Good
  <1>6. \A n \in Node : Good(ps[n])
    BY <1>2, <1>4, <1>5 DEF StatesAfter
  <1>7. PICK fs : fs = Save(ps)
    OBVIOUS
  <1>8. \A n \in Node : Good(fs[n])
    BY <1>2, <1>6, <1>7 DEF Save
  <1>9. fs = [n \in Node |-> fs[n]]
    <2>1. file = [n \in Node |-> file[n]]
      BY Unchanging DEF StateFiles
    <2> QED
      BY <1>7, <2>1 DEF Save
  <1>10. file' = fs \/ file' = [fs EXCEPT ![l] = [term |-> t, vote |-> fs[l].vote, leader |-> l]]
    BY <1>7 DEF LeaderElected
  <1>11. \A n \in Node : Good(file'[n])
    BY <1>3, <1>8, <1>9, <1>10
  <1>12. file' = [n \in Node |-> file'[n]] /\ ps = [n \in Node |-> ps[n]]
    BY <1>9, <1>10 DEF StatesAfter
  <1> QED
    BY <1>6, <1>11, <1>12 DEF Good

\* An election is held: there is one leader more, and the store of the winner says so.
LEMMA ElectStep ==
    ASSUME DStoreInvariant, NEW l \in Node, NEW voters \in SUBSET (Node \ {l}), Elect(l, voters)
    PROVE  DStoreInvariant'
  <1>1. PICK t \in 1..MaxTerm : t = Cardinality(elected) + 1
    BY Unchanging, NextTerm DEF Elect
  <1>2. PICK ps : ps = StatesAfter(l, voters, t)
    OBVIOUS
  <1>3. /\ Happens("election") /\ elected' = elected \cup {<<t, l>>} /\ proto' = ps
        /\ LeaderElected(l, t, Save(ps))
        /\ UNCHANGED <<works, up, blind, removed, direct, linkVars, nodes, store>>
    BY <1>1, <1>2 DEF Elect, StatesAfter
  <1>4. PICK L : L = Leaders'
    OBVIOUS
  <1>5. Leaders \subseteq L /\ l \in L
    BY <1>3, <1>4 DEF Leaders
  <1>6. /\ ps \in [Node -> StateFile] /\ file' \in [Node -> StateFile]
        /\ \A n \in Node : ps[n].leader \in L \cup {NoNode} /\ file'[n].leader \in L \cup {NoNode}
    BY <1>2, <1>3, <1>5, FilesAfterElection
  <1>7. FilesAreTrue'
    BY <1>3, <1>4, <1>6 DEF FilesAreTrue
  <1>8. PICK line : line = Leader(t, l)
    OBVIOUS
  <1>9. line \in Line /\ line \in LinesOf(NoNode)'
    <2>1. line \in Line /\ line.type = "LEADER" /\ line.leader = l
      BY <1>8, IdFacts DEF Leader, Line
    <2> QED
      BY <1>4, <1>5, <2>1 DEF LinesOf
  <1>10. Adds(conns, conns', line) \/ conns' = conns
    BY <1>3, <1>8, <1>9, Unchanging, BroadcastAdds DEF LeaderElected, TypeOK
  <1>11. LinesAreTrue'
    BY <1>4, <1>5, <1>9, <1>10, LinesAfterElection DEF DStoreInvariant
  <1>12. conns' \in [ConnId -> Connection] /\ SameEnds(conns, conns')
    BY <1>10, Unchanging DEF Adds, TypeOK
  <1>13. elected' \in SUBSET ((1..MaxTerm) \X Node)
    BY <1>3, Unchanging DEF TypeOK
  <1>14. left' \in [Event -> Nat]
    BY <1>3, Unchanging, HappensTyped DEF Event
  <1>15. TypeOK'
    BY <1>3, <1>6, <1>12, <1>13, <1>14, Unchanging DEF TypeOK, linkVars
  <1>16. HoldersWereLeaders'
    BY <1>3 DEF DStoreInvariant, HoldersWereLeaders
  <1>17. SlotsInStep' /\ MappedSocketsBelong'
    <2>1. \A m \in Node, s \in Slot : client_socks'[m][s] # Idle =>
               /\ client_socks'[m][s] = client_socks[m][s]
               /\ SlotKept(conns, conns', client_socks[m][s])
               /\ client_socket_to_node'[m][s] = client_socket_to_node[m][s]
      BY <1>3, <1>12, Held, SameEndsKept DEF linkVars
    <2>2. \A m \in Node, s \in Slot :
               client_socks'[m][s] = Idle /\ client_socket_to_node'[m][s] # NoNode => blind'[m]
      BY <1>3, Held DEF linkVars
    <2> QED
      BY <1>15, <2>1, <2>2, Unchanging, SlotsKept DEF DStoreInvariant
  <1>18. ClientsInStep'
    <2>1. \A m \in Node, i \in Index : tcp_clients'[m][i] \in ConnId =>
               /\ tcp_clients'[m][i] = tcp_clients[m][i]
               /\ ClientKept(conns, conns', tcp_clients[m][i])
               /\ removed'[m] \/ (~removed[m] /\ EntryKept(m, i))
      BY <1>3, <1>12, SameEndsKept, AllEntriesSame DEF linkVars
    <2> QED
      BY <2>1, ClientsKept DEF DStoreInvariant
  <1>19. StatusInStep'
    <2>1. \A m \in Node, i \in Index : MarkedBySlot(m, i) => MarkedBySlot(m, i)'
      BY <1>3, AllEntriesSame, MarksKept DEF linkVars
    <2> QED
      BY <1>3, <2>1, StatusKept DEF DStoreInvariant, linkVars
  <1> QED
    BY <1>7, <1>11, <1>15, <1>16, <1>17, <1>18, <1>19 DEF DStoreInvariant

----------------------------------------------------------------------------
(* The theorems *)

\* At the start there are no connections, no leaders and nothing stored.
LEMMA DStoreInit ==
    ASSUME Init
    PROVE  DStoreInvariant
  <1>1. \A c \in ConnId : conns[c] = NoConnection
    BY DEF Init
  <1>2. NoConnection \in Connection /\ GoodLines(NoConnection)
    BY NoConnectionGood
  <1>3. PICK setup \in Setups : works = setup[1] /\ left = setup[2]
    BY DEF Init
  <1>4. works \in SUBSET Layer /\ left \in [Event -> Nat]
    BY <1>3, LimitAssumption
  <1>5. nodes \in [Node -> Seq(Node)] /\ \A n \in Node : Len(nodes[n]) <= MaxNodes
    BY SeedAssumption DEF Init
  <1>6. NoFile \in StateFile /\ NoFile.leader = NoNode
    BY IdFacts DEF NoFile, StateFile
  <1>7. TypeOK
    BY <1>1, <1>2, <1>4, <1>5, <1>6 DEF Init, TypeOK
  <1>8. LinesAreTrue
    BY <1>1, <1>2 DEF LinesAreTrue, GoodLines, NoConnection
  <1>9. FilesAreTrue
    BY <1>6 DEF Init, FilesAreTrue
  <1>10. SlotsInStep /\ MappedSocketsBelong
    BY DEF Init, SlotsInStep, MappedSocketsBelong
  <1>11. ClientsInStep /\ StatusInStep
    BY IdFacts DEF Init, ClientsInStep, StatusInStep
  <1>12. HoldersWereLeaders
    BY DEF Init, HoldersWereLeaders
  <1> QED
    BY <1>7, <1>8, <1>9, <1>10, <1>11, <1>12 DEF DStoreInvariant

\* Every step keeps the invariant.
LEMMA DStoreStep ==
    ASSUME DStoreInvariant, [Next]_vars
    PROVE  DStoreInvariant'
  <1>1. ASSUME NEW n \in Node, Exit(n) \/ Start(n) PROVE DStoreInvariant'
    BY <1>1, ExitStep, StartStep
  <1>2. ASSUME NEW n \in Node, NEW c \in ConnId, Accept(n, c) \/ Reject(n, c) PROVE DStoreInvariant'
    BY <1>2, AcceptStep, RejectStep
  <1>3. ASSUME NEW n \in Node, NEW s \in Slot,
               \/ ServerReceive(n, s) \/ ServerLost(n, s)
               \/ ServerReadError(n, s) \/ dstore_server_send_keep_alive(n, s)
        PROVE  DStoreInvariant'
    BY <1>3, ServerReceiveStep, ServerLostStep, ServerReadErrorStep, KeepAliveStep
  <1>4. ASSUME NEW n \in Node, NEW i \in Index,
               dstore_client_tick(n, i) \/ dstore_client_loop(n, i) \/ ClientLost(n, i)
        PROVE  DStoreInvariant'
    <2>1. CASE dstore_client_tick(n, i)
      BY <2>1, ConnectStep, ConnectFailsStep, WaitStep, ReceiveStep DEF dstore_client_tick
    <2>2. CASE dstore_client_loop(n, i)
      BY <2>2, ConnectFailsStep DEF dstore_client_loop
    <2>3. CASE ClientLost(n, i)
      BY <2>3, ClientLostStep
    <2> QED
      BY <1>4, <2>1, <2>2, <2>3
  <1>5. ASSUME NEW n \in Node, NEW c \in ConnId, NEW m \in ExternalCommand, ExternalClient(n, c, m)
        PROVE  DStoreInvariant'
    BY <1>5, ExternalClientStep
  <1>6. ASSUME NEW n \in Node, NEW m \in Node, AddNode(n, m) \/ RemoveNode(n, m) PROVE DStoreInvariant'
    BY <1>6, AddNodeStep, RemoveNodeStep
  <1>7. ASSUME NEW n \in Node, NEW m \in Node \cup {Gone}, Propagate(n, m) PROVE DStoreInvariant'
    BY <1>7, PropagateStep
  <1>8. ASSUME NEW n \in Node, NEW k \in Key, NEW v \in Val, dstore_handle_put(n, k, v) PROVE DStoreInvariant'
    BY <1>8, HandlePutStep
  <1>9. ASSUME NEW l \in Node, NEW voters \in SUBSET (Node \ {l}), Elect(l, voters) PROVE DStoreInvariant'
    BY <1>9, ElectStep
  <1>10. ASSUME NEW n \in Node, NEW l \in Node, NEW t \in 1..MaxTerm, Heartbeat(n, t, l) PROVE DStoreInvariant'
    BY <1>10, HeartbeatStep
  <1>11. CASE UNCHANGED vars
    <2>1. TypeOK' /\ HoldersWereLeaders'
      BY <1>11 DEF vars, envVars, linkVars, DStoreInvariant, TypeOK, HoldersWereLeaders
    <2>2. LinesAreTrue' /\ FilesAreTrue'
      BY <1>11, Unchanging, StorePart DEF vars, envVars
    <2>3. SlotsInStep' /\ MappedSocketsBelong'
      BY <1>11 DEF vars, envVars, linkVars, DStoreInvariant, SlotsInStep, MappedSocketsBelong
    <2>4. ClientsInStep'
      BY <1>11 DEF vars, envVars, linkVars, DStoreInvariant, ClientsInStep, InTable, node_id
    <2>5. StatusInStep'
      <3>1. \A n \in Node, i \in Index : MarkedBySlot(n, i) => MarkedBySlot(n, i)'
        BY <1>11, AllEntriesSame, MarksKept DEF vars, linkVars
      <3> QED
        BY <1>11, <3>1, StatusKept DEF DStoreInvariant, vars, envVars, linkVars
    <2> QED
      BY <2>1, <2>2, <2>3, <2>4, <2>5 DEF DStoreInvariant
  <1> QED
    BY <1>1, <1>2, <1>3, <1>4, <1>5, <1>6, <1>7, <1>8, <1>9, <1>10, <1>11 DEF Next

\* A peer that is reported as connected is: by its mark, its client or its slot there is a
\* connection that the node holds.
LEMMA LinkedFromInvariant ==
    ASSUME DStoreInvariant
    PROVE  ConnectedPeersAreLinked
  <1> SUFFICES ASSUME NEW n \in Node, NEW m \in Node, n # m, dstore_is_node_connected(n, m), ~blind[n], ~removed[n]
               PROVE  \E c \in ConnId :
                         \/ conns[c].from = n /\ conns[c].to = m /\ conns[c].client
                         \/ conns[c].from = m /\ conns[c].to = n /\ conns[c].server = "open"
    BY DEF ConnectedPeersAreLinked
  <1>1. PICK i : i = find_node_index_by_id(n, m)
    OBVIOUS
  <1>2. /\ i # MaxNodes
        /\ \/ connection_status[n][i]
           \/ tcp_clients[n][i] \in ConnId
           \/ \E s \in Slot : client_socket_to_node[n][s] = m
    BY <1>1 DEF dstore_is_node_connected
  <1>3. i \in Index /\ i \in InTable(n) /\ node_id(n, i) = m
    BY <1>1, <1>2, Unchanging, FindFacts
  <1>4. ASSUME tcp_clients[n][i] \in ConnId
        PROVE  \E c \in ConnId : conns[c].from = n /\ conns[c].to = m /\ conns[c].client
    BY <1>3, <1>4 DEF DStoreInvariant, ClientsInStep
  <1>5. ASSUME NEW s \in Slot, client_socket_to_node[n][s] = m
        PROVE  \E c \in ConnId : conns[c].from = m /\ conns[c].to = n /\ conns[c].server = "open"
    <2>1. m # NoNode
      BY IdFacts
    <2>2. client_socks[n][s] # Idle
      BY <1>5, <2>1, Held
    <2> QED
      BY <1>5, <2>1, <2>2, Held
  <1>6. tcp_clients[n][i] \in ConnId \/ \E s \in Slot : client_socket_to_node[n][s] = m
    BY <1>2, <1>3 DEF DStoreInvariant, StatusInStep, MarkedBySlot
  <1> QED
    BY <1>4, <1>5, <1>6

\* The variables of dstore.c and of the connections keep their types in every run, whatever
\* layers work: no index, slot or id gets out of its range.
THEOREM StoreTypeCorrect == Spec => []TypeOK
  <1>1. DStoreInvariant => TypeOK
    BY DEF DStoreInvariant
  <1> QED
    BY <1>1, DStoreInit, DStoreStep, PTL DEF Spec

\* A slot in use that client_socket_to_node maps to a node belongs to a connection of that node:
\* accepts, HELLOs, ends and read errors in any order leave no slot with a stale node.
THEOREM SocketsMapped == Spec => []MappedSocketsBelong
  <1>1. DStoreInvariant => MappedSocketsBelong
    BY DEF DStoreInvariant
  <1> QED
    BY <1>1, DStoreInit, DStoreStep, PTL DEF Spec

\* dstore_is_node_connected is right about peers: whom it reports as connected is at the other end
\* of a connection the node holds, until a read error or a removal from the table.
THEOREM PeersLinked == Spec => []ConnectedPeersAreLinked
  BY LinkedFromInvariant, DStoreInit, DStoreStep, PTL DEF Spec

\* The leader that the store reads in rale.state, however it got there, won an election.
THEOREM LeadersElected == Spec => []StoreLeaderWasElected
  <1>1. DStoreInvariant => StoreLeaderWasElected
    BY DEF DStoreInvariant, FilesAreTrue, Leaders, StoreLeaderWasElected
  <1> QED
    BY <1>1, DStoreInit, DStoreStep, PTL DEF Spec

\* A node holds values only if it was elected once, or was told to by dstore_handle_put, which does
\* not ask for the leader: dstore_put_from_command stores nothing on any other node.
THEOREM HoldersLed == Spec => []HoldersWereLeaders
  <1>1. DStoreInvariant => HoldersWereLeaders
    BY DEF DStoreInvariant
  <1> QED
    BY <1>1, DStoreInit, DStoreStep, PTL DEF Spec

=============================================================================
