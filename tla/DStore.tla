------------------------------- MODULE DStore -------------------------------
(***************************************************************************)
(* The distributed store of librale (librale/src/dstore.c) on a cluster of *)
(* nodes: its connections, made by tcp_client.c and taken by tcp_server.c, *)
(* its knowledge of the leader, and the commands the nodes send each other.*)
(*                                                                         *)
(* A node's loop thread calls dstore_server_tick, dstore_client_tick and   *)
(* the tick of rale_proto.  A tick serves its sockets one after the other; *)
(* serving one socket is an action here.  Intervals (retries and their     *)
(* back-off, keep-alives) have passed or have not: time is not counted.    *)
(*                                                                         *)
(* The store stands on layers that do not all do what it expects.  works   *)
(* says which do; as built none does.  The other values judge the store    *)
(* by itself, and together with any part of what lies below it.            *)
(***************************************************************************)
EXTENDS Integers, Sequences, FiniteSets

CONSTANTS
    Node,        \* ids of the nodes
    MaxNodes,    \* MAX_NODES
    Slot,        \* 0 .. TCP_SERVER_MAX_CLIENTS - 1
    Seed,        \* per node, the ids its program adds to cluster.nodes at every start
    Setups,      \* what to look at: layers that work, and a bound per kind of event
    Key, Val, NoVal,
    MaxConns,    \* bound: TCP connections at a time
    MaxQueue,    \* bound: lines under way in one direction of a connection
    MaxTerm      \* bound: terms

NoNode == -1     \* the id -1
NULL == -1       \* no tcp_client_t
Idle == 0        \* a tcp_client_t that is not connected, or a slot that holds -1
ConnId == 1..MaxConns
Index == 0..(MaxNodes - 1)
Gone == 0        \* an id that is in no table any more
Running == -1    \* in waits: the loop thread does not wait in recv

\* What the store relies on:
\*   client_init  tcp_client_init makes a client though dstore passes it no error buffer
\*   framing      tcp_client_send ends a message with the newline that tcp_server_run waits for
\*   callback     tcp_server_client_disconnect, called by its own callback, comes to an end
\*   free         a second free() of a client is harmless
\*   recv         recv in tcp_client_receive does not wait
\*   path         db.path and node.db_path are the same directory, so rale.state is shared
\*   table        db_init has been called
Layer == {"client_init", "framing", "callback", "free", "recv", "path", "table"}

\* A process ends; a socket fails; a file does not open; the table changes; a command is given;
\* a node is elected.
Event == {"exit", "reset", "io", "membership", "command", "election"}

ASSUME NodesAssumption == Node \in SUBSET (Nat \ {0}) /\ IsFiniteSet(Node) /\ NoVal \notin Val
ASSUME SeedAssumption == Seed \in [Node -> Seq(Node)] /\ \A n \in Node : Len(Seed[n]) <= MaxNodes
ASSUME LimitAssumption ==
    /\ {MaxNodes, MaxConns, MaxQueue, MaxTerm} \subseteq Nat
    /\ Slot \in SUBSET Nat /\ IsFiniteSet(Slot)
    /\ Setups \subseteq (SUBSET Layer) \X [Event -> Nat]

VARIABLES
    works,                  \* the layers that work; never changes
    up,                     \* the process runs
    nodes,                  \* cluster.nodes, in memory: raled names no state file
    tcp_clients,            \* per index: NULL, Idle, or the connection
    connection_status,      \* per index
    client_socks,           \* of tcp_server_ptr, per slot
    client_socket_to_node,  \* per slot
    conns,                  \* the TCP connections
    waits,                  \* the index in whose recv the loop thread waits
    store,                  \* the db
    file,                   \* rale.state in db.path, which the store reads
    proto,                  \* current_rale_state of rale_proto, as in its own file
    elected,                \* the elections held: <<term, leader>>
    left,                   \* how many more events of a kind may happen
    blind,                  \* history: a read error has freed a slot without a callback
    removed,                \* history: a node was removed from the table
    direct                  \* history: dstore_handle_put was called

linkVars == <<tcp_clients, connection_status, client_socks, client_socket_to_node, waits>>
envVars == <<works, up, proto, elected, left, blind, removed, direct>>
vars == <<envVars, linkVars, nodes, conns, store, file>>

StateFile == [term : 0..MaxTerm, vote : Node \cup {NoNode}, leader : Node \cup {NoNode}]
NoFile == [term |-> 0, vote |-> NoNode, leader |-> NoNode]

Line ==
    [type : {"HELLO", "PROPAGATE_ADD"}, id : Node]
        \cup [type : {"PROPAGATE_REMOVE"}, id : Node \cup {Gone}]
        \cup [type : {"LEADER"}, term : 0..MaxTerm, leader : Node]
        \cup [type : {"PUT", "FORWARD_PUT"}, key : Key, val : Val]
        \cup [type : {"DELETE", "FORWARD_DELETE"}, key : Key]
        \cup [type : {"KEEP_ALIVE"}]

\* up and down are the lines under way to the server and to the client.
Connection ==
    [from : Node \cup {NoNode}, to : Node \cup {NoNode}, client : BOOLEAN,
     server : {"backlog", "open", "closed"}, up : Seq(Line), down : Seq(Line)]
NoConnection ==
    [from |-> NoNode, to |-> NoNode, client |-> FALSE, server |-> "closed",
     up |-> <<>>, down |-> <<>>]

Init ==
    /\ \E setup \in Setups : works = setup[1] /\ left = setup[2]
    /\ up = [n \in Node |-> TRUE]
    /\ nodes = Seed
    /\ tcp_clients = [n \in Node |-> [i \in Index |-> NULL]]
    /\ connection_status = [n \in Node |-> [i \in Index |-> FALSE]]
    /\ client_socks = [n \in Node |-> [s \in Slot |-> Idle]]
    /\ client_socket_to_node = [n \in Node |-> [s \in Slot |-> NoNode]]
    /\ conns = [c \in ConnId |-> NoConnection]
    /\ waits = [n \in Node |-> Running]
    /\ store = [n \in Node |-> [k \in Key |-> NoVal]]
    /\ file = [n \in Node |-> NoFile]
    /\ proto = [n \in Node |-> NoFile]
    /\ elected = {}
    /\ blind = [n \in Node |-> FALSE]
    /\ removed = [n \in Node |-> FALSE]
    /\ direct = [n \in Node |-> FALSE]

Happens(e) == left[e] > 0 /\ left' = [left EXCEPT ![e] = @ - 1]

\* The loop thread of n runs and does not wait in recv.
Loop(n) == up[n] /\ waits[n] = Running

-----------------------------------------------------------------------------
(* The table of nodes.  Indices start at 0, as in the code.                *)

InTable(n) == 0..(Len(nodes[n]) - 1)
node_id(n, i) == nodes[n][i + 1]
Known(n) == {node_id(n, i) : i \in InTable(n)}

\* The first index of an id; MAX_NODES if there is none.
find_node_index_by_id(n, id) ==
    IF id \in Known(n)
    THEN CHOOSE i \in InTable(n) : node_id(n, i) = id /\ \A j \in 0..(i - 1) : node_id(n, j) # id
    ELSE MaxNodes

\* cluster_add_node, seen from the store (module Cluster): a known id and a full table are refused.
cluster_add_node(n, id) ==
    nodes' = IF id \in Known(n) \/ Len(nodes[n]) >= MaxNodes THEN nodes
             ELSE [nodes EXCEPT ![n] = Append(@, id)]

-----------------------------------------------------------------------------
(* The leader, as the store reads it from rale.state.                      *)

\* All fields have to be there: a file without a vote names no leader.
dstore_get_current_leader(n) == IF file[n].vote = NoNode THEN NoNode ELSE file[n].leader
dstore_is_current_leader(n) == dstore_get_current_leader(n) = n

\* A mutant: leader and term change places.
WriteSwapped(n, t, l) == file' = [file EXCEPT ![n] = [term |-> l, vote |-> @.vote, leader |-> t]]

\* A mutant: a node that learns of a leader writes itself down.
WriteSelf(n, t, l) == file' = [file EXCEPT ![n] = [term |-> t, vote |-> @.vote, leader |-> n]]

\* The vote is kept; term and leader are overwritten, whatever they were.  The file may not open.
write_rale_state_leader(n, t, l) ==
    \/ file' = [file EXCEPT ![n] = [term |-> t, vote |-> @.vote, leader |-> l]]
    \/ left["io"] > 0 /\ file' = file

-----------------------------------------------------------------------------
(* Sending.  A message to an end that is closed is lost; what is never cut *)
(* into lines is never handled, and not kept here.  A send that fails is   *)
(* followed by ClientLost.                                                 *)

Hello(n) == [type |-> "HELLO", id |-> n]
KeepAlive == [type |-> "KEEP_ALIVE"]
Leader(t, l) == [type |-> "LEADER", term |-> t, leader |-> l]

\* tcp_client_send of lines to the indices I of n's clients.
tcp_client_send(cs, n, I, lines) ==
    [c \in ConnId |->
        IF /\ "framing" \in works
           /\ cs[c].server # "closed"
           /\ \E i \in I : tcp_clients[n][i] = c
        THEN [cs[c] EXCEPT !.up = @ \o lines] ELSE cs[c]]

\* dstore_send_message: to a connected client within the table.
dstore_send_message(cs, n, I, line) == tcp_client_send(cs, n, I \cap InTable(n), <<line>>)

\* tcp_server_send of lines to the slots S of n.
tcp_server_send(cs, n, S, lines) ==
    [c \in ConnId |-> IF cs[c].client /\ \E s \in S : client_socks[n][s] = c
                      THEN [cs[c] EXCEPT !.down = @ \o lines] ELSE cs[c]]

\* The members n knows, one PROPAGATE_ADD each, then the leader if there is one, with term 0.
Snapshot(n) ==
    [j \in 1..Len(nodes[n]) |-> [type |-> "PROPAGATE_ADD", id |-> nodes[n][j]]]
        \o (IF dstore_get_current_leader(n) = NoNode THEN <<>>
            ELSE <<Leader(0, dstore_get_current_leader(n))>>)

\* dstore_broadcast_leader_snapshot: to the mapped slots and to the connected clients.
dstore_broadcast_leader_snapshot(n, t, l) ==
    tcp_server_send(tcp_client_send(conns, n, InTable(n), <<Leader(t, l)>>),
                    n, {s \in Slot : client_socket_to_node[n][s] # NoNode}, <<Leader(t, l)>>)

InBounds == \A c \in ConnId : Len(conns'[c].up) <= MaxQueue /\ Len(conns'[c].down) <= MaxQueue

-----------------------------------------------------------------------------
(* Ends of connections.                                                    *)

Tidy(cs) == [c \in ConnId |-> IF ~cs[c].client /\ cs[c].server = "closed"
                              THEN NoConnection ELSE cs[c]]
CloseClient(cs, c) == Tidy([cs EXCEPT ![c].client = FALSE, ![c].down = <<>>])
CloseServer(cs, c) == Tidy([cs EXCEPT ![c].server = "closed", ![c].up = <<>>])

\* The process ends, by a crash or through dstore_finit: its sockets are closed and its memory
\* is gone, the table of nodes with it: the next start begins with Seed.  rale.state stays.
Dies(n) ==
    /\ up' = [up EXCEPT ![n] = FALSE]
    /\ conns' = Tidy([c \in ConnId |->
                        [conns[c] EXCEPT !.client = @ /\ conns[c].from # n,
                                         !.server = IF conns[c].to = n THEN "closed" ELSE @,
                                         !.down = IF conns[c].from = n THEN <<>> ELSE @,
                                         !.up = IF conns[c].to = n THEN <<>> ELSE @]])
    /\ tcp_clients' = [tcp_clients EXCEPT ![n] = [i \in Index |-> NULL]]
    /\ connection_status' = [connection_status EXCEPT ![n] = [i \in Index |-> FALSE]]
    /\ client_socks' = [client_socks EXCEPT ![n] = [s \in Slot |-> Idle]]
    /\ client_socket_to_node' = [client_socket_to_node EXCEPT ![n] = [s \in Slot |-> NoNode]]
    /\ waits' = [waits EXCEPT ![n] = Running]
    /\ store' = [store EXCEPT ![n] = [k \in Key |-> NoVal]]
    /\ blind' = [blind EXCEPT ![n] = FALSE]
    /\ removed' = [removed EXCEPT ![n] = FALSE]
    /\ direct' = [direct EXCEPT ![n] = FALSE]
    /\ nodes' = [nodes EXCEPT ![n] = Seed[n]]
    /\ UNCHANGED <<works, file, proto, elected>>

Exit(n) == up[n] /\ Happens("exit") /\ Dies(n)

\* rale_init: rale_state_load finds what was saved.
Start(n) ==
    /\ ~up[n]
    /\ up' = [up EXCEPT ![n] = TRUE]
    /\ proto' = IF "path" \in works THEN [proto EXCEPT ![n] = file[n]] ELSE proto
    /\ UNCHANGED <<works, elected, left, blind, removed, direct, linkVars, nodes, conns, store, file>>

-----------------------------------------------------------------------------
(* Commands.  Each says what becomes of nodes, file, store, tcp_clients    *)
(* and of the connections cs, from which the command has been taken.       *)

\* dstore passes no error buffer, without which tcp_client_init makes no client.
tcp_client_init == "client_init" \in works

Clients(n, I) ==      \* dstore_init_client for the indices I
    tcp_clients' = [tcp_clients EXCEPT ![n] = [i \in Index |->
        IF i \in I /\ @[i] = NULL /\ tcp_client_init THEN Idle ELSE @[i]]]

\* db_insert and db_delete: without a table nothing is stored, and no error is reported.
Insert(n, k, v) == store' = IF "table" \in works THEN [store EXCEPT ![n][k] = v] ELSE store

\* The node whose INDEX is the own ID is passed over; clients that are missing are made.
dstore_replicate_to_followers(n, cs, k, v) ==
    LET I == {i \in InTable(n) : i # n}
    IN  /\ Clients(n, I)
        /\ conns' = dstore_send_message(cs, n, I, [type |-> "PUT", key |-> k, val |-> v])

\* A follower sends the command to the leader, if it knows one and believes it connected.
Forward(n, cs, line) ==
    LET l == dstore_get_current_leader(n)
        i == find_node_index_by_id(n, l)
    IN  conns' = IF l \notin {NoNode, n} /\ i # MaxNodes /\ connection_status[n][i]
                 THEN dstore_send_message(cs, n, {i}, line) ELSE cs

\* A mutant: whoever gets a PUT stores it.
PutAnywhere(n, cs, k, v) ==
    /\ Insert(n, k, v)
    /\ dstore_replicate_to_followers(n, cs, k, v)
    /\ UNCHANGED <<nodes, file>>

PutCommand(n, cs, k, v) ==
    /\ \/ /\ dstore_is_current_leader(n)
          /\ Insert(n, k, v)
          /\ dstore_replicate_to_followers(n, cs, k, v)
       \/ /\ ~dstore_is_current_leader(n)
          /\ Forward(n, cs, [type |-> "FORWARD_PUT", key |-> k, val |-> v])
          /\ UNCHANGED <<store, tcp_clients>>
    /\ UNCHANGED <<nodes, file>>

\* "LEADER term id": any term is taken.
LeaderCommand(n, cs, t, l) ==
    /\ write_rale_state_leader(n, t, l)
    /\ conns' = cs
    /\ UNCHANGED <<nodes, store, tcp_clients>>

dstore_handle_propagated_add(n, cs, id) ==
    /\ cluster_add_node(n, id)
    /\ conns' = cs
    /\ UNCHANGED <<file, store, tcp_clients>>

\* A command that is not known or does not parse.
Rejected(cs) == conns' = cs /\ UNCHANGED <<nodes, file, store, tcp_clients>>

\* PROPAGATE_REMOVE: the id is looked for at the blank before it, and not found.
dstore_handle_propagated_remove(cs) == Rejected(cs)

\* FORWARD_PUT is parsed, and then rejected as it does not start with "PUT ".
dstore_put_from_command(n, cs, m) ==
    \/ (nodes[n] = <<>> \/ m.type \in {"FORWARD_PUT", "DELETE", "KEEP_ALIVE"}) /\ Rejected(cs)
    \/ /\ nodes[n] # <<>>
       /\ \/ m.type = "LEADER" /\ LeaderCommand(n, cs, m.term, m.leader)
          \/ m.type = "PROPAGATE_ADD" /\ dstore_handle_propagated_add(n, cs, m.id)
          \/ m.type = "PROPAGATE_REMOVE" /\ dstore_handle_propagated_remove(cs)
          \/ m.type = "PUT" /\ PutCommand(n, cs, m.key, m.val)

\* DELETE from a client or the leader: the leader deletes and tells all peers, a follower
\* forwards.  FORWARD_DELETE is obeyed by whoever gets it.
DeleteCommand(n, cs, k, forwarded) ==
    /\ \/ /\ forwarded \/ dstore_is_current_leader(n)
          /\ Insert(n, k, NoVal)
          /\ conns' = dstore_send_message(cs, n, {i \in InTable(n) : node_id(n, i) # n},
                                          [type |-> "DELETE", key |-> k])
       \/ /\ ~forwarded /\ ~dstore_is_current_leader(n)
          /\ Forward(n, cs, [type |-> "FORWARD_DELETE", key |-> k])
          /\ UNCHANGED store
    /\ UNCHANGED <<nodes, file, tcp_clients>>

-----------------------------------------------------------------------------
(* The server's side: tcp_server_run and the callbacks of the store.       *)

FreeSlots(n) == {s \in Slot : client_socks[n][s] = Idle}

\* A mutant: the slot keeps the node it was mapped to.
OnConnectionKeepsNode(n, s, cs, c) ==
    /\ UNCHANGED client_socket_to_node
    /\ conns' = IF cs[c].client THEN [cs EXCEPT ![c].down = @ \o Snapshot(n)] ELSE cs

\* dstore_server_on_connection: the peer is not known before its HELLO, and gets a snapshot.
dstore_server_on_connection(n, s, cs, c) ==
    /\ client_socket_to_node' = [client_socket_to_node EXCEPT ![n][s] = NoNode]
    /\ conns' = IF cs[c].client THEN [cs EXCEPT ![c].down = @ \o Snapshot(n)] ELSE cs

Accept(n, c) ==
    /\ Loop(n)
    /\ conns[c].to = n /\ conns[c].server = "backlog"
    /\ FreeSlots(n) # {}
    /\ LET s == CHOOSE s \in FreeSlots(n) : \A r \in FreeSlots(n) : s <= r
       IN  /\ client_socks' = [client_socks EXCEPT ![n][s] = c]
           /\ dstore_server_on_connection(n, s, [conns EXCEPT ![c].server = "open"], c)
    /\ UNCHANGED <<envVars, tcp_clients, connection_status, waits, nodes, store, file>>

Reject(n, c) ==
    /\ Loop(n)
    /\ conns[c].to = n /\ conns[c].server = "backlog"
    /\ FreeSlots(n) = {}
    /\ conns' = CloseServer(conns, c)
    /\ UNCHANGED <<envVars, linkVars, nodes, store, file>>

\* HELLO maps the socket, if the id is known by then.
HelloCommand(n, s, cs, id) ==
    LET i == find_node_index_by_id(n, id)
    IN  /\ conns' = cs
        /\ IF i = MaxNodes THEN UNCHANGED <<client_socket_to_node, connection_status>>
           ELSE /\ client_socket_to_node' = [client_socket_to_node EXCEPT ![n][s] = id]
                /\ connection_status' = [connection_status EXCEPT ![n][i] = TRUE]
        /\ UNCHANGED <<nodes, file, store, tcp_clients>>

\* dstore_server_on_receive for one line; a client that is no node sends PUT and DELETE.
dstore_server_on_receive(n, cs, m) ==
    \/ m.type \in {"DELETE", "FORWARD_DELETE"} /\ DeleteCommand(n, cs, m.key, m.type = "FORWARD_DELETE")
    \/ m.type \notin {"DELETE", "FORWARD_DELETE", "HELLO"} /\ dstore_put_from_command(n, cs, m)

ServerReceive(n, s) ==
    LET c == client_socks[n][s]
    IN  /\ Loop(n) /\ c # Idle
        /\ conns[c].up # <<>>
        /\ LET m == Head(conns[c].up)
               cs == [conns EXCEPT ![c].up = Tail(@)]
           IN  \/ m.type = "HELLO" /\ HelloCommand(n, s, cs, m.id)
               \/ /\ dstore_server_on_receive(n, cs, m)
                  /\ UNCHANGED <<client_socket_to_node, connection_status>>
        /\ InBounds
        /\ UNCHANGED <<envVars, client_socks, waits>>

ExternalCommand ==
    [type : {"PUT"}, key : Key, val : Val] \cup [type : {"DELETE"}, key : Key]

FreeConn == {c \in ConnId : conns[c] = NoConnection}
IsFree(c) == c \in FreeConn /\ \A d \in FreeConn : c <= d

\* A client that is no node connects, sends a command and leaves.
ExternalClient(n, c, m) ==
    /\ up[n]
    /\ Happens("command")
    /\ IsFree(c)
    /\ conns' = [conns EXCEPT ![c] = [NoConnection EXCEPT !.to = n, !.server = "backlog", !.up = <<m>>]]
    /\ UNCHANGED <<works, up, proto, elected, blind, removed, direct, linkVars, nodes, store, file>>

\* The connection of the slot has ended and all its lines are read.
AtEnd(c) == ~conns[c].client /\ conns[c].up = <<>>

\* A mutant: only the mapping is cleared.
OnDisconnectionKeepsStatus(n, s) ==
    /\ client_socket_to_node' = [client_socket_to_node EXCEPT ![n][s] = NoNode]
    /\ UNCHANGED connection_status

\* dstore_server_on_disconnection, up to its call of tcp_server_client_disconnect.
dstore_server_on_disconnection(n, s) ==
    LET i == find_node_index_by_id(n, client_socket_to_node[n][s])
    IN  /\ client_socket_to_node' = [client_socket_to_node EXCEPT ![n][s] = NoNode]
        /\ connection_status' = IF i = MaxNodes THEN connection_status
                                ELSE [connection_status EXCEPT ![n][i] = FALSE]

\* That call calls the callback again, before it has freed the slot (module TcpServer): the
\* recursion takes the process down.
ServerLost(n, s) ==
    LET c == client_socks[n][s]
    IN  /\ Loop(n) /\ c # Idle
        /\ AtEnd(c)
        /\ \/ /\ "callback" \in works
              /\ dstore_server_on_disconnection(n, s)
              /\ client_socks' = [client_socks EXCEPT ![n][s] = Idle]
              /\ conns' = CloseServer(conns, c)
              /\ UNCHANGED <<envVars, tcp_clients, waits, nodes, store, file>>
           \/ "callback" \notin works /\ Dies(n) /\ UNCHANGED left

\* A read error frees the slot and tells nobody.
ServerReadError(n, s) ==
    LET c == client_socks[n][s]
    IN  /\ Loop(n) /\ c # Idle
        /\ Happens("reset")
        /\ client_socks' = [client_socks EXCEPT ![n][s] = Idle]
        /\ conns' = CloseServer(conns, c)
        /\ blind' = [blind EXCEPT ![n] = TRUE]
        /\ UNCHANGED <<works, up, proto, elected, removed, direct, tcp_clients, connection_status,
                       client_socket_to_node, waits, nodes, store, file>>

\* dstore_server_send_keep_alive; one that wakes nobody changes nothing.
dstore_server_send_keep_alive(n, s) ==
    LET c == client_socks[n][s]
        i == find_node_index_by_id(n, client_socket_to_node[n][s])
    IN  /\ Loop(n) /\ c # Idle
        /\ i # MaxNodes /\ connection_status[n][i]
        /\ conns[c].client /\ conns[c].down = <<>> /\ waits[conns[c].from] # Running
        /\ conns' = tcp_server_send(conns, n, {s}, <<KeepAlive>>)
        /\ UNCHANGED <<envVars, linkVars, nodes, store, file>>

-----------------------------------------------------------------------------
(* The client's side: dstore_client_tick, or dstore_client_loop, for one   *)
(* index of the table.                                                     *)

\* A tick with a table of one entry returns at once.
Peer(n, i) == Len(nodes[n]) > 1 /\ i \in InTable(n) /\ node_id(n, i) # n

\* tcp_client_connect succeeds: HELLO, a keep-alive and the snapshot follow at once.
Connect(n, i, c) ==
    /\ Peer(n, i)
    /\ tcp_clients[n][i] \in (IF tcp_client_init THEN {NULL, Idle} ELSE {Idle})
    /\ up[node_id(n, i)]
    /\ IsFree(c)
    /\ tcp_clients' = [tcp_clients EXCEPT ![n][i] = c]
    /\ connection_status' = [connection_status EXCEPT ![n][i] = TRUE]
    /\ conns' = [conns EXCEPT ![c] =
            [from |-> n, to |-> node_id(n, i), client |-> TRUE, server |-> "backlog",
             up |-> IF "framing" \in works THEN <<Hello(n)>> \o Snapshot(n) ELSE <<>>,
             down |-> <<>>]]
    /\ InBounds
    /\ UNCHANGED <<client_socks, client_socket_to_node, waits>>

\* It fails: in the loop the peer is marked as not connected, in the tick it is not.
ConnectFails(n, i, marked) ==
    /\ Peer(n, i)
    /\ tcp_clients[n][i] \in {NULL, Idle}
    /\ ~up[node_id(n, i)]
    /\ Clients(n, {i})
    /\ connection_status' = [connection_status EXCEPT ![n][i] =
            @ /\ ~(marked /\ tcp_clients'[n][i] = Idle)]
    /\ UNCHANGED <<conns, client_socks, client_socket_to_node, waits>>

\* tcp_client_receive: one line, or recv waits for one.
Receive(n, i) ==
    LET c == tcp_clients[n][i]
    IN  /\ Peer(n, i) \/ waits[n] = i
        /\ c \in ConnId
        /\ conns[c].down # <<>>
        /\ dstore_put_from_command(n, [conns EXCEPT ![c].down = Tail(@)], Head(conns[c].down))
        /\ InBounds
        /\ waits' = [waits EXCEPT ![n] = Running]
        /\ UNCHANGED <<connection_status, client_socks, client_socket_to_node>>

Wait(n, i) ==
    LET c == tcp_clients[n][i]
    IN  /\ Peer(n, i) /\ c \in ConnId
        /\ "recv" \notin works
        /\ conns[c].down = <<>> /\ conns[c].server # "closed"
        /\ waits' = [waits EXCEPT ![n] = i]
        /\ UNCHANGED <<tcp_clients, connection_status, client_socks, client_socket_to_node, conns>>

\* dstore_client_on_disconnection, after recv or send has failed: the socket is looked for among
\* the clients, the client is freed by tcp_client_cleanup and once more by free().
ClientLost(n, i) ==
    LET c == tcp_clients[n][i]
    IN  /\ up[n] /\ waits[n] \in {Running, i}
        /\ c \in ConnId
        /\ conns[c].server = "closed"
        /\ \/ /\ "free" \in works
              /\ tcp_clients' = [tcp_clients EXCEPT ![n][i] = NULL]
              /\ connection_status' = [connection_status EXCEPT ![n][i] = FALSE]
              /\ conns' = CloseClient(conns, c)
              /\ waits' = [waits EXCEPT ![n] = Running]
              /\ UNCHANGED <<envVars, client_socks, client_socket_to_node, nodes, store, file>>
           \/ "free" \notin works /\ Dies(n) /\ UNCHANGED left

dstore_client_tick(n, i) ==
    /\ \/ /\ Loop(n)
          /\ \/ \E c \in ConnId : Connect(n, i, c)
             \/ ConnectFails(n, i, FALSE)
             \/ Wait(n, i)
          /\ UNCHANGED <<nodes, store, file>>
       \/ up[n] /\ waits[n] \in {Running, i} /\ Receive(n, i)
    /\ UNCHANGED envVars

\* The other driver of the same work; only its treatment of a failed connect differs.
dstore_client_loop(n, i) ==
    /\ Loop(n)
    /\ ConnectFails(n, i, TRUE)
    /\ UNCHANGED <<envVars, nodes, store, file>>

-----------------------------------------------------------------------------
(* The application, on a thread of its own.                                *)

\* Of an addition, the connected nodes hear; the new one also hears of n, and of the leader.
dstore_propagate_node_addition(n, id) ==
    LET add(m) == [type |-> "PROPAGATE_ADD", id |-> m]
        told == {i \in InTable(n) : node_id(n, i) # n /\ connection_status[n][i]}
        i == find_node_index_by_id(n, id)
        l == dstore_get_current_leader(n)
        cs == dstore_send_message(conns, n, told, add(id))
    IN  IF i # MaxNodes /\ connection_status[n][i] /\ n \in Known(n)
        THEN tcp_client_send(cs, n, {i}, <<add(n)>> \o IF l = NoNode THEN <<>> ELSE <<Leader(0, l)>>)
        ELSE cs

AddNode(n, id) ==
    /\ up[n] /\ id \notin Known(n)
    /\ Happens("membership")
    /\ cluster_add_node(n, id)
    /\ UNCHANGED <<works, up, proto, elected, blind, removed, direct, linkVars, conns, store, file>>

dstore_propagate_node_removal(n, id) ==
    dstore_send_message(conns, n,
        {i \in InTable(n) : node_id(n, i) \notin {n, id} /\ connection_status[n][i]},
        [type |-> "PROPAGATE_REMOVE", id |-> id])

\* cluster_remove_node: the later entries move to the left; what the store keeps per index stays.
RemoveNode(n, id) ==
    /\ up[n] /\ id \in Known(n)
    /\ Happens("membership")
    /\ LET i == find_node_index_by_id(n, id)
       IN  nodes' = [nodes EXCEPT ![n] = SubSeq(@, 1, i) \o SubSeq(@, i + 2, Len(@))]
    /\ removed' = [removed EXCEPT ![n] = TRUE]
    /\ UNCHANGED <<works, up, proto, elected, blind, direct, linkVars, conns, store, file>>

Propagate(n, id) ==
    /\ up[n]
    /\ Happens("command")
    /\ \/ id \in Known(n) /\ conns' = dstore_propagate_node_addition(n, id)
       \/ id \notin Known(n) /\ conns' = dstore_propagate_node_removal(n, id)
    /\ InBounds
    /\ UNCHANGED <<works, up, proto, elected, blind, removed, direct, linkVars, nodes, store, file>>

\* No check of the leader.
dstore_handle_put(n, k, v) ==
    /\ up[n]
    /\ Happens("command")
    /\ Insert(n, k, v)
    /\ dstore_replicate_to_followers(n, conns, k, v)
    /\ InBounds
    /\ direct' = [direct EXCEPT ![n] = TRUE]
    /\ UNCHANGED <<works, up, proto, elected, blind, removed, connection_status, client_socks,
                   client_socket_to_node, waits, nodes, file>>

-----------------------------------------------------------------------------
(* The election, as the store sees it: rale_proto saves rale.state and     *)
(* tells the store of a victory.  Which elections can be held is the       *)
(* subject of RaleProto; here they have growing terms.                     *)

Save(ps) == IF "path" \in works THEN [n \in Node |-> IF ps[n] = proto[n] THEN file[n] ELSE ps[n]] ELSE file

\* The LEADER_ELECTED command of the winner, after the saves have left the files fs.  It also
\* stores the victory under a key that nobody reads.
LeaderElected(l, t, fs) ==
    IF nodes[l] = <<>> THEN file' = fs /\ conns' = conns
    ELSE /\ \/ file' = [fs EXCEPT ![l] = [term |-> t, vote |-> @.vote, leader |-> l]]
            \/ left["io"] > 0 /\ file' = fs
         /\ conns' = dstore_broadcast_leader_snapshot(l, t, l)

\* The voters save their votes, the winner its victory, and tells the store.
Elect(l, voters) ==
    LET t == Cardinality(elected) + 1
        ps == [n \in Node |-> IF n = l THEN [term |-> t, vote |-> l, leader |-> l]
                              ELSE IF n \in voters THEN [proto[n] EXCEPT !.term = t, !.vote = l]
                              ELSE proto[n]]
    IN  /\ t <= MaxTerm /\ Happens("election")
        /\ \A n \in voters \cup {l} : Loop(n)
        /\ elected' = elected \cup {<<t, l>>}
        /\ proto' = ps
        /\ LeaderElected(l, t, Save(ps))
        /\ InBounds
        /\ UNCHANGED <<works, up, blind, removed, direct, linkVars, nodes, store>>

\* HEARTBEAT: a later term takes the vote away; rale_become_follower saves in any case.
Heartbeat(n, t, l) ==
    /\ Loop(n) /\ up[l] /\ n # l
    /\ <<t, l>> \in elected
    /\ proto' = [proto EXCEPT ![n] = IF t > @.term THEN [term |-> t, vote |-> NoNode, leader |-> l]
                                     ELSE [@ EXCEPT !.leader = l]]
    /\ file' = IF "path" \in works THEN [file EXCEPT ![n] = proto'[n]] ELSE file
    /\ UNCHANGED <<works, up, elected, left, blind, removed, direct, linkVars, nodes, conns, store>>

-----------------------------------------------------------------------------
Next ==
    \/ \E n \in Node : Exit(n) \/ Start(n)
    \/ \E n \in Node, c \in ConnId : Accept(n, c) \/ Reject(n, c)
    \/ \E n \in Node, s \in Slot :
          \/ ServerReceive(n, s)
          \/ ServerLost(n, s)
          \/ ServerReadError(n, s)
          \/ dstore_server_send_keep_alive(n, s)
    \/ \E n \in Node, i \in Index :
          dstore_client_tick(n, i) \/ dstore_client_loop(n, i) \/ ClientLost(n, i)
    \/ \E n \in Node, c \in ConnId, m \in ExternalCommand : ExternalClient(n, c, m)
    \/ \E n, m \in Node : AddNode(n, m) \/ RemoveNode(n, m)
    \/ \E n \in Node, m \in Node \cup {Gone} : Propagate(n, m)
    \/ \E n \in Node, k \in Key, v \in Val : dstore_handle_put(n, k, v)
    \/ \E l \in Node : \E voters \in SUBSET (Node \ {l}) : Elect(l, voters)
    \/ \E n, l \in Node, t \in 1..MaxTerm : Heartbeat(n, t, l)

Spec == Init /\ [][Next]_vars

\* The loop thread serves every socket and every client again and again.
Fairness ==
    \A n \in Node :
        /\ \A c \in ConnId : WF_vars(Accept(n, c) \/ Reject(n, c))
        /\ \A s \in Slot : WF_vars(ServerReceive(n, s) \/ ServerLost(n, s))
        /\ \A i \in Index : WF_vars(dstore_client_tick(n, i) \/ ClientLost(n, i))

FairSpec == Spec /\ Fairness

-----------------------------------------------------------------------------
(* Properties.                                                             *)

TypeOK ==
    /\ works \in SUBSET Layer /\ left \in [Event -> Nat]
    /\ up \in [Node -> BOOLEAN]
    /\ nodes \in [Node -> Seq(Node)] /\ \A n \in Node : Len(nodes[n]) <= MaxNodes
    /\ tcp_clients \in [Node -> [Index -> ConnId \cup {NULL, Idle}]]
    /\ connection_status \in [Node -> [Index -> BOOLEAN]]
    /\ client_socks \in [Node -> [Slot -> ConnId \cup {Idle}]]
    /\ client_socket_to_node \in [Node -> [Slot -> Node \cup {NoNode}]]
    /\ conns \in [ConnId -> Connection]
    /\ waits \in [Node -> Index \cup {Running}]
    /\ store \in [Node -> [Key -> Val \cup {NoVal}]]
    /\ file \in [Node -> StateFile] /\ proto \in [Node -> StateFile]
    /\ elected \in SUBSET ((1..MaxTerm) \X Node)
    /\ {blind, removed, direct} \subseteq [Node -> BOOLEAN]

\* dstore_is_node_connected: by status, by client, or by a mapped socket.
dstore_is_node_connected(n, m) ==
    LET i == find_node_index_by_id(n, m)
    IN  /\ i # MaxNodes
        /\ \/ connection_status[n][i]
           \/ tcp_clients[n][i] \in ConnId
           \/ \E s \in Slot : client_socket_to_node[n][s] = m

\* A peer that a node reports as connected (dstore_is_node_connected) is at the other end of a
\* connection the node holds, unless the node has lost a slot to a read error or has removed a
\* node from its table.
ConnectedPeersAreLinked ==
    \A n, m \in Node :
        n # m /\ dstore_is_node_connected(n, m) /\ ~blind[n] /\ ~removed[n] =>
            \E c \in ConnId :
                \/ conns[c].from = n /\ conns[c].to = m /\ conns[c].client
                \/ conns[c].from = m /\ conns[c].to = n /\ conns[c].server = "open"

\* A slot in use that is mapped to a node (HELLO) belongs to a connection of that node, over any
\* reuse of slots, also after read errors.
MappedSocketsBelong ==
    \A n \in Node, s \in Slot :
        client_socks[n][s] # Idle /\ client_socket_to_node[n][s] # NoNode =>
            conns[client_socks[n][s]].from = client_socket_to_node[n][s]

\* A leader that the store finds in rale.state, learned from its own rale_proto, a broadcast or
\* a snapshot that went from node to node, won an election.
StoreLeaderWasElected ==
    \A n \in Node : file[n].leader # NoNode => \E t \in 1..MaxTerm : <<t, file[n].leader>> \in elected

\* "Split-brain prevention: Only leader can accept writes": what a node holds it has stored as an
\* elected leader, or its application has put it with dstore_handle_put.
HoldersWereLeaders ==
    \A n \in Node : (\E k \in Key : store[n][k] # NoVal) =>
        direct[n] \/ \E t \in 1..MaxTerm : <<t, n>> \in elected

\* "Replicates a key-value pair to all follower nodes" (dstore.c:1290), under the condition that
\* every layer below the store has been repaired: a PUT under way on an open connection is stored
\* at the other end.  Even then it is not: a follower sends it back to the leader, which refuses
\* it.  (As built nothing is sent at all: tcp_client_init refuses the missing error
\* buffer, and no two nodes connect.)
PutsAreReplicated ==
    works = Layer =>
    \A n \in Node, k \in Key, v \in Val :
        (\E c \in ConnId :
            /\ conns[c].to = n /\ conns[c].server = "open" /\ conns[c].client
            /\ [type |-> "PUT", key |-> k, val |-> v] \in {conns[c].up[j] : j \in DOMAIN conns[c].up})
        ~> store[n][k] = v

-----------------------------------------------------------------------------
(* The inductive invariant.                                                *)

Leaders == {l \in Node : \E t \in 1..MaxTerm : <<t, l>> \in elected}

\* What a connection of node f may carry: f's own HELLO, and leaders that were elected.
LinesOf(f) == {m \in Line : /\ m.type = "HELLO" => m.id = f
                            /\ m.type = "LEADER" => m.leader \in Leaders}

LinesAreTrue ==
    \A c \in ConnId :
        conns[c].up \in Seq(LinesOf(conns[c].from)) /\ conns[c].down \in Seq(LinesOf(NoNode))

FilesAreTrue == \A n \in Node : {file[n].leader, proto[n].leader} \subseteq Leaders \cup {NoNode}

\* A slot in use holds an open connection to the node, which no other slot holds; a slot that is
\* free is mapped only after a read error.
SlotsInStep ==
    \A n \in Node, s \in Slot :
        /\ client_socks[n][s] # Idle =>
              /\ conns[client_socks[n][s]].to = n /\ conns[client_socks[n][s]].server = "open"
              /\ \A r \in Slot : client_socks[n][r] = client_socks[n][s] => r = s
        /\ client_socks[n][s] = Idle /\ client_socket_to_node[n][s] # NoNode => blind[n]

\* A client holds a connection of the node, which no other client of it holds, and until a removal
\* it goes to the peer of its index.
ClientsInStep ==
    \A n \in Node, i \in Index :
        tcp_clients[n][i] \in ConnId =>
            /\ conns[tcp_clients[n][i]].from = n /\ conns[tcp_clients[n][i]].client
            /\ \A j \in Index : tcp_clients[n][j] = tcp_clients[n][i] => j = i
            /\ ~removed[n] => i \in InTable(n) /\ conns[tcp_clients[n][i]].to = node_id(n, i)

\* Some slot of n is mapped to the node of index i, and HELLO marks that index.
MarkedBySlot(n, i) ==
    /\ i \in InTable(n) /\ find_node_index_by_id(n, node_id(n, i)) = i
    /\ \E s \in Slot : client_socket_to_node[n][s] = node_id(n, i)

\* An index marked as connected has a client that is, or its node a slot.
StatusInStep ==
    \A n \in Node, i \in Index :
        connection_status[n][i] /\ ~blind[n] /\ ~removed[n] =>
            tcp_clients[n][i] \in ConnId \/ MarkedBySlot(n, i)

DStoreInvariant ==
    /\ TypeOK /\ LinesAreTrue /\ FilesAreTrue
    /\ SlotsInStep /\ MappedSocketsBelong /\ ClientsInStep /\ StatusInStep
    /\ HoldersWereLeaders

=============================================================================
