------------------------------ MODULE TcpServer ------------------------------
(***************************************************************************)
(* The connection table and the line framing of librale/src/tcp_server.c.  *)
(*                                                                         *)
(* tcp_server_run is one select() over the listening socket and the open   *)
(* clients: it accepts at most one connection and then serves the ready    *)
(* slots in order.  Slots do not touch one another, so what a run does is  *)
(* a sequence of the actions below.  A byte is known by its connection,    *)
(* its position and whether it is a newline.                               *)
(***************************************************************************)
EXTENDS Integers, Sequences, FiniteSets

CONSTANTS
    Slot,       \* 0 .. TCP_SERVER_MAX_CLIENTS - 1
    Conn,       \* TCP connections
    NoConn,     \* -1 in client_socks
    BufferSize, \* TCP_SERVER_BUFFER_SIZE
    MaxBytes,   \* bound: bytes read from a connection
    MaxDepth    \* bound: nested calls of on_disconnection (the stack)

ASSUME TableAssumption == Slot \in SUBSET Nat /\ IsFiniteSet(Slot) /\ NoConn \notin Conn
ASSUME SizeAssumption ==
    /\ BufferSize \in Nat \ {0, 1}
    /\ MaxBytes \in Nat
    /\ MaxDepth \in Nat

VARIABLES
    client_socks,     \* the connection in each slot
    recv_buf,         \* the bytes held for each slot (recv_len of them)
    on_disconnection, \* what the callback does: "returns", or "disconnects" the client (dstore)
    calls,            \* nested calls of on_disconnection that have not returned, per slot
    listening,        \* server_sock is open
    known,            \* the connection the owner takes each slot for
    lost,             \* history: how the slot's last connection ended
    read,             \* history: the bytes read from each open connection
    lines,            \* history: the lines handed to on_receive for each open connection
    intact            \* history: no byte of the open connection was dropped or cut off

serverVars == <<client_socks, recv_buf, on_disconnection, calls, listening>>
tcpVars == <<serverVars, known, lost, read, lines, intact>>

Byte == [from : Conn, at : Nat, nl : BOOLEAN]

TcpInit ==
    /\ client_socks = [s \in Slot |-> NoConn]
    /\ recv_buf = [s \in Slot |-> <<>>]
    /\ on_disconnection \in {"returns", "disconnects"}
    /\ calls = [s \in Slot |-> 0]
    /\ listening = TRUE
    /\ known = [s \in Slot |-> NoConn]
    /\ lost = [s \in Slot |-> "none"]
    /\ read = [c \in Conn |-> <<>>]
    /\ lines = [c \in Conn |-> <<>>]
    /\ intact = [c \in Conn |-> TRUE]

\* The server is open and its thread is not inside a callback.
Running == listening /\ \A s \in Slot : calls[s] = 0

Free == {s \in Slot : client_socks[s] = NoConn}
Connected == {client_socks[s] : s \in Slot \ Free}

\* The histories of connections that are gone are not kept.
Forget(gone) ==
    /\ read' = [c \in Conn |-> IF c \in gone THEN <<>> ELSE read[c]]
    /\ lines' = [c \in Conn |-> IF c \in gone THEN <<>> ELSE lines[c]]
    /\ intact' = [c \in Conn |-> c \in gone \/ intact[c]]

-----------------------------------------------------------------------------
(* Accepting.                                                              *)

\* The first slot that holds -1.
client_slot(s) == s \in Free /\ \A r \in Free : s <= r

\* recv_len of the slot keeps its value.
Accept(c, s) ==
    /\ Running
    /\ c \in Conn \ Connected
    /\ client_slot(s)
    /\ client_socks' = [client_socks EXCEPT ![s] = c]
    /\ known' = [known EXCEPT ![s] = c]
    /\ intact' = [intact EXCEPT ![c] = recv_buf[s] = <<>>]
    /\ UNCHANGED <<recv_buf, on_disconnection, calls, listening, lost, read, lines>>

\* "Maximum number of clients reached": the new socket is closed.
Reject(c) ==
    /\ Running
    /\ c \in Conn \ Connected
    /\ Free = {}
    /\ UNCHANGED tcpVars

-----------------------------------------------------------------------------
(* Reading.                                                                *)

HasNewline(buf) == \E k \in DOMAIN buf : buf[k].nl
FirstNewline(buf) == CHOOSE k \in DOMAIN buf : buf[k].nl /\ \A j \in 1..(k - 1) : ~buf[j].nl

\* line_len, cut to what line[] holds; the cut also decides where the rest starts.
LineLen(buf) == LET len == FirstNewline(buf) - 1
                IN  IF len >= BufferSize THEN BufferSize - 1 ELSE len

\* One turn of the loop over complete lines; an empty line is not handed on.
TakeLine(st) ==
    LET len == LineLen(st.rest)
    IN  [taken |-> IF len > 0 THEN Append(st.taken, SubSeq(st.rest, 1, len)) ELSE st.taken,
         rest  |-> SubSeq(st.rest, len + 2, Len(st.rest)),
         cut   |-> st.cut \/ FirstNewline(st.rest) > BufferSize]

\* A mutant: at most one line per read.
DrainOnce(buf) ==
    LET start == [taken |-> <<>>, rest |-> buf, cut |-> FALSE]
    IN  IF HasNewline(buf) THEN TakeLine(start) ELSE start

\* The loop's condition is a newline in what is left.
Turn(st) == IF HasNewline(st.rest) THEN TakeLine(st) ELSE st

\* All turns: each removes a byte at least.
Drain(buf) ==
    LET turn[k \in 0..Len(buf)] ==
            IF k = 0 THEN [taken |-> <<>>, rest |-> buf, cut |-> FALSE] ELSE Turn(turn[k - 1])
    IN  turn[Len(buf)]

\* A mutant: the room for the terminating zero is forgotten.
OverflowsByOne(held, valread) == held + valread > 2 * BufferSize

\* The test before the bytes are appended.
Overflows(held, valread) == held + valread >= 2 * BufferSize

\* read() returns a chunk of at most TCP_SERVER_BUFFER_SIZE - 1 bytes; flags says which of
\* them are newlines.
ReadData(s, flags) ==
    LET c     == client_socks[s]
        chunk == [k \in DOMAIN flags |-> [from |-> c, at |-> Len(read[c]) + k, nl |-> flags[k]]]
        drop  == Overflows(Len(recv_buf[s]), Len(flags))
        after == Drain((IF drop THEN <<>> ELSE recv_buf[s]) \o chunk)
    IN  /\ Running
        /\ s \notin Free
        /\ Len(read[c]) + Len(flags) <= MaxBytes
        /\ recv_buf' = [recv_buf EXCEPT ![s] = after.rest]
        /\ read' = [read EXCEPT ![c] = @ \o chunk]
        /\ lines' = [lines EXCEPT ![c] = @ \o after.taken]
        /\ intact' = [intact EXCEPT ![c] = @ /\ ~drop /\ ~after.cut]
        /\ UNCHANGED <<client_socks, on_disconnection, calls, listening, known, lost>>

Chunks == UNION {[1..n -> BOOLEAN] : n \in 1..(BufferSize - 1)}

-----------------------------------------------------------------------------
(* Losing a client.  read() returns 0, or the owner calls                  *)
(* tcp_server_client_disconnect: on_disconnection is called first, and the *)
(* slot is freed when the call returns.                                    *)

CallOwner(s) ==
    /\ Running
    /\ s \notin Free
    /\ calls' = [calls EXCEPT ![s] = 1]
    /\ UNCHANGED <<client_socks, recv_buf, on_disconnection, listening, known, lost, read, lines,
                   intact>>

ReadEof(s) == CallOwner(s)
tcp_server_client_disconnect(s) == CallOwner(s)

\* A mutant: the owner is not told.
SkipOwner(s) == UNCHANGED known

\* The callback drops its mapping of the slot.
TellOwner(s) == known' = [known EXCEPT ![s] = NoConn]

\* A callback that returns: the socket is closed and the slot is free.
OwnerReturns(s) ==
    /\ calls[s] > 0
    /\ on_disconnection = "returns"
    /\ TellOwner(s)
    /\ calls' = [calls EXCEPT ![s] = 0]
    /\ client_socks' = [client_socks EXCEPT ![s] = NoConn]
    /\ lost' = [lost EXCEPT ![s] = "told"]
    /\ Forget({client_socks[s]})
    /\ UNCHANGED <<recv_buf, on_disconnection, listening>>

\* dstore_server_on_disconnection calls tcp_server_client_disconnect for the slot, whose
\* socket is still open: on_disconnection is called again.
OwnerDisconnects(s) ==
    /\ calls[s] \in 1..(MaxDepth - 1)
    /\ on_disconnection = "disconnects"
    /\ TellOwner(s)
    /\ calls' = [calls EXCEPT ![s] = @ + 1]
    /\ UNCHANGED <<client_socks, recv_buf, on_disconnection, listening, lost, read, lines, intact>>

\* read() fails: the slot is freed and nobody is told.
ReadError(s) ==
    /\ Running
    /\ s \notin Free
    /\ client_socks' = [client_socks EXCEPT ![s] = NoConn]
    /\ lost' = [lost EXCEPT ![s] = "error"]
    /\ Forget({client_socks[s]})
    /\ UNCHANGED <<recv_buf, on_disconnection, calls, listening, known>>

tcp_server_cleanup ==
    /\ Running
    /\ listening' = FALSE
    /\ client_socks' = [s \in Slot |-> NoConn]
    /\ lost' = [s \in Slot |-> IF s \in Free THEN lost[s] ELSE "cleanup"]
    /\ Forget(Connected)
    /\ UNCHANGED <<recv_buf, on_disconnection, calls, known>>

\* dstore_init clears client_socket_to_node and starts a new server.
tcp_server_init ==
    /\ ~listening
    /\ listening' = TRUE
    /\ recv_buf' = [s \in Slot |-> <<>>]
    /\ known' = [s \in Slot |-> NoConn]
    /\ UNCHANGED <<client_socks, on_disconnection, calls, lost, read, lines, intact>>

TcpNext ==
    \/ \E c \in Conn, s \in Slot : Accept(c, s)
    \/ \E c \in Conn : Reject(c)
    \/ \E s \in Slot, flags \in Chunks : ReadData(s, flags)
    \/ \E s \in Slot : ReadEof(s)
    \/ \E s \in Slot : tcp_server_client_disconnect(s)
    \/ \E s \in Slot : OwnerReturns(s)
    \/ \E s \in Slot : OwnerDisconnects(s)
    \/ \E s \in Slot : ReadError(s)
    \/ tcp_server_cleanup
    \/ tcp_server_init

TcpSpec == TcpInit /\ [][TcpNext]_tcpVars

-----------------------------------------------------------------------------
(* Properties.                                                             *)

\* What newline framing means, byte by byte: the non-empty complete lines and the rest.
FrameByte(st, b) ==
    IF ~b.nl THEN [taken |-> st.taken, rest |-> Append(st.rest, b)]
    ELSE [taken |-> IF st.rest = <<>> THEN st.taken ELSE Append(st.taken, st.rest), rest |-> <<>>]

Framing(bytes) ==
    LET upto[k \in 0..Len(bytes)] ==
            IF k = 0 THEN [taken |-> <<>>, rest |-> <<>>] ELSE FrameByte(upto[k - 1], bytes[k])
    IN  upto[Len(bytes)]

\* However TCP cuts the stream, on_receive gets the lines the client sent, in order and
\* once, and the buffer holds the unfinished one, as long as nothing overflowed or was cut
\* and the slot was handed over empty.
FramingExact ==
    \A s \in Slot \ Free :
        LET c == client_socks[s]
        IN  intact[c] => /\ lines[c] = Framing(read[c]).taken
                         /\ recv_buf[s] = Framing(read[c]).rest

\* recv_buf has room for its terminating zero and line[] for the longest line.
BuffersHold ==
    /\ \A s \in Slot : Len(recv_buf[s]) < 2 * BufferSize
    /\ \A c \in Conn : \A k \in DOMAIN lines[c] : Len(lines[c][k]) < BufferSize

\* The owner's mapping of a slot is right whenever the server is outside a callback, but
\* for slots that a read error has freed.
OwnerInStep ==
    Running => \A s \in Slot :
        known[s] # client_socks[s] => client_socks[s] = NoConn /\ lost[s] = "error"

-----------------------------------------------------------------------------
(* The inductive invariant.                                                *)

TcpTypeOK ==
    /\ client_socks \in [Slot -> Conn \cup {NoConn}]
    /\ recv_buf \in [Slot -> Seq(Byte)]
    /\ on_disconnection \in {"returns", "disconnects"}
    /\ calls \in [Slot -> Nat]
    /\ listening \in BOOLEAN
    /\ known \in [Slot -> Conn \cup {NoConn}]
    /\ lost \in [Slot -> {"none", "told", "error", "cleanup"}]
    /\ read \in [Conn -> Seq(Byte)]
    /\ lines \in [Conn -> Seq(Seq(Byte))]
    /\ intact \in [Conn -> BOOLEAN]

\* A connection is in one slot, and has a history only there; only an open server calls its
\* owner, about a client it has.
TableInStep ==
    /\ \A s, r \in Slot \ Free : client_socks[s] = client_socks[r] => s = r
    /\ \A c \in Conn \ Connected : read[c] = <<>> /\ lines[c] = <<>>
    /\ \A s \in Slot : calls[s] > 0 \/ s \notin Free => listening
    /\ \A s \in Slot : calls[s] > 0 => s \notin Free

\* What the owner takes a slot for, call by call.
MappingInStep ==
    \A s \in Slot :
        calls[s] = 0 /\ known[s] # client_socks[s] =>
            client_socks[s] = NoConn /\ (lost[s] = "error" \/ ~listening)

ServerInvariant == TcpTypeOK /\ TableInStep /\ MappingInStep /\ BuffersHold /\ FramingExact
=============================================================================
