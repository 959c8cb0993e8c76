--------------------------------- MODULE Udp ---------------------------------
(***************************************************************************)
(* The datagram transport of the election protocol (librale/src/udp.c and  *)
(* its callers in rale_proto.c), at the level of bound ports.              *)
(*                                                                         *)
(* A node receives on a server socket bound to its rale_port.  It sends    *)
(* each datagram from a fresh client socket, which udp_client_init binds   *)
(* to the port it is given: the TARGET port.  The kernel refuses a bind to *)
(* a port that a socket of the same host holds (no SO_REUSEADDR).          *)
(***************************************************************************)
EXTENDS Integers

CONSTANTS
    Node,       \* the raled processes
    HostOf,     \* the host each runs on
    PortOf,     \* the rale_port of each
    NoPort,     \* no socket open
    NoDatagram  \* nothing being handled

Host == {HostOf[n] : n \in Node}
Port == {PortOf[n] : n \in Node}

ASSUME DeploymentAssumption ==
    /\ HostOf \in [Node -> Host]
    /\ PortOf \in [Node -> Port]
    /\ NoPort \notin Port

\* The source address of a datagram is what the receiver answers to.
Datagram == [kind : {"request", "answer"}, srcHost : Host, srcPort : Port,
             dstHost : Host, dstPort : Port]

ASSUME NoDatagramAssumption == NoDatagram \notin Datagram

VARIABLES
    server,     \* nodes whose server socket is open
    client,     \* the port of the node's open client socket
    outgoing,   \* the datagram to be sent from it
    handling,   \* the datagram the node's tick is handling
    net,        \* datagrams sent
    refused     \* history: <<node, kind, port>>, sends given up because the bind failed

udpVars == <<server, client, outgoing, handling, net, refused>>

UdpInit ==
    /\ server = {}
    /\ client = [n \in Node |-> NoPort]
    /\ outgoing = [n \in Node |-> NoDatagram]
    /\ handling = [n \in Node |-> NoDatagram]
    /\ net = {}
    /\ refused = {}

\* udp_bind: INADDR_ANY, so every address of the host.
udp_bind(h, p) ==
    /\ \A n \in server : ~(HostOf[n] = h /\ PortOf[n] = p)
    /\ \A n \in Node : ~(HostOf[n] = h /\ client[n] = p)

\* rale_setup_socket: when the bind fails rale_proto_init fails and raled does not start.
udp_server_init(n) ==
    /\ n \notin server
    /\ udp_bind(HostOf[n], PortOf[n])
    /\ server' = server \cup {n}
    /\ UNCHANGED <<client, outgoing, handling, net, refused>>

\* The process ends, in rale_finit or in a crash: all its sockets are closed.
rale_finit(n) ==
    /\ n \in server
    /\ server' = server \ {n}
    /\ client' = [client EXCEPT ![n] = NoPort]
    /\ outgoing' = [outgoing EXCEPT ![n] = NoDatagram]
    /\ handling' = [handling EXCEPT ![n] = NoDatagram]
    /\ UNCHANGED <<net, refused>>

\* A mutant: the client socket is bound to the node's own port.
BindOwnPort(n, h, p) == udp_bind(h, PortOf[n])

\* The bind of udp_client_init(target_port).
ClientCanBind(n, h, p) == udp_bind(h, p)

\* The first half of rale_send_message: open a client socket, or give up.
udp_client_init(n, kind, h, p) ==
    /\ client[n] = NoPort
    /\ IF ClientCanBind(n, HostOf[n], p)
       THEN /\ client' = [client EXCEPT ![n] = p]
            /\ outgoing' = [outgoing EXCEPT ![n] =
                   [kind |-> kind, srcHost |-> HostOf[n], srcPort |-> p, dstHost |-> h, dstPort |-> p]]
            /\ UNCHANGED refused
       ELSE /\ refused' = refused \cup {<<n, kind, p>>}
            /\ UNCHANGED <<client, outgoing>>

\* rale_request_votes and rale_send_heartbeat, for one peer.
SendRequest(n, q) ==
    /\ n \in server
    /\ n # q
    /\ handling[n] = NoDatagram
    /\ udp_client_init(n, "request", HostOf[q], PortOf[q])
    /\ UNCHANGED <<server, handling, net>>

\* A mutant: the socket is not closed.
LeakSocket(n) == UNCHANGED client

\* close(sockfd)
udp_destroy(n) == client' = [client EXCEPT ![n] = NoPort]

\* The second half of rale_send_message.
udp_sendto(n) ==
    /\ outgoing[n] # NoDatagram
    /\ net' = net \cup {outgoing[n]}
    /\ outgoing' = [outgoing EXCEPT ![n] = NoDatagram]
    /\ udp_destroy(n)
    /\ UNCHANGED <<server, handling, refused>>

\* udp_process_messages hands a datagram and its source address to rale_handle_message.
udp_recvfrom(n, d) ==
    /\ n \in server
    /\ client[n] = NoPort
    /\ handling[n] = NoDatagram
    /\ d.dstHost = HostOf[n] /\ d.dstPort = PortOf[n]
    /\ handling' = [handling EXCEPT ![n] = d]
    /\ UNCHANGED <<server, client, outgoing, net, refused>>

\* rale_handle_message answers a request to the address it came from.
AnswerSender(n) ==
    /\ handling[n] # NoDatagram
    /\ handling[n].kind = "request"
    /\ udp_client_init(n, "answer", handling[n].srcHost, handling[n].srcPort)
    /\ handling' = [handling EXCEPT ![n] = NoDatagram]
    /\ UNCHANGED <<server, net>>

\* Or it does not: an answer, or a request that is turned down without a message.
HandlerReturns(n) ==
    /\ handling[n] # NoDatagram
    /\ handling' = [handling EXCEPT ![n] = NoDatagram]
    /\ UNCHANGED <<server, client, outgoing, net, refused>>

UdpNext ==
    \/ \E n \in Node : udp_server_init(n)
    \/ \E n \in Node : rale_finit(n)
    \/ \E n, q \in Node : SendRequest(n, q)
    \/ \E n \in Node : udp_sendto(n)
    \/ \E n \in Node, d \in net : udp_recvfrom(n, d)
    \/ \E n \in Node : AnswerSender(n)
    \/ \E n \in Node : HandlerReturns(n)

UdpSpec == UdpInit /\ [][UdpNext]_udpVars

-----------------------------------------------------------------------------
(* Properties.                                                             *)

\* The answer of a node that has its host to itself gets out, as a request does: candidates
\* are to collect votes, so rale_handle_message's VOTE_GRANTED has to leave the voter.
AnswersGetOut ==
    \A n \in Node, p \in Port :
        <<n, "answer", p>> \in refused => \E r \in Node \ {n} : HostOf[r] = HostOf[n]

\* Every variable holds a value of its type.
UdpTypeOK ==
    /\ server \subseteq Node
    /\ client \in [Node -> Port \cup {NoPort}]
    /\ outgoing \in [Node -> Datagram \cup {NoDatagram}]
    /\ handling \in [Node -> Datagram \cup {NoDatagram}]
    /\ net \subseteq Datagram
    /\ refused \subseteq Node \X {"request", "answer"} \X Port

\* A request of a node that has its host to itself gets out, however often it sends and
\* whoever restarts, unless the peer's port is also its own.
LonelyRequestsGetOut ==
    \A n, q \in Node :
        <<n, "request", PortOf[q]>> \in refused =>
            \/ PortOf[q] = PortOf[n]
            \/ \E r \in Node \ {n} : HostOf[r] = HostOf[n]

\* An open client socket always has its datagram still to send, from a process that runs.
ClientSocketsAreInUse ==
    \A n \in Node :
        /\ client[n] # NoPort <=> outgoing[n] # NoDatagram
        /\ client[n] # NoPort => n \in server /\ handling[n] = NoDatagram

(***************************************************************************)
(* What the code does with its answers instead, proved in UdpProofs: none  *)
(* ever leaves a node.  A request arrives from a source port equal to the  *)
(* port it was sent to, which the answering node's own server socket holds *)
(* for as long as it can answer.  No VOTE_GRANTED reaches a candidate.     *)
(***************************************************************************)
AnswersNeverLeave == \A d \in net : d.kind = "request"

\* Whatever is sent or handled goes from the target port to the target port.
SourceIsTarget ==
    /\ \A d \in net : d.srcPort = d.dstPort
    /\ \A n \in Node :
        /\ outgoing[n] # NoDatagram =>
            /\ outgoing[n].kind = "request"
            /\ outgoing[n].srcPort = outgoing[n].dstPort
        /\ handling[n] # NoDatagram => n \in server /\ handling[n].srcPort = PortOf[n]

TransportInvariant == UdpTypeOK /\ SourceIsTarget /\ AnswersNeverLeave

=============================================================================
