------------------------------ MODULE UdpProofs ------------------------------
(***************************************************************************)
(* For every deployment of nodes on hosts and ports: no answer of the      *)
(* election protocol ever leaves the node that gives it.                   *)
(***************************************************************************)
EXTENDS Udp, TLAPS

\* A port that a running node's server socket holds cannot be bound again on its host.
LEMMA ServerHoldsPort ==
    ASSUME NEW n \in server
    PROVE  ~ClientCanBind(n, HostOf[n], PortOf[n])
  BY DEF ClientCanBind, udp_bind

\* What opening a client socket does to the types and to the datagram to send.
LEMMA ClientInitShape ==
    ASSUME UdpTypeOK, NEW n \in Node, NEW kind \in {"request", "answer"},
           NEW h \in Host, NEW p \in Port, udp_client_init(n, kind, h, p)
    PROVE  /\ client' \in [Node -> Port \cup {NoPort}]
           /\ outgoing' \in [Node -> Datagram \cup {NoDatagram}]
           /\ refused' \subseteq Node \X {"request", "answer"} \X Port
  <1>1. HostOf[n] \in Host
    BY DeploymentAssumption
  <1> QED
    BY <1>1 DEF udp_client_init, UdpTypeOK, Datagram

\* Every step keeps the transport invariant.
LEMMA TransportStep ==
    ASSUME TransportInvariant, [UdpNext]_udpVars
    PROVE  TransportInvariant'
  <1> USE DEF TransportInvariant
  <1>0. \A n \in Node : HostOf[n] \in Host /\ PortOf[n] \in Port
    BY DeploymentAssumption
  <1>1. CASE UNCHANGED udpVars
    BY <1>1 DEF udpVars, UdpTypeOK, SourceIsTarget, AnswersNeverLeave
  <1>2. ASSUME NEW n \in Node, udp_server_init(n) PROVE TransportInvariant'
    BY <1>2 DEF udp_server_init, UdpTypeOK, SourceIsTarget, AnswersNeverLeave
  <1>3. ASSUME NEW n \in Node, rale_finit(n) PROVE TransportInvariant'
    <2>1. UdpTypeOK'
      BY <1>3 DEF rale_finit, UdpTypeOK
    <2>2. SourceIsTarget' /\ AnswersNeverLeave'
      BY <1>3 DEF rale_finit, UdpTypeOK, SourceIsTarget, AnswersNeverLeave
    <2> QED
      BY <2>1, <2>2
  <1>4. ASSUME NEW n \in Node, NEW q \in Node, SendRequest(n, q) PROVE TransportInvariant'
    <2>1. UdpTypeOK'
      BY <1>0, <1>4, ClientInitShape DEF SendRequest, UdpTypeOK
    <2>2. SourceIsTarget'
      BY <1>4 DEF SendRequest, udp_client_init, UdpTypeOK, SourceIsTarget
    <2> QED
      BY <1>4, <2>1, <2>2 DEF SendRequest, AnswersNeverLeave
  <1>5. ASSUME NEW n \in Node, udp_sendto(n) PROVE TransportInvariant'
    <2>1. UdpTypeOK'
      BY <1>5 DEF udp_sendto, udp_destroy, UdpTypeOK
    <2>2. SourceIsTarget' /\ AnswersNeverLeave'
      BY <1>5 DEF udp_sendto, UdpTypeOK, SourceIsTarget, AnswersNeverLeave
    <2> QED
      BY <2>1, <2>2
  <1>6. ASSUME NEW n \in Node, NEW d \in net, udp_recvfrom(n, d) PROVE TransportInvariant'
    <2>1. UdpTypeOK'
      BY <1>6 DEF udp_recvfrom, UdpTypeOK
    <2>2. SourceIsTarget' /\ AnswersNeverLeave'
      BY <1>6 DEF udp_recvfrom, UdpTypeOK, SourceIsTarget, AnswersNeverLeave
    <2> QED
      BY <2>1, <2>2
  <1>7. ASSUME NEW n \in Node, AnswerSender(n) PROVE TransportInvariant'
    <2>1. n \in server /\ handling[n].srcPort = PortOf[n]
      BY <1>7 DEF AnswerSender, SourceIsTarget
    <2>2. UNCHANGED <<client, outgoing, server, net>>
      BY <1>7, <2>1, ServerHoldsPort DEF AnswerSender, udp_client_init
    <2>3. refused' \subseteq Node \X {"request", "answer"} \X Port
      BY <1>0, <1>7, <2>1 DEF AnswerSender, udp_client_init, UdpTypeOK
    <2>4. handling' = [handling EXCEPT ![n] = NoDatagram]
      BY <1>7 DEF AnswerSender
    <2> QED
      BY <2>2, <2>3, <2>4 DEF UdpTypeOK, SourceIsTarget, AnswersNeverLeave
  <1>8. ASSUME NEW n \in Node, HandlerReturns(n) PROVE TransportInvariant'
    BY <1>8 DEF HandlerReturns, UdpTypeOK, SourceIsTarget, AnswersNeverLeave
  <1> QED
    BY <1>1, <1>2, <1>3, <1>4, <1>5, <1>6, <1>7, <1>8 DEF UdpNext

\* On every deployment, with restarts and with datagrams lost, repeated and reordered, only
\* requests are ever on the network: the bind of an answer always fails.
THEOREM NoAnswerLeaves == UdpSpec => []AnswersNeverLeave
  <1>1. UdpInit => TransportInvariant
    BY DEF UdpInit, TransportInvariant, UdpTypeOK, SourceIsTarget, AnswersNeverLeave
  <1>2. TransportInvariant => AnswersNeverLeave
    BY DEF TransportInvariant
  <1> QED
    BY <1>1, <1>2, TransportStep, PTL DEF UdpSpec

----------------------------------------------------------------------------
(* Client sockets *)

\* The inductive invariant of the sockets and of the sends that were given up.
SocketInvariant == TransportInvariant /\ ClientSocketsAreInUse /\ LonelyRequestsGetOut

\* What opening a client socket does to the socket and to its datagram.
LEMMA ClientInitOpens ==
    ASSUME UdpTypeOK, NEW n \in Node, NEW kind \in {"request", "answer"}, NEW h \in Host, NEW p \in Port,
           udp_client_init(n, kind, h, p)
    PROVE  \/ UNCHANGED <<client, outgoing>>
           \/ /\ client'[n] # NoPort /\ outgoing'[n] # NoDatagram
              /\ \A m \in Node \ {n} : client'[m] = client[m] /\ outgoing'[m] = outgoing[m]
  <1>1. p # NoPort /\ HostOf[n] \in Host
    BY DeploymentAssumption
  <1>2. [kind |-> kind, srcHost |-> HostOf[n], srcPort |-> p, dstHost |-> h, dstPort |-> p] # NoDatagram
    BY <1>1, NoDatagramAssumption DEF Datagram
  <1> QED
    BY <1>1, <1>2 DEF udp_client_init, UdpTypeOK

\* A client socket stays in use from its bind to its close.
LEMMA SocketsStep ==
    ASSUME TransportInvariant, ClientSocketsAreInUse, UdpNext
    PROVE  ClientSocketsAreInUse'
  <1> USE DEF TransportInvariant
  <1>0. \A n \in Node : HostOf[n] \in Host /\ PortOf[n] \in Port
    BY DeploymentAssumption
  <1>1. ASSUME NEW n \in Node, udp_server_init(n) PROVE ClientSocketsAreInUse'
    BY <1>1 DEF udp_server_init, ClientSocketsAreInUse
  <1>2. ASSUME NEW n \in Node, rale_finit(n) PROVE ClientSocketsAreInUse'
    BY <1>2 DEF rale_finit, ClientSocketsAreInUse, UdpTypeOK
  <1>3. ASSUME NEW n \in Node, NEW q \in Node, SendRequest(n, q) PROVE ClientSocketsAreInUse'
    <2>1. \/ UNCHANGED <<client, outgoing>>
          \/ /\ client'[n] # NoPort /\ outgoing'[n] # NoDatagram
             /\ \A m \in Node \ {n} : client'[m] = client[m] /\ outgoing'[m] = outgoing[m]
      BY <1>0, <1>3, ClientInitOpens DEF SendRequest
    <2> QED
      BY <1>3, <2>1 DEF SendRequest, ClientSocketsAreInUse
  <1>4. ASSUME NEW n \in Node, udp_sendto(n) PROVE ClientSocketsAreInUse'
    BY <1>4 DEF udp_sendto, udp_destroy, ClientSocketsAreInUse, UdpTypeOK
  <1>5. ASSUME NEW n \in Node, NEW d \in net, udp_recvfrom(n, d) PROVE ClientSocketsAreInUse'
    BY <1>5 DEF udp_recvfrom, ClientSocketsAreInUse, UdpTypeOK
  <1>6. ASSUME NEW n \in Node, AnswerSender(n) PROVE ClientSocketsAreInUse'
    <2>1. n \in server /\ handling[n].srcPort = PortOf[n]
      BY <1>6 DEF AnswerSender, SourceIsTarget
    <2>2. UNCHANGED <<client, outgoing, server>>
      BY <1>6, <2>1, ServerHoldsPort DEF AnswerSender, udp_client_init
    <2> QED
      BY <1>6, <2>2 DEF AnswerSender, ClientSocketsAreInUse, UdpTypeOK
  <1>7. ASSUME NEW n \in Node, HandlerReturns(n) PROVE ClientSocketsAreInUse'
    BY <1>7 DEF HandlerReturns, ClientSocketsAreInUse, UdpTypeOK
  <1> QED
    BY <1>1, <1>2, <1>3, <1>4, <1>5, <1>6, <1>7 DEF UdpNext

\* A request is given up only for the sender's own port or for a neighbour on its host.
LEMMA RefusedStep ==
    ASSUME UdpTypeOK, LonelyRequestsGetOut, UdpNext
    PROVE  LonelyRequestsGetOut'
  <1>0. \A n \in Node : HostOf[n] \in Host /\ PortOf[n] \in Port /\ PortOf[n] # NoPort
    BY DeploymentAssumption
  <1>1. CASE UNCHANGED refused
    BY <1>1 DEF LonelyRequestsGetOut
  <1>2. ASSUME NEW n \in Node, NEW q \in Node, SendRequest(n, q) PROVE LonelyRequestsGetOut'
    <2>1. CASE ClientCanBind(n, HostOf[n], PortOf[q])
      BY <1>1, <1>2, <2>1 DEF SendRequest, udp_client_init
    <2>2. CASE ~ClientCanBind(n, HostOf[n], PortOf[q])
      <3>1. refused' = refused \cup {<<n, "request", PortOf[q]>>} /\ client[n] = NoPort
        BY <1>2, <2>2 DEF SendRequest, udp_client_init
      <3>2. PortOf[q] = PortOf[n] \/ \E r \in Node \ {n} : HostOf[r] = HostOf[n]
        <4>1. CASE \E m \in server : HostOf[m] = HostOf[n] /\ PortOf[m] = PortOf[q]
          BY <4>1 DEF UdpTypeOK
        <4>2. CASE \E m \in Node : HostOf[m] = HostOf[n] /\ client[m] = PortOf[q]
          BY <1>0, <3>1, <4>2
        <4> QED
          BY <2>2, <4>1, <4>2 DEF ClientCanBind, udp_bind
      <3> QED
        BY <3>1, <3>2 DEF LonelyRequestsGetOut
    <2> QED
      BY <2>1, <2>2
  <1>3. ASSUME NEW n \in Node, AnswerSender(n) PROVE LonelyRequestsGetOut'
    <2>1. refused' = refused \/ \E p : refused' = refused \cup {<<n, "answer", p>>}
      BY <1>3 DEF AnswerSender, udp_client_init
    <2> QED
      BY <2>1 DEF LonelyRequestsGetOut
  <1> QED
    BY <1>1, <1>2, <1>3 DEF UdpNext, udp_server_init, rale_finit, udp_sendto, udp_recvfrom, HandlerReturns

\* The socket invariant holds for ever.
LEMMA SocketInvariantHolds == UdpSpec => []SocketInvariant
  <1>1. UdpInit => SocketInvariant
    BY DEF UdpInit, SocketInvariant, TransportInvariant, UdpTypeOK, SourceIsTarget, AnswersNeverLeave,
           ClientSocketsAreInUse, LonelyRequestsGetOut
  <1>2. ASSUME SocketInvariant, [UdpNext]_udpVars PROVE SocketInvariant'
    <2>1. CASE UNCHANGED udpVars
      BY <1>2, <2>1, TransportStep DEF SocketInvariant, udpVars, ClientSocketsAreInUse, LonelyRequestsGetOut
    <2>2. CASE UdpNext
      BY <1>2, <2>2, TransportStep, SocketsStep, RefusedStep DEF SocketInvariant, TransportInvariant
    <2> QED
      BY <1>2, <2>1, <2>2
  <1> QED
    BY <1>1, <1>2, PTL DEF UdpSpec

\* In every deployment a client socket is open exactly while its datagram waits to be sent, by a
\* process that runs and handles nothing else.
THEOREM SocketsInUse == UdpSpec => []ClientSocketsAreInUse
  <1>1. SocketInvariant => ClientSocketsAreInUse
    BY DEF SocketInvariant
  <1> QED
    BY <1>1, SocketInvariantHolds, PTL

\* In every deployment a node alone on its host never gives up a request to a port other than its own.
THEOREM RequestsGetOut == UdpSpec => []LonelyRequestsGetOut
  <1>1. SocketInvariant => LonelyRequestsGetOut
    BY DEF SocketInvariant
  <1> QED
    BY <1>1, SocketInvariantHolds, PTL

=============================================================================
