----------------------------- MODULE MCLibrale -----------------------------
(***************************************************************************)
(* What the election and the store of librale rest on, each for itself:    *)
(* datagram sockets, the TCP server, the hash table with its file, and the *)
(* table of nodes.  They share no state: a behaviour exercises one of them *)
(* and the others keep their initial state.                                *)
(***************************************************************************)
EXTENDS MCUdp, MCTcpServer, MCStorage, Cluster

VARIABLE part

LibraleInit ==
    /\ part \in {"udp", "tcp", "storage", "cluster"}
    /\ UdpInit /\ TcpInit /\ Init /\ ClusterInit
    /\ part # "tcp" => on_disconnection = "returns"

UdpStep == part = "udp" /\ UdpNext /\ UNCHANGED <<part, tcpVars, vars, clusterVars>>
TcpStep == part = "tcp" /\ TcpNext /\ UNCHANGED <<part, udpVars, vars, clusterVars>>
StorageStep == part = "storage" /\ Next /\ UNCHANGED <<part, udpVars, tcpVars, clusterVars>>
ClusterStep == part = "cluster" /\ ClusterNext /\ UNCHANGED <<part, udpVars, tcpVars, vars>>

LibraleNext == UdpStep \/ TcpStep \/ StorageStep \/ ClusterStep

LibraleSpec == LibraleInit /\ [][LibraleNext]_<<part, udpVars, tcpVars, vars, clusterVars>>
=============================================================================
