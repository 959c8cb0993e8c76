-------------------------------- MODULE MCUdp --------------------------------
(* Three raled: n1 and n2 share a host, n3 has its own.                    *)
EXTENDS Udp

CONSTANTS n1, n2, n3

MCNode == {n1, n2, n3}
MCHostOf == [n \in MCNode |-> IF n = n3 THEN "h2" ELSE "h1"]
MCPortOf == [n \in MCNode |-> CASE n = n1 -> 5001 [] n = n2 -> 5002 [] n = n3 -> 5003]

=============================================================================
