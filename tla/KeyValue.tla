------------------------------ MODULE KeyValue ------------------------------
(***************************************************************************)
(* What the storage of one librale process promises its callers: a map     *)
(* from keys to values in which a put or a delete of one key touches no    *)
(* other key and a get answers with the value of the last put.  A put may  *)
(* be lost without notice, and the whole map goes at once when the table   *)
(* is replaced, freed, or lost with the process.  Nothing is promised      *)
(* across restarts.                                                        *)
(***************************************************************************)
CONSTANTS Key, Value, None

VARIABLES
    map,        \* what is stored under each key, None where nothing is
    answer      \* <<key, value>> right after a get, else << >>

vars == <<map, answer>>

Init ==
    /\ map = [k \in Key |-> None]
    /\ answer = << >>

Put(k, v) ==
    /\ map' = [map EXCEPT ![k] = v]
    /\ answer' = << >>

Delete(k) ==
    /\ map' = [map EXCEPT ![k] = None]
    /\ answer' = << >>

Clear ==
    /\ map' = [k \in Key |-> None]
    /\ answer' = << >>

Get(k) ==
    /\ answer' = <<k, map[k]>>
    /\ UNCHANGED map

\* A put that is lost, or a call that is not about the map.
Pass ==
    /\ answer' = << >>
    /\ UNCHANGED map

Next ==
    \/ Pass
    \/ Clear
    \/ \E k \in Key : Get(k) \/ Delete(k)
    \/ \E k \in Key, v \in Value : Put(k, v)

Spec == Init /\ [][Next]_vars
=============================================================================
