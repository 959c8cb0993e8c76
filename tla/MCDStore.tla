------------------------------ MODULE MCDStore ------------------------------
(***************************************************************************)
(* A cluster of two nodes, 1 and 2.                                        *)
(***************************************************************************)
EXTENDS DStore, TLC

\* Node 2 does not know node 1 at first.
MCSeed == 1 :> <<1, 2>> @@ 2 :> <<2>>

Once(E) == [e \in Event |-> IF e \in E THEN 1 ELSE 0]

\* All layers work and two events happen; some do not work; none works.
MCSetups ==
    {<<Layer, Once({"election", e})>> : e \in Event}
        \cup {<<Layer, Once(E)>> : E \in {{"reset", "command"}, {"membership", "exit"}}}
        \cup {<<Layer \ {"callback", "free"}, Once({"exit"})>>}
        \cup {<<Layer \ {l}, Once({"election"})>> : l \in {"framing", "recv", "path"}}
        \cup {<<{}, Once(Event)>>}

\* All layers have been repaired; one node is elected, and one command is given.
MCReplication == {<<Layer, Once({"election", "command"})>>}
=============================================================================
