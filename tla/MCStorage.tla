----------------------------- MODULE MCStorage -----------------------------
(***************************************************************************)
(* Four keys in two buckets.  Three of them share a chain, so that entries *)
(* are unlinked at its head, in its middle and at its end; k2 is a key on  *)
(* which the two hash functions disagree.                                  *)
(***************************************************************************)
EXTENDS Storage

CONSTANTS k1, k2, k3, k4, b1, b2

MCKey == {k1, k2, k3, k4}
MCBucket == {b1, b2}
MChash == [k \in MCKey |-> IF k = k4 THEN b2 ELSE b1]
MChash_func == [k \in MCKey |-> IF k \in {k2, k4} THEN b2 ELSE b1]
=============================================================================
