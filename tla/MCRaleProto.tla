----------------------------- MODULE MCRaleProto -----------------------------
(* Instances of RaleProto for TLC.                                         *)
EXTENDS RaleProto, TLC

AllPairs == Node \X Node
GrantsOnly == [k \in AnswerKind |-> IF k = "VOTE_GRANTED" THEN AllPairs ELSE {}]
AllAnswers == [k \in AnswerKind |-> AllPairs]
Symmetry == Permutations(Node)

=============================================================================
