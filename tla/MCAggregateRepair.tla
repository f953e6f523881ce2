-------------------------- MODULE MCAggregateRepair --------------------------
(* Small instances of AggregateRepair. *)
EXTENDS AggregateRepair, TLC

CONSTANTS r1, g1, s1, s2

OneReview == {r1}
OneGroup == {g1}
SameGroup == [r \in Reviews |-> g1]
TwoRequests == {s1, s2}

RequestSymmetry == Permutations(TwoRequests)
=============================================================================
