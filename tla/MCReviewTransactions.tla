------------------------ MODULE MCReviewTransactions -------------------------
\* Small instances of ReviewTransactions for TLC.
EXTENDS ReviewTransactions, TLC

CONSTANTS r1, r2, g1, s1, s2,
          MaxDecisions   \* bound on the decisions on record

TwoReviews == {r1, r2}
OneGroup == {g1}
SameGroup == [r \in Reviews |-> g1]
TwoRequests == {s1, s2}

\* Histories are followed up to the stale commit that makes an aggregate wrong
\* and up to a number of different decisions; the steps that lead out of these
\* bounds are checked, too.
InBounds == AggregateConsistent /\ Cardinality(decisions) <= MaxDecisions

Symmetry == Permutations(Requests) \cup Permutations(Reviews)
=============================================================================
