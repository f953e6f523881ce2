------------------------- MODULE MCCatalogActivation -------------------------
(* Small instances of CatalogActivation. *)
EXTENDS CatalogActivation, TLC

CONSTANTS c1, c2, c3, q1, q2

ThreeSnapshots == {c1, c2, c3}
TwoRequests == {q1, q2}
=============================================================================
