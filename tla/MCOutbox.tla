------------------------------- MODULE MCOutbox -------------------------------
(* Small instances of Outbox. *)
EXTENDS Outbox

CONSTANTS w1, w2, p1

TwoWorkers == {w1, w2}
OneProjector == {p1}
ThreeEvents == {1, 2, 3}
=============================================================================
