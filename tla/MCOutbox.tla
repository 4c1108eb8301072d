------------------------------ MODULE MCOutbox ------------------------------
(* Outbox for TLC. *)
EXTENDS Outbox

CONSTANTS s1, s2, s3, p1, p2

TwoHolders == {s1, s2}
ThreeHolders == {s1, s2, s3}
OneProducer == {p1}
TwoProducers == {p1, p2}
=============================================================================
