------------------------------ MODULE MCOutbox ------------------------------
(* Instances of Outbox for TLC. *)
EXTENDS Outbox

CONSTANTS w1, w2

\* Both replicas carry the id docker-compose gives them.
SharedName == [w \in {w1, w2} |-> "forwin-outbox-worker"]
=============================================================================
