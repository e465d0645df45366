----------------------------- MODULE MCPostCanon -----------------------------
(* Instances of PostCanon for TLC. *)
EXTENDS PostCanon, TLC

CONSTANTS e1, p1, p2

\* An outbox worker claims under an id of its own; the pipelines of one task
\* share theirs.
ClaimName == [w \in Workers |-> IF w \in EventWorkers THEN "outbox" ELSE "pipeline"]

\* Pipelines of one name are interchangeable.
Pipelines == Permutations(Workers \ EventWorkers)
=============================================================================
