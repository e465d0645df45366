-------------------------- MODULE MCGenerationTask --------------------------
(* Instances of GenerationTask for TLC. *)
EXTENDS GenerationTask, TLC

CONSTANTS w1, w2

\* Replicas carry the id docker-compose gives them.
SharedName == [w \in Workers |-> "forwin-generation-worker"]

\* Workers of one name are interchangeable.
Replicas == Permutations(Workers)
=============================================================================
