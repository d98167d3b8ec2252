-------------------------- MODULE MCContinuations --------------------------
(* Instances of Continuations for TLC. *)
EXTENDS Continuations

CONSTANT a1

(* Every assignment is the same participant's. *)
MCAgents == {a1}
MCAgent == [s \in 1..AssignmentCount |-> a1]
=============================================================================
