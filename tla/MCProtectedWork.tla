-------------------------- MODULE MCProtectedWork --------------------------
(* Instances of ProtectedWork for TLC. *)
EXTENDS ProtectedWork
=============================================================================
