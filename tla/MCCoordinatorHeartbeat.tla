------------------------ MODULE MCCoordinatorHeartbeat ------------------------
(* Instances of CoordinatorHeartbeat for TLC. *)
EXTENDS CoordinatorHeartbeat
=============================================================================
