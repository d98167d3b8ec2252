---------------------------- MODULE MCRoomProtocol ----------------------------
(* The event stream with small budgets of faults.                            *)
EXTENDS RoomProtocol
=============================================================================
