----------------------------- MODULE MCRoomTurns -----------------------------
(* Small instances of RoomTurns. *)
EXTENDS RoomTurns, TLC

\* No definition tells two participants apart.
MCSymmetry == Permutations(Agents)
=============================================================================
