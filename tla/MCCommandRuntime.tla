-------------------------- MODULE MCCommandRuntime --------------------------
(* Small instances of CommandRuntime: the configurations give its constants. *)
EXTENDS CommandRuntime
=============================================================================
