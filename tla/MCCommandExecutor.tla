------------------------- MODULE MCCommandExecutor -------------------------
(* An instance of CommandExecutor for TLC. *)
EXTENDS CommandExecutor, TLC

CONSTANTS shell, child
MCProcs == {shell, child}
=============================================================================
