--------------------------- MODULE MCHistoryBuild ---------------------------
(* Small instances of HistoryBuild for TLC. *)
EXTENDS HistoryBuild
CONSTANTS worker, command
MCBuilders == {worker, command}
=============================================================================
