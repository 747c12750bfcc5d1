--------------------------- MODULE MCPruneAction ---------------------------
(* The cleanup run and its Steam actions, on a small instance for TLC. *)
EXTENDS PruneAction
=============================================================================
