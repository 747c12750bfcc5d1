--------------------------- MODULE MCSaveSyncGate ---------------------------
(* SaveSyncGate on a small instance. *)
EXTENDS SaveSyncGate
=============================================================================
