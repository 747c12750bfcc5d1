-------------------------- MODULE MCConflictRules --------------------------
(* ConflictRules on a small instance: the cfg files give the calls, starts *)
(* and presses, as model values.  Symmetry among the starts is not used,   *)
(* since the run checks liveness.                                          *)
EXTENDS ConflictRules
=============================================================================
