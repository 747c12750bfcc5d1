----------------------------- MODULE MCSaveSync -----------------------------
(* SaveSync on small instances. *)
EXTENDS SaveSync, TLC

Symmetry == Permutations(Devices)
=============================================================================
