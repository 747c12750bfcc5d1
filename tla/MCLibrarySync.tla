--------------------------- MODULE MCLibrarySync ---------------------------
(* Two platforms, one of two games in two chunks. *)
EXTENDS LibrarySync, TLC

CONSTANTS u1, u2, a, b, c

MCQueue == <<u1, u2>>
MCGamesOf == (u1 :> <<a, b>>) @@ (u2 :> <<c>>)
=============================================================================
