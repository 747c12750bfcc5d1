---------------------------- MODULE MCDownloads ----------------------------
(* Downloads on small instances. *)
EXTENDS Downloads

\* Attempts at two games, which share the slots.
AtTwoGames ==
    \E a, b \in Attempts :
        at[a].pc # "unused" /\ at[b].pc # "unused" /\ at[a].rom # at[b].rom

\* Bound: two games at once, or an uninstall beside the attempts at one game,
\* as long as these did not cross.  Games are interchangeable, so the first
\* attempt can be at a fixed one.
MCBound ==
    /\ AtTwoGames \/ crossed # {} => removal.left = MaxRemovals
    /\ at[1].rom = Unused.rom
=============================================================================
