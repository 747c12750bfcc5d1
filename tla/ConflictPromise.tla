--------------------------- MODULE ConflictPromise ---------------------------
(***************************************************************************)
(* What the conflict rules promise, without saying how: which work may be  *)
(* under way beside a removed-game cleanup and beside an update.           *)
(*                                                                         *)
(* A piece of work is a call, a lease, the library sync or the artwork     *)
(* job.  It holds a claim while a cleanup has to stay away from it, and is *)
(* exposed while the restart at the end of an update would cut it short.   *)
(***************************************************************************)

CONSTANTS Work, Cleanups, Attempts

VARIABLES
    claims,     \* the work no cleanup may run beside
    exposed,    \* the work no update attempt may run beside
    cleanups,   \* the cleanup runs under way
    attempts    \* the update attempts under way

promiseVars == <<claims, exposed, cleanups, attempts>>

Init ==
    /\ claims = {}
    /\ exposed = {}
    /\ cleanups = {}
    /\ attempts = {}

\* Work begins only beside no cleanup, and is exposed only beside no attempt.
\* What ended meanwhile, as a lease past its deadline, may go in the same step.
BeginWork(w) ==
    /\ cleanups = {}
    /\ claims' \subseteq claims \cup {w}
    /\ exposed' \subseteq exposed \cup {w}
    /\ w \in exposed' \ exposed => attempts = {}
    /\ UNCHANGED <<cleanups, attempts>>

EndWork ==
    /\ claims' \subseteq claims
    /\ exposed' \subseteq exposed
    /\ UNCHANGED <<cleanups, attempts>>

\* One run at a time, and only once nothing holds a claim.
BeginCleanup(s) ==
    /\ cleanups = {} /\ claims = {}
    /\ cleanups' = {s}
    /\ UNCHANGED <<claims, exposed, attempts>>

EndCleanup ==
    /\ cleanups' = {}
    /\ UNCHANGED <<claims, exposed, attempts>>

\* One attempt at a time, and only while nothing is exposed and no cleanup
\* runs.  A cleanup is not kept from beginning beside an attempt.
BeginAttempt(p) ==
    /\ attempts = {} /\ exposed = {} /\ cleanups = {}
    /\ attempts' = {p}
    /\ claims' \subseteq claims
    /\ UNCHANGED <<exposed, cleanups>>

EndAttempt ==
    /\ attempts' = {}
    /\ UNCHANGED <<claims, exposed, cleanups>>

\* The process stops, and only an attempt stops it.
Restart ==
    /\ attempts # {}
    /\ claims' = {} /\ exposed' = {} /\ cleanups' = {} /\ attempts' = {}

Next ==
    \/ \E w \in Work : BeginWork(w)
    \/ EndWork
    \/ \E s \in Cleanups : BeginCleanup(s)
    \/ EndCleanup
    \/ \E p \in Attempts : BeginAttempt(p)
    \/ EndAttempt
    \/ Restart

Spec == Init /\ [][Next]_promiseVars
=============================================================================
