------------------------ MODULE ConflictRulesProofs ------------------------
(***************************************************************************)
(* Proofs that the conflict rules exclude what they promise to, for any    *)
(* number of endpoint calls, leases, cleanup starts and update presses,    *)
(* and that they implement ConflictPromise: under the mapping Promise of   *)
(* ConflictRules, every step of the program is a step of the promise or    *)
(* changes nothing of it.                                                  *)
(***************************************************************************)
EXTENDS ConflictRules, FiniteSetTheorems, TLAPS

ReservedPcs == {"reserved", "validating", "began", "refused"}
StoppingPcs == {"stopping", "reserved", "validating", "refused"}

\* At most one start is past the admission; _starting covers it, and no run is
\* under way before it begins one.
OneAdmitted ==
    /\ \A s \in Starts : startPc[s] \in {"validating", "began", "refused"} => starting
    /\ \A s, q \in Starts :
         /\ startPc[s] \in {"validating", "began", "refused"}
         /\ startPc[q] \in {"validating", "began", "refused"}
         => s = q
    /\ \A s \in Starts : startPc[s] = "validating" => runId = NoRun

\* From a reservation to the end of the run it leads to, everything the
\* cleanup excludes is out: CleanupExcludesWork extended to the start.
CleanupShutsOut ==
    ReservedStarts # {} \/ runs # {} =>
        /\ \A c \in Calls : ~HoldsOperation(c)
        /\ \A t \in Tokens : leases[t] = "none"
        /\ ~syncInFlight
        /\ ~job

CleanupInv ==
    /\ TypeOK
    /\ HoldsAreOwned
    /\ OneCleanupRun
    /\ OneAdmitted
    /\ CleanupShutsOut

-----------------------------------------------------------------------------

\* Moving one start to another place changes the two counted sets by at most it.
LEMMA MoveStart ==
    ASSUME TypeOK, NEW s \in Starts, NEW v \in StartPcs,
           startPc' = [startPc EXCEPT ![s] = v]
    PROVE  /\ ReservedStarts' = IF v \in ReservedPcs THEN ReservedStarts \cup {s}
                                                     ELSE ReservedStarts \ {s}
           /\ StoppingStarts' = IF v \in StoppingPcs THEN StoppingStarts \cup {s}
                                                     ELSE StoppingStarts \ {s}
           /\ s \in ReservedStarts <=> startPc[s] \in ReservedPcs
           /\ s \in StoppingStarts <=> startPc[s] \in StoppingPcs
    BY DEF TypeOK, ReservedStarts, StoppingStarts, ReservedPcs, StoppingPcs, StartPcs

\* The sets that are counted are finite.
LEMMA CountedSetsFinite ==
    ASSUME TypeOK
    PROVE  /\ IsFiniteSet(ReservedStarts) /\ IsFiniteSet(StoppingStarts) /\ IsFiniteSet(runs)
           /\ Cardinality(ReservedStarts) \in Nat
           /\ Cardinality(StoppingStarts) \in Nat
           /\ Cardinality(runs) \in Nat
<1>1. ReservedStarts \subseteq Starts /\ StoppingStarts \subseteq Starts /\ runs \subseteq Starts
    BY DEF ReservedStarts, StoppingStarts, TypeOK
<1>2. IsFiniteSet(ReservedStarts) /\ IsFiniteSet(StoppingStarts) /\ IsFiniteSet(runs)
    BY <1>1, ConflictAssumption, FS_Subset
<1> QED BY <1>2, FS_CardinalityType

\* How the two counts change when start s moves to v.
CountsMove(s, v) ==
    /\ Cardinality(ReservedStarts') = Cardinality(ReservedStarts)
         + (IF v \in ReservedPcs THEN 1 ELSE 0) - (IF startPc[s] \in ReservedPcs THEN 1 ELSE 0)
    /\ Cardinality(StoppingStarts') = Cardinality(StoppingStarts)
         + (IF v \in StoppingPcs THEN 1 ELSE 0) - (IF startPc[s] \in StoppingPcs THEN 1 ELSE 0)
    /\ startPc[s] \in ReservedPcs => Cardinality(ReservedStarts) > 0
    /\ startPc[s] \in StoppingPcs => Cardinality(StoppingStarts) > 0

\* A start that moves changes each count by its leaving and its joining.
LEMMA MoveStartCounts ==
    ASSUME TypeOK, NEW s \in Starts, NEW v \in StartPcs,
           startPc' = [startPc EXCEPT ![s] = v]
    PROVE  CountsMove(s, v)
<1> DEFINE R == ReservedStarts
           S == StoppingStarts
<1>1. IsFiniteSet(R) /\ IsFiniteSet(S) /\ Cardinality(R) \in Nat /\ Cardinality(S) \in Nat
    BY CountedSetsFinite
<1>2. /\ Cardinality(R \cup {s}) = IF s \in R THEN Cardinality(R) ELSE Cardinality(R) + 1
      /\ Cardinality(S \cup {s}) = IF s \in S THEN Cardinality(S) ELSE Cardinality(S) + 1
    BY <1>1, FS_AddElement
<1>3. /\ Cardinality(R \ {s}) = IF s \in R THEN Cardinality(R) - 1 ELSE Cardinality(R)
      /\ Cardinality(S \ {s}) = IF s \in S THEN Cardinality(S) - 1 ELSE Cardinality(S)
    BY <1>1, FS_RemoveElement
<1>4. (s \in R => Cardinality(R) > 0) /\ (s \in S => Cardinality(S) > 0)
    BY <1>1, FS_EmptySet
<1> QED
  <2> HIDE DEF R, S
  <2>1. /\ ReservedStarts' = IF v \in ReservedPcs THEN R \cup {s} ELSE R \ {s}
        /\ StoppingStarts' = IF v \in StoppingPcs THEN S \cup {s} ELSE S \ {s}
        /\ s \in R <=> startPc[s] \in ReservedPcs
        /\ s \in S <=> startPc[s] \in StoppingPcs
        /\ R = ReservedStarts /\ S = StoppingStarts
    BY MoveStart DEF R, S
  <2> QED BY <1>1, <1>2, <1>3, <1>4, <2>1 DEF CountsMove

-----------------------------------------------------------------------------

\* A step that leaves the cleanup's own variables alone keeps the counts.
LEMMA CleanupVarsUnchanged ==
    ASSUME CleanupInv, UNCHANGED cleanupVars
    PROVE  HoldsAreOwned' /\ OneCleanupRun' /\ OneAdmitted'
           /\ (ReservedStarts' # {} \/ runs' # {} => ReservedStarts # {} \/ runs # {})
BY DEF CleanupInv, cleanupVars, HoldsAreOwned, OneCleanupRun, OneAdmitted,
       ReservedStarts, StoppingStarts

\* While a start holds its reservation or a run its claim, cleanup_running says so.
LEMMA ShutMeansRunning ==
    ASSUME CleanupInv, ReservedStarts # {} \/ runs # {}
    PROVE  CleanupRunning
<1>1. ReservedStarts # {} => Cardinality(ReservedStarts) > 0
    BY CountedSetsFinite, FS_EmptySet DEF CleanupInv
<1> QED BY <1>1 DEF CleanupInv, HoldsAreOwned, CleanupRunning

\* A call's own steps keep the exclusion: it is at work only while no cleanup runs.
LEMMA CallStepKeeps ==
    ASSUME CleanupInv, NEW c \in Calls, CallStep(c)
    PROVE  CleanupInv'
<1>1. UNCHANGED cleanupVars
    BY DEF CallStep, EnterCall, RegisterOperation, EndBody, ReleaseOperation,
           DetachTask, EndTask, ReleaseTask, StartSync
<1>2. TypeOK'
    BY DEF CleanupInv, TypeOK, CallPcs, Swept, vars, callVars, jobVars, cleanupVars, updateVars,
           CallStep, EnterCall, RegisterOperation, EndBody, ReleaseOperation,
           DetachTask, EndTask, ReleaseTask, StartSync
<1>3. CleanupShutsOut'
  <2> SUFFICES ASSUME ReservedStarts' # {} \/ runs' # {}
               PROVE  /\ \A d \in Calls : ~HoldsOperation(d)'
                      /\ \A t \in Tokens : leases'[t] = "none"
                      /\ ~syncInFlight'
                      /\ ~job'
      BY DEF CleanupShutsOut
  <2>1. CleanupRunning
      BY <1>1, CleanupVarsUnchanged, ShutMeansRunning
  <2>2. /\ \A d \in Calls : callPc[d] \notin {"body", "leaving"} /\ detached[d] = "none"
        /\ \A t \in Tokens : leases[t] = "none"
        /\ ~syncInFlight
        /\ ~job
      BY <1>1, CleanupVarsUnchanged DEF CleanupInv, CleanupShutsOut, HoldsOperation
  <2>3. /\ \A d \in Calls : callPc'[d] \notin {"body", "leaving"} /\ detached'[d] = "none"
        /\ \A t \in Tokens : leases'[t] = "none"
        /\ ~syncInFlight'
        /\ ~job'
      BY <2>1, <2>2 DEF CleanupInv, TypeOK, Swept, vars, callVars, jobVars, cleanupVars, updateVars,
           CallStep, EnterCall, RegisterOperation, EndBody, ReleaseOperation,
           DetachTask, EndTask, ReleaseTask, StartSync
  <2> QED BY <2>3 DEF HoldsOperation
<1> QED BY <1>1, <1>2, <1>3, CleanupVarsUnchanged DEF CleanupInv

\* A lease is only ever taken where something else keeps the cleanup out.
LEMMA LeaseStepKeeps ==
    ASSUME CleanupInv, NEW t \in Tokens, LeaseStep(t)
    PROVE  CleanupInv'
<1> USE DEF vars, callVars, jobVars, cleanupVars, updateVars, LeaseStep,
            LeaseInBody, LeaseInTask, LeaseInSync, LeaseInJob, PassDeadline, ReleaseLease, AcquireLease, Swept
<1>1. UNCHANGED cleanupVars
    OBVIOUS
<1>2. TypeOK'
    BY DEF CleanupInv, TypeOK
<1>3. CleanupShutsOut'
  <2> SUFFICES ASSUME ReservedStarts' # {} \/ runs' # {}
               PROVE  /\ \A d \in Calls : ~HoldsOperation(d)'
                      /\ \A u \in Tokens : leases'[u] = "none"
                      /\ ~syncInFlight'
                      /\ ~job'
      BY DEF CleanupShutsOut
  <2>1. /\ \A d \in Calls : callPc[d] \notin {"body", "leaving"} /\ detached[d] = "none"
        /\ \A u \in Tokens : leases[u] = "none"
        /\ ~syncInFlight
        /\ ~job
      BY <1>1, CleanupVarsUnchanged DEF CleanupInv, CleanupShutsOut, HoldsOperation
  <2>2. UNCHANGED <<callPc, detached, syncInFlight, job>>
      OBVIOUS
  <2>3. \A u \in Tokens : leases'[u] = "none"
      BY <2>1 DEF CleanupInv, TypeOK
  <2> QED BY <2>1, <2>2, <2>3 DEF HoldsOperation
<1> QED BY <1>1, <1>2, <1>3, CleanupVarsUnchanged DEF CleanupInv

\* So do the leases of the panel, the library sync and the artwork job.
LEMMA PanelAndJobStepKeeps ==
    ASSUME CleanupInv, RenewLease \/ RemountPanel \/ EndSync \/ StartJob \/ EndJob
    PROVE  CleanupInv'
<1> USE DEF vars, callVars, jobVars, cleanupVars, updateVars,
            RenewLease, RemountPanel, EndSync, StartJob, EndJob, Swept
<1>1. UNCHANGED cleanupVars
    OBVIOUS
<1>2. TypeOK'
    BY DEF CleanupInv, TypeOK
<1>3. CleanupShutsOut'
  <2> SUFFICES ASSUME ReservedStarts' # {} \/ runs' # {}
               PROVE  /\ \A d \in Calls : ~HoldsOperation(d)'
                      /\ \A u \in Tokens : leases'[u] = "none"
                      /\ ~syncInFlight'
                      /\ ~job'
      BY DEF CleanupShutsOut
  <2>1. CleanupRunning
      BY <1>1, CleanupVarsUnchanged, ShutMeansRunning
  <2>2. /\ \A d \in Calls : callPc[d] \notin {"body", "leaving"} /\ detached[d] = "none"
        /\ \A u \in Tokens : leases[u] = "none"
        /\ ~syncInFlight
        /\ ~job
      BY <1>1, CleanupVarsUnchanged DEF CleanupInv, CleanupShutsOut, HoldsOperation
  <2>3. UNCHANGED <<callPc, detached>> /\ ~syncInFlight' /\ ~job'
      BY <2>1, <2>2
  <2>4. \A u \in Tokens : leases'[u] = "none"
      BY <2>2 DEF CleanupInv, TypeOK
  <2> QED BY <2>2, <2>3, <2>4 DEF HoldsOperation
<1> QED BY <1>1, <1>2, <1>3, CleanupVarsUnchanged DEF CleanupInv

\* Every step of a start: the counts first, then what the counts give.
LEMMA StartStepKeeps ==
    ASSUME CleanupInv, NEW s \in Starts, StartStep(s)
    PROVE  CleanupInv'
<1> USE DEF callVars, jobVars, updateVars
<1>0. /\ TypeOK /\ HoldsAreOwned /\ OneCleanupRun /\ OneAdmitted /\ CleanupShutsOut
      /\ Cardinality(ReservedStarts) \in Nat
      /\ Cardinality(StoppingStarts) \in Nat
      /\ Cardinality(runs) \in Nat
    BY CountedSetsFinite DEF CleanupInv
<1>a. \A v \in {"idle", "stopping", "reserved", "validating", "began", "refused"} :
        v \in StartPcs /\ (startPc' = [startPc EXCEPT ![s] = v] => CountsMove(s, v))
  <2>1. \A v \in StartPcs : startPc' = [startPc EXCEPT ![s] = v] => CountsMove(s, v)
      BY <1>0, MoveStartCounts
  <2> QED BY <2>1 DEF StartPcs
\* Where the claims are as they were, so is everything a cleanup excludes.
<1>1. ASSUME UNCHANGED <<callPc, detached, syncInFlight, job>>,
             \A t \in Tokens : leases[t] = "none" => leases'[t] = "none",
             ReservedStarts' # {} \/ runs' # {} => ReservedStarts # {} \/ runs # {}
      PROVE  CleanupShutsOut'
    BY <1>0, <1>1 DEF CleanupShutsOut, HoldsOperation
<1>2. CASE StartPrune(s)
  <2>1. startPc' = [startPc EXCEPT ![s] = "stopping"] /\ startPc[s] = "idle"
      BY <1>2 DEF StartPrune
  <2>c. CountsMove(s, "stopping")
      BY <1>a, <2>1
  <2>2. HoldsAreOwned'
      BY <1>0, <1>2, <2>1, <2>c DEF HoldsAreOwned, CountsMove, ReservedPcs, StoppingPcs, StartPrune
  <2>3. TypeOK' /\ OneCleanupRun' /\ OneAdmitted'
      BY <1>0, <1>2, <2>1 DEF TypeOK, StartPcs, OneCleanupRun, OneAdmitted, StartPrune
  <2>4. CleanupShutsOut'
      BY <1>0, <1>1, <1>2, <2>1, MoveStart DEF ReservedPcs, StartPcs, StartPrune
  <2> QED BY <2>2, <2>3, <2>4 DEF CleanupInv
<1>3. CASE ReserveStart(s)
  <2>0. startPc[s] = "stopping" /\ ~job /\ leases' = Swept
        /\ UNCHANGED <<callPc, detached, writing, jobVars, runs, starting, runId, updateVars>>
      BY <1>3 DEF ReserveStart
  <2>1. CASE Claimed(Calls) \/ holding \/ syncInFlight
    <3>1. /\ startPc' = [startPc EXCEPT ![s] = "idle"]
          /\ artworkHolds' = Resumed(artworkHolds)
          /\ UNCHANGED reservations
        BY <1>3, <2>1 DEF ReserveStart
    <3>c. CountsMove(s, "idle")
        BY <1>a, <3>1
    <3>2. HoldsAreOwned'
        BY <1>0, <2>0, <3>1, <3>c DEF HoldsAreOwned, CountsMove, ReservedPcs, StoppingPcs, Resumed
    <3>3. TypeOK' /\ OneCleanupRun' /\ OneAdmitted'
        BY <1>0, <2>0, <3>1 DEF TypeOK, StartPcs, OneCleanupRun, OneAdmitted, Resumed, Swept
    <3>4. CleanupShutsOut'
        BY <1>0, <1>1, <2>0, <3>1, MoveStart DEF ReservedPcs, StartPcs, Swept
    <3> QED BY <3>2, <3>3, <3>4 DEF CleanupInv
  <2>2. CASE ~(Claimed(Calls) \/ holding \/ syncInFlight)
    <3>1. /\ startPc' = [startPc EXCEPT ![s] = "reserved"]
          /\ reservations' = reservations + 1
          /\ UNCHANGED artworkHolds
        BY <1>3, <2>2 DEF ReserveStart
    <3>c. CountsMove(s, "reserved")
        BY <1>a, <3>1
    <3>2. HoldsAreOwned'
        BY <1>0, <2>0, <3>1, <3>c DEF HoldsAreOwned, CountsMove, ReservedPcs, StoppingPcs
    <3>3. TypeOK' /\ OneCleanupRun' /\ OneAdmitted'
        BY <1>0, <2>0, <3>1 DEF TypeOK, StartPcs, OneCleanupRun, OneAdmitted, Swept
    <3>4. CleanupShutsOut'
        BY <2>0, <2>2 DEF CleanupShutsOut, Claimed, HoldsOperation
    <3> QED BY <3>2, <3>3, <3>4 DEF CleanupInv
  <2> QED BY <2>1, <2>2
<1>4. CASE AdmitStart(s)
  <2>1. startPc' = [startPc EXCEPT ![s] = "validating"] /\ startPc[s] = "reserved"
      BY <1>4 DEF AdmitStart
  <2>c. CountsMove(s, "validating")
      BY <1>a, <2>1
  <2>2. HoldsAreOwned'
      BY <1>0, <1>4, <2>1, <2>c DEF HoldsAreOwned, CountsMove, ReservedPcs, StoppingPcs, AdmitStart
  <2>3. TypeOK' /\ OneCleanupRun' /\ OneAdmitted'
      BY <1>0, <1>4, <2>1 DEF TypeOK, StartPcs, OneCleanupRun, OneAdmitted, AdmitStart, IsActive
  <2>4. CleanupShutsOut'
      BY <1>0, <1>1, <1>4, <2>1, MoveStart DEF ReservedPcs, StartPcs, AdmitStart
  <2> QED BY <2>2, <2>3, <2>4 DEF CleanupInv
<1>5. CASE RefuseStart(s)
  <2>1. startPc' = [startPc EXCEPT ![s] = "idle"] /\ startPc[s] = "reserved"
      BY <1>5 DEF RefuseStart
  <2>c. CountsMove(s, "idle")
      BY <1>a, <2>1
  <2>2. HoldsAreOwned' /\ reservations' \in Nat
      BY <1>0, <1>5, <2>1, <2>c DEF HoldsAreOwned, CountsMove, ReservedPcs, StoppingPcs, RefuseStart, Resumed
  <2>3. TypeOK' /\ OneCleanupRun' /\ OneAdmitted'
      BY <1>0, <1>5, <2>1, <2>2 DEF TypeOK, StartPcs, OneCleanupRun, OneAdmitted, RefuseStart, Resumed
  <2>4. CleanupShutsOut'
      BY <1>0, <1>1, <1>5, <2>1, MoveStart DEF ReservedPcs, StartPcs, RefuseStart
  <2> QED BY <2>2, <2>3, <2>4 DEF CleanupInv
<1>6. CASE BeginRun(s)
  <2>1. startPc' = [startPc EXCEPT ![s] = "began"] /\ startPc[s] = "validating"
      BY <1>6 DEF BeginRun
  <2>a. runId = NoRun /\ runs' = runs \cup {s}
      BY <1>0, <1>6, <2>1 DEF BeginRun, OneAdmitted
  <2>b. runs = {} /\ runs' = {s}
      BY <1>0, <2>a DEF OneCleanupRun
  <2>2. runs = {} /\ runs' = {s} /\ Cardinality(runs) = 0 /\ Cardinality(runs') = 1
      BY <2>b, FS_EmptySet, FS_Singleton
  <2>c. CountsMove(s, "began")
      BY <1>a, <2>1
  <2>3. HoldsAreOwned'
      BY <1>0, <1>6, <2>1, <2>2, <2>c DEF HoldsAreOwned, CountsMove, ReservedPcs, StoppingPcs, BeginRun
  <2>4. TypeOK' /\ OneCleanupRun' /\ OneAdmitted'
      BY <1>0, <1>6, <2>1, <2>2, ConflictAssumption DEF TypeOK, StartPcs, OneCleanupRun, OneAdmitted, BeginRun
  <2>5. CleanupShutsOut'
      BY <1>0, <1>1, <1>6, <2>1, MoveStart DEF ReservedPcs, StartPcs, BeginRun
  <2> QED BY <2>3, <2>4, <2>5 DEF CleanupInv
<1>7. CASE FindStale(s)
  <2>1. startPc' = [startPc EXCEPT ![s] = "refused"] /\ startPc[s] = "validating"
      BY <1>7 DEF FindStale
  <2>c. CountsMove(s, "refused")
      BY <1>a, <2>1
  <2>2. HoldsAreOwned'
      BY <1>0, <1>7, <2>1, <2>c DEF HoldsAreOwned, CountsMove, ReservedPcs, StoppingPcs, FindStale
  <2>3. TypeOK' /\ OneCleanupRun' /\ OneAdmitted'
      BY <1>0, <1>7, <2>1 DEF TypeOK, StartPcs, OneCleanupRun, OneAdmitted, FindStale
  <2>4. CleanupShutsOut'
      BY <1>0, <1>1, <1>7, <2>1, MoveStart DEF ReservedPcs, StartPcs, FindStale
  <2> QED BY <2>2, <2>3, <2>4 DEF CleanupInv
<1>8. CASE LeaveStart(s)
  <2>1. startPc' = [startPc EXCEPT ![s] = "idle"] /\ startPc[s] \in {"began", "refused"}
      BY <1>8 DEF LeaveStart
  <2>c. CountsMove(s, "idle")
      BY <1>a, <2>1
  <2>a. ASSUME startPc[s] = "began" PROVE HoldsAreOwned' /\ reservations' \in Nat
      BY <1>0, <1>8, <2>a, <2>c DEF HoldsAreOwned, CountsMove, ReservedPcs, StoppingPcs, LeaveStart
  <2>b. ASSUME startPc[s] = "refused" PROVE HoldsAreOwned' /\ reservations' \in Nat
    <3>1. artworkHolds' = Resumed(artworkHolds) /\ reservations' = reservations - 1 /\ runs' = runs
        BY <1>8, <2>b DEF LeaveStart
    <3> QED
      BY <1>0, <2>b, <3>1, <2>c DEF HoldsAreOwned, CountsMove, ReservedPcs, StoppingPcs, Resumed
  <2>2. HoldsAreOwned' /\ reservations' \in Nat
      BY <2>1, <2>a, <2>b
  <2>d. artworkHolds' \in Nat /\ UNCHANGED <<runs, runId>> /\ starting' = FALSE
      BY <1>0, <1>8 DEF TypeOK, LeaveStart, Resumed
  <2>e. \A q \in Starts : startPc'[q] \notin {"validating", "began", "refused"}
      BY <1>0, <2>1 DEF TypeOK, OneAdmitted
  <2>f. TypeOK'
      BY <1>0, <1>8, <2>1, <2>2, <2>d DEF TypeOK, StartPcs, LeaveStart
  <2>3. TypeOK' /\ OneCleanupRun' /\ OneAdmitted'
      BY <1>0, <2>d, <2>e, <2>f DEF OneCleanupRun, OneAdmitted
  <2>4. CleanupShutsOut'
      BY <1>0, <1>1, <1>8, <2>1, MoveStart DEF ReservedPcs, StartPcs, LeaveStart
  <2> QED BY <2>2, <2>3, <2>4 DEF CleanupInv
<1>9. CASE EndRun(s)
  <2>1. UNCHANGED startPc /\ ReservedStarts' = ReservedStarts /\ StoppingStarts' = StoppingStarts
      BY <1>9 DEF EndRun, ReservedStarts, StoppingStarts
  <2>2. runs = {s} /\ runs' = {} /\ Cardinality(runs) = 1 /\ Cardinality(runs') = 0
      BY <1>0, <1>9, ConflictAssumption, FS_EmptySet, FS_Singleton DEF EndRun, OneCleanupRun
  <2>3. HoldsAreOwned'
      BY <1>0, <1>9, <2>1, <2>2 DEF HoldsAreOwned, EndRun, Resumed
  <2>4. TypeOK' /\ OneCleanupRun' /\ OneAdmitted'
      BY <1>0, <1>9, <2>1, <2>2 DEF TypeOK, StartPcs, OneCleanupRun, OneAdmitted, EndRun, Resumed
  <2>5. CleanupShutsOut'
      BY <1>0, <1>1, <1>9, <2>1, <2>2 DEF EndRun
  <2> QED BY <2>3, <2>4, <2>5 DEF CleanupInv
<1> QED
    BY <1>2, <1>3, <1>4, <1>5, <1>6, <1>7, <1>8, <1>9 DEF StartStep

\* What stopping the process leaves: no claim, and counts of nothing.
LEMMA StopProcessKeeps ==
    ASSUME CleanupInv, NEW p \in Presses, StopProcess(p)
    PROVE  CleanupInv'
<1>1. ReservedStarts' = {} /\ StoppingStarts' = {} /\ runs' = {}
    BY DEF StopProcess, ReservedStarts, StoppingStarts
<1>2. HoldsAreOwned'
    BY <1>1, FS_EmptySet DEF StopProcess, HoldsAreOwned
<1>3. TypeOK'
    BY DEF CleanupInv, TypeOK, CallPcs, StartPcs, PressPcs, StopProcess
<1>4. OneCleanupRun' /\ OneAdmitted' /\ CleanupShutsOut'
    BY <1>1 DEF StopProcess, OneCleanupRun, OneAdmitted, CleanupShutsOut
<1> QED BY <1>2, <1>3, <1>4 DEF CleanupInv

\* The steps of an update touch the cleanup's claims only by sweeping leases.
LEMMA PressStepKeeps ==
    ASSUME CleanupInv, NEW p \in Presses, PressStep(p)
    PROVE  CleanupInv'
<1>1. CASE StopProcess(p)
    BY <1>1, StopProcessKeeps
<1>2. CASE ~StopProcess(p)
  <2> USE DEF callVars, jobVars, cleanupVars, PressStep, PressInstall, ConfirmPress,
              RefusePress, StartInstaller, FailAttempt, LoseInstaller
  <2>1. UNCHANGED cleanupVars /\ UNCHANGED <<callPc, detached, writing, syncInFlight, job>>
        /\ leases' \in {leases, Swept}
      BY <1>2
  <2>2. pressPc' \in [Presses -> PressPcs] /\ holding' \in BOOLEAN
      BY <1>2 DEF CleanupInv, TypeOK, PressPcs
  <2>3. TypeOK'
      BY <2>1, <2>2 DEF CleanupInv, TypeOK, Swept
  <2>4. CleanupShutsOut'
      BY <2>1, CleanupVarsUnchanged DEF CleanupInv, CleanupShutsOut, HoldsOperation, Swept
  <2> QED BY <2>1, <2>3, <2>4, CleanupVarsUnchanged DEF CleanupInv
<1> QED BY <1>1, <1>2

\* Nothing is claimed when the process starts.
LEMMA InitCleanupInv == Init => CleanupInv
<1> SUFFICES ASSUME Init PROVE CleanupInv
    OBVIOUS
<1>1. ReservedStarts = {} /\ StoppingStarts = {} /\ runs = {}
    BY DEF Init, ReservedStarts, StoppingStarts
<1>2. HoldsAreOwned
    BY <1>1, FS_EmptySet DEF Init, HoldsAreOwned
<1> QED
    BY <1>1, <1>2 DEF Init, CleanupInv, TypeOK, CallPcs, StartPcs, PressPcs,
                      OneCleanupRun, OneAdmitted, CleanupShutsOut

\* Every step of the program keeps the invariant.
LEMMA NextCleanupInv == CleanupInv /\ [Next]_vars => CleanupInv'
<1> SUFFICES ASSUME CleanupInv, [Next]_vars PROVE CleanupInv'
    OBVIOUS
<1>1. CASE UNCHANGED vars
  <2>1. UNCHANGED <<callPc, detached, leases, writing, syncInFlight, job, artworkHolds, startPc,
                    reservations, runs, starting, runId, pressPc, holding>>
      BY <1>1 DEF vars, callVars, jobVars, cleanupVars, updateVars
  <2>2. TypeOK' /\ CleanupShutsOut'
      BY <2>1 DEF CleanupInv, TypeOK, CleanupShutsOut, ReservedStarts, HoldsOperation
  <2> QED BY <2>1, <2>2, CleanupVarsUnchanged DEF CleanupInv, cleanupVars
<1> QED
    BY <1>1, CallStepKeeps, LeaseStepKeeps, PanelAndJobStepKeeps, StartStepKeeps, PressStepKeeps
    DEF Next

\* The invariant the exclusions rest on holds in every reachable state.
THEOREM CleanupInvariant == Spec => []CleanupInv
<1> QED BY InitCleanupInv, NextCleanupInv, PTL DEF Spec

\* Every variable keeps its type, the counters among them never negative.
THEOREM TypeCorrect == Spec => []TypeOK
<1>1. CleanupInv => TypeOK
    BY DEF CleanupInv
<1> QED BY <1>1, CleanupInvariant, PTL

\* While a cleanup run holds its claim no call, task, lease, library sync or
\* artwork job is under way, whatever the number of calls and starts.
THEOREM CleanupExclusion == Spec => []CleanupExcludesWork
<1>1. CleanupInv => CleanupExcludesWork
    BY DEF CleanupInv, CleanupShutsOut, CleanupExcludesWork
<1> QED BY <1>1, CleanupInvariant, PTL

\* However many starts race, at most one run holds a claim, and it is the
\* service's own run.
THEOREM SingleCleanupRun == Spec => []OneCleanupRun
<1>1. CleanupInv => OneCleanupRun
    BY DEF CleanupInv
<1> QED BY <1>1, CleanupInvariant, PTL

\* No reservation and no hold on the artwork job is ever lost or given back
\* twice.
THEOREM NoHoldIsLost == Spec => []HoldsAreOwned
<1>1. CleanupInv => HoldsAreOwned
    BY DEF CleanupInv
<1> QED BY <1>1, CleanupInvariant, PTL

-----------------------------------------------------------------------------
(* The update rule needs only the types: the one that sets it reads every   *)
(* claim in the same step, and a call asks it again once it is registered.  *)

UpdateInv == TypeOK /\ OneAttempt /\ UpdateExcludesWork

\* Where no press moves and no call enters its body, the update is as it was.
LEMMA UpdateUntouched ==
    ASSUME UpdateInv, TypeOK', UNCHANGED <<pressPc, holding>>,
           \A c \in GuardedCalls : /\ callPc'[c] = "body" => callPc[c] = "body" \/ ~holding
                                   /\ detached'[c] = "running" => detached[c] = "running" \/ ~holding,
           syncInFlight' => syncInFlight \/ ~holding
    PROVE  UpdateInv'
BY DEF UpdateInv, OneAttempt, InAttempt, UpdateExcludesWork

\* A call that named the update rule reaches its body only while it is free.
LEMMA CallStepKeepsUpdate ==
    ASSUME UpdateInv, TypeOK', NEW c \in Calls, CallStep(c)
    PROVE  UpdateInv'
<1> USE DEF vars, callVars, jobVars, cleanupVars, updateVars
<1>1. UNCHANGED <<pressPc, holding>>
    BY DEF CallStep, EnterCall, RegisterOperation, EndBody, ReleaseOperation,
           DetachTask, EndTask, ReleaseTask, StartSync
<1>2. \A d \in GuardedCalls : callPc'[d] = "body" => callPc[d] = "body" \/ ~holding
    BY ConflictAssumption
    DEF UpdateInv, TypeOK, CallStep, EnterCall, RegisterOperation, EndBody, ReleaseOperation,
        DetachTask, EndTask, ReleaseTask, StartSync
<1>3. \A d \in GuardedCalls : detached'[d] = "running" => detached[d] = "running" \/ ~holding
    BY ConflictAssumption
    DEF UpdateInv, TypeOK, UpdateExcludesWork, CallStep, EnterCall, RegisterOperation, EndBody,
        ReleaseOperation, DetachTask, EndTask, ReleaseTask, StartSync
<1>4. syncInFlight' => syncInFlight \/ ~holding
    BY DEF UpdateInv, UpdateExcludesWork, CallStep, EnterCall, RegisterOperation, EndBody,
           ReleaseOperation, DetachTask, EndTask, ReleaseTask, StartSync
<1> QED BY <1>1, <1>2, <1>3, <1>4, UpdateUntouched

\* The steps of leases, panel, jobs and cleanup start no call's body.
LEMMA OtherStepKeepsUpdate ==
    ASSUME UpdateInv, TypeOK',
           \/ \E t \in Tokens : LeaseStep(t)
           \/ RenewLease \/ RemountPanel \/ EndSync \/ StartJob \/ EndJob
           \/ \E s \in Starts : StartStep(s)
    PROVE  UpdateInv'
<1> USE DEF vars, callVars, jobVars, cleanupVars, updateVars
<1>1. CASE \E t \in Tokens : LeaseStep(t)
  <2>1. UNCHANGED <<pressPc, holding, callPc, detached, syncInFlight>>
      BY <1>1 DEF LeaseStep, LeaseInBody, LeaseInTask, LeaseInSync, LeaseInJob, PassDeadline, ReleaseLease
  <2> QED BY <2>1, UpdateUntouched
<1>2. CASE RenewLease \/ RemountPanel \/ EndSync \/ StartJob \/ EndJob
  <2>1. UNCHANGED <<pressPc, holding, callPc, detached>> /\ (syncInFlight' => syncInFlight)
      BY <1>2 DEF RenewLease, RemountPanel, EndSync, StartJob, EndJob
  <2> QED BY <2>1, UpdateUntouched
<1>3. CASE \E s \in Starts : StartStep(s)
  <2>1. UNCHANGED <<pressPc, holding, callPc, detached, syncInFlight>>
      BY <1>3 DEF StartStep, StartPrune, ReserveStart, AdmitStart, RefuseStart, BeginRun,
                  FindStale, LeaveStart, EndRun
  <2> QED BY <2>1, UpdateUntouched
<1> QED BY <1>1, <1>2, <1>3

\* A press takes the rule when nothing stands against it, and one press alone
\* can take it.
LEMMA PressStepKeepsUpdate ==
    ASSUME UpdateInv, TypeOK', NEW p \in Presses, PressStep(p)
    PROVE  UpdateInv'
<1> USE DEF callVars, jobVars, cleanupVars, UpdateInv, TypeOK, OneAttempt, InAttempt, PressPcs
<1>1. CASE ConfirmPress(p)
  <2>1. \A c \in GuardedCalls : ~HoldsOperation(c)
      BY <1>1, ConflictAssumption DEF ConfirmPress, MustWait, Claimed
  <2>2. UpdateExcludesWork'
      BY <1>1, <2>1 DEF UpdateExcludesWork, HoldsOperation, ConfirmPress, MustWait
  <2>3. OneAttempt'
      BY <1>1 DEF ConfirmPress
  <2> QED BY <2>2, <2>3
<1>2. CASE PressInstall(p) \/ RefusePress(p) \/ StartInstaller(p) \/ LoseInstaller(p)
  <2>1. /\ UNCHANGED <<callPc, detached, syncInFlight, holding>>
        /\ \A q \in Presses : InAttempt(q)' <=> InAttempt(q)
      BY <1>2 DEF PressInstall, RefusePress, StartInstaller, LoseInstaller
  <2> QED BY <2>1 DEF UpdateExcludesWork
<1>3. CASE FailAttempt(p) \/ StopProcess(p)
  <2>1. ~holding' /\ \A q \in Presses : ~InAttempt(q)'
      BY <1>3 DEF FailAttempt, StopProcess
  <2> QED BY <2>1 DEF UpdateExcludesWork
<1> QED BY <1>1, <1>2, <1>3 DEF PressStep

\* The update's invariant holds in every reachable state.
THEOREM UpdateInvariant == Spec => []UpdateInv
<1>1. Init => UpdateInv
    BY InitCleanupInv DEF Init, CleanupInv, UpdateInv, OneAttempt, InAttempt, UpdateExcludesWork
<1>2. UpdateInv /\ TypeOK' /\ [Next]_vars => UpdateInv'
  <2> SUFFICES ASSUME UpdateInv, TypeOK', [Next]_vars PROVE UpdateInv'
      OBVIOUS
  <2>1. CASE UNCHANGED vars
      BY <2>1, UpdateUntouched DEF vars, callVars, jobVars, updateVars
  <2> QED BY <2>1, CallStepKeepsUpdate, OtherStepKeepsUpdate, PressStepKeepsUpdate DEF Next
<1> QED BY <1>1, <1>2, TypeCorrect, PTL DEF Spec

\* However the readings of several presses overlap, one attempt holds the
\* update rule, and the rule is held only for it.
THEOREM SingleAttempt == Spec => []OneAttempt
<1>1. UpdateInv => OneAttempt
    BY DEF UpdateInv
<1> QED BY <1>1, UpdateInvariant, PTL

\* While the rule is held no guarded call, task or library sync is under way
\* that the installer would cut off.
THEOREM UpdateExclusion == Spec => []UpdateExcludesWork
<1>1. UpdateInv => UpdateExcludesWork
    BY DEF UpdateInv
<1> QED BY <1>1, UpdateInvariant, PTL

-----------------------------------------------------------------------------
(* The rules implement the promise. *)

RefinementInv == CleanupInv /\ UpdateInv

AttemptsOf == {p \in Presses : InAttempt(p)}

\* The work that begins in a step is the only new claim, if what any other
\* piece of work claims after the step it claimed before.
LEMMA ClaimsGrow ==
    ASSUME NEW w,
           \A c \in Calls : HoldsOperation(c)' => HoldsOperation(c) \/ w = <<"call", c>>,
           \A t \in Tokens : leases'[t] # "none" => leases[t] # "none" \/ w = <<"lease", t>>,
           syncInFlight' => syncInFlight \/ w = <<"sync">>,
           job' => job \/ w = <<"job">>
    PROVE  Claims' \subseteq Claims \cup {w}
BY DEF Claims

\* Where no piece of work gains a claim, the claims do not grow.
LEMMA ClaimsShrink ==
    ASSUME \A c \in Calls : HoldsOperation(c)' => HoldsOperation(c),
           \A t \in Tokens : leases'[t] # "none" => leases[t] # "none",
           syncInFlight' => syncInFlight,
           job' => job
    PROVE  Claims' \subseteq Claims
BY DEF Claims

\* The same of the exposed work.
LEMMA ExposedGrow ==
    ASSUME NEW w,
           \A c \in GuardedCalls :
               callPc'[c] = "body" \/ detached'[c] = "running"
                   => callPc[c] = "body" \/ detached[c] = "running" \/ w = <<"call", c>>,
           syncInFlight' => syncInFlight \/ w = <<"sync">>
    PROVE  Exposed' \subseteq Exposed \cup {w}
BY DEF Exposed

LEMMA ExposedShrink ==
    ASSUME \A c \in GuardedCalls :
               callPc'[c] = "body" \/ detached'[c] = "running"
                   => callPc[c] = "body" \/ detached[c] = "running",
           syncInFlight' => syncInFlight
    PROVE  Exposed' \subseteq Exposed
BY DEF Exposed

\* What the invariants say in the promise's terms.
LEMMA ExclusionsHold ==
    ASSUME RefinementInv
    PROVE  /\ runs # {} \/ ReservedStarts # {} => Claims = {}
           /\ Claims # {} => runs = {}
           /\ ~holding => AttemptsOf = {}
           /\ \A p \in Presses : InAttempt(p) => AttemptsOf = {p}
<1>1. runs # {} \/ ReservedStarts # {} => Claims = {}
    BY DEF RefinementInv, CleanupInv, CleanupShutsOut, Claims
<1>2. (~holding => AttemptsOf = {}) /\ \A p \in Presses : InAttempt(p) => AttemptsOf = {p}
    BY DEF RefinementInv, UpdateInv, OneAttempt, AttemptsOf
<1> QED BY <1>1, <1>2

-----------------------------------------------------------------------------

\* A step that neither begins work nor moves a run or an attempt ends work.
LEMMA StepEndsWork ==
    ASSUME \A c \in Calls : HoldsOperation(c)' => HoldsOperation(c),
           \A t \in Tokens : leases'[t] # "none" => leases[t] # "none",
           syncInFlight' => syncInFlight,
           job' => job,
           \A c \in GuardedCalls :
               callPc'[c] = "body" \/ detached'[c] = "running"
                   => callPc[c] = "body" \/ detached[c] = "running",
           runs' = runs, AttemptsOf' = AttemptsOf
    PROVE  Promise!EndWork
BY ClaimsShrink, ExposedShrink DEF Promise!EndWork, AttemptsOf

\* A call that enters its body begins work, and so does the sync it starts.
LEMMA CallStepRefines ==
    ASSUME RefinementInv, NEW c \in Calls, CallStep(c)
    PROVE  Promise!Next
<1> USE DEF vars, callVars, jobVars, cleanupVars, updateVars, RefinementInv, CleanupInv, TypeOK
<1>1. runs' = runs /\ AttemptsOf' = AttemptsOf
    BY DEF CallStep, EnterCall, RegisterOperation, EndBody, ReleaseOperation,
           DetachTask, EndTask, ReleaseTask, StartSync, AttemptsOf, InAttempt
<1>2. CASE EnterCall(c) \/ EndBody(c) \/ ReleaseOperation(c) \/ DetachTask(c) \/ EndTask(c) \/ ReleaseTask(c)
  <2>1. /\ \A d \in Calls : HoldsOperation(d)' => HoldsOperation(d)
        /\ UNCHANGED <<leases, syncInFlight, job>>
      BY <1>2 DEF EnterCall, EndBody, ReleaseOperation, DetachTask, EndTask, ReleaseTask, HoldsOperation
  <2>2. \A d \in GuardedCalls :
            callPc'[d] = "body" \/ detached'[d] = "running"
                => callPc[d] = "body" \/ detached[d] = "running"
      BY <1>2, ConflictAssumption DEF EnterCall, EndBody, ReleaseOperation, DetachTask, EndTask, ReleaseTask
  <2>3. Promise!EndWork
      BY <1>1, <2>1, <2>2, StepEndsWork
  <2> QED BY <2>3 DEF Promise!Next
<1>3. CASE RegisterOperation(c)
  <2>1. /\ leases' = Swept /\ UNCHANGED <<detached, syncInFlight, job>>
        /\ \A t \in Tokens : leases'[t] # "none" => leases[t] # "none"
      BY <1>3 DEF RegisterOperation, Swept
  <2>2. CASE CleanupRunning
    <3>1. callPc' = [callPc EXCEPT ![c] = "idle"]
        BY <1>3, <2>2 DEF RegisterOperation
    <3>2. \A d \in Calls : HoldsOperation(d)' => HoldsOperation(d)
        BY <2>1, <3>1 DEF HoldsOperation
    <3>3. \A d \in GuardedCalls :
              callPc'[d] = "body" \/ detached'[d] = "running"
                  => callPc[d] = "body" \/ detached[d] = "running"
        BY <2>1, <3>1, ConflictAssumption
    <3>4. Promise!EndWork
        BY <1>1, <2>1, <3>2, <3>3, StepEndsWork
    <3> QED BY <3>4 DEF Promise!Next
  <2>3. CASE ~CleanupRunning
    <3>0. runs = {}
        BY <2>3 DEF CleanupRunning
    <3>1. callPc' = [callPc EXCEPT ![c] = IF c \in GuardedCalls /\ holding THEN "leaving" ELSE "body"]
        BY <1>3, <2>3 DEF RegisterOperation
    <3>2. Claims' \subseteq Claims \cup {<<"call", c>>}
      <4>1. \A d \in Calls : HoldsOperation(d)' => HoldsOperation(d) \/ <<"call", c>> = <<"call", d>>
          BY <2>1, <3>1 DEF HoldsOperation
      <4> QED BY <2>1, <4>1, ClaimsGrow
    <3>3. Exposed' \subseteq Exposed \cup {<<"call", c>>}
      <4>1. \A d \in GuardedCalls :
                callPc'[d] = "body" \/ detached'[d] = "running"
                  => callPc[d] = "body" \/ detached[d] = "running" \/ <<"call", c>> = <<"call", d>>
          BY <2>1, <3>1, ConflictAssumption
      <4> QED BY <2>1, <4>1, ExposedGrow
    <3>4. <<"call", c>> \in Exposed' \ Exposed => AttemptsOf = {}
      <4> SUFFICES ASSUME holding PROVE Exposed' \subseteq Exposed
          BY ExclusionsHold
      <4>1. \A d \in GuardedCalls :
                callPc'[d] = "body" \/ detached'[d] = "running"
                  => callPc[d] = "body" \/ detached[d] = "running"
          BY <2>1, <3>1, ConflictAssumption
      <4> QED BY <2>1, <4>1, ExposedShrink
    <3>5. Promise!BeginWork(<<"call", c>>)
        BY <1>1, <3>0, <3>2, <3>3, <3>4 DEF Promise!BeginWork, AttemptsOf
    <3> QED BY <3>5 DEF Promise!Next, Work
  <2> QED BY <2>2, <2>3
<1>4. CASE StartSync(c)
  <2>1. /\ UNCHANGED <<callPc, detached, leases, job>>
        /\ callPc[c] = "body" /\ c \in GuardedCalls
      BY <1>4 DEF StartSync
  <2>2. runs = {}
      BY <2>1 DEF CleanupShutsOut, HoldsOperation
  <2>3. AttemptsOf = {}
      BY <2>1, ExclusionsHold DEF UpdateInv, UpdateExcludesWork
  <2>4. Claims' \subseteq Claims \cup {<<"sync">>}
    <3>1. \A d \in Calls : HoldsOperation(d)' => HoldsOperation(d)
        BY <2>1 DEF HoldsOperation
    <3> QED BY <2>1, <3>1, ClaimsGrow
  <2>5. Exposed' \subseteq Exposed \cup {<<"sync">>}
      BY <2>1, ExposedGrow
  <2>6. Promise!BeginWork(<<"sync">>)
      BY <1>1, <2>2, <2>3, <2>4, <2>5 DEF Promise!BeginWork, AttemptsOf
  <2> QED BY <2>6 DEF Promise!Next, Work
<1> QED BY <1>2, <1>3, <1>4 DEF CallStep

\* A lease begins work while something that holds a claim takes it; time, the
\* panel and the sweep only end leases.
LEMMA LeaseStepRefines ==
    ASSUME RefinementInv, NEW t \in Tokens, LeaseStep(t)
    PROVE  Promise!Next
<1> USE DEF jobVars, cleanupVars, updateVars, RefinementInv, CleanupInv, TypeOK
<1>1. /\ runs' = runs /\ AttemptsOf' = AttemptsOf
      /\ UNCHANGED <<callPc, detached, syncInFlight, job>>
    BY DEF LeaseStep, LeaseInBody, LeaseInTask, LeaseInSync, LeaseInJob, PassDeadline,
           ReleaseLease, AttemptsOf, InAttempt
<1>2. \A c \in Calls : HoldsOperation(c)' => HoldsOperation(c)
    BY <1>1 DEF HoldsOperation
<1>3. CASE PassDeadline(t) \/ ReleaseLease(t)
  <2>1. \A u \in Tokens : leases'[u] # "none" => leases[u] # "none"
      BY <1>3 DEF PassDeadline, ReleaseLease, Swept
  <2>2. Promise!EndWork
      BY <1>1, <1>2, <2>1, StepEndsWork
  <2> QED BY <2>2 DEF Promise!Next
<1>4. CASE (\E c \in Calls : LeaseInBody(c, t) \/ LeaseInTask(c, t)) \/ LeaseInSync(t) \/ LeaseInJob(t)
  <2>1. (\E c \in Calls : HoldsOperation(c)) \/ syncInFlight \/ job
      BY <1>4 DEF LeaseInBody, LeaseInTask, LeaseInSync, LeaseInJob, HoldsOperation
  <2>2. runs = {}
      BY <2>1 DEF CleanupShutsOut
  <2>3. \A u \in Tokens : leases'[u] # "none" => leases[u] # "none" \/ <<"lease", t>> = <<"lease", u>>
      BY <1>4 DEF LeaseInBody, LeaseInTask, LeaseInSync, LeaseInJob, AcquireLease, Swept
  <2>4. Claims' \subseteq Claims \cup {<<"lease", t>>}
      BY <1>1, <1>2, <2>3, ClaimsGrow
  <2>5. Exposed' \subseteq Exposed
      BY <1>1, ExposedShrink
  <2>6. Promise!BeginWork(<<"lease", t>>)
      BY <1>1, <2>2, <2>4, <2>5 DEF Promise!BeginWork, AttemptsOf
  <2> QED BY <2>6 DEF Promise!Next, Work
<1> QED BY <1>3, <1>4 DEF LeaseStep

\* The artwork job begins work; the panel's renewals and reloads and the ends
\* of the sync and the job end it.
LEMMA PanelAndJobStepRefines ==
    ASSUME RefinementInv, RenewLease \/ RemountPanel \/ EndSync \/ StartJob \/ EndJob
    PROVE  Promise!Next
<1> USE DEF callVars, jobVars, cleanupVars, updateVars, RefinementInv, CleanupInv, TypeOK
<1>1. /\ runs' = runs /\ AttemptsOf' = AttemptsOf
      /\ UNCHANGED <<callPc, detached>>
      /\ \A t \in Tokens : leases'[t] # "none" => leases[t] # "none"
      /\ syncInFlight' => syncInFlight
    BY DEF RenewLease, RemountPanel, EndSync, StartJob, EndJob, Swept, AttemptsOf, InAttempt
<1>2. \A c \in Calls : HoldsOperation(c)' => HoldsOperation(c)
    BY <1>1 DEF HoldsOperation
<1>3. CASE StartJob
  <2>1. runs = {}
      BY <1>3 DEF StartJob, CleanupRunning
  <2>2. Claims' \subseteq Claims \cup {<<"job">>}
      BY <1>1, <1>2, ClaimsGrow
  <2>3. Exposed' \subseteq Exposed
      BY <1>1, ExposedShrink
  <2>4. Promise!BeginWork(<<"job">>)
      BY <1>1, <2>1, <2>2, <2>3 DEF Promise!BeginWork, AttemptsOf
  <2> QED BY <2>4 DEF Promise!Next, Work
<1>4. CASE ~StartJob
  <2>1. job' => job
      BY <1>4 DEF RenewLease, RemountPanel, EndSync, EndJob
  <2>2. Promise!EndWork
      BY <1>1, <1>2, <2>1, StepEndsWork
  <2> QED BY <2>2 DEF Promise!Next
<1> QED BY <1>3, <1>4

\* A run begins under a reservation that shut everything out; every other step
\* of a start at most sweeps leases.
LEMMA StartStepRefines ==
    ASSUME RefinementInv, NEW s \in Starts, StartStep(s)
    PROVE  Promise!Next
<1> USE DEF callVars, jobVars, updateVars, RefinementInv, CleanupInv, TypeOK
<1>1. /\ AttemptsOf' = AttemptsOf
      /\ UNCHANGED <<callPc, detached, syncInFlight, job>>
      /\ \A t \in Tokens : leases'[t] # "none" => leases[t] # "none"
    BY DEF StartStep, StartPrune, ReserveStart, AdmitStart, RefuseStart, BeginRun, FindStale,
           LeaveStart, EndRun, Swept, AttemptsOf, InAttempt
<1>2. \A c \in Calls : HoldsOperation(c)' => HoldsOperation(c)
    BY <1>1 DEF HoldsOperation
<1>3. Claims' \subseteq Claims /\ Exposed' \subseteq Exposed
    BY <1>1, <1>2, ClaimsShrink, ExposedShrink
<1>4. CASE BeginRun(s)
  <2>1. s \in ReservedStarts /\ runId = NoRun /\ runs' = runs \cup {s} /\ UNCHANGED leases
      BY <1>4 DEF BeginRun, ReservedStarts, OneAdmitted
  <2>2. runs = {} /\ Claims = {}
      BY <2>1, ExclusionsHold DEF OneCleanupRun
  <2>3. Exposed' = Exposed
      BY <1>1 DEF Exposed
  <2>4. Promise!BeginCleanup(s)
      BY <1>1, <1>3, <2>1, <2>2, <2>3 DEF Promise!BeginCleanup, AttemptsOf
  <2> QED BY <2>4 DEF Promise!Next
<1>5. CASE EndRun(s)
  <2>1. runs' = {}
      BY <1>5, ConflictAssumption DEF EndRun, OneCleanupRun
  <2>2. UNCHANGED leases
      BY <1>5 DEF EndRun
  <2>3. Claims' = Claims /\ Exposed' = Exposed
      BY <1>1, <2>2 DEF Claims, Exposed, HoldsOperation
  <2>4. Promise!EndCleanup
      BY <1>1, <2>1, <2>3 DEF Promise!EndCleanup, AttemptsOf
  <2> QED BY <2>4 DEF Promise!Next
<1>6. CASE ~BeginRun(s) /\ ~EndRun(s)
  <2>1. runs' = runs
      BY <1>6 DEF StartStep, StartPrune, ReserveStart, AdmitStart, RefuseStart, FindStale, LeaveStart
  <2>2. Promise!EndWork
      BY <1>1, <1>2, <2>1, StepEndsWork
  <2> QED BY <2>2 DEF Promise!Next
<1> QED BY <1>4, <1>5, <1>6

\* A press that is confirmed found nothing exposed, no run and no attempt.
LEMMA PressStepRefines ==
    ASSUME RefinementInv, NEW p \in Presses, PressStep(p)
    PROVE  Promise!Next
<1> USE DEF callVars, jobVars, cleanupVars, RefinementInv, CleanupInv, TypeOK, PressPcs
<1>1. CASE ConfirmPress(p)
  <2>1. /\ UNCHANGED <<callPc, detached, syncInFlight, job, runs>>
        /\ \A t \in Tokens : leases'[t] # "none" => leases[t] # "none"
      BY <1>1 DEF ConfirmPress, Swept
  <2>2. Claims' \subseteq Claims
    <3>1. \A c \in Calls : HoldsOperation(c)' => HoldsOperation(c)
        BY <2>1 DEF HoldsOperation
    <3> QED BY <2>1, <3>1, ClaimsShrink
  <2>3. Exposed = {} /\ Exposed' = Exposed
    <3>1. \A c \in GuardedCalls : ~HoldsOperation(c)
        BY <1>1, ConflictAssumption DEF ConfirmPress, MustWait, Claimed
    <3>2. Exposed = {}
        BY <1>1, <3>1 DEF ConfirmPress, MustWait, HoldsOperation, Exposed
    <3> QED BY <2>1, <3>2 DEF Exposed
  <2>4. runs = {}
      BY <1>1 DEF ConfirmPress, MustWait, IsActive, OneCleanupRun
  <2>5. AttemptsOf = {}
      BY <1>1, ExclusionsHold DEF ConfirmPress
  <2>6. AttemptsOf' = {p}
      BY <1>1, <2>5 DEF ConfirmPress, AttemptsOf, InAttempt
  <2>7. Promise!BeginAttempt(p)
      BY <2>1, <2>2, <2>3, <2>4, <2>5, <2>6 DEF Promise!BeginAttempt, AttemptsOf
  <2> QED BY <2>7 DEF Promise!Next
<1>2. CASE FailAttempt(p)
  <2>1. UNCHANGED <<callPc, detached, leases, syncInFlight, job, runs>> /\ InAttempt(p)
      BY <1>2 DEF FailAttempt, InAttempt
  <2>2. Claims' = Claims /\ Exposed' = Exposed
      BY <2>1 DEF Claims, Exposed, HoldsOperation
  <2>3. AttemptsOf = {p}
      BY <2>1, ExclusionsHold
  <2>4. AttemptsOf' = {}
      BY <1>2, <2>3 DEF FailAttempt, AttemptsOf, InAttempt
  <2>5. Promise!EndAttempt
      BY <2>1, <2>2, <2>4 DEF Promise!EndAttempt, AttemptsOf
  <2> QED BY <2>5 DEF Promise!Next
<1>3. CASE StopProcess(p)
  <2>1. AttemptsOf # {}
      BY <1>3 DEF StopProcess, AttemptsOf, InAttempt
  <2>2. Claims' = {} /\ Exposed' = {} /\ runs' = {} /\ AttemptsOf' = {}
      BY <1>3, ConflictAssumption
      DEF StopProcess, Claims, Exposed, HoldsOperation, AttemptsOf, InAttempt
  <2>3. Promise!Restart
      BY <2>1, <2>2 DEF Promise!Restart, AttemptsOf
  <2> QED BY <2>3 DEF Promise!Next
<1>4. CASE PressInstall(p) \/ RefusePress(p) \/ StartInstaller(p) \/ LoseInstaller(p)
  <2>1. /\ UNCHANGED <<callPc, detached, syncInFlight, job, runs>>
        /\ \A t \in Tokens : leases'[t] # "none" => leases[t] # "none"
        /\ AttemptsOf' = AttemptsOf
      BY <1>4 DEF PressInstall, RefusePress, StartInstaller, LoseInstaller, Swept, AttemptsOf, InAttempt
  <2>2. \A c \in Calls : HoldsOperation(c)' => HoldsOperation(c)
      BY <2>1 DEF HoldsOperation
  <2>3. Promise!EndWork
      BY <2>1, <2>2, StepEndsWork
  <2> QED BY <2>3 DEF Promise!Next
<1> QED BY <1>1, <1>2, <1>3, <1>4 DEF PressStep

-----------------------------------------------------------------------------

\* Every step of the program is a step of the promise or leaves it as it is.
LEMMA NextRefines == RefinementInv /\ [Next]_vars => [Promise!Next]_(Promise!promiseVars)
<1> SUFFICES ASSUME RefinementInv, [Next]_vars
             PROVE  [Promise!Next]_(Promise!promiseVars)
    OBVIOUS
<1>1. CASE UNCHANGED vars
  <2>1. UNCHANGED <<Claims, Exposed, runs, AttemptsOf>>
      BY <1>1 DEF vars, callVars, jobVars, cleanupVars, updateVars, Claims, Exposed,
                  HoldsOperation, AttemptsOf, InAttempt
  <2> QED BY <2>1 DEF Promise!promiseVars, AttemptsOf
<1> QED
    BY <1>1, CallStepRefines, LeaseStepRefines, PanelAndJobStepRefines, StartStepRefines,
       PressStepRefines DEF Next

\* At the start nothing is under way.
LEMMA InitRefines == Init => Promise!Init
<1> SUFFICES ASSUME Init PROVE Promise!Init
    OBVIOUS
<1>1. Claims = {}
    BY DEF Init, Claims, HoldsOperation
<1>2. Exposed = {}
    BY ConflictAssumption DEF Init, Exposed
<1>3. {p \in Presses : InAttempt(p)} = {}
    BY DEF Init, InAttempt
<1> QED BY <1>1, <1>2, <1>3 DEF Init, Promise!Init

\* The endpoints, the leases, the sync, the artwork job, the cleanup and the
\* update keep the promise of ConflictPromise, whatever their number.
THEOREM RulesKeepThePromise == Spec => PromiseKept
<1>1. Init => Promise!Init
    BY InitRefines
<1>2. RefinementInv /\ [Next]_vars => [Promise!Next]_(Promise!promiseVars)
    BY NextRefines
<1>3. CleanupInv /\ UpdateInv => RefinementInv
    BY DEF RefinementInv
<1> QED BY <1>1, <1>2, <1>3, CleanupInvariant, UpdateInvariant, PTL DEF Spec, PromiseKept, Promise!Spec

=============================================================================
