--------------------------- MODULE ConflictRules ---------------------------
(***************************************************************************)
(* The conflict rules of the backend: which work may run beside a          *)
(* removed-game cleanup and beside an update being installed.              *)
(*                                                                         *)
(* Four parts of the program share one record of claims, the prune         *)
(* conflicts (lib/prune_conflicts.py):                                     *)
(*   - the endpoints, which hold an operation while they run and may leave *)
(*     a lease (Steam writes of the panel) or a detached task behind       *)
(*     (lib/conflict_rules.py);                                            *)
(*   - the library sync and the shortcut artwork job, which take leases    *)
(*     without asking any rule;                                            *)
(*   - the removed-game cleanup, which reserves its start, validates it    *)
(*     and holds a run claim until it ends (services/prune/service.py);    *)
(*   - the update, whose press reads every claim and then holds the update *)
(*     rule (services/update_install.py).                                  *)
(*                                                                         *)
(* The event loop runs one of them at a time; a step below is what happens *)
(* between two awaits.  The prune conflicts' lock is held across no await, *)
(* so a critical section is one step; that a caller may be suspended       *)
(* before it, as the comments in the code allow for, is kept.              *)
(***************************************************************************)
EXTENDS Naturals, FiniteSets

CONSTANTS
    Calls,          \* calls of endpoints that name the prune rule
    GuardedCalls,   \* those of them that name the update rule too
    ReadOnlyCalls,  \* those whose claim makes no press wait
    Tokens,         \* lease tokens
    Starts,         \* calls of start_prune; a run is named by its start
    Presses,        \* calls of install_update
    NoRun           \* _run_id is None

ASSUME ConflictAssumption ==
    /\ GuardedCalls \subseteq Calls
    /\ ReadOnlyCalls \subseteq Calls \ GuardedCalls
    /\ IsFiniteSet(Starts)
    /\ NoRun \notin Starts

VARIABLES
    callPc,         \* where each endpoint call is
    detached,       \* the detached task a call left, and its own operation
    leases,         \* _leases: not there, before its deadline, past it
    writing,        \* tokens under which the panel is writing to Steam
    syncInFlight,   \* a library sync runs or is cancelling
    job,            \* whether the shortcut artwork job has a run under way
    artworkHolds,   \* ShortcutArtworkJob._cleanup_holds
    startPc,        \* where each start_prune call is
    reservations,   \* PruneConflicts._reservations
    runs,           \* PruneConflicts._runs
    starting,       \* PruneService._starting
    runId,          \* PruneService._run_id
    pressPc,        \* where each install_update call and its attempt are
    holding         \* UpdateInstallService._holding

callVars == <<callPc, detached, leases, writing>>
jobVars == <<syncInFlight, job>>
cleanupVars == <<artworkHolds, startPc, reservations, runs, starting, runId>>
updateVars == <<pressPc, holding>>
vars == <<callVars, jobVars, cleanupVars, updateVars>>

CallPcs == {"idle", "entered", "body", "leaving"}
StartPcs == {"idle", "stopping", "reserved", "validating", "began", "refused"}
PressPcs == {"idle", "reading", "attempt", "installer", "stuck"}

TypeOK ==
    /\ callPc \in [Calls -> CallPcs]
    /\ detached \in [Calls -> {"none", "running", "ended"}]
    /\ leases \in [Tokens -> {"none", "live", "due"}]
    /\ writing \subseteq Tokens
    /\ syncInFlight \in BOOLEAN
    /\ job \in BOOLEAN
    /\ artworkHolds \in Nat
    /\ startPc \in [Starts -> StartPcs]
    /\ reservations \in Nat
    /\ runs \subseteq Starts
    /\ starting \in BOOLEAN
    /\ runId \in Starts \cup {NoRun}
    /\ pressPc \in [Presses -> PressPcs]
    /\ holding \in BOOLEAN

Init ==
    /\ callPc = [c \in Calls |-> "idle"]
    /\ detached = [c \in Calls |-> "none"]
    /\ leases = [t \in Tokens |-> "none"]
    /\ writing = {}
    /\ syncInFlight = FALSE
    /\ job = FALSE
    /\ artworkHolds = 0
    /\ startPc = [s \in Starts |-> "idle"]
    /\ reservations = 0
    /\ runs = {}
    /\ starting = FALSE
    /\ runId = NoRun
    /\ pressPc = [p \in Presses |-> "idle"]
    /\ holding = FALSE

-----------------------------------------------------------------------------
(* What the prune conflicts answer. *)

\* An operation is held from its registration to its release.
HoldsOperation(c) == callPc[c] \in {"body", "leaving"} \/ detached[c] # "none"

\* Mutant: only a registered run counts, a start's reservation does not.
CleanupRunning_RunsOnly == runs # {}

\* cleanup_running: a reservation or a registered run is held.
CleanupRunning == reservations > 0 \/ runs # {}

\* Mutant: a start that is still validating does not count.
IsActive_RunOnly == runId # NoRun

\* PruneService.is_active: a start is validating or a run is in progress.
IsActive == starting \/ runId # NoRun

\* _expire_leases: what is left of the leases once those past their deadline
\* are dropped.  Every call that takes the lock sweeps first.
Swept == [t \in Tokens |-> IF leases[t] = "due" THEN "none" ELSE leases[t]]

\* held_claims: an operation of one of the calls or, once swept, a lease is held.
Claimed(calls) ==
    \/ \E c \in calls : HoldsOperation(c)
    \/ \E t \in Tokens : Swept[t] # "none"

\* acquire_lease: a fresh token, with the panel's Steam writes under it.
AcquireLease(t) ==
    /\ leases[t] = "none" /\ t \notin writing
    /\ leases' = [Swept EXCEPT ![t] = "live"]
    /\ writing' = writing \cup {t}

-----------------------------------------------------------------------------
(* The endpoints: ConflictRuleSet.hold with prune=True. *)

\* The rules are asked at the entry; a refused call changes nothing.
EnterCall(c) ==
    /\ callPc[c] = "idle"
    /\ c \in GuardedCalls => ~holding
    /\ callPc' = [callPc EXCEPT ![c] = "entered"]
    /\ UNCHANGED <<detached, leases, writing, jobVars, cleanupVars, updateVars>>

\* Mutant: the update rule is not asked again after the registration.
RegisterOperation_AskedOnce(c) ==
    /\ callPc[c] = "entered"
    /\ leases' = Swept
    /\ callPc' = [callPc EXCEPT ![c] = IF CleanupRunning THEN "idle" ELSE "body"]
    /\ UNCHANGED <<detached, writing, jobVars, cleanupVars, updateVars>>

\* hold_operation refuses while a cleanup runs and registers otherwise; the
\* update rule is then asked once more, and a call it refuses gives its
\* registration back without running its body.
RegisterOperation(c) ==
    /\ callPc[c] = "entered"
    /\ leases' = Swept
    /\ callPc' = [callPc EXCEPT ![c] =
                    IF CleanupRunning THEN "idle"
                    ELSE IF c \in GuardedCalls /\ holding THEN "leaving"
                    ELSE "body"]
    /\ UNCHANGED <<detached, writing, jobVars, cleanupVars, updateVars>>

\* The body ends, however it ends.
EndBody(c) ==
    /\ callPc[c] = "body"
    /\ callPc' = [callPc EXCEPT ![c] = "leaving"]
    /\ UNCHANGED <<detached, leases, writing, jobVars, cleanupVars, updateVars>>

ReleaseOperation(c) ==
    /\ callPc[c] = "leaving"
    /\ callPc' = [callPc EXCEPT ![c] = "idle"]
    /\ UNCHANGED <<detached, leases, writing, jobVars, cleanupVars, updateVars>>

\* The body takes a lease for Steam writes that follow its answer.
LeaseInBody(c, t) ==
    /\ callPc[c] = "body"
    /\ AcquireLease(t)
    /\ UNCHANGED <<callPc, detached, jobVars, cleanupVars, updateVars>>

\* hold_until_done, called inside the body that started the task.
DetachTask(c) ==
    /\ callPc[c] = "body" /\ detached[c] = "none"
    /\ detached' = [detached EXCEPT ![c] = "running"]
    /\ UNCHANGED <<callPc, leases, writing, jobVars, cleanupVars, updateVars>>

\* A download takes its download_complete lease while its operation is held.
LeaseInTask(c, t) ==
    /\ detached[c] = "running"
    /\ AcquireLease(t)
    /\ UNCHANGED <<callPc, detached, jobVars, cleanupVars, updateVars>>

\* The task ends; the release its done callback spawns runs later.
EndTask(c) ==
    /\ detached[c] = "running"
    /\ detached' = [detached EXCEPT ![c] = "ended"]
    /\ UNCHANGED <<callPc, leases, writing, jobVars, cleanupVars, updateVars>>

ReleaseTask(c) ==
    /\ detached[c] = "ended"
    /\ detached' = [detached EXCEPT ![c] = "none"]
    /\ UNCHANGED <<callPc, leases, writing, jobVars, cleanupVars, updateVars>>

-----------------------------------------------------------------------------
(* The leases: the panel renews and releases them, time runs them out, and *)
(* a panel that mounts disowns those an earlier one left.                  *)

PassDeadline(t) ==
    /\ leases[t] = "live"
    /\ leases' = [leases EXCEPT ![t] = "due"]
    /\ UNCHANGED <<callPc, detached, writing, jobVars, cleanupVars, updateVars>>

\* renew_lease sweeps first, so it never revives a lease past its deadline.
\* Deadlines being abstract, the sweep is all it changes.
RenewLease ==
    /\ leases' = Swept
    /\ UNCHANGED <<callPc, detached, writing, jobVars, cleanupVars, updateVars>>

ReleaseLease(t) ==
    /\ t \in writing
    /\ writing' = writing \ {t}
    /\ leases' = [Swept EXCEPT ![t] = "none"]
    /\ UNCHANGED <<callPc, detached, jobVars, cleanupVars, updateVars>>

\* The panel's JS context is gone and a new one mounts (release_orphaned_leases).
RemountPanel ==
    /\ writing' = {}
    /\ leases' = [t \in Tokens |-> "none"]
    /\ UNCHANGED <<callPc, detached, jobVars, cleanupVars, updateVars>>

-----------------------------------------------------------------------------
(* The library sync and the shortcut artwork job. *)

\* A call of the sync endpoints starts a run from its body.
StartSync(c) ==
    /\ callPc[c] = "body" /\ c \in GuardedCalls
    /\ ~syncInFlight
    /\ syncInFlight' = TRUE
    /\ UNCHANGED <<callVars, job, cleanupVars, updateVars>>

\* sync_complete and sync_stale go out under a lease before the run ends.
LeaseInSync(t) ==
    /\ syncInFlight
    /\ AcquireLease(t)
    /\ UNCHANGED <<callPc, detached, jobVars, cleanupVars, updateVars>>

EndSync ==
    /\ syncInFlight
    /\ syncInFlight' = FALSE
    /\ UNCHANGED <<callVars, job, cleanupVars, updateVars>>

\* Mutant: a cleanup that is stopping the job does not keep it stopped.
StartJob_NotHeld ==
    /\ ~job
    /\ ~syncInFlight /\ ~CleanupRunning
    /\ job' = TRUE
    /\ UNCHANGED <<callVars, syncInFlight, cleanupVars, updateVars>>

\* request_run starts nothing while a cleanup holds the job, and a run yields
\* to a sync, a cleanup or a shortcut removal at its start.
StartJob ==
    /\ ~job /\ artworkHolds = 0
    /\ ~syncInFlight /\ ~CleanupRunning
    /\ job' = TRUE
    /\ UNCHANGED <<callVars, syncInFlight, cleanupVars, updateVars>>

LeaseInJob(t) ==
    /\ job
    /\ AcquireLease(t)
    /\ UNCHANGED <<callPc, detached, jobVars, cleanupVars, updateVars>>

EndJob ==
    /\ job
    /\ job' = FALSE
    /\ UNCHANGED <<callVars, syncInFlight, cleanupVars, updateVars>>

-----------------------------------------------------------------------------
(* The removed-game cleanup. *)

\* resume_after_cleanup: one hold on the artwork job fewer, never below none.
Resumed(holds) == IF holds = 0 THEN 0 ELSE holds - 1

\* start_prune begins with stop_for_cleanup, which returns once the job ended.
StartPrune(s) ==
    /\ startPc[s] = "idle" /\ s \notin runs
    /\ startPc' = [startPc EXCEPT ![s] = "stopping"]
    /\ artworkHolds' = artworkHolds + 1
    /\ UNCHANGED <<callVars, jobVars, reservations, runs, starting, runId, updateVars>>

\* hold_start: the reservation is refused while an operation or a lease is
\* held; a rule that holds gives it back.
ReserveStart(s) ==
    /\ startPc[s] = "stopping" /\ ~job
    /\ leases' = Swept
    /\ IF Claimed(Calls) \/ holding \/ syncInFlight
         THEN /\ startPc' = [startPc EXCEPT ![s] = "idle"]
              /\ artworkHolds' = Resumed(artworkHolds)
              /\ UNCHANGED reservations
         ELSE /\ startPc' = [startPc EXCEPT ![s] = "reserved"]
              /\ reservations' = reservations + 1
              /\ UNCHANGED artworkHolds
    /\ UNCHANGED <<callPc, detached, writing, jobVars, runs, starting, runId, updateVars>>

\* The folders were asked off the loop; then, under the admission lock, a
\* second start and a stale preview are refused.
AdmitStart(s) ==
    /\ startPc[s] = "reserved"
    /\ ~IsActive
    /\ startPc' = [startPc EXCEPT ![s] = "validating"]
    /\ starting' = TRUE
    /\ UNCHANGED <<callVars, jobVars, artworkHolds, reservations, runs, runId, updateVars>>

\* Mutant: the reservation is given back by the refusal and again by its block.
RefuseStart_Twice(s) ==
    /\ startPc[s] = "reserved"
    /\ startPc' = [startPc EXCEPT ![s] = "idle"]
    /\ reservations' = reservations - 2
    /\ artworkHolds' = Resumed(artworkHolds)
    /\ UNCHANGED <<callVars, jobVars, runs, starting, runId, updateVars>>

\* A refusal before _starting is set leaves the reservation's block at once.
RefuseStart(s) ==
    /\ startPc[s] = "reserved"
    /\ startPc' = [startPc EXCEPT ![s] = "idle"]
    /\ reservations' = reservations - 1
    /\ artworkHolds' = Resumed(artworkHolds)
    /\ UNCHANGED <<callVars, jobVars, runs, starting, runId, updateVars>>

\* The rebuilt preview matches: the run claim is registered and its task spawned.
BeginRun(s) ==
    /\ startPc[s] = "validating"
    /\ startPc' = [startPc EXCEPT ![s] = "began"]
    /\ runId' = s
    /\ runs' = runs \cup {s}
    /\ UNCHANGED <<callVars, jobVars, artworkHolds, reservations, starting, updateVars>>

\* The rebuilt preview differs, or the service is stopping.
FindStale(s) ==
    /\ startPc[s] = "validating"
    /\ startPc' = [startPc EXCEPT ![s] = "refused"]
    /\ UNCHANGED <<callVars, jobVars, artworkHolds, reservations, runs, starting, runId, updateVars>>

\* Mutant: the artwork job is resumed by the start even though a run began.
LeaveStart_AlwaysResumes(s) ==
    /\ startPc[s] \in {"began", "refused"}
    /\ startPc' = [startPc EXCEPT ![s] = "idle"]
    /\ starting' = FALSE
    /\ reservations' = reservations - 1
    /\ artworkHolds' = Resumed(artworkHolds)
    /\ UNCHANGED <<callVars, jobVars, runs, runId, updateVars>>

\* The start's finally blocks: _starting is cleared, the reservation given
\* back, and the artwork job resumed unless a run began.
LeaveStart(s) ==
    /\ startPc[s] \in {"began", "refused"}
    /\ startPc' = [startPc EXCEPT ![s] = "idle"]
    /\ starting' = FALSE
    /\ reservations' = reservations - 1
    /\ artworkHolds' = IF startPc[s] = "began" THEN artworkHolds ELSE Resumed(artworkHolds)
    /\ UNCHANGED <<callVars, jobVars, runs, runId, updateVars>>

\* The run ends, or its task was cancelled before it was ever scheduled.
EndRun(s) ==
    /\ runId = s
    /\ runs' = runs \ {s}
    /\ runId' = NoRun
    /\ artworkHolds' = Resumed(artworkHolds)
    /\ UNCHANGED <<callVars, jobVars, startPc, reservations, starting, updateVars>>

-----------------------------------------------------------------------------
(* The update. *)

\* install_update is refused while an attempt holds the rule; otherwise it
\* awaits the release, Steam's running apps and the reload limit.
PressInstall(p) ==
    /\ pressPc[p] = "idle" /\ ~holding
    /\ pressPc' = [pressPc EXCEPT ![p] = "reading"]
    /\ UNCHANGED <<callVars, jobVars, cleanupVars, holding>>

\* What the press waits for, read in the loop turn that sets the rule.
MustWait == Claimed(Calls \ ReadOnlyCalls) \/ syncInFlight \/ IsActive

\* Mutant: the rule is not asked again after the readings.
ConfirmPress_AskedOnce(p) ==
    /\ pressPc[p] = "reading"
    /\ ~MustWait
    /\ leases' = Swept
    /\ holding' = TRUE
    /\ pressPc' = [pressPc EXCEPT ![p] = "attempt"]
    /\ UNCHANGED <<callPc, detached, writing, jobVars, cleanupVars>>

ConfirmPress(p) ==
    /\ pressPc[p] = "reading"
    /\ ~holding /\ ~MustWait
    /\ leases' = Swept
    /\ holding' = TRUE
    /\ pressPc' = [pressPc EXCEPT ![p] = "attempt"]
    /\ UNCHANGED <<callPc, detached, writing, jobVars, cleanupVars>>

RefusePress(p) ==
    /\ pressPc[p] = "reading"
    /\ leases' \in {leases, Swept}
    /\ pressPc' = [pressPc EXCEPT ![p] = "idle"]
    /\ UNCHANGED <<callPc, detached, writing, jobVars, cleanupVars, holding>>

\* Downloaded, verified and no game running: the installer is asked to start.
StartInstaller(p) ==
    /\ pressPc[p] = "attempt"
    /\ pressPc' = [pressPc EXCEPT ![p] = "installer"]
    /\ UNCHANGED <<callVars, jobVars, cleanupVars, holding>>

\* _fail gives the rule back: a step of the attempt failed, or the unit ended
\* without stopping this process.
FailAttempt(p) ==
    /\ pressPc[p] \in {"attempt", "installer"}
    /\ pressPc' = [pressPc EXCEPT ![p] = "idle"]
    /\ holding' = FALSE
    /\ UNCHANGED <<callVars, jobVars, cleanupVars>>

\* An unforeseen error once the installer may run ends the attempt and keeps
\* the rule.
LoseInstaller(p) ==
    /\ pressPc[p] = "installer"
    /\ pressPc' = [pressPc EXCEPT ![p] = "stuck"]
    /\ UNCHANGED <<callVars, jobVars, cleanupVars, holding>>

\* The installer stops this process; the next one starts with no claim.
StopProcess(p) ==
    /\ pressPc[p] \in {"installer", "stuck"}
    /\ callPc' = [c \in Calls |-> "idle"]
    /\ detached' = [c \in Calls |-> "none"]
    /\ leases' = [t \in Tokens |-> "none"]
    /\ writing' = {}
    /\ syncInFlight' = FALSE
    /\ job' = FALSE
    /\ artworkHolds' = 0
    /\ startPc' = [s \in Starts |-> "idle"]
    /\ reservations' = 0
    /\ runs' = {}
    /\ starting' = FALSE
    /\ runId' = NoRun
    /\ pressPc' = [q \in Presses |-> "idle"]
    /\ holding' = FALSE

-----------------------------------------------------------------------------

CallStep(c) ==
    \/ EnterCall(c) \/ RegisterOperation(c) \/ EndBody(c) \/ ReleaseOperation(c)
    \/ DetachTask(c) \/ EndTask(c) \/ ReleaseTask(c) \/ StartSync(c)

LeaseStep(t) ==
    \/ \E c \in Calls : LeaseInBody(c, t) \/ LeaseInTask(c, t)
    \/ LeaseInSync(t) \/ LeaseInJob(t)
    \/ PassDeadline(t) \/ ReleaseLease(t)

StartStep(s) ==
    \/ StartPrune(s) \/ ReserveStart(s) \/ AdmitStart(s) \/ RefuseStart(s)
    \/ BeginRun(s) \/ FindStale(s) \/ LeaveStart(s) \/ EndRun(s)

PressStep(p) ==
    \/ PressInstall(p) \/ ConfirmPress(p) \/ RefusePress(p) \/ StartInstaller(p)
    \/ FailAttempt(p) \/ LoseInstaller(p) \/ StopProcess(p)

Next ==
    \/ \E c \in Calls : CallStep(c)
    \/ \E t \in Tokens : LeaseStep(t)
    \/ RenewLease \/ RemountPanel
    \/ EndSync \/ StartJob \/ EndJob
    \/ \E s \in Starts : StartStep(s)
    \/ \E p \in Presses : PressStep(p)

Spec == Init /\ [][Next]_vars

\* What the event loop guarantees: a coroutine that was resumed goes on to its
\* end.  Nothing makes a call be pressed, a lease be taken or a panel release it.
Fairness ==
    /\ \A s \in Starts :
         /\ WF_vars(ReserveStart(s))
         /\ WF_vars(AdmitStart(s) \/ RefuseStart(s))
         /\ WF_vars(BeginRun(s) \/ FindStale(s))
         /\ WF_vars(LeaveStart(s))
         /\ WF_vars(EndRun(s))
    /\ WF_vars(EndJob)

FairSpec == Spec /\ Fairness

-----------------------------------------------------------------------------
(* What the rules are for. *)

ReservedStarts == {s \in Starts : startPc[s] \in {"reserved", "validating", "began", "refused"}}
StoppingStarts == {s \in Starts : startPc[s] \in {"stopping", "reserved", "validating", "refused"}}
InAttempt(p) == pressPc[p] \in {"attempt", "installer", "stuck"}

\* While a cleanup run holds its claim, no endpoint's body and no task one
\* left runs, no lease stands, no library sync and no artwork job is under
\* way: the reservation shut every one of them out and the claim took over
\* from it without a gap (start_prune, hold_start).
CleanupExcludesWork ==
    runs # {} =>
        /\ \A c \in Calls : ~HoldsOperation(c)
        /\ \A t \in Tokens : leases[t] = "none"
        /\ ~syncInFlight
        /\ ~job

\* A reservation does not refuse another one, so two starts can be validating
\* at the same time; still at most one run begins, and the run claims are
\* exactly the service's own run (PruneService._start_prune).
OneCleanupRun == runs = {runId} \ {NoRun}

\* However starts are refused, overlap or end, every reservation and every
\* hold on the artwork job is given back: the counters equal the starts and
\* runs that still own one (start_prune's finally blocks, EndRun).
HoldsAreOwned ==
    /\ reservations = Cardinality(ReservedStarts)
    /\ artworkHolds = Cardinality(StoppingStarts) + Cardinality(runs)

\* While an attempt holds the update rule, no body that named the rule runs,
\* nor a task one left, nor a library sync: the installer would stop the
\* process under it (ConflictRuleSet.hold, install_update).
UpdateExcludesWork ==
    holding =>
        /\ \A c \in GuardedCalls : callPc[c] # "body" /\ detached[c] # "running"
        /\ ~syncInFlight

\* Two presses whose readings overlap start one attempt, and the rule is held
\* exactly while there is one (install_update, _fail).
OneAttempt ==
    /\ \A p, q \in Presses : InAttempt(p) /\ InAttempt(q) => p = q
    /\ holding <=> \E p \in Presses : InAttempt(p)

\* The pieces of work: the claims a cleanup has to wait for, and the work the
\* restart of an update would cut short.
Work == {<<"call", c>> : c \in Calls} \cup {<<"lease", t>> : t \in Tokens}
          \cup {<<"sync">>, <<"job">>}

Claims ==
    {<<"call", c>> : c \in {d \in Calls : HoldsOperation(d)}}
      \cup {<<"lease", t>> : t \in {u \in Tokens : leases[u] # "none"}}
      \cup {w \in {<<"sync">>} : syncInFlight}
      \cup {w \in {<<"job">>} : job}

Exposed ==
    {<<"call", c>> : c \in {d \in GuardedCalls : callPc[d] = "body" \/ detached[d] = "running"}}
      \cup {w \in {<<"sync">>} : syncInFlight}

Promise == INSTANCE ConflictPromise WITH
    Cleanups <- Starts, Attempts <- Presses,
    claims <- Claims, exposed <- Exposed, cleanups <- runs,
    attempts <- {p \in Presses : InAttempt(p)}

\* The four parts, each asking the claims at its own moment and suspended in
\* between, behave as if work, cleanups and attempts were begun in one step
\* that sees everything under way: no claim and no run beside a run, no exposed
\* work and no second attempt beside an attempt, and no attempt beside a run
\* (ConflictRuleSet.hold and hold_start, start_prune, install_update).
PromiseKept == Promise!Spec

\* An update being installed and a cleanup run exclude each other: the wait
\* reasons of a press list a cleanup, and a cleanup's start asks the update
\* rule (GLOSSARY.md, "Install attempt / wait reason").
UpdateExcludesCleanup == ~(holding /\ runs # {})

\* A press of Start cleanup is answered: the artwork job it stops first cannot
\* start again under it (ShortcutArtworkJob.stop_for_cleanup).
StartIsAnswered ==
    \A s \in Starts : startPc[s] = "stopping" ~> startPc[s] # "stopping"

=============================================================================
