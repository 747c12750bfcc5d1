----------------------------- MODULE PruneAction -----------------------------
(***************************************************************************)
(* One run of the removed-game cleanup and the Steam actions it asks the   *)
(* panel for (services/prune, frontend pruneActions.ts).  The run is an    *)
(* asyncio task that works through games whose every version is gone from  *)
(* RomM.  It cannot touch Steam itself: it publishes a token, the panel    *)
(* claims it, removes the shortcut and reports; each of those can be late, *)
(* lost, repeated, or cut off by a cancellation of the run.                *)
(*                                                                         *)
(* Every value of pc is an await of the run, so a cancellation can arrive  *)
(* at each.  Wordings, progress frames and the contents of a bundle are    *)
(* left out; so are games without a shortcut and versions removed singly.  *)
(***************************************************************************)
EXTENDS Naturals, FiniteSets

CONSTANTS
    Games,         \* games the run works through, 1 .. Games in order
    MaxChanges,    \* bound: changes from outside (user in Steam, RomM, row)
    MaxDeaths,     \* bound: how often the panel's JavaScript is torn down
    MaxResends,    \* bound: requests the panel repeats
    Shutdowns      \* 0 or 1: whether the host may shut down

ASSUME GamesAssumption == Games \in Nat \ {0}
ASSUME BoundsAssumption == MaxChanges \in Nat /\ MaxDeaths \in Nat /\ MaxResends \in Nat
                           /\ Shutdowns \in 0..1

Game == 1..Games
Kind == {"capture", "remove"}
Token == Game \X Kind
NoToken == <<0, "none">>

\* What the panel reports of an action: the shortcut's snapshot, that Steam had
\* no such shortcut, a confirmed removal, a failure before anything was asked of
\* Steam, or a removal asked for and not confirmed (mutation_attempted).
Report == {"snapshot", "absent", "removed", "failed", "attempted"}

Cascade == {"saves", "content", "artifacts", "absences", "rows"}
Awaits == {"plan", "emit", "waitClaim", "waitResult", "lastWait", "reconcile",
           "seal", "arm", "check", "finish", "closing", "ended"} \cup Cascade

VARIABLES
    pc, cur, cancels,        \* the run: its await, its game, task.cancelling()
    closed,                  \* the host has begun to shut down
    withBundle,              \* options.create_recovery_bundle
    pending, expired,        \* _pending_action, and whether its limit has passed
    claimed, result,         \* tokens claimed; the report each token was given
    validating,              \* the token whose claim awaits validate_action_state
    sent, answer,            \* events and requests in flight; answers to claims
    panel, outcome, stale,   \* the panel: its place per token, its report, tokens of an old generation
    absent, issued,          \* Steam: shortcuts that are gone; removals asked of it
    bound, back,             \* rows that hold the shortcut; games RomM has again
    bundled, source, deleted,\* recovery bundles sealed; source data removed; rows deleted
    committed, ambiguous,    \* the ledger: committed_action, action_ambiguous
    told,                    \* the group results handed to _finish_run
    cutSending, cutWaiting,  \* history: cancelled while sending, twice while waiting
    changes, deaths, resends \* how much of each bound is used

run == <<pc, cur, cancels, closed, withBundle>>
action == <<pending, expired, claimed, result, validating>>
wire == <<sent, answer>>
js == <<panel, outcome, stale>>
steam == <<absent, issued>>
local == <<bound, back, bundled, source, deleted>>
ledger == <<committed, ambiguous, told, cutSending, cutWaiting>>
bounds == <<changes, deaths, resends>>
vars == <<run, action, wire, js, steam, local, ledger, bounds>>

Init ==
    /\ pc = "plan" /\ cur = 1 /\ cancels = 0 /\ closed = FALSE
    /\ withBundle \in BOOLEAN
    /\ pending = NoToken /\ expired = FALSE
    /\ claimed = {} /\ result = [t \in Token |-> "none"]
    /\ validating = NoToken
    /\ sent = {} /\ answer = [t \in Token |-> "none"]
    /\ panel = [t \in Token |-> "idle"] /\ outcome = [t \in Token |-> "none"]
    /\ stale = {}
    /\ absent = {} /\ issued = {}
    /\ bound = Game /\ back = {}
    /\ bundled = {} /\ source = [g \in Game |-> {}] /\ deleted = {}
    /\ committed = {} /\ ambiguous = {}
    /\ told = [g \in Game |-> "none"]
    /\ cutSending = {} /\ cutWaiting = {}
    /\ changes = 0 /\ deaths = 0 /\ resends = 0

-----------------------------------------------------------------------------
(* The run. *)

\* Mutant: The next group is taken one time too often.
EndGroup_OneTooFar(status) ==
    /\ told' = [told EXCEPT ![cur] = status]
    /\ IF cancels = 0 /\ cur <= Games
         THEN pc' = "plan" /\ cur' = cur + 1
         ELSE pc' = "finish" /\ UNCHANGED cur

\* The current game's result is told and the run goes on, to its end if it was
\* cancelled meanwhile.
EndGroup(status) ==
    /\ told' = [told EXCEPT ![cur] = status]
    /\ IF cancels = 0 /\ cur < Games
         THEN pc' = "plan" /\ cur' = cur + 1
         ELSE pc' = "finish" /\ UNCHANGED cur

\* A cancelled game's result, when the run's next await is the completion frame.
EndCancelled(status) ==
    pc' = "finish" /\ told' = [told EXCEPT ![cur] = status]

Goes(where) == pc' = where /\ UNCHANGED <<cur, told>>

\* _request_action sets _pending_action and then awaits the event's delivery;
\* with no panel attached the event is dropped.
Request(kind) ==
    /\ Goes("emit")
    /\ pending' = <<cur, kind>> /\ expired' = FALSE
    /\ sent' \in {sent, sent \cup {<<"event", <<cur, kind>>>>}}
    /\ UNCHANGED <<claimed, result, validating, answer>>

Plan ==
    /\ pc = "plan"
    /\ \/ EndGroup("skipped") /\ UNCHANGED <<action, wire>>
       \/ cur \notin back /\ cur \in bound /\ withBundle /\ Request("capture")
       \/ cur \notin back /\ cur \in bound /\ ~withBundle
          /\ Goes("arm") /\ UNCHANGED <<action, wire>>
    /\ UNCHANGED <<cancels, closed, withBundle, js, steam, local, committed,
                   ambiguous, cutSending, cutWaiting, bounds>>

EmitReturns ==
    /\ pc = "emit"
    /\ pc' = "waitClaim"
    /\ UNCHANGED <<cur, cancels, closed, withBundle, action, wire, js, steam,
                   local, ledger, bounds>>

ClaimSeen ==
    /\ pc = "waitClaim" /\ pending \in claimed
    /\ pc' = "waitResult"
    /\ UNCHANGED <<cur, cancels, closed, withBundle, action, wire, js, steam,
                   local, ledger, bounds>>

\* Mutant: An unconfirmed removal is taken for a removal.
TakeOutcome_TrustsAttempt(kind, seen) ==
    /\ pending' = NoToken
    /\ UNCHANGED <<expired, claimed, result, validating>>
    /\ CASE seen \in {"absent", "removed", "attempted"} ->
              Goes("reconcile") /\ committed' = committed \cup {cur} /\ UNCHANGED ambiguous
         [] kind = "remove" /\ seen = "unknown" ->
              /\ EndGroup("ambiguous")
              /\ committed' = committed \cup {cur} /\ ambiguous' = ambiguous \cup {cur}
         [] seen = "snapshot" ->
              Goes(IF cancels = 0 THEN "seal" ELSE "finish") /\ UNCHANGED <<committed, ambiguous>>
         [] OTHER ->
              EndGroup("failed") /\ UNCHANGED <<committed, ambiguous>>

\* What the run makes of an outcome (capture_snapshot, remove): a success is
\* committed to the ledger before the local binding is reconciled; an outcome
\* nobody can tell is committed as ambiguous.
TakeOutcome(kind, seen) ==
    /\ pending' = NoToken
    /\ UNCHANGED <<expired, claimed, result, validating>>
    /\ CASE seen = "absent" \/ seen = "removed" ->
              Goes("reconcile") /\ committed' = committed \cup {cur} /\ UNCHANGED ambiguous
         [] kind = "remove" /\ seen \in {"attempted", "unknown"} ->
              /\ EndGroup("ambiguous")
              /\ committed' = committed \cup {cur} /\ ambiguous' = ambiguous \cup {cur}
         [] seen = "snapshot" ->
              Goes(IF cancels = 0 THEN "seal" ELSE "finish") /\ UNCHANGED <<committed, ambiguous>>
         [] OTHER ->
              EndGroup("failed") /\ UNCHANGED <<committed, ambiguous>>

ResultSeen ==
    /\ pc \in {"waitResult", "lastWait"} /\ result[pending] # "none"
    /\ TakeOutcome(pending[2], result[pending])
    /\ UNCHANGED <<cancels, closed, withBundle, wire, js, steam, local, cutSending,
                   cutWaiting, bounds>>

\* Mutant: A claimed action whose report never came counts as not claimed.
TimesOut_AsUnclaimed ==
    /\ \/ pc = "waitClaim" /\ pending \notin claimed
       \/ pc \in {"waitResult", "lastWait"} /\ result[pending] = "none"
    /\ expired
    /\ TakeOutcome(pending[2], "unclaimed")
    /\ UNCHANGED <<cancels, closed, withBundle, wire, js, steam, local, cutSending,
                   cutWaiting, bounds>>

\* Mutant: The last wait of a cancelled run has no limit.
TimesOut_NotWhenCancelled ==
    /\ \/ pc = "waitClaim" /\ pending \notin claimed
       \/ pc = "waitResult" /\ result[pending] = "none"
    /\ expired
    /\ TakeOutcome(pending[2], IF pending \in claimed THEN "unknown" ELSE "unclaimed")
    /\ UNCHANGED <<cancels, closed, withBundle, wire, js, steam, local, cutSending,
                   cutWaiting, bounds>>

TimesOut ==
    /\ \/ pc = "waitClaim" /\ pending \notin claimed
       \/ pc \in {"waitResult", "lastWait"} /\ result[pending] = "none"
    /\ expired
    /\ TakeOutcome(pending[2], IF pending \in claimed THEN "unknown" ELSE "unclaimed")
    /\ UNCHANGED <<cancels, closed, withBundle, wire, js, steam, local, cutSending,
                   cutWaiting, bounds>>

\* reconcile_removed_shortcut, shielded: unbinds the row if it still holds the
\* shortcut.  A capture that found no shortcut (nothing is sealed yet) ends the
\* game here.
Removal == withBundle => cur \in bundled

Reconcile ==
    /\ pc = "reconcile"
    /\ bound' = bound \ {cur}
    /\ IF Removal /\ cur \in bound /\ cancels = 0
         THEN Goes("check")
         ELSE EndGroup("partial")
    /\ UNCHANGED <<cancels, closed, withBundle, action, wire, js, steam, back,
                   bundled, source, deleted, committed, ambiguous, cutSending, cutWaiting, bounds>>

\* _arm_recovery: the sealing worker is shielded and told to stop by a
\* cancellation, which it may notice too late.
Seal ==
    /\ pc = "seal"
    /\ \/ EndGroup(IF cancels = 0 THEN "failed" ELSE "skipped") /\ UNCHANGED bundled
       \/ Goes(IF cancels = 0 THEN "arm" ELSE "finish") /\ bundled' = bundled \cup {cur}
    /\ UNCHANGED <<cancels, closed, withBundle, action, wire, js, steam, bound, back,
                   source, deleted, committed, ambiguous, cutSending, cutWaiting, bounds>>

\* _armed_to_mutate and, when everything still holds, the removal's request.
Arm ==
    /\ pc = "arm"
    /\ \/ EndGroup("skipped") /\ UNCHANGED <<action, wire>>
       \/ cur \notin back /\ Request("remove")
    /\ UNCHANGED <<cancels, closed, withBundle, js, steam, local, committed,
                   ambiguous, cutSending, cutWaiting, bounds>>

\* GroupFinalizer.finish up to the cascade: everything is proved again.
Check ==
    /\ pc = "check"
    /\ \/ EndGroup("partial")
       \/ cur \notin back /\ cur \notin bound /\ Goes("saves")
    /\ UNCHANGED <<cancels, closed, withBundle, action, wire, js, steam, local,
                   committed, ambiguous, cutSending, cutWaiting, bounds>>

\* One step of _commit: it does its part or finds nothing to do, and the cascade
\* goes on; or it fails, having changed something or nothing, and the game ends.
After == [saves |-> "content", content |-> "artifacts",
          artifacts |-> "absences", absences |-> "rows"]

CascadeStep ==
    /\ pc \in Cascade \ {"rows"}
    /\ source' \in {source} \cup
                   (IF pc = "absences" THEN {} ELSE {[source EXCEPT ![cur] = @ \cup {pc}]})
    /\ Goes(After[pc]) \/ EndGroup("partial")
    /\ UNCHANGED <<cancels, closed, withBundle, action, wire, js, steam, bound, back, bundled,
                   deleted, committed, ambiguous, cutSending, cutWaiting, bounds>>

\* delete_rows: the rows go only when none of them holds a shortcut.
DeleteRows ==
    /\ pc = "rows"
    /\ \/ cur \notin bound /\ EndGroup("removed") /\ deleted' = deleted \cup {cur}
       \/ EndGroup("partial") /\ UNCHANGED deleted
    /\ UNCHANGED <<cancels, closed, withBundle, action, wire, js, steam, bound, back, bundled,
                   source, committed, ambiguous, cutSending, cutWaiting, bounds>>

\* _finish_run: the completion frame, on which a panel cancels what it has queued.
Finish ==
    /\ pc = "finish"
    /\ pc' = "closing"
    /\ stale' \in {stale, Token}
    /\ UNCHANGED <<cur, cancels, closed, withBundle, action, wire, panel, outcome,
                   steam, local, ledger, bounds>>

\* _run's finally.
Close ==
    /\ pc = "closing"
    /\ pc' = "ended" /\ pending' = NoToken
    /\ UNCHANGED <<cur, cancels, closed, withBundle, expired, claimed, result, validating,
                   wire, js, steam, local, ledger, bounds>>

-----------------------------------------------------------------------------
(* Cancellation.  cancel_prune cancels the task once; shutdown cancels it again. *)

\* CancelledError at the run's await.  A claimed action is waited for once more;
\* shielded work runs to its own end, unless it is the second cancellation.
CutOff ==
    /\ cancels' = cancels + 1
    /\ CASE pc = "emit" ->
              /\ Goes("finish") /\ cutSending' = cutSending \cup {cur}
              /\ UNCHANGED <<pending, cutWaiting, local>>
         [] pc \in {"waitClaim", "waitResult"} ->
              /\ IF pending \in claimed THEN Goes("lastWait") /\ UNCHANGED pending
                                       ELSE Goes("finish") /\ pending' = NoToken
              /\ UNCHANGED <<cutSending, cutWaiting, local>>
         [] pc = "lastWait" ->
              /\ Goes("finish") /\ pending' = NoToken /\ cutWaiting' = cutWaiting \cup {cur}
              /\ UNCHANGED <<cutSending, local>>
         [] pc \in Cascade \cup {"reconcile"} /\ cancels > 0 ->
              /\ EndGroup("partial")
              /\ bound' \in {bound} \cup IF pc = "reconcile" THEN {bound \ {cur}} ELSE {}
              /\ source' \in {source} \cup IF pc \in {"saves", "content", "artifacts"}
                                           THEN {[source EXCEPT ![cur] = @ \cup {pc}]} ELSE {}
              /\ deleted' \in {deleted} \cup IF pc = "rows" /\ cur \notin bound
                                             THEN {deleted \cup {cur}} ELSE {}
              /\ UNCHANGED <<pending, back, bundled, cutSending, cutWaiting>>
         [] pc = "check" ->
              EndCancelled("partial") /\ UNCHANGED <<pending, local, cutSending, cutWaiting>>
         [] OTHER ->
              /\ \/ pc \in Cascade \cup {"reconcile", "seal"} /\ cancels = 0 /\ Goes(pc)
                 \/ pc \in {"plan", "seal", "arm"} /\ Goes("finish")
                 \/ pc = "finish" /\ Goes("closing")
              /\ UNCHANGED <<pending, local, cutSending, cutWaiting>>
    /\ UNCHANGED <<cur, withBundle, expired, claimed, result, validating, wire, js,
                   steam, committed, ambiguous, bounds>>

CancelPrune ==
    /\ cancels = 0 /\ ~closed
    /\ CutOff
    /\ UNCHANGED closed

Shutdown ==
    /\ Shutdowns = 1 /\ ~closed
    /\ closed' = TRUE
    /\ CutOff

-----------------------------------------------------------------------------
(* report_prune_action.  The action lock is held through a claim's validation. *)

Expires ==
    /\ pending # NoToken /\ ~expired
    /\ expired' = TRUE
    /\ UNCHANGED <<run, pending, claimed, result, validating, wire, js, steam, local,
                   ledger, bounds>>

Answers(t, what) == answer' = [answer EXCEPT ![t] = what]

ClaimArrives(t) ==
    /\ <<"claim", t>> \in sent /\ validating = NoToken
    /\ sent' = sent \ {<<"claim", t>>}
    /\ IF pending # t \/ expired THEN Answers(t, "refused") /\ UNCHANGED validating
       ELSE IF t \in claimed THEN Answers(t, "ok") /\ UNCHANGED validating
       ELSE validating' = t /\ UNCHANGED answer
    /\ UNCHANGED <<run, pending, expired, claimed, result, js, steam, local, ledger, bounds>>

\* Mutant: After the validation the claim is granted without asking what is pending.
MayClaim_NotAskedAgain(t) == t[1] \in bound /\ ~expired

\* After validate_action_state: the binding must hold, and the run must still be
\* waiting for this very action.
MayClaim(t) == t[1] \in bound /\ pending = t /\ ~expired

ClaimDecided ==
    /\ validating # NoToken
    /\ validating' = NoToken
    /\ IF MayClaim(validating)
         THEN claimed' = claimed \cup {validating} /\ expired' = FALSE /\ Answers(validating, "ok")
         ELSE Answers(validating, "refused") /\ UNCHANGED <<claimed, expired>>
    /\ UNCHANGED <<run, pending, result, sent, js, steam, local, ledger, bounds>>

\* A report is taken once, of a claimed action the run still awaits in time.
CompleteArrives(t) ==
    /\ <<"complete", t>> \in sent /\ validating = NoToken
    /\ sent' = sent \ {<<"complete", t>>}
    /\ IF pending = t /\ ~expired /\ t \in claimed /\ result[t] = "none"
         THEN result' = [result EXCEPT ![t] = outcome[t]]
         ELSE UNCHANGED result
    /\ UNCHANGED <<run, pending, expired, claimed, validating, answer, js, steam, local,
                   ledger, bounds>>

-----------------------------------------------------------------------------
(* The panel, one action at a time (actionQueue). *)

Moves(t, where) == panel' = [panel EXCEPT ![t] = where]

\* The action ends with this report, which is sent to the host.
Reports(t, what) ==
    /\ Moves(t, "reporting")
    /\ outcome' = [outcome EXCEPT ![t] = what]
    /\ sent' = sent \cup {<<"complete", t>>}

JsOnly == UNCHANGED <<run, action, local, ledger, bounds>>

TakeEvent(t) ==
    /\ <<"event", t>> \in sent
    /\ sent' = sent \ {<<"event", t>>}
    /\ Moves(t, "queued")
    /\ UNCHANGED <<answer, outcome, stale, steam>> /\ JsOnly

\* executePruneAction claims first; a cancelled generation claims only to report.
StartAction(t) ==
    /\ panel[t] = "queued"
    /\ \A u \in Token \ {t} : panel[u] \in {"idle", "queued", "done"}
    /\ Moves(t, "claiming")
    /\ outcome' = [outcome EXCEPT ![t] = IF t \in stale THEN "failed" ELSE "none"]
    /\ sent' = sent \cup {<<"claim", t>>}
    /\ UNCHANGED <<answer, stale, steam>> /\ JsOnly

ClaimAnswered(t) ==
    /\ panel[t] = "claiming" /\ answer[t] # "none"
    /\ Answers(t, "none")
    /\ \/ answer[t] = "refused" /\ Moves(t, "done") /\ UNCHANGED <<outcome, sent>>
       \/ answer[t] = "ok" /\ (outcome[t] = "failed" \/ t \in stale) /\ Reports(t, "failed")
       \/ answer[t] = "ok" /\ outcome[t] = "none" /\ t \notin stale
          /\ Moves(t, "acting") /\ UNCHANGED <<outcome, sent>>
    /\ UNCHANGED <<stale, steam>> /\ JsOnly

\* reportWithRetry: an attempt is repeated when no answer comes in five seconds
\* and given up after three; the count is not kept.
Resend(t) ==
    /\ panel[t] \in {"claiming", "reporting"} /\ resends < MaxResends
    /\ resends' = resends + 1
    /\ sent' = sent \cup {<<IF panel[t] = "claiming" THEN "claim" ELSE "complete", t>>}
    /\ UNCHANGED <<run, action, answer, js, steam, local, ledger, changes, deaths>>

GiveUp(t) ==
    /\ panel[t] \in {"claiming", "reporting"}
    /\ Moves(t, "done")
    /\ UNCHANGED <<wire, outcome, stale, steam>> /\ JsOnly

\* captureShortcutSnapshot, for a capture and before a removal.  A removal whose
\* shortcut differs from the sealed snapshot fails; one that passes goes on.
Look(t) ==
    /\ panel[t] = "acting"
    /\ \/ t[1] \in absent /\ Reports(t, "absent")
       \/ Reports(t, "failed")
       \/ t[1] \notin absent /\ t[2] = "capture" /\ Reports(t, "snapshot")
       \/ t[1] \notin absent /\ t[2] = "remove" /\ Moves(t, "looked") /\ UNCHANGED <<outcome, sent>>
    /\ UNCHANGED <<answer, stale, steam>> /\ JsOnly

\* assertCurrent, then SteamClient.Apps.RemoveShortcut.
Issue(t) ==
    /\ panel[t] = "looked"
    /\ IF t \in stale \/ t[1] \in absent
         THEN Reports(t, "failed") /\ UNCHANGED issued
         ELSE Moves(t, "removing") /\ issued' = issued \cup {t[1]} /\ UNCHANGED <<outcome, sent>>
    /\ UNCHANGED <<answer, stale, absent>> /\ JsOnly

\* Confirmed when the shortcut is seen gone; unconfirmed after three seconds, or
\* when Steam's store cannot be read.
Confirm(t) ==
    /\ panel[t] = "removing"
    /\ \/ t[1] \in absent /\ Reports(t, "removed")
       \/ Reports(t, "attempted")
    /\ UNCHANGED <<answer, stale, steam>> /\ JsOnly

-----------------------------------------------------------------------------
(* Outside: Steam, the panel's life, the user, RomM. *)

SteamRemoves(g) ==
    /\ g \in issued \ absent
    /\ absent' = absent \cup {g}
    /\ UNCHANGED <<run, action, wire, js, issued, local, ledger, bounds>>

\* The panel's context is torn down: its actions and undelivered events are lost,
\* and the requests it had sent arrive or do not.
PanelDies ==
    /\ deaths < MaxDeaths
    /\ deaths' = deaths + 1
    /\ panel' = [t \in Token |-> IF panel[t] = "idle" THEN "idle" ELSE "done"]
    /\ sent' \in {{}, {m \in sent : m[1] # "event"}}
    /\ UNCHANGED <<run, action, answer, outcome, stale, steam, local, ledger, changes, resends>>

\* The user deletes the shortcut in Steam, RomM has the game again, or something
\* else takes the binding from the row after the run planned its removal.
Changes(g) ==
    /\ changes < MaxChanges
    /\ changes' = changes + 1
    /\ \/ g \notin absent /\ absent' = absent \cup {g} /\ UNCHANGED <<back, bound>>
       \/ g \notin back /\ back' = back \cup {g} /\ UNCHANGED <<absent, bound>>
       \/ g \in bound /\ g = cur /\ pc # "plan" /\ bound' = bound \ {g} /\ UNCHANGED <<absent, back>>
    /\ UNCHANGED <<run, action, wire, js, issued, bundled, source, deleted, ledger, deaths, resends>>

-----------------------------------------------------------------------------
RunStep ==
    \/ Plan \/ EmitReturns \/ ClaimSeen \/ ResultSeen \/ TimesOut \/ Reconcile \/ Seal
    \/ Arm \/ Check \/ CascadeStep \/ DeleteRows \/ Finish \/ Close

PanelStep(t) ==
    \/ TakeEvent(t) \/ StartAction(t) \/ ClaimAnswered(t) \/ Resend(t) \/ GiveUp(t)
    \/ Look(t) \/ Issue(t) \/ Confirm(t)

Next ==
    \/ RunStep \/ CancelPrune \/ Shutdown
    \/ Expires \/ ClaimDecided \/ \E t \in Token : ClaimArrives(t) \/ CompleteArrives(t)
    \/ \E t \in Token : PanelStep(t)
    \/ PanelDies \/ \E g \in Game : SteamRemoves(g) \/ Changes(g)

Spec == Init /\ [][Next]_vars

\* The run's awaits return (sends, worker threads) and its limits pass; nothing is
\* assumed of the panel, of Steam or of the user.
FairSpec == Spec /\ WF_vars(RunStep) /\ WF_vars(Expires)

-----------------------------------------------------------------------------
(* Properties. *)

\* Every variable keeps its kind; a token in _pending_action is of this run's game.
TypeOK ==
    /\ pc \in Awaits /\ cur \in Game /\ cancels \in 0..2 /\ closed \in BOOLEAN
    /\ withBundle \in BOOLEAN /\ expired \in BOOLEAN
    /\ pending \in Token \cup {NoToken} /\ validating \in Token \cup {NoToken}
    /\ claimed \subseteq Token /\ stale \subseteq Token
    /\ result \in [Token -> Report \cup {"none"}] /\ outcome \in [Token -> Report \cup {"none"}]
    /\ sent \subseteq {"event", "claim", "complete"} \X Token
    /\ answer \in [Token -> {"none", "ok", "refused"}]
    /\ panel \in [Token -> {"idle", "queued", "claiming", "acting", "looked", "removing",
                           "reporting", "done"}]
    /\ absent \subseteq Game /\ issued \subseteq Game /\ bound \subseteq Game /\ back \subseteq Game
    /\ bundled \subseteq Game /\ deleted \subseteq Game /\ ambiguous \subseteq committed
    /\ committed \subseteq Game /\ cutSending \subseteq Game /\ cutWaiting \subseteq Game
    /\ source \in [Game -> SUBSET {"saves", "content", "artifacts"}]
    /\ told \in [Game -> {"none", "skipped", "failed", "ambiguous", "partial", "removed"}]
    /\ changes \in 0..MaxChanges /\ deaths \in 0..MaxDeaths /\ resends \in 0..MaxResends
    /\ pc \in {"waitClaim", "waitResult", "lastWait"} => pending[1] = cur

\* A game's saves, content, artifacts and rows are touched only once its shortcut
\* is really gone from Steam, the run was told so without doubt, and the bundle,
\* where one was asked for, is sealed: whatever the panel, Steam or a cancellation
\* did, doubt keeps the source data.
SourceIsKept ==
    \A g \in Game : (source[g] # {} \/ g \in deleted) =>
        /\ g \in absent \cap (committed \ ambiguous)
        /\ withBundle => g \in bundled

\* What the run reports is what happened.  A removal asked of Steam, even one that
\* lands after the run ended, is never reported as nothing done, except in the two
\* places where a cancellation loses it: while the action is being sent, and a
\* second time while the claimed action is waited for.
Changed(g) == g \in issued \cup committed \cup deleted \/ source[g] # {}
Unreported == {"none", "skipped", "failed"}
ResultIsTrue ==
    \A g \in Game :
        /\ (g < cur \/ pc \in {"closing", "ended"}) /\ Changed(g) =>
              told[g] \notin Unreported \/ g \in cutSending \cup cutWaiting
        /\ told[g] = "removed" => g \in deleted
        /\ g \in deleted /\ told[g] # "none" =>
              told[g] = "removed" \/ (cancels = 2 /\ told[g] = "partial")

\* Once the run has stopped asking for an action (answered, timed out, cancelled),
\* no late claim of it is granted, however long its validation took; only an action
\* cut off while it was being sent stays open until the run's end.
GivenUpStaysUnclaimed ==
    [][\A t \in claimed' \ claimed :
          \/ cur = t[1] /\ pc \in {"emit", "waitClaim"}
          \/ t[1] \in cutSending /\ pc # "ended"]_vars

\* The run ends, whatever became of the panel: every wait for it has a limit.
RunEnds == <>(pc = "ended")
=============================================================================
