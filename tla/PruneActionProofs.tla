------------------------- MODULE PruneActionProofs -------------------------
(***************************************************************************)
(* Proofs about PruneAction, for any number of games and any bounds: what  *)
(* a cleanup may destroy, what it reports, and when an action is granted.  *)
(***************************************************************************)
EXTENDS PruneAction, TLAPS

Waits == {"emit", "waitClaim", "waitResult", "lastWait"}
Final == {"finish", "closing", "ended"}

\* Where the run is once it was told that the game's shortcut is gone.
Told == {"reconcile", "check"} \cup Cascade

\* The action under way is the current game's; one cut off while it was sent
\* stays open until the run's end.
PendingInv ==
    /\ pc \in Waits => pending \in Token
    /\ pc \in {"waitResult", "lastWait"} => pending \in claimed
    /\ pending # NoToken =>
          /\ pending[1] = cur
          /\ pc \in Waits \/ (pc \in {"finish", "closing"} /\ cur \in cutSending)
    /\ closed \/ cancels < 2

\* A report that the shortcut is gone is true.
ReportsInv ==
    \A t \in Token :
        outcome[t] \in {"absent", "removed"} \/ result[t] \in {"absent", "removed"}
            => t[1] \in absent

Touched(g) == source[g] # {} \/ g \in deleted

SourceInv ==
    /\ pc \in Told => cur \in absent /\ cur \in committed
    /\ pc \in {"check"} \cup Cascade => (withBundle => cur \in bundled)
    /\ \A g \in ambiguous : g < cur \/ pc \in Final
    /\ \A g \in Game : Touched(g) => g < cur \/ (g = cur /\ pc \in Cascade \cup Final)
    /\ SourceIsKept

\* The actions the run has not asked for yet.
Unrequested(t) ==
    \/ t[1] > cur
    \/ t[1] = cur /\ pc = "plan"
    \/ t[1] = cur /\ t[2] = "remove" /\ pc \in {"seal", "arm"}
    \/ t[1] = cur /\ t[2] = "remove" /\ pc \in Waits /\ pending[2] = "capture"

\* Each action is published once, worked on only once it is claimed, and
\* reported once; what asks Steam for a removal is then reported as that.
PanelInv ==
    \A t \in Token :
        /\ Unrequested(t) => panel[t] = "idle" /\ <<"event", t>> \notin sent /\ t \notin claimed
        /\ <<"event", t>> \in sent => panel[t] = "idle"
        /\ panel[t] \in {"acting", "looked", "removing"} =>
              t \in claimed /\ outcome[t] = "none"
        /\ answer[t] = "ok" => t \in claimed
        /\ panel[t] \in {"looked", "removing"} => t[2] = "remove"
        /\ outcome[t] = "snapshot" => t[2] = "capture"
        /\ <<"complete", t>> \in sent => panel[t] \in {"reporting", "done"}
        /\ result[t] # "none" => panel[t] \in {"reporting", "done"} /\ result[t] = outcome[t]
        /\ t[2] = "remove" /\ t[1] \in issued =>
              /\ t \in claimed
              /\ panel[t] \in {"removing", "reporting", "done"}
              /\ outcome[t] \in {"none", "removed", "attempted"}

Results == {"none", "skipped", "failed", "ambiguous", "partial", "removed"}

\* The type invariant in the parts that the run, the panel's requests and the
\* panel change.
RunTypes ==
    /\ pc \in Awaits /\ cur \in Game /\ cancels \in 0..2
    /\ closed \in BOOLEAN /\ withBundle \in BOOLEAN
    /\ told \in [Game -> Results]

ActionTypes ==
    /\ expired \in BOOLEAN /\ claimed \subseteq Token
    /\ pending \in Token \cup {NoToken} /\ validating \in Token \cup {NoToken}
    /\ result \in [Token -> Report \cup {"none"}]

PanelTypes ==
    /\ stale \subseteq Token
    /\ outcome \in [Token -> Report \cup {"none"}]
    /\ sent \subseteq {"event", "claim", "complete"} \X Token
    /\ answer \in [Token -> {"none", "ok", "refused"}]
    /\ panel \in [Token -> {"idle", "queued", "claiming", "acting", "looked", "removing",
                           "reporting", "done"}]

GameTypes ==
    /\ absent \subseteq Game /\ issued \subseteq Game /\ bound \subseteq Game /\ back \subseteq Game
    /\ bundled \subseteq Game /\ deleted \subseteq Game /\ ambiguous \subseteq committed
    /\ committed \subseteq Game /\ cutSending \subseteq Game /\ cutWaiting \subseteq Game
    /\ source \in [Game -> SUBSET {"saves", "content", "artifacts"}]

BoundTypes == changes \in 0..MaxChanges /\ deaths \in 0..MaxDeaths /\ resends \in 0..MaxResends

Types == RunTypes /\ ActionTypes /\ PanelTypes /\ GameTypes /\ BoundTypes

Past(g) == g < cur \/ (g = cur /\ pc \in Final)

\* What a game that is done with was told, if anything may have changed for it.
ResultInv ==
    /\ \A g \in committed : g < cur \/ (g = cur /\ pc \in Told \cup Final)
    /\ \A g \in Game :
          Past(g) /\ (<<g, "remove">> \in claimed \/ g \in committed) =>
              \/ told[g] \notin Unreported
              \/ g \in cutSending \cup cutWaiting
              \/ g \notin committed /\ result[<<g, "remove">>] = "failed"
    /\ \A g \in deleted :
          Past(g) /\ (told[g] = "removed" \/ (cancels = 2 /\ told[g] = "partial"))
    /\ \A g \in Game : told[g] = "removed" => g \in deleted

PruneInv == Types /\ PendingInv /\ ReportsInv /\ SourceInv /\ PanelInv /\ ResultInv

-----------------------------------------------------------------------------
(* The start. *)

LEMMA TokensAreGames ==
    /\ NoToken \notin Token
    /\ \A g \in Game, k \in Kind : <<g, k>> \in Token
    /\ \A t \in Token : t[1] \in Game /\ t[2] \in Kind /\ t = <<t[1], t[2]>>
BY GamesAssumption DEF Token, NoToken, Game, Kind

LEMMA InitInv == Init => PruneInv
<1> SUFFICES ASSUME Init PROVE PruneInv
    OBVIOUS
<1> USE GamesAssumption, BoundsAssumption
<1>1. Types
  <2>1. RunTypes
      <3>1. cur \in Game /\ cancels \in 0..2
          BY DEF Init, Game
      <3>2. pc \in Awaits /\ told \in [Game -> Results]
          BY DEF Init, Awaits, Results
      <3> QED BY <3>1, <3>2 DEF Init, RunTypes
  <2>2. ActionTypes
      BY DEF Init, ActionTypes
  <2>3. PanelTypes
      BY DEF Init, PanelTypes
  <2>4. GameTypes
      BY DEF Init, GameTypes
  <2>5. BoundTypes
      BY DEF Init, BoundTypes
  <2> QED BY <2>1, <2>2, <2>3, <2>4, <2>5 DEF Types
<1>2. PendingInv /\ ReportsInv
    BY DEF Init, PendingInv, ReportsInv, Waits
<1>3. SourceInv
    BY DEF Init, SourceInv, SourceIsKept, Touched, Told, Cascade, Final
<1>4. PanelInv
    BY DEF Init, PanelInv
<1>5. ResultInv
    BY DEF Init, ResultInv, Past, Final, Game
<1> QED BY <1>1, <1>2, <1>3, <1>4, <1>5 DEF PruneInv

-----------------------------------------------------------------------------
(* The variables keep their kinds. *)

\* The end of a game leads to the next one's plan, or to the run's end.
LEMMA EndGroupMoves ==
    ASSUME RunTypes, NEW status \in Results, EndGroup(status)
    PROVE  /\ told' = [told EXCEPT ![cur] = status] /\ told' \in [Game -> Results]
           /\ \/ pc' = "plan" /\ cancels = 0 /\ cur' = cur + 1
              \/ pc' = "finish" /\ cur' = cur
           /\ pc' \in Awaits /\ cur' \in Game
<1>1. cur \in Game /\ told \in [Game -> Results]
    BY DEF RunTypes
<1>2. told' = [told EXCEPT ![cur] = status] /\ told' \in [Game -> Results]
    BY <1>1 DEF EndGroup
<1>3. \/ pc' = "plan" /\ cancels = 0 /\ cur < Games /\ cur' = cur + 1
      \/ pc' = "finish" /\ cur' = cur
    BY DEF EndGroup
<1>4. pc' \in Awaits /\ cur' \in Game
    BY <1>1, <1>3, GamesAssumption DEF Awaits, Game
<1> QED BY <1>2, <1>3, <1>4

LEMMA RequestMoves ==
    ASSUME RunTypes, PanelTypes, NEW kind \in Kind, Request(kind)
    PROVE  /\ pc' = "emit" /\ cur' = cur /\ told' = told
           /\ pending' = <<cur, kind>> /\ pending' \in Token /\ pending'[1] = cur
           /\ UNCHANGED <<claimed, result, validating, answer>>
           /\ expired' = FALSE
           /\ sent' \subseteq sent \cup {<<"event", <<cur, kind>>>>}
           /\ sent' \subseteq {"event", "claim", "complete"} \X Token
<1>1. <<cur, kind>> \in Token
    BY DEF RunTypes, Token
<1>2. sent' \in {sent, sent \cup {<<"event", <<cur, kind>>>>}}
    BY DEF Request
<1>3. sent' \subseteq {"event", "claim", "complete"} \X Token
    BY <1>1, <1>2 DEF PanelTypes
<1> QED BY <1>1, <1>2, <1>3 DEF Request, Goes

LEMMA TypesAreOK == Types /\ PendingInv => TypeOK
<1> SUFFICES ASSUME Types, PendingInv PROVE TypeOK
    OBVIOUS
<1>1. pc \in {"waitClaim", "waitResult", "lastWait"} => pending[1] = cur
    BY TokensAreGames DEF PendingInv, Waits
<1> QED BY <1>1 DEF Types, RunTypes, ActionTypes, PanelTypes, GameTypes, BoundTypes, TypeOK, Results

-----------------------------------------------------------------------------
(* What the steps do, with their cases apart. *)

\* No step of the run touches the panel, Steam or what the host granted.
LEMMA RunFrame ==
    ASSUME RunStep
    PROVE  UNCHANGED <<cancels, closed, withBundle, claimed, result, validating, answer, panel,
                       outcome, absent, issued, back, cutSending, cutWaiting, changes, deaths, resends>>
<1> USE DEF wire, js, steam, local, ledger, bounds, action
<1>1. CASE Plan \/ Arm
    BY <1>1 DEF Plan, Arm, Request
<1>2. CASE EmitReturns \/ ClaimSeen \/ Reconcile \/ Seal \/ Check \/ CascadeStep \/ DeleteRows \/ Finish \/ Close
    BY <1>2 DEF EmitReturns, ClaimSeen, Reconcile, Seal, Check, CascadeStep, DeleteRows, Finish, Close
<1>3. CASE ResultSeen \/ TimesOut
    BY <1>3 DEF ResultSeen, TimesOut, TakeOutcome
<1> QED BY <1>1, <1>2, <1>3 DEF RunStep

LEMMA OutcomeMoves ==
    ASSUME NEW kind, NEW seen, TakeOutcome(kind, seen)
    PROVE  /\ pending' = NoToken /\ expired' = expired
           /\ \/ /\ seen \in {"absent", "removed"}
                 /\ pc' = "reconcile" /\ UNCHANGED <<cur, told, ambiguous>>
                 /\ committed' = committed \cup {cur}
              \/ /\ kind = "remove" /\ seen \in {"attempted", "unknown"}
                 /\ EndGroup("ambiguous")
                 /\ committed' = committed \cup {cur} /\ ambiguous' = ambiguous \cup {cur}
              \/ /\ seen = "snapshot"
                 /\ pc' \in {"seal", "finish"} /\ UNCHANGED <<cur, told, committed, ambiguous>>
              \/ /\ seen \notin {"absent", "removed", "snapshot"}
                 /\ ~(kind = "remove" /\ seen \in {"attempted", "unknown"})
                 /\ EndGroup("failed") /\ UNCHANGED <<committed, ambiguous>>
<1>1. CASE seen = "absent" \/ seen = "removed"
    BY <1>1 DEF TakeOutcome, Goes
<1>2. CASE kind = "remove" /\ seen \in {"attempted", "unknown"}
    BY <1>2 DEF TakeOutcome, Goes
<1>3. CASE seen = "snapshot"
    BY <1>3 DEF TakeOutcome, Goes
<1>4. CASE /\ seen \notin {"absent", "removed", "snapshot"}
           /\ ~(kind = "remove" /\ seen \in {"attempted", "unknown"})
    BY <1>4 DEF TakeOutcome, Goes
<1> QED BY <1>1, <1>2, <1>3, <1>4

\* What the run learns of the action it waits for: its report, that it was
\* claimed and nobody knows more, or that nobody claimed it.
Learns(seen) ==
    \/ seen = result[pending] /\ result[pending] # "none"
    \/ seen = "unknown" /\ result[pending] = "none" /\ pending \in claimed
    \/ seen = "unclaimed" /\ pending \notin claimed

LEMMA OutcomeStep ==
    ASSUME PendingInv, ResultSeen \/ TimesOut
    PROVE  /\ pc \in Waits
           /\ UNCHANGED <<sent, stale, bound, bundled, source, deleted>>
           /\ \E seen : Learns(seen) /\ TakeOutcome(pending[2], seen)
<1>1. pc \in Waits /\ UNCHANGED <<sent, stale, bound, bundled, source, deleted>>
    BY DEF ResultSeen, TimesOut, Waits, wire, js, local
<1>2. CASE ResultSeen
  <2>1. TakeOutcome(pending[2], result[pending]) /\ result[pending] # "none"
      BY <1>2 DEF ResultSeen
  <2> QED BY <1>1, <2>1 DEF Learns
<1>3. CASE TimesOut /\ pending \in claimed
  <2>1. TakeOutcome(pending[2], "unknown") /\ result[pending] = "none"
      BY <1>3 DEF TimesOut
  <2> QED BY <1>1, <1>3, <2>1 DEF Learns
<1>4. CASE TimesOut /\ pending \notin claimed
  <2>1. TakeOutcome(pending[2], "unclaimed")
      BY <1>4 DEF TimesOut
  <2> QED BY <1>1, <1>4, <2>1 DEF Learns
<1> QED BY <1>2, <1>3, <1>4

\* The places a cancellation finds the run at.
CutKept == UNCHANGED <<pending, bound, back, bundled, source, deleted, cutSending, cutWaiting>>
CutLocal == UNCHANGED <<bound, back, bundled, source, deleted>>

CutStays ==
    \/ pc \in {"waitClaim", "waitResult"} /\ pending \in claimed /\ pc' = "lastWait"
    \/ pc \in Cascade \cup {"reconcile", "seal"} /\ cancels = 0 /\ pc' = pc
    \/ pc \in {"plan", "seal", "arm"} /\ pc' = "finish"
    \/ pc = "finish" /\ pc' = "closing"

CutSends ==
    /\ pc = "emit" /\ pc' = "finish"
    /\ cutSending' = cutSending \cup {cur}
    /\ CutLocal /\ UNCHANGED <<told, pending, cutWaiting>>

CutWaits ==
    /\ \/ pc \in {"waitClaim", "waitResult"} /\ pending \notin claimed /\ cutWaiting' = cutWaiting
       \/ pc = "lastWait" /\ cutWaiting' = cutWaiting \cup {cur}
    /\ pc' = "finish" /\ pending' = NoToken
    /\ CutLocal /\ UNCHANGED <<told, cutSending>>

CutCascades ==
    /\ pc \in Cascade \cup {"reconcile"} /\ cancels > 0
    /\ pc' = "finish"
    /\ told' = [told EXCEPT ![cur] = "partial"]
    /\ bound' \subseteq bound
    /\ \/ source' = source
       \/ pc \in Cascade /\ \E what \in {"saves", "content", "artifacts"} :
                                source' = [source EXCEPT ![cur] = @ \cup {what}]
    /\ deleted' = deleted \/ (pc \in Cascade /\ deleted' = deleted \cup {cur})
    /\ UNCHANGED <<pending, back, bundled, cutSending, cutWaiting>>

CutChecks == pc = "check" /\ pc' = "finish" /\ told' = [told EXCEPT ![cur] = "partial"] /\ CutKept

LEMMA CutOffMoves ==
    ASSUME Types, CutOff
    PROVE  /\ cancels' = cancels + 1
           /\ UNCHANGED <<cur, withBundle, expired, claimed, result, validating, sent, answer, panel,
                          outcome, stale, absent, issued, committed, ambiguous, changes, deaths, resends>>
           /\ (CutStays /\ CutKept /\ told' = told) \/ CutSends \/ CutWaits \/ CutCascades \/ CutChecks
<1>1. /\ cancels' = cancels + 1
      /\ UNCHANGED <<cur, withBundle, expired, claimed, result, validating, sent, answer, panel,
                     outcome, stale, absent, issued, committed, ambiguous, changes, deaths, resends>>
    BY DEF CutOff, wire, js, steam, bounds
<1>2. CASE pc = "emit"
  <2>1. CutSends
      BY <1>2 DEF CutOff, Goes, local, CutLocal, CutSends, Cascade
  <2> QED BY <1>1, <2>1
<1>3. CASE pc \in {"waitClaim", "waitResult"} /\ pending \in claimed
  <2>1. CutStays /\ CutKept /\ told' = told
      BY <1>3 DEF CutOff, Goes, local, CutKept, CutStays, Cascade
  <2> QED BY <1>1, <2>1
<1>4. CASE pc = "lastWait" \/ (pc \in {"waitClaim", "waitResult"} /\ pending \notin claimed)
  <2>1. CutWaits
      BY <1>4 DEF CutOff, Goes, local, CutLocal, CutWaits, Cascade
  <2> QED BY <1>1, <2>1
<1>5. CASE pc \in Cascade \cup {"reconcile"} /\ cancels > 0
  <2>1. /\ EndGroup("partial")
        /\ bound' \in {bound} \cup IF pc = "reconcile" THEN {bound \ {cur}} ELSE {}
        /\ source' \in {source} \cup IF pc \in {"saves", "content", "artifacts"}
                                     THEN {[source EXCEPT ![cur] = @ \cup {pc}]} ELSE {}
        /\ deleted' \in {deleted} \cup IF pc = "rows" /\ cur \notin bound
                                       THEN {deleted \cup {cur}} ELSE {}
        /\ UNCHANGED <<pending, back, bundled, cutSending, cutWaiting>>
      BY <1>5 DEF CutOff, Cascade
  <2>2. pc' = "finish" /\ told' = [told EXCEPT ![cur] = "partial"]
      BY <1>5, <2>1 DEF EndGroup, Types, RunTypes
  <2>3. CutCascades
      BY <1>5, <2>1, <2>2 DEF Cascade, CutCascades
  <2> QED BY <1>1, <2>3
<1>6. CASE pc = "check"
  <2>1. CutChecks
      BY <1>6 DEF CutOff, EndCancelled, local, CutKept, CutChecks, Cascade
  <2> QED BY <1>1, <2>1
<1>7. CASE pc \in (Cascade \cup {"reconcile"}) /\ ~(cancels > 0)
  <2>1. cancels = 0
      BY <1>7 DEF Types, RunTypes
  <2>2. CutStays /\ CutKept /\ told' = told
      BY <1>7, <2>1 DEF CutOff, Goes, local, CutKept, CutStays, Cascade
  <2> QED BY <1>1, <2>2
<1>8. CASE pc \in {"plan", "seal", "arm", "finish"}
  <2>1. CutStays /\ CutKept /\ told' = told
      BY <1>8 DEF CutOff, Goes, local, CutKept, CutStays, Cascade
  <2> QED BY <1>1, <2>1
<1>9. CASE pc \in {"closing", "ended"}
    BY <1>9 DEF CutOff, Cascade
<1> QED
  <2>1. pc \in Awaits
      BY DEF Types, RunTypes
  <2> QED BY <1>2, <1>3, <1>4, <1>5, <1>6, <1>7, <1>8, <1>9, <2>1 DEF Awaits

-----------------------------------------------------------------------------
(* The run's own steps. *)

LEMMA RunTypesKept ==
    ASSUME Types, PendingInv, RunStep
    PROVE  RunTypes'
<1> USE DEF Types
<1>0. UNCHANGED <<cancels, closed, withBundle>>
    BY RunFrame
<1>1. CASE pc' \in Awaits /\ cur' \in Game /\ told' \in [Game -> Results]
    BY <1>0, <1>1 DEF RunTypes
<1>2. CASE pc' \in Awaits /\ UNCHANGED <<cur, told>>
    BY <1>0, <1>2 DEF RunTypes
<1>3. CASE \E status \in Results : EndGroup(status)
    BY <1>1, <1>3, EndGroupMoves
<1>4. CASE \E kind \in Kind : Request(kind)
    BY <1>2, <1>4, RequestMoves DEF Awaits
<1>5. CASE Plan \/ Arm
    BY <1>2, <1>3, <1>4, <1>5 DEF Plan, Arm, Goes, Kind, Results, Awaits
<1>6. CASE EmitReturns \/ ClaimSeen \/ Finish \/ Close
    BY <1>2, <1>6 DEF EmitReturns, ClaimSeen, Finish, Close, Awaits, ledger
<1>7. CASE ResultSeen \/ TimesOut
  <2>1. PICK seen : TakeOutcome(pending[2], seen)
      BY <1>7, OutcomeStep
  <2>2. \/ pc' \in {"reconcile", "seal", "finish"} /\ UNCHANGED <<cur, told>>
        \/ EndGroup("ambiguous") \/ EndGroup("failed")
      BY <2>1, OutcomeMoves
  <2> QED BY <1>2, <1>3, <2>2 DEF Results, Awaits
<1>8. CASE Reconcile \/ Seal \/ Check \/ DeleteRows
    BY <1>2, <1>3, <1>8 DEF Reconcile, Seal, Check, DeleteRows, Goes, Results, Awaits, Cascade
<1>9. CASE CascadeStep
  <2>1. After[pc] \in Cascade \/ EndGroup("partial")
      BY <1>9 DEF CascadeStep, After, Cascade
  <2> QED BY <1>2, <1>3, <1>9, <2>1 DEF CascadeStep, Goes, Results, Awaits
<1> QED BY <1>5, <1>6, <1>7, <1>8, <1>9 DEF RunStep

LEMMA RunKeepsTypes ==
    ASSUME Types, PendingInv, RunStep
    PROVE  Types'
<1> USE DEF Types
<1>1. RunTypes'
    BY RunTypesKept
<1>2. BoundTypes'
    BY RunFrame DEF BoundTypes
<1>3. CASE Plan \/ Arm
  <2>1. UNCHANGED <<stale, absent, issued, bound, back, bundled, source, deleted, committed, ambiguous, cutSending, cutWaiting>>
      BY <1>3 DEF Plan, Arm, js, steam, local
  <2>2. GameTypes'
      BY <2>1 DEF GameTypes
  <2>3. \/ UNCHANGED <<action, wire>>
        \/ \E kind \in Kind : Request(kind)
      BY <1>3 DEF Plan, Arm, Kind
  <2>4. ActionTypes'
      BY <2>3, RequestMoves DEF ActionTypes, action
  <2>5. PanelTypes'
      BY <2>1, <2>3, RequestMoves, RunFrame DEF PanelTypes, wire
  <2> QED BY <1>1, <1>2, <2>2, <2>4, <2>5
<1>4. CASE ResultSeen \/ TimesOut
  <2>1. PICK seen : TakeOutcome(pending[2], seen)
      BY <1>4, OutcomeStep
  <2>2. /\ UNCHANGED <<sent, stale, bound, bundled, source, deleted, expired>>
        /\ pending' = NoToken
        /\ \/ UNCHANGED <<committed, ambiguous>>
           \/ committed' = committed \cup {cur} /\ ambiguous' \in {ambiguous, ambiguous \cup {cur}}
      BY <1>4, <2>1, OutcomeStep, OutcomeMoves
  <2>3. cur \in Game
      BY DEF RunTypes
  <2>4. committed' \subseteq Game /\ ambiguous' \subseteq committed'
      BY <2>2, <2>3 DEF GameTypes
  <2>5. ActionTypes' /\ PanelTypes'
      BY <2>2, RunFrame DEF ActionTypes, PanelTypes
  <2>6. GameTypes'
      BY <2>2, <2>4, RunFrame DEF GameTypes
  <2> QED BY <1>1, <1>2, <2>5, <2>6
<1>5. CASE EmitReturns \/ ClaimSeen \/ Finish \/ Close
  <2>1. UNCHANGED <<local, committed, ambiguous, sent, expired>> /\ pending' \in {pending, NoToken} /\ stale' \in {stale, Token}
      BY <1>5 DEF EmitReturns, ClaimSeen, Finish, Close, action, wire, js, ledger
  <2>2. GameTypes'
      BY <2>1, RunFrame DEF GameTypes, local
  <2>3. ActionTypes' /\ PanelTypes'
      BY <2>1, RunFrame DEF ActionTypes, PanelTypes
  <2> QED BY <1>1, <1>2, <2>2, <2>3
<1>6. CASE Reconcile \/ Seal \/ Check \/ CascadeStep \/ DeleteRows
  <2>1. UNCHANGED <<action, wire, js, committed, ambiguous>>
      BY <1>6 DEF Reconcile, Seal, Check, CascadeStep, DeleteRows, local
  <2>2. ActionTypes' /\ PanelTypes'
      BY <2>1 DEF ActionTypes, PanelTypes, action, wire, js
  <2>3. cur \in Game
      BY DEF RunTypes
  <2>4. /\ bound' \subseteq bound
        /\ bundled' \in {bundled, bundled \cup {cur}}
        /\ deleted' \in {deleted, deleted \cup {cur}}
      BY <1>6 DEF Reconcile, Seal, Check, CascadeStep, DeleteRows, local
  <2>5. source' \in [Game -> SUBSET {"saves", "content", "artifacts"}]
    <3>1. CASE CascadeStep
      <4>1. pc = "absences" \/ pc \in {"saves", "content", "artifacts"}
          BY <3>1 DEF CascadeStep, Cascade
      <4> QED BY <3>1, <4>1, <2>3 DEF CascadeStep, GameTypes
    <3>2. CASE Reconcile \/ Seal \/ Check \/ DeleteRows
        BY <3>2 DEF Reconcile, Seal, Check, DeleteRows, local, GameTypes
    <3> QED BY <1>6, <3>1, <3>2
  <2>6. GameTypes'
      BY <2>1, <2>3, <2>4, <2>5, RunFrame DEF GameTypes
  <2> QED BY <1>1, <1>2, <2>2, <2>6
<1> QED BY <1>3, <1>4, <1>5, <1>6 DEF RunStep

LEMMA RunKeepsPending ==
    ASSUME Types, PendingInv, RunStep
    PROVE  PendingInv'
<1>0. UNCHANGED <<cancels, closed, claimed, cutSending>>
    BY RunFrame
<1>1. CASE /\ pending = NoToken \/ pc \notin Waits
           /\ UNCHANGED <<pending, cur>>
           /\ pc' \notin Waits
           /\ pc \in {"finish", "closing"} => pc' \in {"finish", "closing"}
    BY <1>0, <1>1 DEF PendingInv, Waits
<1>2. CASE pending' = NoToken /\ pc' \notin Waits
    BY <1>0, <1>2 DEF PendingInv, Waits
<1>3. CASE \E kind \in Kind : Request(kind)
    BY <1>0, <1>3, RequestMoves DEF Types, PendingInv, Waits
<1>4. \A status \in Results : EndGroup(status) => pc' \in {"plan", "finish"}
    BY EndGroupMoves DEF Types
<1>5. pc \notin Waits /\ pc \notin {"finish", "closing"} => pending = NoToken
    BY DEF PendingInv
<1>6. CASE Plan \/ Arm
  <2>1. CASE pending' = pending /\ pc' \notin Waits
    <3>1. pc \in {"plan", "arm"} /\ pending = NoToken
        BY <1>5, <1>6 DEF Plan, Arm, Waits
    <3> QED BY <1>2, <2>1, <3>1
  <2>2. \/ \E kind \in Kind : Request(kind)
        \/ pending' = pending /\ pc' \in {"plan", "finish", "arm"}
      BY <1>4, <1>6 DEF Plan, Arm, Kind, Results, Goes, action
  <2> QED BY <1>3, <2>1, <2>2 DEF Waits
<1>7. CASE EmitReturns \/ ClaimSeen
  <2>1. /\ pc \in Waits /\ pc' \in Waits /\ UNCHANGED <<pending, cur>>
        /\ pc' \in {"waitResult", "lastWait"} => pending \in claimed
      BY <1>7 DEF EmitReturns, ClaimSeen, Waits, action
  <2> QED BY <1>0, <2>1 DEF PendingInv
<1>8. CASE ResultSeen \/ TimesOut
  <2>1. PICK seen : TakeOutcome(pending[2], seen)
      BY <1>8, OutcomeStep
  <2>2. /\ pending' = NoToken
        /\ pc' \in {"reconcile", "seal", "finish"} \/ EndGroup("ambiguous") \/ EndGroup("failed")
      BY <2>1, OutcomeMoves
  <2> QED BY <1>2, <1>4, <2>2 DEF Results, Waits
<1>9. CASE Reconcile \/ Seal \/ Check \/ CascadeStep \/ DeleteRows
  <2>1. /\ pc \in {"reconcile", "seal", "check"} \cup Cascade /\ pending' = pending
        /\ pc' \in {"check", "arm", "finish"} \cup Cascade \/ \E status \in Results : EndGroup(status)
      BY <1>9 DEF Reconcile, Seal, Check, CascadeStep, DeleteRows, After, Cascade, Goes, Results, action
  <2>2. pending = NoToken
      BY <1>5, <2>1 DEF Cascade, Waits
  <2> QED BY <1>2, <1>4, <2>1, <2>2 DEF Waits, Cascade
<1>10. CASE Finish
    BY <1>1, <1>10 DEF Finish, action, Waits
<1>11. CASE Close
    BY <1>2, <1>11 DEF Close, Waits
<1> QED BY <1>6, <1>7, <1>8, <1>9, <1>10, <1>11 DEF RunStep

\* Whatever may be destroyed in a step, it is the current game's, and the run
\* has been told of its removal without doubt.
Destroys ==
    /\ \A g \in Game : Touched(g)' => Touched(g) \/ g = cur
    /\ pc \in Cascade \/ \A g \in Game : Touched(g)' => Touched(g)

LEMMA DestroyedIsKept ==
    ASSUME Types, SourceInv, Destroys, UNCHANGED <<withBundle, absent, committed, ambiguous>>,
           bundled \subseteq bundled'
    PROVE  SourceIsKept'
<1> SUFFICES ASSUME NEW g \in Game, Touched(g)'
             PROVE  g \in (absent \cap (committed \ ambiguous)) /\ (withBundle => g \in bundled)
    BY DEF SourceIsKept, Touched
<1>1. CASE Touched(g)
    BY <1>1 DEF SourceInv, SourceIsKept, Touched
<1>2. CASE g = cur /\ pc \in Cascade
  <2>1. cur \notin ambiguous
      BY <1>2 DEF SourceInv, Types, RunTypes, Game, Final, Cascade
  <2> QED BY <1>2, <2>1 DEF SourceInv, Told
<1> QED BY <1>1, <1>2 DEF Destroys

\* Where a game ends, it is behind the run whatever was done to it.
LEMMA SourceEnds ==
    ASSUME Types, SourceInv, pc \notin Final,
           (pc' = "plan" /\ cur' = cur + 1) \/ (pc' = "finish" /\ cur' = cur),
           ambiguous' \subseteq ambiguous \cup {cur},
           \A g \in Game : Touched(g)' => Touched(g) \/ g = cur,
           SourceIsKept'
    PROVE  SourceInv'
<1>1. cur \in Nat /\ \A g \in Game : g \in Nat
    BY GamesAssumption DEF Types, RunTypes, Game
<1>2. \A g \in Game : g < cur \/ g = cur => g < cur' \/ pc' \in Final
    BY <1>1 DEF Final
<1>3. pc' \notin Told /\ pc' \notin {"check"} \cup Cascade
    BY DEF Told, Cascade
<1>4. \A g \in Game : Touched(g) => g < cur \/ g = cur
    BY DEF SourceInv
<1>5. \A g \in ambiguous' : g < cur' \/ pc' \in Final
  <2>1. \A g \in ambiguous' : g \in Game /\ (g < cur \/ g = cur)
      BY DEF SourceInv, Types, GameTypes, RunTypes
  <2> QED BY <1>2, <2>1
<1>6. \A g \in Game : Touched(g)' => g < cur' \/ (g = cur' /\ pc' \in Final)
  <2>1. \A g \in Game : g < cur \/ g = cur => g < cur' \/ (g = cur' /\ pc' \in Final)
      BY <1>1 DEF Final
  <2> QED BY <1>4, <2>1
<1> QED BY <1>3, <1>5, <1>6 DEF SourceInv

\* A step within a game, or to the run's end.
LEMMA SourceGoesOn ==
    ASSUME Types, SourceInv, pc \notin Final, cur' = cur,
           ambiguous' = ambiguous,
           \A g \in Game : Touched(g)' => Touched(g) \/ (g = cur /\ pc \in Cascade),
           pc \in Cascade => pc' \in Cascade \cup Final,
           pc' \in Told => cur \in absent' /\ cur \in committed',
           pc' \in {"check"} \cup Cascade => (withBundle' => cur \in bundled'),
           SourceIsKept'
    PROVE  SourceInv'
<1>1. \A g \in Game : Touched(g) => g < cur \/ (g = cur /\ pc \in Cascade)
    BY DEF SourceInv
<1>2. \A g \in ambiguous' : g < cur' \/ pc' \in Final
    BY DEF SourceInv
<1>3. \A g \in Game : Touched(g)' => g < cur' \/ (g = cur' /\ pc' \in Cascade \cup Final)
    BY <1>1
<1> QED BY <1>2, <1>3 DEF SourceInv

\* A step of the run destroys only what SourceIsKept allows.
LEMMA RunKeepsSource ==
    ASSUME Types, PendingInv, ReportsInv, SourceInv, RunStep
    PROVE  SourceInv'
<1>0. UNCHANGED <<cancels, withBundle, absent>> /\ cur \in Game
    BY RunFrame DEF Types, RunTypes
<1>1. \A status \in Results : EndGroup(status) =>
          (pc' = "plan" /\ cur' = cur + 1) \/ (pc' = "finish" /\ cur' = cur)
    BY EndGroupMoves DEF Types
\* Nothing is destroyed and no ledger entry made.
<1>2. ASSUME UNCHANGED <<source, deleted, committed, ambiguous>>, bundled \subseteq bundled'
      PROVE  /\ SourceIsKept'
             /\ ambiguous' \subseteq ambiguous \cup {cur}
             /\ \A g \in Game : Touched(g)' => Touched(g)
  <2>1. Destroys
      BY <1>2 DEF Destroys, Touched
  <2> QED BY <1>0, <1>2, <2>1, DestroyedIsKept DEF Touched
<1>3. ASSUME NEW status \in Results, EndGroup(status), pc \notin Final,
             UNCHANGED <<source, deleted, committed, ambiguous>>, bundled \subseteq bundled'
      PROVE  SourceInv'
    BY <1>1, <1>2, <1>3, SourceEnds
<1>4. CASE Plan \/ Arm \/ EmitReturns \/ ClaimSeen \/ Seal
  <2>1. /\ pc \notin Final /\ pc \notin Cascade
        /\ UNCHANGED <<source, deleted, committed, ambiguous>> /\ bundled \subseteq bundled'
        /\ \/ \E status \in Results : EndGroup(status)
           \/ cur' = cur /\ pc' \in {"arm", "emit", "waitClaim", "waitResult", "finish"}
      BY <1>4 DEF Plan, Arm, EmitReturns, ClaimSeen, Seal, Goes, Request, Results, Final, Cascade, local, ledger
  <2>2. CASE cur' = cur /\ pc' \in {"arm", "emit", "waitClaim", "waitResult", "finish"}
    <3>1. pc' \notin Told /\ pc' \notin {"check"} \cup Cascade
        BY <2>2 DEF Told, Cascade
    <3> QED BY <1>2, <2>1, <2>2, <3>1, SourceGoesOn
  <2> QED BY <1>3, <2>1, <2>2
<1>5. CASE ResultSeen \/ TimesOut
  <2>1. PICK seen : Learns(seen) /\ TakeOutcome(pending[2], seen)
      BY <1>5, OutcomeStep
  <2>2. pc \in Waits /\ UNCHANGED <<bundled, source, deleted>>
      BY <1>5, OutcomeStep
  <2>3. pc \notin Final /\ pc \notin Cascade
      BY <2>2 DEF Waits, Final, Cascade
  <2>4. ~Touched(cur) /\ \A g \in Game : Touched(g)' => Touched(g)
      BY <1>0, <2>2, <2>3 DEF SourceInv, Touched, Game
  <2>5. ASSUME committed \subseteq committed', ambiguous' \subseteq ambiguous \cup {cur}
        PROVE  SourceIsKept'
      BY <1>0, <2>2, <2>4, <2>5 DEF SourceInv, SourceIsKept, Touched
  <2>6. CASE /\ seen \in {"absent", "removed"}
             /\ pc' = "reconcile" /\ UNCHANGED <<cur, ambiguous>>
             /\ committed' = committed \cup {cur}
    <3>1. cur \in absent
      <4>1. pending \in Token /\ pending[1] = cur
          BY <2>2, TokensAreGames DEF PendingInv
      <4>2. result[pending] = seen
          BY <2>1, <2>6 DEF Learns
      <4> QED BY <2>6, <4>1, <4>2 DEF ReportsInv
    <3>2. pc' \notin {"check"} \cup Cascade
        BY <2>6 DEF Cascade
    <3>3. SourceIsKept'
        BY <2>5, <2>6
    <3> QED BY <1>0, <2>3, <2>4, <2>6, <3>1, <3>2, <3>3, SourceGoesOn
  <2>7. CASE EndGroup("ambiguous") /\ committed' = committed \cup {cur} /\ ambiguous' = ambiguous \cup {cur}
      BY <1>1, <2>3, <2>4, <2>5, <2>7, SourceEnds DEF Results
  <2>8. CASE pc' \in {"seal", "finish"} /\ UNCHANGED <<cur, committed, ambiguous>>
    <3>1. pc' \notin Told /\ pc' \notin {"check"} \cup Cascade
        BY <2>8 DEF Told, Cascade
    <3> QED BY <1>2, <2>2, <2>3, <2>8, <3>1, SourceGoesOn
  <2>9. CASE EndGroup("failed") /\ UNCHANGED <<committed, ambiguous>>
      BY <1>3, <2>2, <2>3, <2>9 DEF Results
  <2> QED BY <2>1, <2>6, <2>7, <2>8, <2>9, OutcomeMoves
<1>6. CASE Reconcile \/ Check
  <2>1. /\ pc \in {"reconcile", "check"}
        /\ UNCHANGED <<bundled, source, deleted, committed, ambiguous>>
        /\ \/ \E status \in Results : EndGroup(status)
           \/ cur' = cur /\ pc = "check" /\ pc' = "saves"
           \/ cur' = cur /\ pc' = "check" /\ Removal
      BY <1>6 DEF Reconcile, Check, Goes, Results, local
  <2>2. pc \notin Final /\ pc \notin Cascade
      BY <2>1 DEF Final, Cascade
  <2>3. CASE cur' = cur /\ pc' \in {"check", "saves"} /\ (withBundle => cur \in bundled)
      BY <1>0, <1>2, <2>1, <2>2, <2>3, SourceGoesOn DEF SourceInv, Told
  <2>4. pc = "check" => (withBundle => cur \in bundled)
      BY DEF SourceInv
  <2> QED BY <1>3, <2>1, <2>2, <2>3, <2>4 DEF Removal
<1>7. CASE CascadeStep \/ DeleteRows
  <2>1. /\ pc \in Cascade /\ UNCHANGED <<bundled, committed, ambiguous>>
        /\ \/ \E status \in Results : EndGroup(status)
           \/ cur' = cur /\ pc' \in Cascade
      BY <1>7 DEF CascadeStep, DeleteRows, After, Goes, Results, Cascade
  <2>2. \A g \in Game : Touched(g)' => Touched(g) \/ g = cur
    <3>1. CASE CascadeStep
      <4>1. deleted' = deleted /\ (source' = source \/ source' = [source EXCEPT ![cur] = @ \cup {pc}])
          BY <3>1 DEF CascadeStep
      <4>2. source \in [Game -> SUBSET {"saves", "content", "artifacts"}]
          BY DEF Types, GameTypes
      <4> QED BY <4>1, <4>2 DEF Touched
    <3>2. CASE DeleteRows
      <4>1. source' = source /\ deleted' \in {deleted, deleted \cup {cur}}
          BY <3>2 DEF DeleteRows
      <4> QED BY <4>1 DEF Touched
    <3> QED BY <1>7, <3>1, <3>2
  <2>3. Destroys
      BY <2>1, <2>2 DEF Destroys
  <2>4. SourceIsKept'
      BY <1>0, <2>1, <2>3, DestroyedIsKept
  <2>5. pc \notin Final
      BY <2>1 DEF Final, Cascade
  <2>6. CASE \E status \in Results : EndGroup(status)
      BY <1>1, <2>1, <2>2, <2>4, <2>5, <2>6, SourceEnds
  <2>7. CASE cur' = cur /\ pc' \in Cascade
      BY <1>0, <2>1, <2>2, <2>4, <2>5, <2>7, SourceGoesOn DEF SourceInv, Told
  <2> QED BY <2>1, <2>6, <2>7
<1>8. CASE Finish \/ Close
  <2>1. /\ pc \in Final /\ pc' \in Final /\ pc' \notin Told /\ pc' \notin {"check"} \cup Cascade
        /\ UNCHANGED <<cur, bundled, source, deleted, committed, ambiguous>>
      BY <1>8 DEF Finish, Close, Final, Told, Cascade, local, ledger
  <2> QED BY <1>0, <1>2, <2>1 DEF SourceInv, Touched
<1> QED BY <1>4, <1>5, <1>6, <1>7, <1>8 DEF RunStep

LEMMA RunKeepsReports == ReportsInv /\ RunStep => ReportsInv'
BY RunFrame DEF ReportsInv

\* An action is asked for once, and was not asked for before.
LEMMA RunKeepsPanel ==
    ASSUME Types, PendingInv, PanelInv, RunStep
    PROVE  PanelInv'
<1>0. UNCHANGED <<claimed, result, answer, panel, outcome, issued>> /\ cur \in Nat
    BY RunFrame, GamesAssumption DEF Types, RunTypes, Game
<1>1. ASSUME \A t \in Token : Unrequested(t)' => Unrequested(t),
             \A t \in Token : <<"event", t>> \in sent' =>
                                 <<"event", t>> \in sent \/ (panel[t] = "idle" /\ ~Unrequested(t)'),
             \A t \in Token : <<"complete", t>> \in sent' => <<"complete", t>> \in sent
      PROVE  PanelInv'
    BY <1>0, <1>1 DEF PanelInv
<1>2. ASSUME UNCHANGED sent, \A t \in Token : Unrequested(t)' => Unrequested(t)
      PROVE  PanelInv'
    BY <1>1, <1>2
<1>3. ASSUME NEW status \in Results, EndGroup(status), UNCHANGED sent
      PROVE  PanelInv'
  <2>1. (pc' = "plan" /\ cur' = cur + 1) \/ (pc' = "finish" /\ cur' = cur)
      BY <1>3, EndGroupMoves DEF Types
  <2>2. \A t \in Token : t[1] \in Nat
      BY TokensAreGames, GamesAssumption DEF Game
  <2>3. \A t \in Token : Unrequested(t)' => Unrequested(t)
      BY <1>0, <2>1, <2>2 DEF Unrequested, Waits
  <2> QED BY <1>2, <1>3, <2>3
<1>4. ASSUME NEW kind \in Kind, Request(kind), Unrequested(<<cur, kind>>),
             kind = "remove" \/ pc = "plan"
      PROVE  PanelInv'
  <2>1. /\ pc' = "emit" /\ cur' = cur /\ pending' = <<cur, kind>>
        /\ sent' \subseteq sent \cup {<<"event", <<cur, kind>>>>}
      BY <1>4, RequestMoves DEF Types
  <2>2. <<cur, kind>> \in Token /\ pending'[1] = cur /\ pending'[2] = kind
      BY <2>1, TokensAreGames DEF Types, RunTypes
  <2>3. panel[<<cur, kind>>] = "idle"
      BY <1>4, <2>2 DEF PanelInv
  <2>4. \A t \in Token : Unrequested(t)' => Unrequested(t)
      BY <1>4, <2>1, <2>2 DEF Unrequested, Waits
  <2>5. ~Unrequested(<<cur, kind>>)'
      BY <1>0, <2>1, <2>2 DEF Unrequested, Waits, Kind
  <2>6. \A t \in Token : <<"event", t>> \in sent' =>
                             <<"event", t>> \in sent \/ (panel[t] = "idle" /\ ~Unrequested(t)')
      BY <2>1, <2>3, <2>5
  <2>7. \A t \in Token : <<"complete", t>> \in sent' => <<"complete", t>> \in sent
      BY <2>1
  <2> QED BY <1>1, <2>4, <2>6, <2>7
<1>5. CASE Plan \/ Arm
  <2>1. /\ pc \in {"plan", "arm"}
        /\ \/ UNCHANGED sent /\ \E status \in Results : EndGroup(status)
           \/ UNCHANGED sent /\ pc = "plan" /\ pc' = "arm" /\ cur' = cur
           \/ \E kind \in Kind : Request(kind) /\ (kind = "capture" => pc = "plan")
      BY <1>5 DEF Plan, Arm, Kind, Results, Goes, action, wire
  <2>2. ASSUME NEW kind \in Kind, kind = "capture" => pc = "plan" PROVE Unrequested(<<cur, kind>>)
      BY <2>1, <2>2 DEF Unrequested, Kind
  <2>3. CASE sent' = sent /\ pc = "plan" /\ pc' = "arm" /\ cur' = cur
      BY <1>2, <2>3 DEF Unrequested, Waits
  <2>4. CASE \E kind \in Kind : Request(kind) /\ (kind = "capture" => pc = "plan")
    <3>1. PICK kind \in Kind : Request(kind) /\ (kind = "capture" => pc = "plan")
        BY <2>4
    <3>2. Unrequested(<<cur, kind>>)
        BY <2>2, <3>1
    <3>3. kind = "remove" \/ pc = "plan"
        BY <3>1 DEF Kind
    <3> QED BY <1>4, <3>1, <3>2, <3>3
  <2> QED BY <1>3, <2>1, <2>3, <2>4
<1>6. CASE EmitReturns \/ ClaimSeen \/ Finish \/ Close
  <2>1. /\ UNCHANGED <<cur, sent>>
        /\ (pc' \in Waits /\ pc \in Waits /\ pending' = pending) \/ pc' \in Final
      BY <1>6 DEF EmitReturns, ClaimSeen, Finish, Close, Waits, Final, action, wire
  <2>2. \A t \in Token : Unrequested(t)' => Unrequested(t)
      BY <2>1 DEF Unrequested, Waits, Final
  <2> QED BY <1>2, <2>1, <2>2
<1>7. CASE ResultSeen \/ TimesOut
  <2>1. PICK seen : Learns(seen) /\ TakeOutcome(pending[2], seen)
      BY <1>7, OutcomeStep
  <2>2. UNCHANGED sent /\ pc \in Waits
      BY <1>7, OutcomeStep
  <2>3. CASE EndGroup("ambiguous") \/ EndGroup("failed")
      BY <1>3, <2>2, <2>3 DEF Results
  <2>4. CASE pc' \in {"reconcile", "finish"} /\ cur' = cur
    <3>1. \A t \in Token : Unrequested(t)' => Unrequested(t)
        BY <2>4 DEF Unrequested, Waits
    <3> QED BY <1>2, <2>2, <3>1
  <2>5. CASE seen = "snapshot" /\ pc' = "seal" /\ cur' = cur
    <3>1. pending \in Token
        BY <2>2 DEF PendingInv
    <3>2. pending[2] = "capture"
      <4>1. result[pending] = "snapshot"
          BY <2>1, <2>5 DEF Learns
      <4>2. outcome[pending] = "snapshot"
          BY <3>1, <4>1 DEF PanelInv
      <4> QED BY <3>1, <4>2 DEF PanelInv
    <3>3. \A t \in Token : Unrequested(t)' => Unrequested(t)
        BY <2>2, <2>5, <3>2 DEF Unrequested, Waits
    <3> QED BY <1>2, <2>2, <3>3
  <2> QED BY <2>1, <2>3, <2>4, <2>5, OutcomeMoves
<1>8. CASE Reconcile \/ Seal \/ Check \/ CascadeStep \/ DeleteRows
  <2>1. /\ UNCHANGED sent
        /\ \/ \E status \in Results : EndGroup(status)
           \/ pc' \in {"check", "finish"} \cup Cascade /\ cur' = cur
           \/ pc = "seal" /\ pc' = "arm" /\ cur' = cur
      BY <1>8 DEF Reconcile, Seal, Check, CascadeStep, DeleteRows, After, Cascade, Goes, Results, wire
  <2>2. CASE pc' \in {"check", "finish"} \cup Cascade /\ cur' = cur
    <3>1. \A t \in Token : Unrequested(t)' => Unrequested(t)
        BY <2>2 DEF Unrequested, Waits, Cascade
    <3> QED BY <1>2, <2>1, <3>1
  <2>3. CASE pc = "seal" /\ pc' = "arm" /\ cur' = cur
    <3>1. \A t \in Token : Unrequested(t)' => Unrequested(t)
        BY <2>3 DEF Unrequested, Waits
    <3> QED BY <1>2, <2>1, <3>1
  <2> QED BY <1>3, <2>1, <2>2, <2>3
<1> QED BY <1>5, <1>6, <1>7, <1>8 DEF RunStep

\* A game that ends now was told what may have changed for it.
LEMMA ResultEnds ==
    ASSUME Types, ResultInv, pc \notin Final,
           NEW status \in Results, told' = [told EXCEPT ![cur] = status],
           (pc' = "plan" /\ cur' = cur + 1) \/ (pc' = "finish" /\ cur' = cur),
           UNCHANGED <<claimed, result, cutSending, cutWaiting>>,
           cancels' = cancels \/ cancels < 2,
           committed' = committed \/ committed' = committed \cup {cur},
           deleted' = deleted \/ deleted' = deleted \cup {cur},
           cur \in deleted' => status = "removed" \/ (cancels' = 2 /\ status = "partial"),
           status = "removed" => cur \in deleted',
           status \in Unreported /\ (<<cur, "remove">> \in claimed \/ cur \in committed') =>
               cur \notin committed' /\ result[<<cur, "remove">>] = "failed"
    PROVE  ResultInv'
<1>1. cur \in Game /\ \A g \in Game : g \in Nat
    BY GamesAssumption DEF Types, RunTypes, Game
<1>2. committed \subseteq Game /\ deleted \subseteq Game /\ told \in [Game -> Results]
    BY DEF Types, GameTypes, RunTypes
<1>3. told'[cur] = status /\ \A g \in Game \ {cur} : told'[g] = told[g]
    BY <1>1, <1>2
<1>4. \A g \in Game : /\ Past(g)' <=> g < cur \/ g = cur
                      /\ Past(g) <=> g < cur
  <2>1. CASE pc' = "plan" /\ cur' = cur + 1
      BY <1>1, <2>1 DEF Past, Final
  <2>2. CASE pc' = "finish" /\ cur' = cur
      BY <1>1, <2>2 DEF Past, Final
  <2> QED BY <2>1, <2>2
<1>5. cur \notin deleted
    BY <1>1, <1>4 DEF ResultInv
<1>6. \A g \in committed' : g < cur' \/ (g = cur' /\ pc' \in Told \cup Final)
  <2>1. \A g \in committed' : g \in Game /\ (g < cur \/ g = cur)
      BY <1>1, <1>2 DEF ResultInv
  <2>2. \A g \in Game : g < cur \/ g = cur => Past(g)'
      BY <1>4
  <2> QED BY <2>1, <2>2 DEF Past
<1>7. ASSUME NEW g \in Game, Past(g)', <<g, "remove">> \in claimed' \/ g \in committed'
      PROVE  \/ told'[g] \notin Unreported
             \/ g \in (cutSending \cup cutWaiting)'
             \/ g \notin committed' /\ result'[<<g, "remove">>] = "failed"
  <2>1. CASE g = cur
      BY <1>3, <1>7, <2>1
  <2>2. CASE g # cur
      BY <1>3, <1>4, <1>7, <2>2 DEF ResultInv
  <2> QED BY <2>1, <2>2
<1>8. ASSUME NEW g \in deleted'
      PROVE  Past(g)' /\ (told'[g] = "removed" \/ (cancels' = 2 /\ told'[g] = "partial"))
  <2>1. CASE g = cur
      BY <1>1, <1>3, <1>4, <1>8, <2>1
  <2>2. CASE g # cur /\ cancels' = cancels
      BY <1>2, <1>3, <1>4, <1>8, <2>2 DEF ResultInv
  <2>3. CASE g # cur /\ cancels < 2
    <3>1. g \in deleted /\ g \in Game /\ cancels # 2
        BY <1>2, <1>8, <2>3 DEF Types, RunTypes
    <3> QED BY <1>3, <1>4, <2>3, <3>1 DEF ResultInv
  <2> QED BY <2>1, <2>2, <2>3
<1>9. \A g \in Game : told'[g] = "removed" => g \in deleted'
    BY <1>3 DEF ResultInv
<1> QED BY <1>6, <1>7, <1>8, <1>9 DEF ResultInv

\* A step within a game tells nothing.
LEMMA ResultGoesOn ==
    ASSUME Types, ResultInv, pc \notin Final,
           UNCHANGED <<cur, told, claimed, result, deleted>>,
           cancels' = cancels \/ cancels < 2,
           committed' = committed \/ (committed' = committed \cup {cur} /\ pc' \in Told),
           pc \in Told => pc' \in Told \cup Final,
           cutSending \subseteq cutSending', cutWaiting \subseteq cutWaiting',
           pc' \in Final =>
               \/ <<cur, "remove">> \notin claimed /\ cur \notin committed
               \/ cur \in cutSending' \cup cutWaiting'
    PROVE  ResultInv'
<1>1. cur \in Game /\ \A g \in Game : g \in Nat
    BY GamesAssumption DEF Types, RunTypes, Game
<1>2. committed \subseteq Game /\ deleted \subseteq Game
    BY DEF Types, GameTypes
<1>3. \A g \in Game : /\ Past(g)' => Past(g) \/ (g = cur /\ pc' \in Final)
                      /\ Past(g) => Past(g)'
    BY DEF Past
<1>4. \A g \in committed' : g < cur' \/ (g = cur' /\ pc' \in Told \cup Final)
    BY DEF ResultInv
<1>5. ASSUME NEW g \in Game, Past(g)', <<g, "remove">> \in claimed' \/ g \in committed'
      PROVE  \/ told'[g] \notin Unreported
             \/ g \in (cutSending \cup cutWaiting)'
             \/ g \notin committed' /\ result'[<<g, "remove">>] = "failed"
  <2>1. CASE g = cur /\ pc' \in Final
      BY <1>5, <2>1 DEF Told, Final, Cascade
  <2>2. CASE Past(g) /\ g # cur
      BY <1>5, <2>2 DEF ResultInv
  <2>3. ~(g = cur /\ Past(g))
      BY <1>1 DEF Past
  <2> QED BY <1>3, <1>5, <2>1, <2>2, <2>3
<1>6. \A g \in deleted' :
          Past(g)' /\ (told'[g] = "removed" \/ (cancels' = 2 /\ told'[g] = "partial"))
  <2>1. CASE cancels' = cancels
      BY <1>2, <1>3, <2>1 DEF ResultInv
  <2>2. CASE cancels < 2
    <3>1. cancels # 2
        BY <2>2 DEF Types, RunTypes
    <3> QED BY <1>2, <1>3, <3>1 DEF ResultInv
  <2> QED BY <2>1, <2>2
<1>7. \A g \in Game : told'[g] = "removed" => g \in deleted'
    BY DEF ResultInv
<1> QED BY <1>4, <1>5, <1>6, <1>7 DEF ResultInv

\* Until its removal is asked for, or while its capture is, a game's removal was
\* not granted; until the run was told of it, the ledger has nothing of it.
LEMMA NothingYet ==
    ASSUME Types, PendingInv, PanelInv, ResultInv
    PROVE  /\ pc \in {"plan", "arm", "seal"} => <<cur, "remove">> \notin claimed
           /\ pc \in Waits /\ pending[2] = "capture" => <<cur, "remove">> \notin claimed
           /\ pc \notin Told \cup Final => cur \notin committed
           /\ pc \notin Final => cur \notin deleted
<1>1. cur \in Game /\ ~(cur < cur)
    BY GamesAssumption DEF Types, RunTypes, Game
<1>2. <<cur, "remove">> \in Token /\ <<cur, "remove">>[1] = cur /\ <<cur, "remove">>[2] = "remove"
    BY <1>1 DEF Token, Kind
<1>3. Unrequested(<<cur, "remove">>) => <<cur, "remove">> \notin claimed
    BY <1>2 DEF PanelInv
<1>4. \/ pc \in {"plan", "arm", "seal"}
      \/ pc \in Waits /\ pending[2] = "capture"
      => Unrequested(<<cur, "remove">>)
    BY <1>2 DEF Unrequested
<1>5. pc \notin Told \cup Final => cur \notin committed
    BY <1>1 DEF ResultInv
<1>6. pc \notin Final => cur \notin deleted
    BY <1>1 DEF ResultInv, Past
<1> QED BY <1>3, <1>4, <1>5, <1>6

\* A step of the run tells of a game what became of it.
LEMMA RunKeepsResult ==
    ASSUME Types, PendingInv, PanelInv, ResultInv, RunStep
    PROVE  ResultInv'
<1>0. UNCHANGED <<cancels, claimed, result, cutSending, cutWaiting>> /\ cur \in Game
    BY RunFrame DEF Types, RunTypes
<1>1. ASSUME NEW status \in Results, EndGroup(status), pc \notin Final,
             committed' = committed \/ committed' = committed \cup {cur},
             deleted' = deleted \/ (deleted' = deleted \cup {cur} /\ status = "removed"),
             status = "removed" => cur \in deleted',
             status \in Unreported /\ (<<cur, "remove">> \in claimed \/ cur \in committed') =>
                 cur \notin committed' /\ result[<<cur, "remove">>] = "failed"
      PROVE  ResultInv'
  <2>1. /\ told' = [told EXCEPT ![cur] = status]
        /\ (pc' = "plan" /\ cur' = cur + 1) \/ (pc' = "finish" /\ cur' = cur)
      BY <1>1, EndGroupMoves DEF Types
  <2>2. cur \in deleted' => status = "removed"
      BY <1>1, NothingYet
  <2>3. deleted' = deleted \/ deleted' = deleted \cup {cur}
      BY <1>1
  <2> QED BY <1>0, <1>1, <2>1, <2>2, <2>3, ResultEnds
\* A game that nothing was done for may be told of anything but a removal.
<1>2. ASSUME NEW status \in Results, EndGroup(status), status # "removed",
             UNCHANGED <<committed, deleted>>,
             pc \in {"plan", "arm", "seal"} \/ (pc \in Told /\ status \notin Unreported)
      PROVE  ResultInv'
  <2>1. pc \notin Final
      BY <1>2 DEF Final, Told, Cascade
  <2>2. status \in Unreported => <<cur, "remove">> \notin claimed /\ cur \notin committed
      BY <1>2, NothingYet DEF Told, Cascade, Final
  <2> QED BY <1>1, <1>2, <2>1, <2>2
<1>3. CASE Plan \/ Arm \/ Seal
  <2>1. /\ pc \in {"plan", "arm", "seal"} /\ UNCHANGED <<committed, deleted>>
        /\ \/ EndGroup("skipped") \/ EndGroup("failed")
           \/ UNCHANGED <<cur, told>>
      BY <1>3 DEF Plan, Arm, Seal, Goes, Request, local
  <2>2. CASE EndGroup("skipped") \/ EndGroup("failed")
      BY <1>2, <2>1, <2>2 DEF Results
  <2>3. CASE UNCHANGED <<cur, told>>
    <3>1. <<cur, "remove">> \notin claimed /\ cur \notin committed /\ pc \notin Told /\ pc \notin Final
        BY <2>1, NothingYet DEF Told, Cascade, Final
    <3> QED BY <1>0, <2>1, <2>3, <3>1, ResultGoesOn
  <2> QED BY <2>1, <2>2, <2>3
<1>4. CASE EmitReturns \/ ClaimSeen
  <2>1. /\ UNCHANGED <<cur, told, committed, deleted>>
        /\ pc \notin Told /\ pc \notin Final /\ pc' \notin Final
      BY <1>4 DEF EmitReturns, ClaimSeen, Told, Cascade, Final, local, ledger
  <2> QED BY <1>0, <2>1, ResultGoesOn
<1>5. CASE ResultSeen \/ TimesOut
  <2>1. PICK seen : Learns(seen) /\ TakeOutcome(pending[2], seen)
      BY <1>5, OutcomeStep
  <2>2. pc \in Waits /\ UNCHANGED deleted
      BY <1>5, OutcomeStep
  <2>3. pc \notin Told /\ pc \notin Final
      BY <2>2 DEF Waits, Told, Cascade, Final
  <2>4. pending \in Token /\ pending[1] = cur
      BY <2>2, TokensAreGames DEF PendingInv
  <2>5. cur \notin committed /\ (pending[2] = "capture" => <<cur, "remove">> \notin claimed)
      BY <2>2, <2>3, NothingYet
  <2>6. CASE pc' = "reconcile" /\ UNCHANGED <<cur, told>> /\ committed' = committed \cup {cur}
    <3>1. pc' \in Told /\ pc' \notin Final
        BY <2>6 DEF Told, Final
    <3> QED BY <1>0, <2>2, <2>3, <2>6, <3>1, ResultGoesOn
  <2>7. CASE EndGroup("ambiguous") /\ committed' = committed \cup {cur}
      BY <1>1, <2>2, <2>3, <2>7 DEF Results, Unreported
  <2>8. CASE seen = "snapshot" /\ UNCHANGED <<cur, told, committed>>
    <3>1. result[pending] = "snapshot"
        BY <2>1, <2>8 DEF Learns
    <3>2. outcome[pending] = "snapshot"
        BY <2>4, <3>1 DEF PanelInv
    <3>3. pending[2] = "capture"
        BY <2>4, <3>2 DEF PanelInv
    <3> QED BY <1>0, <2>2, <2>3, <2>5, <2>8, <3>3, ResultGoesOn
  <2>9. CASE /\ seen \notin {"absent", "removed", "snapshot"}
             /\ ~(pending[2] = "remove" /\ seen \in {"attempted", "unknown"})
             /\ EndGroup("failed") /\ UNCHANGED committed
    <3>1. ASSUME <<cur, "remove">> \in claimed PROVE result[<<cur, "remove">>] = "failed"
      <4>1. pending = <<cur, "remove">>
          BY <2>4, <2>5, <3>1, TokensAreGames DEF Kind
      <4>2. pending[2] = "remove" /\ pending \in claimed
          BY <3>1, <4>1
      <4>3. result[pending] \in Report \cup {"none"}
          BY <2>4 DEF Types, ActionTypes
      <4>4. seen = result[pending] /\ result[pending] # "none"
          BY <2>1, <2>9, <4>2 DEF Learns
      <4> QED BY <2>9, <4>1, <4>2, <4>3, <4>4 DEF Report
    <3> QED BY <1>1, <2>2, <2>3, <2>5, <2>9, <3>1 DEF Results
  <2> QED BY <2>1, <2>6, <2>7, <2>8, <2>9, OutcomeMoves
<1>6. CASE Reconcile \/ Check \/ CascadeStep
  <2>1. /\ pc \in Told /\ UNCHANGED <<committed, deleted>>
        /\ EndGroup("partial") \/ (UNCHANGED <<cur, told>> /\ pc' \in Told)
      BY <1>6 DEF Reconcile, Check, CascadeStep, After, Goes, Told, Cascade, local
  <2>2. CASE EndGroup("partial")
      BY <1>2, <2>1, <2>2 DEF Results, Unreported
  <2>3. CASE UNCHANGED <<cur, told>> /\ pc' \in Told
    <3>1. pc \notin Final /\ pc' \notin Final
        BY <2>1, <2>3 DEF Told, Cascade, Final
    <3> QED BY <1>0, <2>1, <2>3, <3>1, ResultGoesOn
  <2> QED BY <2>1, <2>2, <2>3
<1>7. CASE DeleteRows
  <2>1. pc \in Told /\ pc \notin Final /\ UNCHANGED committed
      BY <1>7 DEF DeleteRows, Told, Cascade, Final
  <2>2. CASE EndGroup("removed") /\ deleted' = deleted \cup {cur}
      BY <1>1, <2>1, <2>2 DEF Results, Unreported
  <2>3. CASE EndGroup("partial") /\ UNCHANGED deleted
      BY <1>2, <2>1, <2>3 DEF Results, Unreported
  <2> QED BY <1>7, <2>2, <2>3 DEF DeleteRows
<1>8. CASE Finish \/ Close
  <2>1. UNCHANGED <<cur, told, committed, deleted>> /\ pc \in Final /\ pc' \in Final
      BY <1>8 DEF Finish, Close, Final, local, ledger
  <2> QED BY <1>0, <2>1 DEF ResultInv, Past
<1> QED BY <1>3, <1>4, <1>5, <1>6, <1>7, <1>8 DEF RunStep

-----------------------------------------------------------------------------
(* A cancellation, at any await of the run. *)

LEMMA CancelMoves ==
    ASSUME Types, PendingInv, CancelPrune \/ Shutdown
    PROVE  /\ CutOff /\ cancels \in 0..1 /\ cancels' = cancels + 1
           /\ closed' \in BOOLEAN /\ (closed' \/ cancels' < 2)
<1>1. CutOff /\ cancels' = cancels + 1
    BY CutOffMoves DEF CancelPrune, Shutdown
<1>2. CASE CancelPrune
    BY <1>1, <1>2 DEF CancelPrune, Types, RunTypes
<1>3. CASE Shutdown
  <2>1. ~closed /\ closed' = TRUE
      BY <1>3 DEF Shutdown
  <2>2. cancels < 2 /\ cancels \in 0..2
      BY <2>1 DEF PendingInv, Types, RunTypes
  <2>3. cancels \in 0..1
      BY <2>2
  <2> QED BY <1>1, <2>1, <2>3
<1> QED BY <1>2, <1>3

LEMMA CancelKeepsTypes ==
    ASSUME Types, PendingInv, CancelPrune \/ Shutdown
    PROVE  Types'
<1>1. CutOff /\ cancels' \in 0..2 /\ closed' \in BOOLEAN
    BY CancelMoves
<1>2. /\ UNCHANGED <<cur, withBundle, expired, claimed, result, validating, sent, answer, panel,
                     outcome, stale, absent, issued, committed, ambiguous, changes, deaths, resends>>
      /\ (CutStays /\ CutKept /\ told' = told) \/ CutSends \/ CutWaits \/ CutCascades \/ CutChecks
    BY <1>1, CutOffMoves
<1>3. cur \in Game
    BY DEF Types, RunTypes
<1>4. PanelTypes' /\ BoundTypes'
    BY <1>2 DEF Types, PanelTypes, BoundTypes
<1>5. told' \in [Game -> Results]
  <2>1. told' = told \/ told' = [told EXCEPT ![cur] = "partial"]
      BY <1>2 DEF CutSends, CutWaits, CutCascades, CutChecks
  <2> QED BY <1>3, <2>1 DEF Types, RunTypes, Results
<1>6. pc' \in Awaits
  <2>1. pc' \in {"lastWait", "finish", "closing"} \/ pc' = pc
      BY <1>2 DEF CutStays, CutSends, CutWaits, CutCascades, CutChecks
  <2> QED BY <2>1 DEF Types, RunTypes, Awaits
<1>7. pending' \in {pending, NoToken}
    BY <1>2 DEF CutKept, CutSends, CutWaits, CutCascades, CutChecks
<1>8. RunTypes' /\ ActionTypes'
    BY <1>1, <1>2, <1>5, <1>6, <1>7 DEF Types, RunTypes, ActionTypes
<1>9. /\ bound' \subseteq bound /\ UNCHANGED <<back, bundled>>
      /\ deleted' \in {deleted, deleted \cup {cur}}
      /\ cutSending' \in {cutSending, cutSending \cup {cur}}
      /\ cutWaiting' \in {cutWaiting, cutWaiting \cup {cur}}
      /\ source' = source \/ \E what \in {"saves", "content", "artifacts"} :
                                source' = [source EXCEPT ![cur] = @ \cup {what}]
  <2>1. CASE (CutStays /\ CutKept) \/ CutChecks
      BY <2>1 DEF CutKept, CutChecks
  <2>2. CASE CutSends \/ CutWaits
      BY <2>2 DEF CutLocal, CutSends, CutWaits
  <2>3. CASE CutCascades
      BY <2>3 DEF CutCascades
  <2> QED BY <1>2, <2>1, <2>2, <2>3
<1>10. source' \in [Game -> SUBSET {"saves", "content", "artifacts"}]
    BY <1>3, <1>9 DEF Types, GameTypes
<1>11. GameTypes'
    BY <1>2, <1>3, <1>9, <1>10 DEF Types, GameTypes
<1> QED BY <1>4, <1>8, <1>11 DEF Types

LEMMA CancelKeepsPending ==
    ASSUME Types, PendingInv, CancelPrune \/ Shutdown
    PROVE  PendingInv'
<1>1. CutOff /\ (closed' \/ cancels' < 2)
    BY CancelMoves
<1>2. /\ UNCHANGED <<cur, claimed>>
      /\ (CutStays /\ CutKept /\ told' = told) \/ CutSends \/ CutWaits \/ CutCascades \/ CutChecks
    BY <1>1, CutOffMoves
<1>3. pc \notin Waits /\ pc \notin {"finish", "closing"} => pending = NoToken
    BY DEF PendingInv
<1>4. CASE pending' = NoToken /\ pc' \notin Waits
    BY <1>1, <1>4 DEF PendingInv, Waits
<1>5. CASE CutStays /\ CutKept
  <2>1. CASE pc \in {"waitClaim", "waitResult"} /\ pending \in claimed /\ pc' = "lastWait"
      BY <1>1, <1>2, <1>5, <2>1 DEF PendingInv, Waits, CutKept
  <2>2. CASE pc \in Cascade \cup {"reconcile", "seal"} /\ pc' = pc
    <3>1. pc \notin Waits /\ pending = NoToken
        BY <1>3, <2>2 DEF Cascade, Waits
    <3> QED BY <1>4, <1>5, <2>2, <3>1 DEF CutKept
  <2>3. CASE pc \in {"plan", "seal", "arm"} /\ pc' = "finish"
    <3>1. pending = NoToken
        BY <1>3, <2>3 DEF Waits
    <3> QED BY <1>4, <1>5, <2>3, <3>1 DEF CutKept, Waits
  <2>4. CASE pc = "finish" /\ pc' = "closing"
      BY <1>1, <1>2, <1>5, <2>4 DEF PendingInv, Waits, CutKept
  <2> QED BY <1>5, <2>1, <2>2, <2>3, <2>4 DEF CutStays
<1>6. CASE CutSends
  <2>1. pc' = "finish" /\ pending' = pending /\ cur \in cutSending' /\ (pending # NoToken => pending[1] = cur)
      BY <1>6 DEF CutSends, PendingInv
  <2> QED BY <1>1, <1>2, <2>1 DEF PendingInv, Waits
<1>7. CASE CutWaits
    BY <1>4, <1>7 DEF CutWaits, Waits
<1>8. CASE CutCascades \/ CutChecks
  <2>1. pc \in Cascade \cup {"reconcile", "check"} /\ pc' = "finish" /\ pending' = pending
      BY <1>8 DEF CutCascades, CutChecks, CutKept
  <2>2. pending = NoToken
      BY <1>3, <2>1 DEF Cascade, Waits
  <2> QED BY <1>4, <2>1, <2>2 DEF Waits
<1> QED BY <1>2, <1>5, <1>6, <1>7, <1>8

LEMMA CancelKeepsSource ==
    ASSUME Types, PendingInv, SourceInv, CancelPrune \/ Shutdown
    PROVE  SourceInv'
<1>1. /\ UNCHANGED <<cur, withBundle, absent, committed, ambiguous>>
      /\ (CutStays /\ CutKept /\ told' = told) \/ CutSends \/ CutWaits \/ CutCascades \/ CutChecks
    BY CancelMoves, CutOffMoves
<1>2. cur \in Game
    BY DEF Types, RunTypes
<1>3. ASSUME UNCHANGED <<bundled, source, deleted>>
      PROVE  SourceIsKept' /\ \A g \in Game : Touched(g)' => Touched(g)
    BY <1>1, <1>3 DEF SourceInv, SourceIsKept, Touched
\* Nothing was destroyed, and the run goes to its end or to its last wait.
<1>4. ASSUME UNCHANGED <<bundled, source, deleted>>, pc \notin Final,
             pc' \in {"lastWait", "finish"}, pc' = "lastWait" => pc \in Waits
      PROVE  SourceInv'
  <2>1. pc' \notin Told /\ pc' \notin {"check"} \cup Cascade
      BY <1>4 DEF Told, Cascade
  <2>2. pc \in Cascade => pc' \in Final
      BY <1>4 DEF Cascade, Waits, Final
  <2> QED BY <1>1, <1>3, <1>4, <2>1, <2>2, SourceGoesOn
<1>5. CASE CutStays /\ CutKept
  <2>1. UNCHANGED <<bundled, source, deleted>>
      BY <1>5 DEF CutKept
  <2>2. CASE pc' = pc
      BY <1>1, <1>3, <2>1, <2>2 DEF SourceInv, Touched
  <2>3. CASE pc = "finish" /\ pc' = "closing"
    <3>1. pc \in Final /\ pc' \in Final /\ pc' \notin Told /\ pc' \notin {"check"} \cup Cascade
        BY <2>3 DEF Final, Told, Cascade
    <3> QED BY <1>1, <1>3, <2>1, <3>1 DEF SourceInv, Touched
  <2>4. CASE pc \in {"waitClaim", "waitResult", "plan", "seal", "arm"} /\ pc' \in {"lastWait", "finish"}
             /\ (pc' = "lastWait" => pc \in Waits)
      BY <1>4, <2>1, <2>4 DEF Final
  <2> QED BY <1>5, <2>2, <2>3, <2>4 DEF CutStays, Waits
<1>6. CASE CutSends \/ CutWaits \/ CutChecks
  <2>1. UNCHANGED <<bundled, source, deleted>> /\ pc' = "finish" /\ pc \in Waits \cup {"check"}
      BY <1>6 DEF CutSends, CutWaits, CutChecks, CutLocal, CutKept, Waits
  <2> QED BY <1>4, <2>1 DEF Final, Waits
<1>7. CASE CutCascades
  <2>1. /\ pc \notin Final /\ pc' = "finish" /\ bundled' = bundled
        /\ source' = source \/ (pc \in Cascade /\ \E what \in {"saves", "content", "artifacts"} :
                                   source' = [source EXCEPT ![cur] = @ \cup {what}])
        /\ deleted' = deleted \/ (pc \in Cascade /\ deleted' = deleted \cup {cur})
      BY <1>7 DEF CutCascades, Cascade, Final
  <2>2. source \in [Game -> SUBSET {"saves", "content", "artifacts"}]
      BY DEF Types, GameTypes
  <2>3. \A g \in Game : Touched(g)' => Touched(g) \/ (g = cur /\ pc \in Cascade)
      BY <2>1, <2>2 DEF Touched
  <2>4. Destroys
      BY <2>3 DEF Destroys
  <2>5. SourceIsKept'
      BY <1>1, <2>1, <2>4, DestroyedIsKept
  <2> QED BY <1>1, <2>1, <2>3, <2>5, SourceEnds
<1> QED BY <1>1, <1>5, <1>6, <1>7

LEMMA CancelKeepsPanel ==
    ASSUME Types, PendingInv, PanelInv, CancelPrune \/ Shutdown
    PROVE  PanelInv'
<1>1. /\ UNCHANGED <<cur, claimed, result, sent, answer, panel, outcome, issued>>
      /\ (CutStays /\ CutKept /\ told' = told) \/ CutSends \/ CutWaits \/ CutCascades \/ CutChecks
    BY CancelMoves, CutOffMoves
<1>2. \/ pc' = pc /\ pending' = pending
      \/ pc \in Waits /\ pc' = "lastWait" /\ pending' = pending
      \/ pc' \in Final
    BY <1>1 DEF CutStays, CutSends, CutWaits, CutCascades, CutChecks, CutKept, Waits, Final
<1>3. \A t \in Token : Unrequested(t)' => Unrequested(t)
    BY <1>1, <1>2 DEF Unrequested, Waits, Final
<1> QED BY <1>1, <1>3 DEF PanelInv

LEMMA CancelKeepsResult ==
    ASSUME Types, PendingInv, PanelInv, ResultInv, CancelPrune \/ Shutdown
    PROVE  ResultInv'
<1>1. /\ UNCHANGED <<cur, claimed, result, committed>>
      /\ (CutStays /\ CutKept /\ told' = told) \/ CutSends \/ CutWaits \/ CutCascades \/ CutChecks
    BY CancelMoves, CutOffMoves
<1>2. cancels < 2 /\ cancels # 2 /\ (cancels > 0 => cancels' = 2)
    BY CancelMoves
<1>3. CASE CutStays /\ CutKept /\ told' = told
  <2>1. UNCHANGED <<deleted, cutSending, cutWaiting>>
      BY <1>3 DEF CutKept
  <2>2. CASE pc \notin Final /\ (pc' = pc \/ pc' = "lastWait") /\ (pc \in Told => pc' = pc)
      BY <1>1, <1>2, <1>3, <2>1, <2>2, ResultGoesOn DEF Final
  <2>3. CASE pc \in {"plan", "seal", "arm"} /\ pc' = "finish"
    <3>1. pc \notin Told /\ pc \notin Final
        BY <2>3 DEF Told, Cascade, Final
    <3>2. <<cur, "remove">> \notin claimed /\ cur \notin committed
        BY <2>3, <3>1, NothingYet
    <3> QED BY <1>1, <1>2, <1>3, <2>1, <3>1, <3>2, ResultGoesOn
  <2>4. CASE pc = "finish" /\ pc' = "closing"
    <3>1. pc \in Final /\ pc' \in Final
        BY <2>4 DEF Final
    <3> QED BY <1>1, <1>2, <1>3, <2>1, <3>1 DEF ResultInv, Past
  <2>5. pc \in {"waitClaim", "waitResult"} => pc \notin Told /\ pc \notin Final
      BY DEF Told, Cascade, Final
  <2>6. pc \in Cascade \cup {"reconcile", "seal"} => pc \notin Final
      BY DEF Cascade, Final
  <2> QED BY <1>3, <2>2, <2>3, <2>4, <2>5, <2>6 DEF CutStays
<1>4. CASE CutSends \/ CutWaits
  <2>1. /\ UNCHANGED <<told, deleted>> /\ pc \in Waits
        /\ cutSending \subseteq cutSending' /\ cutWaiting \subseteq cutWaiting'
        /\ \/ cur \in cutSending' \cup cutWaiting'
           \/ pending \notin claimed
      BY <1>4 DEF CutSends, CutWaits, CutLocal, Waits
  <2>2. pc \notin Told /\ pc \notin Final
      BY <2>1 DEF Waits, Told, Cascade, Final
  <2>3. cur \notin committed /\ (pending[2] = "capture" => <<cur, "remove">> \notin claimed)
      BY <2>1, <2>2, NothingYet
  <2>4. pending = <<cur, "capture">> \/ pending = <<cur, "remove">>
      BY <2>1, TokensAreGames DEF PendingInv, Kind
  <2>5. \/ <<cur, "remove">> \notin claimed
        \/ cur \in cutSending' \cup cutWaiting'
      BY <2>1, <2>3, <2>4
  <2> QED BY <1>1, <1>2, <2>1, <2>2, <2>3, <2>5, ResultGoesOn
<1>5. CASE CutCascades \/ CutChecks
  <2>1. /\ pc \in Cascade \cup {"reconcile", "check"} /\ pc' = "finish"
        /\ told' = [told EXCEPT ![cur] = "partial"]
        /\ UNCHANGED <<cutSending, cutWaiting>>
        /\ deleted' = deleted \/ (deleted' = deleted \cup {cur} /\ cancels > 0)
      BY <1>5 DEF CutCascades, CutChecks, CutKept
  <2>2. pc \notin Final
      BY <2>1 DEF Cascade, Final
  <2>3. cur \notin deleted
      BY <2>2, NothingYet
  <2> QED BY <1>1, <1>2, <2>1, <2>2, <2>3, ResultEnds DEF Results, Unreported
<1> QED BY <1>1, <1>3, <1>4, <1>5

-----------------------------------------------------------------------------
(* The host's answers to the panel. *)

HostStep == Expires \/ ClaimDecided \/ \E t \in Token : ClaimArrives(t) \/ CompleteArrives(t)

\* A claim is granted for the action the run asked for, if at all; a report is
\* what the panel says of a claimed action.
LEMMA HostMoves ==
    ASSUME Types, HostStep
    PROVE  /\ UNCHANGED <<pc, cur, cancels, closed, withBundle, pending, panel, outcome, stale, absent,
                          issued, bound, back, bundled, source, deleted, committed, ambiguous, told,
                          cutSending, cutWaiting, changes, deaths, resends>>
           /\ expired' \in BOOLEAN /\ validating' \in Token \cup {NoToken}
           /\ claimed' = claimed \/ (pending \in Token /\ claimed' = claimed \cup {pending})
           /\ result' = result \/ \E t \in Token : /\ <<"complete", t>> \in sent /\ result[t] = "none"
                                                   /\ result' = [result EXCEPT ![t] = outcome[t]]
           /\ sent' \subseteq sent
           /\ answer' = answer \/ \E t \in Token, what \in {"ok", "refused"} :
                                     /\ answer' = [answer EXCEPT ![t] = what]
                                     /\ what = "ok" => t \in claimed'
<1> USE DEF action, wire, js, steam, local, ledger, bounds, run
<1>1. CASE Expires
    BY <1>1 DEF Expires, Types, ActionTypes
<1>2. CASE ClaimDecided
  <2>1. validating \in Token /\ expired' \in BOOLEAN
      BY <1>2 DEF ClaimDecided, Types, ActionTypes
  <2>2. CASE MayClaim(validating)
      BY <1>2, <2>1, <2>2 DEF ClaimDecided, MayClaim, Answers
  <2>3. CASE ~MayClaim(validating)
      BY <1>2, <2>1, <2>3 DEF ClaimDecided, Answers
  <2> QED BY <2>2, <2>3
<1>3. CASE \E t \in Token : ClaimArrives(t)
    BY <1>3 DEF ClaimArrives, Answers, Types, ActionTypes
<1>4. CASE \E t \in Token : CompleteArrives(t)
    BY <1>4 DEF CompleteArrives, Types, ActionTypes
<1> QED BY <1>1, <1>2, <1>3, <1>4 DEF HostStep

LEMMA HostKeepsInv ==
    ASSUME PruneInv, HostStep
    PROVE  PruneInv'
<1> USE DEF PruneInv
<1>0. /\ UNCHANGED <<pc, cur, cancels, closed, withBundle, pending, panel, outcome, stale, absent,
                     issued, bound, back, bundled, source, deleted, committed, ambiguous, told,
                     cutSending, cutWaiting, changes, deaths, resends>>
      /\ expired' \in BOOLEAN /\ validating' \in Token \cup {NoToken} /\ sent' \subseteq sent
      /\ claimed' = claimed \/ (pending \in Token /\ claimed' = claimed \cup {pending})
    BY HostMoves
<1>1. result' = result \/ \E t \in Token : /\ <<"complete", t>> \in sent /\ result[t] = "none"
                                           /\ result' = [result EXCEPT ![t] = outcome[t]]
    BY HostMoves
<1>2. answer' = answer \/ \E t \in Token, what \in {"ok", "refused"} :
                             /\ answer' = [answer EXCEPT ![t] = what]
                             /\ what = "ok" => t \in claimed'
    BY HostMoves
<1>3. /\ result \in [Token -> Report \cup {"none"}] /\ outcome \in [Token -> Report \cup {"none"}]
      /\ answer \in [Token -> {"none", "ok", "refused"}]
    BY DEF Types, ActionTypes, PanelTypes
<1>4. Types'
  <2>1. result' \in [Token -> Report \cup {"none"}]
      BY <1>1, <1>3
  <2>2. answer' \in [Token -> {"none", "ok", "refused"}]
      BY <1>2, <1>3
  <2>3. ActionTypes'
      BY <1>0, <2>1 DEF Types, ActionTypes
  <2>4. PanelTypes'
      BY <1>0, <2>2 DEF Types, PanelTypes
  <2>5. RunTypes' /\ GameTypes' /\ BoundTypes'
      BY <1>0 DEF Types, RunTypes, GameTypes, BoundTypes
  <2> QED BY <2>3, <2>4, <2>5 DEF Types
<1>5. PendingInv'
    BY <1>0 DEF PendingInv, Waits
<1>6. ReportsInv'
    BY <1>0, <1>1, <1>3 DEF ReportsInv
<1>7. SourceInv'
    BY <1>0 DEF SourceInv, SourceIsKept, Touched
<1>8. ~Unrequested(pending)
  <2>1. pending = NoToken => pending[1] = 0 /\ cur > 0
      BY GamesAssumption DEF NoToken, Types, RunTypes, Game
  <2>2. pending # NoToken => pending[1] = cur /\ pc \in Waits \cup {"finish", "closing"}
      BY DEF PendingInv
  <2>3. cur \in Nat
      BY GamesAssumption DEF Types, RunTypes, Game
  <2> QED BY <2>1, <2>2, <2>3 DEF Unrequested, Waits
<1>9. PanelInv'
  <2>1. ASSUME NEW t \in Token, Unrequested(t)' PROVE Unrequested(t) /\ t \notin claimed'
    <3>1. Unrequested(t)
        BY <1>0, <2>1 DEF Unrequested
    <3>2. t \notin claimed
        BY <3>1 DEF PanelInv
    <3> QED BY <1>0, <1>8, <3>1, <3>2
  <2>2. \A t \in Token : answer'[t] = "ok" => t \in claimed'
      BY <1>0, <1>2, <1>3 DEF PanelInv
  <2>3. \A t \in Token : result'[t] # "none" =>
            panel[t] \in {"reporting", "done"} /\ result'[t] = outcome[t]
    <3>1. \A t \in Token : result[t] # "none" =>
              panel[t] \in {"reporting", "done"} /\ result[t] = outcome[t]
        BY DEF PanelInv
    <3>2. \A t \in Token : <<"complete", t>> \in sent => panel[t] \in {"reporting", "done"}
        BY DEF PanelInv
    <3> QED BY <1>1, <1>3, <3>1, <3>2
  <2>4. ASSUME NEW t \in Token, t \in claimed PROVE t \in claimed'
      BY <1>0, <2>4
  <2> QED BY <1>0, <2>1, <2>2, <2>3, <2>4 DEF PanelInv
<1>10. ResultInv'
  <2>1. \A t \in Token : result[t] = "failed" => result'[t] = "failed"
      BY <1>1, <1>3
  <2>2. ASSUME NEW g \in Game, Past(g), <<g, "remove">> \in claimed' \ claimed
        PROVE  g \in cutSending
    <3>1. pending = <<g, "remove">> /\ pending \in Token
        BY <1>0, <2>2
    <3>2. g = cur /\ ~(g < cur)
        BY <3>1, TokensAreGames, GamesAssumption DEF PendingInv, Game
    <3>3. pc \notin Waits
        BY <2>2, <3>2 DEF Past, Final, Waits
    <3> QED BY <3>1, <3>2, <3>3, TokensAreGames DEF PendingInv
  <2>3. ASSUME NEW g \in Game, Past(g), <<g, "remove">> \in claimed' \/ g \in committed
        PROVE  \/ told[g] \notin Unreported
               \/ g \in cutSending \cup cutWaiting
               \/ g \notin committed /\ result'[<<g, "remove">>] = "failed"
    <3>1. CASE <<g, "remove">> \in claimed' \ claimed
        BY <2>2, <2>3, <3>1
    <3>2. CASE <<g, "remove">> \in claimed \/ g \in committed
        BY <2>1, <2>3, <3>2, TokensAreGames DEF ResultInv, Kind
    <3> QED BY <2>3, <3>1, <3>2
  <2>4. \A g \in Game : Past(g)' <=> Past(g)
      BY <1>0 DEF Past
  <2>5. \A g \in deleted : Past(g)' <=> Past(g)
      BY <1>0 DEF Past
  <2> QED BY <1>0, <2>3, <2>4, <2>5 DEF ResultInv
<1> QED BY <1>4, <1>5, <1>6, <1>7, <1>9, <1>10

-----------------------------------------------------------------------------
(* The panel, Steam and the user. *)

LEMMA PanelFrame ==
    ASSUME NEW t \in Token, PanelStep(t)
    PROVE  UNCHANGED <<run, action, local, ledger, stale, absent, changes, deaths>>
<1>1. CASE TakeEvent(t) \/ StartAction(t) \/ ClaimAnswered(t) \/ GiveUp(t)
    BY <1>1 DEF TakeEvent, StartAction, ClaimAnswered, GiveUp, JsOnly, steam, bounds
<1>2. CASE Resend(t)
    BY <1>2 DEF Resend, js, steam
<1>3. CASE Look(t) \/ Issue(t) \/ Confirm(t)
    BY <1>3 DEF Look, Issue, Confirm, JsOnly, steam, bounds
<1> QED BY <1>1, <1>2, <1>3 DEF PanelStep

\* An action of the panel, by the place p and the report o it leaves the action at.
Acts(t, p, o) ==
    /\ p \in {"idle", "queued", "claiming", "acting", "looked", "removing", "reporting", "done"}
    /\ o \in Report \cup {"none"}
    /\ panel' = [panel EXCEPT ![t] = p] /\ outcome' = [outcome EXCEPT ![t] = o]
    /\ sent' \subseteq sent \cup {<<"claim", t>>, <<"complete", t>>}
    /\ <<"event", t>> \notin sent'
    /\ <<"complete", t>> \in sent' => p \in {"reporting", "done"}
    /\ answer' = answer \/ answer' = [answer EXCEPT ![t] = "none"]
    /\ issued' = issued \/ (issued' = issued \cup {t[1]} /\ p = "removing")
    /\ resends' \in 0..MaxResends

\* What is so of the action then.
Follows(t, p, o) ==
    /\ ~Unrequested(t)
    /\ p \in {"acting", "looked", "removing"} => t \in claimed /\ o = "none"
    /\ p \in {"looked", "removing"} => t[2] = "remove"
    /\ o = "snapshot" => t[2] = "capture"
    /\ o \in {"absent", "removed"} => t[1] \in absent
    /\ result[t] # "none" => p \in {"reporting", "done"} /\ result[t] = o
    /\ t[2] = "remove" /\ t[1] \in issued =>
          t \in claimed /\ p \in {"removing", "reporting", "done"} /\ o \in {"none", "removed", "attempted"}

LEMMA PanelActs ==
    ASSUME Types, ReportsInv, PanelInv, NEW t \in Token, PanelStep(t)
    PROVE  \E p, o : Acts(t, p, o) /\ Follows(t, p, o)
<1>1. /\ Unrequested(t) => panel[t] = "idle" /\ <<"event", t>> \notin sent
      /\ <<"event", t>> \in sent => panel[t] = "idle"
      /\ panel[t] \in {"acting", "looked", "removing"} => t \in claimed /\ outcome[t] = "none"
      /\ answer[t] = "ok" => t \in claimed
      /\ panel[t] \in {"looked", "removing"} => t[2] = "remove"
      /\ outcome[t] = "snapshot" => t[2] = "capture"
      /\ <<"complete", t>> \in sent => panel[t] \in {"reporting", "done"}
      /\ result[t] # "none" => panel[t] \in {"reporting", "done"} /\ result[t] = outcome[t]
      /\ t[2] = "remove" /\ t[1] \in issued =>
            /\ t \in claimed /\ panel[t] \in {"removing", "reporting", "done"}
            /\ outcome[t] \in {"none", "removed", "attempted"}
      /\ outcome[t] \in {"absent", "removed"} => t[1] \in absent
    BY DEF PanelInv, ReportsInv
<1>2. /\ panel = [panel EXCEPT ![t] = panel[t]] /\ outcome = [outcome EXCEPT ![t] = outcome[t]]
      /\ panel[t] \in {"idle", "queued", "claiming", "acting", "looked", "removing", "reporting", "done"}
      /\ outcome[t] \in Report \cup {"none"} /\ resends \in 0..MaxResends
    BY DEF Types, PanelTypes, BoundTypes
<1>3. t[2] \in Kind
    BY TokensAreGames
<1> USE DEF wire, js, steam, bounds, JsOnly, Moves, Reports, Answers
<1>4. CASE TakeEvent(t)
  <2>1. Acts(t, "queued", outcome[t])
      BY <1>1, <1>2, <1>4 DEF TakeEvent, Acts
  <2>2. Follows(t, "queued", outcome[t])
      BY <1>1, <1>4 DEF TakeEvent, Follows
  <2> QED BY <2>1, <2>2
<1>5. CASE StartAction(t)
  <2>1. PICK o \in {"failed", "none"} : outcome' = [outcome EXCEPT ![t] = o]
      BY <1>5 DEF StartAction
  <2>2. Acts(t, "claiming", o)
      BY <1>1, <1>2, <1>5, <2>1 DEF StartAction, Acts, Report
  <2>3. Follows(t, "claiming", o)
      BY <1>1, <1>5 DEF StartAction, Follows
  <2> QED BY <2>2, <2>3
<1>6. CASE ClaimAnswered(t)
  <2>1. /\ panel[t] = "claiming" /\ answer' = [answer EXCEPT ![t] = "none"]
        /\ UNCHANGED <<issued, resends>>
      BY <1>6 DEF ClaimAnswered
  <2>2. CASE Moves(t, "done") /\ UNCHANGED <<outcome, sent>>
    <3>1. Acts(t, "done", outcome[t])
        BY <1>1, <1>2, <2>1, <2>2 DEF Acts
    <3>2. Follows(t, "done", outcome[t])
        BY <1>1, <2>1 DEF Follows
    <3> QED BY <3>1, <3>2
  <2>3. CASE Reports(t, "failed") /\ answer[t] = "ok"
    <3>1. Acts(t, "reporting", "failed")
        BY <1>1, <1>2, <2>1, <2>3 DEF Acts, Report
    <3>2. Follows(t, "reporting", "failed")
        BY <1>1, <2>1 DEF Follows
    <3> QED BY <3>1, <3>2
  <2>4. CASE Moves(t, "acting") /\ answer[t] = "ok" /\ outcome[t] = "none" /\ UNCHANGED <<outcome, sent>>
    <3>1. Acts(t, "acting", "none")
        BY <1>1, <1>2, <2>1, <2>4 DEF Acts
    <3>2. Follows(t, "acting", "none")
        BY <1>1, <2>1, <2>4 DEF Follows
    <3> QED BY <3>1, <3>2
  <2> QED BY <1>6, <2>2, <2>3, <2>4 DEF ClaimAnswered
<1>7. CASE Resend(t)
  <2>1. /\ UNCHANGED <<panel, outcome, answer, issued>> /\ panel[t] \in {"claiming", "reporting"}
        /\ sent' = sent \cup {<<IF panel[t] = "claiming" THEN "claim" ELSE "complete", t>>}
        /\ resends' \in 0..MaxResends
      BY <1>2, <1>7, BoundsAssumption DEF Resend
  <2>2. Acts(t, panel[t], outcome[t])
      BY <1>1, <1>2, <2>1 DEF Acts
  <2>3. Follows(t, panel[t], outcome[t])
      BY <1>1, <2>1 DEF Follows
  <2> QED BY <2>2, <2>3
<1>8. CASE GiveUp(t)
  <2>1. Acts(t, "done", outcome[t])
      BY <1>1, <1>2, <1>8 DEF GiveUp, Acts
  <2>2. Follows(t, "done", outcome[t])
      BY <1>1, <1>8 DEF GiveUp, Follows
  <2> QED BY <2>1, <2>2
<1>9. ASSUME panel[t] \in {"acting", "looked", "removing"}, NEW o \in Report, Reports(t, o),
             UNCHANGED <<answer, issued, resends>>,
             o = "snapshot" => t[2] = "capture", o \in {"absent", "removed"} => t[1] \in absent,
             panel[t] = "removing" => o \in {"removed", "attempted"}
      PROVE  \E p, q : Acts(t, p, q) /\ Follows(t, p, q)
  <2>1. Acts(t, "reporting", o)
      BY <1>1, <1>2, <1>9 DEF Acts
  <2>2. Follows(t, "reporting", o)
      BY <1>1, <1>9 DEF Follows
  <2> QED BY <2>1, <2>2
<1>10. CASE Look(t)
  <2>1. panel[t] = "acting" /\ UNCHANGED <<answer, issued, resends>>
      BY <1>10 DEF Look
  <2>2. CASE t[2] = "remove" /\ Moves(t, "looked") /\ UNCHANGED <<outcome, sent>>
    <3>1. Acts(t, "looked", outcome[t])
        BY <1>1, <1>2, <2>1, <2>2 DEF Acts
    <3>2. Follows(t, "looked", outcome[t])
        BY <1>1, <2>1, <2>2 DEF Follows
    <3> QED BY <3>1, <3>2
  <2>3. \/ t[1] \in absent /\ Reports(t, "absent")
        \/ Reports(t, "failed")
        \/ t[2] = "capture" /\ Reports(t, "snapshot")
        \/ t[2] = "remove" /\ Moves(t, "looked") /\ UNCHANGED <<outcome, sent>>
      BY <1>10 DEF Look
  <2>4. {"absent", "failed", "snapshot"} \subseteq Report
      BY DEF Report
  <2>5. CASE t[1] \in absent /\ Reports(t, "absent")
      BY <1>9, <2>1, <2>4, <2>5
  <2>6. CASE Reports(t, "failed")
      BY <1>9, <2>1, <2>4, <2>6
  <2>7. CASE t[2] = "capture" /\ Reports(t, "snapshot")
      BY <1>9, <2>1, <2>4, <2>7
  <2> QED BY <2>2, <2>3, <2>5, <2>6, <2>7
<1>11. CASE Issue(t)
  <2>1. panel[t] = "looked" /\ UNCHANGED <<answer, resends>>
      BY <1>11 DEF Issue
  <2>2. CASE Reports(t, "failed") /\ UNCHANGED issued
      BY <1>9, <2>1, <2>2 DEF Report
  <2>3. CASE Moves(t, "removing") /\ issued' = issued \cup {t[1]} /\ UNCHANGED <<outcome, sent>>
    <3>1. Acts(t, "removing", outcome[t])
        BY <1>1, <1>2, <2>1, <2>3 DEF Acts
    <3>2. Follows(t, "removing", outcome[t])
        BY <1>1, <2>1 DEF Follows
    <3> QED BY <3>1, <3>2
  <2> QED BY <1>11, <2>2, <2>3 DEF Issue
<1>12. CASE Confirm(t)
  <2>1. panel[t] = "removing" /\ UNCHANGED <<answer, issued, resends>>
      BY <1>12 DEF Confirm
  <2>2. CASE t[1] \in absent /\ Reports(t, "removed")
      BY <1>9, <2>1, <2>2 DEF Report
  <2>3. CASE Reports(t, "attempted")
      BY <1>9, <2>1, <2>3 DEF Report
  <2> QED BY <1>12, <2>2, <2>3 DEF Confirm
<1> QED BY <1>4, <1>5, <1>6, <1>7, <1>8, <1>10, <1>11, <1>12 DEF PanelStep

LEMMA PanelKeepsInv ==
    ASSUME PruneInv, NEW t \in Token, PanelStep(t)
    PROVE  PruneInv'
<1> USE DEF PruneInv
<1>0. UNCHANGED <<pc, cur, cancels, closed, withBundle, pending, expired, claimed, result, validating,
                  bound, back, bundled, source, deleted, committed, ambiguous, told, cutSending,
                  cutWaiting, stale, absent, changes, deaths>>
    BY PanelFrame DEF run, action, local, ledger
<1>1. PICK p, o : Acts(t, p, o) /\ Follows(t, p, o)
    BY PanelActs
<1>2. /\ panel \in [Token -> {"idle", "queued", "claiming", "acting", "looked", "removing",
                              "reporting", "done"}]
      /\ outcome \in [Token -> Report \cup {"none"}] /\ answer \in [Token -> {"none", "ok", "refused"}]
    BY DEF Types, PanelTypes
<1>3. /\ panel'[t] = p /\ \A u \in Token \ {t} : panel'[u] = panel[u]
      /\ outcome'[t] = o /\ \A u \in Token \ {t} : outcome'[u] = outcome[u]
    BY <1>1, <1>2 DEF Acts
<1>4. /\ sent' \subseteq sent \cup {<<"claim", t>>, <<"complete", t>>} /\ <<"event", t>> \notin sent'
      /\ <<"complete", t>> \in sent' => p \in {"reporting", "done"}
      /\ \A u \in Token : answer'[u] = "ok" => answer[u] = "ok"
      /\ issued' = issued \/ (issued' = issued \cup {t[1]} /\ p = "removing")
    BY <1>1, <1>2 DEF Acts
<1>5. t[1] \in Game
    BY TokensAreGames
<1>6. Types'
  <2>1. PanelTypes'
    <3>1. panel' \in [Token -> {"idle", "queued", "claiming", "acting", "looked", "removing",
                                "reporting", "done"}]
        BY <1>1, <1>2 DEF Acts
    <3>2. outcome' \in [Token -> Report \cup {"none"}]
        BY <1>1, <1>2 DEF Acts
    <3>3. answer' \in [Token -> {"none", "ok", "refused"}]
        BY <1>1, <1>2 DEF Acts
    <3>4. sent' \subseteq {"event", "claim", "complete"} \X Token
        BY <1>4 DEF Types, PanelTypes
    <3> QED BY <1>0, <3>1, <3>2, <3>3, <3>4 DEF Types, PanelTypes
  <2>2. GameTypes'
      BY <1>0, <1>4, <1>5 DEF Types, GameTypes
  <2>3. RunTypes' /\ ActionTypes'
      BY <1>0 DEF Types, RunTypes, ActionTypes
  <2>4. BoundTypes'
      BY <1>0, <1>1 DEF Types, BoundTypes, Acts
  <2> QED BY <2>1, <2>2, <2>3, <2>4 DEF Types
<1>7. PendingInv'
    BY <1>0 DEF PendingInv, Waits
<1>8. ReportsInv'
  <2>1. o \in {"absent", "removed"} => t[1] \in absent
      BY <1>1 DEF Follows
  <2> QED BY <1>0, <1>3, <2>1 DEF ReportsInv
<1>9. SourceInv'
    BY <1>0 DEF SourceInv, SourceIsKept, Touched
<1>10. PanelInv'
  <2>1. \A u \in Token : Unrequested(u)' => Unrequested(u)
      BY <1>0 DEF Unrequested
  <2>2. ASSUME NEW u \in Token \ {t}
        PROVE  /\ <<"event", u>> \in sent' => <<"event", u>> \in sent
               /\ <<"complete", u>> \in sent' => <<"complete", u>> \in sent
      BY <1>4
  <2>3. ASSUME NEW u \in Token \ {t}, u[2] = "remove", u[1] \in issued' PROVE u[1] \in issued
    <3>1. CASE issued' = issued
        BY <2>3, <3>1
    <3>2. CASE issued' = issued \cup {t[1]} /\ p = "removing"
      <4>1. t[2] = "remove"
          BY <1>1, <3>2 DEF Follows
      <4>2. u[1] # t[1]
          BY <2>3, <4>1, TokensAreGames
      <4> QED BY <2>3, <3>2, <4>2
    <3> QED BY <1>4, <3>1, <3>2
  <2>4. ASSUME NEW u \in Token, u # t
        PROVE  /\ Unrequested(u)' => panel'[u] = "idle" /\ <<"event", u>> \notin sent' /\ u \notin claimed'
               /\ <<"event", u>> \in sent' => panel'[u] = "idle"
               /\ panel'[u] \in {"acting", "looked", "removing"} => u \in claimed' /\ outcome'[u] = "none"
               /\ answer'[u] = "ok" => u \in claimed'
               /\ panel'[u] \in {"looked", "removing"} => u[2] = "remove"
               /\ outcome'[u] = "snapshot" => u[2] = "capture"
               /\ <<"complete", u>> \in sent' => panel'[u] \in {"reporting", "done"}
               /\ result'[u] # "none" => panel'[u] \in {"reporting", "done"} /\ result'[u] = outcome'[u]
               /\ u[2] = "remove" /\ u[1] \in issued' =>
                     /\ u \in claimed'
                     /\ panel'[u] \in {"removing", "reporting", "done"}
                     /\ outcome'[u] \in {"none", "removed", "attempted"}
    <3>1. panel'[u] = panel[u] /\ outcome'[u] = outcome[u] /\ (answer'[u] = "ok" => answer[u] = "ok")
        BY <1>3, <1>4, <2>4
    <3>2. /\ <<"event", u>> \in sent' => <<"event", u>> \in sent
          /\ <<"complete", u>> \in sent' => <<"complete", u>> \in sent
          /\ u[2] = "remove" /\ u[1] \in issued' => u[1] \in issued
          /\ Unrequested(u)' => Unrequested(u)
        BY <2>1, <2>2, <2>3, <2>4
    <3> QED BY <1>0, <2>4, <3>1, <3>2 DEF PanelInv
  <2>5. /\ Unrequested(t)' => panel'[t] = "idle" /\ <<"event", t>> \notin sent' /\ t \notin claimed'
        /\ <<"event", t>> \in sent' => panel'[t] = "idle"
        /\ panel'[t] \in {"acting", "looked", "removing"} => t \in claimed' /\ outcome'[t] = "none"
        /\ answer'[t] = "ok" => t \in claimed'
        /\ panel'[t] \in {"looked", "removing"} => t[2] = "remove"
        /\ outcome'[t] = "snapshot" => t[2] = "capture"
        /\ <<"complete", t>> \in sent' => panel'[t] \in {"reporting", "done"}
        /\ result'[t] # "none" => panel'[t] \in {"reporting", "done"} /\ result'[t] = outcome'[t]
        /\ t[2] = "remove" /\ t[1] \in issued' =>
              /\ t \in claimed'
              /\ panel'[t] \in {"removing", "reporting", "done"}
              /\ outcome'[t] \in {"none", "removed", "attempted"}
    <3>1. answer[t] = "ok" => t \in claimed
        BY DEF PanelInv
    <3>2. ~Unrequested(t)'
        BY <1>1, <2>1 DEF Follows
    <3> QED BY <1>0, <1>1, <1>3, <1>4, <3>1, <3>2 DEF Follows
  <2> QED BY <2>4, <2>5 DEF PanelInv
<1>11. ResultInv'
    BY <1>0 DEF ResultInv, Past
<1> QED BY <1>6, <1>7, <1>8, <1>9, <1>10, <1>11

Outside(g) == SteamRemoves(g) \/ Changes(g)

LEMMA OutsideKeepsInv ==
    ASSUME PruneInv, PanelDies \/ \E g \in Game : Outside(g)
    PROVE  PruneInv'
<1> USE DEF PruneInv
<1>1. CASE PanelDies
  <2>1. /\ UNCHANGED <<pc, cur, cancels, closed, withBundle, pending, expired, claimed, result, validating,
                       bound, back, bundled, source, deleted, committed, ambiguous, told, cutSending,
                       cutWaiting, answer, outcome, stale, absent, issued, changes, resends>>
        /\ panel' = [t \in Token |-> IF panel[t] = "idle" THEN "idle" ELSE "done"]
        /\ sent' \in {{}, {m \in sent : m[1] # "event"}}
        /\ deaths < MaxDeaths /\ deaths' = deaths + 1
      BY <1>1 DEF PanelDies, run, action, local, steam, ledger
  <2>2. /\ sent' \subseteq sent /\ \A t \in Token : <<"event", t>> \notin sent'
        /\ \A t \in Token : <<"complete", t>> \in sent' => <<"complete", t>> \in sent
      BY <2>1
  <2>3. Types'
    <3>1. PanelTypes'
        BY <2>1, <2>2 DEF Types, PanelTypes
    <3>2. RunTypes' /\ ActionTypes' /\ GameTypes'
        BY <2>1 DEF Types, RunTypes, ActionTypes, GameTypes
    <3>3. BoundTypes'
        BY <2>1, BoundsAssumption DEF Types, BoundTypes
    <3> QED BY <3>1, <3>2, <3>3 DEF Types
  <2>4. PendingInv' /\ ReportsInv' /\ SourceInv' /\ ResultInv'
      BY <2>1 DEF PendingInv, Waits, ReportsInv, SourceInv, SourceIsKept, Touched, ResultInv, Past
  <2>5. PanelInv'
    <3>1. \A t \in Token : Unrequested(t)' => Unrequested(t)
        BY <2>1 DEF Unrequested
    <3>2. \A t \in Token : panel'[t] = (IF panel[t] = "idle" THEN "idle" ELSE "done")
        BY <2>1
    <3> QED BY <2>1, <2>2, <3>1, <3>2 DEF PanelInv
  <2> QED BY <2>3, <2>4, <2>5
<1>2. CASE \E g \in Game : Outside(g)
  <2>1. PICK g \in Game : Outside(g)
      BY <1>2
  <2>2. /\ UNCHANGED <<pc, cur, cancels, closed, withBundle, pending, expired, claimed, result, validating,
                       bundled, source, deleted, committed, ambiguous, told, cutSending, cutWaiting,
                       sent, answer, panel, outcome, stale, issued, deaths, resends>>
        /\ absent' \in {absent, absent \cup {g}} /\ back' \in {back, back \cup {g}} /\ bound' \subseteq bound
        /\ changes' = changes \/ (changes < MaxChanges /\ changes' = changes + 1)
      BY <2>1 DEF Outside, SteamRemoves, Changes, run, action, wire, js, local, ledger, bounds
  <2>3. Types'
    <3>1. RunTypes' /\ ActionTypes' /\ PanelTypes'
        BY <2>2 DEF Types, RunTypes, ActionTypes, PanelTypes
    <3>2. GameTypes'
        BY <2>2 DEF Types, GameTypes
    <3>3. BoundTypes'
        BY <2>2, BoundsAssumption DEF Types, BoundTypes
    <3> QED BY <3>1, <3>2, <3>3 DEF Types
  <2>4. PendingInv' /\ ResultInv'
      BY <2>2 DEF PendingInv, Waits, ResultInv, Past
  <2>5. ReportsInv' /\ SourceInv'
      BY <2>2 DEF ReportsInv, SourceInv, SourceIsKept, Touched
  <2>6. PanelInv'
      BY <2>2 DEF PanelInv, Unrequested
  <2> QED BY <2>3, <2>4, <2>5, <2>6
<1> QED BY <1>1, <1>2

-----------------------------------------------------------------------------
(* The theorems. *)

LEMMA NextKeepsInv == PruneInv /\ [Next]_vars => PruneInv'
<1> SUFFICES ASSUME PruneInv, [Next]_vars PROVE PruneInv'
    OBVIOUS
<1>1. CASE UNCHANGED vars
  <2>1. UNCHANGED <<pc, cur, cancels, closed, withBundle, pending, expired, claimed, result, validating,
                    bound, back, bundled, source, deleted, committed, ambiguous, told, cutSending,
                    cutWaiting, sent, answer, panel, outcome, stale, absent, issued,
                    changes, deaths, resends>>
      BY <1>1 DEF vars, run, action, wire, js, steam, local, ledger, bounds
  <2>2. Types' /\ PendingInv' /\ ReportsInv'
      BY <2>1 DEF PruneInv, Types, RunTypes, ActionTypes, PanelTypes, GameTypes, BoundTypes,
                  PendingInv, ReportsInv
  <2>3. SourceInv' /\ ResultInv'
      BY <2>1 DEF PruneInv, SourceInv, SourceIsKept, Touched, ResultInv, Past
  <2>4. PanelInv'
      BY <2>1 DEF PruneInv, PanelInv, Unrequested
  <2> QED BY <2>2, <2>3, <2>4 DEF PruneInv
<1>2. CASE RunStep
  <2>1. Types' /\ PendingInv' /\ ReportsInv'
      BY <1>2, RunKeepsTypes, RunKeepsPending, RunKeepsReports DEF PruneInv
  <2>2. SourceInv' /\ PanelInv' /\ ResultInv'
      BY <1>2, RunKeepsSource, RunKeepsPanel, RunKeepsResult DEF PruneInv
  <2> QED BY <2>1, <2>2 DEF PruneInv
<1>3. CASE CancelPrune \/ Shutdown
  <2>1. UNCHANGED <<outcome, result, absent>>
      BY <1>3, CancelMoves, CutOffMoves DEF PruneInv
  <2>2. Types' /\ PendingInv' /\ SourceInv'
      BY <1>3, CancelKeepsTypes, CancelKeepsPending, CancelKeepsSource DEF PruneInv
  <2>3. PanelInv' /\ ResultInv'
      BY <1>3, CancelKeepsPanel, CancelKeepsResult DEF PruneInv
  <2>4. ReportsInv'
      BY <2>1 DEF PruneInv, ReportsInv
  <2> QED BY <2>2, <2>3, <2>4 DEF PruneInv
<1>4. CASE HostStep
    BY <1>4, HostKeepsInv
<1>5. CASE \E t \in Token : PanelStep(t)
    BY <1>5, PanelKeepsInv
<1>6. CASE PanelDies \/ \E g \in Game : Outside(g)
    BY <1>6, OutsideKeepsInv
<1> QED BY <1>1, <1>2, <1>3, <1>4, <1>5, <1>6 DEF Next, HostStep, Outside

\* The run, the panel and Steam stay in step (PruneService, pruneActions.ts):
\* what the run waits for is its own game's action, reports are true, and a game
\* the run is done with was told what may have changed for it.
THEOREM InvariantHolds == Spec => []PruneInv
BY InitInv, NextKeepsInv, PTL DEF Spec

\* Every variable keeps its kind, and an action waited for is of the run's
\* current game (_request_action, _wait_for_action).
THEOREM TypeCorrect == Spec => []TypeOK
<1>1. PruneInv => TypeOK
    BY TypesAreOK DEF PruneInv
<1> QED BY <1>1, InvariantHolds, PTL

\* Nothing of a game is destroyed before its shortcut is gone for certain and the
\* bundle sealed (_run_group, GroupFinalizer.finish), however many games there
\* are and however often the panel dies, repeats itself or is late.
THEOREM SourceIsSafe == Spec => []SourceIsKept
<1>1. PruneInv => SourceIsKept
    BY DEF PruneInv, SourceInv
<1> QED BY <1>1, InvariantHolds, PTL

\* The results the run reports are what happened, but for the two losses that
\* ResultIsTrue names (_finish_run's results against Steam and the rows).
THEOREM ResultsAreTrue == Spec => []ResultIsTrue
<1>1. PruneInv => ResultIsTrue
  <2> SUFFICES ASSUME PruneInv PROVE ResultIsTrue
      OBVIOUS
  <2> USE DEF PruneInv
  <2>1. cur \in Game /\ \A g \in Game : g \in Nat
      BY GamesAssumption DEF Types, RunTypes, Game
  <2>2. ASSUME NEW g \in Game, g \in issued
        PROVE  /\ <<g, "remove">> \in claimed /\ (g < cur \/ g = cur)
               /\ result[<<g, "remove">>] # "failed"
    <3>1. <<g, "remove">> \in Token /\ <<g, "remove">>[1] = g /\ <<g, "remove">>[2] = "remove"
        BY DEF Token, Kind
    <3>2. /\ <<g, "remove">> \in claimed /\ ~Unrequested(<<g, "remove">>)
          /\ outcome[<<g, "remove">>] \in {"none", "removed", "attempted"}
          /\ result[<<g, "remove">>] # "none" => result[<<g, "remove">>] = outcome[<<g, "remove">>]
        BY <2>2, <3>1 DEF PanelInv
    <3>3. ~(g > cur)
        BY <3>1, <3>2 DEF Unrequested
    <3> QED BY <2>1, <3>2, <3>3
  <2>3. ASSUME NEW g \in Game, g \in deleted \/ source[g] # {}
        PROVE  g \in committed
      BY <2>3 DEF SourceInv, SourceIsKept
  <2>4. ASSUME NEW g \in Game, g \in committed
        PROVE  g < cur \/ g = cur
      BY <2>4 DEF ResultInv
  <2>5. ASSUME NEW g \in Game, g < cur \/ pc \in {"closing", "ended"}, Changed(g)
        PROVE  told[g] \notin Unreported \/ g \in cutSending \cup cutWaiting
    <3>1. g \in issued \/ g \in committed
        BY <2>3, <2>5 DEF Changed
    <3>2. Past(g)
        BY <2>2, <2>4, <2>5, <3>1 DEF Past, Final
    <3>3. <<g, "remove">> \in claimed \/ g \in committed
        BY <2>2, <3>1
    <3>4. g \notin committed => result[<<g, "remove">>] # "failed"
        BY <2>2, <3>1
    <3> QED BY <3>2, <3>3, <3>4 DEF ResultInv
  <2>6. \A g \in Game : told[g] = "removed" => g \in deleted
      BY DEF ResultInv
  <2>7. \A g \in deleted : told[g] = "removed" \/ (cancels = 2 /\ told[g] = "partial")
      BY DEF ResultInv
  <2> QED BY <2>5, <2>6, <2>7 DEF ResultIsTrue
<1> QED BY <1>1, InvariantHolds, PTL

\* A late claim of an action the run has given up is never granted, however long
\* its validation took (report_prune_action's second look at _pending_action).
THEOREM LateClaimsRefused == Spec => GivenUpStaysUnclaimed
<1> DEFINE Granted ==
        \A t \in claimed' \ claimed :
          \/ cur = t[1] /\ pc \in {"emit", "waitClaim"}
          \/ t[1] \in cutSending /\ pc # "ended"
<1>1. PruneInv /\ [Next]_vars => Granted
  <2> SUFFICES ASSUME PruneInv, [Next]_vars PROVE Granted
      OBVIOUS
  <2> USE DEF PruneInv
  <2>1. CASE UNCHANGED claimed
      BY <2>1
  <2>2. CASE HostStep
    <3>1. claimed' = claimed \/ (pending \in Token /\ claimed' = claimed \cup {pending})
        BY <2>2, HostMoves
    <3>2. ASSUME NEW t \in Token, t = pending, t \notin claimed
          PROVE  \/ cur = t[1] /\ pc \in {"emit", "waitClaim"}
                 \/ t[1] \in cutSending /\ pc # "ended"
        BY <3>2, TokensAreGames DEF PendingInv, Waits
    <3> QED BY <3>1, <3>2
  <2>3. CASE RunStep
      BY <2>1, <2>3, RunFrame
  <2>4. CASE CancelPrune \/ Shutdown
      BY <2>1, <2>4, CancelMoves, CutOffMoves
  <2>5. CASE \E t \in Token : PanelStep(t)
      BY <2>1, <2>5, PanelFrame DEF action
  <2>6. CASE UNCHANGED vars \/ PanelDies \/ \E g \in Game : Outside(g)
      BY <2>1, <2>6 DEF vars, PanelDies, Outside, SteamRemoves, Changes, action
  <2> QED BY <2>2, <2>3, <2>4, <2>5, <2>6 DEF Next, HostStep, Outside
<1> QED BY <1>1, InvariantHolds, PTL DEF Spec, GivenUpStaysUnclaimed

=============================================================================
