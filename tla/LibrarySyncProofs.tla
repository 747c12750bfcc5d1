------------------------- MODULE LibrarySyncProofs -------------------------
(***************************************************************************)
(* Proof that a library run is recorded as it ended, for any platforms,    *)
(* games and chunks and any number of runs and of things that go wrong;    *)
(* then, for the proofs that follow in LibraryRowsProofs, what the chunks  *)
(* of a fetched platform are and the shapes every step keeps; and that the *)
(* backend keeps every answer of the panel that its run can still use:     *)
(* however late it comes, a chunk that was sent is in flight or held as    *)
(* abandoned until its answer is there.                                    *)
(***************************************************************************)
EXTENDS LibrarySync, FiniteSetTheorems, FunctionTheorems, TLAPS

\* The types the argument needs.
RunTyped ==
    /\ slot \in [state : {"idle", "running", "cancelling"}, run : {NoRun} \cup Runs]
    /\ slot.state = "idle" <=> slot.run = NoRun
    /\ DOMAIN works = Runs
    /\ \A r \in Runs : {"pc", "at", "whole", "cancelled"} \subseteq DOMAIN works[r]
    /\ {"paused", "interrupted"} \subseteq DOMAIN box
    /\ runRow \in [Runs -> Statuses]

\* The slot is the living run's.
SlotInv == \A r \in Runs : Lives(r) => slot.run = r

\* The user stopped the run in the slot.
UserStopped == {slot.run, NoRun} \cap presses # {}

\* A run is being cancelled for a press, or for a pause or a silence that its
\* own work met; before the work begins, for a press only.
CancelInv ==
    /\ cancels \subseteq presses
    /\ Cancelling => UserStopped \/ box.paused \/ box.interrupted
    /\ \A r \in Runs : At(r, "begun") /\ Cancelling => UserStopped

InUnit == {"fetched", "clear", "dispatch", "wait", "commit"}

\* The first n platforms of the queue.
Before(n) == {Queue[i] : i \in 1..n}

\* A run that nobody cancels did every platform before the one it is at.
ProgressOf(w) ==
    /\ w.at \in 1..(Len(Queue) + 1)
    /\ w.whole = Before(w.at - 1)
    /\ w.pc \in InUnit => w.at <= Len(Queue)

Working == {"none", "begun", "queue", "open", "unit"} \cup InUnit

ProgressInv ==
    \A r \in Runs :
        /\ works[r].pc = "none" => ProgressOf(works[r])
        /\ works[r].pc \in Working /\ ~Cancelling => ProgressOf(works[r])
        /\ At(r, "final") => IF works[r].cancelled THEN Cancelling ELSE works[r].whole = Platforms

RecordInv == RunTyped /\ SlotInv /\ CancelInv /\ ProgressInv

LEMMA WholeQueue == Before(Len(Queue)) = Platforms
<1>1. Queue \in Seq(Platforms) /\ Platforms = {Queue[i] : i \in DOMAIN Queue}
    BY LibraryAssumption DEF Platforms
<1>2. DOMAIN Queue = 1..Len(Queue)
    BY <1>1
<1>3. QED
    BY <1>1, <1>2 DEF Before

LEMMA QueueLength == Len(Queue) \in Nat \ {0}
<1>1. Queue \in Seq(Platforms) /\ Queue # <<>>
    BY LibraryAssumption DEF Platforms
<1>2. QED
    BY <1>1

LEMMA RecordInit == Init => RecordInv
<1> SUFFICES ASSUME Init PROVE RecordInv
    OBVIOUS
<1>1. \A r \in Runs : works[r] = Idle
    BY DEF Init
<1>2. RunTyped
    BY <1>1 DEF Init, RunTyped, Idle, EmptyBox, Statuses, NoRun
<1>3. SlotInv /\ CancelInv
    BY <1>1 DEF Init, SlotInv, CancelInv, Lives, Idle, Cancelling, At
<1>4. Before(0) = {}
    BY DEF Before
<1>5. ProgressInv
    <2> SUFFICES ASSUME NEW r \in Runs
                 PROVE  works[r].pc = "none" /\ ProgressOf(works[r])
        BY DEF ProgressInv, At
    <2>1. works[r].pc = "none" /\ works[r].at = 1 /\ works[r].whole = {}
        BY <1>1 DEF Idle
    <2>2. ProgressOf(works[r])
        BY <2>1, <1>4, QueueLength DEF ProgressOf, InUnit
    <2>3. QED
        BY <2>1, <2>2
<1>6. QED
    BY <1>2, <1>3, <1>5 DEF RecordInv

-----------------------------------------------------------------------------
(* A step of the living run, by what it does to its work. *)

Others(r) == \A q \in Runs : q # r => works'[q] = works[q]

Fields == {"pc", "at", "whole", "cancelled"}

\* A flag of the box once raised stays, but at the run's beginning.
FlagsStay ==
    /\ {"paused", "interrupted"} \subseteq DOMAIN box'
    /\ box.paused => box'.paused
    /\ box.interrupted => box'.interrupted

\* A cancel of the run's own is for a pause or a silence.
SlotStays ==
    \/ slot' = slot
    \/ RequestCancel(NoRun) /\ (box'.paused \/ box'.interrupted)

Rewrites(r) ==
    /\ DOMAIN works' = Runs /\ Others(r)
    /\ Fields \subseteq DOMAIN works'[r]

GoesOn(r) ==
    /\ Rewrites(r)
    /\ works'[r].pc \notin {"none", "begun"}
    /\ works'[r].pc \in Working /\ ~Cancelling' => ProgressOf(works'[r])
    /\ works'[r].pc = "final" =>
          IF works'[r].cancelled THEN Cancelling' ELSE works'[r].whole = Platforms
    /\ SlotStays /\ FlagsStay
    /\ presses' = presses /\ cancels' = cancels
    /\ runRow' \in [Runs -> Statuses]

LEMMA GoesOnKeeps ==
    ASSUME RecordInv, NEW r \in Runs, Lives(r), GoesOn(r)
    PROVE  RecordInv'
<1> USE DEF RecordInv
<1>1. slot.run = r /\ slot.state # "idle"
    BY DEF SlotInv, RunTyped, Runs, NoRun
<1>2. slot'.run = r /\ slot'.state # "idle" /\ (Cancelling => Cancelling')
      /\ slot' \in [state : {"idle", "running", "cancelling"}, run : {NoRun} \cup Runs]
      /\ (Cancelling' => Cancelling \/ box'.paused \/ box'.interrupted)
    BY <1>1 DEF GoesOn, SlotStays, RequestCancel, RunTyped, Cancelling
<1>3. RunTyped'
    BY <1>1, <1>2 DEF RunTyped, GoesOn, Rewrites, Others, Fields, FlagsStay, Runs, NoRun
<1>4. \A q \in Runs : q # r => ~Lives(q) /\ works'[q] = works[q]
    BY <1>1 DEF SlotInv, GoesOn, Rewrites, Others
<1>5. SlotInv'
    BY <1>2, <1>4 DEF SlotInv, Lives
<1>6. UserStopped' <=> UserStopped
    BY <1>1, <1>2 DEF UserStopped, GoesOn
<1>7. CancelInv'
    BY <1>2, <1>4, <1>6 DEF CancelInv, GoesOn, FlagsStay, At, Lives
<1>8. ProgressInv'
    <2> SUFFICES ASSUME NEW q \in Runs
                 PROVE  /\ works'[q].pc = "none" => ProgressOf(works'[q])
                        /\ works'[q].pc \in Working /\ ~Cancelling' => ProgressOf(works'[q])
                        /\ works'[q].pc = "final" =>
                              IF works'[q].cancelled THEN Cancelling'
                              ELSE works'[q].whole = Platforms
        BY DEF ProgressInv, ProgressOf, At, Before
    <2>1. CASE q = r
        BY <2>1 DEF GoesOn
    <2>2. CASE q # r
        <3>1. works'[q] = works[q] /\ works[q].pc \in {"none", "ended", "dead"}
            BY <2>2, <1>4 DEF Lives
        <3>2. works[q].pc = "none" => ProgressOf(works[q])
            BY DEF ProgressInv
        <3>3. QED
            BY <3>1, <3>2 DEF Working, InUnit
    <2>3. QED
        BY <2>1, <2>2
<1>9. QED
    BY <1>3, <1>5, <1>7, <1>8

\* The run's place changes and nothing it did.
Moves(r, pc) ==
    /\ Rewrites(r)
    /\ works'[r].pc = pc /\ works'[r].at = works[r].at
    /\ works'[r].whole = works[r].whole

\* Nothing the invariant speaks of changes beside the run's work.
WorkOnly ==
    /\ slot' = slot /\ FlagsStay
    /\ presses' = presses /\ cancels' = cancels
    /\ runRow' \in [Runs -> Statuses]

LEMMA GotoMoves ==
    ASSUME RunTyped, NEW r \in Runs, NEW pc, Goto(r, pc)
    PROVE  Moves(r, pc)
BY DEF RunTyped, Goto, Moves, Others, Rewrites, Fields

\* A step from a place to another one of as much progress goes on.
LEMMA MovesGoesOn ==
    ASSUME RecordInv, NEW r \in Runs, NEW pc, Moves(r, pc), WorkOnly,
           works[r].pc \in Working,
           pc \in (Working \ {"none", "begun"}) \cup {"errored", "finish"},
           pc \in InUnit => works[r].pc \in InUnit
    PROVE  GoesOn(r)
<1>1. pc \in Working /\ ~Cancelling' => ProgressOf(works'[r])
    <2> SUFFICES ASSUME pc \in Working, ~Cancelling'
                 PROVE  ProgressOf(works'[r])
        OBVIOUS
    <2>1. ProgressOf(works[r])
        BY DEF RecordInv, ProgressInv, WorkOnly, Cancelling
    <2>2. QED
        BY <2>1 DEF ProgressOf, Moves
<1>2. pc \notin {"none", "begun", "final"}
    BY DEF Working, InUnit
<1>3. QED
    BY <1>1, <1>2 DEF GoesOn, Moves, WorkOnly, SlotStays

\* A unit is left undone in a run that is being cancelled.
LEMMA LeaveGoesOn ==
    ASSUME RecordInv, NEW r \in Runs, LeaveUnit(r), Cancelling', SlotStays, FlagsStay,
           presses' = presses, cancels' = cancels, runRow' = runRow
    PROVE  GoesOn(r)
<1>1. works'[r].pc = "unit" /\ Rewrites(r)
    BY DEF RecordInv, RunTyped, LeaveUnit, Rewrites, Others, Idle, Fields
<1>2. QED
    BY <1>1 DEF GoesOn, RecordInv, RunTyped

-----------------------------------------------------------------------------
(* The run's steps. *)

\* The steps in which the run only goes from one place to the next.
LEMMA MovingSteps ==
    ASSUME RecordInv, NEW r \in Runs,
           \/ Plan(r) \/ PlanFails(r) \/ OpenRun(r) \/ FetchUnit(r)
           \/ SendChunk(r) \/ TakeAnswer(r) \/ Raise(r)
    PROVE  GoesOn(r)
<1> USE DEF backendVars, diskVars, panelVars, callVars, historyVars
<1>1. RunTyped
    BY DEF RecordInv
<1>2. CASE Plan(r)
    <2>1. Moves(r, "open") /\ WorkOnly
        BY <1>1, <1>2, GotoMoves DEF Plan, WorkOnly, FlagsStay, RunTyped
    <2>2. QED
        BY <1>2, <2>1, MovesGoesOn DEF Plan, At, Working, InUnit
<1>3. CASE PlanFails(r)
    <2>1. Moves(r, "finish") /\ WorkOnly
        BY <1>1, <1>3, GotoMoves DEF PlanFails, WorkOnly, FlagsStay, RunTyped
    <2>2. QED
        BY <1>3, <2>1, MovesGoesOn DEF PlanFails, At, Working, InUnit
<1>4. CASE OpenRun(r)
    <2>1. Moves(r, "unit") /\ WorkOnly
        BY <1>1, <1>4, GotoMoves DEF OpenRun, WorkOnly, FlagsStay, RunTyped, Statuses
    <2>2. QED
        BY <1>4, <2>1, MovesGoesOn DEF OpenRun, At, Working, InUnit
<1>5. CASE FetchUnit(r)
    <2>1. Moves(r, "fetched") /\ WorkOnly
        BY <1>1, <1>5 DEF FetchUnit, WorkOnly, FlagsStay, RunTyped, Moves, Rewrites, Others, Fields
    <2>2. works[r].pc = "unit" /\ ~Cancelling /\ works[r].at <= Len(Queue)
        BY <1>5 DEF FetchUnit, TakesUnit, At
    <2>3. ProgressOf(works[r])
        BY <2>2 DEF RecordInv, ProgressInv, Working
    <2>4. ProgressOf(works'[r])
        BY <2>1, <2>2, <2>3 DEF ProgressOf, Moves
    <2>5. QED
        BY <2>1, <2>4 DEF GoesOn, Moves, WorkOnly, SlotStays
<1>6. CASE SendChunk(r)
    <2>1. Moves(r, "wait") /\ WorkOnly
        BY <1>1, <1>6, GotoMoves DEF SendChunk, WorkOnly, FlagsStay, RunTyped
    <2>2. QED
        BY <1>6, <2>1, MovesGoesOn DEF SendChunk, At, Working, InUnit
<1>7. CASE TakeAnswer(r)
    <2>1. WorkOnly
        BY <1>1, <1>7 DEF TakeAnswer, WorkOnly, FlagsStay, RunTyped
    <2>2. PICK k \in box.answer :
             works' = [works EXCEPT ![r].pc = "commit", ![r].answer = k.app]
        BY <1>7 DEF TakeAnswer
    <2>3. Moves(r, "commit")
        BY <1>1, <2>2 DEF RunTyped, Moves, Rewrites, Others, Fields
    <2>4. QED
        BY <1>7, <2>1, <2>3, MovesGoesOn DEF TakeAnswer, At, Working, InUnit
<1>8. CASE Raise(r)
    <2>1. Moves(r, "errored") /\ WorkOnly
        BY <1>1, <1>8, GotoMoves DEF Raise, WorkOnly, FlagsStay, RunTyped
    <2>2. QED
        BY <2>1 DEF GoesOn, Moves, WorkOnly, SlotStays, Working, InUnit
<1>9. QED
    BY <1>2, <1>3, <1>4, <1>5, <1>6, <1>7, <1>8

\* The steps that may leave a unit undone, all of them in a cancelled run.
LEMMA LeavingSteps ==
    ASSUME RecordInv, NEW r \in Runs, slot.run = r,
           \/ Classify(r) \/ BeginApply(r) \/ StopAtChunk(r) \/ PauseForBudget(r)
           \/ SeeCancel(r) \/ TimeOut(r)
    PROVE  GoesOn(r)
<1> USE DEF backendVars, diskVars, panelVars, callVars, historyVars
<1>1. RunTyped /\ slot.state # "idle"
    BY DEF RecordInv, RunTyped, Runs, NoRun
<1>2. CASE Classify(r)
    <2>1. CASE Cancelling
        BY <1>1, <1>2, <2>1, LeaveGoesOn
        DEF Classify, Cancelling, SlotStays, FlagsStay, RunTyped
    <2>2. CASE ~Cancelling
        <3>1. Moves(r, "clear") /\ WorkOnly
            BY <1>1, <1>2, <2>2
            DEF Classify, WorkOnly, FlagsStay, RunTyped, Moves, Rewrites, Others, Fields
        <3>2. QED
            BY <1>2, <3>1, MovesGoesOn DEF Classify, At, Working, InUnit
    <2>3. QED
        BY <2>1, <2>2
<1>3. CASE BeginApply(r)
    <2>1. CASE Cancelling
        BY <1>1, <1>3, <2>1, LeaveGoesOn
        DEF BeginApply, Cancelling, SlotStays, FlagsStay, RunTyped
    <2>2. CASE ~Cancelling
        <3>1. Moves(r, "dispatch") /\ WorkOnly
            BY <1>1, <1>3, <2>2, GotoMoves DEF BeginApply, WorkOnly, FlagsStay, RunTyped
        <3>2. QED
            BY <1>3, <3>1, MovesGoesOn DEF BeginApply, At, Working, InUnit
    <2>3. QED
        BY <2>1, <2>2
<1>4. CASE StopAtChunk(r) \/ SeeCancel(r)
    BY <1>1, <1>4, LeaveGoesOn
    DEF StopAtChunk, SeeCancel, ClearActiveUnit, Cancelling, SlotStays, FlagsStay, RunTyped
<1>5. CASE PauseForBudget(r)
    <2>1. Cancelling' /\ SlotStays /\ FlagsStay
        BY <1>1, <1>5
        DEF PauseForBudget, RequestCancel, ClearActiveUnit, Cancelling, SlotStays, FlagsStay, RunTyped
    <2>2. QED
        BY <1>5, <2>1, LeaveGoesOn DEF PauseForBudget
<1>6. CASE TimeOut(r)
    <2>1. Cancelling' /\ SlotStays /\ FlagsStay
        BY <1>1, <1>6
        DEF TimeOut, RequestCancel, StashAbandonedChunk, Cancelling, SlotStays, FlagsStay, RunTyped
    <2>2. QED
        BY <1>6, <2>1, LeaveGoesOn DEF TimeOut
<1>7. QED
    BY <1>2, <1>3, <1>4, <1>5, <1>6

\* A unit done, in its last chunk or by the skip, is one more of the queue.
LEMMA UnitDone ==
    ASSUME NEW w, NEW v, ProgressOf(w), w.at <= Len(Queue),
           v.at = w.at + 1, v.whole = w.whole \cup {Queue[w.at]}, v.pc = "unit"
    PROVE  ProgressOf(v)
<1>1. w.at \in Nat \ {0}
    BY DEF ProgressOf
<1>2. Before(w.at - 1) \cup {Queue[w.at]} = Before(w.at)
    BY <1>1 DEF Before
<1>3. QED
    BY <1>1, <1>2, QueueLength DEF ProgressOf, InUnit

LEMMA DoingSteps ==
    ASSUME RecordInv, NEW r \in Runs, SkipUnit(r) \/ CommitChunk(r)
    PROVE  GoesOn(r)
<1> USE DEF backendVars, diskVars, panelVars, callVars, historyVars
<1>1. RunTyped
    BY DEF RecordInv
<1>2. CASE SkipUnit(r)
    <2>1. works[r].pc = "unit" /\ ~Cancelling /\ works[r].at <= Len(Queue)
        BY <1>2 DEF SkipUnit, TakesUnit, At
    <2>2. /\ Rewrites(r) /\ WorkOnly
          /\ works'[r].pc = "unit" /\ works'[r].at = works[r].at + 1
          /\ works'[r].whole = works[r].whole \cup {Queue[works[r].at]}
        BY <1>1, <1>2, <2>1
        DEF SkipUnit, Unit, Rewrites, Others, WorkOnly, FlagsStay, RunTyped, Fields
    <2>3. ProgressOf(works[r])
        BY <2>1 DEF RecordInv, ProgressInv, Working
    <2>4. ProgressOf(works'[r])
        BY <2>1, <2>2, <2>3, UnitDone
    <2>5. QED
        BY <2>2, <2>4 DEF GoesOn, WorkOnly, SlotStays
<1>3. CASE CommitChunk(r)
    <2>1. WorkOnly
        BY <1>1, <1>3 DEF CommitChunk, ClearActiveUnit, WorkOnly, FlagsStay, RunTyped
    <2>2. CASE ~IsLastChunk(works[r])
        <3>1. Moves(r, "dispatch")
            BY <1>1, <1>3, <2>2 DEF CommitChunk, RunTyped, Moves, Rewrites, Others, Fields
        <3>2. QED
            BY <1>3, <2>1, <3>1, MovesGoesOn DEF CommitChunk, At, Working, InUnit
    <2>3. CASE IsLastChunk(works[r])
        <3> DEFINE done == [Idle EXCEPT !.pc = "unit", !.at = works[r].at + 1,
                                        !.whole = works[r].whole \cup {Queue[works[r].at]}]
        <3>0. works' = [works EXCEPT ![r] = done]
            BY <1>3, <2>3 DEF CommitChunk, Unit
        <3>1. /\ Rewrites(r)
              /\ works'[r].pc = "unit" /\ works'[r].at = works[r].at + 1
              /\ works'[r].whole = works[r].whole \cup {Queue[works[r].at]}
            BY <1>1, <3>0 DEF Rewrites, Others, RunTyped, Idle, Fields
        <3>2. ~Cancelling => ProgressOf(works'[r])
            <4>1. ~Cancelling => ProgressOf(works[r]) /\ works[r].at <= Len(Queue)
                BY <1>3 DEF CommitChunk, At, RecordInv, ProgressInv, ProgressOf, Working, InUnit
            <4>2. QED
                BY <3>1, <4>1, UnitDone
        <3>3. QED
            BY <2>1, <3>1, <3>2 DEF GoesOn, WorkOnly, SlotStays, Cancelling
    <2>4. QED
        BY <2>2, <2>3
<1>4. QED
    BY <1>2, <1>3

LEMMA EndingSteps ==
    ASSUME RecordInv, NEW r \in Runs,
           EndUnits(r) \/ RecordTerminalStatus(r) \/ MarkErrored(r)
    PROVE  GoesOn(r)
<1> USE DEF backendVars, diskVars, panelVars, callVars, historyVars
<1>1. RunTyped
    BY DEF RecordInv
<1>2. CASE EndUnits(r)
    <2>1. /\ Rewrites(r) /\ WorkOnly
          /\ works'[r].pc = "final" /\ works'[r].cancelled = Cancelling
          /\ works'[r].whole = works[r].whole
        BY <1>1, <1>2
        DEF EndUnits, Rewrites, Others, WorkOnly, FlagsStay, RunTyped, Fields
    <2>2. Cancelling' = Cancelling
        BY <2>1 DEF WorkOnly, Cancelling
    <2>3. ~Cancelling => works[r].whole = Platforms
        <3> SUFFICES ASSUME ~Cancelling
                     PROVE  works[r].whole = Platforms
            OBVIOUS
        <3>1. ProgressOf(works[r]) /\ works[r].at > Len(Queue)
            BY <1>2 DEF EndUnits, At, RecordInv, ProgressInv, Working
        <3>2. works[r].at - 1 = Len(Queue)
            BY <3>1, QueueLength DEF ProgressOf
        <3>3. QED
            BY <3>1, <3>2, WholeQueue DEF ProgressOf
    <2>4. QED
        BY <2>1, <2>2, <2>3 DEF GoesOn, WorkOnly, SlotStays, Working, InUnit
<1>3. CASE RecordTerminalStatus(r) \/ MarkErrored(r)
    <2>1. Moves(r, "finish")
        BY <1>1, <1>3, GotoMoves DEF RecordTerminalStatus, MarkErrored
    <2>2. runRow' \in [Runs -> Statuses]
        BY <1>1, <1>3 DEF RecordTerminalStatus, MarkErrored, Terminate, RunTyped, Statuses
    <2>3. WorkOnly
        BY <1>1, <1>3, <2>2
        DEF RecordTerminalStatus, MarkErrored, WorkOnly, FlagsStay, RunTyped
    <2>4. QED
        BY <2>1, <2>3 DEF GoesOn, Moves, WorkOnly, SlotStays, Working, InUnit
<1>4. QED
    BY <1>2, <1>3

\* The flags drop as the work begins; a cancel that is in force then was pressed.
LEMMA BeginKeeps ==
    ASSUME RecordInv, NEW r \in Runs, Begin(r)
    PROVE  RecordInv'
<1> USE DEF backendVars, diskVars, panelVars, callVars, historyVars
<1>1. RunTyped
    BY DEF RecordInv
<1>2. works[r].pc = "begun" /\ slot.run = r
    BY DEF Begin, At, RecordInv, SlotInv, Lives
<1>3. Moves(r, "queue")
    BY <1>1, GotoMoves DEF Begin
<1>4. \A q \in Runs : q # r => ~Lives(q) /\ works'[q] = works[q]
    BY <1>2, <1>3 DEF RecordInv, SlotInv, Moves, Rewrites, Others
<1>5. RunTyped'
    BY <1>1, <1>3, <1>4 DEF Begin, RunTyped, Moves, Rewrites, Others, Fields
<1>6. SlotInv'
    BY <1>2, <1>4 DEF Begin, SlotInv, Lives
<1>7. CancelInv'
    <2>1. Cancelling => UserStopped
        BY <1>2 DEF RecordInv, CancelInv, At
    <2>2. UserStopped' = UserStopped /\ Cancelling' = Cancelling /\ cancels' = cancels
          /\ presses' = presses
        BY DEF Begin, UserStopped, Cancelling
    <2>3. QED
        BY <2>1, <2>2 DEF RecordInv, CancelInv
<1>8. ProgressInv'
    <2> SUFFICES ASSUME NEW q \in Runs
                 PROVE  /\ works'[q].pc = "none" => ProgressOf(works'[q])
                        /\ works'[q].pc \in Working /\ ~Cancelling' => ProgressOf(works'[q])
                        /\ works'[q].pc = "final" =>
                              IF works'[q].cancelled THEN Cancelling'
                              ELSE works'[q].whole = Platforms
        BY DEF ProgressInv, ProgressOf, At, Before
    <2>1. CASE q = r
        <3>1. ~Cancelling' => ProgressOf(works[r])
            BY <1>2 DEF Begin, RecordInv, ProgressInv, Working, Cancelling
        <3>2. ~Cancelling' => ProgressOf(works'[r])
            BY <3>1, <1>3 DEF ProgressOf, Moves, InUnit
        <3>3. QED
            BY <2>1, <3>2, <1>3 DEF Moves
    <2>2. CASE q # r
        <3>1. works'[q] = works[q] /\ works[q].pc \in {"none", "ended", "dead"}
            BY <2>2, <1>4 DEF Lives
        <3>2. works[q].pc = "none" => ProgressOf(works[q])
            BY DEF RecordInv, ProgressInv
        <3>3. QED
            BY <3>1, <3>2 DEF Working, InUnit
    <2>3. QED
        BY <2>1, <2>2
<1>9. QED
    BY <1>5, <1>6, <1>7, <1>8 DEF RecordInv

\* With the slot given up no run lives, and nothing is being cancelled.
LEMMA FreedKeeps ==
    ASSUME RecordInv,
           slot' = [state |-> "idle", run |-> NoRun],
           DOMAIN works' = Runs,
           \A q \in Runs : \/ works'[q] = works[q] /\ ~Lives(q)
                           \/ works'[q].pc \in {"ended", "dead"} /\ Fields \subseteq DOMAIN works'[q],
           {"paused", "interrupted"} \subseteq DOMAIN box',
           runRow' \in [Runs -> Statuses],
           cancels' \subseteq presses'
    PROVE  RecordInv'
<1>1. RunTyped'
    BY DEF RecordInv, RunTyped, Fields
<1>2. SlotInv' /\ CancelInv'
    BY DEF SlotInv, CancelInv, Lives, Cancelling
<1>3. ASSUME NEW q \in Runs
      PROVE  /\ works'[q].pc = "none" => ProgressOf(works'[q])
             /\ works'[q].pc \notin Working \ {"none"}
             /\ works'[q].pc # "final"
    <2>1. works'[q].pc \in {"none", "ended", "dead"}
        BY <1>3 DEF Lives
    <2>2. works'[q].pc = "none" => ProgressOf(works'[q])
        BY <1>3 DEF RecordInv, ProgressInv
    <2>3. QED
        BY <2>1, <2>2 DEF Working, InUnit
<1>4. ProgressInv'
    BY <1>3 DEF ProgressInv, ProgressOf, At, Before
<1>5. QED
    BY <1>1, <1>2, <1>4 DEF RecordInv

LEMMA FinishKeeps ==
    ASSUME RecordInv, NEW r \in Runs, Finish(r)
    PROVE  RecordInv'
<1> USE DEF backendVars, diskVars, panelVars, callVars, historyVars
<1>1. RunTyped /\ slot.run = r
    BY DEF Finish, At, RecordInv, SlotInv, Lives
<1>2. slot' = [state |-> "idle", run |-> NoRun]
    BY <1>1 DEF Finish, FinishRun
<1>3. DOMAIN works' = Runs
    BY <1>1 DEF Finish, RunTyped
<1>4. ASSUME NEW q \in Runs
      PROVE  \/ works'[q] = works[q] /\ ~Lives(q)
             \/ works'[q].pc \in {"ended", "dead"} /\ Fields \subseteq DOMAIN works'[q]
    <2>1. CASE q = r
        BY <1>1, <2>1 DEF Finish, RunTyped, Idle, Fields
    <2>2. CASE q # r
        BY <1>1, <2>2 DEF Finish, RunTyped, RecordInv, SlotInv
    <2>3. QED
        BY <2>1, <2>2
<1>5. QED
    BY <1>1, <1>2, <1>3, <1>4, FreedKeeps DEF Finish, RunTyped, RecordInv, CancelInv

LEMMA RestartKeeps == RecordInv /\ Restart => RecordInv'
<1> SUFFICES ASSUME RecordInv, Restart PROVE RecordInv'
    OBVIOUS
<1>1. \A q \in Runs : \/ works'[q] = works[q] /\ ~Lives(q)
                      \/ works'[q].pc \in {"ended", "dead"} /\ Fields \subseteq DOMAIN works'[q]
    BY DEF Restart, Idle, Fields
<1>2. runRow' \in [Runs -> Statuses]
    BY DEF Restart, RecordInv, RunTyped, Statuses
<1>3. QED
    BY <1>1, <1>2, FreedKeeps DEF Restart, EmptyBox

\* A run that starts finds nobody in the slot.
LEMMA StartKeeps ==
    ASSUME RecordInv, NEW r \in Runs, Start(r)
    PROVE  RecordInv'
<1> USE DEF backendVars, diskVars, panelVars, callVars, historyVars
<1>1. RunTyped /\ slot.run = NoRun /\ works[r].pc = "none" /\ ~Cancelling'
    BY DEF Start, TryBeginRun, RecordInv, RunTyped, At, Cancelling
<1>2. Moves(r, "begun") /\ Others(r)
    BY <1>1, GotoMoves DEF Start, Moves, Rewrites
<1>3. \A q \in Runs : q # r => ~Lives(q) /\ works'[q] = works[q]
    BY <1>1, <1>2 DEF RecordInv, SlotInv, Others, Runs, NoRun
<1>4. slot' = [state |-> "running", run |-> r] /\ {"paused", "interrupted"} \subseteq DOMAIN box'
    BY <1>1 DEF Start, TryBeginRun, RunTyped
<1>5. RunTyped'
    BY <1>1, <1>2, <1>3, <1>4 DEF Start, RunTyped, Moves, Rewrites, Others, Fields, Runs, NoRun
<1>6. SlotInv'
    BY <1>3, <1>4 DEF SlotInv, Lives
<1>7. CancelInv'
    BY <1>1 DEF Start, RecordInv, CancelInv
<1>8. ASSUME NEW q \in Runs
      PROVE  /\ works'[q].pc \in Working => ProgressOf(works'[q])
             /\ works'[q].pc # "final"
    <2>1. works'[q].pc \in {"none", "begun", "ended", "dead"}
        BY <1>2, <1>3, <1>8 DEF Lives, Moves
    <2>2. works[q].pc = "none" => ProgressOf(works[q])
        BY <1>8 DEF RecordInv, ProgressInv
    <2>3. works'[q].pc \in {"none", "begun"} => ProgressOf(works'[q])
        BY <1>1, <1>2, <1>3, <2>2 DEF Lives, Moves, ProgressOf, InUnit
    <2>4. QED
        BY <2>1, <2>3 DEF Working, InUnit
<1>9. ProgressInv'
    BY <1>8 DEF ProgressInv, ProgressOf, At, Before, Working, InUnit
<1>10. QED
    BY <1>5, <1>6, <1>7, <1>9 DEF RecordInv

-----------------------------------------------------------------------------
(* The panel, the calls and what comes from outside. *)

LEMMA CancelKeeps ==
    ASSUME RecordInv, NEW id \in cancels, DeliverCancel(id)
    PROVE  RecordInv'
<1> USE DEF backendVars, diskVars, panelVars, callVars, historyVars
<1>1. /\ works' = works /\ box' = box /\ runRow' = runRow /\ presses' = presses
      /\ cancels' \subseteq cancels /\ slot'.run = slot.run
      /\ slot' \in [state : {"idle", "running", "cancelling"}, run : {NoRun} \cup Runs]
      /\ slot'.state = "idle" <=> slot.state = "idle"
      /\ Cancelling => Cancelling'
    BY DEF DeliverCancel, RequestCancel, Cancelling, RecordInv, RunTyped
<1>2. Cancelling' => Cancelling \/ UserStopped'
    BY DEF DeliverCancel, RequestCancel, Cancelling, UserStopped, RecordInv, RunTyped, CancelInv
<1>3. UserStopped' = UserStopped
    BY <1>1 DEF UserStopped
<1>4. RunTyped'
    BY <1>1 DEF RecordInv, RunTyped
<1>5. SlotInv'
    BY <1>1 DEF RecordInv, SlotInv, Lives
<1>6. CancelInv'
    BY <1>1, <1>2, <1>3 DEF RecordInv, CancelInv, At
<1>7. ProgressInv'
    BY <1>1 DEF RecordInv, ProgressInv, ProgressOf, At, Before
<1>8. QED
    BY <1>4, <1>5, <1>6, <1>7 DEF RecordInv

\* A step at which the run rests: the slot, the work and the flags are as before.
RunRests ==
    /\ slot' = slot /\ works' = works /\ runRow' = runRow
    /\ {"paused", "interrupted"} \subseteq DOMAIN box'
    /\ box'.paused = box.paused /\ box'.interrupted = box.interrupted
    /\ presses \subseteq presses' /\ cancels' \subseteq cancels \cup presses'

LEMMA RestKeeps ==
    ASSUME RecordInv, RunRests
    PROVE  RecordInv'
<1>1. RunTyped' /\ SlotInv'
    BY DEF RecordInv, RunRests, RunTyped, SlotInv, Lives
<1>2. UserStopped => UserStopped'
    BY DEF RunRests, UserStopped
<1>3. CancelInv'
    BY <1>2 DEF RecordInv, RunRests, CancelInv, Cancelling, At
<1>4. ProgressInv'
    BY DEF RecordInv, RunRests, ProgressInv, ProgressOf, At, Before, Cancelling
<1>5. QED
    BY <1>1, <1>3, <1>4 DEF RecordInv

LEMMA RestingSteps ==
    ASSUME RecordInv,
           \/ PanelStep \/ RommChanges \/ ClearSyncCache \/ UNCHANGED vars
           \/ PressCancel
           \/ \E k \in acks : ReportUnitResults(k)
           \/ \E j \in late : LateCommit(j)
    PROVE  RunRests
<1> USE DEF backendVars, diskVars, panelVars, callVars, historyVars
<1>1. {"paused", "interrupted"} \subseteq DOMAIN box
    BY DEF RecordInv, RunTyped
<1>2. CASE PanelStep
    <2>1. /\ slot' = slot /\ works' = works /\ runRow' = runRow /\ box' = box
          /\ presses' = presses /\ cancels' = cancels
        BY <1>2
        DEF PanelStep, TakeFrame, DropFrame, UpdateShortcut, AdoptOrphan, CreateShortcut,
            CreateFails, EndFrame, Reload
    <2>2. QED
        BY <1>1, <2>1 DEF RunRests
<1>3. CASE RommChanges \/ ClearSyncCache \/ UNCHANGED vars
    BY <1>1, <1>3 DEF RommChanges, ClearSyncCache, vars, RunRests
<1>4. CASE PressCancel
    BY <1>1, <1>4 DEF PressCancel, RunRests
<1>5. CASE \E k \in acks : ReportUnitResults(k)
    BY <1>1, <1>5 DEF ReportUnitResults, RunRests
<1>6. CASE \E j \in late : LateCommit(j)
    BY <1>1, <1>6 DEF LateCommit, RunRests
<1>7. QED
    BY <1>2, <1>3, <1>4, <1>5, <1>6

-----------------------------------------------------------------------------
(* The invariant, and how a run is recorded. *)

LEMMA RunStepLives ==
    ASSUME NEW r \in Runs, RunStep(r)
    PROVE  Lives(r)
BY DEF RunStep, Begin, Plan, PlanFails, OpenRun, EndUnits, SkipUnit, FetchUnit, TakesUnit,
       Classify, BeginApply, StopAtChunk, PauseForBudget, SendChunk, TakeAnswer, SeeCancel,
       TimeOut, CommitChunk, Raise, RecordTerminalStatus, MarkErrored, Finish, At, Lives

LEMMA RunStepKeeps ==
    ASSUME RecordInv, NEW r \in Runs, RunStep(r)
    PROVE  RecordInv'
<1>1. Lives(r) /\ slot.run = r
    BY RunStepLives DEF RecordInv, SlotInv
<1>2. Begin(r) \/ Finish(r) \/ GoesOn(r)
    BY <1>1, MovingSteps, LeavingSteps, DoingSteps, EndingSteps DEF RunStep
<1>3. QED
    BY <1>1, <1>2, BeginKeeps, FinishKeeps, GoesOnKeeps

LEMMA RecordStep == RecordInv /\ [Next]_vars => RecordInv'
<1> SUFFICES ASSUME RecordInv, [Next]_vars PROVE RecordInv'
    OBVIOUS
<1>1. CASE \E r \in Runs : Start(r)
    BY <1>1, StartKeeps
<1>2. CASE \E r \in Runs : RunStep(r)
    BY <1>2, RunStepKeeps
<1>3. CASE \E id \in cancels : DeliverCancel(id)
    BY <1>3, CancelKeeps
<1>4. CASE Restart
    BY <1>4, RestartKeeps
<1>5. CASE \/ PanelStep \/ RommChanges \/ ClearSyncCache \/ UNCHANGED vars \/ PressCancel
           \/ \E k \in acks : ReportUnitResults(k)
           \/ \E j \in late : LateCommit(j)
    BY <1>5, RestingSteps, RestKeeps
<1>6. QED
    BY <1>1, <1>2, <1>3, <1>4, <1>5 DEF Next, CallStep

\* The slot is the living run's, a cancel has its reason, and a run that nobody
\* cancels leaves no platform of its queue out (LibrarySyncStateBox's claims and
\* cancels, and the unit loop of the orchestrator).
THEOREM RecordInvariant == Spec => []RecordInv
<1>1. QED
    BY RecordInit, RecordStep, PTL DEF Spec

\* What one step writes of a run's status.
RowWritten ==
    \A r \in Runs : runRow'[r] # runRow[r] =>
        /\ runRow'[r] = "completed" => works[r].whole = Platforms
        /\ runRow'[r] = "cancelled" => {r, NoRun} \cap presses # {}

LEMMA TerminalStatusHonest ==
    ASSUME RecordInv, NEW r \in Runs, RecordTerminalStatus(r)
    PROVE  RowWritten
<1>1. works[r].pc = "final" /\ slot.run = r /\ runRow \in [Runs -> Statuses]
    BY DEF RecordTerminalStatus, At, RecordInv, SlotInv, Lives, RunTyped
<1>2. \A q \in Runs : q # r => runRow'[q] = runRow[q]
    BY <1>1 DEF RecordTerminalStatus, Terminate
<1>3. runRow'[r] # runRow[r] /\ runRow'[r] = "completed" => works[r].whole = Platforms
    BY <1>1 DEF RecordTerminalStatus, Terminate, RecordInv, ProgressInv, At
<1>4. ASSUME runRow'[r] # runRow[r], runRow'[r] = "cancelled"
      PROVE  {r, NoRun} \cap presses # {}
    <2>1. works[r].cancelled /\ ~box.paused /\ ~box.interrupted
        BY <1>1, <1>4 DEF RecordTerminalStatus, Terminate
    <2>2. Cancelling
        BY <1>1, <2>1 DEF RecordInv, ProgressInv, At
    <2>3. UserStopped
        BY <2>1, <2>2 DEF RecordInv, CancelInv
    <2>4. QED
        BY <1>1, <2>3 DEF UserStopped
<1>5. QED
    BY <1>2, <1>3, <1>4 DEF RowWritten

LEMMA RowStep == RecordInv /\ [Next]_vars => RowWritten
<1> SUFFICES ASSUME RecordInv, [Next]_vars PROVE RowWritten
    OBVIOUS
<1> USE DEF backendVars, diskVars, panelVars, callVars, historyVars
<1>1. runRow \in [Runs -> Statuses]
    BY DEF RecordInv, RunTyped
<1>2. CASE \E r \in Runs : RecordTerminalStatus(r)
    BY <1>2, TerminalStatusHonest
<1>3. CASE \E r \in Runs : OpenRun(r) \/ MarkErrored(r)
    BY <1>1, <1>3 DEF OpenRun, MarkErrored, Terminate, RowWritten
<1>4. CASE Restart
    BY <1>4 DEF Restart, RowWritten
<1>5. CASE runRow' = runRow
    BY <1>5 DEF RowWritten
<1>6. ASSUME NEW r \in Runs, RunStep(r), ~RecordTerminalStatus(r), ~OpenRun(r), ~MarkErrored(r)
      PROVE  runRow' = runRow
    BY <1>6
    DEF RunStep, Begin, Plan, PlanFails, EndUnits, SkipUnit, FetchUnit, Classify, BeginApply,
        StopAtChunk, PauseForBudget, SendChunk, TakeAnswer, SeeCancel, TimeOut, CommitChunk,
        Raise, Finish
<1>7. CASE \E r \in Runs : Start(r)
    BY <1>5, <1>7 DEF Start
<1>8. CASE \E id \in cancels : DeliverCancel(id)
    BY <1>5, <1>8 DEF DeliverCancel
<1>9. CASE \/ PanelStep \/ RommChanges \/ ClearSyncCache \/ UNCHANGED vars \/ PressCancel
           \/ \E k \in acks : ReportUnitResults(k)
           \/ \E j \in late : LateCommit(j)
    BY <1>5, <1>9, RestingSteps DEF RunRests
<1>10. QED
    BY <1>2, <1>3, <1>4, <1>5, <1>6, <1>7, <1>8, <1>9 DEF Next, CallStep

\* A run is recorded as completed only if it went through every platform, and
\* as cancelled only if the user stopped it (SyncOrchestrator's terminal status).
THEOREM RunIsRecordedAsEnded == Spec => RecordedAsEnded
<1>1. RecordInv /\ [Next]_vars =>
          [\A r \in Runs : runRow'[r] # runRow[r] =>
              /\ runRow'[r] = "completed" => works[r].whole = Platforms
              /\ runRow'[r] = "cancelled" => {r, NoRun} \cap presses # {}]_vars
    BY RowStep DEF RowWritten
<1>2. QED
    BY <1>1, RecordInvariant, PTL DEF Spec, RecordedAsEnded

-----------------------------------------------------------------------------
(* The lists and their chunks. *)

Elems(s) == {s[i] : i \in DOMAIN s}

Distinct(s) == \A i, j \in DOMAIN s : s[i] = s[j] => i = j

\* What the chunks of a fetched unit are: every game of it is a row of one, and
\* no game is sent in two.
ChunksOf(cs, S) ==
    /\ cs \in Seq([games : Seq(S), rows : SUBSET S])
    /\ Len(cs) \in Nat \ {0} /\ DOMAIN cs = 1..Len(cs)
    /\ \A c \in DOMAIN cs : /\ cs[c].games \in Seq(S) /\ Distinct(cs[c].games)
                            /\ Elems(cs[c].games) \subseteq cs[c].rows /\ cs[c].rows \subseteq S
    /\ \A g \in S : \E c \in DOMAIN cs : g \in cs[c].rows
    /\ \A c, d \in DOMAIN cs : c # d => Elems(cs[c].games) \cap Elems(cs[d].games) = {}

-----------------------------------------------------------------------------
(* The delta, and its split. *)

\* The positions of a finite set of numbers, in order.
LEMMA Ranks ==
    ASSUME NEW m \in Nat, NEW T \in SUBSET (1..m)
    PROVE  /\ Cardinality(T) \in Nat
           /\ \A n \in 1..Cardinality(T) : \E i \in T : Cardinality({j \in T : j <= i}) = n
           /\ \A i \in T : Cardinality({j \in T : j <= i}) \in 1..Cardinality(T)
           /\ \A i, k \in T : Cardinality({j \in T : j <= i}) = Cardinality({j \in T : j <= k})
                              => i = k
<1> DEFINE upTo(i) == {j \in T : j <= i}
           rank == [i \in T |-> Cardinality(upTo(i))]
           N == Cardinality(T)
<1>1. IsFiniteSet(T) /\ N \in Nat /\ T \in SUBSET Nat
    <2>1. IsFiniteSet(1..m)
        BY FS_Interval
    <2>2. IsFiniteSet(T)
        BY <2>1, FS_Subset
    <2>3. QED
        BY <2>2, FS_CardinalityType
<1>2. ASSUME NEW i \in T
      PROVE  IsFiniteSet(upTo(i)) /\ Cardinality(upTo(i)) \in 1..N
    <2>1. upTo(i) \in SUBSET T /\ i \in upTo(i)
        OBVIOUS
    <2>2. IsFiniteSet(upTo(i)) /\ Cardinality(upTo(i)) <= N
        BY <1>1, <2>1, FS_Subset
    <2>3. Cardinality(upTo(i)) \in Nat /\ Cardinality(upTo(i)) # 0
        BY <2>1, <2>2, FS_CardinalityType, FS_EmptySet
    <2>4. QED
        BY <1>1, <2>2, <2>3
<1>3. ASSUME NEW i \in T, NEW k \in T, i < k
      PROVE  Cardinality(upTo(i)) # Cardinality(upTo(k))
    <2>1. upTo(i) \in SUBSET upTo(k) /\ k \in upTo(k) /\ k \notin upTo(i)
        <3>1. \A j \in T : j \in Nat /\ (j <= i => j <= k) /\ k \in Nat /\ ~(k <= i)
            BY <1>1, <1>3
        <3>2. upTo(i) \subseteq upTo(k)
            BY <3>1
        <3>3. k \in upTo(k) /\ k \notin upTo(i)
            BY <3>1, <1>1
        <3> HIDE DEF upTo
        <3>4. QED
            BY <3>2, <3>3
    <2>2. QED
        BY <1>2, <2>1, FS_Subset
<1>4. rank \in Injection(T, 1..N)
    <2>1. rank \in [T -> 1..N]
        BY <1>2
    <2>2. \A i, k \in T : rank[i] = rank[k] => i = k
        BY <1>1, <1>3
    <2>3. QED
        BY <2>1, <2>2 DEF Injection, IsInjective
<1>5. rank \in Surjection(T, 1..N)
    <2>1. IsFiniteSet(1..N) /\ Cardinality(1..N) = N
        BY <1>1, FS_Interval
    <2>2. QED
        BY <1>4, <2>1, FS_Injection
<1>6. \A n \in 1..N : \E i \in T : rank[i] = n
    BY <1>5 DEF Surjection
<1>7. \A i, k \in T : Cardinality(upTo(i)) = Cardinality(upTo(k)) => i = k
    BY <1>4 DEF Injection, IsInjective
<1>8. QED
    BY <1>1, <1>2, <1>6, <1>7

Touched(w) == {g \in Listed(Unit(w)) : g \in w.fetched /\ ~(rows[g].app # 0 /\ rows[g].applied)}

LEMMA DeltaIs ==
    ASSUME NEW w, Unit(w) \in Platforms
    PROVE  /\ Delta(w) \in Seq(Touched(w))
           /\ Elems(Delta(w)) = Touched(w)
           /\ Distinct(Delta(w))
<1> DEFINE games == GamesOf[Unit(w)]
           todo == {i \in DOMAIN games :
                       games[i] \in w.fetched /\ ~(rows[games[i]].app # 0 /\ rows[games[i]].applied)}
           rank(i) == Cardinality({j \in todo : j <= i})
           nth(n) == CHOOSE i \in todo : rank(i) = n
           N == Cardinality(todo)
<1>1. games \in Seq(Listed(Unit(w)))
    BY LibraryAssumption
<1>2. DOMAIN games = 1..Len(games) /\ Len(games) \in Nat
    BY <1>1
<1>3. \A i, j \in DOMAIN games : games[i] = games[j] => i = j
    BY LibraryAssumption
<1>4. todo \in SUBSET (1..Len(games))
    BY <1>2
<1>5. /\ N \in Nat
      /\ \A n \in 1..N : \E i \in todo : rank(i) = n
      /\ \A i \in todo : rank(i) \in 1..N
      /\ \A i, k \in todo : rank(i) = rank(k) => i = k
    <2> HIDE DEF todo
    <2>1. QED
        BY <1>2, <1>4, Ranks
<1>6. \A n \in 1..N : nth(n) \in todo /\ rank(nth(n)) = n
    <2> HIDE DEF todo, rank
    <2>1. QED
        BY <1>5
<1>7. Delta(w) = [n \in 1..N |-> games[nth(n)]]
    BY DEF Delta
<1>8. \A i \in todo : games[i] \in Touched(w)
    BY <1>1, <1>2 DEF Touched
<1>9. Delta(w) \in Seq(Touched(w)) /\ DOMAIN Delta(w) = 1..N
    <2> HIDE DEF todo, nth, games
    <2>1. \A n \in 1..N : games[nth(n)] \in Touched(w)
        BY <1>6, <1>8
    <2>2. Delta(w) \in [1..N -> Touched(w)]
        BY <1>7, <2>1
    <2>3. N \in Nat
        BY <1>5
    <2> HIDE DEF N
    <2>4. QED
        BY <2>2, <2>3
<1>10. ASSUME NEW g \in Touched(w)
       PROVE  g \in Elems(Delta(w))
    <2>1. PICK i \in DOMAIN games : games[i] = g
        BY DEF Touched, Listed
    <2>2. i \in todo
        BY <2>1 DEF Touched
    <2>3. PICK n \in 1..N : \A k \in todo : rank(k) = n <=> k = i
        <3> HIDE DEF todo, rank
        <3>1. QED
            BY <1>5, <2>2
    <2>4. nth(n) = i
        BY <1>6, <2>2, <2>3
    <2>5. n \in DOMAIN Delta(w) /\ Delta(w)[n] = g
        <3> HIDE DEF todo, nth, games
        <3>1. QED
            BY <1>7, <1>9, <2>1, <2>4
    <2>6. QED
        BY <2>5 DEF Elems
<1>11. Elems(Delta(w)) \subseteq Touched(w)
    <2>1. \A n \in DOMAIN Delta(w) : Delta(w)[n] \in Touched(w)
        <3> HIDE DEF todo, nth, games
        <3>1. QED
            BY <1>6, <1>7, <1>8, <1>9
    <2>2. QED
        BY <2>1 DEF Elems
<1>12. Distinct(Delta(w))
    <2> SUFFICES ASSUME NEW n \in 1..N, NEW k \in 1..N, Delta(w)[n] = Delta(w)[k]
                 PROVE  n = k
        BY <1>9 DEF Distinct
    <2>1. games[nth(n)] = games[nth(k)]
        BY <1>7
    <2>2. nth(n) = nth(k)
        BY <1>3, <1>6, <2>1
    <2>3. rank(nth(n)) = n /\ rank(nth(k)) = k
        BY <1>6
    <2>4. QED
        <3> HIDE DEF rank, nth
        <3>1. QED
            BY <2>2, <2>3
<1>13. QED
    BY <1>9, <1>10, <1>11, <1>12

\* A slice of a sequence.
LEMMA Slice ==
    ASSUME NEW S, NEW s \in Seq(S), NEW m \in 1..(Len(s) + 1), NEW n \in 0..Len(s), m <= n + 1
    PROVE  /\ SubSeq(s, m, n) \in Seq(S)
           /\ DOMAIN SubSeq(s, m, n) = 1..(n - m + 1)
           /\ \A i \in 1..(n - m + 1) : SubSeq(s, m, n)[i] = s[m + i - 1]
OBVIOUS

LEMMA Quotient ==
    ASSUME NEW a \in Nat, NEW k \in Nat \ {0}
    PROVE  /\ a \div k \in Nat
           /\ (a \div k) * k <= a
           /\ a < (a \div k) * k + k
OBVIOUS

LEMMA Multiples ==
    ASSUME NEW a \in Nat, NEW b \in Nat, NEW k \in Nat \ {0}
    PROVE  /\ a * k \in Nat
           /\ a < b => a * k + k <= b * k
           /\ a * k < b * k => a < b
           /\ (a + 1) * k = a * k + k
<1>1. a * k \in Nat /\ b * k \in Nat /\ (a + 1) * k = a * k + k
    OBVIOUS
<1>2. ASSUME NEW c \in Nat, NEW d \in Nat, c < d
      PROVE  c * k + k <= d * k
    <2>1. k * c + k <= k * d
        BY <1>2
    <2>2. k * c = c * k /\ k * d = d * k
        OBVIOUS
    <2>3. QED
        BY <2>1, <2>2
<1>3. a < b => a * k + k <= b * k
    BY <1>2
<1>4. a * k < b * k => a < b
    <2>1. CASE b < a
        <3>1. b * k + k <= a * k
            BY <1>2, <2>1
        <3>2. QED
            BY <1>1, <3>1
    <2>2. CASE a = b
        BY <1>1, <2>2
    <2>3. QED
        BY <2>1, <2>2
<1>5. QED
    BY <1>1, <1>3, <1>4

\* How BuildUnitChunks counts: chunk c has the positions from c - 1 slices on.
LEMMA Slices ==
    ASSUME NEW n \in Nat \ {0}, NEW k \in Nat \ {0}
    PROVE  LET count == (n + k - 1) \div k
           IN  /\ count \in Nat \ {0}
               /\ \A c \in 1..count : (c - 1) * k \in Nat /\ (c - 1) * k < n
                                       /\ c * k = (c - 1) * k + k
               /\ \A i \in 1..n : \E c \in 1..count : (c - 1) * k < i /\ i <= c * k
<1> DEFINE count == (n + k - 1) \div k
<1>1. count \in Nat /\ count * k <= n + k - 1 /\ n + k - 1 < count * k + k
    BY Quotient
<1> HIDE DEF count
<1>2. count # 0
    <2>1. count = 0 => count * k = 0
        OBVIOUS
    <2>2. QED
        BY <1>1, <2>1
<1>3. ASSUME NEW c \in 1..count
      PROVE  (c - 1) * k \in Nat /\ (c - 1) * k < n /\ c * k = (c - 1) * k + k
    <2>1. c - 1 \in Nat /\ c \in Nat /\ c - 1 < count /\ (c - 1) + 1 = c
        BY <1>1
    <2>2. (c - 1) * k \in Nat /\ (c - 1) * k + k <= count * k /\ ((c - 1) + 1) * k = (c - 1) * k + k
        BY <1>1, <2>1, Multiples
    <2>3. count * k \in Nat
        BY <1>1, Multiples
    <2> DEFINE below == (c - 1) * k
               all == count * k
    <2>4. below \in Nat /\ below + k <= all /\ all \in Nat /\ all <= n + k - 1
        BY <1>1, <2>2, <2>3
    <2> HIDE DEF below, all
    <2>5. below < n
        BY <2>4
    <2>6. QED
        BY <2>1, <2>2, <2>5 DEF below
<1>4. ASSUME NEW i \in 1..n
      PROVE  \E c \in 1..count : (c - 1) * k < i /\ i <= c * k
    <2> DEFINE q == (i - 1) \div k
    <2>1. q \in Nat /\ q * k <= i - 1 /\ i - 1 < q * k + k
        <3>1. i - 1 \in Nat
            OBVIOUS
        <3>2. QED
            BY <3>1, Quotient
    <2> HIDE DEF q
    <2>2. q * k \in Nat /\ count * k \in Nat /\ (q + 1) * k = q * k + k
          /\ (q * k < count * k => q < count)
        BY <1>1, <2>1, Multiples
    <2>3. q * k < count * k
        <3> DEFINE qk == q * k
                   ck == count * k
        <3>1. qk \in Nat /\ ck \in Nat /\ qk <= i - 1 /\ n + k - 1 < ck + k
            BY <1>1, <2>1, <2>2
        <3> HIDE DEF qk, ck
        <3>2. qk < ck
            BY <3>1
        <3>3. QED
            BY <3>2 DEF qk, ck
    <2>4. q + 1 \in 1..count /\ (q + 1) - 1 = q
        BY <1>1, <2>1, <2>2, <2>3
    <2>5. ((q + 1) - 1) * k < i /\ i <= (q + 1) * k
        <3> DEFINE qk == q * k
        <3>1. qk \in Nat /\ qk <= i - 1 /\ i - 1 < qk + k
            BY <2>1, <2>2
        <3> HIDE DEF qk
        <3>2. qk < i /\ i <= qk + k
            BY <3>1
        <3>3. QED
            BY <2>2, <2>4, <3>2 DEF qk
    <2>6. QED
        BY <2>4, <2>5
<1>5. QED
    BY <1>1, <1>2, <1>3, <1>4 DEF count

\* Slices, from behind low to top, that lie behind each other and leave out nothing.
CutIn(delta, count, low, top, slice) ==
    /\ low \in [1..count -> Nat] /\ top \in [1..count -> Nat]
    /\ \A c \in 1..count : low[c] <= top[c] /\ top[c] <= Len(delta)
    /\ \A c, d \in 1..count : c < d => top[c] <= low[d]
    /\ \A i \in 1..Len(delta) : \E c \in 1..count : low[c] < i /\ i <= top[c]
    /\ \A c \in 1..count : slice[c] = SubSeq(delta, low[c] + 1, top[c])

\* What they make of the sequence.
SplitOf(delta, S, count, slice) ==
    /\ \A c \in 1..count : /\ slice[c] \in Seq(S) /\ Distinct(slice[c])
                            /\ Elems(slice[c]) \subseteq Elems(delta)
    /\ \A c, d \in 1..count : c # d => Elems(slice[c]) \cap Elems(slice[d]) = {}
    /\ \A g \in Elems(delta) : \E c \in 1..count : g \in Elems(slice[c])

\* Such slices share nothing.
LEMMA Cuts ==
    ASSUME NEW S, NEW delta \in Seq(S), Distinct(delta), NEW count \in Nat \ {0},
           NEW low, NEW top, NEW slice, CutIn(delta, count, low, top, slice)
    PROVE  SplitOf(delta, S, count, slice)
<1>0. DOMAIN delta = 1..Len(delta) /\ Len(delta) \in Nat
    OBVIOUS
<1>a. /\ \A c \in 1..count : low[c] \in Nat /\ top[c] \in Nat /\ low[c] <= top[c] /\ top[c] <= Len(delta)
      /\ \A c, d \in 1..count : c < d => top[c] <= low[d]
      /\ \A i \in 1..Len(delta) : \E c \in 1..count : low[c] < i /\ i <= top[c]
      /\ \A c \in 1..count : slice[c] = SubSeq(delta, low[c] + 1, top[c])
    BY DEF CutIn
<1>1. ASSUME NEW c \in 1..count
      PROVE  /\ slice[c] \in Seq(S)
             /\ DOMAIN slice[c] = 1..(top[c] - low[c])
             /\ \A i \in 1..(top[c] - low[c]) : slice[c][i] = delta[low[c] + i]
    <2> DEFINE m == low[c]
               n == top[c]
    <2>1. m \in Nat /\ n \in Nat /\ m <= n /\ n <= Len(delta)
        BY <1>a
    <2>2. slice[c] = SubSeq(delta, m + 1, n)
        BY <1>a
    <2> HIDE DEF m, n
    <2>3. m + 1 \in 1..(Len(delta) + 1) /\ n \in 0..Len(delta) /\ m + 1 <= n + 1 /\ n - (m + 1) + 1 = n - m
        BY <1>0, <2>1
    <2> DEFINE p == m + 1
    <2>4. p \in 1..(Len(delta) + 1) /\ p <= n + 1 /\ n - p + 1 = n - m /\ slice[c] = SubSeq(delta, p, n)
        BY <2>2, <2>3
    <2>5. \A i \in 1..(n - m) : p + i - 1 = m + i
        BY <2>1
    <2> HIDE DEF p
    <2>6. /\ SubSeq(delta, p, n) \in Seq(S)
          /\ DOMAIN SubSeq(delta, p, n) = 1..(n - p + 1)
          /\ \A i \in 1..(n - p + 1) : SubSeq(delta, p, n)[i] = delta[p + i - 1]
        <3>1. delta \in Seq(S) /\ p \in 1..(Len(delta) + 1) /\ n \in 0..Len(delta) /\ p <= n + 1
            BY <2>3, <2>4
        <3>2. QED
            BY ONLY <3>1, Slice
    <2>7. /\ slice[c] \in Seq(S)
          /\ DOMAIN slice[c] = 1..(n - m)
          /\ \A i \in 1..(n - m) : slice[c][i] = delta[m + i]
        BY <2>4, <2>5, <2>6
    <2>8. QED
        BY <2>7 DEF m, n
<1>2. ASSUME NEW c \in 1..count, NEW i \in DOMAIN slice[c]
      PROVE  /\ i \in Nat /\ low[c] + i \in DOMAIN delta /\ slice[c][i] = delta[low[c] + i]
             /\ low[c] < low[c] + i /\ low[c] + i <= top[c]
    <2> DEFINE m == low[c]
               n == top[c]
    <2>1. i \in 1..(n - m) /\ m \in Nat /\ n \in Nat /\ m <= n /\ n <= Len(delta)
          /\ slice[c][i] = delta[m + i]
        BY <1>1, <1>a
    <2> HIDE DEF m, n
    <2>2. i \in Nat /\ m + i \in 1..Len(delta) /\ m < m + i /\ m + i <= n
        BY <1>0, <2>1
    <2>3. QED
        BY <1>0, <2>1, <2>2 DEF m, n
<1>3. ASSUME NEW c \in 1..count
      PROVE  Distinct(slice[c]) /\ Elems(slice[c]) \subseteq Elems(delta)
    <2>1. ASSUME NEW i \in DOMAIN slice[c], NEW j \in DOMAIN slice[c], slice[c][i] = slice[c][j]
          PROVE  i = j
        <3> DEFINE m == low[c]
        <3>1. m + i = m + j
            <4>1. delta[m + i] = delta[m + j] /\ m + i \in DOMAIN delta /\ m + j \in DOMAIN delta
                BY <1>2, <2>1
            <4> HIDE DEF m
            <4>2. QED
                BY <4>1 DEF Distinct
        <3>2. m \in Nat /\ i \in Nat /\ j \in Nat
            BY <1>a, <1>2
        <3> HIDE DEF m
        <3>3. QED
            BY <3>1, <3>2
    <2>2. \A i \in DOMAIN slice[c] : slice[c][i] \in Elems(delta)
        BY <1>2 DEF Elems
    <2>3. QED
        BY <2>1, <2>2 DEF Distinct, Elems
<1>4. ASSUME NEW c \in 1..count, NEW d \in 1..count, c < d
      PROVE  Elems(slice[c]) \cap Elems(slice[d]) = {}
    <2> SUFFICES ASSUME NEW i \in DOMAIN slice[c], NEW j \in DOMAIN slice[d],
                        slice[c][i] = slice[d][j]
                 PROVE  FALSE
        BY DEF Elems
    <2> DEFINE a == low[c]
               b == low[d]
               e == top[c]
    <2>1. delta[a + i] = delta[b + j] /\ a + i \in DOMAIN delta /\ b + j \in DOMAIN delta
        BY <1>2
    <2>2. a + i <= e /\ b < b + j /\ e <= b
        BY <1>2, <1>4, <1>a
    <2>3. a \in Nat /\ b \in Nat /\ e \in Nat /\ i \in Nat /\ j \in Nat
        BY <1>a, <1>2
    <2> HIDE DEF a, b, e
    <2>4. a + i = b + j
        BY <2>1 DEF Distinct
    <2>5. QED
        BY <2>2, <2>3, <2>4
<1>5. ASSUME NEW c \in 1..count, NEW d \in 1..count, c # d
      PROVE  Elems(slice[c]) \cap Elems(slice[d]) = {}
    <2>1. c < d \/ d < c
        BY <1>5
    <2>2. CASE c < d
        BY <1>4, <2>2
    <2>3. CASE d < c
        <3>1. Elems(slice[d]) \cap Elems(slice[c]) = {}
            BY <1>4, <2>3
        <3>2. QED
            BY <3>1
    <2>4. QED
        BY <2>1, <2>2, <2>3
<1>6. ASSUME NEW x \in DOMAIN delta
      PROVE  \E c \in 1..count : delta[x] \in Elems(slice[c])
    <2>1. x \in 1..Len(delta)
        BY <1>0
    <2>2. PICK c \in 1..count : low[c] < x /\ x <= top[c]
        BY <1>a, <2>1
    <2> DEFINE m == low[c]
               n == top[c]
    <2>3. m \in Nat /\ n \in Nat /\ m < x /\ x <= n /\ x \in Nat
        BY <1>0, <1>a, <2>1, <2>2
    <2>4. DOMAIN slice[c] = 1..(n - m) /\ \A y \in 1..(n - m) : slice[c][y] = delta[m + y]
        BY <1>1
    <2> HIDE DEF m, n
    <2>5. x - m \in 1..(n - m) /\ m + (x - m) = x
        BY ONLY <2>3
    <2> DEFINE i == x - m
    <2>a. i \in 1..(n - m) /\ m + i = x
        BY <2>5
    <2> HIDE DEF i
    <2>6. i \in DOMAIN slice[c] /\ slice[c][i] = delta[x]
        BY <2>4, <2>a
    <2>7. QED
        BY <2>6 DEF Elems
<1>7. \A g \in Elems(delta) : \E c \in 1..count : g \in Elems(slice[c])
    <2> SUFFICES ASSUME NEW x \in DOMAIN delta PROVE \E c \in 1..count : delta[x] \in Elems(slice[c])
        BY DEF Elems
    <2>1. QED
        BY <1>6
<1>8. QED
    BY <1>1, <1>3, <1>5, <1>7 DEF SplitOf

LEMMA ChunksAre ==
    ASSUME NEW S, NEW delta \in Seq(S), Distinct(delta)
    PROVE  LET cs == BuildUnitChunks(delta, S)
           IN  /\ ChunksOf(cs, S)
               /\ \A c \in DOMAIN cs, g \in Elems(delta) :
                     g \in cs[c].rows => g \in Elems(cs[c].games)
<1> DEFINE N == Len(delta)
           k == ChunkSize
           count == IF delta = <<>> THEN 1 ELSE (N + k - 1) \div k
           low == [c \in 1..count |-> (c - 1) * k]
           top == [c \in 1..count |-> IF c * k < N THEN c * k ELSE N]
           slice == [c \in 1..count |-> SubSeq(delta, (c - 1) * k + 1, IF c * k < N THEN c * k ELSE N)]
           rest(c) == IF c = 1 THEN S \ Elems(delta) ELSE {}
           chunk(c) == [games |-> slice[c], rows |-> Elems(slice[c]) \cup rest(c)]
           cs == BuildUnitChunks(delta, S)
<1>1. N \in Nat /\ DOMAIN delta = 1..N /\ k \in Nat \ {0} /\ (delta = <<>> <=> N = 0)
    BY LibraryAssumption
<1>2. /\ count \in Nat \ {0}
      /\ \A c \in 1..count : (c - 1) * k \in Nat /\ (c - 1) * k <= N /\ c * k = (c - 1) * k + k
      /\ \A i \in 1..N : \E c \in 1..count : (c - 1) * k < i /\ i <= c * k
    <2> HIDE DEF k
    <2>1. CASE delta = <<>>
        <3>1. N = 0 /\ count = 1 /\ (1 - 1) * k = 0 /\ 1 * k = k
            BY <1>1, <2>1
        <3> HIDE DEF N, count
        <3>2. \A c \in 1..count : c = 1
            BY <3>1
        <3>3. QED
            BY <1>1, <3>1, <3>2
    <2>2. CASE delta # <<>>
        <3>1. N \in Nat \ {0} /\ count = (N + k - 1) \div k
            BY <1>1, <2>2
        <3> DEFINE all == (N + k - 1) \div k
        <3>2. /\ all \in Nat \ {0}
              /\ \A c \in 1..all : (c - 1) * k \in Nat /\ (c - 1) * k < N /\ c * k = (c - 1) * k + k
              /\ \A i \in 1..N : \E c \in 1..all : (c - 1) * k < i /\ i <= c * k
            <4> HIDE DEF N, count
            <4>1. QED
                BY <1>1, <3>1, Slices
        <3>3. count = all
            BY <3>1
        <3> HIDE DEF N, count, all
        <3>4. \A c \in 1..all : (c - 1) * k <= N
            BY <1>1, <3>2
        <3>5. QED
            BY <3>2, <3>3, <3>4
    <2>3. QED
        BY <2>1, <2>2
<1>3. cs = [c \in 1..count |-> chunk(c)]
    <2>1. \A c \in 1..count : slice[c] = SubSeq(delta, (c - 1) * k + 1, IF c * k < N THEN c * k ELSE N)
        OBVIOUS
    <2>2. cs = [c \in 1..count |->
                   [games |-> SubSeq(delta, (c - 1) * k + 1, IF c * k < N THEN c * k ELSE N),
                    rows |-> Elems(SubSeq(delta, (c - 1) * k + 1, IF c * k < N THEN c * k ELSE N))
                             \cup rest(c)]]
        BY DEF BuildUnitChunks, Elems
    <2> HIDE DEF cs, slice, count, rest
    <2>3. QED
        BY <2>1, <2>2
<1> HIDE DEF count, cs, k
<1>4. ASSUME NEW c \in 1..count
      PROVE  /\ low[c] \in Nat /\ top[c] \in Nat /\ low[c] <= top[c] /\ top[c] <= N
             /\ \A i \in 1..N : i <= c * k => i <= top[c]
    <2> DEFINE m == (c - 1) * k
               d == c * k
    <2>1. m \in Nat /\ m <= N /\ d = m + k /\ low[c] = m /\ top[c] = IF d < N THEN d ELSE N
        BY <1>2
    <2> HIDE DEF m, d, low, top
    <2>2. low[c] \in Nat /\ top[c] \in Nat /\ low[c] <= top[c] /\ top[c] <= N
        BY <1>1, <2>1
    <2>3. \A i \in 1..N : i <= d => i <= top[c]
        BY <1>1, <2>1
    <2>4. QED
        BY <2>2, <2>3 DEF d
<1>5. \A i \in 1..N : \E c \in 1..count : low[c] < i /\ i <= top[c]
    <2>1. \A c \in 1..count : low[c] = (c - 1) * k
        OBVIOUS
    <2> HIDE DEF low, top
    <2>2. QED
        BY <1>2, <1>4, <2>1
<1>6. ASSUME NEW c \in 1..count, NEW d \in 1..count, c < d
      PROVE  top[c] <= low[d]
    <2>1. c - 1 \in Nat /\ d - 1 \in Nat /\ c - 1 < d - 1
        BY <1>2, <1>6
    <2>2. (c - 1) * k + k <= (d - 1) * k
        BY <1>1, <2>1, Multiples
    <2> DEFINE m == (c - 1) * k
               n == (d - 1) * k
               e == c * k
    <2>3. m \in Nat /\ n \in Nat /\ n <= N /\ e = m + k /\ m + k <= n
          /\ low[d] = n /\ top[c] = IF e < N THEN e ELSE N
        BY <1>2, <2>2
    <2> HIDE DEF m, n, e, low, top
    <2>4. QED
        BY <1>1, <2>3
<1>7. \A c \in 1..count : slice[c] = SubSeq(delta, low[c] + 1, top[c])
    OBVIOUS
<1>8. low \in [1..count -> Nat] /\ top \in [1..count -> Nat]
    BY <1>4
<1> HIDE DEF low, top, slice
<1>9. /\ \A c \in 1..count : /\ slice[c] \in Seq(S) /\ Distinct(slice[c])
                              /\ Elems(slice[c]) \subseteq Elems(delta)
      /\ \A c, d \in 1..count : c # d => Elems(slice[c]) \cap Elems(slice[d]) = {}
      /\ \A g \in Elems(delta) : \E c \in 1..count : g \in Elems(slice[c])
    <2>1. \A c \in 1..count : low[c] <= top[c] /\ top[c] <= Len(delta)
        BY <1>4
    <2>2. \A i \in 1..Len(delta) : \E c \in 1..count : low[c] < i /\ i <= top[c]
        BY <1>5
    <2>3. QED
        <3> HIDE DEF N
        <3>1. CutIn(delta, count, low, top, slice)
            BY <1>6, <1>7, <1>8, <2>1, <2>2 DEF CutIn
        <3>2. SplitOf(delta, S, count, slice)
            BY <1>2, <3>1, Cuts
        <3>3. QED
            BY <3>2 DEF SplitOf
<1>10. Len(cs) = count /\ DOMAIN cs = 1..count
    <2> DEFINE T == {chunk(c) : c \in 1..count}
    <2>1. cs \in [1..count -> T]
        BY <1>3
    <2>2. count \in Nat
        BY <1>2
    <2> HIDE DEF T
    <2>3. QED
        BY <2>1, <2>2
<1>11. \A c \in 1..count : cs[c].games = slice[c] /\ cs[c].rows = Elems(slice[c]) \cup rest(c)
    BY <1>3
<1>12. Elems(delta) \subseteq S
    BY DEF Elems
<1> HIDE DEF chunk
<1>13. ASSUME NEW g \in S
       PROVE  \E c \in DOMAIN cs : g \in cs[c].rows
    <2> HIDE DEF rest
    <2>1. CASE g \in Elems(delta)
        BY <1>9, <1>10, <1>11, <2>1
    <2>2. CASE g \notin Elems(delta)
        <3>1. 1 \in 1..count /\ rest(1) = S \ Elems(delta)
            BY <1>2 DEF rest
        <3>2. QED
            BY <1>10, <1>11, <2>2, <3>1
    <2>3. QED
        BY <2>1, <2>2
<1>14. \A c \in 1..count, g \in Elems(delta) : g \in cs[c].rows => g \in Elems(cs[c].games)
    BY <1>11
<1>15. \A c \in 1..count : cs[c].rows \subseteq S /\ Elems(cs[c].games) \subseteq cs[c].rows
    BY <1>9, <1>11, <1>12
<1>16. ChunksOf(cs, S)
    <2> HIDE DEF rest
    <2>1. Len(cs) \in Nat \ {0} /\ DOMAIN cs = 1..Len(cs) /\ DOMAIN cs = 1..count
        BY <1>2, <1>10
    <2>2. \A c \in DOMAIN cs : cs[c].games = slice[c]
        BY <1>11, <2>1
    <2>3. \A c \in DOMAIN cs : /\ cs[c].games \in Seq(S) /\ Distinct(cs[c].games)
                                 /\ Elems(cs[c].games) \subseteq cs[c].rows /\ cs[c].rows \subseteq S
        BY <1>9, <1>15, <2>1, <2>2
    <2>4. \A c, d \in DOMAIN cs : c # d => Elems(cs[c].games) \cap Elems(cs[d].games) = {}
        BY <1>9, <2>1, <2>2
    <2>5. cs \in Seq([games : Seq(S), rows : SUBSET S])
        <3>1. \A c \in 1..count : chunk(c) \in [games : Seq(S), rows : SUBSET S]
            BY <1>9, <1>12 DEF chunk, rest, SplitOf
        <3> DEFINE T == [games : Seq(S), rows : SUBSET S]
        <3>2. \A c \in 1..count : chunk(c) \in T
            BY <3>1
        <3> HIDE DEF T
        <3>3. cs \in [1..count -> T]
            BY <1>3, <3>2
        <3>4. count \in Nat
            BY <1>2
        <3>5. cs \in Seq(T)
            BY <3>3, <3>4
        <3>6. QED
            BY <3>5 DEF T
    <2>6. QED
        BY <1>13, <2>1, <2>3, <2>4, <2>5 DEF ChunksOf
<1>17. QED
    BY <1>10, <1>14, <1>16 DEF cs

-----------------------------------------------------------------------------
(* The shapes of a run's work and of what passes between it and the panel. *)

AnyRun == {NoRun} \cup Runs
ChunkSet == [games : Seq(Games), rows : SUBSET Games]
Work == [pc : Pcs, at : Nat \ {0}, fetched : SUBSET Games, chunks : Seq(ChunkSet),
         chunk : Nat \ {0}, answer : Apps, whole : SUBSET Platforms, cancelled : BOOLEAN]
Frame == [run : AnyRun, unit : Platforms, chunk : Nat, games : Seq(Games)]
Ack == [run : AnyRun, unit : Platforms, chunk : Nat, app : Apps]
Held == [run : AnyRun, unit : Platforms, chunk : Nat, rows : SUBSET Games]
HeldAnswer == [run : AnyRun, unit : Platforms, chunk : Nat, rows : SUBSET Games, app : Apps]
Box == [staging : SUBSET [run : AnyRun, unit : Platforms, games : SUBSET Games],
        active : SUBSET [unit : Platforms, chunk : Nat], answer : SUBSET Ack,
        stash : SUBSET Held, interrupted : BOOLEAN, paused : BOOLEAN]
Row == [here : BOOLEAN, app : 0..Copies, applied : BOOLEAN, gen : AnyRun]
Stamp == [gen : AnyRun, ids : SUBSET Games]
Panel == [pc : {"free", "apply", "acking"}, frame : Frame, app : Apps, cancel : BOOLEAN,
          scan : [run : AnyRun, bound : SUBSET Shortcuts, pool : SUBSET Shortcuts]]

\* The places of a run that has its chunks and is sending them.
Sending == {"dispatch", "wait", "commit"}

\* A run inside a unit of the queue has fetched games of it, and chunks of them.
UnitOf(w) ==
    /\ w.pc \in InUnit => w.at \in DOMAIN Queue /\ w.fetched \subseteq Listed(Unit(w))
    /\ w.pc \in Working \ Sending => w.chunk = 1
    /\ w.pc \in {"clear"} \cup Sending => ChunksOf(w.chunks, w.fetched) /\ w.chunk \in DOMAIN w.chunks

WorksInv == works \in [Runs -> Work] /\ \A r \in Runs : UnitOf(works[r])

BoxInv ==
    /\ box \in Box
    /\ \A s, t \in box.staging : s = t
    /\ \A k, l \in box.answer : k = l

DiskInv == rows \in [Games -> Row] /\ stamp \in [Platforms -> Stamp]

PassingInv ==
    /\ panel \in Panel /\ wire \in Seq(Frame)
    /\ acks \subseteq Ack /\ late \subseteq HeldAnswer
    /\ steam \subseteq Shortcuts /\ served \subseteq Games

ShapeInv == WorksInv /\ BoxInv /\ DiskInv /\ PassingInv

-----------------------------------------------------------------------------
(* The answers. *)

LEMMA AppsAre ==
    \A app : app \in Apps <=> app \in [DOMAIN app -> 1..Copies] /\ DOMAIN app \subseteq Games
BY DEF Apps

LEMMA NoAppsIs == NoApps \in Apps /\ DOMAIN NoApps = {}
BY AppsAre DEF NoApps

LEMMA AppAdds ==
    ASSUME NEW app \in Apps, NEW g \in Games, NEW c \in 1..Copies
    PROVE  /\ With(app, g, c) \in Apps
           /\ DOMAIN With(app, g, c) = DOMAIN app \cup {g}
<1>1. app \in [DOMAIN app -> 1..Copies] /\ DOMAIN app \subseteq Games
    BY AppsAre
<1>2. With(app, g, c) \in [DOMAIN app \cup {g} -> 1..Copies]
    BY <1>1 DEF With
<1>3. DOMAIN With(app, g, c) = DOMAIN app \cup {g}
    BY DEF With
<1>4. QED
    BY <1>1, <1>2, <1>3, AppsAre

-----------------------------------------------------------------------------
(* The work of a run keeps its shape. *)

LEMMA UnitIsPlatform == \A w : w.at \in DOMAIN Queue => Unit(w) \in Platforms
<1>1. Queue \in Seq(Platforms)
    BY LibraryAssumption
<1>2. QED
    BY <1>1 DEF Unit

LEMMA ListedIsGames == \A p \in Platforms : Listed(p) \subseteq Games
BY DEF Games

LEMMA IdleIs == Idle \in Work /\ Idle.pc = "none" /\ Idle.at = 1 /\ Idle.chunk = 1 /\ Idle.whole = {}
<1>1. <<>> \in Seq(ChunkSet)
    OBVIOUS
<1>2. QED
    BY <1>1, NoAppsIs DEF Idle, Work, Pcs

LEMMA WorkReplaced ==
    ASSUME WorksInv, NEW r \in Runs, NEW v \in Work, UnitOf(v), works' = [works EXCEPT ![r] = v]
    PROVE  WorksInv'
BY DEF WorksInv

\* A run between two units.
NextUnit(at, whole) == [Idle EXCEPT !.pc = "unit", !.at = at, !.whole = whole]

LEMMA NextUnitIs ==
    ASSUME NEW at \in Nat \ {0}, NEW whole \in SUBSET Platforms
    PROVE  NextUnit(at, whole) \in Work /\ UnitOf(NextUnit(at, whole))
<1> DEFINE v == NextUnit(at, whole)
<1>1. v \in Work
    BY IdleIs DEF Work, Pcs, NextUnit
<1>2. v.pc = "unit" /\ v.chunk = 1
    BY IdleIs DEF Work, NextUnit
<1>3. UnitOf(v)
    BY <1>2 DEF UnitOf, InUnit, Sending
<1>4. QED
    BY <1>1, <1>3

LEMMA GotoWorks ==
    ASSUME WorksInv, NEW r \in Runs, NEW pc \in Pcs, Goto(r, pc),
           pc \in InUnit => works[r].pc \in InUnit,
           pc \in Working \ Sending => works[r].pc \in Working \ Sending,
           pc \in {"clear"} \cup Sending => works[r].pc \in {"clear"} \cup Sending
    PROVE  WorksInv'
<1> DEFINE w == works[r]
           v == [w EXCEPT !.pc = pc]
<1>1. w \in Work /\ UnitOf(w)
    BY DEF WorksInv
<1>2. works' = [works EXCEPT ![r] = v]
    BY DEF Goto
<1>3. v \in Work /\ v.pc = pc /\ v.at = w.at /\ v.fetched = w.fetched /\ v.chunks = w.chunks
      /\ v.chunk = w.chunk
    BY <1>1 DEF Work
<1>4. UnitOf(v)
    <2> HIDE DEF v
    <2>1. Unit(v) = Unit(w)
        BY <1>3 DEF Unit
    <2>2. QED
        BY <1>1, <1>3, <2>1 DEF UnitOf
<1> HIDE DEF v
<1>5. QED
    BY <1>2, <1>3, <1>4, WorkReplaced

LEMMA LeaveWorks ==
    ASSUME WorksInv, NEW r \in Runs, LeaveUnit(r)
    PROVE  WorksInv'
<1> DEFINE at == works[r].at + 1
           whole == works[r].whole
           v == NextUnit(at, whole)
<1>1. works[r] \in Work
    BY DEF WorksInv
<1>2. at \in Nat \ {0} /\ whole \in SUBSET Platforms
    BY <1>1 DEF Work
<1>3. works' = [works EXCEPT ![r] = v]
    BY DEF LeaveUnit, NextUnit
<1> HIDE DEF at, whole
<1>4. v \in Work /\ UnitOf(v)
    BY <1>2, NextUnitIs
<1> HIDE DEF v
<1>5. QED
    BY <1>3, <1>4, WorkReplaced

LEMMA ClassifyWorks ==
    ASSUME WorksInv, NEW r \in Runs, Classify(r)
    PROVE  WorksInv'
<1> DEFINE w == works[r]
           cs == BuildUnitChunks(Delta(w), w.fetched)
           v == [w EXCEPT !.pc = "clear", !.chunks = cs]
<1>1. w \in Work /\ UnitOf(w) /\ w.pc = "fetched"
    BY DEF WorksInv, Classify, At
<1>2. CASE Cancelling
    BY <1>2, LeaveWorks DEF Classify
<1>3. CASE ~Cancelling
    <2>1. works' = [works EXCEPT ![r] = v]
        BY <1>3 DEF Classify
    <2>2. w.at \in DOMAIN Queue /\ w.fetched \subseteq Listed(Unit(w)) /\ w.chunk = 1
        BY <1>1 DEF UnitOf, InUnit, Working, Sending
    <2>3. Unit(w) \in Platforms
        BY <2>2, UnitIsPlatform
    <2>4. Delta(w) \in Seq(w.fetched) /\ Distinct(Delta(w))
        <3>1. Delta(w) \in Seq(Touched(w)) /\ Distinct(Delta(w))
            BY <2>3, DeltaIs
        <3>2. Touched(w) \subseteq w.fetched
            BY DEF Touched
        <3>3. QED
            BY <3>1, <3>2
    <2>5. ChunksOf(cs, w.fetched)
        BY <2>4, ChunksAre
    <2>6. cs \in Seq(ChunkSet) /\ 1 \in DOMAIN cs
        <3>1. w.fetched \subseteq Games
            BY <2>2, <2>3, ListedIsGames
        <3>2. cs \in Seq([games : Seq(w.fetched), rows : SUBSET w.fetched])
              /\ Len(cs) \in Nat \ {0} /\ DOMAIN cs = 1..Len(cs)
            BY <2>5 DEF ChunksOf
        <3>3. Seq(w.fetched) \subseteq Seq(Games)
            BY <3>1
        <3>4. [games : Seq(w.fetched), rows : SUBSET w.fetched] \subseteq ChunkSet
            BY <3>1, <3>3 DEF ChunkSet
        <3> DEFINE T == [games : Seq(w.fetched), rows : SUBSET w.fetched]
        <3>a. cs \in Seq(T) /\ T \subseteq ChunkSet
            BY <3>2, <3>4
        <3> HIDE DEF cs, T
        <3>5. cs \in Seq(ChunkSet)
            BY <3>a
        <3>6. 1 \in DOMAIN cs
            BY <3>2
        <3>7. QED
            BY <3>5, <3>6
    <2> HIDE DEF cs
    <2>7. v \in Work
        BY <1>1, <2>6 DEF Work, Pcs
    <2>8. v.pc = "clear" /\ v.at = w.at /\ v.fetched = w.fetched /\ v.chunks = cs /\ v.chunk = 1
        BY <1>1, <2>2 DEF Work
    <2> HIDE DEF v
    <2>9. UnitOf(v)
        <3>1. Unit(v) = Unit(w)
            BY <2>8 DEF Unit
        <3>2. QED
            BY <2>2, <2>5, <2>6, <2>8, <3>1 DEF UnitOf
    <2>10. QED
        BY <2>1, <2>7, <2>9, WorkReplaced
<1>4. QED
    BY <1>2, <1>3

LEMMA UnitWorks ==
    ASSUME WorksInv, NEW r \in Runs, EndUnits(r) \/ SkipUnit(r) \/ FetchUnit(r)
    PROVE  WorksInv'
<1> DEFINE w == works[r]
<1>1. w \in Work /\ UnitOf(w) /\ w.pc = "unit" /\ w.chunk = 1
    BY DEF WorksInv, EndUnits, SkipUnit, FetchUnit, TakesUnit, At, UnitOf, Working, InUnit, Sending
<1>2. CASE EndUnits(r)
    <2> DEFINE v == [w EXCEPT !.pc = "final", !.cancelled = Cancelling]
    <2>1. works' = [works EXCEPT ![r] = v]
        BY <1>2 DEF EndUnits
    <2>2. v \in Work /\ v.pc = "final"
        BY <1>1 DEF Work, Pcs, Cancelling
    <2> HIDE DEF v
    <2>3. UnitOf(v)
        BY <2>2 DEF UnitOf, InUnit, Working, Sending
    <2>4. QED
        BY <2>1, <2>2, <2>3, WorkReplaced
<1>3. w.at <= Len(Queue) => w.at \in DOMAIN Queue /\ Unit(w) \in Platforms
    <2>1. Queue \in Seq(Platforms)
        BY LibraryAssumption
    <2>2. w.at \in Nat \ {0}
        BY <1>1 DEF Work
    <2>3. w.at <= Len(Queue) => w.at \in DOMAIN Queue
        BY <2>1, <2>2
    <2>4. QED
        BY <2>3, UnitIsPlatform
<1>4. CASE SkipUnit(r)
    <2> DEFINE at == w.at + 1
               whole == w.whole \cup {Unit(w)}
               v == [w EXCEPT !.at = at, !.whole = whole]
    <2>1. works' = [works EXCEPT ![r] = v] /\ Unit(w) \in Platforms
        BY <1>3, <1>4 DEF SkipUnit, TakesUnit
    <2>a. at \in Nat \ {0} /\ whole \in SUBSET Platforms
        BY <1>1, <2>1 DEF Work
    <2> HIDE DEF at, whole
    <2>2. v \in Work /\ v.pc = "unit" /\ v.chunk = 1
        BY <1>1, <2>a DEF Work
    <2> HIDE DEF v
    <2>3. UnitOf(v)
        BY <2>2 DEF UnitOf, InUnit, Sending
    <2>4. QED
        BY <2>1, <2>2, <2>3, WorkReplaced
<1>5. CASE FetchUnit(r)
    <2> DEFINE f == Listed(Unit(w)) \cap served
               v == [w EXCEPT !.pc = "fetched", !.fetched = f]
    <2>1. works' = [works EXCEPT ![r] = v] /\ w.at \in DOMAIN Queue /\ Unit(w) \in Platforms
        BY <1>3, <1>5 DEF FetchUnit, TakesUnit
    <2>2. f \subseteq Listed(Unit(w)) /\ f \subseteq Games
        BY <2>1, ListedIsGames
    <2> HIDE DEF f
    <2>3. v \in Work /\ v.pc = "fetched" /\ v.chunk = 1 /\ v.at = w.at /\ v.fetched = f
        BY <1>1, <2>2 DEF Work, Pcs
    <2> HIDE DEF v
    <2>4. UnitOf(v)
        <3>1. Unit(v) = Unit(w)
            BY <2>3 DEF Unit
        <3>2. QED
            BY <2>1, <2>2, <2>3, <3>1 DEF UnitOf, InUnit, Sending
    <2>5. QED
        BY <2>1, <2>3, <2>4, WorkReplaced
<1>6. QED
    BY <1>2, <1>4, <1>5

LEMMA AnswerWorks ==
    ASSUME WorksInv, BoxInv, NEW r \in Runs, TakeAnswer(r)
    PROVE  WorksInv'
<1> DEFINE w == works[r]
<1>1. w \in Work /\ UnitOf(w) /\ w.pc = "wait"
    BY DEF WorksInv, TakeAnswer, At
<1>2. PICK k \in box.answer : works' = [works EXCEPT ![r].pc = "commit", ![r].answer = k.app]
    BY DEF TakeAnswer
<1>3. k.app \in Apps
    BY DEF BoxInv, Box, Ack
<1> DEFINE v == [w EXCEPT !.pc = "commit", !.answer = k.app]
<1>4. works' = [works EXCEPT ![r] = v]
    BY <1>2
<1>5. v \in Work /\ v.pc = "commit" /\ v.at = w.at /\ v.fetched = w.fetched /\ v.chunks = w.chunks
      /\ v.chunk = w.chunk
    BY <1>1, <1>3 DEF Work, Pcs
<1> HIDE DEF v
<1>6. Unit(v) = Unit(w)
    BY <1>5 DEF Unit
<1>7. UnitOf(v)
    BY <1>1, <1>5, <1>6 DEF UnitOf, InUnit, Sending
<1>8. QED
    BY <1>4, <1>5, <1>7, WorkReplaced

LEMMA CommitWorks ==
    ASSUME WorksInv, NEW r \in Runs, CommitChunk(r)
    PROVE  WorksInv'
<1> DEFINE w == works[r]
<1>1. w \in Work /\ UnitOf(w) /\ w.pc = "commit"
    BY DEF WorksInv, CommitChunk, At
<1>2. w.at \in DOMAIN Queue /\ ChunksOf(w.chunks, w.fetched) /\ w.chunk \in DOMAIN w.chunks
      /\ w.fetched \subseteq Listed(Unit(w)) /\ Unit(w) \in Platforms
    BY <1>1, UnitIsPlatform DEF UnitOf, InUnit, Sending
<1>3. w.at \in Nat \ {0} /\ w.chunk \in Nat \ {0} /\ w.whole \in SUBSET Platforms
    BY <1>1 DEF Work
<1>4. CASE IsLastChunk(w)
    <2> DEFINE at == w.at + 1
               whole == w.whole \cup {Unit(w)}
               v == NextUnit(at, whole)
    <2>1. at \in Nat \ {0} /\ whole \in SUBSET Platforms
        BY <1>2, <1>3
    <2>2. works' = [works EXCEPT ![r] = v]
        BY <1>4 DEF CommitChunk, NextUnit
    <2> HIDE DEF at, whole
    <2>3. v \in Work /\ UnitOf(v)
        BY <2>1, NextUnitIs
    <2> HIDE DEF v
    <2>4. QED
        BY <2>2, <2>3, WorkReplaced
<1>5. CASE ~IsLastChunk(w)
    <2> DEFINE next == w.chunk + 1
               v == [w EXCEPT !.pc = "dispatch", !.chunk = next, !.answer = NoApps]
    <2>1. works' = [works EXCEPT ![r].pc = "dispatch", ![r].chunk = next, ![r].answer = NoApps]
          /\ next \in Nat \ {0}
        BY <1>3, <1>5 DEF CommitChunk
    <2> HIDE DEF next
    <2>a. works' = [works EXCEPT ![r] = v]
        BY <2>1
    <2>2. v \in Work
        BY <1>1, <2>1, NoAppsIs DEF Work, Pcs
    <2>3. v.pc = "dispatch" /\ v.at = w.at /\ v.fetched = w.fetched /\ v.chunks = w.chunks
          /\ v.chunk = next
        BY <1>1 DEF Work
    <2> HIDE DEF v
    <2>4. v.chunk \in DOMAIN v.chunks
        <3>1. Len(w.chunks) \in Nat /\ DOMAIN w.chunks = 1..Len(w.chunks)
            BY <1>2 DEF ChunksOf
        <3>2. w.chunk + 1 \in 1..Len(w.chunks)
            BY <1>2, <1>3, <1>5, <3>1 DEF IsLastChunk
        <3>3. QED
            BY <2>3, <3>1, <3>2 DEF next
    <2>5. Unit(v) = Unit(w)
        BY <2>3 DEF Unit
    <2>6. UnitOf(v)
        BY <1>2, <2>3, <2>4, <2>5 DEF UnitOf, InUnit, Sending
    <2>7. QED
        BY <2>a, <2>2, <2>6, WorkReplaced
<1>6. QED
    BY <1>4, <1>5

LEMMA FinishWorks ==
    ASSUME WorksInv, NEW r \in Runs, Finish(r)
    PROVE  WorksInv'
<1> DEFINE v == [Idle EXCEPT !.pc = "ended"]
<1>1. works' = [works EXCEPT ![r] = v]
    BY DEF Finish
<1>2. v \in Work /\ v.pc = "ended"
    BY IdleIs DEF Work, Pcs
<1> HIDE DEF v
<1>3. UnitOf(v)
    BY <1>2 DEF UnitOf, InUnit, Working, Sending
<1>4. QED
    BY <1>1, <1>2, <1>3, WorkReplaced

LEMMA RestartWorks == WorksInv /\ Restart => WorksInv'
<1> SUFFICES ASSUME WorksInv, Restart PROVE WorksInv'
    OBVIOUS
<1> DEFINE v == [Idle EXCEPT !.pc = "dead"]
<1>1. works' = [r \in Runs |-> IF Lives(r) THEN v ELSE works[r]]
    BY DEF Restart
<1>2. v \in Work /\ v.pc = "dead"
    BY IdleIs DEF Work, Pcs
<1> HIDE DEF v
<1>3. UnitOf(v)
    BY <1>2 DEF UnitOf, InUnit, Working, Sending
<1>4. QED
    BY <1>1, <1>2, <1>3 DEF WorksInv

LEMMA RunWorks ==
    ASSUME WorksInv, BoxInv, NEW r \in Runs, Start(r) \/ RunStep(r)
    PROVE  WorksInv'
<1>1. CASE \/ Start(r) \/ Begin(r) \/ Plan(r) \/ PlanFails(r) \/ OpenRun(r) \/ SendChunk(r)
           \/ Raise(r) \/ RecordTerminalStatus(r) \/ MarkErrored(r)
           \/ (BeginApply(r) /\ ~Cancelling)
    <2>1. \E pc \in Pcs :
             /\ Goto(r, pc)
             /\ pc \in InUnit => works[r].pc \in InUnit
             /\ pc \in Working \ Sending => works[r].pc \in Working \ Sending
             /\ pc \in {"clear"} \cup Sending => works[r].pc \in {"clear"} \cup Sending
        BY <1>1
        DEF Start, Begin, Plan, PlanFails, OpenRun, SendChunk, Raise, RecordTerminalStatus,
            MarkErrored, BeginApply, At, Pcs, Working, InUnit, Sending
    <2>2. QED
        BY <2>1, GotoWorks
<1>2. CASE \/ (BeginApply(r) /\ Cancelling) \/ StopAtChunk(r) \/ PauseForBudget(r)
           \/ SeeCancel(r) \/ TimeOut(r)
    BY <1>2, LeaveWorks DEF BeginApply, StopAtChunk, PauseForBudget, SeeCancel, TimeOut
<1>3. QED
    BY <1>1, <1>2, ClassifyWorks, UnitWorks, AnswerWorks, CommitWorks, FinishWorks DEF RunStep

\* The unit and the chunk of a run inside a unit.
LEMMA ChunkIs ==
    ASSUME NEW w \in Work, UnitOf(w), w.pc \in {"clear"} \cup Sending
    PROVE  /\ Chunk(w) \in ChunkSet /\ Distinct(Chunk(w).games)
           /\ Elems(Chunk(w).games) \subseteq Chunk(w).rows
           /\ Chunk(w).rows \subseteq w.fetched /\ w.fetched \subseteq Listed(Unit(w))
           /\ Unit(w) \in Platforms /\ w.fetched \subseteq Games
           /\ w.chunk \in DOMAIN w.chunks /\ w.chunk \in Nat
           /\ w.at \in DOMAIN Queue
<1>1. /\ w.at \in DOMAIN Queue /\ w.fetched \subseteq Listed(Unit(w))
      /\ ChunksOf(w.chunks, w.fetched) /\ w.chunk \in DOMAIN w.chunks
    BY DEF UnitOf, InUnit, Sending
<1>2. Unit(w) \in Platforms
    BY <1>1, UnitIsPlatform
<1>3. Chunk(w) \in ChunkSet /\ w.chunk \in Nat
    BY <1>1 DEF Work, Chunk
<1>4. /\ Distinct(Chunk(w).games) /\ Elems(Chunk(w).games) \subseteq Chunk(w).rows
      /\ Chunk(w).rows \subseteq w.fetched
    BY <1>1 DEF ChunksOf, Chunk
<1>5. QED
    BY <1>1, <1>2, <1>3, <1>4, ListedIsGames

\* What the panel's steps leave alone.
LEMMA PanelLeaves ==
    ASSUME PanelStep
    PROVE  /\ slot' = slot /\ box' = box /\ works' = works /\ late' = late
           /\ rows' = rows /\ stamp' = stamp /\ served' = served /\ closed' = closed
<1> USE DEF backendVars, diskVars, panelVars, callVars, historyVars
<1>1. CASE TakeFrame
    <2>1. UNCHANGED <<backendVars, diskVars, served, closed>>
        BY <1>1 DEF TakeFrame
    <2>2. QED
        BY <2>1
<1>2. CASE DropFrame \/ UpdateShortcut \/ AdoptOrphan
    BY <1>2 DEF DropFrame, UpdateShortcut, AdoptOrphan
<1>3. CASE CreateShortcut \/ CreateFails \/ EndFrame \/ Reload
    BY <1>3 DEF CreateShortcut, CreateFails, EndFrame, Reload
<1>4. QED
    BY <1>1, <1>2, <1>3 DEF PanelStep

-----------------------------------------------------------------------------
(* The box keeps its shape. *)

LEMMA BoxIs ==
    BoxInv => /\ box \in Box
              /\ ClearActiveUnit(box) = [box EXCEPT !.staging = {}, !.active = {}]
              /\ \A s, t \in box.staging : s = t
              /\ \A k, l \in box.answer : k = l
BY DEF BoxInv, ClearActiveUnit

LEMMA RunBox ==
    ASSUME RecordInv, WorksInv, BoxInv, NEW r \in Runs, slot.run = r, RunStep(r)
    PROVE  BoxInv'
<1> USE DEF backendVars, diskVars, panelVars, callVars, historyVars
<1> DEFINE w == works[r]
<1>1. box \in Box /\ w \in Work /\ UnitOf(w)
      /\ (\A s, t \in box.staging : s = t) /\ (\A k, l \in box.answer : k = l)
    BY DEF BoxInv, WorksInv
<1>2. r \in AnyRun
    BY DEF AnyRun
<1>3. w.pc \in {"clear"} \cup Sending =>
          Unit(w) \in Platforms /\ w.fetched \in SUBSET Games /\ w.chunk \in Nat
          /\ Chunk(w).rows \in SUBSET Games
    BY <1>1, ChunkIs
<1>4. CASE Begin(r)
    BY <1>1, <1>4 DEF Begin, BoxInv, Box
<1>5. CASE \/ Plan(r) \/ PlanFails(r) \/ OpenRun(r) \/ EndUnits(r) \/ SkipUnit(r) \/ FetchUnit(r)
           \/ Classify(r) \/ Raise(r) \/ RecordTerminalStatus(r) \/ MarkErrored(r) \/ Finish(r)
    BY <1>5 DEF Plan, PlanFails, OpenRun, EndUnits, SkipUnit, FetchUnit, Classify, Raise,
                RecordTerminalStatus, MarkErrored, Finish, BoxInv
<1>6. CASE BeginApply(r)
    <2>1. CASE Cancelling
        BY <1>6, <2>1 DEF BeginApply, BoxInv
    <2>2. CASE ~Cancelling
        <3> DEFINE s == [run |-> r, unit |-> Unit(w), games |-> w.fetched]
        <3>1. box' = [box EXCEPT !.staging = {s}] /\ w.pc = "clear"
            BY <1>6, <2>2 DEF BeginApply, At
        <3>2. s \in [run : AnyRun, unit : Platforms, games : SUBSET Games]
            BY <1>2, <1>3, <3>1
        <3> HIDE DEF s
        <3>3. QED
            BY <1>1, <3>1, <3>2 DEF BoxInv, Box
    <2>3. QED
        BY <2>1, <2>2
<1>7. CASE StopAtChunk(r) \/ PauseForBudget(r) \/ SeeCancel(r)
    BY <1>1, <1>7 DEF StopAtChunk, PauseForBudget, SeeCancel, ClearActiveUnit, BoxInv, Box
<1>8. CASE SendChunk(r)
    <2> DEFINE a == [unit |-> Unit(w), chunk |-> w.chunk]
    <2>1. box' = [box EXCEPT !.active = {a}, !.answer = {}] /\ w.pc = "dispatch"
        BY <1>8 DEF SendChunk, At
    <2>2. a \in [unit : Platforms, chunk : Nat]
        BY <1>3, <2>1 DEF Sending
    <2> HIDE DEF a
    <2>3. QED
        BY <1>1, <2>1, <2>2 DEF BoxInv, Box
<1>9. CASE TakeAnswer(r)
    BY <1>1, <1>9 DEF TakeAnswer, BoxInv, Box
<1>10. CASE TimeOut(r)
    <2> DEFINE held == {[run |-> r, unit |-> a.unit, chunk |-> a.chunk, rows |-> Chunk(w).rows] :
                           a \in box.active}
    <2>1. box' = [box EXCEPT !.stash = held, !.active = {}, !.interrupted = TRUE] /\ w.pc = "wait"
        BY <1>1, <1>10 DEF TimeOut, StashAbandonedChunk, At, Box
    <2>2. held \subseteq Held
        BY <1>1, <1>2, <1>3, <2>1 DEF Held, Box, Sending
    <2> HIDE DEF held
    <2>3. QED
        BY <1>1, <2>1, <2>2 DEF BoxInv, Box
<1>11. CASE CommitChunk(r)
    BY <1>1, <1>11 DEF CommitChunk, ClearActiveUnit, BoxInv, Box
<1>12. QED
    BY <1>4, <1>5, <1>6, <1>7, <1>8, <1>9, <1>10, <1>11 DEF RunStep

LEMMA OtherBox ==
    ASSUME BoxInv, acks \subseteq Ack,
           \/ \E r \in Runs : Start(r)
           \/ PanelStep \/ CallStep \/ Restart \/ RommChanges \/ ClearSyncCache \/ UNCHANGED vars
    PROVE  BoxInv'
<1> USE DEF backendVars, diskVars, panelVars, callVars, historyVars
<1>1. box \in Box /\ (\A s, t \in box.staging : s = t) /\ (\A k, l \in box.answer : k = l)
    BY DEF BoxInv
<1>2. CASE \E r \in Runs : Start(r)
    BY <1>1, <1>2 DEF Start, TryBeginRun, BoxInv, Box
<1>3. CASE Restart
    BY <1>3 DEF Restart, EmptyBox, BoxInv, Box
<1>4. CASE \E k \in acks : ReportUnitResults(k)
    <2>1. PICK k \in acks : ReportUnitResults(k)
        BY <1>4
    <2>2. k \in Ack
        BY <2>1
    <2>3. box' = [box EXCEPT !.answer = {k}] \/ box' = [box EXCEPT !.stash = {}] \/ box' = box
        BY <2>1 DEF ReportUnitResults
    <2>4. QED
        BY <1>1, <2>2, <2>3 DEF BoxInv, Box
<1>5. CASE \/ PanelStep \/ RommChanges \/ ClearSyncCache \/ UNCHANGED vars \/ PressCancel
           \/ \E j \in late : LateCommit(j)
           \/ \E id \in cancels : DeliverCancel(id)
    <2>1. CASE PanelStep
        BY <2>1, PanelLeaves DEF BoxInv
    <2>2. CASE \/ RommChanges \/ ClearSyncCache \/ UNCHANGED vars \/ PressCancel
               \/ \E j \in late : LateCommit(j)
        BY <2>2 DEF RommChanges, ClearSyncCache, vars, PressCancel, LateCommit, BoxInv
    <2>3. CASE \E id \in cancels : DeliverCancel(id)
        BY <2>3 DEF DeliverCancel, BoxInv
    <2>4. QED
        BY <1>5, <2>1, <2>2, <2>3
<1>6. QED
    BY <1>2, <1>3, <1>4, <1>5 DEF CallStep

-----------------------------------------------------------------------------
(* The rows and the stamps keep theirs. *)

LEMMA CommitRowsShape ==
    ASSUME rows \in [Games -> Row], NEW chunkRows, NEW app \in Apps, NEW gen \in AnyRun,
           CommitRows(chunkRows, app, gen)
    PROVE  rows' \in [Games -> Row]
<1>1. app \in [DOMAIN app -> 1..Copies]
    BY AppsAre
<1>2. Copies \in Nat \ {0}
    BY LibraryAssumption
<1> DEFINE T == chunkRows \cap UNION {s.games : s \in box.staging}
           new(g) == [here |-> TRUE,
                      app |-> IF g \in DOMAIN app THEN app[g] ELSE rows[g].app,
                      applied |-> g \in DOMAIN app \/ rows[g].applied,
                      gen |-> IF gen # NoRun THEN gen ELSE rows[g].gen]
<1>3. rows' = [g \in Games |-> IF g \notin T THEN rows[g] ELSE new(g)]
    BY DEF CommitRows
<1>4. ASSUME NEW g \in Games PROVE new(g) \in Row
    <2>1. (IF g \in DOMAIN app THEN app[g] ELSE rows[g].app) \in 0..Copies
        BY <1>1, <1>2 DEF Row
    <2>2. (g \in DOMAIN app \/ rows[g].applied) \in BOOLEAN
        OBVIOUS
    <2>3. (IF gen # NoRun THEN gen ELSE rows[g].gen) \in AnyRun
        BY DEF Row
    <2>4. QED
        BY <2>1, <2>2, <2>3 DEF Row
<1> HIDE DEF T, new
<1>5. QED
    BY <1>3, <1>4

LEMMA DiskKeeps ==
    ASSUME WorksInv, DiskInv, late \subseteq HeldAnswer, [Next]_vars
    PROVE  DiskInv'
<1> USE DEF backendVars, diskVars, panelVars, callVars, historyVars
<1>1. rows \in [Games -> Row] /\ stamp \in [Platforms -> Stamp]
    BY DEF DiskInv
<1>2. NoStamp \in Stamp /\ NoRun \in AnyRun
    BY DEF NoStamp, Stamp, AnyRun
<1>3. CASE \E r \in Runs : CommitChunk(r)
    <2>1. PICK r \in Runs : CommitChunk(r)
        BY <1>3
    <2> DEFINE w == works[r]
    <2>2. w \in Work /\ UnitOf(w) /\ w.pc = "commit" /\ w.answer \in Apps
        BY <2>1 DEF WorksInv, CommitChunk, At, Work
    <2>3. Unit(w) \in Platforms /\ w.fetched \in SUBSET Games
        BY <2>2, ChunkIs DEF Sending
    <2>4. rows' \in [Games -> Row]
        BY <1>1, <2>1, <2>2, CommitRowsShape DEF CommitChunk, AnyRun
    <2> DEFINE s == [gen |-> r, ids |-> w.fetched]
    <2>5. s \in Stamp
        BY <2>3 DEF Stamp, AnyRun
    <2>6. stamp' = [stamp EXCEPT ![Unit(w)] = s] \/ stamp' = stamp
        BY <2>1 DEF CommitChunk, StampIfLast
    <2> HIDE DEF s
    <2>7. stamp' \in [Platforms -> Stamp]
        BY <1>1, <2>3, <2>5, <2>6
    <2>8. QED
        BY <2>4, <2>7 DEF DiskInv
<1>4. CASE \E r \in Runs : BeginApply(r)
    <2>1. PICK r \in Runs : BeginApply(r)
        BY <1>4
    <2>2. rows' = rows /\ (stamp' = [stamp EXCEPT ![Unit(works[r])] = NoStamp] \/ stamp' = stamp)
        BY <2>1 DEF BeginApply
    <2>3. QED
        BY <1>1, <1>2, <2>2 DEF DiskInv
<1>5. CASE \E j \in late : LateCommit(j)
    <2>1. PICK j \in late : LateCommit(j)
        BY <1>5
    <2>2. j.app \in Apps
        BY DEF HeldAnswer
    <2>3. rows' \in [Games -> Row]
        BY <1>1, <1>2, <2>1, <2>2, CommitRowsShape DEF LateCommit
    <2>4. QED
        BY <1>1, <2>1, <2>3 DEF LateCommit, DiskInv
<1>6. CASE ClearSyncCache
    <2>1. stamp' = [p \in Platforms |-> NoStamp]
          /\ rows' = [g \in Games |-> [rows[g] EXCEPT !.applied = FALSE]]
        BY <1>6 DEF ClearSyncCache
    <2>2. \A g \in Games : [rows[g] EXCEPT !.applied = FALSE] \in Row
        BY <1>1 DEF Row
    <2>3. QED
        BY <1>2, <2>1, <2>2 DEF DiskInv
<1>7. CASE rows' = rows /\ stamp' = stamp
    BY <1>1, <1>7 DEF DiskInv
<1>8. ASSUME NEW r \in Runs, RunStep(r), ~CommitChunk(r), ~BeginApply(r)
      PROVE  rows' = rows /\ stamp' = stamp
    BY <1>8
    DEF RunStep, Begin, Plan, PlanFails, OpenRun, EndUnits, SkipUnit, FetchUnit, Classify,
        StopAtChunk, PauseForBudget, SendChunk, TakeAnswer, SeeCancel, TimeOut,
        Raise, RecordTerminalStatus, MarkErrored, Finish
<1>9. CASE \E r \in Runs : Start(r)
    BY <1>7, <1>9 DEF Start
<1>10. CASE \/ PanelStep \/ Restart \/ RommChanges \/ UNCHANGED vars \/ PressCancel
            \/ \E k \in acks : ReportUnitResults(k)
            \/ \E id \in cancels : DeliverCancel(id)
    <2>1. CASE PanelStep
        BY <1>7, <2>1, PanelLeaves
    <2>2. CASE Restart \/ RommChanges \/ UNCHANGED vars \/ PressCancel
        BY <1>7, <2>2 DEF Restart, RommChanges, vars, PressCancel
    <2>3. CASE \/ \E k \in acks : ReportUnitResults(k)
               \/ \E id \in cancels : DeliverCancel(id)
        BY <1>7, <2>3 DEF ReportUnitResults, DeliverCancel
    <2>4. QED
        BY <1>10, <2>1, <2>2, <2>3
<1>11. QED
    BY <1>3, <1>4, <1>5, <1>6, <1>7, <1>8, <1>9, <1>10 DEF Next, CallStep

-----------------------------------------------------------------------------
(* What passes between the run and the panel keeps its shape. *)

LEMMA LeastOf ==
    ASSUME NEW m \in Nat, NEW T \in SUBSET (1..m), T # {}
    PROVE  \E i \in T : \A j \in T : i <= j
<1> DEFINE upTo(i) == {j \in T : j <= i}
<1>1. IsFiniteSet(T) /\ Cardinality(T) \in Nat /\ Cardinality(T) # 0
    <2>1. IsFiniteSet(1..m)
        BY FS_Interval
    <2>2. IsFiniteSet(T)
        BY <2>1, FS_Subset
    <2>3. QED
        BY <2>2, FS_CardinalityType, FS_EmptySet
<1>2. PICK i \in T : Cardinality(upTo(i)) = 1
    <2>1. 1 \in 1..Cardinality(T)
        BY <1>1
    <2>2. \A n \in 1..Cardinality(T) : \E i \in T : Cardinality(upTo(i)) = n
        BY Ranks
    <2> HIDE DEF upTo
    <2>3. QED
        BY <2>1, <2>2
<1>3. IsFiniteSet(upTo(i)) /\ i \in upTo(i) /\ upTo(i) \subseteq T
    BY <1>1, FS_Subset
<1>4. upTo(i) = {i}
    <2>1. {i} \in SUBSET upTo(i) /\ Cardinality({i}) = 1
        BY <1>3, FS_Singleton
    <2> HIDE DEF upTo
    <2>2. QED
        BY <1>2, <1>3, <2>1, FS_Subset
<1>5. \A j \in T : i <= j
    <2> SUFFICES ASSUME NEW j \in T, ~(i <= j) PROVE FALSE
        OBVIOUS
    <2>1. j <= i /\ j # i
        OBVIOUS
    <2>2. j \in upTo(i)
        BY <2>1
    <2>3. QED
        BY <1>4, <2>1, <2>2
<1>6. QED
    BY <1>5

LEMMA LowestIs ==
    ASSUME NEW T \in SUBSET Shortcuts, NEW g, Of(g, T) # {}
    PROVE  Lowest(Of(g, T)) \in Of(g, T)
<1> DEFINE N == {s[2] : s \in Of(g, T)}
<1>1. Of(g, T) \subseteq Shortcuts /\ Copies \in Nat
    BY LibraryAssumption DEF Of
<1>2. N \in SUBSET (1..Copies) /\ N # {}
    BY <1>1 DEF Shortcuts
<1> HIDE DEF N
<1>3. PICK i \in N : \A j \in N : i <= j
    BY <1>1, <1>2, LeastOf
<1>4. \E s \in Of(g, T) : \A t \in Of(g, T) : s[2] <= t[2]
    BY <1>3 DEF N
<1>5. QED
    BY <1>4 DEF Lowest

LEMMA QueueHead == Queue[1] \in Platforms
<1>1. Queue \in Seq(Platforms) /\ Queue # <<>>
    BY LibraryAssumption
<1>2. QED
    BY <1>1

LEMMA FreshPanelIs == FreshPanel \in Panel /\ NoFrame \in Frame
<1>1. <<>> \in Seq(Games)
    OBVIOUS
<1>2. NoFrame \in Frame
    BY <1>1, QueueHead DEF NoFrame, Frame, AnyRun
<1>3. QED
    BY <1>2, NoAppsIs DEF FreshPanel, Panel, AnyRun

LEMMA FreePanelIs == panel \in Panel => FreePanel \in Panel
BY FreshPanelIs, NoAppsIs DEF FreePanel, Panel

LEMMA HeadTail ==
    ASSUME NEW S, NEW s \in Seq(S), s # <<>>
    PROVE  /\ Head(s) \in S /\ Tail(s) \in Seq(S)
           /\ Elems(s) = {Head(s)} \cup Elems(Tail(s))
<1>1. Head(s) \in S /\ Tail(s) \in Seq(S)
    OBVIOUS
<1>2. DOMAIN s = 1..Len(s) /\ Len(s) \in Nat \ {0} /\ DOMAIN Tail(s) = 1..(Len(s) - 1)
      /\ s[1] = Head(s) /\ \A i \in 1..(Len(s) - 1) : Tail(s)[i] = s[i + 1]
    OBVIOUS
<1>3. \A g : g \in Elems(s) => g = Head(s) \/ g \in Elems(Tail(s))
    <2> SUFFICES ASSUME NEW i \in DOMAIN s, i # 1
                 PROVE  s[i] \in Elems(Tail(s))
        BY <1>2 DEF Elems
    <2>1. i - 1 \in 1..(Len(s) - 1) /\ (i - 1) + 1 = i
        BY <1>2
    <2>2. Tail(s)[i - 1] = s[i]
        BY <1>2, <2>1
    <2>3. QED
        BY <1>2, <2>1, <2>2 DEF Elems
<1>4. \A g : g = Head(s) \/ g \in Elems(Tail(s)) => g \in Elems(s)
    <2>1. Head(s) \in Elems(s)
        BY <1>2 DEF Elems
    <2> SUFFICES ASSUME NEW i \in DOMAIN Tail(s)
                 PROVE  Tail(s)[i] \in Elems(s)
        BY <2>1 DEF Elems
    <2>2. i + 1 \in 1..Len(s) /\ i \in 1..(Len(s) - 1)
        BY <1>2
    <2>3. QED
        BY <1>2, <2>2 DEF Elems
<1>5. QED
    BY <1>1, <1>3, <1>4

\* The head of the panel's games resolved.
LEMMA ResolvedIs ==
    ASSUME panel \in Panel, panel.frame.games # <<>>, NEW c \in 1..Copies
    PROVE  /\ Resolved(c) \in Panel
           /\ Resolved(c).pc = panel.pc /\ Resolved(c).scan = panel.scan
           /\ Resolved(c).cancel = panel.cancel
           /\ Resolved(c).frame = [panel.frame EXCEPT !.games = Tail(@)]
           /\ Resolved(c).app = With(panel.app, Head(panel.frame.games), c)
<1>1. panel.frame \in Frame /\ panel.frame.games \in Seq(Games) /\ panel.app \in Apps
    BY DEF Panel, Frame
<1>2. Head(panel.frame.games) \in Games /\ Tail(panel.frame.games) \in Seq(Games)
    BY <1>1, HeadTail
<1> DEFINE f == [panel.frame EXCEPT !.games = Tail(@)]
           a == With(panel.app, Head(panel.frame.games), c)
<1>3. f \in Frame
    BY <1>1, <1>2 DEF Frame
<1>4. a \in Apps
    BY <1>1, <1>2, AppAdds
<1>5. Resolved(c) = [panel EXCEPT !.frame = f, !.app = a]
    BY DEF Resolved, Panel
<1> HIDE DEF f, a
<1>6. QED
    BY <1>3, <1>4, <1>5 DEF Panel, f, a

LEMMA TakeFramePasses ==
    ASSUME PassingInv, TakeFrame
    PROVE  PassingInv'
<1> USE DEF backendVars, diskVars, panelVars, callVars, historyVars
<1>1. UNCHANGED <<late, steam, acks, served>>
    <2>1. UNCHANGED <<backendVars, steam, callVars, served>>
        BY DEF TakeFrame
    <2>2. QED
        BY <2>1
<1>2. wire \in Seq(Frame) /\ wire # <<>> /\ wire' = Tail(wire)
    BY DEF TakeFrame, PassingInv
<1>3. Head(wire) \in Frame /\ wire' \in Seq(Frame)
    BY <1>2, HeadTail
<1>4. panel' \in Panel
    <2>1. PICK unseen \in {{}} \cup {{s} : s \in steam} :
              LET frame == Head(wire)
                  seen == steam \ unseen
                  bound == {s \in seen : rows[s[1]].app = s[2]}
                  cached == panel.scan.run = frame.run
              IN  panel' = [pc |-> "apply", frame |-> frame, app |-> NoApps, cancel |-> FALSE,
                            scan |-> IF cached THEN panel.scan
                                     ELSE [run |-> frame.run, bound |-> bound,
                                           pool |-> seen \ bound]]
        BY DEF TakeFrame
    <2> DEFINE frame == Head(wire)
               seen == steam \ unseen
               bound == {s \in seen : rows[s[1]].app = s[2]}
               pool == seen \ bound
               fresh == [run |-> frame.run, bound |-> bound, pool |-> pool]
               scan == IF panel.scan.run = frame.run THEN panel.scan ELSE fresh
    <2>2. panel' = [pc |-> "apply", frame |-> frame, app |-> NoApps, cancel |-> FALSE, scan |-> scan]
        BY <2>1
    <2>3. bound \in SUBSET Shortcuts /\ pool \in SUBSET Shortcuts
        BY DEF PassingInv
    <2>4. frame \in Frame /\ frame.run \in AnyRun
        BY <1>3 DEF Frame
    <2>5. panel.scan \in [run : AnyRun, bound : SUBSET Shortcuts, pool : SUBSET Shortcuts]
        BY DEF PassingInv, Panel
    <2> HIDE DEF frame, bound, pool
    <2>6. scan \in [run : AnyRun, bound : SUBSET Shortcuts, pool : SUBSET Shortcuts]
        BY <2>3, <2>4, <2>5
    <2> HIDE DEF scan
    <2>7. QED
        BY <2>2, <2>4, <2>6, NoAppsIs DEF Panel
<1>5. QED
    BY <1>1, <1>3, <1>4 DEF PassingInv

LEMMA GamePasses ==
    ASSUME PassingInv, UpdateShortcut \/ AdoptOrphan \/ CreateShortcut \/ CreateFails
    PROVE  PassingInv'
<1> USE DEF backendVars, diskVars, panelVars, callVars, historyVars
<1> DEFINE g == Head(panel.frame.games)
<1>1. panel \in Panel /\ panel.frame.games # <<>> /\ panel.frame \in Frame
      /\ panel.frame.games \in Seq(Games) /\ steam \in SUBSET Shortcuts
      /\ panel.scan.bound \in SUBSET Shortcuts /\ panel.scan.pool \in SUBSET Shortcuts
    <2>1. AtGame
        <3>1. UpdateShortcut => AtGame
            BY DEF UpdateShortcut
        <3>2. AdoptOrphan => AtGame
            BY DEF AdoptOrphan
        <3>3. CreateShortcut \/ CreateFails => AtGame
            BY DEF CreateShortcut, CreateFails, Creates
        <3>4. QED
            BY <3>1, <3>2, <3>3
    <2>2. panel \in Panel /\ steam \in SUBSET Shortcuts
        BY DEF PassingInv
    <2>3. QED
        BY <2>1, <2>2 DEF AtGame, Panel, Frame
<1>2. g \in Games /\ Tail(panel.frame.games) \in Seq(Games)
    BY <1>1, HeadTail
<1>3. \A T \in SUBSET Shortcuts : \A s \in Of(g, T) : s \in T /\ s \in Shortcuts /\ s[2] \in 1..Copies
    BY DEF Of, Shortcuts
<1>4. CASE UpdateShortcut
    <2>1. PICK s \in Of(g, panel.scan.bound) : panel' = Resolved(s[2])
        BY <1>4 DEF UpdateShortcut
    <2>2. panel' \in Panel
        BY <1>1, <1>3, <2>1, ResolvedIs
    <2>3. QED
        BY <1>4, <2>2 DEF UpdateShortcut, PassingInv
<1>5. CASE AdoptOrphan
    <2> DEFINE orphan == Lowest(Of(g, panel.scan.pool))
    <2>1. orphan \in Of(g, panel.scan.pool)
        BY <1>1, <1>5, LowestIs DEF AdoptOrphan
    <2>2. Resolved(orphan[2]) \in Panel
        BY <1>1, <1>3, <2>1, ResolvedIs
    <2>3. panel' = [Resolved(orphan[2]) EXCEPT !.scan.pool = @ \ {orphan}]
        BY <1>5 DEF AdoptOrphan
    <2> DEFINE v == Resolved(orphan[2])
    <2>4. v \in Panel /\ panel' = [v EXCEPT !.scan.pool = @ \ {orphan}]
        BY <2>2, <2>3
    <2> HIDE DEF v, orphan
    <2>5. panel' \in Panel
        <3>1. v.scan.pool \ {orphan} \in SUBSET Shortcuts
            BY <2>4 DEF Panel
        <3>2. QED
            BY <2>4, <3>1 DEF Panel
    <2>6. UNCHANGED <<late, wire, acks, steam, served>>
        BY <1>5 DEF AdoptOrphan
    <2>7. QED
        BY <2>5, <2>6 DEF PassingInv
<1>6. CASE CreateShortcut
    <2> DEFINE fresh == Lowest(Of(g, Shortcuts \ steam))
    <2>1. panel' = Resolved(fresh[2]) /\ steam' = steam \cup {fresh} /\ Of(g, Shortcuts \ steam) # {}
        BY <1>6 DEF CreateShortcut
    <2>2. fresh \in Of(g, Shortcuts \ steam)
        BY <2>1, LowestIs
    <2>3. fresh \in Shortcuts /\ fresh[2] \in 1..Copies
        BY <1>3, <2>2
    <2> HIDE DEF fresh
    <2>4. panel' \in Panel /\ steam' \subseteq Shortcuts
        BY <1>1, <2>1, <2>3, ResolvedIs
    <2>5. QED
        BY <1>6, <2>4 DEF CreateShortcut, PassingInv
<1>7. CASE CreateFails
    <2> DEFINE f == [panel.frame EXCEPT !.games = Tail(@)]
    <2>1. panel' = [panel EXCEPT !.frame = f]
        BY <1>1, <1>7 DEF CreateFails, Panel
    <2>2. f \in Frame
        BY <1>1, <1>2 DEF Frame
    <2> HIDE DEF f
    <2>3. panel' \in Panel
        BY <1>1, <2>1, <2>2 DEF Panel
    <2>4. QED
        BY <1>7, <2>3 DEF CreateFails, PassingInv
<1>8. QED
    BY <1>4, <1>5, <1>6, <1>7

LEMMA FramePasses ==
    ASSUME PassingInv, DropFrame \/ EndFrame \/ Reload
    PROVE  PassingInv'
<1> USE DEF backendVars, diskVars, panelVars, callVars, historyVars
<1>1. panel \in Panel /\ FreePanel \in Panel /\ panel.frame \in Frame /\ panel.app \in Apps
    BY FreePanelIs DEF PassingInv, Panel
<1>2. CASE DropFrame
    <2>1. wire' \in Seq(Frame)
        BY <1>2, HeadTail DEF DropFrame, PassingInv
    <2>2. QED
        BY <1>2, <2>1 DEF DropFrame, PassingInv
<1>3. CASE EndFrame
    <2> DEFINE k == [run |-> panel.frame.run, unit |-> panel.frame.unit,
                     chunk |-> panel.frame.chunk, app |-> panel.app]
    <2>1. k \in Ack
        BY <1>1 DEF Frame, Ack
    <2>2. acks' = acks \cup {k} \/ acks' = acks
        BY <1>3 DEF EndFrame
    <2>3. panel' = FreePanel \/ panel' = [panel EXCEPT !.pc = "acking", !.app = NoApps]
        BY <1>3 DEF EndFrame
    <2> HIDE DEF k
    <2>4. acks' \subseteq Ack /\ panel' \in Panel
        BY <1>1, <2>1, <2>2, <2>3, NoAppsIs DEF PassingInv, Panel
    <2>5. QED
        BY <1>3, <2>4 DEF EndFrame, PassingInv
<1>4. CASE Reload
    <2>1. <<>> \in Seq(Frame)
        OBVIOUS
    <2>2. QED
        BY <1>4, <2>1, FreshPanelIs DEF Reload, PassingInv
<1>5. QED
    BY <1>2, <1>3, <1>4

LEMMA AnsweredPasses ==
    ASSUME panel \in Panel, NEW k, Answered(k)
    PROVE  panel' \in Panel
BY FreePanelIs DEF Answered

LEMMA CallPasses ==
    ASSUME PassingInv, BoxInv, CallStep
    PROVE  PassingInv'
<1> USE DEF backendVars, diskVars, panelVars, callVars, historyVars
<1>1. panel \in Panel
    BY DEF PassingInv
<1>2. CASE \E k \in acks : ReportUnitResults(k)
    <2>1. PICK k \in acks : ReportUnitResults(k)
        BY <1>2
    <2>2. UNCHANGED <<wire, steam, served>> /\ acks' \subseteq acks
        BY <2>1 DEF ReportUnitResults
    <2>3. panel' \in Panel
        BY <1>1, <2>1, AnsweredPasses DEF ReportUnitResults
    <2>4. late' \subseteq HeldAnswer
        <3> DEFINE held(s) == [run |-> s.run, unit |-> s.unit, chunk |-> s.chunk,
                               rows |-> s.rows, app |-> k.app]
        <3>1. late' \subseteq late \cup {held(s) : s \in box.stash}
            BY <2>1 DEF ReportUnitResults
        <3>2. \A s \in box.stash : held(s) \in HeldAnswer
            <4>1. k.app \in Apps
                BY DEF PassingInv, Ack
            <4>2. QED
                BY <4>1 DEF BoxInv, Box, Held, HeldAnswer
        <3>3. QED
            BY <3>1, <3>2 DEF PassingInv
    <2>5. QED
        BY <2>2, <2>3, <2>4 DEF PassingInv
<1>3. CASE \E j \in late : LateCommit(j)
    BY <1>1, <1>3, AnsweredPasses DEF LateCommit, PassingInv
<1>4. CASE PressCancel
    BY <1>1, <1>4 DEF PressCancel, PassingInv, Panel
<1>5. CASE \E id \in cancels : DeliverCancel(id)
    BY <1>5 DEF DeliverCancel, PassingInv
<1>6. QED
    BY <1>2, <1>3, <1>4, <1>5 DEF CallStep

LEMMA RunPasses ==
    ASSUME RecordInv, WorksInv, PassingInv, NEW r \in Runs, RunStep(r)
    PROVE  PassingInv'
<1> USE DEF backendVars, diskVars, panelVars, callVars, historyVars
<1> DEFINE w == works[r]
<1>1. panel \in Panel /\ wire \in Seq(Frame)
    BY DEF PassingInv
<1>2. CASE SendChunk(r)
    <2>1. w \in Work /\ UnitOf(w) /\ w.pc = "dispatch" /\ slot.run \in AnyRun
        BY <1>2 DEF WorksInv, SendChunk, At, RecordInv, RunTyped, AnyRun
    <2>2. Chunk(w) \in ChunkSet /\ Unit(w) \in Platforms /\ w.chunk \in Nat
        BY <2>1, ChunkIs DEF Sending
    <2> DEFINE f == [run |-> slot.run, unit |-> Unit(w), chunk |-> w.chunk, games |-> Chunk(w).games]
    <2>3. f \in Frame /\ wire' = Append(wire, f)
        BY <1>2, <2>1, <2>2 DEF SendChunk, ChunkSet, Frame
    <2> HIDE DEF f
    <2>4. wire' \in Seq(Frame)
        BY <1>1, <2>3
    <2>5. QED
        BY <1>2, <2>4 DEF SendChunk, PassingInv
<1>3. CASE Plan(r)
    BY <1>1, <1>3 DEF Plan, PassingInv, Panel
<1>4. ASSUME ~SendChunk(r), ~Plan(r)
      PROVE  UNCHANGED <<panel, wire, acks, late, steam, served>>
    BY <1>4
    DEF RunStep, Begin, PlanFails, OpenRun, EndUnits, SkipUnit, FetchUnit, Classify, BeginApply,
        StopAtChunk, PauseForBudget, TakeAnswer, SeeCancel, TimeOut, CommitChunk,
        Raise, RecordTerminalStatus, MarkErrored, Finish
<1>5. QED
    BY <1>2, <1>3, <1>4 DEF PassingInv

LEMMA OutsidePasses ==
    ASSUME PassingInv,
           (\E r \in Runs : Start(r)) \/ Restart \/ RommChanges \/ ClearSyncCache \/ UNCHANGED vars
    PROVE  PassingInv'
<1> USE DEF backendVars, diskVars, panelVars, callVars, historyVars
<1>1. panel \in Panel /\ FreePanel \in Panel
    BY FreePanelIs DEF PassingInv
<1>2. CASE \E r \in Runs : Start(r)
    BY <1>1, <1>2 DEF Start, PassingInv, Panel
<1>3. CASE Restart
    BY <1>1, <1>3 DEF Restart, PassingInv
<1>4. CASE RommChanges
    BY <1>4 DEF RommChanges, PassingInv
<1>5. CASE ClearSyncCache \/ UNCHANGED vars
    BY <1>5 DEF ClearSyncCache, vars, PassingInv
<1>6. QED
    BY <1>2, <1>3, <1>4, <1>5

-----------------------------------------------------------------------------
LEMMA ShapeInit == Init => ShapeInv
<1> SUFFICES ASSUME Init PROVE ShapeInv
    OBVIOUS
<1>1. WorksInv
    <2>1. UnitOf(Idle)
        BY IdleIs DEF UnitOf, InUnit, Sending
    <2>2. QED
        BY <2>1, IdleIs DEF Init, WorksInv
<1>2. BoxInv
    BY DEF Init, EmptyBox, BoxInv, Box
<1>3. DiskInv
    <2>1. [here |-> FALSE, app |-> 0, applied |-> FALSE, gen |-> NoRun] \in Row
        BY LibraryAssumption DEF Row, AnyRun
    <2>2. NoStamp \in Stamp
        BY DEF NoStamp, Stamp, AnyRun
    <2>3. QED
        BY <2>1, <2>2 DEF Init, DiskInv
<1>4. PassingInv
    <2>1. <<>> \in Seq(Frame)
        OBVIOUS
    <2>2. QED
        BY <2>1, FreshPanelIs DEF Init, PassingInv
<1>5. QED
    BY <1>1, <1>2, <1>3, <1>4 DEF ShapeInv

LEMMA ShapeStep == RecordInv /\ ShapeInv /\ [Next]_vars => ShapeInv'
<1> SUFFICES ASSUME RecordInv, ShapeInv, [Next]_vars PROVE ShapeInv'
    OBVIOUS
<1>1. WorksInv /\ BoxInv /\ DiskInv /\ PassingInv /\ acks \subseteq Ack /\ late \subseteq HeldAnswer
    BY DEF ShapeInv, PassingInv
<1>2. DiskInv'
    BY <1>1, DiskKeeps
<1>3. CASE \E r \in Runs : RunStep(r)
    <2>1. PICK r \in Runs : RunStep(r)
        BY <1>3
    <2>2. slot.run = r
        BY <2>1, RunStepLives DEF RecordInv, SlotInv
    <2>3. WorksInv' /\ BoxInv' /\ PassingInv'
        BY <1>1, <2>1, <2>2, RunWorks, RunBox, RunPasses
    <2>4. QED
        BY <1>2, <2>3 DEF ShapeInv
<1>4. CASE \E r \in Runs : Start(r)
    <2>1. WorksInv' /\ BoxInv' /\ PassingInv'
        BY <1>1, <1>4, RunWorks, OtherBox, OutsidePasses
    <2>2. QED
        BY <1>2, <2>1 DEF ShapeInv
<1>5. CASE PanelStep \/ CallStep \/ RommChanges \/ ClearSyncCache \/ UNCHANGED vars
    <2>1. works' = works
        <3>1. CASE PanelStep
            BY <3>1, PanelLeaves
        <3>2. CASE CallStep
            BY <3>2 DEF CallStep, ReportUnitResults, LateCommit, PressCancel, DeliverCancel,
                        backendVars
        <3>3. CASE RommChanges \/ ClearSyncCache \/ UNCHANGED vars
            BY <3>3 DEF RommChanges, ClearSyncCache, vars, backendVars
        <3>4. QED
            BY <1>5, <3>1, <3>2, <3>3
    <2>2. WorksInv'
        BY <1>1, <2>1 DEF WorksInv
    <2>3. BoxInv'
        BY <1>1, <1>5, OtherBox
    <2>4. PassingInv'
        BY <1>1, <1>5, TakeFramePasses, GamePasses, FramePasses, CallPasses, OutsidePasses
        DEF PanelStep
    <2>5. QED
        BY <1>2, <2>2, <2>3, <2>4 DEF ShapeInv
<1>6. CASE Restart
    <2>1. WorksInv' /\ BoxInv' /\ PassingInv'
        BY <1>1, <1>6, RestartWorks, OtherBox, OutsidePasses
    <2>2. QED
        BY <1>2, <2>1 DEF ShapeInv
<1>7. QED
    BY <1>3, <1>4, <1>5, <1>6 DEF Next

-----------------------------------------------------------------------------
(* The panel's answers. *)

Started(r) == ~At(r, "none")

MessageFields == {"run", "unit", "chunk"}

\* The shapes the argument needs.
BoxTyped ==
    /\ {"active", "answer", "stash", "paused"} \subseteq DOMAIN box
    /\ \A a, b \in box.active : a = b
    /\ \A s, t \in box.stash : s = t

WireTyped ==
    /\ \E S : wire \in Seq(S)
    /\ \A i \in DOMAIN wire : MessageFields \subseteq DOMAIN wire[i]

PanelTyped ==
    /\ {"pc", "frame"} \subseteq DOMAIN panel
    /\ MessageFields \subseteq DOMAIN panel.frame
    /\ panel.pc \in {"free", "apply", "acking"}

\* The runs before the one in the slot are closed; an abandoned chunk of the
\* run in the slot cancels it, and so does what ends its wait for another.
OrderInv ==
    /\ \A q, r \in Runs : q < r /\ Started(r) => Started(q)
    /\ slot.run # NoRun => \A q \in Runs : Started(q) /\ q # slot.run => q \in closed
    /\ slot.run # NoRun => \A s \in box.stash : s.run = slot.run => Cancelling
    /\ \A r \in Runs : At(r, "wait") /\ Cancelling => r \in closed

\* The backend knows the chunk of a frame or an answer: its run waits for it
\* and has none, or holds it as abandoned.
Known(m, sl, ws, bx) ==
    \/ /\ sl.run = m.run /\ ws[m.run].pc = "wait" /\ bx.answer = {}
       /\ \E a \in bx.active : a.unit = m.unit /\ a.chunk = m.chunk
    \/ \E s \in bx.stash : Matches(m, s)

Applying == panel.pc = "apply"

\* Frames and answers are of runs that started.
SentInv ==
    /\ \A i \in DOMAIN wire : wire[i].run \in Runs /\ Started(wire[i].run)
    /\ Applying => panel.frame.run \in Runs /\ Started(panel.frame.run)
    /\ \A k \in acks : k.run \in Runs /\ Started(k.run)

\* The frames and the answers of a run that still wants them are known,
KnownInv ==
    /\ \A i \in DOMAIN wire : wire[i].run \notin closed => Known(wire[i], slot, works, box)
    /\ Applying /\ panel.frame.run \notin closed => Known(panel.frame, slot, works, box)
    /\ \A k \in acks : k.run \notin closed => Known(k, slot, works, box)

LiveWire == {i \in DOMAIN wire : wire[i].run \notin closed}
LivePanel == Applying /\ panel.frame.run \notin closed
LiveAcks == {k \in acks : k.run \notin closed}

\* and there is at most one of them, be it frame or answer.
OneMessage ==
    /\ \A i, j \in LiveWire : i = j
    /\ \A k, l \in LiveAcks : k = l
    /\ LivePanel => LiveWire = {}
    /\ LiveWire # {} \/ LivePanel => LiveAcks = {}

MessageInv == WireTyped /\ PanelTyped /\ SentInv /\ KnownInv /\ OneMessage

AnswerInv == RecordInv /\ BoxTyped /\ OrderInv /\ MessageInv

LEMMA AnswerInit == Init => AnswerInv
<1> SUFFICES ASSUME Init PROVE AnswerInv
    OBVIOUS
<1>1. RecordInv
    BY RecordInit
<1>2. BoxTyped
    BY DEF Init, BoxTyped, EmptyBox
<1>3. OrderInv
    BY DEF Init, OrderInv, Started, At, Idle, Cancelling
<1>4. WireTyped /\ PanelTyped /\ wire = <<>> /\ acks = {} /\ ~Applying
    BY DEF Init, WireTyped, PanelTyped, FreshPanel, NoFrame, MessageFields, Applying
<1>5. SentInv /\ KnownInv /\ OneMessage
    BY <1>4 DEF SentInv, KnownInv, OneMessage, LiveWire, LivePanel, LiveAcks
<1>6. QED
    BY <1>1, <1>2, <1>3, <1>4, <1>5 DEF AnswerInv, MessageInv

-----------------------------------------------------------------------------
(* What a step does to the runs and what the backend knows. *)

\* The chunks known before are known after, but those of runs that are closed.
StillKnown ==
    \A m : /\ m.run \in Runs /\ Started(m.run) /\ m.run \notin closed'
           /\ Known(m, slot, works, box)
           => Known(m, slot', works', box')

\* The frame at the panel, if it is still applied, is the same chunk.
PanelStays ==
    /\ PanelTyped'
    /\ Applying' => /\ Applying
                    /\ panel'.frame.run = panel.frame.run
                    /\ panel'.frame.unit = panel.frame.unit
                    /\ panel'.frame.chunk = panel.frame.chunk

\* No message comes, and no run is opened again.
NothingSent ==
    /\ wire' = wire \/ wire' = <<>>
    /\ acks' \subseteq acks
    /\ PanelStays
    /\ \A r \in Runs : Started(r) => Started(r)' /\ (r \in closed => r \in closed')

LEMMA NothingSentKeeps ==
    ASSUME AnswerInv, NothingSent
    PROVE  WireTyped' /\ PanelTyped' /\ SentInv' /\ OneMessage'
<1> USE DEF AnswerInv, MessageInv
<1>1. WireTyped'
    <2>1. CASE wire' = wire
        BY <2>1 DEF WireTyped
    <2>2. CASE wire' = <<>>
        <3>1. wire' \in Seq({})
            BY <2>2
        <3>2. DOMAIN wire' = {}
            BY <2>2
        <3>3. QED
            BY <3>1, <3>2 DEF WireTyped
    <2>3. QED
        BY <2>1, <2>2 DEF NothingSent
<1>2. PanelTyped'
    BY DEF NothingSent, PanelStays
<1>3. SentInv'
    BY DEF NothingSent, PanelStays, SentInv
<1>4. \A q \in Runs : Started(q) /\ q \notin closed' => q \notin closed
    BY DEF NothingSent
<1>5. LiveWire' \subseteq LiveWire /\ (LivePanel' => LivePanel) /\ LiveAcks' \subseteq LiveAcks
    <2>1. LiveWire' \subseteq LiveWire
        <3>1. CASE wire' = wire
            BY <1>4, <3>1 DEF LiveWire, SentInv
        <3>2. CASE wire' = <<>>
            BY <3>2 DEF LiveWire
        <3>3. QED
            BY <3>1, <3>2 DEF NothingSent
    <2>2. LivePanel' => LivePanel
        BY <1>4 DEF NothingSent, PanelStays, LivePanel, SentInv
    <2>3. LiveAcks' \subseteq LiveAcks
        BY <1>4 DEF NothingSent, LiveAcks, SentInv
    <2>4. QED
        BY <2>1, <2>2, <2>3
<1>6. OneMessage'
    BY <1>5 DEF OneMessage
<1>7. QED
    BY <1>1, <1>2, <1>3, <1>6

LEMMA StillKnownKeeps ==
    ASSUME AnswerInv, NothingSent, StillKnown
    PROVE  MessageInv'
<1>1. \A q \in Runs : Started(q) /\ q \notin closed' => q \notin closed
    BY DEF NothingSent
<1>2. \A i \in DOMAIN wire' : wire'[i].run \notin closed' => Known(wire'[i], slot', works', box')
    BY <1>1 DEF NothingSent, StillKnown, AnswerInv, MessageInv, SentInv, KnownInv
<1>3. \A k \in acks' : k.run \notin closed' => Known(k, slot', works', box')
    BY <1>1 DEF NothingSent, StillKnown, AnswerInv, MessageInv, SentInv, KnownInv
<1>4. Applying' /\ panel'.frame.run \notin closed' => Known(panel'.frame, slot', works', box')
    <2> SUFFICES ASSUME Applying', panel'.frame.run \notin closed'
                 PROVE  Known(panel'.frame, slot', works', box')
        OBVIOUS
    <2>1. /\ Applying /\ panel'.frame.run = panel.frame.run
          /\ panel'.frame.unit = panel.frame.unit /\ panel'.frame.chunk = panel.frame.chunk
        BY DEF NothingSent, PanelStays
    <2>2. Known(panel.frame, slot', works', box')
        BY <1>1, <2>1 DEF StillKnown, AnswerInv, MessageInv, SentInv, KnownInv
    <2>3. QED
        BY <2>1, <2>2 DEF Known, Matches
<1>5. KnownInv'
    BY <1>2, <1>3, <1>4 DEF KnownInv
<1>6. QED
    BY <1>5, NothingSentKeeps DEF MessageInv

-----------------------------------------------------------------------------
(* The run's steps. *)

\* A step of the run beside the sending of a chunk, seen from outside.
RunQuiet(r) ==
    /\ \A q \in Runs : q # r => works'[q] = works[q]
    /\ works'[r].pc \notin {"none", "wait"}
    /\ wire' = wire /\ acks' = acks /\ closed' = closed
    /\ panel' = panel \/ panel' = [panel EXCEPT !.cancel = FALSE]
    /\ slot' = slot \/ (Cancelling' /\ slot'.run = slot.run) \/ slot'.run = NoRun

LEMMA QuietSends ==
    ASSUME AnswerInv, NEW r \in Runs, RunQuiet(r)
    PROVE  NothingSent
<1>1. PanelStays
    BY DEF RunQuiet, PanelStays, AnswerInv, MessageInv, PanelTyped, Applying
<1>2. \A q \in Runs : Started(q) => Started(q)'
    BY DEF RunQuiet, Started, At
<1>3. QED
    BY <1>1, <1>2 DEF RunQuiet, NothingSent

\* Where the box keeps its chunks, a run that was not waiting changes nothing
\* that is known.
LEMMA QuietKeeps ==
    ASSUME AnswerInv, NEW r \in Runs, slot.run = r, RunQuiet(r), RecordInv', Started(r),
           works[r].pc # "wait", box'.stash = box.stash, BoxTyped',
           Cancelling => Cancelling' \/ slot'.run = NoRun
    PROVE  AnswerInv'
<1>1. NothingSent
    BY QuietSends
<1>2. StillKnown
    BY DEF StillKnown, Known
<1>3. OrderInv'
    <2>1. \A q \in Runs : Started(q)' <=> Started(q)
        BY DEF RunQuiet, Started, At
    <2>2. \A q \in Runs : q # r => works'[q].pc # "wait"
        BY DEF RunQuiet, AnswerInv, RecordInv, SlotInv, Lives
    <2>3. \A q \in Runs : works'[q].pc # "wait"
        BY <2>2 DEF RunQuiet
    <2>4. slot'.run # NoRun => slot'.run = slot.run
        BY DEF RunQuiet
    <2>5. QED
        BY <2>1, <2>3, <2>4 DEF RunQuiet, OrderInv, AnswerInv, At
<1>4. QED
    BY <1>1, <1>2, <1>3, StillKnownKeeps DEF AnswerInv

\* The run's steps at which it is at no chunk's wait.
BusyStep(r) ==
    \/ Begin(r) \/ Plan(r) \/ PlanFails(r) \/ OpenRun(r)
    \/ EndUnits(r) \/ SkipUnit(r) \/ FetchUnit(r) \/ Classify(r) \/ BeginApply(r)
    \/ StopAtChunk(r) \/ PauseForBudget(r) \/ CommitChunk(r)
    \/ Raise(r) \/ RecordTerminalStatus(r) \/ MarkErrored(r) \/ Finish(r)

LEMMA LeavesQuietly ==
    ASSUME RunTyped, NEW r \in Runs, LeaveUnit(r)
    PROVE  /\ \A q \in Runs : q # r => works'[q] = works[q]
           /\ works'[r].pc = "unit"
BY DEF RunTyped, LeaveUnit, Idle

LEMMA GoesQuietly ==
    ASSUME RunTyped, NEW r \in Runs, NEW pc, Goto(r, pc)
    PROVE  /\ \A q \in Runs : q # r => works'[q] = works[q]
           /\ works'[r].pc = pc
BY DEF RunTyped, Goto

LEMMA BusyIsQuiet ==
    ASSUME AnswerInv, NEW r \in Runs, slot.run = r, BusyStep(r)
    PROVE  /\ RunQuiet(r)
           /\ works[r].pc \notin {"none", "wait"}
           /\ box'.stash = box.stash /\ BoxTyped'
           /\ Cancelling => Cancelling' \/ slot'.run = NoRun
<1> USE DEF backendVars, diskVars, panelVars, callVars, historyVars
<1>1. RunTyped /\ BoxTyped
    BY DEF AnswerInv, RecordInv
<1> DEFINE Quietly == /\ \A q \in Runs : q # r => works'[q] = works[q]
                      /\ works'[r].pc \notin {"none", "wait"}
           Outside == /\ wire' = wire /\ acks' = acks /\ closed' = closed
                      /\ panel' = panel \/ panel' = [panel EXCEPT !.cancel = FALSE]
           BoxKept == box'.stash = box.stash /\ BoxTyped'
           SlotKept == slot' = slot \/ (Cancelling' /\ slot'.run = slot.run)
<1>2. works[r].pc \notin {"none", "wait"}
    BY DEF BusyStep, Begin, Plan, PlanFails, OpenRun, EndUnits, SkipUnit, FetchUnit, TakesUnit,
           Classify, BeginApply, StopAtChunk, PauseForBudget, CommitChunk, Raise,
           RecordTerminalStatus, MarkErrored, Finish, At
<1>3. Outside
    BY DEF BusyStep, Begin, Plan, PlanFails, OpenRun, EndUnits, SkipUnit, FetchUnit,
           Classify, BeginApply, StopAtChunk, PauseForBudget, CommitChunk, Raise,
           RecordTerminalStatus, MarkErrored, Finish
<1>4. CASE Begin(r) \/ Plan(r) \/ PlanFails(r) \/ OpenRun(r)
           \/ Raise(r) \/ RecordTerminalStatus(r) \/ MarkErrored(r)
    <2>1. Quietly
        BY <1>1, <1>4, GoesQuietly
        DEF Begin, Plan, PlanFails, OpenRun, Raise, RecordTerminalStatus, MarkErrored
    <2>2. BoxKept /\ slot' = slot
        BY <1>1, <1>4
        DEF Begin, Plan, PlanFails, OpenRun, Raise, RecordTerminalStatus, MarkErrored, BoxTyped
    <2>3. QED
        BY <1>2, <1>3, <2>1, <2>2 DEF RunQuiet, Cancelling
<1>5. CASE EndUnits(r) \/ SkipUnit(r) \/ FetchUnit(r)
    <2>1. Quietly
        BY <1>1, <1>5 DEF EndUnits, SkipUnit, FetchUnit, TakesUnit, At, RunTyped
    <2>2. BoxKept /\ slot' = slot
        BY <1>1, <1>5 DEF EndUnits, SkipUnit, FetchUnit, BoxTyped
    <2>3. QED
        BY <1>2, <1>3, <2>1, <2>2 DEF RunQuiet, Cancelling
<1>6. CASE Classify(r)
    <2>1. Quietly
        <3>1. CASE Cancelling
            BY <1>1, <1>6, <3>1, LeavesQuietly DEF Classify
        <3>2. CASE ~Cancelling
            BY <1>1, <1>6, <3>2 DEF Classify, RunTyped
        <3>3. QED
            BY <3>1, <3>2
    <2>2. BoxKept /\ slot' = slot
        BY <1>1, <1>6 DEF Classify, BoxTyped
    <2>3. QED
        BY <1>2, <1>3, <2>1, <2>2 DEF RunQuiet, Cancelling
<1>7. CASE BeginApply(r)
    <2>1. Quietly
        BY <1>1, <1>7, LeavesQuietly, GoesQuietly DEF BeginApply
    <2>2. BoxKept /\ slot' = slot
        BY <1>1, <1>7 DEF BeginApply, BoxTyped
    <2>3. QED
        BY <1>2, <1>3, <2>1, <2>2 DEF RunQuiet, Cancelling
<1>8. CASE StopAtChunk(r) \/ PauseForBudget(r)
    <2>1. Quietly
        BY <1>1, <1>8, LeavesQuietly DEF StopAtChunk, PauseForBudget
    <2>2. BoxKept
        BY <1>1, <1>8 DEF StopAtChunk, PauseForBudget, ClearActiveUnit, BoxTyped
    <2>3. SlotKept
        BY <1>1, <1>8 DEF StopAtChunk, PauseForBudget, RequestCancel, RunTyped, Cancelling, Runs, NoRun
    <2>4. QED
        BY <1>2, <1>3, <2>1, <2>2, <2>3 DEF RunQuiet, Cancelling
<1>9. CASE CommitChunk(r)
    <2>1. Quietly
        <3>1. CASE IsLastChunk(works[r])
            <4> DEFINE done == [Idle EXCEPT !.pc = "unit", !.at = works[r].at + 1,
                                            !.whole = works[r].whole \cup {Unit(works[r])}]
            <4>1. works' = [works EXCEPT ![r] = done]
                BY <1>9, <3>1 DEF CommitChunk
            <4>2. QED
                BY <1>1, <4>1 DEF RunTyped, Idle
        <3>2. CASE ~IsLastChunk(works[r])
            BY <1>1, <1>9, <3>2 DEF CommitChunk, RunTyped
        <3>3. QED
            BY <3>1, <3>2
    <2>2. BoxKept /\ slot' = slot
        BY <1>1, <1>9 DEF CommitChunk, ClearActiveUnit, BoxTyped
    <2>3. QED
        BY <1>2, <1>3, <2>1, <2>2 DEF RunQuiet, Cancelling
<1>10. CASE Finish(r)
    <2>1. Quietly
        BY <1>1, <1>10 DEF Finish, RunTyped, Idle
    <2>2. BoxKept /\ slot'.run = NoRun
        BY <1>1, <1>10 DEF Finish, FinishRun, BoxTyped
    <2>3. QED
        BY <1>2, <1>3, <2>1, <2>2 DEF RunQuiet
<1>11. QED
    BY <1>4, <1>5, <1>6, <1>7, <1>8, <1>9, <1>10 DEF BusyStep

LEMMA BusyKeeps ==
    ASSUME AnswerInv, NEW r \in Runs, slot.run = r, BusyStep(r), RecordInv'
    PROVE  AnswerInv'
BY BusyIsQuiet, QuietKeeps DEF Started, At

\* The steps that end a chunk's wait.  Its answer is there, or the run is
\* closed, or it is put aside: either way nothing unknown is on its way.
LEMMA TakeAnswerKeeps ==
    ASSUME AnswerInv, NEW r \in Runs, slot.run = r, TakeAnswer(r), RecordInv'
    PROVE  AnswerInv'
<1> USE DEF backendVars, diskVars, panelVars, callVars, historyVars
<1>1. RunTyped /\ BoxTyped
    BY DEF AnswerInv, RecordInv
<1>2. PICK k \in box.answer : works' = [works EXCEPT ![r].pc = "commit", ![r].answer = k.app]
    BY DEF TakeAnswer
<1>3. /\ \A q \in Runs : q # r => works'[q] = works[q]
      /\ works'[r].pc = "commit" /\ works[r].pc = "wait"
    BY <1>1, <1>2 DEF RunTyped, TakeAnswer, At
<1>4. RunQuiet(r)
    BY <1>3 DEF RunQuiet, TakeAnswer
<1>5. BoxTyped' /\ box'.stash = box.stash /\ slot' = slot /\ closed' = closed
    BY <1>1 DEF BoxTyped, TakeAnswer
<1>6. StillKnown
    BY <1>2, <1>5 DEF StillKnown, Known
<1>7. OrderInv'
    <2>1. \A q \in Runs : Started(q)' <=> Started(q)
        BY <1>3 DEF Started, At
    <2>2. \A q \in Runs : works'[q].pc = "wait" => works[q].pc = "wait"
        BY <1>3
    <2>3. Cancelling' = Cancelling
        BY <1>5 DEF Cancelling
    <2>4. QED
        BY <1>5, <2>1, <2>2, <2>3 DEF OrderInv, AnswerInv, At
<1>8. QED
    BY <1>4, <1>5, <1>6, <1>7, QuietSends, StillKnownKeeps DEF AnswerInv

LEMMA SeeCancelKeeps ==
    ASSUME AnswerInv, NEW r \in Runs, slot.run = r, SeeCancel(r), RecordInv'
    PROVE  AnswerInv'
<1> USE DEF backendVars, diskVars, panelVars, callVars, historyVars
<1>1. RunTyped /\ BoxTyped
    BY DEF AnswerInv, RecordInv
<1>2. /\ \A q \in Runs : q # r => works'[q] = works[q]
      /\ works'[r].pc = "unit" /\ works[r].pc = "wait"
    BY <1>1, LeavesQuietly DEF SeeCancel, At
<1>3. RunQuiet(r)
    BY <1>2 DEF RunQuiet, SeeCancel
<1>4. BoxTyped' /\ box'.stash = box.stash /\ slot' = slot /\ closed' = closed /\ r \in closed
    BY <1>1 DEF BoxTyped, SeeCancel, ClearActiveUnit, AnswerInv, OrderInv
<1>5. StillKnown
    BY <1>4 DEF StillKnown, Known
<1>6. OrderInv'
    <2>1. \A q \in Runs : Started(q)' <=> Started(q)
        BY <1>2 DEF Started, At
    <2>2. \A q \in Runs : works'[q].pc = "wait" => works[q].pc = "wait"
        BY <1>2
    <2>3. Cancelling' = Cancelling
        BY <1>4 DEF Cancelling
    <2>4. QED
        BY <1>4, <2>1, <2>2, <2>3 DEF OrderInv, AnswerInv, At
<1>7. QED
    BY <1>3, <1>4, <1>5, <1>6, QuietSends, StillKnownKeeps DEF AnswerInv

LEMMA TimeOutKeeps ==
    ASSUME AnswerInv, NEW r \in Runs, slot.run = r, TimeOut(r), RecordInv'
    PROVE  AnswerInv'
<1> USE DEF backendVars, diskVars, panelVars, callVars, historyVars
<1>1. RunTyped /\ BoxTyped
    BY DEF AnswerInv, RecordInv
<1>2. /\ \A q \in Runs : q # r => works'[q] = works[q]
      /\ works'[r].pc = "unit" /\ works[r].pc = "wait"
    BY <1>1, LeavesQuietly DEF TimeOut, At
<1>3. Cancelling' /\ ~Cancelling /\ slot'.run = slot.run /\ closed' = closed
    BY <1>1 DEF TimeOut, RequestCancel, Cancelling, RunTyped, Runs, NoRun
<1>4. RunQuiet(r)
    BY <1>2, <1>3 DEF RunQuiet, TimeOut
<1> DEFINE stash(a) == [run |-> r, unit |-> a.unit, chunk |-> a.chunk,
                        rows |-> Chunk(works[r]).rows]
<1>5. box'.stash = {stash(a) : a \in box.active} /\ box'.active = {}
      /\ {"active", "answer", "stash", "paused"} \subseteq DOMAIN box'
    BY <1>1 DEF TimeOut, StashAbandonedChunk, BoxTyped
<1>6. BoxTyped'
    BY <1>1, <1>5 DEF BoxTyped
<1>7. StillKnown
    <2> SUFFICES ASSUME NEW m, m.run \in Runs, Started(m.run), m.run \notin closed',
                        Known(m, slot, works, box)
                 PROVE  Known(m, slot', works', box')
        BY DEF StillKnown
    <2>1. CASE \E s \in box.stash : Matches(m, s)
        <3>1. slot.run # NoRun
            BY DEF Runs, NoRun
        <3>2. m.run = slot.run
            BY <1>3, <3>1 DEF AnswerInv, OrderInv
        <3>3. Cancelling
            BY <2>1, <3>1, <3>2 DEF AnswerInv, OrderInv, Matches
        <3>4. QED
            BY <1>3, <3>3
    <2>2. CASE slot.run = m.run /\ \E a \in box.active : a.unit = m.unit /\ a.chunk = m.chunk
        <3>1. PICK a \in box.active : a.unit = m.unit /\ a.chunk = m.chunk
            BY <2>2
        <3>2. stash(a) \in box'.stash /\ Matches(m, stash(a))
            BY <1>5, <2>2, <3>1 DEF Matches
        <3>3. QED
            BY <3>2 DEF Known
    <2>3. QED
        BY <2>1, <2>2 DEF Known
<1>8. OrderInv'
    <2>1. \A q \in Runs : Started(q)' <=> Started(q)
        BY <1>2 DEF Started, At
    <2>2. \A q \in Runs : works'[q].pc # "wait"
        BY <1>2 DEF AnswerInv, RecordInv, SlotInv, Lives
    <2>3. QED
        BY <1>3, <2>1, <2>2 DEF OrderInv, AnswerInv, At
<1>9. QED
    BY <1>4, <1>6, <1>7, <1>8, QuietSends, StillKnownKeeps DEF AnswerInv

\* A chunk is sent when nothing of the run is on its way.
LEMMA SendsAlone ==
    ASSUME AnswerInv, NEW r \in Runs, slot.run = r, works[r].pc = "dispatch", ~Cancelling
    PROVE  LiveWire = {} /\ ~LivePanel /\ LiveAcks = {}
<1>1. ASSUME NEW m, m.run \in Runs, Started(m.run), m.run \notin closed
      PROVE  ~Known(m, slot, works, box)
    <2>1. slot.run # NoRun
        BY DEF Runs, NoRun
    <2>2. m.run = r
        BY <1>1, <2>1 DEF AnswerInv, OrderInv
    <2>3. QED
        BY <2>1, <2>2 DEF Known, Matches, AnswerInv, OrderInv
<1>2. LiveWire = {}
    BY <1>1 DEF LiveWire, AnswerInv, MessageInv, SentInv, KnownInv
<1>3. ~LivePanel
    BY <1>1 DEF LivePanel, AnswerInv, MessageInv, SentInv, KnownInv
<1>4. LiveAcks = {}
    BY <1>1 DEF LiveAcks, AnswerInv, MessageInv, SentInv, KnownInv
<1>5. QED
    BY <1>2, <1>3, <1>4

LEMMA SendChunkKeeps ==
    ASSUME AnswerInv, NEW r \in Runs, slot.run = r, SendChunk(r), RecordInv'
    PROVE  AnswerInv'
<1> USE DEF backendVars, diskVars, panelVars, callVars, historyVars
<1>1. RunTyped /\ BoxTyped /\ WireTyped /\ PanelTyped
    BY DEF AnswerInv, RecordInv, MessageInv
<1> DEFINE frame == [run |-> slot.run, unit |-> Unit(works[r]), chunk |-> works[r].chunk,
                     games |-> Chunk(works[r]).games]
           last == Len(wire) + 1
<1>2. works[r].pc = "dispatch" /\ ~Cancelling /\ slot' = slot /\ closed' = closed
      /\ panel' = panel /\ acks' = acks /\ wire' = Append(wire, frame)
    BY DEF SendChunk, At
<1>3. LiveWire = {} /\ ~LivePanel /\ LiveAcks = {}
    BY <1>2, SendsAlone
<1>4. /\ \A q \in Runs : q # r => works'[q] = works[q]
      /\ works'[r].pc = "wait"
    BY <1>1, GoesQuietly DEF SendChunk
<1>5. /\ box'.active = {[unit |-> Unit(works[r]), chunk |-> works[r].chunk]}
      /\ box'.answer = {} /\ box'.stash = box.stash
      /\ {"active", "answer", "stash", "paused"} \subseteq DOMAIN box'
    BY <1>1 DEF SendChunk, BoxTyped
<1>6. BoxTyped'
    BY <1>1, <1>5 DEF BoxTyped
<1>7. \A q \in Runs : Started(q)' <=> Started(q)
    BY <1>2, <1>4 DEF Started, At
<1>8. OrderInv'
    <2>1. \A q \in Runs : works'[q].pc = "wait" => q = r
        BY <1>4 DEF AnswerInv, RecordInv, SlotInv, Lives
    <2>2. ~Cancelling'
        BY <1>2 DEF Cancelling
    <2>3. QED
        BY <1>2, <1>5, <1>7, <2>1, <2>2 DEF OrderInv, AnswerInv, At
<1>9. /\ DOMAIN wire' = DOMAIN wire \cup {last} /\ last \notin DOMAIN wire
      /\ \A i \in DOMAIN wire : wire'[i] = wire[i]
      /\ wire'[last] = frame
      /\ \E S : wire' \in Seq(S)
    <2>1. PICK S : wire \in Seq(S)
        BY <1>1 DEF WireTyped
    <2>2. wire \in Seq(S \cup {frame})
        BY <2>1
    <2>3. wire' \in Seq(S \cup {frame})
        BY <1>2, <2>2
    <2>4. Len(wire) \in Nat /\ DOMAIN wire = 1..Len(wire)
        BY <2>1
    <2>5. Len(wire') = last /\ wire'[last] = frame /\ \A i \in 1..Len(wire) : wire'[i] = wire[i]
        BY <1>2, <2>2
    <2>6. DOMAIN wire' = 1..last
        BY <2>3, <2>5
    <2>7. QED
        BY <2>3, <2>4, <2>5, <2>6
<1>10. WireTyped'
    BY <1>1, <1>9 DEF WireTyped, MessageFields
<1>11. PanelTyped'
    BY <1>1, <1>2 DEF PanelTyped
<1>12. frame.run = r /\ frame.unit = Unit(works[r]) /\ frame.chunk = works[r].chunk
    OBVIOUS
<1>13. SentInv'
    <2>1. \A q \in Runs : Started(q) => works'[q].pc # "none"
        BY <1>7 DEF Started, At
    <2>2. works'[r].pc # "none"
        BY <1>4
    <2>3. \A i \in DOMAIN wire' : wire'[i].run \in Runs /\ works'[wire'[i].run].pc # "none"
        BY <1>9, <1>12, <2>1, <2>2 DEF AnswerInv, MessageInv, SentInv
    <2>4. QED
        BY <1>2, <2>1, <2>3 DEF AnswerInv, MessageInv, SentInv, Applying, Started, At
<1>14. \A i \in DOMAIN wire' : wire'[i].run \notin closed' => i = last
    BY <1>2, <1>3, <1>9 DEF LiveWire
<1>15. ~LivePanel' /\ LiveAcks' = {}
    BY <1>2, <1>3 DEF LivePanel, LiveAcks, Applying
<1>16. OneMessage'
    BY <1>14, <1>15 DEF OneMessage, LiveWire
<1>17. KnownInv'
    <2>1. Known(wire'[last], slot', works', box')
        BY <1>2, <1>4, <1>5, <1>9, <1>12 DEF Known
    <2>2. QED
        BY <1>14, <1>15, <2>1 DEF KnownInv, LivePanel, LiveAcks
<1>18. QED
    BY <1>6, <1>8, <1>10, <1>11, <1>13, <1>16, <1>17 DEF AnswerInv, MessageInv

LEMMA RunKeepsAnswers ==
    ASSUME AnswerInv, NEW r \in Runs, RunStep(r), RecordInv'
    PROVE  AnswerInv'
<1>1. slot.run = r
    BY RunStepLives DEF AnswerInv, RecordInv, SlotInv
<1>2. BusyStep(r) \/ SendChunk(r) \/ TakeAnswer(r) \/ SeeCancel(r) \/ TimeOut(r)
    BY DEF RunStep, BusyStep
<1>3. QED
    BY <1>1, <1>2, BusyKeeps, SendChunkKeeps, TakeAnswerKeeps, SeeCancelKeeps, TimeOutKeeps

-----------------------------------------------------------------------------
(* A run's start and a restart close every run whose messages are on their way. *)

LEMMA ClosedKeeps ==
    ASSUME AnswerInv, NothingSent, \A q \in Runs : Started(q) => q \in closed'
    PROVE  MessageInv'
<1>1. WireTyped' /\ PanelTyped' /\ SentInv' /\ OneMessage'
    BY NothingSentKeeps
<1>2. \A i \in DOMAIN wire' : wire'[i].run \in closed'
    <2>1. CASE wire' = wire
        BY <2>1 DEF AnswerInv, MessageInv, SentInv
    <2>2. CASE wire' = <<>>
        BY <2>2
    <2>3. QED
        BY <2>1, <2>2 DEF NothingSent
<1>3. Applying' => panel'.frame.run \in closed'
    BY DEF NothingSent, PanelStays, AnswerInv, MessageInv, SentInv
<1>4. \A k \in acks' : k.run \in closed'
    BY DEF NothingSent, AnswerInv, MessageInv, SentInv
<1>5. KnownInv'
    BY <1>2, <1>3, <1>4 DEF KnownInv
<1>6. QED
    BY <1>1, <1>5 DEF MessageInv

LEMMA StartKeepsAnswers ==
    ASSUME AnswerInv, NEW r \in Runs, Start(r), RecordInv'
    PROVE  AnswerInv'
<1> USE DEF backendVars, diskVars, panelVars, callVars, historyVars
<1>1. RunTyped /\ BoxTyped
    BY DEF AnswerInv, RecordInv
<1>2. /\ \A q \in Runs : q # r => works'[q] = works[q]
      /\ works'[r].pc = "begun" /\ works[r].pc = "none"
    BY <1>1, GoesQuietly DEF Start, At
<1>3. \A q \in Runs : Started(q)' <=> Started(q) \/ q = r
    BY <1>2 DEF Started, At
<1>4. \A q \in Runs : Started(q) => q \in 1..(r - 1)
    <2> SUFFICES ASSUME NEW q \in Runs, Started(q) PROVE q \in 1..(r - 1)
        OBVIOUS
    <2>1. q # r
        BY <1>2 DEF Started, At
    <2>2. ~(r < q)
        BY <1>2 DEF AnswerInv, OrderInv, Started, At
    <2>3. QED
        BY <2>1, <2>2, LibraryAssumption DEF Runs
<1>5. \A q \in Runs : Started(q) => q \in closed'
    BY <1>4 DEF Start
<1>6. PanelStays
    BY DEF Start, PanelStays, AnswerInv, MessageInv, PanelTyped, Applying
<1>7. NothingSent
    BY <1>3, <1>6 DEF Start, NothingSent
<1>8. BoxTyped' /\ box'.stash = {} /\ slot' = [state |-> "running", run |-> r]
    BY <1>1 DEF Start, TryBeginRun, BoxTyped
<1>9. OrderInv'
    <2>1. \A q \in Runs : q < r => Started(q)
        BY LibraryAssumption DEF Start, Started, Runs
    <2>2. \A p, q \in Runs : p < q /\ Started(q)' => Started(p)'
        BY <1>3, <2>1 DEF AnswerInv, OrderInv
    <2>3. ~Cancelling'
        BY <1>8 DEF Cancelling
    <2>4. QED
        BY <1>3, <1>5, <1>8, <2>2, <2>3 DEF OrderInv
<1>10. QED
    BY <1>5, <1>7, <1>8, <1>9, ClosedKeeps DEF AnswerInv

LEMMA RestartKeepsAnswers ==
    ASSUME AnswerInv, Restart, RecordInv'
    PROVE  AnswerInv'
<1>1. \A q \in Runs : works'[q].pc # "wait" /\ (Started(q)' <=> Started(q))
    BY DEF Restart, Started, At, Lives, Idle
<1>2. closed' = {q \in Runs : Started(q)} /\ acks' = {} /\ wire' = wire
    BY DEF Restart, Started
<1>3. PanelStays
    BY DEF Restart, FreePanel, NoFrame, MessageFields, PanelStays, AnswerInv, MessageInv,
           PanelTyped, Applying
<1>4. NothingSent
    BY <1>1, <1>2, <1>3 DEF NothingSent
<1>5. MessageInv'
    BY <1>2, <1>4, ClosedKeeps
<1>6. BoxTyped' /\ slot'.run = NoRun
    BY DEF Restart, EmptyBox, BoxTyped
<1>7. OrderInv'
    BY <1>1, <1>6 DEF OrderInv, AnswerInv, At
<1>8. QED
    BY <1>5, <1>6, <1>7 DEF AnswerInv

-----------------------------------------------------------------------------
(* The panel. *)

\* The backend, and the runs closed, are as before.
BackendRests ==
    /\ slot' = slot /\ works' = works /\ box' = box /\ closed' = closed

LEMMA BackendRestsKeeps ==
    ASSUME AnswerInv, RecordInv', BackendRests, MessageInv'
    PROVE  AnswerInv'
BY DEF AnswerInv, BackendRests, BoxTyped, OrderInv, Started, At, Cancelling

LEMMA BackendRestsKnows ==
    ASSUME BackendRests
    PROVE  StillKnown /\ \A q \in Runs : (Started(q)' <=> Started(q)) /\ (q \in closed => q \in closed')
BY DEF BackendRests, StillKnown, Started, At

\* The panel takes the first frame of the wire, or drops it.
LEMMA TailShifts ==
    ASSUME WireTyped, wire # <<>>, wire' = Tail(wire)
    PROVE  /\ WireTyped'
           /\ 1 \in DOMAIN wire /\ Head(wire) = wire[1]
           /\ \A i \in DOMAIN wire' : /\ i + 1 \in DOMAIN wire /\ i + 1 # 1
                                      /\ wire'[i] = wire[i + 1]
                                      /\ i \in Nat
<1>1. PICK S : wire \in Seq(S)
    BY DEF WireTyped
<1>2. Len(wire) \in Nat \ {0} /\ DOMAIN wire = 1..Len(wire)
    BY <1>1
<1>3. wire' \in Seq(S) /\ Len(wire') = Len(wire) - 1
    BY <1>1
<1>4. DOMAIN wire' = 1..(Len(wire) - 1)
    BY <1>3
<1>5. \A i \in 1..(Len(wire) - 1) : wire'[i] = wire[i + 1]
    BY <1>1, <1>2
<1>6. Head(wire) = wire[1]
    BY <1>1, <1>2
<1>7. \A i \in DOMAIN wire' : /\ i + 1 \in DOMAIN wire /\ i + 1 # 1
                              /\ wire'[i] = wire[i + 1]
                              /\ i \in Nat
    BY <1>2, <1>4, <1>5
<1>8. WireTyped'
    BY <1>3, <1>7 DEF WireTyped
<1>9. QED
    BY <1>2, <1>6, <1>7, <1>8

LEMMA TakeFrameKeeps ==
    ASSUME AnswerInv, TakeFrame, RecordInv'
    PROVE  AnswerInv'
<1> USE DEF backendVars, diskVars, panelVars, callVars, historyVars
<1>1. BackendRests /\ acks' = acks /\ wire' = Tail(wire) /\ wire # <<>> /\ ~Applying
    BY DEF TakeFrame, BackendRests, Applying
<1>2. panel'.pc = "apply" /\ panel'.frame = Head(wire) /\ {"pc", "frame"} \subseteq DOMAIN panel'
    BY DEF TakeFrame
<1>3. WireTyped /\ SentInv /\ KnownInv /\ OneMessage
    BY DEF AnswerInv, MessageInv
<1>4. /\ WireTyped'
      /\ 1 \in DOMAIN wire /\ Head(wire) = wire[1]
      /\ \A i \in DOMAIN wire' : /\ i + 1 \in DOMAIN wire /\ i + 1 # 1
                                 /\ wire'[i] = wire[i + 1]
                                 /\ i \in Nat
    BY <1>1, <1>3, TailShifts
<1>5. PanelTyped'
    BY <1>2, <1>3, <1>4 DEF PanelTyped, WireTyped
<1>6. SentInv'
    BY <1>1, <1>2, <1>3, <1>4 DEF SentInv, BackendRests, Started, At
<1>7. KnownInv'
    BY <1>1, <1>2, <1>3, <1>4 DEF KnownInv, BackendRests
<1>8. OneMessage'
    <2>1. \A i \in LiveWire' : i + 1 \in LiveWire /\ i + 1 # 1 /\ i \in Nat
        BY <1>1, <1>4 DEF LiveWire, BackendRests
    <2>2. LivePanel' => 1 \in LiveWire
        BY <1>1, <1>2, <1>4 DEF LiveWire, LivePanel, BackendRests
    <2>3. LiveAcks' = LiveAcks
        BY <1>1 DEF LiveAcks, BackendRests
    <2>4. \A i, j \in LiveWire' : i = j
        BY <1>3, <2>1 DEF OneMessage
    <2>5. LivePanel' => LiveWire' = {}
        BY <1>3, <2>1, <2>2 DEF OneMessage
    <2>6. LiveWire' # {} \/ LivePanel' => LiveAcks' = {}
        BY <1>3, <2>1, <2>2, <2>3 DEF OneMessage
    <2>7. QED
        BY <1>3, <2>3, <2>4, <2>5, <2>6 DEF OneMessage
<1>9. QED
    BY <1>1, <1>4, <1>5, <1>6, <1>7, <1>8, BackendRestsKeeps DEF MessageInv

LEMMA DropFrameKeeps ==
    ASSUME AnswerInv, DropFrame, RecordInv'
    PROVE  AnswerInv'
<1> USE DEF backendVars, diskVars, panelVars, callVars, historyVars
<1>1. BackendRests /\ acks' = acks /\ wire' = Tail(wire) /\ wire # <<>> /\ panel' = panel
    BY DEF DropFrame, BackendRests
<1>2. WireTyped /\ PanelTyped /\ SentInv /\ KnownInv /\ OneMessage
    BY DEF AnswerInv, MessageInv
<1>3. /\ WireTyped'
      /\ \A i \in DOMAIN wire' : i + 1 \in DOMAIN wire /\ wire'[i] = wire[i + 1] /\ i \in Nat
    BY <1>1, <1>2, TailShifts
<1>4. PanelTyped' /\ (Applying' <=> Applying)
    BY <1>1, <1>2 DEF PanelTyped, Applying
<1>5. SentInv'
    BY <1>1, <1>2, <1>3 DEF SentInv, BackendRests, Started, At, Applying
<1>6. KnownInv'
    BY <1>1, <1>2, <1>3 DEF KnownInv, BackendRests, Applying
<1>7. OneMessage'
    <2>1. \A i \in LiveWire' : i + 1 \in LiveWire /\ i \in Nat
        BY <1>1, <1>3 DEF LiveWire, BackendRests
    <2>2. LivePanel' = LivePanel /\ LiveAcks' = LiveAcks
        BY <1>1 DEF LivePanel, LiveAcks, BackendRests, Applying
    <2>3. \A i, j \in LiveWire' : i = j
        BY <1>2, <2>1 DEF OneMessage
    <2>4. QED
        BY <1>2, <2>1, <2>2, <2>3 DEF OneMessage
<1>8. QED
    BY <1>1, <1>3, <1>4, <1>5, <1>6, <1>7, BackendRestsKeeps DEF MessageInv

\* At a game of its chunk, the panel is still at the chunk.
LEMMA AtGameKeeps ==
    ASSUME AnswerInv, RecordInv',
           UpdateShortcut \/ AdoptOrphan \/ CreateShortcut \/ CreateFails
    PROVE  AnswerInv'
<1> USE DEF backendVars, diskVars, panelVars, callVars, historyVars
<1>1. BackendRests /\ acks' = acks /\ wire' = wire
    BY DEF UpdateShortcut, AdoptOrphan, CreateShortcut, CreateFails, BackendRests
<1>2. PanelTyped
    BY DEF AnswerInv, MessageInv
<1>3. Applying
    BY DEF UpdateShortcut, AdoptOrphan, CreateShortcut, CreateFails, Creates, AtGame, Applying
<1>4. /\ panel'.pc = panel.pc
      /\ panel'.frame = [panel.frame EXCEPT !.games = Tail(@)]
      /\ {"pc", "frame"} \subseteq DOMAIN panel'
    <2>1. CASE \E c : panel' = Resolved(c)
        BY <1>2, <2>1 DEF Resolved, PanelTyped
    <2>2. CASE \E c, s : panel' = [Resolved(c) EXCEPT !.scan.pool = @ \ {s}]
        BY <1>2, <2>2 DEF Resolved, PanelTyped
    <2>3. CASE panel' = [panel EXCEPT !.frame.games = Tail(@)]
        BY <1>2, <2>3 DEF PanelTyped
    <2>4. QED
        BY <2>1, <2>2, <2>3 DEF UpdateShortcut, AdoptOrphan, CreateShortcut, CreateFails
<1>5. PanelStays
    BY <1>2, <1>3, <1>4 DEF PanelStays, PanelTyped, MessageFields, Applying
<1>6. NothingSent /\ StillKnown
    BY <1>1, <1>5, BackendRestsKnows DEF NothingSent
<1>7. QED
    BY <1>1, <1>6, StillKnownKeeps, BackendRestsKeeps

LEMMA ReloadKeeps ==
    ASSUME AnswerInv, RecordInv', Reload
    PROVE  AnswerInv'
<1> USE DEF backendVars, diskVars, panelVars, callVars, historyVars
<1>1. BackendRests /\ acks' = acks /\ wire' = <<>>
    BY DEF Reload, BackendRests
<1>2. PanelStays
    BY DEF Reload, FreshPanel, NoFrame, PanelStays, PanelTyped, MessageFields, Applying
<1>3. NothingSent /\ StillKnown
    BY <1>1, <1>2, BackendRestsKnows DEF NothingSent
<1>4. QED
    BY <1>1, <1>3, StillKnownKeeps, BackendRestsKeeps

\* The panel's answer takes the place of the frame it answers.
LEMMA EndFrameKeeps ==
    ASSUME AnswerInv, RecordInv', EndFrame
    PROVE  AnswerInv'
<1> USE DEF backendVars, diskVars, panelVars, callVars, historyVars
<1>1. BackendRests /\ wire' = wire /\ Applying
    BY DEF EndFrame, BackendRests, Applying
<1>2. WireTyped /\ PanelTyped /\ SentInv /\ KnownInv /\ OneMessage
    BY DEF AnswerInv, MessageInv
<1>3. CASE panel.cancel
    <2>1. PanelStays
        <3>1. panel' = FreePanel
            BY <1>3 DEF EndFrame
        <3>2. panel'.pc = "free" /\ panel'.frame = NoFrame /\ {"pc", "frame"} \subseteq DOMAIN panel'
            BY <1>2, <3>1 DEF FreePanel, PanelTyped
        <3>3. QED
            BY <3>2 DEF NoFrame, PanelStays, PanelTyped, MessageFields, Applying
    <2>2. NothingSent /\ StillKnown
        BY <1>1, <1>3, <2>1, BackendRestsKnows DEF EndFrame, NothingSent
    <2>3. QED
        BY <1>1, <2>2, StillKnownKeeps, BackendRestsKeeps
<1>4. CASE ~panel.cancel
    <2> DEFINE answer == [run |-> panel.frame.run, unit |-> panel.frame.unit,
                          chunk |-> panel.frame.chunk, app |-> panel.app]
    <2>1. acks' = acks \cup {answer} /\ panel' = [panel EXCEPT !.pc = "acking", !.app = NoApps]
        BY <1>4 DEF EndFrame
    <2>2. /\ answer.run = panel.frame.run /\ answer.unit = panel.frame.unit
          /\ answer.chunk = panel.frame.chunk
        OBVIOUS
    <2>3. PanelTyped' /\ ~Applying'
        BY <1>2, <2>1 DEF PanelTyped, Applying
    <2>4. WireTyped'
        BY <1>1, <1>2 DEF WireTyped
    <2>5. SentInv'
        BY <1>1, <1>2, <2>1, <2>2, <2>3 DEF SentInv, BackendRests, Started, At
    <2>6. KnownInv'
        <3>1. panel.frame.run \notin closed => Known(answer, slot, works, box)
            BY <1>1, <1>2, <2>2 DEF KnownInv, Known, Matches
        <3>2. QED
            BY <1>1, <1>2, <2>1, <2>2, <2>3, <3>1 DEF KnownInv, BackendRests
    <2>7. OneMessage'
        <3>1. LiveWire' = LiveWire /\ ~LivePanel'
            BY <1>1, <2>3 DEF LiveWire, LivePanel, BackendRests
        <3>2. CASE LivePanel
            <4>1. LiveWire = {} /\ LiveAcks = {}
                BY <1>2, <3>2 DEF OneMessage
            <4>2. LiveAcks' \subseteq {answer}
                BY <1>1, <2>1, <4>1 DEF LiveAcks, BackendRests
            <4>3. QED
                BY <3>1, <4>1, <4>2 DEF OneMessage
        <3>3. CASE ~LivePanel
            <4>1. LiveAcks' = LiveAcks
                BY <1>1, <2>1, <2>2, <3>3 DEF LiveAcks, LivePanel, BackendRests
            <4>2. QED
                BY <1>2, <3>1, <4>1 DEF OneMessage
        <3>4. QED
            BY <3>2, <3>3
    <2>8. QED
        BY <1>1, <2>3, <2>4, <2>5, <2>6, <2>7, BackendRestsKeeps DEF MessageInv
<1>5. QED
    BY <1>3, <1>4

LEMMA PanelKeepsAnswers ==
    ASSUME AnswerInv, PanelStep, RecordInv'
    PROVE  AnswerInv'
BY TakeFrameKeeps, DropFrameKeeps, AtGameKeeps, EndFrameKeeps, ReloadKeeps DEF PanelStep

-----------------------------------------------------------------------------
(* The calls, and what comes from outside. *)

LEMMA AnsweredStays ==
    ASSUME AnswerInv, NEW k, Answered(k)
    PROVE  PanelStays
BY DEF AnswerInv, MessageInv, Answered, FreePanel, NoFrame, PanelStays, PanelTyped,
       MessageFields, Applying

LEMMA LateCommitKeeps ==
    ASSUME AnswerInv, NEW j \in late, LateCommit(j), RecordInv'
    PROVE  AnswerInv'
<1> USE DEF backendVars, diskVars, panelVars, callVars, historyVars
<1>1. BackendRests /\ acks' = acks /\ wire' = wire
    BY DEF LateCommit, BackendRests
<1>2. PanelStays
    BY AnsweredStays DEF LateCommit
<1>3. NothingSent /\ StillKnown
    BY <1>1, <1>2, BackendRestsKnows DEF NothingSent
<1>4. QED
    BY <1>1, <1>3, StillKnownKeeps, BackendRestsKeeps

LEMMA OutsideKeeps ==
    ASSUME AnswerInv, PressCancel \/ RommChanges \/ ClearSyncCache \/ UNCHANGED vars, RecordInv'
    PROVE  AnswerInv'
<1> USE DEF backendVars, diskVars, panelVars, callVars, historyVars, vars
<1>1. BackendRests /\ acks' = acks /\ wire' = wire
      /\ (panel' = panel \/ panel' = [panel EXCEPT !.cancel = TRUE])
    BY DEF PressCancel, RommChanges, ClearSyncCache, BackendRests
<1>2. PanelStays
    BY <1>1 DEF AnswerInv, MessageInv, PanelStays, PanelTyped, Applying
<1>3. NothingSent /\ StillKnown
    BY <1>1, <1>2, BackendRestsKnows DEF NothingSent
<1>4. QED
    BY <1>1, <1>3, StillKnownKeeps, BackendRestsKeeps

\* A cancel that takes effect closes the run in the slot.
LEMMA CancelKeepsAnswers ==
    ASSUME AnswerInv, NEW id \in cancels, DeliverCancel(id), RecordInv'
    PROVE  AnswerInv'
<1> USE DEF backendVars, diskVars, panelVars, callVars, historyVars
<1>1. RunTyped /\ BoxTyped
    BY DEF AnswerInv, RecordInv
<1>2. /\ works' = works /\ box' = box /\ acks' = acks /\ wire' = wire /\ panel' = panel
      /\ slot'.run = slot.run /\ closed \subseteq closed'
      /\ Cancelling => Cancelling'
      /\ slot' = slot \/ slot.run \in closed'
    BY <1>1 DEF DeliverCancel, RequestCancel, RunTyped, Cancelling
<1>3. PanelStays
    BY <1>2 DEF AnswerInv, MessageInv, PanelStays, PanelTyped, Applying
<1>4. \A q \in Runs : Started(q)' <=> Started(q)
    BY <1>2 DEF Started, At
<1>5. NothingSent
    BY <1>2, <1>3, <1>4 DEF NothingSent
<1>6. StillKnown
    BY <1>2 DEF StillKnown, Known
<1>7. OrderInv'
    <2>1. \A r \in Runs : At(r, "wait") => slot.run = r
        BY DEF AnswerInv, RecordInv, SlotInv, Lives, At
    <2>2. \A r \in Runs : At(r, "wait")' /\ Cancelling' => r \in closed'
        BY <1>2, <2>1 DEF At, Cancelling, AnswerInv, OrderInv
    <2>3. QED
        BY <1>2, <1>4, <2>2 DEF AnswerInv, OrderInv
<1>8. BoxTyped'
    BY <1>1, <1>2 DEF BoxTyped
<1>9. QED
    BY <1>5, <1>6, <1>7, <1>8, StillKnownKeeps DEF AnswerInv

\* An answer of a run that still wants it is the only message on its way: with
\* it, the backend may forget the chunk.
LEMMA ReportKeeps ==
    ASSUME AnswerInv, NEW k \in acks, ReportUnitResults(k), RecordInv'
    PROVE  AnswerInv'
<1> USE DEF backendVars, diskVars, panelVars, callVars, historyVars
<1> DEFINE abandoned == {s \in box.stash : Matches(k, s)}
<1>1. BoxTyped /\ OneMessage /\ SentInv /\ KnownInv
    BY DEF AnswerInv, MessageInv
<1>2. /\ slot' = slot /\ works' = works /\ wire' = wire /\ acks' = acks \ {k} /\ closed' = closed
    BY DEF ReportUnitResults
<1>3. box' = [box EXCEPT !.answer = {k}] \/ box' = [box EXCEPT !.stash = {}] \/ box' = box
    BY DEF ReportUnitResults
<1>4. PanelStays
    <2>1. Answered(k) \/ panel' = panel
        BY DEF ReportUnitResults
    <2>2. CASE panel' = panel
        BY <2>2 DEF AnswerInv, MessageInv, PanelStays, PanelTyped, Applying
    <2>3. QED
        BY <2>1, <2>2, AnsweredStays
<1>5. \A q \in Runs : Started(q)' <=> Started(q)
    BY <1>2 DEF Started, At
<1>6. NothingSent
    BY <1>2, <1>4, <1>5 DEF NothingSent
<1>7. BoxTyped'
    BY <1>1, <1>3 DEF BoxTyped
<1>8. box'.stash \subseteq box.stash
    BY <1>1, <1>3 DEF BoxTyped
<1>9. OrderInv'
    BY <1>2, <1>5, <1>8 DEF AnswerInv, OrderInv, Cancelling, At
<1>10. \A m : /\ m.run \notin closed /\ Known(m, slot, works, box)
              /\ k.run \in closed \/ box' = box
              => Known(m, slot', works', box')
    <2> SUFFICES ASSUME NEW m, m.run \notin closed, Known(m, slot, works, box),
                        k.run \in closed, box' # box
                 PROVE  Known(m, slot', works', box')
        BY <1>2
    <2>1. CASE AckMatchesActiveUnit(k)
        <3>1. k.run = slot.run
            BY <2>1 DEF AckMatchesActiveUnit, Matches
        <3>2. \E s \in box.stash : Matches(m, s)
            BY <3>1 DEF Known
        <3>3. box'.stash = box.stash
            BY <1>1, <2>1 DEF ReportUnitResults, BoxTyped
        <3>4. QED
            BY <3>2, <3>3 DEF Known
    <2>2. CASE ~AckMatchesActiveUnit(k)
        <3>1. box' = [box EXCEPT !.stash = {}] /\ abandoned # {}
            BY <2>2 DEF ReportUnitResults
        <3>2. box'.answer = box.answer /\ box'.active = box.active
            BY <1>1, <3>1 DEF BoxTyped
        <3>3. \A s \in box.stash : ~Matches(m, s)
            BY <1>1, <3>1 DEF BoxTyped, Matches
        <3>4. QED
            BY <1>2, <3>2, <3>3 DEF Known
    <2>3. QED
        BY <2>1, <2>2
<1>11. CASE k.run \in closed
    <2>1. StillKnown
        BY <1>2, <1>10, <1>11 DEF StillKnown
    <2>2. QED
        BY <1>6, <1>7, <1>9, <2>1, StillKnownKeeps DEF AnswerInv
<1>12. CASE k.run \notin closed
    <2>1. LiveAcks = {k} /\ LiveWire = {} /\ ~LivePanel
        BY <1>1, <1>12 DEF OneMessage, LiveAcks
    <2>2. WireTyped' /\ PanelTyped' /\ SentInv' /\ OneMessage'
        BY <1>6, NothingSentKeeps
    <2>3. KnownInv'
        <3>1. \A i \in DOMAIN wire' : wire'[i].run \in closed'
            BY <1>2, <2>1 DEF LiveWire
        <3>2. ~LivePanel'
            BY <1>2, <1>4, <2>1 DEF LivePanel, PanelStays
        <3>3. \A l \in acks' : l.run \in closed'
            BY <1>2, <2>1 DEF LiveAcks
        <3>4. QED
            BY <3>1, <3>2, <3>3 DEF KnownInv, LivePanel
    <2>4. QED
        BY <1>7, <1>9, <2>2, <2>3 DEF AnswerInv, MessageInv
<1>13. QED
    BY <1>11, <1>12

-----------------------------------------------------------------------------
(* The invariant, and the answers. *)

LEMMA AnswerStep == AnswerInv /\ [Next]_vars => AnswerInv'
<1> SUFFICES ASSUME AnswerInv, [Next]_vars PROVE AnswerInv'
    OBVIOUS
<1>1. RecordInv'
    BY RecordStep DEF AnswerInv
<1>2. CASE \E r \in Runs : Start(r)
    BY <1>1, <1>2, StartKeepsAnswers
<1>3. CASE \E r \in Runs : RunStep(r)
    BY <1>1, <1>3, RunKeepsAnswers
<1>4. CASE PanelStep
    BY <1>1, <1>4, PanelKeepsAnswers
<1>5. CASE CallStep
    <2>1. CASE \E k \in acks : ReportUnitResults(k)
        BY <1>1, <2>1, ReportKeeps
    <2>2. CASE \E j \in late : LateCommit(j)
        BY <1>1, <2>2, LateCommitKeeps
    <2>3. CASE \E id \in cancels : DeliverCancel(id)
        BY <1>1, <2>3, CancelKeepsAnswers
    <2>4. CASE PressCancel
        BY <1>1, <2>4, OutsideKeeps
    <2>5. QED
        BY <1>5, <2>1, <2>2, <2>3, <2>4 DEF CallStep
<1>6. CASE Restart
    BY <1>1, <1>6, RestartKeepsAnswers
<1>7. CASE RommChanges \/ ClearSyncCache \/ UNCHANGED vars
    BY <1>1, <1>7, OutsideKeeps
<1>8. QED
    BY <1>2, <1>3, <1>4, <1>5, <1>6, <1>7 DEF Next

\* What is on its way of a run that still wants it is known to the backend and
\* alone (the box's dispatch identity and its stash of the abandoned chunk).
THEOREM AnswerInvariant == Spec => []AnswerInv
<1>1. QED
    BY AnswerInit, AnswerStep, PTL DEF Spec

\* The answers that one step takes off the wire.
AnswersTaken ==
    \A k \in acks \ acks' :
        \/ k \in box'.answer
        \/ \E j \in late' : Matches(j, k) /\ j.app = k.app
        \/ k.run \in closed'

LEMMA ReportIsKept ==
    ASSUME AnswerInv, NEW k \in acks, ReportUnitResults(k)
    PROVE  AnswersTaken
<1> DEFINE abandoned == {s \in box.stash : Matches(k, s)}
           held(s) == [run |-> s.run, unit |-> s.unit, chunk |-> s.chunk, rows |-> s.rows,
                       app |-> k.app]
<1>1. acks \ acks' \subseteq {k} /\ closed' = closed
    BY DEF ReportUnitResults, historyVars
<1>2. CASE AckMatchesActiveUnit(k)
    <2>1. box' = [box EXCEPT !.answer = {k}]
        BY <1>2 DEF ReportUnitResults
    <2>2. k \in box'.answer
        BY <2>1 DEF AnswerInv, BoxTyped
    <2>3. QED
        BY <1>1, <2>2 DEF AnswersTaken
<1>3. CASE ~AckMatchesActiveUnit(k) /\ abandoned # {}
    <2>1. late' = late \cup {held(s) : s \in abandoned}
        BY <1>3 DEF ReportUnitResults
    <2>2. PICK s \in abandoned : Matches(k, s)
        BY <1>3
    <2>3. held(s) \in late' /\ Matches(held(s), k) /\ held(s).app = k.app
        BY <2>1, <2>2 DEF Matches
    <2>4. QED
        BY <1>1, <2>3 DEF AnswersTaken
<1>4. CASE ~AckMatchesActiveUnit(k) /\ abandoned = {}
    <2>1. ~Known(k, slot, works, box)
        BY <1>4 DEF Known, AckMatchesActiveUnit, Matches
    <2>2. k.run \in closed
        BY <2>1 DEF AnswerInv, MessageInv, KnownInv
    <2>3. QED
        BY <1>1, <2>2 DEF AnswersTaken
<1>5. QED
    BY <1>2, <1>3, <1>4

LEMMA AnswersStep == AnswerInv /\ [Next]_vars => AnswersTaken
<1> SUFFICES ASSUME AnswerInv, [Next]_vars PROVE AnswersTaken
    OBVIOUS
<1> USE DEF backendVars, diskVars, panelVars, callVars, historyVars
<1>1. CASE \E k \in acks : ReportUnitResults(k)
    BY <1>1, ReportIsKept
<1>2. CASE Restart
    BY <1>2 DEF Restart, AnswersTaken, AnswerInv, MessageInv, SentInv, Started
<1>3. CASE acks \subseteq acks'
    BY <1>3 DEF AnswersTaken
<1>4. CASE \E r \in Runs : Start(r)
    BY <1>3, <1>4 DEF Start
<1>5. CASE \E r \in Runs : RunStep(r)
    <2>1. acks' = acks
        BY <1>5
        DEF RunStep, Begin, Plan, PlanFails, OpenRun, EndUnits, SkipUnit, FetchUnit, Classify,
            BeginApply, StopAtChunk, PauseForBudget, SendChunk, TakeAnswer, SeeCancel, TimeOut,
            CommitChunk, Raise, RecordTerminalStatus, MarkErrored, Finish
    <2>2. QED
        BY <1>3, <2>1
<1>6. CASE PanelStep
    <2>1. acks \subseteq acks'
        BY <1>6
        DEF PanelStep, TakeFrame, DropFrame, UpdateShortcut, AdoptOrphan, CreateShortcut,
            CreateFails, EndFrame, Reload
    <2>2. QED
        BY <1>3, <2>1
<1>7. CASE \/ \E j \in late : LateCommit(j)
           \/ \E id \in cancels : DeliverCancel(id)
           \/ PressCancel \/ RommChanges \/ ClearSyncCache \/ UNCHANGED vars
    BY <1>3, <1>7 DEF LateCommit, DeliverCancel, PressCancel, RommChanges, ClearSyncCache, vars
<1>8. QED
    BY <1>1, <1>2, <1>4, <1>5, <1>6, <1>7 DEF Next, CallStep

\* An answer the backend receives is committed or held for the commit, unless
\* its run was cancelled, followed by another or lost to a restart
\* (report_unit_results in reporter.py).
THEOREM AnswersAreKept == Spec => AckIsKept
<1>1. AnswerInv /\ [Next]_vars =>
          [\A k \in acks \ acks' :
              \/ k \in box'.answer
              \/ \E j \in late' : Matches(j, k) /\ j.app = k.app
              \/ k.run \in closed']_vars
    BY AnswersStep DEF AnswersTaken
<1>2. QED
    BY <1>1, AnswerInvariant, PTL DEF Spec, AckIsKept
=============================================================================
