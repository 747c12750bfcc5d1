------------------------- MODULE LibraryRowsProofs -------------------------
(***************************************************************************)
(* Proof that what the rows, the stamps and Steam hold after any library   *)
(* runs can be relied on: a stamped platform is whole, a commit finds what *)
(* it was staged, and a game has one shortcut, for any platforms, games    *)
(* and chunks and any number of runs and of things that go wrong.          *)
(***************************************************************************)
EXTENDS LibrarySyncProofs

-----------------------------------------------------------------------------
ChunkGames(w) == Elems(Chunk(w).games)

\* Of the chunk's games, each is had or could not be created.
Covers(w, have) == ChunkGames(w) \subseteq have \cup failed

\* What comes of the chunk a run waits for covers it: the frame, the games left
\* at the panel with those it resolved, and the answer; and so does the answer
\* the run commits.
CoverInv ==
    \A r \in Runs :
        /\ At(r, "wait") =>
              /\ \A i \in DOMAIN wire : wire[i].run = r => Covers(works[r], Elems(wire[i].games))
              /\ Applying /\ panel.frame.run = r =>
                    Covers(works[r], Elems(panel.frame.games) \cup DOMAIN panel.app)
              /\ \A k \in acks : k.run = r => Covers(works[r], DOMAIN k.app)
              /\ \A k \in box.answer : Covers(works[r], DOMAIN k.app)
        /\ At(r, "commit") => Covers(works[r], DOMAIN works[r].answer)

\* The run in the slot is closed by a cancel only.
ClosedInv ==
    /\ \A r \in Runs : r \in closed => Started(r)
    /\ slot.run # NoRun => Started(slot.run) /\ (slot.run \in closed => Cancelling)

-----------------------------------------------------------------------------
HasShortcut(g) == rows[g].app # 0

\* The games of the first n platforms of the queue.
GamesBefore(n) == UNION {Listed(p) : p \in Before(n)}

\* A run's generation is on games it is done with, or fetched for its unit;
GensOf(r) ==
    works[r].pc \in Working => \A g \in Games : rows[g].gen = r =>
        \/ g \in GamesBefore(works[r].at - 1)
        \/ works[r].pc \in Sending /\ g \in works[r].fetched

\* the games it does not send have their shortcut;
UnsentOf(r) ==
    works[r].pc \in {"clear"} \cup Sending => \A c \in DOMAIN works[r].chunks :
        \A g \in works[r].chunks[c].rows \ Elems(works[r].chunks[c].games) : HasShortcut(g)

\* the chunks it committed are on record;
CommittedOf(r) ==
    works[r].pc \in Sending => \A c \in 1..(works[r].chunk - 1) : \A g \in works[r].chunks[c].rows :
        rows[g].here /\ rows[g].gen = r /\ (HasShortcut(g) \/ g \in failed)

\* its unit is staged, and stamped by nobody.
UnitOpen(r) ==
    works[r].pc \in Sending =>
        /\ box.staging = {[run |-> r, unit |-> Unit(works[r]), games |-> works[r].fetched]}
        /\ stamp[Unit(works[r])] = NoStamp

RowsOf(r) == GensOf(r) /\ UnsentOf(r) /\ CommittedOf(r) /\ UnitOpen(r)

RowInv ==
    /\ \A g \in Games : rows[g].gen # NoRun => rows[g].here
    /\ \A r \in Runs : RowsOf(r)
    /\ GenerationsHonest /\ SkipIsSafe

-----------------------------------------------------------------------------
Staged(r) == UNION {s.games : s \in {t \in box.staging : t.run = r}}

\* An abandoned chunk and a late answer are of a run that started; while it has
\* the slot it is being cancelled and sends nothing more, and until its answers
\* do not count its rows are staged.
HeldInv ==
    \A s \in box.stash \cup late :
        /\ s.run \in Runs /\ Started(s.run)
        /\ s.run = slot.run => Cancelling /\ works[s.run].pc \in {"unit", "final", "errored", "finish"}
        /\ s.run \notin closed => s.rows \subseteq Staged(s.run)

-----------------------------------------------------------------------------
(* What TypeOK says follows. *)

LEMMA AtMostOne ==
    ASSUME NEW S, \A x, y \in S : x = y
    PROVE  Cardinality(S) <= 1
<1>1. CASE S = {}
    BY <1>1, FS_EmptySet
<1>2. CASE S # {}
    <2>1. PICK x \in S : TRUE
        BY <1>2
    <2>2. S = {x}
        BY <2>1
    <2>3. QED
        BY <2>2, FS_Singleton
<1>3. QED
    BY <1>1, <1>2

LEMMA ShapeIsTypeOK == AnswerInv /\ ShapeInv => TypeOK
<1> SUFFICES ASSUME AnswerInv, ShapeInv PROVE TypeOK
    OBVIOUS
<1>1. RunTyped /\ BoxTyped /\ WorksInv /\ BoxInv /\ DiskInv /\ PassingInv
    BY DEF AnswerInv, RecordInv, ShapeInv
<1>2. slot \in [state : {"idle", "running", "cancelling"}, run : {NoRun} \cup Runs]
      /\ (slot.state = "idle" <=> slot.run = NoRun) /\ runRow \in [Runs -> Statuses]
    BY <1>1 DEF RunTyped
<1>3. \A r \in Runs : works[r].pc \in Pcs /\ works[r].answer \in Apps
    BY <1>1 DEF WorksInv, Work
<1>4. \A part \in {box.staging, box.active, box.answer, box.stash} : Cardinality(part) <= 1
    BY <1>1, AtMostOne DEF BoxTyped, BoxInv
<1>5. rows \in [Games -> [here : BOOLEAN, app : 0..Copies, applied : BOOLEAN, gen : {NoRun} \cup Runs]]
      /\ stamp \in [Platforms -> [gen : {NoRun} \cup Runs, ids : SUBSET Games]]
    BY <1>1 DEF DiskInv, Row, Stamp, AnyRun
<1>6. panel.pc \in {"free", "apply", "acking"} /\ steam \subseteq Shortcuts /\ served \subseteq Games
    BY <1>1 DEF PassingInv, Panel
<1>7. QED
    BY <1>2, <1>3, <1>4, <1>5, <1>6 DEF TypeOK

-----------------------------------------------------------------------------
(* Closed runs. *)

LEMMA ClosedStep == AnswerInv /\ ClosedInv /\ [Next]_vars => ClosedInv'
<1> SUFFICES ASSUME AnswerInv, ClosedInv, [Next]_vars PROVE ClosedInv'
    OBVIOUS
<1> USE DEF backendVars, diskVars, panelVars, callVars, historyVars
<1>1. RunTyped /\ SlotInv /\ OrderInv
    BY DEF AnswerInv, RecordInv
<1>a. slot.run # NoRun => slot.run \in Runs
    BY <1>1 DEF RunTyped
<1>2. CASE \E r \in Runs : Start(r)
    <2>1. PICK r \in Runs : Start(r)
        BY <1>2
    <2>2. /\ works[r].pc = "none" /\ closed' = closed \cup 1..(r - 1)
          /\ \A q \in 1..(r - 1) : ~At(q, "none")
          /\ works'[r].pc = "begun" /\ slot'.run = r
        BY <1>1, <2>1 DEF Start, At, TryBeginRun, Goto, RunTyped
    <2>3. \A q \in Runs : Started(q) => Started(q)'
        BY <1>1, <2>1, <2>2 DEF Start, Goto, Started, At, RunTyped
    <2>4. r \notin closed /\ r \notin 1..(r - 1)
        BY <2>2 DEF ClosedInv, Started, At, Runs
    <2>5. \A q \in Runs : q \in closed' => Started(q)'
        BY <2>2, <2>3 DEF ClosedInv, Started
    <2>6. Started(r)'
        BY <2>2 DEF Started, At
    <2>7. QED
        BY <2>2, <2>4, <2>5, <2>6 DEF ClosedInv
<1>3. CASE \E r \in Runs : RunStep(r)
    <2>1. PICK r \in Runs : RunStep(r)
        BY <1>3
    <2>2. slot.run = r
        BY <1>1, <2>1, RunStepLives DEF SlotInv
    <2>3. CASE BusyStep(r)
        <3>1. RunQuiet(r) /\ (Cancelling => Cancelling' \/ slot'.run = NoRun)
            BY <2>2, <2>3, BusyIsQuiet
        <3>2. \A q \in Runs : Started(q) => Started(q)'
            BY <3>1 DEF RunQuiet, Started, At
        <3>3. QED
            BY <2>2, <3>1, <3>2 DEF RunQuiet, ClosedInv
    <2>4. CASE SendChunk(r) \/ TakeAnswer(r) \/ SeeCancel(r)
        <3>1. \A q \in Runs : Started(q) => Started(q)'
            <4>1. CASE SendChunk(r)
                BY <1>1, <4>1 DEF SendChunk, Goto, Started, At, RunTyped
            <4>2. CASE TakeAnswer(r)
                BY <1>1, <4>2 DEF TakeAnswer, Started, At, RunTyped
            <4>3. CASE SeeCancel(r)
                BY <1>1, <4>3, LeavesQuietly DEF SeeCancel, Started, At
            <4>4. QED
                BY <2>4, <4>1, <4>2, <4>3
        <3>2. closed' = closed /\ slot' = slot
            BY <2>4 DEF SendChunk, TakeAnswer, SeeCancel
        <3>3. QED
            BY <1>a, <3>1, <3>2 DEF ClosedInv, Cancelling
    <2>5. CASE TimeOut(r)
        <3>1. closed' = closed /\ slot'.state = "cancelling" /\ slot'.run = slot.run
            BY <1>1, <2>2, <2>5 DEF TimeOut, RequestCancel, RunTyped, Runs, NoRun
        <3>2. \A q \in Runs : Started(q) => Started(q)'
            BY <1>1, <2>5, LeavesQuietly DEF TimeOut, Started, At
        <3>3. QED
            BY <1>a, <3>1, <3>2 DEF ClosedInv, Cancelling
    <2>6. QED
        BY <2>1, <2>3, <2>4, <2>5 DEF RunStep, BusyStep
<1>4. CASE PanelStep
    BY <1>4, PanelLeaves DEF ClosedInv, Started, At, Cancelling
<1>5. CASE \/ \E k \in acks : ReportUnitResults(k)
           \/ \E j \in late : LateCommit(j)
           \/ PressCancel \/ RommChanges \/ ClearSyncCache \/ UNCHANGED vars
    <2>1. slot' = slot /\ works' = works /\ closed' = closed
        BY <1>5 DEF ReportUnitResults, LateCommit, PressCancel, RommChanges, ClearSyncCache, vars
    <2>2. QED
        BY <2>1 DEF ClosedInv, Started, At, Cancelling
<1>6. CASE \E id \in cancels : DeliverCancel(id)
    <2>1. PICK id \in cancels : DeliverCancel(id)
        BY <1>6
    <2>2. works' = works /\ closed' = closed \cup (IF slot' = slot THEN {} ELSE {slot.run})
          /\ RequestCancel(id)
        BY <2>1 DEF DeliverCancel
    <2>3. CASE slot' = slot
        BY <2>2, <2>3 DEF ClosedInv, Started, At, Cancelling
    <2>4. CASE slot' # slot
        <3>1. Cancelling' /\ slot'.run = slot.run /\ slot.run # NoRun /\ slot.run \in Runs
            BY <1>1, <2>2, <2>4 DEF RequestCancel, Cancelling, RunTyped
        <3>2. Started(slot.run)
            BY <3>1 DEF ClosedInv
        <3>3. QED
            BY <2>2, <3>1, <3>2 DEF ClosedInv, Started, At
    <2>5. QED
        BY <2>3, <2>4
<1>7. CASE Restart
    <2>1. closed' = {r \in Runs : ~At(r, "none")} /\ slot'.run = NoRun
          /\ works' = [r \in Runs |-> IF Lives(r) THEN [Idle EXCEPT !.pc = "dead"] ELSE works[r]]
        BY <1>7 DEF Restart
    <2>2. \A r \in Runs : Started(r) => Started(r)'
        BY <2>1, IdleIs DEF Started, At, Work
    <2>3. QED
        BY <2>1, <2>2 DEF ClosedInv, Started
<1>8. QED
    BY <1>2, <1>3, <1>4, <1>5, <1>6, <1>7 DEF Next, CallStep

-----------------------------------------------------------------------------
(* What comes of a chunk covers it. *)

LEMMA CoverInit == Init => CoverInv
BY DEF Init, CoverInv, At, Idle

LEMMA ClosedInit == Init => ClosedInv
BY DEF Init, ClosedInv, NoRun

\* No run has a chunk sent or answered.
NoneSent == \A q \in Runs : works'[q].pc \notin {"wait", "commit"}

LEMMA NoneSentCovers == NoneSent => CoverInv'
BY DEF NoneSent, CoverInv, At

\* Only the run in the slot has.
LEMMA OnlyOneSends ==
    ASSUME SlotInv, NEW r \in Runs, slot.run = r, Others(r),
           works'[r].pc \notin {"wait", "commit"}
    PROVE  NoneSent
BY DEF SlotInv, Others, NoneSent, Lives

\* A frame, an answer or what the panel holds comes of another one.
Passed(run, have) ==
    \/ \E i \in DOMAIN wire : wire[i].run = run /\ Elems(wire[i].games) \subseteq have \cup failed'
    \/ /\ Applying /\ panel.frame.run = run
       /\ Elems(panel.frame.games) \cup DOMAIN panel.app \subseteq have \cup failed'
    \/ \E k \in acks : k.run = run /\ DOMAIN k.app \subseteq have \cup failed'

AllPassed ==
    /\ works' = works /\ failed \subseteq failed'
    /\ \A i \in DOMAIN wire' : Passed(wire'[i].run, Elems(wire'[i].games))
    /\ Applying' => Passed(panel'.frame.run, Elems(panel'.frame.games) \cup DOMAIN panel'.app)
    /\ \A k \in acks' : Passed(k.run, DOMAIN k.app)
    /\ \A k \in box'.answer : k \in box.answer \/ Passed(slot.run, DOMAIN k.app)

LEMMA PassedCovers ==
    ASSUME CoverInv, works' = works, failed \subseteq failed',
           NEW r \in Runs, At(r, "wait"), NEW have, Passed(r, have)
    PROVE  Covers(works[r], have)'
BY DEF CoverInv, Passed, Covers, ChunkGames, Chunk

LEMMA PassingCovers ==
    ASSUME CoverInv, SlotInv, AllPassed
    PROVE  CoverInv'
<1> SUFFICES ASSUME NEW r \in Runs
             PROVE  /\ At(r, "wait")' =>
                          /\ \A i \in DOMAIN wire' : wire'[i].run = r =>
                                Covers(works[r], Elems(wire[i].games))'
                          /\ Applying' /\ panel'.frame.run = r =>
                                Covers(works[r], Elems(panel.frame.games) \cup DOMAIN panel.app)'
                          /\ \A k \in acks' : k.run = r => Covers(works[r], DOMAIN k.app)'
                          /\ \A k \in box'.answer : Covers(works[r], DOMAIN k.app)'
                    /\ At(r, "commit")' => Covers(works[r], DOMAIN works[r].answer)'
    BY DEF CoverInv
<1>1. works' = works /\ failed \subseteq failed'
    BY DEF AllPassed
<1>2. \A have : Covers(works[r], have) => Covers(works[r], have)'
    BY <1>1 DEF Covers, ChunkGames, Chunk
<1>3. ASSUME At(r, "wait")'
      PROVE  /\ \A i \in DOMAIN wire' : wire'[i].run = r =>
                    Covers(works[r], Elems(wire[i].games))'
             /\ Applying' /\ panel'.frame.run = r =>
                    Covers(works[r], Elems(panel.frame.games) \cup DOMAIN panel.app)'
             /\ \A k \in acks' : k.run = r => Covers(works[r], DOMAIN k.app)'
             /\ \A k \in box'.answer : Covers(works[r], DOMAIN k.app)'
    <2>1. At(r, "wait") /\ slot.run = r
        BY <1>1, <1>3 DEF At, SlotInv, Lives
    <2>2. \A have : Passed(r, have) => Covers(works[r], have)'
        BY <1>1, <2>1, PassedCovers
    <2>3. \A k \in box.answer : Covers(works[r], DOMAIN k.app)
        BY <2>1 DEF CoverInv
    <2>4. QED
        BY <1>2, <2>1, <2>2, <2>3 DEF AllPassed
<1>4. ASSUME At(r, "commit")'
      PROVE  Covers(works[r], DOMAIN works[r].answer)'
    BY <1>1, <1>4 DEF At, CoverInv, Covers, ChunkGames, Chunk
<1>5. QED
    BY <1>3, <1>4

LEMMA SendCovers ==
    ASSUME AnswerInv, ShapeInv, ClosedInv, CoverInv, NEW r \in Runs, slot.run = r, SendChunk(r)
    PROVE  CoverInv'
<1> DEFINE f == [run |-> slot.run, unit |-> Unit(works[r]), chunk |-> works[r].chunk,
                 games |-> Chunk(works[r]).games]
<1>1. works \in [Runs -> Work] /\ wire \in Seq(Frame) /\ SlotInv
    BY DEF ShapeInv, WorksInv, PassingInv, AnswerInv, RecordInv
<1>2. /\ works[r].pc = "dispatch" /\ ~Cancelling /\ box'.answer = {}
      /\ works' = [works EXCEPT ![r].pc = "wait"]
      /\ UNCHANGED <<panel, acks, failed>>
    <2>1. box \in Box
        BY DEF ShapeInv, BoxInv
    <2>2. QED
        BY <2>1 DEF SendChunk, At, Goto, callVars, historyVars, Box
<1>3. LiveWire = {} /\ ~LivePanel /\ LiveAcks = {} /\ r \notin closed
    BY <1>2, SendsAlone DEF ClosedInv, Runs, NoRun
<1>4. wire' = Append(wire, f)
    BY DEF SendChunk
<1>5. f.run = r /\ f.games = Chunk(works[r]).games
    OBVIOUS
<1> HIDE DEF f
<1>6. \A i \in DOMAIN wire' : wire'[i].run = r => wire'[i].games = f.games
    BY <1>1, <1>3, <1>4 DEF LiveWire
<1>7. Chunk(works[r])' = Chunk(works[r]) /\ works'[r].pc = "wait"
    BY <1>1, <1>2 DEF Chunk, Work
<1>8. \A q \in Runs : q # r => works'[q].pc \notin {"wait", "commit"}
    BY <1>1, <1>2 DEF SlotInv, Lives
<1>9. \A i \in DOMAIN wire' : wire'[i].run = r => Covers(works[r], Elems(wire[i].games))'
    BY <1>5, <1>6, <1>7 DEF Covers, ChunkGames
<1>10. ~(Applying' /\ panel'.frame.run = r) /\ \A k \in acks' : k.run # r
    BY <1>2, <1>3 DEF Applying, LivePanel, LiveAcks
<1>11. QED
    BY <1>2, <1>7, <1>8, <1>9, <1>10 DEF CoverInv, At

LEMMA TakeCovers ==
    ASSUME AnswerInv, ShapeInv, CoverInv, NEW r \in Runs, slot.run = r, TakeAnswer(r)
    PROVE  CoverInv'
<1>1. works \in [Runs -> Work] /\ SlotInv
    BY DEF ShapeInv, WorksInv, AnswerInv, RecordInv
<1>2. PICK k \in box.answer : works' = [works EXCEPT ![r].pc = "commit", ![r].answer = k.app]
    BY DEF TakeAnswer
<1>3. Covers(works[r], DOMAIN k.app)
    BY DEF CoverInv, TakeAnswer
<1>4. works'[r].answer = k.app /\ works'[r].pc = "commit" /\ Chunk(works[r])' = Chunk(works[r])
    BY <1>1, <1>2 DEF Work, Chunk
<1>5. failed' = failed
    BY DEF TakeAnswer, historyVars
<1>6. Covers(works[r], DOMAIN works[r].answer)'
    BY <1>3, <1>4, <1>5 DEF Covers, ChunkGames
<1>7. \A q \in Runs : q # r => works'[q].pc \notin {"wait", "commit"}
    BY <1>1, <1>2 DEF SlotInv, Lives
<1>8. QED
    BY <1>4, <1>6, <1>7 DEF CoverInv, At

LEMMA RunCovers ==
    ASSUME AnswerInv, ShapeInv, ClosedInv, CoverInv, NEW r \in Runs, RunStep(r)
    PROVE  CoverInv'
<1>1. slot.run = r /\ SlotInv /\ RunTyped
    BY RunStepLives DEF AnswerInv, RecordInv, SlotInv
<1>2. CASE SendChunk(r) \/ TakeAnswer(r)
    BY <1>1, <1>2, SendCovers, TakeCovers
<1>3. CASE ~(SendChunk(r) \/ TakeAnswer(r))
    <2>1. Others(r) /\ works'[r].pc \notin {"wait", "commit"}
        <3>1. CASE BusyStep(r)
            <4>1. RunQuiet(r)
                BY <1>1, <3>1, BusyIsQuiet
            <4>2. works'[r].pc \notin {"wait", "commit"}
                <5>1. works \in [Runs -> Work] /\ RunTyped
                    BY DEF ShapeInv, WorksInv, AnswerInv, RecordInv
                <5>2. CASE LeaveUnit(r)
                    BY <5>1, <5>2, LeavesQuietly
                <5>3. ASSUME NEW pc, pc \notin {"wait", "commit"}, Goto(r, pc)
                      PROVE  works'[r].pc \notin {"wait", "commit"}
                    BY <5>1, <5>3 DEF Goto
                <5>4. CASE EndUnits(r) \/ SkipUnit(r) \/ FetchUnit(r)
                    <6>1. CASE EndUnits(r)
                        BY <5>1, <6>1 DEF EndUnits, Work
                    <6>2. CASE SkipUnit(r)
                        <7> DEFINE at == works[r].at + 1
                                   whole == works[r].whole \cup {Unit(works[r])}
                                   v == [works[r] EXCEPT !.at = at, !.whole = whole]
                        <7>1. works[r].pc = "unit" /\ works[r] \in Work /\ works' = [works EXCEPT ![r] = v]
                            BY <5>1, <6>2 DEF SkipUnit, TakesUnit, At
                        <7> HIDE DEF at, whole
                        <7>2. v.pc = works[r].pc
                            BY <7>1 DEF Work
                        <7> HIDE DEF v
                        <7>3. QED
                            BY <5>1, <7>1, <7>2
                    <6>3. CASE FetchUnit(r)
                        BY <5>1, <6>3 DEF FetchUnit, Work
                    <6>4. QED
                        BY <5>4, <6>1, <6>2, <6>3
                <5>5. CASE Classify(r) /\ ~LeaveUnit(r)
                    BY <5>1, <5>5 DEF Classify, Work
                <5>6. CASE CommitChunk(r) \/ Finish(r)
                    <6>1. CASE Finish(r)
                        BY <5>1, <6>1 DEF Finish, Idle, Work
                    <6>2. CASE CommitChunk(r)
                        <7>1. CASE IsLastChunk(works[r])
                            <8> DEFINE at == works[r].at + 1
                                       whole == works[r].whole \cup {Unit(works[r])}
                            <8>1. works' = [works EXCEPT ![r] = NextUnit(at, whole)]
                                BY <6>2, <7>1 DEF CommitChunk, NextUnit
                            <8> HIDE DEF at, whole
                            <8>2. QED
                                BY <5>1, <8>1 DEF NextUnit, Idle
                        <7>2. CASE ~IsLastChunk(works[r])
                            <8> DEFINE n == works[r].chunk + 1
                                       v == [works[r] EXCEPT !.pc = "dispatch", !.chunk = n, !.answer = NoApps]
                            <8>1. works' = [works EXCEPT ![r] = v]
                                BY <5>1, <6>2, <7>2 DEF CommitChunk
                            <8> HIDE DEF n
                            <8>2. v.pc = "dispatch"
                                BY <5>1 DEF Work
                            <8> HIDE DEF v
                            <8>3. QED
                                BY <5>1, <8>1, <8>2
                        <7>3. QED
                            BY <7>1, <7>2
                    <6>3. QED
                        BY <5>6, <6>1, <6>2
                <5>7. CASE Begin(r)
                    BY <5>3, <5>7 DEF Begin
                <5>8. CASE Plan(r) \/ PlanFails(r) \/ OpenRun(r)
                    BY <5>3, <5>8 DEF Plan, PlanFails, OpenRun
                <5>9. CASE BeginApply(r)
                    BY <5>2, <5>3, <5>9 DEF BeginApply
                <5>10. CASE StopAtChunk(r) \/ PauseForBudget(r)
                    BY <5>2, <5>3, <5>10 DEF StopAtChunk, PauseForBudget
                <5>11. CASE Raise(r) \/ RecordTerminalStatus(r) \/ MarkErrored(r)
                    BY <5>3, <5>11 DEF Raise, RecordTerminalStatus, MarkErrored
                <5>12. QED
                    BY <3>1, <5>2, <5>4, <5>5, <5>6, <5>7, <5>8, <5>9, <5>10, <5>11 DEF BusyStep
            <4>3. QED
                BY <4>1, <4>2 DEF RunQuiet, Others
        <3>2. CASE SeeCancel(r) \/ TimeOut(r)
            BY <1>1, <3>2, LeavesQuietly DEF SeeCancel, TimeOut, Others
        <3>3. QED
            BY <1>3, <3>1, <3>2 DEF RunStep, BusyStep
    <2>2. QED
        BY <1>1, <2>1, OnlyOneSends, NoneSentCovers
<1>4. QED
    BY <1>2, <1>3

\* What is on its way and stays is passed.
LEMMA StaysPassed ==
    /\ \A i \in DOMAIN wire : failed \subseteq failed' => Passed(wire[i].run, Elems(wire[i].games))
    /\ Applying => Passed(panel.frame.run, Elems(panel.frame.games) \cup DOMAIN panel.app)
    /\ \A k \in acks : Passed(k.run, DOMAIN k.app)
BY DEF Passed

LEMMA PanelCovers ==
    ASSUME AnswerInv, ShapeInv, CoverInv, PanelStep
    PROVE  CoverInv'
<1> USE DEF backendVars, diskVars, panelVars, callVars, historyVars
<1>1. /\ panel \in Panel /\ wire \in Seq(Frame) /\ WireTyped /\ SlotInv
      /\ slot' = slot /\ box' = box /\ works' = works
    BY PanelLeaves DEF ShapeInv, PassingInv, AnswerInv, RecordInv, MessageInv
<1>2. CASE TakeFrame \/ DropFrame
    <2>1. wire # <<>> /\ wire' = Tail(wire) /\ acks' = acks /\ failed' = failed
        BY <1>2 DEF TakeFrame, DropFrame
    <2>2. 1 \in DOMAIN wire /\ Head(wire) = wire[1]
          /\ \A i \in DOMAIN wire' : i + 1 \in DOMAIN wire /\ wire'[i] = wire[i + 1]
        BY <1>1, <2>1, TailShifts
    <2>3. \A i \in DOMAIN wire' : Passed(wire'[i].run, Elems(wire'[i].games))
        BY <2>1, <2>2, StaysPassed
    <2>4. Applying' => Passed(panel'.frame.run, Elems(panel'.frame.games) \cup DOMAIN panel'.app)
        <3>1. CASE TakeFrame
            <4>1. panel'.frame = Head(wire)
                BY <3>1 DEF TakeFrame
            <4>2. QED
                BY <2>2, <4>1 DEF Passed
        <3>2. CASE DropFrame
            BY <3>2, StaysPassed DEF DropFrame, Applying
        <3>3. QED
            BY <1>2, <3>1, <3>2
    <2>5. QED
        BY <1>1, <2>1, <2>3, <2>4, StaysPassed, PassingCovers DEF AllPassed
<1>3. CASE UpdateShortcut \/ AdoptOrphan \/ CreateShortcut \/ CreateFails
    <2>1. AtGame /\ panel.frame.games # <<>> /\ Applying
        <3>1. AtGame
            <4>1. CASE CreateShortcut
                BY <4>1 DEF CreateShortcut, Creates
            <4>2. CASE CreateFails
                BY <4>2 DEF CreateFails, Creates
            <4>3. CASE UpdateShortcut
                BY <4>3 DEF UpdateShortcut
            <4>4. CASE AdoptOrphan
                BY <4>4 DEF AdoptOrphan
            <4>5. QED
                BY <1>3, <4>1, <4>2, <4>3, <4>4
        <3>2. QED
            BY <3>1 DEF AtGame, Applying
    <2> DEFINE g == Head(panel.frame.games)
    <2>2. panel.frame \in Frame /\ panel.frame.games \in Seq(Games) /\ panel.app \in Apps
        BY <1>1 DEF Panel, Frame
    <2>3. Elems(panel.frame.games) = {g} \cup Elems(Tail(panel.frame.games)) /\ g \in Games
        BY <2>1, <2>2, HeadTail
    <2>4. wire' = wire /\ acks' = acks /\ failed \subseteq failed'
        <3>0. CASE UpdateShortcut
            BY <3>0 DEF UpdateShortcut
        <3>1. CASE AdoptOrphan
            BY <3>1 DEF AdoptOrphan
        <3>2. CASE CreateShortcut
            BY <3>2 DEF CreateShortcut
        <3>3. CASE CreateFails
            BY <3>3 DEF CreateFails
        <3>4. QED
            BY <1>3, <3>0, <3>1, <3>2, <3>3
    <2> HIDE DEF g
    <2>5. /\ panel'.frame.run = panel.frame.run
          /\ panel'.frame.games = Tail(panel.frame.games)
          /\ {g} \cup DOMAIN panel.app \subseteq DOMAIN panel'.app \cup failed'
        <3>1. ASSUME NEW c, panel' = Resolved(c) \/ \E p : panel' = [Resolved(c) EXCEPT !.scan.pool = p]
              PROVE  /\ panel'.frame.run = panel.frame.run
                     /\ panel'.frame.games = Tail(panel.frame.games)
                     /\ {g} \cup DOMAIN panel.app \subseteq DOMAIN panel'.app
            <4>1. panel'.frame = [panel.frame EXCEPT !.games = Tail(@)]
                  /\ panel'.app = With(panel.app, g, c)
                <5> DEFINE v == Resolved(c)
                <5>1. /\ v.frame = [panel.frame EXCEPT !.games = Tail(@)]
                      /\ v.app = With(panel.app, g, c) /\ DOMAIN v = DOMAIN panel
                      /\ {"frame", "app", "scan"} \subseteq DOMAIN v
                    BY <1>1 DEF Resolved, Panel, g
                <5>2. panel' = v \/ \E p : panel' = [v EXCEPT !.scan.pool = p]
                    BY <3>1
                <5> HIDE DEF v
                <5>3. QED
                    BY <5>1, <5>2
            <4>2. QED
                BY <2>2, <4>1 DEF Frame, With
        <3>2. CASE UpdateShortcut
            BY <3>1, <3>2 DEF UpdateShortcut
        <3>3. CASE AdoptOrphan
            <4> DEFINE c == Lowest(Of(g, panel.scan.pool))[2]
            <4>1. panel' = [Resolved(c) EXCEPT !.scan.pool = @ \ {Lowest(Of(g, panel.scan.pool))}]
                BY <3>3 DEF AdoptOrphan, g
            <4> DEFINE p == Resolved(c).scan.pool \ {Lowest(Of(g, panel.scan.pool))}
            <4>2. panel' = [Resolved(c) EXCEPT !.scan.pool = p]
                BY <4>1
            <4> HIDE DEF c, p
            <4>3. QED
                BY <3>1, <4>2
        <3>4. CASE CreateShortcut
            BY <3>1, <3>4 DEF CreateShortcut
        <3>5. CASE CreateFails
            BY <1>1, <2>2, <3>5 DEF CreateFails, Panel, Frame, g
        <3>6. QED
            BY <1>3, <3>2, <3>3, <3>4, <3>5
    <2>6. Passed(panel'.frame.run, Elems(panel'.frame.games) \cup DOMAIN panel'.app)
        BY <2>1, <2>3, <2>5 DEF Passed
    <2>7. QED
        BY <1>1, <2>4, <2>6, StaysPassed, PassingCovers DEF AllPassed
<1>4. CASE EndFrame
    <2> DEFINE k == [run |-> panel.frame.run, unit |-> panel.frame.unit,
                     chunk |-> panel.frame.chunk, app |-> panel.app]
    <2>1. wire' = wire /\ failed' = failed /\ Applying /\ ~Applying'
        <3>1. panel' = FreePanel \/ panel' = [panel EXCEPT !.pc = "acking", !.app = NoApps]
            BY <1>4 DEF EndFrame
        <3>2. panel'.pc # "apply"
            BY <1>1, <3>1 DEF FreePanel, Panel
        <3>3. QED
            BY <1>4, <3>2 DEF EndFrame, Applying
    <2>2. acks' = acks \/ (acks' = acks \cup {k} /\ panel.frame.games = <<>>)
        BY <1>4 DEF EndFrame
    <2>3. k.run = panel.frame.run /\ k.app = panel.app
        OBVIOUS
    <2> HIDE DEF k
    <2>4. panel.frame.games = <<>> => Passed(k.run, DOMAIN k.app)
        BY <2>1, <2>3 DEF Passed, Elems
    <2>5. QED
        BY <1>1, <2>1, <2>2, <2>4, StaysPassed, PassingCovers DEF AllPassed
<1>5. CASE Reload
    <2>1. wire' = <<>> /\ ~Applying' /\ acks' = acks /\ failed' = failed
        BY <1>5 DEF Reload, FreshPanel, Applying
    <2>2. QED
        BY <1>1, <2>1, StaysPassed, PassingCovers DEF AllPassed
<1>6. QED
    BY <1>2, <1>3, <1>4, <1>5 DEF PanelStep

LEMMA AnsweredCovers ==
    ASSUME panel \in Panel, NEW k, Answered(k)
    PROVE  /\ panel'.frame = panel.frame /\ panel'.app = panel.app /\ (Applying' <=> Applying)
           \/ ~Applying'
BY DEF Answered, FreePanel, Applying, Panel

LEMMA CallCovers ==
    ASSUME AnswerInv, ShapeInv, CoverInv,
           CallStep \/ RommChanges \/ ClearSyncCache \/ UNCHANGED vars
    PROVE  CoverInv'
<1> USE DEF backendVars, diskVars, panelVars, callVars, historyVars
<1>1. panel \in Panel /\ SlotInv /\ box \in Box
    BY DEF ShapeInv, PassingInv, BoxInv, AnswerInv, RecordInv
<1>2. CASE \E k \in acks : ReportUnitResults(k)
    <2>1. PICK k \in acks : ReportUnitResults(k)
        BY <1>2
    <2>2. UNCHANGED <<works, wire, failed>> /\ acks' \subseteq acks
        BY <2>1 DEF ReportUnitResults
    <2>3. (panel'.frame = panel.frame /\ panel'.app = panel.app /\ (Applying' <=> Applying))
          \/ ~Applying'
        BY <1>1, <2>1, AnsweredCovers DEF ReportUnitResults, Applying
    <2>4. \A l \in box'.answer : l \in box.answer \/ (l = k /\ k.run = slot.run)
        BY <1>1, <2>1 DEF ReportUnitResults, AckMatchesActiveUnit, Matches, Box
    <2>5. QED
        BY <1>1, <2>1, <2>2, <2>3, <2>4, StaysPassed, PassingCovers DEF AllPassed
<1>3. CASE (\E j \in late : LateCommit(j)) \/ PressCancel \/ (\E id \in cancels : DeliverCancel(id))
           \/ RommChanges \/ ClearSyncCache \/ UNCHANGED vars
    <2>1. UNCHANGED <<works, wire, failed, acks, box>>
        BY <1>3 DEF LateCommit, PressCancel, DeliverCancel, RommChanges, ClearSyncCache, vars
    <2>2. (panel'.frame = panel.frame /\ panel'.app = panel.app /\ (Applying' <=> Applying))
          \/ ~Applying'
        <3>1. CASE \E j \in late : LateCommit(j)
            BY <1>1, <3>1, AnsweredCovers DEF LateCommit
        <3>2. CASE PressCancel
            BY <1>1, <3>2 DEF PressCancel, Applying, Panel
        <3>3. CASE (\E id \in cancels : DeliverCancel(id)) \/ RommChanges \/ ClearSyncCache
                   \/ UNCHANGED vars
            BY <3>3 DEF DeliverCancel, RommChanges, ClearSyncCache, vars, Applying
        <3>4. QED
            BY <1>3, <3>1, <3>2, <3>3
    <2>3. QED
        BY <1>1, <2>1, <2>2, StaysPassed, PassingCovers DEF AllPassed
<1>4. QED
    BY <1>2, <1>3 DEF CallStep

LEMMA CoverStep ==
    AnswerInv /\ ShapeInv /\ ClosedInv /\ CoverInv /\ [Next]_vars => CoverInv'
<1> SUFFICES ASSUME AnswerInv, ShapeInv, ClosedInv, CoverInv, [Next]_vars PROVE CoverInv'
    OBVIOUS
<1>1. RunTyped /\ SlotInv /\ works \in [Runs -> Work]
    BY DEF AnswerInv, RecordInv, ShapeInv, WorksInv
<1>2. CASE \E r \in Runs : RunStep(r)
    BY <1>2, RunCovers
<1>3. CASE (\E r \in Runs : Start(r)) \/ Restart
    <2>1. NoneSent
        <3>1. CASE Restart
            BY <3>1, IdleIs DEF Restart, NoneSent, Lives, Work
        <3>2. CASE \E r \in Runs : Start(r)
            <4>1. PICK r \in Runs : Start(r)
                BY <3>2
            <4>2. \A q \in Runs : ~Lives(q)
                BY <1>1, <4>1 DEF Start, TryBeginRun, RunTyped, SlotInv, Runs, NoRun
            <4>3. works' = [works EXCEPT ![r].pc = "begun"]
                BY <4>1 DEF Start, Goto
            <4>4. QED
                BY <1>1, <4>2, <4>3 DEF NoneSent, Lives
        <3>3. QED
            BY <1>3, <3>1, <3>2
    <2>2. QED
        BY <2>1, NoneSentCovers
<1>4. QED
    BY <1>2, <1>3, PanelCovers, CallCovers DEF Next

-----------------------------------------------------------------------------
(* What the rows and the stamps record. *)

LEMMA RowInit == Init => RowInv
<1> SUFFICES ASSUME Init PROVE RowInv
    OBVIOUS
<1>1. \A g \in Games : rows[g].gen = NoRun
    BY DEF Init
<1>2. \A p \in Platforms : stamp[p].gen = NoRun
    BY DEF Init, NoStamp
<1>3. \A r \in Runs : works[r].pc = "none" /\ r # NoRun
    BY DEF Init, Idle, Runs, NoRun
<1>4. \A r \in Runs : RowsOf(r)
    BY <1>1, <1>3 DEF RowsOf, GensOf, UnsentOf, CommittedOf, UnitOpen, Sending
<1>5. QED
    BY <1>1, <1>2, <1>4 DEF RowInv, GenerationsHonest, SkipIsSafe

\* Rows gain, and stamps go.
RowsGrow ==
    /\ \A g \in Games : /\ rows'[g].gen = rows[g].gen
                        /\ rows[g].here => rows'[g].here
                        /\ HasShortcut(g) => HasShortcut(g)'
    /\ failed \subseteq failed'
    /\ \A p \in Platforms : stamp'[p] = stamp[p] \/ stamp'[p] = NoStamp

LEMMA GrowsHonestly ==
    ASSUME RowInv, DiskInv, RowsGrow, \A r \in Runs : RowsOf(r)'
    PROVE  RowInv'
<1>1. \A g \in Games : rows'[g].gen # NoRun => rows'[g].here /\ rows[g].here
    BY DEF RowInv, RowsGrow
<1>2. \A p \in Platforms : stamp'[p].gen # NoRun => stamp'[p] = stamp[p]
    BY DEF RowsGrow, NoStamp
<1>3. GenerationsHonest'
    <2> SUFFICES ASSUME NEW p \in Platforms, stamp'[p].gen # NoRun, NEW g \in Listed(p)
                 PROVE  g \in stamp'[p].ids <=> rows'[g].here /\ rows'[g].gen = stamp'[p].gen
        BY DEF GenerationsHonest
    <2>1. stamp'[p] = stamp[p] /\ g \in Games
        BY <1>2, ListedIsGames
    <2>2. g \in stamp[p].ids <=> rows[g].here /\ rows[g].gen = stamp[p].gen
        BY <2>1 DEF RowInv, GenerationsHonest
    <2>3. rows'[g].gen = rows[g].gen
        BY <2>1 DEF RowsGrow
    <2>4. QED
        BY <1>1, <2>1, <2>2, <2>3
<1>4. SkipIsSafe'
    <2> SUFFICES ASSUME NEW p \in Platforms, stamp'[p].gen # NoRun, NEW g \in stamp'[p].ids
                 PROVE  rows'[g].app # 0 \/ g \in failed'
        BY DEF SkipIsSafe
    <2>1. stamp'[p] = stamp[p] /\ stamp[p] \in Stamp
        BY <1>2 DEF DiskInv
    <2>2. g \in Games
        BY <2>1 DEF Stamp
    <2>3. QED
        BY <2>1, <2>2 DEF RowInv, SkipIsSafe, RowsGrow, HasShortcut
<1>5. QED
    BY <1>1, <1>3, <1>4 DEF RowInv

\* A run whose work, staging and place do not change.
LEMMA SameRows ==
    ASSUME RowInv, WorksInv, RowsGrow, NEW r \in Runs, works'[r] = works[r],
           works[r].pc \in Sending => box'.staging = box.staging
    PROVE  RowsOf(r)'
<1>1. RowsOf(r) /\ works[r] \in Work /\ UnitOf(works[r])
    BY DEF RowInv, WorksInv
<1>2. \A c \in DOMAIN works[r].chunks : works[r].chunks[c].rows \subseteq Games
    <2>1. works[r].chunks \in Seq(ChunkSet)
        BY <1>1 DEF Work
    <2>2. \A c \in DOMAIN works[r].chunks : works[r].chunks[c] \in ChunkSet
        BY <2>1
    <2>3. QED
        BY <2>2 DEF ChunkSet
<1>3. GensOf(r)'
    BY <1>1 DEF RowsOf, GensOf, RowsGrow
<1>4. UnsentOf(r)'
    BY <1>1, <1>2 DEF RowsOf, UnsentOf, RowsGrow
<1>5. CommittedOf(r)'
    <2>1. works[r].pc \in Sending => \A c \in 1..(works[r].chunk - 1) : c \in DOMAIN works[r].chunks
        BY <1>1 DEF UnitOf, Work, ChunksOf
    <2>2. QED
        BY <1>1, <1>2, <2>1 DEF RowsOf, CommittedOf, RowsGrow
<1>6. UnitOpen(r)'
    <2>1. works[r].pc \in Sending => Unit(works[r]) \in Platforms
        BY <1>1, ChunkIs DEF Sending
    <2>2. Unit(works'[r]) = Unit(works[r])
        OBVIOUS
    <2>3. QED
        BY <1>1, <2>1, <2>2 DEF RowsOf, UnitOpen, RowsGrow, Unit
<1>7. QED
    BY <1>3, <1>4, <1>5, <1>6 DEF RowsOf

\* A run that moves on without a chunk in hand.
Unsent(r) == works'[r].pc \notin {"clear"} \cup Sending

Advances(r) ==
    works'[r].pc \in Working =>
        /\ works[r].pc \in Working
        /\ \/ works'[r].at = works[r].at /\ works[r].pc \notin Sending
           \/ works'[r].at = works[r].at + 1

LEMMA DoneGrows ==
    ASSUME NEW w \in Work, UnitOf(w)
    PROVE  /\ GamesBefore(w.at - 1) \subseteq GamesBefore(w.at)
           /\ w.pc \in Sending => w.fetched \subseteq GamesBefore(w.at)
<1>1. w.at \in Nat \ {0}
    BY DEF Work
<1>2. Before(w.at - 1) \subseteq Before(w.at) /\ Queue[w.at] \in Before(w.at)
    BY <1>1 DEF Before
<1>3. w.pc \in Sending => w.fetched \subseteq Listed(Queue[w.at])
    BY DEF UnitOf, Sending, InUnit, Unit
<1>4. QED
    BY <1>2, <1>3 DEF GamesBefore

LEMMA UnsentRows ==
    ASSUME RowInv, WorksInv, RowsGrow, NEW r \in Runs, Unsent(r), Advances(r)
    PROVE  RowsOf(r)'
<1>1. RowsOf(r) /\ works[r] \in Work /\ UnitOf(works[r]) /\ works[r].at \in Nat
    BY DEF RowInv, WorksInv, Work
<1>2. GensOf(r)'
    <2> SUFFICES ASSUME works'[r].pc \in Working, NEW g \in Games, rows'[g].gen = r
                 PROVE  g \in GamesBefore(works'[r].at - 1)
        BY DEF GensOf
    <2>1. rows[g].gen = r /\ works[r].pc \in Working
        BY DEF RowsGrow, Advances
    <2>2. g \in GamesBefore(works[r].at - 1) \/ (works[r].pc \in Sending /\ g \in works[r].fetched)
        BY <1>1, <2>1 DEF RowsOf, GensOf
    <2>3. g \in GamesBefore(works[r].at)
        BY <1>1, <2>2, DoneGrows
    <2>4. CASE works'[r].at = works[r].at /\ works[r].pc \notin Sending
        BY <2>2, <2>4
    <2>5. CASE works'[r].at = works[r].at + 1
        <3>1. works'[r].at - 1 = works[r].at
            BY <1>1, <2>5
        <3>2. QED
            BY <2>3, <3>1
    <2>6. QED
        BY <2>4, <2>5 DEF Advances
<1>3. QED
    BY <1>2 DEF Unsent, RowsOf, UnsentOf, CommittedOf, UnitOpen

\* A run that goes on with its unit.
GoesOnSending(r) ==
    /\ works[r].pc \in {"clear"} \cup Sending /\ works'[r].pc \in Sending
    /\ works'[r].at = works[r].at /\ works'[r].fetched = works[r].fetched
    /\ works'[r].chunks = works[r].chunks /\ works'[r].chunk = works[r].chunk
    /\ box'.staging = {[run |-> r, unit |-> Unit(works[r]), games |-> works[r].fetched]}
    /\ stamp'[Unit(works[r])] = NoStamp

LEMMA SendingRows ==
    ASSUME RowInv, WorksInv, RowsGrow, NEW r \in Runs, GoesOnSending(r)
    PROVE  RowsOf(r)'
<1>1. RowsOf(r) /\ works[r] \in Work /\ UnitOf(works[r]) /\ works[r].chunk \in Nat \ {0}
    BY DEF RowInv, WorksInv, Work
<1>2. \A c \in DOMAIN works[r].chunks : works[r].chunks[c].rows \subseteq Games
    <2>1. works[r].chunks \in Seq(ChunkSet)
        BY <1>1 DEF Work
    <2>2. \A c \in DOMAIN works[r].chunks : works[r].chunks[c] \in ChunkSet
        BY <2>1
    <2>3. QED
        BY <2>2 DEF ChunkSet
<1>3. GensOf(r)'
    <2>1. works[r].pc \in Working
        BY DEF GoesOnSending, Working, InUnit, Sending
    <2>2. QED
        BY <1>1, <2>1 DEF RowsOf, GensOf, RowsGrow, GoesOnSending
<1>4. UnsentOf(r)'
    BY <1>1, <1>2 DEF RowsOf, UnsentOf, RowsGrow, GoesOnSending
<1>5. CommittedOf(r)'
    <2>1. CASE works[r].pc \in Sending
        <3>1. \A c \in 1..(works[r].chunk - 1) : c \in DOMAIN works[r].chunks
            BY <1>1, <2>1 DEF UnitOf, ChunksOf
        <3>2. QED
            BY <1>1, <1>2, <2>1, <3>1 DEF RowsOf, CommittedOf, RowsGrow, GoesOnSending
    <2>2. CASE works[r].pc = "clear"
        <3>1. works[r].chunk = 1
            BY <1>1, <2>2 DEF UnitOf, Working, InUnit, Sending
        <3>2. 1..(works'[r].chunk - 1) = {}
            BY <3>1 DEF GoesOnSending
        <3>3. QED
            BY <3>2 DEF CommittedOf
    <2>3. QED
        BY <2>1, <2>2 DEF GoesOnSending
<1>6. UnitOpen(r)'
    BY DEF UnitOpen, GoesOnSending, Unit
<1>7. QED
    BY <1>3, <1>4, <1>5, <1>6 DEF RowsOf

\* The games that no chunk sends have their shortcut.
LEMMA ClassifyRows ==
    ASSUME RowInv, WorksInv, RowsGrow, NEW r \in Runs, Classify(r), ~Cancelling
    PROVE  RowsOf(r)'
<1> DEFINE w == works[r]
           cs == BuildUnitChunks(Delta(w), w.fetched)
<1>1. RowsOf(r) /\ w \in Work /\ UnitOf(w) /\ w.pc = "fetched" /\ works \in [Runs -> Work]
    BY DEF RowInv, WorksInv, Classify, At
<1>2. works' = [works EXCEPT ![r].pc = "clear", ![r].chunks = cs] /\ rows' = rows
    BY DEF Classify, diskVars
<1>3. w.fetched \subseteq Listed(Unit(w)) /\ Unit(w) \in Platforms
    BY <1>1, UnitIsPlatform DEF UnitOf, InUnit
<1>4. /\ Delta(w) \in Seq(Touched(w)) /\ Elems(Delta(w)) = Touched(w) /\ Distinct(Delta(w))
    BY <1>3, DeltaIs
<1>5. \A c \in DOMAIN cs : \A g \in cs[c].rows \ Elems(cs[c].games) : HasShortcut(g)
    <2>1. Touched(w) \subseteq w.fetched
        BY DEF Touched
    <2>2. Delta(w) \in Seq(w.fetched)
        BY <1>4, <2>1
    <2>3. /\ ChunksOf(cs, w.fetched)
          /\ \A c \in DOMAIN cs, g \in Elems(Delta(w)) : g \in cs[c].rows => g \in Elems(cs[c].games)
        BY <1>4, <2>2, ChunksAre
    <2>4. \A c \in DOMAIN cs : cs[c].rows \subseteq w.fetched
        BY <2>3 DEF ChunksOf
    <2> HIDE DEF cs
    <2>5. SUFFICES ASSUME NEW c \in DOMAIN cs, NEW g \in cs[c].rows, g \notin Elems(cs[c].games)
                   PROVE  HasShortcut(g)
        OBVIOUS
    <2>6. g \in w.fetched /\ g \notin Touched(w) /\ g \in Listed(Unit(w))
        <3>1. g \in w.fetched
            BY <2>4, <2>5
        <3>2. g \notin Elems(Delta(w))
            BY <2>3, <2>5
        <3>3. QED
            BY <1>3, <1>4, <3>1, <3>2
    <2>7. QED
        BY <2>6 DEF Touched, HasShortcut
<1>6. /\ works'[r].pc = "clear" /\ works'[r].at = w.at /\ works'[r].chunks = cs
    <2> HIDE DEF cs
    <2>1. QED
        BY <1>1, <1>2 DEF Work
<1> HIDE DEF cs
<1>7. GensOf(r)'
    BY <1>1, <1>2, <1>6 DEF RowsOf, GensOf, Working, InUnit, Sending
<1>8. UnsentOf(r)'
    BY <1>2, <1>5, <1>6 DEF UnsentOf, HasShortcut
<1>9. QED
    BY <1>6, <1>7, <1>8 DEF RowsOf, CommittedOf, UnitOpen, Sending

LEMMA Disjoint ==
    ASSUME NEW p \in Platforms, NEW q \in Platforms, p # q
    PROVE  Listed(p) \cap Listed(q) = {}
BY LibraryAssumption DEF Listed

LEMMA NotBefore ==
    ASSUME NEW n \in DOMAIN Queue, NEW g \in Listed(Queue[n])
    PROVE  g \notin GamesBefore(n - 1)
<1>1. Queue \in Seq(Platforms) /\ \A i, j \in DOMAIN Queue : Queue[i] = Queue[j] => i = j
    BY LibraryAssumption
<1>2. SUFFICES ASSUME g \in GamesBefore(n - 1) PROVE FALSE
    OBVIOUS
<1>3. PICK i \in 1..(n - 1) : g \in Listed(Queue[i])
    BY <1>2 DEF GamesBefore, Before
<1>4. i \in DOMAIN Queue /\ i # n
    BY <1>1
<1>5. Queue[i] # Queue[n] /\ Queue[i] \in Platforms /\ Queue[n] \in Platforms
    BY <1>1, <1>4
<1>6. QED
    BY <1>3, <1>5, Disjoint

\* What a commit writes.
LEMMA CommitWrites ==
    ASSUME ShapeInv, CoverInv, RowInv, NEW r \in Runs, CommitChunk(r)
    PROVE  /\ \A g \in Games \ Chunk(works[r]).rows : rows'[g] = rows[g]
           /\ \A g \in Chunk(works[r]).rows :
                 /\ g \in Games /\ rows'[g].here /\ rows'[g].gen = r
                 /\ HasShortcut(g)' \/ g \in failed
           /\ \A g \in Games : HasShortcut(g) => HasShortcut(g)'
<1> DEFINE w == works[r]
           T == Chunk(w).rows
<1>1. w \in Work /\ UnitOf(w) /\ w.pc = "commit" /\ RowsOf(r) /\ At(r, "commit")
    BY DEF ShapeInv, WorksInv, CommitChunk, At, RowInv
<1>2. /\ T \subseteq w.fetched /\ w.fetched \subseteq Games /\ Elems(Chunk(w).games) \subseteq T
      /\ w.chunk \in DOMAIN w.chunks
    BY <1>1, ChunkIs DEF Sending
<1>3. UNION {s.games : s \in box.staging} = w.fetched
    <2>1. box.staging = {[run |-> r, unit |-> Unit(w), games |-> w.fetched]}
        BY <1>1 DEF RowsOf, UnitOpen, Sending
    <2>2. QED
        BY <2>1
<1>4. \A g \in DOMAIN w.answer : w.answer[g] # 0
    <2>1. w.answer \in Apps
        BY <1>1 DEF Work
    <2>2. w.answer \in [DOMAIN w.answer -> 1..Copies]
        BY <2>1, AppsAre
    <2>3. QED
        BY <2>2, LibraryAssumption
<1>5. CommitRows(T, w.answer, r) /\ r # NoRun
    BY DEF CommitChunk, Runs, NoRun
<1> HIDE DEF T
<1>6. \A g \in Games : IF g \notin T THEN rows'[g] = rows[g]
                       ELSE /\ rows'[g].here /\ rows'[g].gen = r
                            /\ rows'[g].app = IF g \in DOMAIN w.answer THEN w.answer[g] ELSE rows[g].app
    BY <1>2, <1>3, <1>5 DEF CommitRows
<1>7. \A g \in T : HasShortcut(g) \/ g \in DOMAIN w.answer \/ g \in failed
    <2>1. Elems(Chunk(w).games) \subseteq DOMAIN w.answer \cup failed
        BY <1>1 DEF CoverInv, Covers, ChunkGames
    <2>2. \A g \in T \ Elems(Chunk(w).games) : HasShortcut(g)
        BY <1>1, <1>2 DEF RowsOf, UnsentOf, Chunk, Sending, T
    <2>3. QED
        BY <2>1, <2>2
<1>8. QED
    BY <1>2, <1>4, <1>6, <1>7 DEF HasShortcut, T

\* The platforms the commit does not touch.
LEMMA CommitElsewhere ==
    ASSUME ShapeInv, CoverInv, RowInv, NEW r \in Runs, CommitChunk(r),
           NEW p \in Platforms, p # Unit(works[r])
    PROVE  stamp'[p] = stamp[p] /\ \A g \in Listed(p) : rows'[g] = rows[g] /\ g \in Games
<1>1. works[r] \in Work /\ UnitOf(works[r]) /\ works[r].pc = "commit" /\ stamp \in [Platforms -> Stamp]
    BY DEF ShapeInv, WorksInv, CommitChunk, At, DiskInv
<1>2. Chunk(works[r]).rows \subseteq Listed(Unit(works[r])) /\ Unit(works[r]) \in Platforms
    BY <1>1, ChunkIs DEF Sending
<1>3. Listed(p) \cap Chunk(works[r]).rows = {} /\ Listed(p) \subseteq Games
    BY <1>2, Disjoint, ListedIsGames
<1>4. stamp'[p] = stamp[p]
    BY <1>1 DEF CommitChunk, StampIfLast
<1>5. QED
    BY <1>3, <1>4, CommitWrites

\* The unit's stamp, when its last chunk is committed.
LEMMA CommitStamps ==
    ASSUME ShapeInv, CoverInv, RowInv, NEW r \in Runs, CommitChunk(r), IsLastChunk(works[r])
    PROVE  /\ \A g \in Listed(Unit(works[r])) :
                 g \in works[r].fetched <=> rows'[g].here /\ rows'[g].gen = r
           /\ \A g \in works[r].fetched : HasShortcut(g)' \/ g \in failed
<1> DEFINE w == works[r]
           T == Chunk(w).rows
<1>1. w \in Work /\ UnitOf(w) /\ w.pc = "commit" /\ RowsOf(r)
    BY DEF ShapeInv, WorksInv, CommitChunk, At, RowInv
<1>2. /\ T \subseteq w.fetched /\ w.fetched \subseteq Games /\ w.fetched \subseteq Listed(Unit(w))
      /\ Unit(w) \in Platforms /\ w.at \in DOMAIN Queue /\ w.chunk \in Nat
    BY <1>1, ChunkIs DEF Sending
<1>3. /\ \A g \in Games \ T : rows'[g] = rows[g]
      /\ \A g \in T : g \in Games /\ rows'[g].here /\ rows'[g].gen = r /\ (HasShortcut(g)' \/ g \in failed)
      /\ \A g \in Games : HasShortcut(g) => HasShortcut(g)'
    BY CommitWrites
<1>4. \A g \in w.fetched \ T : rows[g].here /\ rows[g].gen = r /\ (HasShortcut(g) \/ g \in failed)
    <2> SUFFICES ASSUME NEW g \in w.fetched \ T
                 PROVE  rows[g].here /\ rows[g].gen = r /\ (HasShortcut(g) \/ g \in failed)
        OBVIOUS
    <2>1. /\ DOMAIN w.chunks = 1..Len(w.chunks) /\ Len(w.chunks) \in Nat
          /\ \E c \in DOMAIN w.chunks : g \in w.chunks[c].rows
        BY <1>1 DEF UnitOf, Sending, ChunksOf
    <2>2. PICK c \in 1..Len(w.chunks) : g \in w.chunks[c].rows
        BY <2>1
    <2>3. c # w.chunk /\ w.chunk = Len(w.chunks)
        BY <2>2 DEF Chunk, IsLastChunk
    <2>4. c \in 1..(w.chunk - 1)
        BY <2>1, <2>3
    <2>5. QED
        BY <1>1, <2>2, <2>4 DEF RowsOf, CommittedOf, Sending
<1>5. \A g \in Listed(Unit(w)) : rows[g].gen = r => g \in w.fetched
    <2> SUFFICES ASSUME NEW g \in Listed(Unit(w)), rows[g].gen = r PROVE g \in w.fetched
        OBVIOUS
    <2>1. g \notin GamesBefore(w.at - 1) /\ g \in Games
        BY <1>2, NotBefore, ListedIsGames DEF Unit
    <2>2. QED
        BY <1>1, <2>1 DEF RowsOf, GensOf, Working, InUnit
<1>6. Listed(Unit(w)) \subseteq Games
    BY <1>2, ListedIsGames
<1> HIDE DEF T, w
<1>7. \A g \in Listed(Unit(w)) : g \in w.fetched <=> rows'[g].here /\ rows'[g].gen = r
    BY <1>2, <1>3, <1>4, <1>5, <1>6
<1>8. \A g \in w.fetched : HasShortcut(g)' \/ g \in failed
    BY <1>2, <1>3, <1>4
<1>9. QED
    BY <1>7, <1>8 DEF w

LEMMA CommitHonestly ==
    ASSUME ShapeInv, CoverInv, RowInv, NEW r \in Runs, CommitChunk(r)
    PROVE  GenerationsHonest' /\ SkipIsSafe'
<1> DEFINE w == works[r]
<1>1. w \in Work /\ UnitOf(w) /\ w.pc = "commit" /\ stamp \in [Platforms -> Stamp] /\ RowsOf(r)
    BY DEF ShapeInv, WorksInv, CommitChunk, At, DiskInv, RowInv
<1>2. Unit(w) \in Platforms
    BY <1>1, ChunkIs DEF Sending
<1>3. failed' = failed /\ StampIfLast(r)
    BY DEF CommitChunk, historyVars
<1>4. IF IsLastChunk(w) THEN stamp'[Unit(w)] = [gen |-> r, ids |-> w.fetched]
                        ELSE stamp'[Unit(w)].gen = NoRun
    <2>1. stamp[Unit(w)] = NoStamp
        BY <1>1 DEF RowsOf, UnitOpen, Sending
    <2>2. QED
        BY <1>1, <1>2, <1>3, <2>1 DEF StampIfLast, NoStamp
<1>5. ASSUME NEW p \in Platforms, stamp'[p].gen # NoRun
      PROVE  \A g \in Listed(p) : g \in stamp'[p].ids <=> rows'[g].here /\ rows'[g].gen = stamp'[p].gen
    <2>1. CASE p = Unit(w)
        BY <1>4, <1>5, <2>1, CommitStamps
    <2>2. CASE p # Unit(w)
        <3>1. stamp'[p] = stamp[p] /\ \A g \in Listed(p) : rows'[g] = rows[g]
            BY <2>2, CommitElsewhere
        <3>2. \A g \in Listed(p) : g \in stamp[p].ids <=> rows[g].here /\ rows[g].gen = stamp[p].gen
            BY <1>5, <3>1 DEF RowInv, GenerationsHonest
        <3>3. QED
            BY <3>1, <3>2
    <2>3. QED
        BY <2>1, <2>2
<1>6. ASSUME NEW p \in Platforms, stamp'[p].gen # NoRun, NEW g \in stamp'[p].ids
      PROVE  rows'[g].app # 0 \/ g \in failed'
    <2>1. CASE p = Unit(w)
        BY <1>3, <1>4, <1>6, <2>1, CommitStamps DEF HasShortcut
    <2>2. CASE p # Unit(w)
        <3>1. stamp'[p] = stamp[p] /\ stamp[p] \in Stamp
            BY <1>1, <2>2, CommitElsewhere
        <3>2. g \in Games /\ (rows[g].app # 0 \/ g \in failed)
            BY <1>6, <3>1 DEF Stamp, RowInv, SkipIsSafe
        <3>3. QED
            BY <1>3, <3>2, CommitWrites DEF HasShortcut
    <2>3. QED
        BY <2>1, <2>2
<1>7. QED
    BY <1>5, <1>6 DEF GenerationsHonest, SkipIsSafe

LEMMA CommitGoesOn ==
    ASSUME ShapeInv, CoverInv, RowInv, NEW r \in Runs, CommitChunk(r)
    PROVE  RowsOf(r)'
<1> DEFINE w == works[r]
           T == Chunk(w).rows
<1>1. /\ works \in [Runs -> Work] /\ w \in Work /\ UnitOf(w) /\ w.pc = "commit"
      /\ RowsOf(r) /\ stamp \in [Platforms -> Stamp] /\ failed' = failed
    BY DEF ShapeInv, WorksInv, CommitChunk, At, DiskInv, RowInv, historyVars
<1>2. /\ T \subseteq w.fetched /\ w.fetched \subseteq Games
      /\ Unit(w) \in Platforms /\ w.at \in Nat \ {0} /\ w.chunk \in Nat
    BY <1>1, ChunkIs DEF Sending, Work
<1>3. /\ \A g \in Games \ T : rows'[g] = rows[g]
      /\ \A g \in T : g \in Games /\ rows'[g].here /\ rows'[g].gen = r /\ (HasShortcut(g)' \/ g \in failed)
      /\ \A g \in Games : HasShortcut(g) => HasShortcut(g)'
    BY CommitWrites
<1>4. \A g \in Games : rows'[g].gen = r => g \in GamesBefore(w.at - 1) \/ g \in w.fetched
    BY <1>1, <1>2, <1>3 DEF RowsOf, GensOf, Working, InUnit
<1>5. CASE IsLastChunk(w)
    <2> DEFINE at == w.at + 1
               whole == w.whole \cup {Unit(w)}
    <2>1. works' = [works EXCEPT ![r] = NextUnit(at, whole)]
        BY <1>5 DEF CommitChunk, NextUnit
    <2>2. at - 1 = w.at
        BY <1>2
    <2> HIDE DEF at, whole
    <2>3. works'[r].pc = "unit" /\ works'[r].at = at
        BY <1>1, <2>1 DEF NextUnit, Idle
    <2>4. \A g \in Games : rows'[g].gen = r => g \in GamesBefore(at - 1)
        BY <1>1, <1>4, <2>2, DoneGrows DEF Sending
    <2>5. GensOf(r)'
        BY <2>3, <2>4 DEF GensOf
    <2>6. QED
        BY <2>3, <2>5 DEF RowsOf, UnsentOf, CommittedOf, UnitOpen, Sending
<1>6. CASE ~IsLastChunk(w)
    <2> DEFINE next == w.chunk + 1
               v == [w EXCEPT !.pc = "dispatch", !.chunk = next, !.answer = NoApps]
    <2>1. works' = [works EXCEPT ![r] = v] /\ box' = box /\ stamp' = stamp
        BY <1>1, <1>6 DEF CommitChunk, StampIfLast
    <2>2. next - 1 = w.chunk
        BY <1>2
    <2> HIDE DEF next
    <2>3. /\ v.pc = "dispatch" /\ v.at = w.at /\ v.fetched = w.fetched /\ v.chunks = w.chunks
          /\ v.chunk = next
        BY <1>1 DEF Work
    <2> HIDE DEF v
    <2>4. works'[r] = v
        BY <1>1, <2>1
    <2>5. GensOf(r)'
        BY <1>4, <2>3, <2>4 DEF GensOf, Sending
    <2>6. \A c \in DOMAIN w.chunks : w.chunks[c].rows \subseteq Games
        <3>1. w.chunks \in Seq(ChunkSet)
            BY <1>1 DEF Work
        <3>2. \A c \in DOMAIN w.chunks : w.chunks[c] \in ChunkSet
            BY <3>1
        <3>3. QED
            BY <3>2 DEF ChunkSet
    <2>7. UnsentOf(r)'
        BY <1>1, <1>3, <2>3, <2>4, <2>6 DEF UnsentOf, RowsOf, Sending
    <2>8. CommittedOf(r)'
        <3> SUFFICES ASSUME NEW c \in 1..w.chunk, NEW g \in w.chunks[c].rows
                     PROVE  rows'[g].here /\ rows'[g].gen = r /\ (HasShortcut(g)' \/ g \in failed')
            BY <2>2, <2>3, <2>4 DEF CommittedOf
        <3>1. CASE c = w.chunk
            BY <1>1, <1>3, <3>1 DEF Chunk
        <3>2. CASE c # w.chunk
            <4>1. c \in 1..(w.chunk - 1) /\ c \in DOMAIN w.chunks
                <5>1. w.chunk \in DOMAIN w.chunks /\ DOMAIN w.chunks = 1..Len(w.chunks) /\ Len(w.chunks) \in Nat
                    BY <1>1 DEF UnitOf, Sending, ChunksOf
                <5>2. QED
                    BY <1>2, <3>2, <5>1
            <4>2. g \in Games /\ rows[g].here /\ rows[g].gen = r /\ (HasShortcut(g) \/ g \in failed)
                BY <1>1, <2>6, <4>1 DEF RowsOf, CommittedOf, Sending
            <4>3. QED
                BY <1>1, <1>3, <4>2
        <3>3. QED
            BY <3>1, <3>2
    <2>9. UnitOpen(r)'
        <3>1. Unit(v) = Unit(w)
            BY <2>3 DEF Unit
        <3>2. QED
            BY <1>1, <2>1, <2>3, <2>4, <3>1 DEF UnitOpen, RowsOf, Sending, Unit
    <2>10. QED
        BY <2>5, <2>7, <2>8, <2>9 DEF RowsOf
<1>7. QED
    BY <1>5, <1>6

LEMMA CommitRowInv ==
    ASSUME RecordInv, ShapeInv, CoverInv, RowInv, NEW r \in Runs, CommitChunk(r)
    PROVE  RowInv'
<1>1. /\ works \in [Runs -> Work] /\ works[r] \in Work /\ UnitOf(works[r]) /\ SlotInv
      /\ works[r].pc = "commit"
    BY DEF ShapeInv, WorksInv, RecordInv, CommitChunk, At
<1>2. /\ \A g \in Games \ Chunk(works[r]).rows : rows'[g] = rows[g]
      /\ \A g \in Chunk(works[r]).rows : rows'[g].here /\ rows'[g].gen = r
    BY CommitWrites
<1>3. \A g \in Games : rows'[g].gen # NoRun => rows'[g].here
    BY <1>2 DEF RowInv
<1>4. ASSUME NEW q \in Runs, q # r
      PROVE  RowsOf(q)'
    <2>1. works'[q] = works[q]
        BY <1>1, <1>4 DEF CommitChunk
    <2>2. ~Lives(q)
        BY <1>1, <1>4 DEF SlotInv, Lives
    <2>3. works'[q].pc \notin {"clear"} \cup Sending
        BY <2>1, <2>2 DEF Lives, Sending
    <2>4. \A g \in Games : rows'[g].gen = q => rows[g].gen = q
        BY <1>2, <1>4
    <2>5. GensOf(q)'
        BY <2>1, <2>4 DEF RowInv, RowsOf, GensOf
    <2>6. QED
        BY <2>3, <2>5 DEF RowsOf, UnsentOf, CommittedOf, UnitOpen
<1>5. \A q \in Runs : RowsOf(q)'
    BY <1>4, CommitGoesOn
<1>6. QED
    BY <1>3, <1>5, CommitHonestly DEF RowInv

LEMMA GotoAdvances ==
    ASSUME WorksInv, NEW r \in Runs, NEW pc, Goto(r, pc), pc \notin {"clear"} \cup Sending,
           pc \in Working => works[r].pc \in Working \ Sending
    PROVE  Unsent(r) /\ Advances(r)
<1>1. works \in [Runs -> Work] /\ works' = [works EXCEPT ![r].pc = pc]
    BY DEF WorksInv, Goto
<1>2. works'[r].pc = pc /\ works'[r].at = works[r].at
    BY <1>1 DEF Work
<1>3. QED
    BY <1>2 DEF Unsent, Advances

LEMMA LeaveAdvances ==
    ASSUME WorksInv, NEW r \in Runs, LeaveUnit(r), works[r].pc \in Working
    PROVE  Unsent(r) /\ Advances(r)
<1> DEFINE at == works[r].at + 1
           whole == works[r].whole
<1>1. works \in [Runs -> Work] /\ works' = [works EXCEPT ![r] = NextUnit(at, whole)]
    BY DEF WorksInv, LeaveUnit, NextUnit
<1> HIDE DEF at, whole
<1>2. works'[r].pc = "unit" /\ works'[r].at = at
    BY <1>1 DEF NextUnit, Idle
<1>3. QED
    BY <1>2 DEF Unsent, Advances, Sending, at

\* How a run without a chunk in hand moves on.
LEMMA RunAdvances ==
    ASSUME WorksInv, NEW r \in Runs,
           \/ Begin(r) \/ Plan(r) \/ PlanFails(r) \/ OpenRun(r)
           \/ EndUnits(r) \/ SkipUnit(r) \/ FetchUnit(r)
           \/ (Classify(r) \/ BeginApply(r)) /\ Cancelling
           \/ StopAtChunk(r) \/ PauseForBudget(r) \/ SeeCancel(r) \/ TimeOut(r)
           \/ Raise(r) \/ RecordTerminalStatus(r) \/ MarkErrored(r) \/ Finish(r)
    PROVE  Unsent(r) /\ Advances(r)
<1> USE DEF Sending, Working, InUnit
<1>1. works \in [Runs -> Work] /\ works[r] \in Work
    BY DEF WorksInv
<1>2. CASE Begin(r) \/ Plan(r) \/ PlanFails(r) \/ OpenRun(r)
    <2>1. CASE Begin(r)
        BY <2>1, GotoAdvances DEF Begin, At
    <2>2. CASE Plan(r)
        BY <2>2, GotoAdvances DEF Plan, At
    <2>3. CASE PlanFails(r)
        BY <2>3, GotoAdvances DEF PlanFails, At
    <2>4. CASE OpenRun(r)
        BY <2>4, GotoAdvances DEF OpenRun, At
    <2>5. QED
        BY <1>2, <2>1, <2>2, <2>3, <2>4
<1>3. CASE EndUnits(r)
    BY <1>1, <1>3 DEF EndUnits, Unsent, Advances, Work
<1>4. CASE SkipUnit(r)
    <2> DEFINE at == works[r].at + 1
               whole == works[r].whole \cup {Unit(works[r])}
               v == [works[r] EXCEPT !.at = at, !.whole = whole]
    <2>1. works' = [works EXCEPT ![r] = v] /\ works[r].pc = "unit"
        BY <1>1, <1>4 DEF SkipUnit, TakesUnit, At
    <2> HIDE DEF at, whole
    <2>2. v.at = at /\ v.pc = "unit"
        BY <1>1, <2>1 DEF Work
    <2> HIDE DEF v
    <2>3. works'[r].at = at /\ works'[r].pc = "unit"
        BY <1>1, <2>1, <2>2
    <2>4. QED
        BY <2>1, <2>3 DEF Unsent, Advances, at
<1>5. CASE FetchUnit(r)
    <2>1. works'[r].at = works[r].at /\ works'[r].pc = "fetched" /\ works[r].pc = "unit"
        BY <1>1, <1>5 DEF FetchUnit, TakesUnit, At, Work
    <2>2. QED
        BY <2>1 DEF Unsent, Advances
<1>6. CASE \/ (Classify(r) \/ BeginApply(r)) /\ Cancelling
           \/ StopAtChunk(r) \/ PauseForBudget(r) \/ SeeCancel(r) \/ TimeOut(r)
    <2>1. LeaveUnit(r)
        BY <1>6 DEF Classify, BeginApply, StopAtChunk, PauseForBudget, SeeCancel, TimeOut
    <2>2. works[r].pc \in InUnit
        BY <1>6 DEF Classify, BeginApply, StopAtChunk, PauseForBudget, SeeCancel, TimeOut, At
    <2>3. QED
        BY <2>1, <2>2, LeaveAdvances
<1>7. CASE Raise(r) \/ RecordTerminalStatus(r) \/ MarkErrored(r)
    <2>1. Goto(r, "errored") \/ Goto(r, "finish")
        BY <1>7 DEF Raise, RecordTerminalStatus, MarkErrored
    <2>2. QED
        BY <2>1, GotoAdvances
<1>8. CASE Finish(r)
    BY <1>1, <1>8 DEF Finish, Idle, Unsent, Advances
<1>9. QED
    BY <1>2, <1>3, <1>4, <1>5, <1>6, <1>7, <1>8

\* A run's step changes no other run.
LEMMA OthersRest ==
    ASSUME RecordInv, WorksInv, NEW r \in Runs, RunStep(r)
    PROVE  Others(r)
<1>1. RunTyped /\ works \in [Runs -> Work]
    BY DEF RecordInv, WorksInv
<1>2. CASE \/ Begin(r) \/ Plan(r) \/ PlanFails(r) \/ OpenRun(r)
           \/ SendChunk(r) \/ Raise(r) \/ RecordTerminalStatus(r) \/ MarkErrored(r)
    <2>1. PICK pc : Goto(r, pc)
        BY <1>2 DEF Begin, Plan, PlanFails, OpenRun, SendChunk, Raise, RecordTerminalStatus, MarkErrored
    <2>2. QED
        BY <1>1, <2>1 DEF Goto, Others
<1>3. CASE \/ LeaveUnit(r)
    BY <1>1, <1>3, LeavesQuietly DEF Others
<1>4. CASE EndUnits(r) \/ SkipUnit(r) \/ FetchUnit(r) \/ TakeAnswer(r) \/ CommitChunk(r) \/ Finish(r)
    <2>1. \E v : works' = [works EXCEPT ![r] = v]
        <3>1. CASE EndUnits(r)
            BY <3>1 DEF EndUnits
        <3>2. CASE SkipUnit(r)
            BY <3>2 DEF SkipUnit
        <3>3. CASE FetchUnit(r)
            BY <3>3 DEF FetchUnit
        <3>4. CASE TakeAnswer(r)
            BY <3>4 DEF TakeAnswer
        <3>5. CASE CommitChunk(r)
            BY <3>5 DEF CommitChunk
        <3>6. CASE Finish(r)
            BY <3>6 DEF Finish
        <3>7. QED
            BY <1>4, <3>1, <3>2, <3>3, <3>4, <3>5, <3>6
    <2>2. QED
        BY <1>1, <2>1 DEF Others
<1>5. CASE (Classify(r) \/ BeginApply(r)) /\ ~LeaveUnit(r)
    BY <1>1, <1>5 DEF Classify, BeginApply, Goto, Others
<1>6. CASE StopAtChunk(r) \/ PauseForBudget(r) \/ SeeCancel(r) \/ TimeOut(r)
    BY <1>3, <1>6 DEF StopAtChunk, PauseForBudget, SeeCancel, TimeOut
<1>7. QED
    BY <1>2, <1>3, <1>4, <1>5, <1>6 DEF RunStep

LEMMA SendingGoesOn ==
    ASSUME WorksInv, BoxInv, DiskInv, RowInv, NEW r \in Runs,
           SendChunk(r) \/ TakeAnswer(r) \/ (BeginApply(r) /\ ~Cancelling)
    PROVE  GoesOnSending(r)
<1>1. works \in [Runs -> Work] /\ works[r] \in Work /\ UnitOf(works[r]) /\ RowsOf(r) /\ box \in Box
      /\ stamp \in [Platforms -> Stamp]
    BY DEF WorksInv, RowInv, BoxInv, DiskInv
<1>2. works[r].pc \in {"clear"} \cup Sending
    BY DEF SendChunk, TakeAnswer, BeginApply, At, Sending
<1>3. /\ works'[r].pc \in Sending
      /\ works'[r].at = works[r].at /\ works'[r].fetched = works[r].fetched
      /\ works'[r].chunks = works[r].chunks /\ works'[r].chunk = works[r].chunk
    <2>1. CASE SendChunk(r)
        BY <1>1, <2>1 DEF SendChunk, Goto, Work, Sending
    <2>2. CASE TakeAnswer(r)
        <3>1. PICK k \in box.answer : works' = [works EXCEPT ![r].pc = "commit", ![r].answer = k.app]
            BY <2>2 DEF TakeAnswer
        <3>2. QED
            BY <1>1, <3>1 DEF Work, Sending
    <2>3. CASE BeginApply(r) /\ ~Cancelling
        BY <1>1, <2>3 DEF BeginApply, Goto, Work, Sending
    <2>4. QED
        BY <2>1, <2>2, <2>3
<1>4. Unit(works[r]) \in Platforms
    BY <1>1, <1>2, ChunkIs
<1>5. /\ box'.staging = {[run |-> r, unit |-> Unit(works[r]), games |-> works[r].fetched]}
      /\ stamp'[Unit(works[r])] = NoStamp
    <2>1. CASE SendChunk(r) \/ TakeAnswer(r)
        <3>1. works[r].pc \in Sending
            BY <2>1 DEF SendChunk, TakeAnswer, At, Sending
        <3>2. box'.staging = box.staging /\ stamp' = stamp
            BY <1>1, <2>1 DEF SendChunk, TakeAnswer, diskVars, Box
        <3>3. QED
            BY <1>1, <3>1, <3>2 DEF RowsOf, UnitOpen
    <2>2. CASE BeginApply(r) /\ ~Cancelling
        BY <1>1, <1>4, <2>2 DEF BeginApply, Box
    <2>3. QED
        BY <2>1, <2>2
<1>6. QED
    BY <1>2, <1>3, <1>5 DEF GoesOnSending

LEMMA RunRowInv ==
    ASSUME RecordInv, ShapeInv, CoverInv, RowInv, NEW r \in Runs, RunStep(r)
    PROVE  RowInv'
<1>1. SlotInv /\ WorksInv /\ BoxInv /\ DiskInv /\ slot.run = r
    BY RunStepLives DEF RecordInv, ShapeInv, SlotInv
<1>2. CASE CommitChunk(r)
    BY <1>2, CommitRowInv
<1>3. CASE ~CommitChunk(r)
    <2>1. RowsGrow
        <3>1. rows' = rows /\ failed' = failed
            BY <1>3
            DEF RunStep, Begin, Plan, PlanFails, OpenRun, EndUnits, SkipUnit, FetchUnit, Classify,
                BeginApply, StopAtChunk, PauseForBudget, SendChunk, TakeAnswer, SeeCancel, TimeOut,
                Raise, RecordTerminalStatus, MarkErrored, Finish, diskVars, historyVars
        <3>2. stamp' = stamp \/ stamp' = [stamp EXCEPT ![Unit(works[r])] = NoStamp]
            BY <1>3
            DEF RunStep, Begin, Plan, PlanFails, OpenRun, EndUnits, SkipUnit, FetchUnit, Classify,
                BeginApply, StopAtChunk, PauseForBudget, SendChunk, TakeAnswer, SeeCancel, TimeOut,
                Raise, RecordTerminalStatus, MarkErrored, Finish, diskVars
        <3>3. \A p \in Platforms : stamp'[p] = stamp[p] \/ stamp'[p] = NoStamp
            BY <1>1, <3>2 DEF DiskInv
        <3>4. QED
            BY <3>1, <3>3 DEF RowsGrow, HasShortcut
    <2>2. ASSUME NEW q \in Runs, q # r
          PROVE  RowsOf(q)'
        <3>1. works'[q] = works[q] /\ ~Lives(q)
            BY <1>1, <2>2, OthersRest DEF Others, SlotInv
        <3>2. works[q].pc \notin Sending
            BY <3>1 DEF Lives, Sending
        <3>3. QED
            BY <1>1, <2>1, <3>1, <3>2, SameRows
    <2>3. RowsOf(r)'
        <3>1. CASE Classify(r) /\ ~Cancelling
            BY <1>1, <2>1, <3>1, ClassifyRows
        <3>2. CASE SendChunk(r) \/ TakeAnswer(r) \/ (BeginApply(r) /\ ~Cancelling)
            BY <1>1, <2>1, <3>2, SendingGoesOn, SendingRows
        <3>3. CASE ~(\/ Classify(r) /\ ~Cancelling
                     \/ SendChunk(r) \/ TakeAnswer(r) \/ (BeginApply(r) /\ ~Cancelling))
            <4>1. Unsent(r) /\ Advances(r)
                BY <1>1, <1>3, <3>3, RunAdvances DEF RunStep
            <4>2. QED
                BY <1>1, <2>1, <4>1, UnsentRows
        <3>4. QED
            BY <3>1, <3>2, <3>3
    <2>4. QED
        BY <1>1, <2>1, <2>2, <2>3, GrowsHonestly
<1>4. QED
    BY <1>2, <1>3

LEMMA RestRowInv ==
    ASSUME RecordInv, ShapeInv, RowInv, RowsGrow,
           \A q \in Runs : works'[q] = works[q] \/ (Unsent(q) /\ Advances(q)),
           box'.staging = box.staging \/ \A q \in Runs : works'[q].pc \notin Sending
    PROVE  RowInv'
<1>1. WorksInv /\ DiskInv
    BY DEF ShapeInv
<1>2. \A q \in Runs : RowsOf(q)'
    BY <1>1, SameRows, UnsentRows
<1>3. QED
    BY <1>1, <1>2, GrowsHonestly

LEMMA LateRowsGrow ==
    ASSUME ShapeInv, NEW j \in late, LateCommit(j)
    PROVE  RowsGrow
<1>1. CommitRows(j.rows, j.app, NoRun) /\ UNCHANGED <<stamp, failed>>
    BY DEF LateCommit, historyVars
<1>2. j.app \in Apps /\ rows \in [Games -> Row]
    BY DEF ShapeInv, PassingInv, HeldAnswer, DiskInv
<1>3. \A g \in DOMAIN j.app : j.app[g] # 0
    <2>1. j.app \in [DOMAIN j.app -> 1..Copies]
        BY <1>2, AppsAre
    <2>2. QED
        BY <2>1, LibraryAssumption
<1>4. \A g \in Games : \/ rows'[g] = rows[g]
                       \/ /\ rows'[g].here /\ rows'[g].gen = rows[g].gen
                          /\ rows'[g].app = IF g \in DOMAIN j.app THEN j.app[g] ELSE rows[g].app
    BY <1>1 DEF CommitRows
<1>5. QED
    BY <1>1, <1>3, <1>4 DEF RowsGrow, HasShortcut

LEMMA RowStepInv ==
    RecordInv /\ ShapeInv /\ CoverInv /\ RowInv /\ [Next]_vars => RowInv'
<1> SUFFICES ASSUME RecordInv, ShapeInv, CoverInv, RowInv, [Next]_vars PROVE RowInv'
    OBVIOUS
<1> USE DEF backendVars, diskVars, panelVars, callVars, historyVars
<1>1. RunTyped /\ SlotInv /\ works \in [Runs -> Work] /\ box \in Box /\ rows \in [Games -> Row]
    BY DEF RecordInv, ShapeInv, WorksInv, BoxInv, DiskInv
<1>2. CASE \E r \in Runs : RunStep(r)
    BY <1>2, RunRowInv
<1>3. CASE \E r \in Runs : Start(r)
    <2>1. PICK r \in Runs : Start(r)
        BY <1>3
    <2>2. RowsGrow
        BY <2>1 DEF Start, RowsGrow, HasShortcut
    <2>3. box'.staging = box.staging
        BY <1>1, <2>1 DEF Start, TryBeginRun, Box
    <2>4. \A q \in Runs : works'[q] = works[q] \/ (Unsent(q) /\ Advances(q))
        <3>1. WorksInv /\ Goto(r, "begun") /\ works[r].pc = "none"
            BY <2>1 DEF ShapeInv, Start, At
        <3>2. Unsent(r) /\ Advances(r)
            BY <3>1, GotoAdvances DEF Sending, Working
        <3>3. QED
            BY <1>1, <3>1, <3>2 DEF Goto
    <2>5. QED
        BY <2>2, <2>3, <2>4, RestRowInv
<1>4. CASE Restart
    <2>1. RowsGrow
        BY <1>4 DEF Restart, RowsGrow, HasShortcut
    <2>2. works' = [r \in Runs |-> IF Lives(r) THEN [Idle EXCEPT !.pc = "dead"] ELSE works[r]]
        BY <1>4 DEF Restart
    <2>3. \A q \in Runs : works'[q] = works[q] \/ works'[q].pc = "dead"
        BY <2>2, IdleIs DEF Work
    <2>4. \A q \in Runs : works'[q].pc \notin Sending
        BY <2>2, IdleIs DEF Work, Lives, Sending
    <2>5. QED
        BY <2>1, <2>3, <2>4, RestRowInv DEF Unsent, Advances, Sending, Working, InUnit
<1>5. CASE PanelStep
    <2>1. /\ box' = box /\ works' = works /\ rows' = rows /\ stamp' = stamp
        BY <1>5, PanelLeaves
    <2>2. failed \subseteq failed'
        <3>1. CASE CreateFails
            BY <3>1 DEF CreateFails
        <3>2. CASE TakeFrame \/ DropFrame \/ EndFrame \/ Reload
            BY <3>2 DEF TakeFrame, DropFrame, EndFrame, Reload
        <3>3. CASE UpdateShortcut
            BY <3>3 DEF UpdateShortcut
        <3>4. CASE AdoptOrphan
            BY <3>4 DEF AdoptOrphan
        <3>5. CASE CreateShortcut
            BY <3>5 DEF CreateShortcut
        <3>6. QED
            BY <1>5, <3>1, <3>2, <3>3, <3>4, <3>5 DEF PanelStep
    <2>3. RowsGrow
        BY <2>1, <2>2 DEF RowsGrow, HasShortcut
    <2>4. QED
        BY <2>1, <2>3, RestRowInv
<1>6. CASE CallStep
    <2>1. works' = works /\ box'.staging = box.staging
        BY <1>1, <1>6 DEF CallStep, ReportUnitResults, LateCommit, PressCancel, DeliverCancel, Box
    <2>2. RowsGrow
        <3>1. CASE \E j \in late : LateCommit(j)
            BY <3>1, LateRowsGrow
        <3>2. CASE ~\E j \in late : LateCommit(j)
            BY <1>6, <3>2 DEF CallStep, ReportUnitResults, PressCancel, DeliverCancel, RowsGrow, HasShortcut
        <3>3. QED
            BY <3>1, <3>2
    <2>3. QED
        BY <2>1, <2>2, RestRowInv
<1>7. CASE RommChanges \/ UNCHANGED vars
    <2>1. works' = works /\ box' = box /\ RowsGrow
        BY <1>7 DEF RommChanges, vars, RowsGrow, HasShortcut
    <2>2. QED
        BY <2>1, RestRowInv
<1>8. CASE ClearSyncCache
    <2>1. works' = works /\ box' = box /\ failed' = failed
        BY <1>8 DEF ClearSyncCache
    <2>2. /\ \A p \in Platforms : stamp'[p] = NoStamp
          /\ \A g \in Games : rows'[g] = [rows[g] EXCEPT !.applied = FALSE]
        BY <1>8 DEF ClearSyncCache
    <2>3. \A g \in Games : /\ rows'[g].gen = rows[g].gen /\ rows'[g].here = rows[g].here
                           /\ rows'[g].app = rows[g].app
        <3>1. \A g \in Games : rows[g] \in Row /\ rows'[g] = [rows[g] EXCEPT !.applied = FALSE]
            BY <1>1, <2>2
        <3>2. QED
            BY ONLY <3>1 DEF Row
    <2>4. RowsGrow
        BY <2>1, <2>2, <2>3 DEF RowsGrow, HasShortcut
    <2>5. QED
        BY <2>1, <2>4, RestRowInv
<1>9. QED
    BY <1>2, <1>3, <1>4, <1>5, <1>6, <1>7, <1>8 DEF Next

-----------------------------------------------------------------------------
(* The staging of what is held. *)

Holds(s) ==
    /\ s.run \in Runs /\ Started(s.run)
    /\ s.run = slot.run => Cancelling /\ works[s.run].pc \in {"unit", "final", "errored", "finish"}
    /\ s.run \notin closed => s.rows \subseteq Staged(s.run)

LEMMA HeldIs == HeldInv <=> \A s \in box.stash \cup late : Holds(s)
BY DEF HeldInv, Holds

LEMMA HeldNext == (\A s \in box'.stash \cup late' : Holds(s)') => HeldInv'
BY DEF HeldInv, Holds

LEMMA UnitStaged ==
    ASSUME ShapeInv, RowInv, NEW r \in Runs, works[r].pc \in Sending
    PROVE  Chunk(works[r]).rows \subseteq Staged(r)
<1>1. works[r] \in Work /\ UnitOf(works[r]) /\ RowsOf(r)
    BY DEF ShapeInv, WorksInv, RowInv
<1>2. Chunk(works[r]).rows \subseteq works[r].fetched
    BY <1>1, ChunkIs
<1>3. box.staging = {[run |-> r, unit |-> Unit(works[r]), games |-> works[r].fetched]}
    BY <1>1 DEF RowsOf, UnitOpen
<1>4. works[r].fetched \subseteq Staged(r)
    BY <1>3 DEF Staged
<1>5. QED
    BY <1>2, <1>4

\* What is held is of a run that is closed, or of the one in the slot as it ends.
LEMMA HeldOfClosed ==
    ASSUME AnswerInv, HeldInv, NEW r \in Runs, slot.run = r,
           works[r].pc \notin {"unit", "final", "errored", "finish"},
           NEW s \in box.stash \cup late
    PROVE  s.run \in closed /\ s.run # r
<1>1. Holds(s) /\ r # NoRun
    BY HeldIs DEF Runs, NoRun
<1>2. QED
    BY <1>1 DEF Holds, AnswerInv, OrderInv

LEMMA RunHolds ==
    ASSUME AnswerInv, ShapeInv, RowInv, HeldInv, NEW r \in Runs, RunStep(r)
    PROVE  HeldInv'
<1> USE DEF backendVars, diskVars, panelVars, callVars, historyVars
<1>1. /\ RecordInv /\ RunTyped /\ WorksInv /\ works \in [Runs -> Work] /\ box \in Box /\ slot.run = r
      /\ r # NoRun
    BY RunStepLives DEF AnswerInv, RecordInv, ShapeInv, WorksInv, BoxInv, SlotInv, Runs, NoRun
<1>2. Others(r) /\ closed' = closed /\ late' = late
    <2>1. closed' = closed /\ late' = late
        BY
        DEF RunStep, Begin, Plan, PlanFails, OpenRun, EndUnits, SkipUnit, FetchUnit, Classify,
            BeginApply, StopAtChunk, PauseForBudget, SendChunk, TakeAnswer, SeeCancel, TimeOut,
            CommitChunk, Raise, RecordTerminalStatus, MarkErrored, Finish
    <2>2. QED
        BY <1>1, <2>1, OthersRest
<1>3. works'[r].pc # "none"
    <2>1. CASE BusyStep(r)
        BY <1>1, <2>1, BusyIsQuiet DEF RunQuiet
    <2>2. CASE SendChunk(r)
        BY <1>1, <2>2 DEF SendChunk, Goto
    <2>3. CASE TakeAnswer(r)
        BY <1>1, <2>3 DEF TakeAnswer
    <2>4. CASE SeeCancel(r) \/ TimeOut(r)
        BY <1>1, <2>4, LeavesQuietly DEF SeeCancel, TimeOut
    <2>5. QED
        BY <2>1, <2>2, <2>3, <2>4 DEF RunStep, BusyStep
<1>4. slot'.run \in {slot.run, NoRun} /\ \A q \in Runs : Started(q) => Started(q)'
    <2>1. slot'.run \in {slot.run, NoRun}
        BY <1>1
        DEF RunStep, Begin, Plan, PlanFails, OpenRun, EndUnits, SkipUnit, FetchUnit, Classify,
            BeginApply, StopAtChunk, PauseForBudget, SendChunk, TakeAnswer, SeeCancel, TimeOut,
            CommitChunk, Raise, RecordTerminalStatus, MarkErrored, Finish, RequestCancel, FinishRun,
            RunTyped
    <2>2. QED
        BY <1>2, <1>3, <2>1 DEF Started, At, Others
<1>5. ASSUME NEW s \in box.stash \cup late, s.run \in closed, s.run # r
      PROVE  Holds(s)'
    <2>1. Holds(s)
        BY HeldIs
    <2>2. QED
        BY <1>1, <1>2, <1>4, <1>5, <2>1 DEF Holds, Runs, NoRun
<1>6. CASE works[r].pc \notin {"unit", "final", "errored", "finish"}
    <2>1. \A s \in box.stash \cup late : Holds(s)'
        BY <1>1, <1>5, <1>6, HeldOfClosed
    <2>2. CASE TimeOut(r)
        <3>1. /\ works[r].pc = "wait" /\ works'[r].pc = "unit" /\ Cancelling' /\ slot'.run = r
            BY <1>1, <2>2, LeavesQuietly DEF TimeOut, At, RequestCancel, Cancelling, RunTyped
        <3>2. /\ box'.staging = box.staging
              /\ \A s \in box'.stash : s.run = r /\ s.rows = Chunk(works[r]).rows
            BY <1>1, <2>2 DEF TimeOut, StashAbandonedChunk, Box
        <3>3. Staged(r)' = Staged(r)
            BY <3>2 DEF Staged
        <3>4. Chunk(works[r]).rows \subseteq Staged(r)
            BY <3>1, UnitStaged DEF Sending
        <3>5. \A s \in box'.stash : Holds(s)'
            BY <3>1, <3>2, <3>3, <3>4 DEF Holds, Started, At
        <3>6. QED
            BY <1>2, <2>1, <3>5, HeldNext
    <2>3. CASE ~TimeOut(r)
        <3>1. box'.stash = box.stash
            BY <1>1, <2>3
            DEF RunStep, Begin, Plan, PlanFails, OpenRun, EndUnits, SkipUnit, FetchUnit, Classify,
                BeginApply, StopAtChunk, PauseForBudget, SendChunk, TakeAnswer, SeeCancel,
                CommitChunk, Raise, RecordTerminalStatus, MarkErrored, Finish, ClearActiveUnit, Box
        <3>2. QED
            BY <1>2, <2>1, <3>1, HeldNext
    <2>4. QED
        BY <2>2, <2>3
<1>7. CASE works[r].pc \in {"unit", "final", "errored", "finish"}
    <2>1. \/ EndUnits(r) \/ SkipUnit(r) \/ FetchUnit(r)
          \/ Raise(r) \/ RecordTerminalStatus(r) \/ MarkErrored(r) \/ Finish(r)
        BY <1>7
        DEF RunStep, Begin, Plan, PlanFails, OpenRun, Classify,
            BeginApply, StopAtChunk, PauseForBudget, SendChunk, TakeAnswer, SeeCancel, TimeOut,
            CommitChunk, At
    <2>2. box' = box
        BY <2>1 DEF EndUnits, SkipUnit, FetchUnit, Raise, RecordTerminalStatus, MarkErrored, Finish
    <2>3. Cancelling => \/ works'[r].pc \in {"final", "errored", "finish"} /\ slot' = slot
                        \/ slot'.run = NoRun
        <3>1. CASE EndUnits(r)
            BY <1>1, <3>1 DEF EndUnits
        <3>2. CASE SkipUnit(r) \/ FetchUnit(r)
            BY <3>2 DEF SkipUnit, FetchUnit, TakesUnit
        <3>3. CASE Raise(r) \/ RecordTerminalStatus(r) \/ MarkErrored(r)
            <4>1. slot' = slot /\ (Goto(r, "errored") \/ Goto(r, "finish"))
                BY <3>3 DEF Raise, RecordTerminalStatus, MarkErrored
            <4>2. works'[r].pc \in {"errored", "finish"}
                BY <1>1, <4>1 DEF Goto, RunTyped
            <4>3. QED
                BY <4>1, <4>2
        <3>4. CASE Finish(r)
            BY <1>1, <3>4 DEF Finish, FinishRun
        <3>5. QED
            BY <2>1, <3>1, <3>2, <3>3, <3>4
    <2>4. ASSUME NEW s \in box.stash \cup late
          PROVE  Holds(s)'
        <3>1. Holds(s) /\ Staged(s.run)' = Staged(s.run)
            BY <2>2, HeldIs DEF Staged
        <3>2. CASE s.run = r
            <4>1. Cancelling
                BY <1>1, <3>1, <3>2 DEF Holds
            <4>2. CASE slot'.run = NoRun
                BY <1>1, <1>2, <1>4, <3>1, <3>2, <4>2 DEF Holds
            <4>3. CASE works'[r].pc \in {"final", "errored", "finish"} /\ slot' = slot
                BY <1>2, <1>4, <3>1, <3>2, <4>1, <4>3 DEF Holds, Cancelling
            <4>4. QED
                BY <2>3, <4>1, <4>2, <4>3
        <3>3. CASE s.run # r
            <4>1. s.run \in closed
                BY <1>1, <3>1, <3>3 DEF Holds, AnswerInv, OrderInv
            <4>2. QED
                BY <1>5, <3>3, <4>1
        <3>4. QED
            BY <3>2, <3>3
    <2>5. QED
        BY <1>2, <2>2, <2>4, HeldNext
<1>8. QED
    BY <1>6, <1>7

\* What is held stays, or becomes a late answer; the runs that are held rest.
LEMMA RestHolds ==
    ASSUME HeldInv,
           \A s \in box'.stash \cup late' : \E t \in box.stash \cup late : s.run = t.run /\ s.rows = t.rows,
           box'.staging = box.staging, closed \subseteq closed', works' = works,
           slot'.run = slot.run, Cancelling => Cancelling'
    PROVE  HeldInv'
<1>1. \A q : Staged(q)' = Staged(q)
    BY DEF Staged
<1>2. ASSUME NEW s \in box'.stash \cup late' PROVE Holds(s)'
    <2>1. PICK t \in box.stash \cup late : s.run = t.run /\ s.rows = t.rows
        BY <1>2
    <2>2. Holds(t)
        BY HeldIs
    <2>3. QED
        BY <1>1, <2>1, <2>2 DEF Holds, Started, At
<1>3. QED
    BY <1>2, HeldNext

LEMMA HeldInit == Init => HeldInv
BY DEF Init, EmptyBox, HeldInv

LEMMA HeldStep ==
    AnswerInv /\ ShapeInv /\ RowInv /\ HeldInv /\ [Next]_vars => HeldInv'
<1> SUFFICES ASSUME AnswerInv, ShapeInv, RowInv, HeldInv, [Next]_vars PROVE HeldInv'
    OBVIOUS
<1> USE DEF backendVars, diskVars, panelVars, callVars, historyVars
<1>1. RunTyped /\ works \in [Runs -> Work] /\ box \in Box
    BY DEF AnswerInv, RecordInv, ShapeInv, WorksInv, BoxInv
<1>2. CASE \E r \in Runs : RunStep(r)
    BY <1>2, RunHolds
<1>3. CASE \E r \in Runs : Start(r)
    <2>1. PICK r \in Runs : Start(r)
        BY <1>3
    <2>2. /\ works[r].pc = "none" /\ works' = [works EXCEPT ![r].pc = "begun"]
          /\ slot'.run = r /\ late' = late /\ closed \subseteq closed'
          /\ box'.stash = {} /\ box'.staging = box.staging
        BY <1>1, <2>1 DEF Start, At, TryBeginRun, Goto, Box
    <2>3. ASSUME NEW s \in late PROVE Holds(s)'
        <3>1. Holds(s) /\ Staged(s.run)' = Staged(s.run)
            BY <2>2, HeldIs DEF Staged
        <3>2. s.run # r /\ works'[s.run] = works[s.run]
            BY <1>1, <2>2, <3>1 DEF Holds, Started, At
        <3>3. QED
            BY <2>2, <3>1, <3>2 DEF Holds, Started, At
    <2>4. QED
        BY <2>2, <2>3, HeldNext
<1>4. CASE Restart
    <2>1. box'.stash = {} /\ late' = {}
        BY <1>4 DEF Restart, EmptyBox
    <2>2. QED
        BY <2>1, HeldNext
<1>5. CASE PanelStep
    <2>1. slot' = slot /\ box' = box /\ works' = works /\ late' = late /\ closed' = closed
        BY <1>5, PanelLeaves
    <2>2. QED
        BY <2>1, RestHolds DEF Cancelling
<1>6. CASE \E k \in acks : ReportUnitResults(k)
    <2>1. PICK k \in acks : ReportUnitResults(k)
        BY <1>6
    <2>2. slot' = slot /\ works' = works /\ closed' = closed
        BY <2>1 DEF ReportUnitResults
    <2> DEFINE held(s) == [run |-> s.run, unit |-> s.unit, chunk |-> s.chunk,
                           rows |-> s.rows, app |-> k.app]
    <2>3. /\ box'.staging = box.staging /\ box'.stash \subseteq box.stash
          /\ late' \subseteq late \cup {held(s) : s \in box.stash}
        BY <1>1, <2>1 DEF ReportUnitResults, Box
    <2>4. \A s \in box.stash : held(s).run = s.run /\ held(s).rows = s.rows
        OBVIOUS
    <2> HIDE DEF held
    <2>5. \A s \in box'.stash \cup late' : \E t \in box.stash \cup late : s.run = t.run /\ s.rows = t.rows
        BY <2>3, <2>4
    <2>6. QED
        BY <2>2, <2>3, <2>5, RestHolds DEF Cancelling
<1>7. CASE (\E j \in late : LateCommit(j)) \/ PressCancel \/ RommChanges \/ ClearSyncCache \/ UNCHANGED vars
    <2>1. slot' = slot /\ box' = box /\ works' = works /\ late' \subseteq late /\ closed' = closed
        BY <1>7 DEF LateCommit, PressCancel, RommChanges, ClearSyncCache, vars
    <2>2. QED
        BY <2>1, RestHolds DEF Cancelling
<1>8. CASE \E id \in cancels : DeliverCancel(id)
    <2>1. /\ box' = box /\ works' = works /\ late' = late /\ closed \subseteq closed'
          /\ slot'.run = slot.run /\ (Cancelling => Cancelling')
        BY <1>1, <1>8 DEF DeliverCancel, RequestCancel, Cancelling, RunTyped
    <2>2. QED
        BY <2>1, RestHolds
<1>9. QED
    BY <1>2, <1>3, <1>4, <1>5, <1>6, <1>7, <1>8 DEF Next, CallStep

LEMMA HeldIsStaged == ShapeInv /\ RowInv /\ HeldInv => StagingKept
<1> SUFFICES ASSUME ShapeInv, RowInv, HeldInv PROVE StagingKept
    OBVIOUS
<1>1. \A r \in Runs : At(r, "commit") => Chunk(works[r]).rows \subseteq Staged(r)
    BY UnitStaged DEF At, Sending
<1>2. \A s \in box.stash \cup late : s.run \notin closed => s.rows \subseteq Staged(s.run)
    BY DEF HeldInv
<1>3. QED
    BY <1>1, <1>2 DEF StagingKept, Staged

-----------------------------------------------------------------------------
(* The games sent, and the shortcuts the panel knows of. *)

\* How many of its unit's chunks a run has sent.
ChunksSent(w) ==
    CASE w.pc \in {"wait", "commit"} -> w.chunk
      [] w.pc = "dispatch" -> w.chunk - 1
      [] OTHER -> 0

SentGames(w) ==
    GamesBefore(w.at - 1) \cup UNION {Elems(w.chunks[c].games) : c \in 1..ChunksSent(w)}

\* A run that works sent the games of a frame of its own.
SentByRun(f) == f.run \in Runs /\ works[f.run].pc \in Working => Elems(f.games) \subseteq SentGames(works[f.run])

\* A run has one frame at most on the wire or at the panel, of games it sent,
\* each once; the panel works by a scan it made for the frame's run.
FrameInv ==
    /\ \A i, j \in DOMAIN wire : wire[i].run = wire[j].run => i = j
    /\ Applying => \A i \in DOMAIN wire : wire[i].run # panel.frame.run
    /\ \A i \in DOMAIN wire : Distinct(wire[i].games) /\ SentByRun(wire[i])
    /\ Applying => /\ Distinct(panel.frame.games) /\ SentByRun(panel.frame)
                   /\ panel.frame.run = panel.scan.run
    /\ panel.scan.run # NoRun => panel.scan.run \in Runs /\ Started(panel.scan.run)

\* The scan tells of every shortcut of the game.
Seen(g) == Of(g, steam) \subseteq panel.scan.bound \cup panel.scan.pool

\* What the scan does not tell of was made or adopted since, for a game its run
\* sent and will not send again.
SteamInv ==
    ~blind =>
        /\ \A g \in Games : \A s, t \in Of(g, steam) : s = t
        /\ Applying => \A g \in Elems(panel.frame.games) : Seen(g)
        /\ \A i \in DOMAIN wire : wire[i].run = panel.scan.run => \A g \in Elems(wire[i].games) : Seen(g)
        /\ panel.scan.run \in Runs /\ works[panel.scan.run].pc \in Working =>
              \A g \in Games : Seen(g) \/ g \in SentGames(works[panel.scan.run])

-----------------------------------------------------------------------------
(* The games a run has sent. *)

LEMMA ChunkGamesAre ==
    ASSUME NEW w \in Work, UnitOf(w), w.pc \in Sending
    PROVE  /\ \A c \in 1..ChunksSent(w) : c \in DOMAIN w.chunks
           /\ \A c \in DOMAIN w.chunks : Elems(w.chunks[c].games) \subseteq w.fetched
           /\ w.chunk \in DOMAIN w.chunks /\ w.chunk \in Nat \ {0}
<1>1. /\ ChunksOf(w.chunks, w.fetched) /\ w.chunk \in DOMAIN w.chunks /\ w.chunk \in Nat \ {0}
    BY DEF UnitOf, Work
<1>2. /\ DOMAIN w.chunks = 1..Len(w.chunks) /\ Len(w.chunks) \in Nat
      /\ \A c \in DOMAIN w.chunks : Elems(w.chunks[c].games) \subseteq w.fetched
    BY <1>1 DEF ChunksOf
<1>3. ChunksSent(w) \in {w.chunk, w.chunk - 1}
    BY DEF ChunksSent, Sending
<1>4. \A c \in 1..ChunksSent(w) : c \in DOMAIN w.chunks
    BY <1>1, <1>2, <1>3
<1>5. QED
    BY <1>1, <1>2, <1>4

LEMMA SentBounded ==
    ASSUME NEW w \in Work, UnitOf(w)
    PROVE  /\ SentGames(w) \subseteq GamesBefore(w.at)
           /\ w.pc \notin Sending => SentGames(w) = GamesBefore(w.at - 1)
<1>1. w.pc \notin Sending => SentGames(w) = GamesBefore(w.at - 1)
    <2>1. w.pc \notin Sending => ChunksSent(w) = 0
        BY DEF ChunksSent, Sending
    <2>2. 1..0 = {}
        OBVIOUS
    <2>3. QED
        BY <2>1, <2>2 DEF SentGames
<1>2. CASE w.pc \in Sending
    <2>1. \A c \in 1..ChunksSent(w) : Elems(w.chunks[c].games) \subseteq w.fetched
        BY <1>2, ChunkGamesAre
    <2>2. w.fetched \subseteq GamesBefore(w.at) /\ GamesBefore(w.at - 1) \subseteq GamesBefore(w.at)
        BY <1>2, DoneGrows
    <2>3. QED
        BY <1>1, <1>2, <2>1, <2>2 DEF SentGames
<1>3. QED
    BY <1>1, <1>2, DoneGrows

LEMMA ChunkUnsent ==
    ASSUME NEW w \in Work, UnitOf(w), w.pc = "dispatch"
    PROVE  Elems(Chunk(w).games) \cap SentGames(w) = {}
<1>1. /\ w.chunk \in DOMAIN w.chunks /\ w.chunk \in Nat \ {0} /\ ChunksOf(w.chunks, w.fetched)
      /\ Elems(Chunk(w).games) \subseteq w.fetched
      /\ \A c \in 1..ChunksSent(w) : c \in DOMAIN w.chunks
    BY ChunkGamesAre DEF Sending, UnitOf, Chunk
<1>2. w.fetched \subseteq Listed(Unit(w)) /\ w.at \in DOMAIN Queue
    BY DEF UnitOf, InUnit
<1>3. \A g \in Elems(Chunk(w).games) : g \notin GamesBefore(w.at - 1)
    BY <1>1, <1>2, NotBefore DEF Unit
<1>4. ChunksSent(w) = w.chunk - 1
    BY DEF ChunksSent
<1>5. \A c \in 1..ChunksSent(w) : c \in DOMAIN w.chunks /\ c # w.chunk
    BY <1>1, <1>4
<1>6. \A c \in 1..ChunksSent(w) : Elems(w.chunks[c].games) \cap Elems(w.chunks[w.chunk].games) = {}
    BY <1>1, <1>5 DEF ChunksOf
<1>7. QED
    BY <1>3, <1>6 DEF SentGames, Chunk

\* A run that goes on working has sent what it had.
SentGrows(r) ==
    works'[r].pc \in Working => works[r].pc \in Working /\ SentGames(works[r]) \subseteq SentGames(works[r])'

LEMMA SameSent ==
    ASSUME NEW r \in Runs, works'[r] = works[r]
    PROVE  SentGrows(r)
BY DEF SentGrows, SentGames, ChunksSent

LEMMA AdvanceSent ==
    ASSUME WorksInv, NEW r \in Runs, Unsent(r), Advances(r)
    PROVE  SentGrows(r)
<1>1. works[r] \in Work /\ UnitOf(works[r]) /\ works[r].at \in Nat
    BY DEF WorksInv, Work
<1>2. SUFFICES ASSUME works'[r].pc \in Working
               PROVE  works[r].pc \in Working /\ SentGames(works[r]) \subseteq SentGames(works[r])'
    BY DEF SentGrows
<1>3. works[r].pc \in Working
    BY <1>2 DEF Advances
<1>4. GamesBefore(works'[r].at - 1) \subseteq SentGames(works[r])'
    BY DEF SentGames
<1>5. CASE works'[r].at = works[r].at /\ works[r].pc \notin Sending
    BY <1>1, <1>3, <1>4, <1>5, SentBounded
<1>6. CASE works'[r].at = works[r].at + 1
    <2>1. works'[r].at - 1 = works[r].at
        BY <1>1, <1>6
    <2>2. QED
        BY <1>1, <1>3, <1>4, <2>1, SentBounded
<1>7. QED
    BY <1>2, <1>5, <1>6 DEF Advances

LEMMA SendingSent ==
    ASSUME WorksInv, NEW r \in Runs, GoesOnSending(r),
           works[r].pc \in {"wait", "commit"} => works'[r].pc \in {"wait", "commit"}
    PROVE  SentGrows(r)
<1>1. works[r] \in Work /\ UnitOf(works[r]) /\ works[r].chunk \in Nat \ {0}
    BY DEF WorksInv, Work
<1>2. works[r].pc \in Working
    BY DEF GoesOnSending, Working, InUnit, Sending
<1>3. 1..ChunksSent(works[r]) \subseteq 1..ChunksSent(works[r])'
    <2>1. works[r].pc = "clear" => works[r].chunk = 1
        BY <1>1 DEF UnitOf, Working, InUnit, Sending
    <2>2. /\ ChunksSent(works[r]) \in {w \in {0, works[r].chunk - 1, works[r].chunk} : TRUE}
          /\ ChunksSent(works[r])' \in {works[r].chunk - 1, works[r].chunk}
          /\ ChunksSent(works[r]) = works[r].chunk => ChunksSent(works[r])' = works[r].chunk
        BY <1>1, <2>1 DEF ChunksSent, GoesOnSending, Sending
    <2>3. QED
        BY <1>1, <2>2
<1>4. QED
    BY <1>2, <1>3 DEF SentGrows, SentGames, GoesOnSending

LEMMA RunSent ==
    ASSUME RecordInv, ShapeInv, RowInv, NEW r \in Runs, RunStep(r)
    PROVE  \A q \in Runs : SentGrows(q)
<1>1. WorksInv /\ works \in [Runs -> Work] /\ works[r] \in Work /\ UnitOf(works[r]) /\ BoxInv /\ DiskInv
    BY DEF ShapeInv, WorksInv
<1>2. \A q \in Runs : q # r => SentGrows(q)
    BY <1>1, OthersRest, SameSent DEF Others
<1>3. CASE Classify(r) /\ ~Cancelling
    <2>1. works'[r].pc = "clear" /\ works'[r].at = works[r].at /\ works[r].pc = "fetched"
        <3> DEFINE cs == BuildUnitChunks(Delta(works[r]), works[r].fetched)
        <3>1. works' = [works EXCEPT ![r].pc = "clear", ![r].chunks = cs] /\ works[r].pc = "fetched"
            BY <1>3 DEF Classify, At
        <3> HIDE DEF cs
        <3>2. QED
            BY <1>1, <3>1 DEF Work
    <2>2. SentGames(works[r]) = GamesBefore(works[r].at - 1)
        BY <1>1, <2>1, SentBounded DEF Sending
    <2>3. QED
        BY <1>2, <2>1, <2>2 DEF SentGrows, SentGames, Working, InUnit
<1>4. CASE SendChunk(r) \/ TakeAnswer(r) \/ (BeginApply(r) /\ ~Cancelling)
    <2>1. GoesOnSending(r)
        BY <1>1, <1>4, SendingGoesOn
    <2>2. works[r].pc \in {"wait", "commit"} => works'[r].pc \in {"wait", "commit"}
        <3>1. CASE SendChunk(r) \/ BeginApply(r)
            BY <3>1 DEF SendChunk, BeginApply, At
        <3>2. CASE TakeAnswer(r)
            BY <1>1, <3>2 DEF TakeAnswer
        <3>3. QED
            BY <1>4, <3>1, <3>2
    <2>3. QED
        BY <1>1, <1>2, <2>1, <2>2, SendingSent
<1>5. CASE CommitChunk(r)
    <2> DEFINE w == works[r]
    <2>1. w.pc = "commit" /\ w.chunk \in Nat \ {0} /\ w.at \in Nat \ {0}
        BY <1>1, <1>5 DEF CommitChunk, At, Work
    <2>2. CASE IsLastChunk(w)
        <3> DEFINE at == w.at + 1
                   whole == w.whole \cup {Unit(w)}
        <3>1. works' = [works EXCEPT ![r] = NextUnit(at, whole)]
            BY <1>5, <2>2 DEF CommitChunk, NextUnit
        <3> HIDE DEF at, whole
        <3>2. works'[r].pc = "unit" /\ works'[r].at = at
            BY <1>1, <3>1 DEF NextUnit, Idle
        <3>3. Unsent(r) /\ Advances(r)
            BY <2>1, <3>2 DEF Unsent, Advances, Sending, Working, InUnit, at
        <3>4. QED
            BY <1>1, <1>2, <3>3, AdvanceSent
    <2>3. CASE ~IsLastChunk(w)
        <3> DEFINE next == w.chunk + 1
                   v == [w EXCEPT !.pc = "dispatch", !.chunk = next, !.answer = NoApps]
        <3>1. works' = [works EXCEPT ![r] = v]
            BY <1>1, <1>5, <2>3 DEF CommitChunk
        <3>2. next - 1 = w.chunk
            BY <2>1
        <3> HIDE DEF next
        <3>3. v.pc = "dispatch" /\ v.at = w.at /\ v.chunks = w.chunks /\ v.chunk = next
            BY <1>1 DEF Work
        <3> HIDE DEF v
        <3>4. works'[r] = v
            BY <1>1, <3>1
        <3>5. ChunksSent(v) = ChunksSent(w)
            BY <2>1, <3>2, <3>3 DEF ChunksSent
        <3>6. SentGames(works[r])' = SentGames(works[r])
            BY <3>3, <3>4, <3>5 DEF SentGames
        <3>7. QED
            BY <1>2, <2>1, <3>6 DEF SentGrows, Working, InUnit
    <2>4. QED
        BY <2>2, <2>3
<1>6. CASE ~(\/ Classify(r) /\ ~Cancelling
             \/ SendChunk(r) \/ TakeAnswer(r) \/ (BeginApply(r) /\ ~Cancelling)
             \/ CommitChunk(r))
    <2>1. Unsent(r) /\ Advances(r)
        BY <1>1, <1>6, RunAdvances DEF RunStep
    <2>2. QED
        BY <1>1, <1>2, <2>1, AdvanceSent
<1>7. QED
    BY <1>3, <1>4, <1>5, <1>6

LEMMA StepSent ==
    ASSUME RecordInv, ShapeInv, RowInv, [Next]_vars
    PROVE  \A q \in Runs : SentGrows(q)
<1>1. WorksInv /\ RunTyped /\ works \in [Runs -> Work]
    BY DEF RecordInv, ShapeInv, WorksInv
<1>2. CASE \E r \in Runs : RunStep(r)
    BY <1>2, RunSent
<1>3. CASE \E r \in Runs : Start(r)
    <2>1. PICK r \in Runs : Start(r)
        BY <1>3
    <2>2. Goto(r, "begun") /\ works[r].pc = "none"
        BY <2>1 DEF Start, At
    <2>3. Unsent(r) /\ Advances(r)
        BY <1>1, <2>2, GotoAdvances DEF Sending, Working
    <2>4. QED
        BY <1>1, <2>2, <2>3, AdvanceSent, SameSent DEF Goto
<1>4. CASE Restart
    <2>1. \A q \in Runs : works'[q] = works[q] \/ works'[q].pc = "dead"
        BY <1>4, IdleIs DEF Restart, Work
    <2>2. QED
        BY <2>1, SameSent DEF SentGrows, Working, InUnit
<1>5. CASE PanelStep \/ CallStep \/ RommChanges \/ ClearSyncCache \/ UNCHANGED vars
    <2>1. works' = works
        <3>1. CASE PanelStep
            BY <3>1, PanelLeaves
        <3>2. CASE CallStep
            BY <3>2 DEF CallStep, ReportUnitResults, LateCommit, PressCancel, DeliverCancel, backendVars
        <3>3. CASE RommChanges \/ ClearSyncCache \/ UNCHANGED vars
            BY <3>3 DEF RommChanges, ClearSyncCache, vars, backendVars
        <3>4. QED
            BY <1>5, <3>1, <3>2, <3>3
    <2>2. QED
        BY <2>1, SameSent
<1>6. QED
    BY <1>2, <1>3, <1>4, <1>5 DEF Next

-----------------------------------------------------------------------------
(* Frames. *)

LEMMA TailDistinct ==
    ASSUME NEW S, NEW s \in Seq(S), s # <<>>, Distinct(s)
    PROVE  /\ Distinct(Tail(s)) /\ Head(s) \notin Elems(Tail(s))
           /\ Elems(Tail(s)) \subseteq Elems(s) /\ Head(s) \in Elems(s)
<1>1. Len(s) \in Nat \ {0} /\ DOMAIN s = 1..Len(s) /\ Head(s) = s[1]
    OBVIOUS
<1>2. DOMAIN Tail(s) = 1..(Len(s) - 1) /\ \A i \in 1..(Len(s) - 1) : Tail(s)[i] = s[i + 1]
    BY <1>1
<1>a. \A i \in DOMAIN Tail(s) : i \in Nat \ {0} /\ i + 1 \in DOMAIN s /\ Tail(s)[i] = s[i + 1]
    BY <1>1, <1>2
<1>3. QED
    BY <1>1, <1>a DEF Distinct, Elems

\* The frames on the wire are those of before, or those but the first.
Shifted(n) == \A i \in DOMAIN wire' : i \in Nat /\ i + n \in DOMAIN wire /\ wire'[i] = wire[i + n]

\* The panel's frame is what is left of the one it had.
FrameLeft ==
    Applying' => /\ Applying
                 /\ panel'.frame.run = panel.frame.run
                 /\ \/ panel'.frame.games = panel.frame.games
                    \/ panel.frame.games # <<>> /\ panel'.frame.games = Tail(panel.frame.games)
                 /\ panel'.scan.run = panel.scan.run

LEMMA SentStays ==
    ASSUME \A q \in Runs : SentGrows(q), NEW f, SentByRun(f), NEW g,
           g.run = f.run, Elems(g.games) \subseteq Elems(f.games)
    PROVE  g.run \in Runs /\ works'[g.run].pc \in Working => Elems(g.games) \subseteq SentGames(works[g.run])'
BY DEF SentByRun, SentGrows

LEMMA FramesPass ==
    ASSUME ShapeInv, FrameInv, \A q \in Runs : SentGrows(q) /\ (Started(q) => Started(q)'),
           NEW n \in {0, 1}, Shifted(n), FrameLeft, panel'.scan.run \in {panel.scan.run, NoRun}
    PROVE  FrameInv'
<1>1. panel \in Panel
    BY DEF ShapeInv, PassingInv
<1>2. \A i, j \in DOMAIN wire' : wire'[i].run = wire'[j].run => i = j
    BY DEF Shifted, FrameInv
<1>3. Applying' => \A i \in DOMAIN wire' : wire'[i].run # panel'.frame.run
    BY DEF Shifted, FrameInv, FrameLeft
<1>4. \A i \in DOMAIN wire' : Distinct(wire'[i].games) /\ SentByRun(wire[i])'
    BY SentStays DEF Shifted, FrameInv, SentByRun
<1>5. Applying' => Distinct(panel'.frame.games) /\ SentByRun(panel.frame)' /\ panel'.frame.run = panel'.scan.run
    <2> SUFFICES ASSUME Applying'
                 PROVE  Distinct(panel'.frame.games) /\ SentByRun(panel.frame)' /\ panel'.frame.run = panel'.scan.run
        OBVIOUS
    <2>1. /\ Applying /\ panel'.frame.run = panel.frame.run /\ panel'.scan.run = panel.scan.run
          /\ Distinct(panel.frame.games) /\ SentByRun(panel.frame) /\ panel.frame.run = panel.scan.run
        BY DEF FrameInv, FrameLeft
    <2>2. Distinct(panel'.frame.games) /\ Elems(panel'.frame.games) \subseteq Elems(panel.frame.games)
        <3>1. panel.frame.games \in Seq(Games)
            BY <1>1 DEF Panel, Frame
        <3>2. CASE panel'.frame.games = panel.frame.games
            BY <2>1, <3>2
        <3>3. CASE panel.frame.games # <<>> /\ panel'.frame.games = Tail(panel.frame.games)
            BY <2>1, <3>1, <3>3, TailDistinct
        <3>4. QED
            BY <3>2, <3>3 DEF FrameLeft
    <2>3. SentByRun(panel.frame)'
        BY <2>1, <2>2, SentStays DEF SentByRun
    <2>4. QED
        BY <2>1, <2>2, <2>3
<1>6. panel'.scan.run # NoRun => panel'.scan.run \in Runs /\ Started(panel.scan.run)'
    BY DEF FrameInv, Started, At
<1>7. QED
    BY <1>2, <1>3, <1>4, <1>5, <1>6 DEF FrameInv

LEMMA SendFrames ==
    ASSUME AnswerInv, ShapeInv, ClosedInv, FrameInv, \A q \in Runs : SentGrows(q) /\ (Started(q) => Started(q)'),
           NEW r \in Runs, slot.run = r, SendChunk(r)
    PROVE  FrameInv'
<1> DEFINE w == works[r]
           f == [run |-> slot.run, unit |-> Unit(w), chunk |-> w.chunk, games |-> Chunk(w).games]
           last == Len(wire) + 1
<1>1. /\ works \in [Runs -> Work] /\ w \in Work /\ UnitOf(w) /\ wire \in Seq(Frame) /\ w.pc = "dispatch"
      /\ ~Cancelling
    BY DEF ShapeInv, WorksInv, PassingInv, SendChunk, At
<1>2. LiveWire = {} /\ ~LivePanel /\ r \notin closed
    BY <1>1, SendsAlone DEF ClosedInv, Runs, NoRun
<1>3. wire' = Append(wire, f) /\ panel' = panel /\ works' = [works EXCEPT ![r].pc = "wait"]
    BY DEF SendChunk, Goto
<1>4. f.run = r /\ f.games = Chunk(w).games
    OBVIOUS
<1>5. Distinct(f.games) /\ Elems(f.games) \subseteq SentGames(works[r])'
    <2>1. Distinct(Chunk(w).games) /\ w.chunk \in DOMAIN w.chunks
        BY <1>1, ChunkIs DEF Sending
    <2>2. w.chunk \in Nat \ {0}
        BY <1>1 DEF Work
    <2>3. works'[r].pc = "wait" /\ works'[r].chunk = w.chunk /\ works'[r].chunks = w.chunks
        BY <1>1, <1>3 DEF Work
    <2>4. w.chunk \in 1..ChunksSent(works[r])'
        BY <2>2, <2>3 DEF ChunksSent
    <2>5. QED
        BY <1>4, <2>1, <2>3, <2>4 DEF SentGames, Chunk
<1> HIDE DEF f
<1>6. /\ \A i \in DOMAIN wire' : \/ i = last /\ wire'[i] = f
                                 \/ i # last /\ i \in DOMAIN wire /\ wire'[i] = wire[i]
    BY <1>1, <1>3
<1>7. \A i \in DOMAIN wire : wire[i].run # r
    BY <1>2 DEF LiveWire
<1>8. Applying => panel.frame.run # r
    BY <1>2 DEF LivePanel
<1>9. \A i, j \in DOMAIN wire' : wire'[i].run = wire'[j].run => i = j
    BY <1>4, <1>6, <1>7 DEF FrameInv
<1>10. Applying' => \A i \in DOMAIN wire' : wire'[i].run # panel'.frame.run
    BY <1>3, <1>4, <1>6, <1>8 DEF FrameInv, Applying
<1>11. \A i \in DOMAIN wire' : Distinct(wire'[i].games) /\ SentByRun(wire[i])'
    <2> SUFFICES ASSUME NEW i \in DOMAIN wire'
                 PROVE  Distinct(wire'[i].games) /\ SentByRun(wire[i])'
        OBVIOUS
    <2>1. CASE i = last /\ wire'[i] = f
        BY <1>4, <1>5, <2>1 DEF SentByRun
    <2>2. CASE i # last /\ i \in DOMAIN wire /\ wire'[i] = wire[i]
        BY <2>2, SentStays DEF FrameInv, SentByRun
    <2>3. QED
        BY <1>6, <2>1, <2>2
<1>12. Applying' => Distinct(panel'.frame.games) /\ SentByRun(panel.frame)' /\ panel'.frame.run = panel'.scan.run
    BY <1>3, SentStays DEF FrameInv, Applying, SentByRun
<1>13. panel'.scan.run # NoRun => panel'.scan.run \in Runs /\ Started(panel.scan.run)'
    BY <1>3 DEF FrameInv, Started, At
<1>14. QED
    BY <1>9, <1>10, <1>11, <1>12, <1>13 DEF FrameInv

\* The panel's first frame of a run has it scan Steam's shortcuts.
LEMMA ScanIs ==
    ASSUME TakeFrame
    PROVE  /\ panel'.pc = "apply" /\ panel'.frame = Head(wire)
           /\ panel'.scan.run = Head(wire).run
           /\ ~blind' => \/ panel'.scan = panel.scan /\ panel.scan.run = Head(wire).run
                         \/ panel'.scan.bound \cup panel'.scan.pool = steam
           /\ blind => blind'
<1>1. PICK unseen \in {{}} \cup {{s} : s \in steam} :
          LET frame == Head(wire)
              seen == steam \ unseen
              bound == {s \in seen : rows[s[1]].app = s[2]}
              cached == panel.scan.run = frame.run
          IN  /\ IF unseen = {}
                 THEN UNCHANGED <<blind, upsets>>
                 ELSE ~cached /\ Upset /\ blind' = TRUE
              /\ panel' = [pc |-> "apply", frame |-> frame, app |-> NoApps, cancel |-> FALSE,
                           scan |-> IF cached THEN panel.scan
                                    ELSE [run |-> frame.run, bound |-> bound,
                                          pool |-> seen \ bound]]
    BY DEF TakeFrame
<1> DEFINE frame == Head(wire)
           seen == steam \ unseen
           bound == {s \in seen : rows[s[1]].app = s[2]}
           pool == seen \ bound
           fresh == [run |-> frame.run, bound |-> bound, pool |-> pool]
           scan == IF panel.scan.run = frame.run THEN panel.scan ELSE fresh
<1>2. /\ panel' = [pc |-> "apply", frame |-> frame, app |-> NoApps, cancel |-> FALSE, scan |-> scan]
      /\ ~blind' => unseen = {} /\ ~blind
    BY <1>1
<1>3. unseen = {} => bound \cup pool = steam
    OBVIOUS
<1> HIDE DEF bound, pool
<1>4. /\ scan.run = frame.run
      /\ scan = panel.scan \/ (scan.bound = bound /\ scan.pool = pool)
    OBVIOUS
<1>a. panel.scan.run # frame.run \/ scan = panel.scan
    OBVIOUS
<1> HIDE DEF scan
<1>5. panel'.pc = "apply" /\ panel'.frame = frame /\ panel'.scan = scan
    BY <1>2
<1>6. QED
    BY <1>2, <1>3, <1>4, <1>5, <1>a

LEMMA TakeFrames ==
    ASSUME AnswerInv, ShapeInv, FrameInv, \A q \in Runs : SentGrows(q) /\ (Started(q) => Started(q)'),
           TakeFrame
    PROVE  FrameInv'
<1>1. wire \in Seq(Frame) /\ WireTyped /\ SentInv /\ panel \in Panel
    BY DEF ShapeInv, PassingInv, AnswerInv, MessageInv
<1>2. wire # <<>> /\ wire' = Tail(wire)
    BY DEF TakeFrame
<1>3. /\ 1 \in DOMAIN wire /\ Head(wire) = wire[1]
      /\ \A i \in DOMAIN wire' : i + 1 \in DOMAIN wire /\ i + 1 # 1 /\ wire'[i] = wire[i + 1] /\ i \in Nat
    BY <1>1, <1>2, TailShifts
<1>4. panel'.frame = wire[1] /\ panel'.scan.run = wire[1].run
    BY <1>3, ScanIs
<1>5. \A i, j \in DOMAIN wire' : wire'[i].run = wire'[j].run => i = j
    BY <1>3 DEF FrameInv
<1>6. \A i \in DOMAIN wire' : wire'[i].run # panel'.frame.run
    BY <1>3, <1>4 DEF FrameInv
<1>7. \A i \in DOMAIN wire' : Distinct(wire'[i].games) /\ SentByRun(wire[i])'
    <2> SUFFICES ASSUME NEW i \in DOMAIN wire'
                 PROVE  Distinct(wire'[i].games) /\ SentByRun(wire[i])'
        OBVIOUS
    <2>1. wire'[i] = wire[i + 1] /\ Distinct(wire[i + 1].games) /\ SentByRun(wire[i + 1])
        BY <1>3 DEF FrameInv
    <2>2. QED
        BY <2>1, SentStays DEF SentByRun
<1>8. Distinct(panel'.frame.games) /\ SentByRun(panel.frame)'
    BY <1>3, <1>4, SentStays DEF FrameInv, SentByRun
<1>9. panel'.scan.run \in Runs /\ Started(panel.scan.run)'
    <2>1. wire[1].run \in Runs /\ Started(wire[1].run)
        BY <1>1, <1>3 DEF SentInv
    <2>2. works'[wire[1].run].pc # "none"
        BY <2>1 DEF Started, At
    <2>3. QED
        BY <1>4, <2>1, <2>2 DEF Started, At
<1>10. QED
    BY <1>4, <1>5, <1>6, <1>7, <1>8, <1>9 DEF FrameInv

-----------------------------------------------------------------------------
(* Shortcuts. *)

LEMMA FrameShrinks ==
    ASSUME ShapeInv, FrameLeft, Applying'
    PROVE  Elems(panel'.frame.games) \subseteq Elems(panel.frame.games)
<1>1. panel.frame.games \in Seq(Games)
    BY DEF ShapeInv, PassingInv, Panel, Frame
<1>2. CASE panel'.frame.games = panel.frame.games
    BY <1>2
<1>3. CASE panel.frame.games # <<>> /\ panel'.frame.games = Tail(panel.frame.games)
    BY <1>1, <1>3, HeadTail
<1>4. QED
    BY <1>2, <1>3 DEF FrameLeft

LEMMA SteamPasses ==
    ASSUME ShapeInv, SteamInv, \A q \in Runs : SentGrows(q),
           NEW n \in {0, 1}, Shifted(n), FrameLeft,
           steam' = steam, panel'.scan = panel.scan, blind => blind'
    PROVE  SteamInv'
<1> SUFFICES ASSUME ~blind'
             PROVE  /\ \A g \in Games : \A s, t \in Of(g, steam') : s = t
                    /\ Applying' => \A g \in Elems(panel'.frame.games) : Seen(g)'
                    /\ \A i \in DOMAIN wire' : wire'[i].run = panel'.scan.run =>
                          \A g \in Elems(wire'[i].games) : Seen(g)'
                    /\ panel'.scan.run \in Runs /\ works'[panel'.scan.run].pc \in Working =>
                          \A g \in Games : Seen(g)' \/ g \in SentGames(works[panel.scan.run])'
    BY DEF SteamInv, Of
<1>1. ~blind
    OBVIOUS
<1>2. \A g : Seen(g) => Seen(g)'
    BY DEF Seen, Of
<1>3. \A g \in Games : \A s, t \in Of(g, steam') : s = t
    BY <1>1 DEF SteamInv
<1>4. Applying' => \A g \in Elems(panel'.frame.games) : Seen(g)'
    BY <1>1, <1>2, FrameShrinks DEF SteamInv, FrameLeft
<1>5. \A i \in DOMAIN wire' : wire'[i].run = panel'.scan.run => \A g \in Elems(wire'[i].games) : Seen(g)'
    BY <1>1, <1>2 DEF SteamInv, Shifted
<1>6. panel'.scan.run \in Runs /\ works'[panel'.scan.run].pc \in Working =>
          \A g \in Games : Seen(g)' \/ g \in SentGames(works[panel.scan.run])'
    BY <1>1, <1>2 DEF SteamInv, SentGrows
<1>7. QED
    BY <1>3, <1>4, <1>5, <1>6

LEMMA SendSteam ==
    ASSUME AnswerInv, ShapeInv, FrameInv, SteamInv, \A q \in Runs : SentGrows(q),
           NEW r \in Runs, slot.run = r, SendChunk(r)
    PROVE  SteamInv'
<1> DEFINE w == works[r]
           f == [run |-> slot.run, unit |-> Unit(w), chunk |-> w.chunk, games |-> Chunk(w).games]
<1> SUFFICES ASSUME ~blind'
             PROVE  /\ \A g \in Games : \A s, t \in Of(g, steam') : s = t
                    /\ Applying' => \A g \in Elems(panel'.frame.games) : Seen(g)'
                    /\ \A i \in DOMAIN wire' : wire'[i].run = panel'.scan.run =>
                          \A g \in Elems(wire'[i].games) : Seen(g)'
                    /\ panel'.scan.run \in Runs /\ works'[panel'.scan.run].pc \in Working =>
                          \A g \in Games : Seen(g)' \/ g \in SentGames(works[panel.scan.run])'
    BY DEF SteamInv, Of
<1>1. w \in Work /\ UnitOf(w) /\ w.pc = "dispatch" /\ wire \in Seq(Frame)
    BY DEF ShapeInv, WorksInv, PassingInv, SendChunk, At
<1>2. wire' = Append(wire, f) /\ panel' = panel /\ steam' = steam /\ ~blind
    BY DEF SendChunk, historyVars
<1>3. \A g : Seen(g) => Seen(g)'
    BY <1>2 DEF Seen, Of
<1>4. r = panel.scan.run => \A g \in Elems(Chunk(w).games) : Seen(g)
    <2>1. Elems(Chunk(w).games) \cap SentGames(w) = {} /\ Elems(Chunk(w).games) \subseteq Games
        <3>1. Chunk(w) \in ChunkSet
            BY <1>1, ChunkIs DEF Sending
        <3>2. Chunk(w).games \in Seq(Games)
            BY <3>1 DEF ChunkSet
        <3>3. QED
            BY <1>1, <3>2, ChunkUnsent DEF Elems
    <2>2. w.pc \in Working
        BY <1>1 DEF Working, InUnit
    <2>3. QED
        BY <1>2, <2>1, <2>2 DEF SteamInv
<1>5. f.run = r /\ f.games = Chunk(w).games
    OBVIOUS
<1> HIDE DEF f, w
<1>6. \A i \in DOMAIN wire' : wire'[i] = f \/ (i \in DOMAIN wire /\ wire'[i] = wire[i])
    BY <1>1, <1>2
<1>7. \A i \in DOMAIN wire' : wire'[i].run = panel'.scan.run => \A g \in Elems(wire'[i].games) : Seen(g)'
    BY <1>2, <1>3, <1>4, <1>5, <1>6 DEF SteamInv
<1>8. Applying' => \A g \in Elems(panel'.frame.games) : Seen(g)'
    BY <1>2, <1>3 DEF SteamInv, Applying
<1>9. panel'.scan.run \in Runs /\ works'[panel'.scan.run].pc \in Working =>
          \A g \in Games : Seen(g)' \/ g \in SentGames(works[panel.scan.run])'
    BY <1>2, <1>3 DEF SteamInv, SentGrows
<1>10. \A g \in Games : \A s, t \in Of(g, steam') : s = t
    BY <1>2 DEF SteamInv
<1>11. QED
    BY <1>7, <1>8, <1>9, <1>10

LEMMA TakeSteam ==
    ASSUME AnswerInv, ShapeInv, FrameInv, SteamInv, TakeFrame
    PROVE  SteamInv'
<1> SUFFICES ASSUME ~blind'
             PROVE  /\ \A g \in Games : \A s, t \in Of(g, steam') : s = t
                    /\ Applying' => \A g \in Elems(panel'.frame.games) : Seen(g)'
                    /\ \A i \in DOMAIN wire' : wire'[i].run = panel'.scan.run =>
                          \A g \in Elems(wire'[i].games) : Seen(g)'
                    /\ panel'.scan.run \in Runs /\ works'[panel'.scan.run].pc \in Working =>
                          \A g \in Games : Seen(g)' \/ g \in SentGames(works[panel.scan.run])'
    BY DEF SteamInv, Of
<1>1. wire # <<>> /\ wire' = Tail(wire) /\ steam' = steam /\ works' = works /\ ~blind
    BY ScanIs DEF TakeFrame, backendVars
<1>2. WireTyped
    BY DEF AnswerInv, MessageInv
<1>3. /\ 1 \in DOMAIN wire /\ Head(wire) = wire[1]
      /\ \A i \in DOMAIN wire' : i + 1 \in DOMAIN wire /\ i + 1 # 1 /\ wire'[i] = wire[i + 1]
    BY <1>1, <1>2, TailShifts
<1>4. \A g \in Games : \A s, t \in Of(g, steam') : s = t
    BY <1>1 DEF SteamInv
<1>5. CASE panel'.scan.bound \cup panel'.scan.pool = steam
    <2>1. \A g : Seen(g)'
        BY <1>1, <1>5 DEF Seen, Of
    <2>2. QED
        BY <1>4, <2>1
<1>6. CASE panel'.scan = panel.scan /\ panel.scan.run = Head(wire).run
    <2>1. \A g : Seen(g) => Seen(g)'
        BY <1>1, <1>6 DEF Seen, Of
    <2>2. \A g \in Elems(panel'.frame.games) : Seen(g)'
        BY <1>1, <1>3, <1>6, <2>1, ScanIs DEF SteamInv
    <2>3. \A i \in DOMAIN wire' : wire'[i].run = panel'.scan.run => \A g \in Elems(wire'[i].games) : Seen(g)'
        BY <1>1, <1>3, <1>6, <2>1 DEF SteamInv
    <2>4. panel'.scan.run \in Runs /\ works'[panel'.scan.run].pc \in Working =>
              \A g \in Games : Seen(g)' \/ g \in SentGames(works[panel.scan.run])'
        <3>1. SentGames(works[panel.scan.run])' = SentGames(works[panel.scan.run])
            BY <1>1, <1>6 DEF SentGames, ChunksSent
        <3>2. QED
            BY <1>1, <1>6, <2>1, <3>1 DEF SteamInv
    <2>5. QED
        BY <1>4, <2>2, <2>3, <2>4
<1>7. QED
    BY <1>5, <1>6, ScanIs

\* The game at the head is resolved: it is not left at the panel nor on the way
\* there, and its run sent it.
Resolves(g) ==
    /\ Applying /\ panel.frame.games # <<>> /\ g = Head(panel.frame.games)
    /\ panel'.frame.games = Tail(panel.frame.games) /\ panel'.scan.run = panel.scan.run
    /\ wire' = wire /\ works' = works
    /\ \A h \in Games \ {g} : Of(h, steam') = Of(h, steam) /\ (Seen(h) => Seen(h)')
    /\ \A s, t \in Of(g, steam') : s = t

LEMMA ResolvesSteam ==
    ASSUME ShapeInv, FrameInv, SteamInv, ~blind, NEW g, Resolves(g)
    PROVE  SteamInv'
<1>1. /\ \A h \in Games : \A s, t \in Of(h, steam) : s = t
      /\ \A h \in Elems(panel.frame.games) : Seen(h)
      /\ \A i \in DOMAIN wire : wire[i].run = panel.scan.run => \A h \in Elems(wire[i].games) : Seen(h)
      /\ panel.scan.run \in Runs /\ works[panel.scan.run].pc \in Working =>
            \A h \in Games : Seen(h) \/ h \in SentGames(works[panel.scan.run])
    BY DEF SteamInv, Resolves
<1>2. /\ \A i \in DOMAIN wire : wire[i].run # panel.scan.run
      /\ Distinct(panel.frame.games) /\ SentByRun(panel.frame) /\ panel.frame.run = panel.scan.run
    BY DEF FrameInv, Resolves
<1>3. panel.frame.games \in Seq(Games) /\ panel.frame.games # <<>>
    BY DEF ShapeInv, PassingInv, Panel, Frame, Resolves
<1>4. /\ g \notin Elems(panel'.frame.games) /\ g \in Elems(panel.frame.games)
      /\ Elems(panel'.frame.games) \subseteq Elems(panel.frame.games)
      /\ Elems(panel.frame.games) \subseteq Games
    <2>1. Elems(panel.frame.games) \subseteq Games
        BY <1>3 DEF Elems
    <2>2. QED
        BY <1>2, <1>3, <2>1, TailDistinct DEF Resolves
<1>5. \A h \in Games \ {g} : Of(h, steam') = Of(h, steam) /\ (Seen(h) => Seen(h)')
    BY DEF Resolves
<1>6. \A h \in Games : \A s, t \in Of(h, steam') : s = t
    BY <1>1, <1>5 DEF Resolves
<1>7. \A h \in Elems(panel'.frame.games) : Seen(h)'
    BY <1>1, <1>4, <1>5
<1>8. \A i \in DOMAIN wire' : wire'[i].run # panel'.scan.run
    BY <1>2 DEF Resolves
<1>9. panel'.scan.run \in Runs /\ works'[panel'.scan.run].pc \in Working =>
          \A h \in Games : Seen(h)' \/ h \in SentGames(works[panel.scan.run])'
    <2>1. SUFFICES ASSUME panel.scan.run \in Runs, works[panel.scan.run].pc \in Working, NEW h \in Games
                   PROVE  Seen(h)' \/ h \in SentGames(works[panel.scan.run])'
        BY DEF Resolves
    <2>2. SentGames(works[panel.scan.run])' = SentGames(works[panel.scan.run])
        BY DEF Resolves, SentGames, ChunksSent
    <2>3. g \in SentGames(works[panel.scan.run])
        BY <1>2, <1>4, <2>1 DEF SentByRun
    <2>4. QED
        BY <1>1, <1>5, <2>1, <2>2, <2>3
<1>10. QED
    BY <1>6, <1>7, <1>8, <1>9 DEF SteamInv, Of

LEMMA StaysStarted ==
    ASSUME AnswerInv, ShapeInv, [Next]_vars
    PROVE  \A q \in Runs : Started(q) => Started(q)'
<1>1. RecordInv /\ RunTyped /\ SlotInv /\ WorksInv /\ works \in [Runs -> Work]
    BY DEF AnswerInv, RecordInv, ShapeInv, WorksInv
<1>2. CASE \E r \in Runs : RunStep(r)
    <2>1. PICK r \in Runs : RunStep(r)
        BY <1>2
    <2>2. slot.run = r /\ Others(r)
        BY <1>1, <2>1, RunStepLives, OthersRest DEF SlotInv
    <2>3. works'[r].pc # "none"
        <3>1. CASE BusyStep(r)
            BY <2>2, <3>1, BusyIsQuiet DEF RunQuiet
        <3>2. CASE SendChunk(r)
            BY <1>1, <3>2 DEF SendChunk, Goto
        <3>3. CASE TakeAnswer(r)
            BY <1>1, <3>3 DEF TakeAnswer
        <3>4. CASE SeeCancel(r) \/ TimeOut(r)
            BY <1>1, <3>4, LeavesQuietly DEF SeeCancel, TimeOut
        <3>5. QED
            BY <2>1, <3>1, <3>2, <3>3, <3>4 DEF RunStep, BusyStep
    <2>4. QED
        BY <2>2, <2>3 DEF Others, Started, At
<1>3. CASE \E r \in Runs : Start(r)
    BY <1>1, <1>3 DEF Start, Goto, Started, At
<1>4. CASE Restart
    BY <1>4, IdleIs DEF Restart, Started, At, Work
<1>5. CASE PanelStep \/ CallStep \/ RommChanges \/ ClearSyncCache \/ UNCHANGED vars
    <2>1. works' = works
        <3>1. CASE PanelStep
            BY <3>1, PanelLeaves
        <3>2. CASE CallStep
            BY <3>2 DEF CallStep, ReportUnitResults, LateCommit, PressCancel, DeliverCancel, backendVars
        <3>3. CASE RommChanges \/ ClearSyncCache \/ UNCHANGED vars
            BY <3>3 DEF RommChanges, ClearSyncCache, vars, backendVars
        <3>4. QED
            BY <1>5, <3>1, <3>2, <3>3
    <2>2. QED
        BY <2>1 DEF Started, At
<1>6. QED
    BY <1>2, <1>3, <1>4, <1>5 DEF Next

\* The steps of the panel at a game.
LEMMA GameStep ==
    ASSUME ShapeInv, UpdateShortcut \/ AdoptOrphan \/ CreateShortcut \/ CreateFails
    PROVE  /\ Applying /\ panel.frame.games # <<>>
           /\ panel'.frame.run = panel.frame.run /\ panel'.frame.games = Tail(panel.frame.games)
           /\ panel'.scan.run = panel.scan.run /\ panel'.scan.bound = panel.scan.bound
           /\ panel'.scan.pool \subseteq panel.scan.pool
           /\ ~AdoptOrphan => panel'.scan = panel.scan
           /\ wire' = wire /\ blind' = blind
<1> USE DEF backendVars, diskVars, panelVars, callVars, historyVars
<1>1. panel \in Panel
    BY DEF ShapeInv, PassingInv
<1>2. ASSUME NEW c
      PROVE  /\ Resolved(c).frame.run = panel.frame.run /\ Resolved(c).frame.games = Tail(panel.frame.games)
             /\ Resolved(c).scan = panel.scan /\ "scan" \in DOMAIN Resolved(c)
             /\ {"frame", "pool", "bound", "run"} \subseteq DOMAIN Resolved(c) \cup DOMAIN panel.scan
    BY <1>1 DEF Resolved, Panel, Frame
<1>3. CASE UpdateShortcut \/ CreateShortcut
    <2>1. /\ AtGame /\ wire' = wire /\ blind' = blind
          /\ \E c : panel' = Resolved(c)
        BY <1>3 DEF UpdateShortcut, CreateShortcut, Creates
    <2>2. QED
        BY <1>2, <2>1 DEF AtGame, Applying
<1>5. CASE CreateFails
    <2>1. /\ AtGame /\ wire' = wire /\ blind' = blind
          /\ panel' = [panel EXCEPT !.frame.games = Tail(@)]
        BY <1>5 DEF CreateFails, Creates
    <2>2. QED
        BY <1>1, <2>1 DEF AtGame, Applying, Panel, Frame
<1>6. CASE AdoptOrphan
    <2> DEFINE o == Lowest(Of(Head(panel.frame.games), panel.scan.pool))
               v == Resolved(o[2])
    <2>1. panel' = [v EXCEPT !.scan.pool = @ \ {o}]
        BY <1>6 DEF AdoptOrphan
    <2>2. /\ v.frame.run = panel.frame.run /\ v.frame.games = Tail(panel.frame.games)
          /\ v.scan = panel.scan /\ {"scan", "frame"} \subseteq DOMAIN v
          /\ DOMAIN panel.scan = {"run", "bound", "pool"}
        BY <1>1 DEF Resolved, Panel, Frame
    <2>5. AtGame /\ wire' = wire /\ blind' = blind
        BY <1>6 DEF AdoptOrphan
    <2> HIDE DEF v, o
    <2>3. /\ panel'.frame = v.frame /\ panel'.scan.run = panel.scan.run
          /\ panel'.scan.bound = panel.scan.bound /\ panel'.scan.pool = panel.scan.pool \ {o}
        BY <2>1, <2>2
    <2>6. panel'.scan.pool \subseteq panel.scan.pool
        BY <2>3
    <2>7. Applying /\ panel.frame.games # <<>>
        BY <2>5 DEF AtGame, Applying
    <2>4. QED
        BY ONLY <1>6, <2>2, <2>3, <2>5, <2>6, <2>7
<1>7. QED
    BY <1>3, <1>5, <1>6

\* Every other step leaves the frames as they are, or drops some.
Lets(n) ==
    /\ Shifted(n) /\ FrameLeft /\ (blind => blind')
    /\ \/ panel'.scan = panel.scan /\ (steam' = steam \/ AdoptOrphan \/ CreateShortcut)
       \/ AdoptOrphan
       \/ Reload
    /\ panel'.scan.run \in {panel.scan.run, NoRun}

LEMMA RunLets ==
    ASSUME ShapeInv, NEW r \in Runs, RunStep(r) \/ Start(r), ~SendChunk(r)
    PROVE  Lets(0)
<1>1. panel \in Panel /\ wire \in Seq(Frame)
    BY DEF ShapeInv, PassingInv
<1>2. (panel' = panel \/ panel' = [panel EXCEPT !.cancel = FALSE]) /\ wire' = wire /\ steam' = steam
      /\ blind' = blind
    BY
    DEF Start, RunStep, Begin, Plan, PlanFails, OpenRun, EndUnits, SkipUnit, FetchUnit, Classify,
        BeginApply, StopAtChunk, PauseForBudget, TakeAnswer, SeeCancel, TimeOut,
        CommitChunk, Raise, RecordTerminalStatus, MarkErrored, Finish, panelVars, historyVars
<1>3. panel'.frame = panel.frame /\ panel'.scan = panel.scan /\ panel'.pc = panel.pc
    BY <1>1, <1>2 DEF Panel
<1>4. Shifted(0)
    BY <1>1, <1>2 DEF Shifted
<1>5. QED
    BY <1>2, <1>3, <1>4 DEF Lets, FrameLeft, Applying

LEMMA PanelLets ==
    ASSUME AnswerInv, ShapeInv, PanelStep, ~TakeFrame
    PROVE  \E n \in {0, 1} : Lets(n)
<1> USE DEF backendVars, diskVars, panelVars, callVars, historyVars
<1>1. panel \in Panel /\ wire \in Seq(Frame) /\ WireTyped
    BY DEF ShapeInv, PassingInv, AnswerInv, MessageInv
<1>2. wire' = wire => Shifted(0)
    BY <1>1 DEF Shifted
<1>3. CASE DropFrame
    <2>1. wire # <<>> /\ wire' = Tail(wire) /\ UNCHANGED <<panel, steam, blind>>
        BY <1>3 DEF DropFrame
    <2>2. Shifted(1)
        BY <1>1, <2>1, TailShifts DEF Shifted
    <2>3. QED
        BY <2>1, <2>2 DEF Lets, FrameLeft, Applying
<1>4. CASE UpdateShortcut \/ AdoptOrphan \/ CreateShortcut \/ CreateFails
    <2>1. /\ Applying /\ panel.frame.games # <<>>
          /\ panel'.frame.run = panel.frame.run /\ panel'.frame.games = Tail(panel.frame.games)
          /\ panel'.scan.run = panel.scan.run
          /\ ~AdoptOrphan => panel'.scan = panel.scan
          /\ wire' = wire /\ blind' = blind
        BY <1>4, GameStep
    <2>2. steam' = steam \/ AdoptOrphan \/ CreateShortcut
        BY <1>4 DEF UpdateShortcut, CreateFails
    <2>3. QED
        BY <1>2, <2>1, <2>2 DEF Lets, FrameLeft
<1>5. CASE EndFrame
    <2>1. panel' = FreePanel \/ panel' = [panel EXCEPT !.pc = "acking", !.app = NoApps]
        BY <1>5 DEF EndFrame
    <2>2. UNCHANGED <<wire, steam, blind>>
        BY <1>5 DEF EndFrame
    <2>3. panel'.scan = panel.scan /\ ~Applying'
        BY <1>1, <2>1 DEF FreePanel, Panel, Applying
    <2>4. QED
        BY <1>2, <2>2, <2>3 DEF Lets, FrameLeft
<1>6. CASE Reload
    <2>1. wire' = <<>> /\ panel' = FreshPanel /\ blind' = blind
        BY <1>6 DEF Reload
    <2>2. Shifted(0) /\ ~Applying' /\ panel'.scan.run = NoRun
        BY <2>1 DEF Shifted, FreshPanel, Applying
    <2>3. QED
        BY <1>6, <2>1, <2>2 DEF Lets, FrameLeft
<1>7. QED
    BY <1>3, <1>4, <1>5, <1>6 DEF PanelStep

LEMMA CallLets ==
    ASSUME ShapeInv, CallStep \/ Restart \/ RommChanges \/ ClearSyncCache \/ UNCHANGED vars
    PROVE  Lets(0)
<1> USE DEF backendVars, diskVars, panelVars, callVars, historyVars
<1>1. panel \in Panel /\ wire \in Seq(Frame)
    BY DEF ShapeInv, PassingInv
<1>2. UNCHANGED <<wire, steam, blind>>
    BY DEF CallStep, ReportUnitResults, LateCommit, PressCancel, DeliverCancel, Restart,
           RommChanges, ClearSyncCache, vars
<1>3. panel' = panel \/ panel' = FreePanel \/ panel' = [panel EXCEPT !.cancel = TRUE]
    BY DEF CallStep, ReportUnitResults, LateCommit, PressCancel, DeliverCancel, Restart,
           RommChanges, ClearSyncCache, vars, Answered
<1>4. panel'.scan = panel.scan /\ (~Applying' \/ (panel'.frame = panel.frame /\ Applying))
    BY <1>1, <1>3 DEF FreePanel, Panel, Applying
<1>5. Shifted(0)
    BY <1>1, <1>2 DEF Shifted
<1>6. QED
    BY <1>2, <1>4, <1>5 DEF Lets, FrameLeft

LEMMA FrameInit == Init => FrameInv
BY DEF Init, FreshPanel, FrameInv, Applying

LEMMA SteamInit == Init => SteamInv
BY DEF Init, FreshPanel, SteamInv, Applying, Of, Runs, NoRun

LEMMA AllLets ==
    ASSUME AnswerInv, ShapeInv, [Next]_vars, ~TakeFrame, \A r \in Runs : ~SendChunk(r)
    PROVE  \E n \in {0, 1} : Lets(n)
BY RunLets, PanelLets, CallLets DEF Next

LEMMA FrameStep ==
    AnswerInv /\ ShapeInv /\ ClosedInv /\ RowInv /\ FrameInv /\ [Next]_vars => FrameInv'
<1> SUFFICES ASSUME AnswerInv, ShapeInv, ClosedInv, RowInv, FrameInv, [Next]_vars PROVE FrameInv'
    OBVIOUS
<1>1. \A q \in Runs : SentGrows(q) /\ (Started(q) => Started(q)')
    BY StepSent, StaysStarted DEF AnswerInv
<1>2. CASE TakeFrame
    BY <1>1, <1>2, TakeFrames
<1>3. CASE \E r \in Runs : SendChunk(r)
    <2>1. PICK r \in Runs : SendChunk(r)
        BY <1>3
    <2>2. slot.run = r
        BY <2>1, RunStepLives DEF RunStep, AnswerInv, RecordInv, SlotInv
    <2>3. QED
        BY <1>1, <2>1, <2>2, SendFrames
<1>4. CASE ~TakeFrame /\ \A r \in Runs : ~SendChunk(r)
    <2>1. PICK n \in {0, 1} : Lets(n)
        BY <1>4, AllLets
    <2>2. QED
        BY <1>1, <2>1, FramesPass DEF Lets
<1>5. QED
    BY <1>2, <1>3, <1>4

LEMMA AdoptSteam ==
    ASSUME ShapeInv, FrameInv, SteamInv, AdoptOrphan
    PROVE  SteamInv'
<1> DEFINE g == Head(panel.frame.games)
           o == Lowest(Of(g, panel.scan.pool))
<1>1. panel \in Panel /\ panel.scan.pool \in SUBSET Shortcuts
    BY DEF ShapeInv, PassingInv, Panel
<1>2. /\ Applying /\ panel.frame.games # <<>> /\ panel'.frame.games = Tail(panel.frame.games)
      /\ panel'.scan.run = panel.scan.run /\ panel'.scan.bound = panel.scan.bound /\ wire' = wire
      /\ blind' = blind
    BY GameStep
<1>3. /\ works' = works /\ steam' = steam /\ Of(g, panel.scan.pool) # {}
      /\ panel' = [Resolved(o[2]) EXCEPT !.scan.pool = @ \ {o}]
    BY DEF AdoptOrphan, backendVars
<1>4. o \in Of(g, panel.scan.pool)
    BY <1>1, <1>3, LowestIs
<1>5. o[1] = g
    BY <1>4 DEF Of
<1>6. panel'.scan.pool = panel.scan.pool \ {o}
    <2> DEFINE v == Resolved(o[2])
    <2>1. v.scan = panel.scan /\ "scan" \in DOMAIN v /\ "pool" \in DOMAIN panel.scan
        BY <1>1 DEF Resolved, Panel
    <2>2. panel' = [v EXCEPT !.scan.pool = @ \ {o}]
        BY <1>3
    <2> HIDE DEF v, o
    <2>3. QED
        BY <2>1, <2>2
<1> HIDE DEF o
<1>7. \A h \in Games \ {g} : Of(h, steam') = Of(h, steam) /\ (Seen(h) => Seen(h)')
    BY <1>2, <1>3, <1>5, <1>6 DEF Seen, Of
<1>8. CASE ~blind
    <2>1. g \in Games
        BY <1>1, <1>2, HeadTail DEF Panel, Frame
    <2>2. \A s, t \in Of(g, steam') : s = t
        BY <1>3, <1>8, <2>1 DEF SteamInv
    <2>3. Resolves(g)
        BY <1>2, <1>3, <1>7, <2>2 DEF Resolves
    <2>4. QED
        BY <1>8, <2>3, ResolvesSteam
<1>9. CASE blind
    BY <1>2, <1>9 DEF SteamInv
<1>10. QED
    BY <1>8, <1>9

LEMMA CreateSteam ==
    ASSUME ShapeInv, FrameInv, SteamInv, CreateShortcut
    PROVE  SteamInv'
<1> DEFINE g == Head(panel.frame.games)
           new == Lowest(Of(g, Shortcuts \ steam))
<1>1. panel \in Panel /\ steam \subseteq Shortcuts
    BY DEF ShapeInv, PassingInv, Panel
<1>2. /\ Applying /\ panel.frame.games # <<>> /\ panel'.frame.games = Tail(panel.frame.games)
      /\ panel'.scan = panel.scan /\ wire' = wire /\ blind' = blind
    <2>1. ~AdoptOrphan
        BY DEF CreateShortcut, Creates, AdoptOrphan
    <2>2. QED
        BY <2>1, GameStep
<1>3. /\ works' = works /\ steam' = steam \cup {new} /\ Of(g, Shortcuts \ steam) # {}
      /\ Of(g, panel.scan.bound) = {} /\ Of(g, panel.scan.pool) = {}
    BY DEF CreateShortcut, Creates, Unbound, backendVars
<1>4. new \in Of(g, Shortcuts \ steam)
    BY <1>3, LowestIs
<1>5. new[1] = g
    BY <1>4 DEF Of
<1>6. g \in Elems(panel.frame.games)
    BY <1>1, <1>2, HeadTail DEF Panel, Frame
<1> HIDE DEF new, g
<1>7. \A h \in Games \ {g} : Of(h, steam') = Of(h, steam) /\ (Seen(h) => Seen(h)')
    BY <1>2, <1>3, <1>5 DEF Seen, Of
<1>8. CASE ~blind
    <2>1. Seen(g)
        BY <1>2, <1>6, <1>8 DEF SteamInv
    <2>2. Of(g, steam) = {}
        BY <1>3, <2>1 DEF Seen, Of
    <2>3. \A s, t \in Of(g, steam') : s = t
        BY <1>3, <2>2 DEF Of
    <2>4. Resolves(g)
        BY <1>2, <1>3, <1>7, <2>3 DEF Resolves, g
    <2>5. QED
        BY <1>8, <2>4, ResolvesSteam
<1>9. CASE blind
    BY <1>2, <1>9 DEF SteamInv
<1>10. QED
    BY <1>8, <1>9

LEMMA SteamStep ==
    AnswerInv /\ ShapeInv /\ RowInv /\ FrameInv /\ SteamInv /\ [Next]_vars => SteamInv'
<1> SUFFICES ASSUME AnswerInv, ShapeInv, RowInv, FrameInv, SteamInv, [Next]_vars PROVE SteamInv'
    OBVIOUS
<1>1. \A q \in Runs : SentGrows(q)
    BY StepSent DEF AnswerInv
<1>2. CASE TakeFrame
    BY <1>2, TakeSteam
<1>3. CASE \E r \in Runs : SendChunk(r)
    <2>1. PICK r \in Runs : SendChunk(r)
        BY <1>3
    <2>2. slot.run = r
        BY <2>1, RunStepLives DEF RunStep, AnswerInv, RecordInv, SlotInv
    <2>3. QED
        BY <1>1, <2>1, <2>2, SendSteam
<1>4. CASE Reload
    <2>1. wire' = <<>> /\ panel' = FreshPanel /\ blind' = blind /\ steam' = steam
        BY <1>4 DEF Reload, historyVars
    <2>2. ~Applying' /\ panel'.scan.run \notin Runs
        BY <2>1 DEF FreshPanel, Applying, Runs, NoRun
    <2>3. QED
        BY <2>1, <2>2 DEF SteamInv
<1>5. CASE ~TakeFrame /\ ~Reload /\ ~AdoptOrphan /\ ~CreateShortcut /\ \A r \in Runs : ~SendChunk(r)
    <2>1. PICK n \in {0, 1} : Lets(n)
        BY <1>5, AllLets
    <2>2. QED
        BY <1>1, <1>5, <2>1, SteamPasses DEF Lets
<1>6. QED
    BY <1>2, <1>3, <1>4, <1>5, AdoptSteam, CreateSteam

LEMMA SteamIsOne == SteamInv => OneShortcutPerGame
BY AtMostOne DEF SteamInv, OneShortcutPerGame

-----------------------------------------------------------------------------
(* The invariant, and what it is for. *)

LibraryInv ==
    /\ AnswerInv
    /\ ShapeInv /\ ClosedInv /\ CoverInv /\ RowInv /\ HeldInv /\ FrameInv /\ SteamInv

\* A run's work, the box, the rows and the panel agree with each other in every
\* state: what a chunk still wants is covered, what a run did is on record, what
\* is held is staged, and the scan tells of the shortcuts.
THEOREM LibraryInvariant == Spec => []LibraryInv
<1>1. Init => LibraryInv
    BY AnswerInit, ShapeInit, ClosedInit, CoverInit, RowInit, HeldInit, FrameInit, SteamInit
    DEF LibraryInv
<1>2. LibraryInv /\ [Next]_vars => LibraryInv'
    <2> SUFFICES ASSUME LibraryInv, [Next]_vars PROVE LibraryInv'
        OBVIOUS
    <2>1. /\ AnswerInv /\ RecordInv
          /\ ShapeInv /\ ClosedInv /\ CoverInv /\ RowInv /\ HeldInv /\ FrameInv /\ SteamInv
        BY DEF LibraryInv, AnswerInv
    <2>2. AnswerInv' /\ ShapeInv'
        BY <2>1, AnswerStep, ShapeStep
    <2>3. ClosedInv' /\ CoverInv'
        BY <2>1, ClosedStep, CoverStep
    <2>4. RowInv' /\ HeldInv'
        BY <2>1, RowStepInv, HeldStep
    <2>5. FrameInv' /\ SteamInv'
        BY <2>1, FrameStep, SteamStep
    <2>6. QED
        BY <2>2, <2>3, <2>4, <2>5 DEF LibraryInv
<1>3. QED
    BY <1>1, <1>2, PTL DEF Spec

\* The slot, the box, the rows, the stamps, the panel and Steam are of their
\* types, and the box's fields hold one thing at a time.
THEOREM LibraryTypes == Spec => []TypeOK
<1>1. LibraryInv => TypeOK
    BY ShapeIsTypeOK DEF LibraryInv
<1>2. QED
    BY <1>1, LibraryInvariant, PTL

\* A stamped platform's ids are its rows of the stamp's generation, whichever
\* run wrote the stamp and whatever was committed since (commit_chunk).
THEOREM GenerationsAreHonest == Spec => []GenerationsHonest
<1>1. LibraryInv => GenerationsHonest
    BY DEF LibraryInv, RowInv
<1>2. QED
    BY <1>1, LibraryInvariant, PTL

\* A platform that later runs skip leaves no game undone: each has its shortcut
\* on record, or Steam failed to create it (the last chunk's stamp).
THEOREM SkipsAreSafe == Spec => []SkipIsSafe
<1>1. LibraryInv => SkipIsSafe
    BY DEF LibraryInv, RowInv
<1>2. QED
    BY <1>1, LibraryInvariant, PTL

\* Committing a chunk, be it answered in time, abandoned or late, finds the rows
\* it was staged with (the box's staging and what clears it).
THEOREM StagingIsKept == Spec => []StagingKept
<1>1. LibraryInv => StagingKept
    BY HeldIsStaged DEF LibraryInv
<1>2. QED
    BY <1>1, LibraryInvariant, PTL

\* The panel makes no second shortcut of a game, whatever was cancelled or lost
\* after the first was made, as long as its scans leave none out
\* (processUnitShortcuts and the orphans it adopts).
THEOREM OneShortcut == Spec => []OneShortcutPerGame
<1>1. LibraryInv => OneShortcutPerGame
    BY SteamIsOne DEF LibraryInv
<1>2. QED
    BY <1>1, LibraryInvariant, PTL

=============================================================================
