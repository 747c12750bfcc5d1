---------------------------- MODULE LibrarySync ----------------------------
(***************************************************************************)
(* An apply run of the library sync: the backend's one run slot and the    *)
(* run's coroutine, the panel that makes the Steam shortcuts, and what     *)
(* passes between them.                                                    *)
(*                                                                         *)
(* A run works through a queue of platforms.  It fetches one, splits the   *)
(* games whose shortcut it must touch into chunks, sends the panel one     *)
(* chunk at a time and commits what the panel answers; the last chunk's    *)
(* commit writes the platform's stamp, by which later runs skip it.  The   *)
(* panel may fall silent, answer late, reload or drop a chunk; the user    *)
(* may cancel, the backend may restart, RomM's list may change.  A step    *)
(* below is what happens between two awaits.                               *)
(***************************************************************************)
EXTENDS Integers, Sequences, FiniteSets

CONSTANTS
    Queue,          \* the run's platforms, in order
    GamesOf,        \* the games of each platform, in the order it lists them
    ChunkSize,      \* _APPLY_CHUNK_SIZE
    MaxRuns,        \* bound: runs started
    MaxUpsets,      \* bound: things that go wrong or change from outside, together
    Copies          \* bound: shortcuts one game can come to have

Platforms == DOMAIN GamesOf
Listed(p) == {GamesOf[p][i] : i \in DOMAIN GamesOf[p]}

\* A game is of one platform, which lists it once.
ASSUME LibraryAssumption ==
    /\ Queue \in Seq(Platforms) /\ Queue # <<>>
    /\ \A i, j \in DOMAIN Queue : Queue[i] = Queue[j] => i = j
    /\ Platforms = {Queue[i] : i \in DOMAIN Queue}
    /\ \A p \in Platforms : GamesOf[p] \in Seq(Listed(p))
    /\ \A p, q \in Platforms : \A i \in DOMAIN GamesOf[p], j \in DOMAIN GamesOf[q] :
          GamesOf[p][i] = GamesOf[q][j] => p = q /\ i = j
    /\ {ChunkSize, Copies} \subseteq Nat \ {0}
    /\ {MaxRuns, MaxUpsets} \subseteq Nat

VARIABLES
    slot,       \* sync_state and current_sync_id
    box,        \* the rest of LibrarySyncStateBox
    works,      \* the coroutine of each run
    late,       \* commits of late answers, handed to the executor
    rows,       \* roms: each game's row
    stamp,      \* platform_sync_state: each platform's stamp
    runRow,     \* sync_runs: each run's status
    panel,      \* the panel: the chunk it is at, its cancel flag, its scan
    wire,       \* sync_apply_unit frames on their way to the panel
    acks,       \* report_unit_results calls on their way to the backend
    cancels,    \* cancel_sync calls on their way to the backend
    steam,      \* the shortcuts Steam holds: pairs of a game and a copy
    served,     \* the games RomM lists
    closed,     \* history: runs whose answers the backend need not keep any more
    presses,    \* history: runs whose Cancel was pressed, NoRun for a nameless one
    failed,     \* history: games whose shortcut Steam failed to create
    blind,      \* history: a scan of the shortcuts left one out
    upsets      \* how many of MaxUpsets happened

backendVars == <<slot, box, works, late>>
diskVars == <<rows, stamp, runRow>>
panelVars == <<panel, wire, steam>>
callVars == <<acks, cancels>>
historyVars == <<closed, presses, failed, blind>>
vars == <<backendVars, diskVars, panelVars, callVars, served, historyVars, upsets>>

Runs == 1..MaxRuns
NoRun == 0
Games == UNION {Listed(p) : p \in Platforms}
Shortcuts == Games \X (1..Copies)
NoApps == [g \in {} |-> 0]
Apps == UNION {[G -> 1..Copies] : G \in SUBSET Games}

Idle == [pc |-> "none", at |-> 1, fetched |-> {}, chunks |-> <<>>, chunk |-> 1,
         answer |-> NoApps, whole |-> {}, cancelled |-> FALSE]

EmptyBox == [staging |-> {}, active |-> {}, answer |-> {}, stash |-> {},
             interrupted |-> FALSE, paused |-> FALSE]

NoFrame == [run |-> NoRun, unit |-> Queue[1], chunk |-> 0, games |-> <<>>]
FreshPanel == [pc |-> "free", frame |-> NoFrame, app |-> NoApps, cancel |-> FALSE,
               scan |-> [run |-> NoRun, bound |-> {}, pool |-> {}]]

NoStamp == [gen |-> NoRun, ids |-> {}]

\* The run's coroutine exists.
Lives(r) == works[r].pc \notin {"none", "ended", "dead"}

Cancelling == slot.state = "cancelling"

Pcs == {"none", "begun", "queue", "open", "unit", "fetched", "clear", "dispatch",
        "wait", "commit", "final", "errored", "finish", "ended", "dead"}

Statuses == {"none", "running", "completed", "cancelled", "interrupted", "paused", "errored"}

TypeOK ==
    /\ slot \in [state : {"idle", "running", "cancelling"}, run : {NoRun} \cup Runs]
    /\ slot.state = "idle" <=> slot.run = NoRun
    /\ \A r \in Runs : works[r].pc \in Pcs /\ works[r].answer \in Apps
    /\ \A part \in {box.staging, box.active, box.answer, box.stash} : Cardinality(part) <= 1
    /\ rows \in [Games -> [here : BOOLEAN, app : 0..Copies, applied : BOOLEAN,
                           gen : {NoRun} \cup Runs]]
    /\ stamp \in [Platforms -> [gen : {NoRun} \cup Runs, ids : SUBSET Games]]
    /\ runRow \in [Runs -> Statuses]
    /\ panel.pc \in {"free", "apply", "acking"}
    /\ steam \subseteq Shortcuts
    /\ served \subseteq Games

Init ==
    /\ slot = [state |-> "idle", run |-> NoRun]
    /\ box = EmptyBox
    /\ works = [r \in Runs |-> Idle]
    /\ late = {}
    /\ rows = [g \in Games |-> [here |-> FALSE, app |-> 0, applied |-> FALSE, gen |-> NoRun]]
    /\ stamp = [p \in Platforms |-> NoStamp]
    /\ runRow = [r \in Runs |-> "none"]
    /\ panel = FreshPanel
    /\ wire = <<>>
    /\ acks = {} /\ cancels = {}
    /\ steam = {}
    /\ served = Games
    /\ closed = {} /\ presses = {} /\ failed = {} /\ blind = FALSE
    /\ upsets = 0

Upset == upsets < MaxUpsets /\ upsets' = upsets + 1

-----------------------------------------------------------------------------
(* The box's verbs. *)

TryBeginRun(r) ==
    /\ slot.state = "idle"
    /\ slot' = [state |-> "running", run |-> r]
    /\ box' = [box EXCEPT !.stash = {}]

\* Mutant: the cancel is not scoped to the run it names.
RequestCancelUnscoped(id) ==
    slot' = IF slot.state # "idle" THEN [slot EXCEPT !.state = "cancelling"] ELSE slot

\* Mutant: a cancel takes effect with nothing in flight.
RequestCancelIdle(id) ==
    slot' = IF id \in {NoRun, slot.run} THEN [slot EXCEPT !.state = "cancelling"] ELSE slot

\* id is NoRun when the caller names no run.
RequestCancel(id) ==
    slot' = IF slot.state # "idle" /\ id \in {NoRun, slot.run}
            THEN [slot EXCEPT !.state = "cancelling"]
            ELSE slot

FinishRun(r) ==
    slot' = IF slot.run = r THEN [state |-> "idle", run |-> NoRun] ELSE slot

ClearActiveUnit(b) == [b EXCEPT !.staging = {}, !.active = {}]

\* Mutant: the staging goes with the dispatch identity.
StashAndClear(b, r, chunkRows) ==
    [ClearActiveUnit(b) EXCEPT !.stash =
        {[run |-> r, unit |-> a.unit, chunk |-> a.chunk, rows |-> chunkRows] : a \in b.active}]

\* Only the dispatch identity goes; the staging stays for the late answer.
StashAbandonedChunk(b, r, chunkRows) ==
    [b EXCEPT !.stash = {[run |-> r, unit |-> a.unit, chunk |-> a.chunk, rows |-> chunkRows] :
                            a \in b.active},
              !.active = {}]

Matches(k, s) == k.run = s.run /\ k.unit = s.unit /\ k.chunk = s.chunk

AckMatchesActiveUnit(k) ==
    \E a \in box.active : Matches(k, [run |-> slot.run, unit |-> a.unit, chunk |-> a.chunk])

-----------------------------------------------------------------------------
(* A run, from its claim of the slot to its release. *)

Unit(w) == Queue[w.at]

At(r, pc) == works[r].pc = pc
Goto(r, pc) == works' = [works EXCEPT ![r].pc = pc]

\* The run leaves a unit, done with it or stopped.
LeaveUnit(r) ==
    works' = [works EXCEPT ![r] = [Idle EXCEPT !.pc = "unit", !.at = works[r].at + 1,
                                               !.whole = works[r].whole]]

Start(r) ==
    /\ At(r, "none") /\ \A q \in 1..(r - 1) : ~At(q, "none")
    /\ TryBeginRun(r)
    /\ Goto(r, "begun")
    /\ panel' = [panel EXCEPT !.cancel = FALSE]
    /\ closed' = closed \cup 1..(r - 1)
    /\ UNCHANGED <<late, diskVars, wire, steam, callVars, served, presses, failed, blind, upsets>>

Begin(r) ==
    /\ At(r, "begun")
    /\ Goto(r, "queue")
    /\ box' = [box EXCEPT !.interrupted = FALSE, !.paused = FALSE]
    /\ UNCHANGED <<slot, late, diskVars, panelVars, callVars, served, historyVars, upsets>>

\* The panel drops its cancel flag at sync_plan.
Plan(r) ==
    /\ At(r, "queue")
    /\ Goto(r, "open")
    /\ panel' = [panel EXCEPT !.cancel = FALSE]
    /\ UNCHANGED <<slot, box, late, diskVars, wire, steam, callVars, served, historyVars, upsets>>

\* RomM cannot be read: no run is recorded.
PlanFails(r) ==
    /\ At(r, "queue") /\ Upset
    /\ Goto(r, "finish")
    /\ UNCHANGED <<slot, box, late, diskVars, panelVars, callVars, served, historyVars>>

OpenRun(r) ==
    /\ At(r, "open")
    /\ runRow' = [runRow EXCEPT ![r] = "running"]
    /\ Goto(r, "unit")
    /\ UNCHANGED <<slot, box, late, rows, stamp, panelVars, callVars, served, historyVars, upsets>>

-----------------------------------------------------------------------------
(* A unit, from its fetch to its first chunk. *)

\* The units end, or a cancel stops them.
EndUnits(r) ==
    /\ At(r, "unit")
    /\ Cancelling \/ works[r].at > Len(Queue)
    /\ works' = [works EXCEPT ![r].pc = "final", ![r].cancelled = Cancelling]
    /\ UNCHANGED <<slot, box, late, diskVars, panelVars, callVars, served, historyVars, upsets>>

\* The incremental skip: the stamp's ids are what RomM lists.
Skips(p) ==
    /\ stamp[p].gen # NoRun
    /\ stamp[p].ids = Listed(p) \cap served
    /\ \E g \in Listed(p) : rows[g].here /\ rows[g].gen = stamp[p].gen
    /\ \E g \in Listed(p) : rows[g].app # 0

TakesUnit(r) == At(r, "unit") /\ ~Cancelling /\ works[r].at <= Len(Queue)

SkipUnit(r) ==
    /\ TakesUnit(r)
    /\ Skips(Unit(works[r]))
    /\ works' = [works EXCEPT ![r].at = @ + 1, ![r].whole = @ \cup {Unit(works[r])}]
    /\ UNCHANGED <<slot, box, late, diskVars, panelVars, callVars, served, historyVars, upsets>>

FetchUnit(r) ==
    /\ TakesUnit(r)
    /\ ~Skips(Unit(works[r]))
    /\ works' = [works EXCEPT ![r].pc = "fetched",
                              ![r].fetched = Listed(Unit(works[r])) \cap served]
    /\ UNCHANGED <<slot, box, late, diskVars, panelVars, callVars, served, historyVars, upsets>>

\* The delta: the listed games with no shortcut, or one not recorded as applied,
\* in the platform's order.
Delta(w) ==
    LET games == GamesOf[Unit(w)]
        todo == {i \in DOMAIN games :
                    games[i] \in w.fetched /\ ~(rows[games[i]].app # 0 /\ rows[games[i]].applied)}
        nth(n) == CHOOSE i \in todo : Cardinality({j \in todo : j <= i}) = n
    IN  [n \in 1..Cardinality(todo) |-> games[nth(n)]]

\* Slices of at most ChunkSize; the rows of every other game ride the first.
\* An empty delta is one empty chunk.
BuildUnitChunks(delta, fetched) ==
    LET inDelta == {delta[i] : i \in DOMAIN delta}
        count == IF delta = <<>> THEN 1 ELSE (Len(delta) + ChunkSize - 1) \div ChunkSize
        slice(c) == SubSeq(delta, (c - 1) * ChunkSize + 1,
                           IF c * ChunkSize < Len(delta) THEN c * ChunkSize ELSE Len(delta))
    IN  [c \in 1..count |->
            [games |-> slice(c),
             rows |-> {slice(c)[i] : i \in DOMAIN slice(c)}
                      \cup (IF c = 1 THEN fetched \ inDelta ELSE {})]]

Classify(r) ==
    /\ At(r, "fetched")
    /\ IF Cancelling
       THEN LeaveUnit(r)
       ELSE works' = [works EXCEPT ![r].pc = "clear",
                                   ![r].chunks = BuildUnitChunks(Delta(works[r]), works[r].fetched)]
    /\ UNCHANGED <<slot, box, late, diskVars, panelVars, callVars, served, historyVars, upsets>>

\* Mutant: the platform keeps its stamp while it is applied anew.
BeginApplyKeepsStamp(r) ==
    /\ At(r, "clear")
    /\ IF Cancelling
       THEN LeaveUnit(r) /\ UNCHANGED box
       ELSE /\ box' = [box EXCEPT !.staging =
                          {[run |-> r, unit |-> Unit(works[r]), games |-> works[r].fetched]}]
            /\ Goto(r, "dispatch")
    /\ UNCHANGED <<slot, late, diskVars, panelVars, callVars, served, historyVars, upsets>>

\* The platform's stamp goes as its apply begins; then the unit is staged.
BeginApply(r) ==
    /\ At(r, "clear")
    /\ IF Cancelling
       THEN LeaveUnit(r) /\ UNCHANGED <<stamp, box>>
       ELSE /\ stamp' = [stamp EXCEPT ![Unit(works[r])] = NoStamp]
            /\ box' = [box EXCEPT !.staging =
                          {[run |-> r, unit |-> Unit(works[r]), games |-> works[r].fetched]}]
            /\ Goto(r, "dispatch")
    /\ UNCHANGED <<slot, late, rows, runRow, panelVars, callVars, served, historyVars, upsets>>

-----------------------------------------------------------------------------
(* A chunk: sent, waited for, committed. *)

Chunk(w) == w.chunks[w.chunk]
IsLastChunk(w) == w.chunk = Len(w.chunks)

\* A cancel seen at the chunk's boundary drops the rest of the unit.
StopAtChunk(r) ==
    /\ At(r, "dispatch") /\ Cancelling
    /\ box' = ClearActiveUnit(box)
    /\ LeaveUnit(r)
    /\ UNCHANGED <<slot, late, diskVars, panelVars, callVars, served, historyVars, upsets>>

\* The session budget pauses the run, even one cancelled as it measured.
PauseForBudget(r) ==
    /\ At(r, "dispatch") /\ Upset
    /\ box' = [ClearActiveUnit(box) EXCEPT !.paused = TRUE]
    /\ RequestCancel(NoRun)
    /\ LeaveUnit(r)
    /\ UNCHANGED <<late, diskVars, panelVars, callVars, served, historyVars>>

SendChunk(r) ==
    /\ At(r, "dispatch") /\ ~Cancelling
    /\ box' = [box EXCEPT !.active = {[unit |-> Unit(works[r]), chunk |-> works[r].chunk]},
                          !.answer = {}]
    /\ wire' = Append(wire, [run |-> slot.run, unit |-> Unit(works[r]),
                             chunk |-> works[r].chunk, games |-> Chunk(works[r]).games])
    /\ Goto(r, "wait")
    /\ UNCHANGED <<slot, late, diskVars, panel, steam, callVars, served, historyVars, upsets>>

\* An answer comes before a cancel, a cancel before the timeout.
TakeAnswer(r) ==
    /\ At(r, "wait")
    /\ \E k \in box.answer :
          works' = [works EXCEPT ![r].pc = "commit", ![r].answer = k.app]
    /\ box' = [box EXCEPT !.answer = {}]
    /\ UNCHANGED <<slot, late, diskVars, panelVars, callVars, served, historyVars, upsets>>

SeeCancel(r) ==
    /\ At(r, "wait") /\ box.answer = {} /\ Cancelling
    /\ box' = ClearActiveUnit(box)
    /\ LeaveUnit(r)
    /\ UNCHANGED <<slot, late, diskVars, panelVars, callVars, served, historyVars, upsets>>

\* Mutant: the timeout stops the unit and not the run.
TimeOutGoesOn(r) ==
    /\ At(r, "wait") /\ box.answer = {} /\ ~Cancelling
    /\ box' = [StashAbandonedChunk(box, r, Chunk(works[r]).rows) EXCEPT !.interrupted = TRUE]
    /\ LeaveUnit(r)
    /\ UNCHANGED <<slot, late, diskVars, panelVars, callVars, served, historyVars, upsets>>

\* Mutant: the timeout discards the chunk, as a cancel does.
TimeOutDiscards(r) ==
    /\ At(r, "wait") /\ box.answer = {} /\ ~Cancelling
    /\ box' = [ClearActiveUnit(box) EXCEPT !.interrupted = TRUE]
    /\ RequestCancel(NoRun)
    /\ LeaveUnit(r)
    /\ UNCHANGED <<late, diskVars, panelVars, callVars, served, historyVars, upsets>>

\* Mutant: a panel at a chunk counts as heard from, whatever becomes of it.
TimeOutIfFree(r) ==
    /\ At(r, "wait") /\ box.answer = {} /\ ~Cancelling
    /\ panel.pc = "free" /\ wire = <<>>
    /\ box' = [StashAbandonedChunk(box, r, Chunk(works[r]).rows) EXCEPT !.interrupted = TRUE]
    /\ RequestCancel(NoRun)
    /\ LeaveUnit(r)
    /\ UNCHANGED <<late, diskVars, panelVars, callVars, served, historyVars, upsets>>

TimeOut(r) ==
    /\ At(r, "wait") /\ box.answer = {} /\ ~Cancelling
    /\ box' = [StashAbandonedChunk(box, r, Chunk(works[r]).rows) EXCEPT !.interrupted = TRUE]
    /\ RequestCancel(NoRun)
    /\ LeaveUnit(r)
    /\ UNCHANGED <<late, diskVars, panelVars, callVars, served, historyVars, upsets>>

\* Every row of the chunk is written from the staging; a row with none is
\* refused.  Without a generation a row keeps its own.
CommitRows(chunkRows, app, gen) ==
    LET staged == UNION {s.games : s \in box.staging}
    IN  rows' = [g \in Games |->
            IF g \notin chunkRows \cap staged THEN rows[g]
            ELSE [here |-> TRUE,
                  app |-> IF g \in DOMAIN app THEN app[g] ELSE rows[g].app,
                  applied |-> g \in DOMAIN app \/ rows[g].applied,
                  gen |-> IF gen # NoRun THEN gen ELSE rows[g].gen]]

\* Mutant: every chunk's commit writes the stamp.
StampAlways(r) ==
    stamp' = [stamp EXCEPT ![Unit(works[r])] = [gen |-> r, ids |-> works[r].fetched]]

StampIfLast(r) ==
    stamp' = IF IsLastChunk(works[r])
             THEN [stamp EXCEPT ![Unit(works[r])] = [gen |-> r, ids |-> works[r].fetched]]
             ELSE stamp

CommitChunk(r) ==
    /\ At(r, "commit")
    /\ CommitRows(Chunk(works[r]).rows, works[r].answer, r)
    /\ StampIfLast(r)
    /\ IF IsLastChunk(works[r])
       THEN /\ works' = [works EXCEPT ![r] = [Idle EXCEPT
                            !.pc = "unit", !.at = works[r].at + 1,
                            !.whole = works[r].whole \cup {Unit(works[r])}]]
            /\ box' = ClearActiveUnit(box)
       ELSE /\ works' = [works EXCEPT ![r].pc = "dispatch", ![r].chunk = @ + 1,
                                      ![r].answer = NoApps]
            /\ UNCHANGED box
    /\ UNCHANGED <<slot, late, runRow, panelVars, callVars, served, historyVars, upsets>>

-----------------------------------------------------------------------------
(* The run's end. *)

\* An exception: of a fetch, of a commit, or of the finalize.
Raise(r) ==
    /\ TakesUnit(r) \/ At(r, "commit") \/ At(r, "final")
    /\ Upset
    /\ Goto(r, "errored")
    /\ UNCHANGED <<slot, box, late, diskVars, panelVars, callVars, served, historyVars>>

\* A row that is not running any more keeps its status.
Terminate(r, status) ==
    runRow' = IF runRow[r] = "running" THEN [runRow EXCEPT ![r] = status] ELSE runRow

RecordTerminalStatus(r) ==
    /\ At(r, "final")
    /\ Terminate(r, IF ~works[r].cancelled THEN "completed"
                    ELSE IF box.paused THEN "paused"
                    ELSE IF box.interrupted THEN "interrupted"
                    ELSE "cancelled")
    /\ Goto(r, "finish")
    /\ UNCHANGED <<slot, box, late, rows, stamp, panelVars, callVars, served, historyVars, upsets>>

MarkErrored(r) ==
    /\ At(r, "errored")
    /\ Terminate(r, "errored")
    /\ Goto(r, "finish")
    /\ UNCHANGED <<slot, box, late, rows, stamp, panelVars, callVars, served, historyVars, upsets>>

Finish(r) ==
    /\ At(r, "finish")
    /\ FinishRun(r)
    /\ works' = [works EXCEPT ![r] = [Idle EXCEPT !.pc = "ended"]]
    /\ UNCHANGED <<box, late, diskVars, panelVars, callVars, served, historyVars, upsets>>

RunStep(r) ==
    \/ Begin(r) \/ Plan(r) \/ PlanFails(r) \/ OpenRun(r)
    \/ EndUnits(r) \/ SkipUnit(r) \/ FetchUnit(r) \/ Classify(r) \/ BeginApply(r)
    \/ StopAtChunk(r) \/ PauseForBudget(r) \/ SendChunk(r)
    \/ TakeAnswer(r) \/ SeeCancel(r) \/ TimeOut(r) \/ CommitChunk(r)
    \/ Raise(r) \/ RecordTerminalStatus(r) \/ MarkErrored(r) \/ Finish(r)

-----------------------------------------------------------------------------
(* The panel: one chunk at a time, one game at a time. *)

FreePanel == [panel EXCEPT !.pc = "free", !.frame = NoFrame, !.app = NoApps]

\* One scan of Steam's shortcuts per run tells the bound ones from the orphans.
\* A shortcut whose details Steam does not answer in time is not seen.
TakeFrame ==
    /\ panel.pc = "free" /\ wire # <<>>
    /\ wire' = Tail(wire)
    /\ \E unseen \in {{}} \cup {{s} : s \in steam} :
          LET frame == Head(wire)
              seen == steam \ unseen
              bound == {s \in seen : rows[s[1]].app = s[2]}
              cached == panel.scan.run = frame.run
          IN  /\ IF unseen = {}
                 THEN UNCHANGED <<blind, upsets>>
                 ELSE ~cached /\ Upset /\ blind' = TRUE
              /\ panel' = [pc |-> "apply", frame |-> frame, app |-> NoApps, cancel |-> FALSE,
                           scan |-> IF cached THEN panel.scan
                                    ELSE [run |-> frame.run, bound |-> bound,
                                          pool |-> seen \ bound]]
    /\ UNCHANGED <<backendVars, diskVars, steam, callVars, served, closed, presses, failed>>

\* A chunk that comes while the panel is at another is dropped.
DropFrame ==
    /\ panel.pc # "free" /\ wire # <<>>
    /\ wire' = Tail(wire)
    /\ UNCHANGED <<backendVars, diskVars, panel, steam, callVars, served, historyVars, upsets>>

AtGame == panel.pc = "apply" /\ panel.frame.games # <<>> /\ ~panel.cancel

With(app, g, c) == [x \in DOMAIN app \cup {g} |-> IF x = g THEN c ELSE app[x]]

\* The game at the head gets copy c.
Resolved(c) == [panel EXCEPT !.frame.games = Tail(@),
                             !.app = With(@, Head(panel.frame.games), c)]

Of(g, shortcuts) == {s \in shortcuts : s[1] = g}
Lowest(shortcuts) == CHOOSE s \in shortcuts : \A t \in shortcuts : s[2] <= t[2]

UpdateShortcut ==
    /\ AtGame
    /\ \E s \in Of(Head(panel.frame.games), panel.scan.bound) : panel' = Resolved(s[2])
    /\ UNCHANGED <<backendVars, diskVars, wire, steam, callVars, served, historyVars, upsets>>

Unbound(g) == Of(g, panel.scan.bound) = {}

AdoptOrphan ==
    /\ AtGame
    /\ LET g == Head(panel.frame.games)
           orphan == Lowest(Of(g, panel.scan.pool))
       IN  /\ Unbound(g) /\ Of(g, panel.scan.pool) # {}
           /\ panel' = [Resolved(orphan[2]) EXCEPT !.scan.pool = @ \ {orphan}]
    /\ UNCHANGED <<backendVars, diskVars, wire, steam, callVars, served, historyVars, upsets>>

\* Mutant: no orphan is looked for.
CreatesAnyway == AtGame /\ Unbound(Head(panel.frame.games))

Creates == AtGame /\ Unbound(Head(panel.frame.games))
                  /\ Of(Head(panel.frame.games), panel.scan.pool) = {}

CreateShortcut ==
    /\ Creates
    /\ LET fresh == Lowest(Of(Head(panel.frame.games), Shortcuts \ steam))
       IN  /\ Of(Head(panel.frame.games), Shortcuts \ steam) # {}
           /\ steam' = steam \cup {fresh}
           /\ panel' = Resolved(fresh[2])
    /\ UNCHANGED <<backendVars, diskVars, wire, callVars, served, historyVars, upsets>>

\* AddShortcut gives no appId: the game is left out of the answer.
CreateFails ==
    /\ Creates /\ Upset
    /\ failed' = failed \cup {Head(panel.frame.games)}
    /\ panel' = [panel EXCEPT !.frame.games = Tail(@)]
    /\ UNCHANGED <<backendVars, diskVars, wire, steam, callVars, served, closed, presses, blind>>

\* A cancelled chunk is not answered.
EndFrame ==
    /\ panel.pc = "apply"
    /\ panel.frame.games = <<>> \/ panel.cancel
    /\ IF panel.cancel
       THEN panel' = FreePanel /\ UNCHANGED acks
       ELSE /\ acks' = acks \cup {[run |-> panel.frame.run, unit |-> panel.frame.unit,
                                   chunk |-> panel.frame.chunk, app |-> panel.app]}
            /\ panel' = [panel EXCEPT !.pc = "acking", !.app = NoApps]
    /\ UNCHANGED <<backendVars, diskVars, wire, steam, cancels, served, historyVars, upsets>>

\* Steam's UI reloads: the panel starts afresh; a call it made still arrives.
Reload ==
    /\ Upset
    /\ panel' = FreshPanel
    /\ wire' = <<>>
    /\ UNCHANGED <<backendVars, diskVars, steam, callVars, served, historyVars>>

PanelStep ==
    \/ TakeFrame \/ DropFrame
    \/ UpdateShortcut \/ AdoptOrphan \/ CreateShortcut \/ CreateFails
    \/ EndFrame \/ Reload

-----------------------------------------------------------------------------
(* The calls the backend serves beside the run. *)

\* The panel has its response to k.
Answered(k) ==
    panel' = IF panel.pc = "acking" /\ Matches(k, panel.frame) THEN FreePanel ELSE panel

\* The chunk in flight, else the abandoned one, else nothing.
ReportUnitResults(k) ==
    /\ acks' = acks \ {k}
    /\ LET abandoned == {s \in box.stash : Matches(k, s)}
       IN  CASE AckMatchesActiveUnit(k) ->
                    box' = [box EXCEPT !.answer = {k}] /\ Answered(k) /\ UNCHANGED late
             [] ~AckMatchesActiveUnit(k) /\ abandoned # {} ->
                    /\ box' = [box EXCEPT !.stash = {}]
                    /\ late' = late \cup {[run |-> s.run, unit |-> s.unit, chunk |-> s.chunk,
                                           rows |-> s.rows, app |-> k.app] : s \in abandoned}
                    /\ UNCHANGED panel
             [] OTHER -> Answered(k) /\ UNCHANGED <<box, late>>
    /\ UNCHANGED <<slot, works, diskVars, wire, steam, cancels, served, historyVars, upsets>>

\* A late commit writes no stamp and moves no generation.
LateCommit(j) ==
    /\ late' = late \ {j}
    /\ CommitRows(j.rows, j.app, NoRun)
    /\ Answered(j)
    /\ UNCHANGED <<slot, box, works, stamp, runRow, wire, steam, callVars, served, historyVars, upsets>>

\* The panel knows a run by its first progress frame; before, it names none.
PressCancel ==
    /\ slot.state = "running" /\ Upset
    /\ LET id == IF works[slot.run].pc \in {"begun", "queue"} THEN NoRun ELSE slot.run
       IN  /\ cancels' = cancels \cup {id}
           /\ presses' = presses \cup {id}
    /\ panel' = [panel EXCEPT !.cancel = TRUE]
    /\ UNCHANGED <<backendVars, diskVars, wire, steam, acks, served, closed, failed, blind>>

DeliverCancel(id) ==
    /\ cancels' = cancels \ {id}
    /\ RequestCancel(id)
    /\ closed' = closed \cup (IF slot' = slot THEN {} ELSE {slot.run})
    /\ UNCHANGED <<box, works, late, diskVars, panelVars, acks, served, presses, failed, blind, upsets>>

CallStep ==
    \/ \E k \in acks : ReportUnitResults(k)
    \/ \E j \in late : LateCommit(j)
    \/ PressCancel
    \/ \E id \in cancels : DeliverCancel(id)

-----------------------------------------------------------------------------
(* What happens from outside. *)

\* The backend dies and starts: its memory and its calls are gone, and the
\* startup healing ends the run the database holds as running.
Restart ==
    /\ Upset
    /\ slot' = [state |-> "idle", run |-> NoRun]
    /\ box' = EmptyBox
    /\ works' = [r \in Runs |-> IF Lives(r) THEN [Idle EXCEPT !.pc = "dead"] ELSE works[r]]
    /\ late' = {} /\ acks' = {} /\ cancels' = {}
    /\ runRow' = [r \in Runs |-> IF runRow[r] = "running" THEN "interrupted" ELSE runRow[r]]
    /\ panel' = IF panel.pc = "acking" THEN FreePanel ELSE panel
    /\ closed' = {r \in Runs : ~At(r, "none")}
    /\ UNCHANGED <<rows, stamp, wire, steam, served, presses, failed, blind>>

\* A game goes from RomM or comes.
RommChanges ==
    /\ Upset
    /\ \E g \in Games :
          served' = IF g \in served THEN served \ {g} ELSE served \cup {g}
    /\ UNCHANGED <<backendVars, diskVars, panelVars, callVars, historyVars>>

\* Force Full Sync, which the page offers while no run is in flight.
ClearSyncCache ==
    /\ slot.state = "idle" /\ Upset
    /\ stamp' = [p \in Platforms |-> NoStamp]
    /\ rows' = [g \in Games |-> [rows[g] EXCEPT !.applied = FALSE]]
    /\ UNCHANGED <<backendVars, runRow, panelVars, callVars, served, historyVars>>

Next ==
    \/ \E r \in Runs : Start(r) \/ RunStep(r)
    \/ PanelStep
    \/ CallStep
    \/ Restart \/ RommChanges \/ ClearSyncCache

Spec == Init /\ [][Next]_vars

\* The event loop resumes the run; nothing is owed by the panel or the user.
FairSpec == Spec /\ \A r \in Runs : WF_vars(RunStep(r))

-----------------------------------------------------------------------------
(* Properties. *)

\* A run is recorded as it ended.  Completed: it went through every platform to
\* its last chunk, or skipped it whole.  Cancelled: its own Cancel was pressed,
\* or one that named no run, so a late cancel of an earlier run stops nothing,
\* and neither a silent panel nor the session budget is put down to the user.
RecordedAsEnded ==
    [][\A r \in Runs : runRow'[r] # runRow[r] =>
          /\ runRow'[r] = "completed" => works[r].whole = Platforms
          /\ runRow'[r] = "cancelled" => {r, NoRun} \cap presses # {}]_vars

\* What a stamp's fetch returned carries its generation, and no other row does:
\* discovery of removed games, which reads the rows of another generation as
\* gone, never names a game the fetch returned, and names every other.
GenerationsHonest ==
    \A p \in Platforms : stamp[p].gen # NoRun =>
        \A g \in Listed(p) :
            g \in stamp[p].ids <=> rows[g].here /\ rows[g].gen = stamp[p].gen

\* Every game of a stamped platform has its shortcut recorded, unless Steam
\* failed to create it: a later run's skip leaves out no game a crash, a
\* cancel, a timeout or a late answer left undone.
SkipIsSafe ==
    \A p \in Platforms : stamp[p].gen # NoRun =>
        \A g \in stamp[p].ids : rows[g].app # 0 \/ g \in failed

\* An answer the backend receives is committed or held for the commit, unless
\* its run was cancelled, followed by another or lost to a restart.
AckIsKept ==
    [][\A k \in acks \ acks' :
          \/ k \in box'.answer
          \/ \E j \in late' : Matches(j, k) /\ j.app = k.app
          \/ k.run \in closed']_vars

\* The commit finds what it was staged: of a chunk in hand, of an abandoned
\* chunk, and of a late answer no newer run came after.
StagingKept ==
    LET staged(r) == UNION {s.games : s \in {t \in box.staging : t.run = r}}
    IN  /\ \A r \in Runs : At(r, "commit") => Chunk(works[r]).rows \subseteq staged(r)
        /\ \A s \in box.stash : s.run \notin closed => s.rows \subseteq staged(s.run)
        /\ \A j \in late : j.run \notin closed => j.rows \subseteq staged(j.run)

\* One game has one shortcut, whatever was cancelled, abandoned or lost after
\* the shortcut was made: the next run adopts it.  Only a shortcut the scan
\* could not see is made again.
OneShortcutPerGame ==
    ~blind => \A g \in Games : Cardinality(Of(g, steam)) <= 1

\* What a skip is documented to mean: the local mirror already matches the
\* server, so every game RomM lists has its shortcut.  A game whose shortcut
\* Steam failed to create is left out of the answer, and the platform is
\* stamped, and skipped, all the same.
SkipMeansMirrored ==
    \A p \in Platforms : Skips(p) => \A g \in Listed(p) \cap served : rows[g].app # 0

\* A run ends, with its panel silent, reloaded or at another chunk.
RunEnds == \A r \in Runs : Lives(r) ~> ~Lives(r)

=============================================================================
