----------------------------- MODULE Downloads -----------------------------
(***************************************************************************)
(* A game's download: its start, transfer, install, pause, resume, cancel  *)
(* and the uninstall that may run beside it.                               *)
(*                                                                         *)
(* One attempt is one accepted call of start_download or resume_download:  *)
(* the call, the task on the event loop that it leaves behind, and the     *)
(* worker thread that moves the bytes.  A cancel or a pause ends the task; *)
(* the thread cannot be ended, it looks at the attempt's control token     *)
(* after each block it has written.  So a thread may outlive its task, and *)
(* write while the next attempt of the same game is under way.             *)
(*                                                                         *)
(* A file is the sequence of the blocks written to it, 0 where a write     *)
(* past the end left a gap.  A thread writes into the file it opened: an   *)
(* open handle follows the file through a rename and outlives its removal. *)
(* Every game here is one plain file, which needs no unpacking.            *)
(***************************************************************************)
EXTENDS Naturals, FiniteSets, Sequences

CONSTANTS
    Roms,
    Attempts,       \* bound: calls that are accepted, numbered as they come
    Slots,          \* how many may transfer at once
    Blocks,         \* bound: a game's file is the blocks 1..Blocks
    MaxRemovals,    \* bound: uninstalls
    None, NoFile

ASSUME DownloadsAssumption ==
    /\ Roms # {}
    /\ Attempts \subseteq Nat
    /\ Slots \in Nat \ {0}
    /\ Blocks \in Nat \ {0}
    /\ MaxRemovals \in Nat
    /\ None \notin Attempts
    /\ None \notin {"queued", "downloading", "paused", "completed", "failed", "cancelled"}
    /\ NoFile \notin Seq(Nat)

VARIABLES
    at,         \* each attempt: its call, its task, its thread
    claim,      \* in_progress: the games a start or a download holds
    token,      \* control_tokens and tasks: the attempt registered for a game
    entry,      \* each game's queue entry: its status, or None
    shown,      \* the status the panel was last told of each game
    partial,    \* each game's .tmp
    installed,  \* the file at each game's target path
    recorded,   \* the games with a rom_installs row
    removal,    \* the uninstall under way
    crossed,    \* history: games two attempts were under way for at once
    torn        \* history: games whose partial file was appended to elsewhere
                \* than the request for the rest had measured it to end

vars == <<at, claim, token, entry, shown, partial, installed, recorded,
          removal, crossed, torn>>

Whole == [k \in 1..Blocks |-> k]

\* Where an attempt's task can be until it is over.
Live == {"spawned", "waiting", "fetching", "committing", "finishing",
         "settling", "telling"}
Over == {"ended", "refused", "stranded", "dropped"}

\* Mutant: the slot is given back by the handlers only.
HoldsSlot_Dropped == {"fetching", "committing", "finishing", "dropped"}

\* The awaits inside `async with semaphore`.
HoldsSlot == {"fetching", "committing", "finishing"}

\* Where a worker thread can be while it still has work.
Running == {"asking", "streaming", "placing", "renamed"}

Ended == {"completed", "failed", "cancelled"}

Statuses == {"queued", "downloading", "paused"} \cup Ended

Unused ==
    [pc |-> "unused", rom |-> CHOOSE r \in Roms : TRUE, resume |-> FALSE,
     sig |-> FALSE, stop |-> None, end |-> None,
     th |-> "none", have |-> 0, nxt |-> 0, append |-> FALSE,
     fd |-> "none", tick |-> FALSE]

Init ==
    /\ at = [a \in Attempts |-> Unused]
    /\ claim = {}
    /\ token = [r \in Roms |-> None]
    /\ entry = [r \in Roms |-> None]
    /\ shown = [r \in Roms |-> None]
    /\ partial = [r \in Roms |-> NoFile]
    /\ installed = [r \in Roms |-> NoFile]
    /\ recorded = {}
    /\ removal = [stage |-> "idle", of |-> {}, evicts |-> {}, left |-> MaxRemovals]
    /\ crossed = {} /\ torn = {}

files == <<partial, installed, recorded>>
told  == <<entry, shown>>

-----------------------------------------------------------------------------
(* What several steps share. *)

\* An open handle follows its file: the handles of game r on `from` are now
\* handles on `to`.
Follows(s, r, from, to) ==
    [b \in Attempts |->
        IF s[b].rom = r /\ s[b].fd = from THEN [s[b] EXCEPT !.fd = to] ELSE s[b]]

\* Mutant: any attempt of the game releases what is registered.
Release_Ungated(a) ==
    /\ token' = [token EXCEPT ![at[a].rom] = None]
    /\ claim' = claim \ {at[a].rom}

\* Only the attempt that registered a download releases it.
Release(a) ==
    LET r == at[a].rom
    IN  IF token[r] = a
        THEN /\ token' = [token EXCEPT ![r] = None]
             /\ claim' = claim \ {r}
        ELSE UNCHANGED <<token, claim>>

\* What is left of an attempt once both its task and its thread are over.
Rested(s) ==
    IF s.pc \in Over /\ s.th \notin Running
    THEN [Unused EXCEPT !.pc = s.pc, !.rom = s.rom, !.tick = s.tick] ELSE s

\* The task is over: how it went, and the stop it was asked has been answered.
Leaves(a, pc) ==
    at' = [at EXCEPT ![a] = Rested([@ EXCEPT !.pc = pc, !.sig = FALSE])]

\* The thread's transfer is over, with its answer.
Closed(s, a, th) ==
    [s EXCEPT ![a] = Rested([@ EXCEPT !.th = th, !.fd = "none", !.append = FALSE,
                                      !.nxt = 0, !.have = 0, !.resume = FALSE])]

Holders == {a \in Attempts : at[a].pc \in HoldsSlot}

\* Mutant: only an evicted entry is left alone.
LiveEntry_AnyEntry(r) == entry[r] # None

\* An entry an applier may still change: there, and not ended.
LiveEntry(r) == entry[r] # None /\ entry[r] \notin Ended

\* Marking an entry that was cleared raises, in the handler too: the task ends
\* there, having told nobody.
Drops(a) ==
    /\ entry[at[a].rom] = None
    /\ Leaves(a, "dropped")
    /\ Release(a)
    /\ UNCHANGED <<entry, shown, files>>

Marks(a, status) ==
    /\ entry[at[a].rom] # None
    /\ entry' = [entry EXCEPT ![at[a].rom] = status]
    /\ shown' = [shown EXCEPT ![at[a].rom] = status]

\* The terminal handler of a stop with nothing committed.  A pause keeps the
\* partial file, a cancel removes it.
HandleStop(a) ==
    LET r == at[a].rom
        end == IF at[a].stop = "paused" THEN "paused" ELSE "cancelled"
        s == [at EXCEPT ![a].pc = "telling", ![a].end = end, ![a].sig = FALSE]
    IN  \/ Drops(a)
        \/ /\ Marks(a, end)
           /\ IF end = "paused"
              THEN at' = s /\ UNCHANGED partial
              ELSE /\ at' = Follows(s, r, "partial", "orphan")
                   /\ partial' = [partial EXCEPT ![r] = NoFile]
           /\ UNCHANGED <<claim, token, installed, recorded>>

MarkCompleted(a, pc) ==
    \/ Drops(a)
    \/ /\ Marks(a, "completed")
       /\ at' = [at EXCEPT ![a].pc = pc, ![a].end = "completed", ![a].sig = FALSE]
       /\ UNCHANGED <<claim, token, files>>

-----------------------------------------------------------------------------
(* The calls. *)

Fresh(a) ==
    /\ at[a].pc = "unused"
    /\ \A b \in Attempts : b < a => at[b].pc # "unused"

\* Mutant: a start does not ask whether the game is already downloading.
StartDownload_Unasked(a, r) ==
    /\ Fresh(a)
    /\ at' = [at EXCEPT ![a].pc = "starting", ![a].rom = r]
    /\ claim' = claim \cup {r}
    /\ UNCHANGED <<token, told, files, removal, crossed, torn>>

StartDownload(a, r) ==
    /\ Fresh(a)
    /\ r \notin claim
    /\ at' = [at EXCEPT ![a].pc = "starting", ![a].rom = r]
    /\ claim' = claim \cup {r}
    /\ UNCHANGED <<token, told, files, removal, crossed, torn>>

ResumeDownload(a, r) ==
    /\ Fresh(a)
    /\ entry[r] = "paused"
    /\ at' = [at EXCEPT ![a].pc = "starting", ![a].rom = r, ![a].resume = TRUE]
    /\ claim' = claim \cup {r}
    /\ crossed' = IF r \in claim THEN crossed \cup {r} ELSE crossed
    /\ UNCHANGED <<token, told, files, removal, torn>>

\* The pre-flights refuse, raise, or the call is cancelled.
RefuseStart(a) ==
    /\ at[a].pc = "starting"
    /\ Leaves(a, "refused")
    /\ claim' = claim \ {at[a].rom}
    /\ UNCHANGED <<token, told, files, removal, crossed, torn>>

Admit(a) ==
    /\ at[a].pc = "starting"
    /\ at' = [at EXCEPT ![a].pc = "spawned"]
    /\ entry' = [entry EXCEPT ![at[a].rom] = "queued"]
    /\ token' = [token EXCEPT ![at[a].rom] = a]
    /\ UNCHANGED <<claim, shown, files, removal, crossed, torn>>

\* cancel_download and pause_download of a download with a task.  Where both
\* flags are set the handler goes by the pause.
Stop(r, how) ==
    LET a == token[r]
    IN  /\ a # None
        /\ at[a].pc \in Live
        /\ at' = [at EXCEPT ![a].stop = IF @ = "paused" THEN @ ELSE how, ![a].sig = TRUE]
        /\ UNCHANGED <<claim, token, told, files, removal, crossed, torn>>

CancelPaused(r) ==
    /\ token[r] = None
    /\ entry[r] = "paused"
    /\ partial' = [partial EXCEPT ![r] = NoFile]
    /\ at' = Follows(at, r, "partial", "orphan")
    /\ entry' = [entry EXCEPT ![r] = None]
    /\ shown' = [shown EXCEPT ![r] = "cancelled"]
    /\ UNCHANGED <<claim, token, installed, recorded, removal, crossed, torn>>

ClearCompleted ==
    /\ entry' = [r \in Roms |-> IF entry[r] \in Ended THEN None ELSE entry[r]]
    /\ UNCHANGED <<at, claim, token, shown, files, removal, crossed, torn>>

-----------------------------------------------------------------------------
(* The task. *)

\* It got a slot.
Enter(a) ==
    \/ Drops(a)
    \/ /\ entry[at[a].rom] # None
       /\ entry' = [entry EXCEPT ![at[a].rom] = "downloading"]
       /\ at' = [at EXCEPT ![a].pc = "fetching"]
       /\ UNCHANGED <<claim, token, shown, files>>

\* The task's first step.  Another that still reports itself queued may be
\* passed here, one that waits for the slot is not.
Begin(a) ==
    /\ at[a].pc = "spawned" /\ ~at[a].sig
    /\ \/ /\ Cardinality(Holders) < Slots
          /\ Enter(a)
       \/ /\ \/ Cardinality(Holders) >= Slots
             \/ \E b \in Attempts : at[b].pc = "waiting"
          /\ \/ Drops(a)
             \/ /\ Marks(a, "queued")
                /\ at' = [at EXCEPT ![a].pc = "waiting"]
                /\ UNCHANGED <<claim, token, files>>
    /\ UNCHANGED <<removal, crossed, torn>>

Acquire(a) ==
    /\ at[a].pc = "waiting" /\ ~at[a].sig
    /\ Cardinality(Holders) < Slots
    /\ Enter(a)
    /\ UNCHANGED <<removal, crossed, torn>>

\* A task cancelled before its first step never runs: nothing is released.
Strand(a) ==
    /\ at[a].pc = "spawned" /\ at[a].sig
    /\ Leaves(a, "stranded")
    /\ UNCHANGED <<claim, token, told, files, removal, crossed, torn>>

StopTransfer(a) ==
    /\ at[a].pc \in {"waiting", "fetching"} /\ at[a].sig
    /\ HandleStop(a)
    /\ UNCHANGED <<removal, crossed, torn>>

\* The transfer is in: the file is put in place and recorded on a thread.
Commit(a) ==
    /\ at[a].pc = "fetching" /\ at[a].th = "done" /\ ~at[a].sig
    /\ at' = [at EXCEPT ![a].pc = "committing", ![a].th = "placing"]
    /\ UNCHANGED <<claim, token, told, files, removal, crossed, torn>>

Complete(a) ==
    /\ at[a].pc = "committing" /\ at[a].th = "placed" /\ ~at[a].sig
    /\ MarkCompleted(a, "finishing")
    /\ UNCHANGED <<removal, crossed, torn>>

\* A stop while the commit runs waits for it; the slot is given back first.
StopCommit(a) ==
    /\ at[a].pc = "committing" /\ at[a].sig
    /\ at' = [at EXCEPT ![a].pc = "settling", ![a].sig = FALSE]
    /\ UNCHANGED <<claim, token, told, files, removal, crossed, torn>>

\* Mutant: a commit that ended is taken for one that went through.
Settle_AnyEnd(a) ==
    /\ at[a].pc = "settling" /\ ~at[a].sig
    /\ at[a].th \in {"placed", "unplaced"}
    /\ MarkCompleted(a, "telling")
    /\ UNCHANGED <<removal, crossed, torn>>

Settle(a) ==
    /\ at[a].pc = "settling" /\ ~at[a].sig
    /\ \/ at[a].th = "placed" /\ MarkCompleted(a, "telling")
       \/ at[a].th = "unplaced" /\ HandleStop(a)
    /\ UNCHANGED <<removal, crossed, torn>>

\* A stop while the completed download is told: it is told again.
StopFinish(a) ==
    /\ at[a].pc = "finishing" /\ at[a].sig
    /\ MarkCompleted(a, "telling")
    /\ UNCHANGED <<removal, crossed, torn>>

\* Mutant: a failed download's entry is not marked.
Fail_Unmarked(a) ==
    /\ ~at[a].sig
    /\ \/ at[a].pc = "fetching" /\ at[a].th = "failed"
       \/ at[a].pc = "committing" /\ at[a].th = "unplaced"
    /\ at' = [at EXCEPT ![a].pc = "telling", ![a].end = "failed"]
    /\ UNCHANGED <<claim, token, told, files, removal, crossed, torn>>

Fail(a) ==
    LET r == at[a].rom
        s == [at EXCEPT ![a].pc = "telling", ![a].end = "failed"]
    IN  /\ ~at[a].sig
        /\ \/ at[a].pc = "fetching" /\ at[a].th = "failed"
           \/ at[a].pc = "committing" /\ at[a].th = "unplaced"
        /\ \/ Drops(a)
           \/ /\ Marks(a, "failed")
              /\ at' = Follows(s, r, "partial", "orphan")
              /\ partial' = [partial EXCEPT ![r] = NoFile]
              /\ UNCHANGED <<claim, token, installed, recorded>>
        /\ UNCHANGED <<removal, crossed, torn>>

\* The frame is out.  A cancelled download's entry goes after its frame.
End(a) ==
    /\ at[a].pc \in {"telling", "finishing"} /\ ~at[a].sig
    /\ Leaves(a, "ended")
    /\ entry' = IF at[a].end = "cancelled"
                THEN [entry EXCEPT ![at[a].rom] = None] ELSE entry
    /\ Release(a)
    /\ UNCHANGED <<shown, files, removal, crossed, torn>>

\* A second stop ends the handler of the first where it waits.
Interrupt(a) ==
    /\ at[a].pc \in {"settling", "telling"} /\ at[a].sig
    /\ Leaves(a, IF at[a].pc = "settling" \/ at[a].end = "cancelled"
                 THEN "dropped" ELSE "ended")
    /\ Release(a)
    /\ UNCHANGED <<told, files, removal, crossed, torn>>

-----------------------------------------------------------------------------
(* The worker thread. *)

Size(r) == IF partial[r] = NoFile THEN 0 ELSE Len(partial[r])

\* Threads that read or write a game's files now, or are about to.
AtWork(a) ==
    \/ at[a].th \in Running
    \/ at[a].th = "done" /\ at[a].pc = "fetching"

\* A resume asks for what follows the bytes on disk, measured as it asks.
Asks(a) ==
    LET r == at[a].rom
    IN  /\ at' = [at EXCEPT ![a].th = "asking", ![a].fd = "none", ![a].append = FALSE,
                            ![a].nxt = 0, ![a].have = IF at[a].resume THEN Size(r) ELSE 0]
        /\ crossed' = IF \E b \in Attempts \ {a} : at[b].rom = r /\ AtWork(b)
                      THEN crossed \cup {r} ELSE crossed
        /\ UNCHANGED <<claim, token, told, files, removal, torn>>

\* A transfer whose task was stopped before the thread came to it never begins.
Ask(a) ==
    /\ at[a].th = "none" /\ at[a].pc = "fetching" /\ ~at[a].sig
    /\ Asks(a)

\* The server refused, stalled or broke off, and after a pause it is asked once
\* more.  The retries look at no control flag.
Retry(a) ==
    /\ at[a].th \in {"asking", "streaming"}
    /\ Asks(a)

\* The file is opened by its name as it is now, not as it was measured: what
\* the thread of a stopped attempt asked for may be gone.
Open(a, append, nxt, content) ==
    /\ torn' = IF append /\ Size(at[a].rom) # at[a].have
               THEN torn \cup {at[a].rom} ELSE torn
    /\ at' = [at EXCEPT ![a].th = "streaming", ![a].fd = "partial", ![a].have = 0,
                        ![a].append = append, ![a].nxt = nxt]
    /\ partial' = [partial EXCEPT ![at[a].rom] = content]
    /\ UNCHANGED <<claim, token, told, installed, recorded, removal, crossed>>

\* Mutant: the block after the one that is missing.
AnswerPart_SkipsOne(a) ==
    /\ at[a].th = "asking"
    /\ at[a].have \in 1..(Blocks - 1)
    /\ Open(a, TRUE, at[a].have + 2, <<>>)

\* A 206: append.
AnswerPart(a) ==
    LET r == at[a].rom
    IN  /\ at[a].th = "asking"
        /\ at[a].have \in 1..(Blocks - 1)
        /\ Open(a, TRUE, at[a].have + 1, IF partial[r] = NoFile THEN <<>> ELSE partial[r])

\* Mutant: whatever answers a resume is appended.
AnswerWhole_Appends(a) ==
    /\ at[a].th = "asking"
    /\ Open(a, Size(at[a].rom) > 0, 1, IF Size(at[a].rom) > 0 THEN partial[at[a].rom] ELSE <<>>)

\* A 200, asked for or not: truncate and restart.
AnswerWhole(a) ==
    /\ at[a].th = "asking"
    /\ Open(a, FALSE, 1, <<>>)

\* Block k at position p of c.
Written(c, p, k) ==
    [i \in 1..(IF p > Len(c) THEN p ELSE Len(c)) |->
        IF i = p THEN k ELSE IF i <= Len(c) THEN c[i] ELSE 0]

Put(a, c) ==
    Written(c, IF at[a].append THEN Len(c) + 1 ELSE at[a].nxt, at[a].nxt)

\* One block, then the progress tick: it ends a stopped transfer, or hands a
\* frame to the loop.  After the last block the bytes counted, those found on
\* disk included, are those announced.
Write(a) ==
    LET r == at[a].rom
        s == [at EXCEPT ![a].tick = TRUE]
    IN  /\ at[a].th = "streaming"
        /\ partial' = IF at[a].fd = "partial"
                      THEN [partial EXCEPT ![r] = Put(a, @)] ELSE partial
        /\ installed' = IF at[a].fd = "installed"
                        THEN [installed EXCEPT ![r] = Put(a, @)] ELSE installed
        /\ IF at[a].stop # None THEN at' = Closed(at, a, "aborted")
           ELSE IF at[a].nxt < Blocks THEN at' = [s EXCEPT ![a].nxt = @ + 1]
           ELSE at' = Closed(s, a, "done")
        /\ UNCHANGED <<claim, token, told, recorded, removal, crossed, torn>>

\* The last try failed, or what failed is not tried again.
GiveUp(a) ==
    /\ at[a].th \in {"asking", "streaming"}
    /\ at' = Closed(at, a, "failed")
    /\ UNCHANGED <<claim, token, told, files, removal, crossed, torn>>

Rename(a) ==
    LET r == at[a].rom
        s == [at EXCEPT ![a].th = "renamed"]
    IN  /\ at[a].th = "placing"
        /\ IF partial[r] = NoFile
           THEN /\ at' = Closed(at, a, "unplaced")
                /\ UNCHANGED files
           ELSE /\ installed' = [installed EXCEPT ![r] = partial[r]]
                /\ partial' = [partial EXCEPT ![r] = NoFile]
                /\ at' = Follows(Follows(s, r, "installed", "orphan"), r, "partial", "installed")
                /\ UNCHANGED recorded
        /\ UNCHANGED <<claim, token, told, removal, crossed, torn>>

\* The row is written, or the write fails.
Record(a) ==
    /\ at[a].th = "renamed"
    /\ \/ /\ at' = Closed(at, a, "placed")
          /\ recorded' = recorded \cup {at[a].rom}
       \/ /\ at' = Closed(at, a, "unplaced")
          /\ UNCHANGED recorded
    /\ UNCHANGED <<claim, token, told, partial, installed, removal, crossed, torn>>

\* The loop runs what a tick handed it.
ApplyTick(a) ==
    /\ at[a].tick
    /\ at' = [at EXCEPT ![a].tick = FALSE]
    /\ shown' = IF LiveEntry(at[a].rom)
                THEN [shown EXCEPT ![at[a].rom] = "downloading"] ELSE shown
    /\ UNCHANGED <<claim, token, entry, files, removal, crossed, torn>>

-----------------------------------------------------------------------------
(* Uninstalls. *)

BeginRemoval(of, evicts) ==
    /\ removal.stage = "idle" /\ removal.left > 0
    /\ removal' = [stage |-> "files", of |-> of, evicts |-> evicts, left |-> removal.left - 1]
    /\ UNCHANGED <<at, claim, token, told, files, crossed, torn>>

\* An uninstall drops its game's entry in the end; uninstall_all_roms, of what
\* was installed as it began, drops every entry.
RemoveRom(r) == r \in recorded /\ BeginRemoval({r}, {r})
UninstallAllRoms == BeginRemoval(recorded, Roms)

DeleteFiles ==
    /\ removal.stage = "files"
    /\ removal' = [removal EXCEPT !.stage = "rows"]
    /\ installed' = [r \in Roms |-> IF r \in removal.of THEN NoFile ELSE installed[r]]
    /\ at' = [b \in Attempts |->
                IF at[b].rom \in removal.of /\ at[b].fd = "installed"
                THEN [at[b] EXCEPT !.fd = "orphan"] ELSE at[b]]
    /\ UNCHANGED <<claim, token, told, partial, recorded, crossed, torn>>

\* The files cannot be deleted: remove_rom refuses and evicts nothing,
\* uninstall_all_roms keeps the row and goes on.
DeleteFails ==
    /\ removal.stage = "files" /\ removal.of # {}
    /\ \/ /\ \E r \in Roms : removal.evicts = {r}
          /\ removal' = [removal EXCEPT !.stage = "idle", !.of = {}, !.evicts = {}]
       \/ /\ removal.evicts = Roms
          /\ \E of \in SUBSET removal.of \ {removal.of} :
                removal' = [removal EXCEPT !.of = of]
    /\ UNCHANGED <<at, claim, token, told, files, crossed, torn>>

DropRows ==
    /\ removal.stage = "rows"
    /\ removal' = [removal EXCEPT !.stage = "queue"]
    /\ recorded' = recorded \ removal.of
    /\ UNCHANGED <<at, claim, token, told, partial, installed, crossed, torn>>

Forget ==
    /\ removal.stage = "queue"
    /\ removal' = [removal EXCEPT !.stage = "idle", !.of = {}, !.evicts = {}]
    /\ entry' = [r \in Roms |-> IF r \in removal.evicts THEN None ELSE entry[r]]
    /\ UNCHANGED <<at, claim, token, shown, files, crossed, torn>>

-----------------------------------------------------------------------------
Answered(a) == RefuseStart(a) \/ Admit(a)

TaskStep(a) ==
    \/ Begin(a) \/ Acquire(a) \/ Strand(a) \/ StopTransfer(a) \/ Commit(a)
    \/ Complete(a) \/ StopCommit(a) \/ Settle(a) \/ StopFinish(a) \/ Fail(a)
    \/ End(a) \/ Interrupt(a)

Transfer(a) ==
    \/ Ask(a) \/ AnswerPart(a) \/ AnswerWhole(a) \/ Write(a)
    \/ Retry(a) \/ GiveUp(a) \/ Rename(a) \/ Record(a)

RemovalStep == DeleteFiles \/ DeleteFails \/ DropRows \/ Forget

Next ==
    \/ \E a \in Attempts, r \in Roms : StartDownload(a, r) \/ ResumeDownload(a, r)
    \/ \E r \in Roms, how \in {"cancelled", "paused"} : Stop(r, how)
    \/ \E r \in Roms : CancelPaused(r)
    \/ ClearCompleted
    \/ \E a \in Attempts : Answered(a) \/ TaskStep(a) \/ Transfer(a) \/ ApplyTick(a)
    \/ (\E r \in Roms : RemoveRom(r)) \/ UninstallAllRoms
    \/ RemovalStep

Spec == Init /\ [][Next]_vars

-----------------------------------------------------------------------------
Contents == Seq(0..Blocks) \cup {NoFile}

TypeOK ==
    /\ at \in [Attempts ->
          [pc : {"unused", "starting"} \cup Live \cup Over, rom : Roms,
           resume : BOOLEAN, sig : BOOLEAN, stop : {"cancelled", "paused", None},
           end : Ended \cup {"paused", None},
           th : {"none", "asking", "streaming", "done", "aborted", "failed",
                 "placing", "renamed", "placed", "unplaced"},
           have : Nat, nxt : 0..Blocks, append : BOOLEAN,
           fd : {"none", "partial", "installed", "orphan"}, tick : BOOLEAN]]
    /\ claim \subseteq Roms /\ recorded \subseteq Roms
    /\ crossed \subseteq Roms /\ torn \subseteq Roms
    /\ token \in [Roms -> Attempts \cup {None}]
    /\ entry \in [Roms -> Statuses \cup {None}]
    /\ shown \in [Roms -> Statuses \cup {None}]
    /\ partial \in [Roms -> Contents] /\ installed \in [Roms -> Contents]
    /\ removal \in [stage : {"idle", "files", "rows", "queue"}, of : SUBSET Roms,
                    evicts : SUBSET Roms, left : 0..MaxRemovals]

\* What is installed is the game's file, whole.
InstalledIsWhole ==
    \A r \in Roms : installed[r] \in {NoFile, Whole}

\* What is installed is whole as long as no two attempts of the game crossed
\* and no partial file went between a request for its rest and the answer:
\* whatever was paused, resumed, cancelled, retried, restarted by the server
\* or uninstalled.
WholeUnlessCrossed ==
    \A r \in Roms \ (crossed \cup torn) : installed[r] \in {NoFile, Whole}

\* A download told completed is on disk and recorded, until an uninstall of it,
\* as long as no two attempts of the game crossed: of two that did, one can
\* complete the entry of the other after an uninstall took its own.
CompletedIsInstalled ==
    \A r \in Roms \ crossed :
        entry[r] = "completed" =>
            \/ installed[r] # NoFile /\ r \in recorded
            \/ removal.stage # "idle" /\ r \in removal.evicts

\* A registered download under way holds the game's claim, so no other start
\* is accepted.
ClaimHeld ==
    \A r \in Roms \ crossed :
        token[r] # None /\ at[token[r]].pc \in Live => r \in claim

Gone(a, r) == at[a].rom = r /\ at[a].pc \in {"stranded", "dropped"}

\* An entry that shows work has an attempt at work, unless one ended without
\* settling it.
EntryIsWorked ==
    \A r \in Roms :
        entry[r] \in {"queued", "downloading"} =>
            \E a \in Attempts :
                \/ at[a].rom = r /\ at[a].pc \in Live
                \/ Gone(a, r)

\* Only the attempt that registered a download releases it, and only at its
\* own end; another may only register in its place.
OnlyOwnerReleases ==
    [][\A r \in Roms, a \in Attempts :
          token[r] = a /\ token'[r] # a =>
              \/ at'[a].pc \in {"ended", "dropped"} /\ token'[r] = None
              \/ token'[r] # None /\ at'[token'[r]].pc = "spawned"
                                 /\ at[token'[r]].pc = "starting"]_vars

\* What ended is not revived: no late tick changes an ended or cleared entry,
\* nor tells the panel of it, until the game is queued again.
EndedStaysEnded ==
    [][\A r \in Roms :
          entry[r] \in Ended \cup {None} /\ r \notin crossed' =>
              \/ entry'[r] = entry[r] /\ shown'[r] = shown[r]
              \/ entry'[r] \in {None, "queued"} /\ shown'[r] = shown[r]
              \/ entry[r] = "completed" /\ entry'[r] = "completed"]_vars

\* No download is left waiting where nothing can move it: for a slot, for its
\* thread, for the commit a stop waits behind.
NobodyStuck ==
    (\E a \in Attempts : at[a].pc \notin {"unused"} \cup Over) =>
        \E a \in Attempts : ENABLED (Answered(a) \/ TaskStep(a) \/ Transfer(a))
=============================================================================
