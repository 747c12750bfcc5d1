------------------------------ MODULE SaveSync ------------------------------
(***************************************************************************)
(* The save files of one game in one slot, on several devices that sync    *)
(* them with RomM.                                                         *)
(*                                                                         *)
(* A device runs at most one operation on the game's saves at a time (the  *)
(* ROM's rom_lock): a sync (services/saves/sync_engine/matrix.py) or the   *)
(* resolution of a conflict (rollback.py).  Each works on a copy of the    *)
(* recorded baselines, in memory, and writes it once, at its end.  A step  *)
(* below is one request to RomM, one change of the save directory, or one  *)
(* decision; between two steps other devices sync, another client may      *)
(* replace a save in place, the backend may stop, and a game may write.    *)
(***************************************************************************)
EXTENDS SaveKernel

CONSTANTS
    Devices,
    Files,
    NoFile,
    Syncs,          \* the kinds of sync the devices run
    MaxContent,     \* bound: contents the games and other clients write
    MaxSaves,       \* bound: saves RomM comes to hold
    MaxFaults,      \* bound: crashes and requests that fail
    MaxReplaced,    \* bound: saves another client replaces in place
    Truncated,      \* contents too short to be an edit of what was there
    RenameFails,    \* whether placing a download may fail half way
    PlayAnyway      \* whether a game may be started while its saves sync

ASSUME SaveAssumption ==
    /\ MaxContent \in Nat
    /\ MaxSaves \in Nat
    /\ MaxFaults \in Nat
    /\ MaxReplaced \in Nat
    /\ NoFile \notin Files
    /\ Syncs \subseteq {"preLaunch", "postExit"}
    /\ RenameFails \in BOOLEAN
    /\ PlayAnyway \in BOOLEAN

VARIABLES
    disk,       \* the save files of each device
    backups,    \* the contents in each device's .romm-backup
    base,       \* the recorded baselines (rom_save_files)
    game,       \* the game of each device, and the saves it has loaded
    op,         \* the operation of each device
    shown,      \* the conflicts each device last showed, by the save's id
    saves,      \* RomM: the saves of the slot, in the order of their ids
    rows,       \* RomM: last_synced_at of each device's row, 0 without one
    bare,       \* RomM: the rows that name no hash of the device
    clock,      \* RomM's time, one tick per change of a save
    written,    \* contents written so far
    over,       \* contents a content supersedes: played from, or kept over
    faults,
    replaced

deviceVars == <<disk, backups, base, game>>
serverVars == <<saves, rows, bare, clock>>
boundVars == <<faults, replaced>>
vars == <<deviceVars, op, shown, serverVars, written, over, boundVars>>

Contents == 1..MaxContent
Ids == 1..MaxSaves
MaxClock == MaxSaves + MaxReplaced

NoBaseline == [local |-> None, server |-> None]
NoSave == [id |-> 0, content |-> None]
Refused == MaxSaves + 1     \* shown: a resolution refused as stale
NotRunning == [running |-> FALSE, loaded |-> [f \in Files |-> None]]

Resolutions == {"useServer", "keepLocal"}

Idle ==
    [pc |-> "idle", kind |-> "none", stop |-> FALSE, todo |-> {}, probed |-> {},
     listed |-> {}, mem |-> [f \in Files |-> NoBaseline], file |-> NoFile,
     local |-> None, head |-> NoSave, then |-> "none"]

Listed == [id : Ids, file : Files, content : Contents, upd : 1..MaxClock, current : BOOLEAN]
Baselines == [Files -> [local : 0..MaxContent, server : 0..MaxContent]]

Operations ==
    [pc : {"idle", "decide", "compare", "adopt", "post", "recordUpload", "relist",
           "fetch", "place", "ack", "ackAgain", "record"},
     kind : Syncs \cup Resolutions \cup {"none"},
     stop : BOOLEAN,
     todo : SUBSET Files,
     probed : SUBSET Files,
     listed : SUBSET Listed,
     mem : Baselines,
     file : Files \cup {NoFile},
     local : 0..MaxContent,
     head : [id : 0..MaxSaves, content : 0..MaxContent],
     then : {"none", "record", "recordAdopt", "done"}]

TypeOK ==
    /\ disk \in [Devices -> [Files -> 0..MaxContent]]
    /\ backups \in [Devices -> SUBSET Contents]
    /\ base \in [Devices -> Baselines]
    /\ game \in [Devices -> [running : BOOLEAN, loaded : [Files -> 0..MaxContent]]]
    /\ op \in [Devices -> Operations]
    /\ shown \in [Devices -> [Files -> 0..Refused]]
    /\ saves \in Seq([file : Files, content : Contents, upd : 1..MaxClock])
    /\ Len(saves) <= MaxSaves
    /\ rows \in [Devices -> [Ids -> 0..MaxClock]]
    /\ bare \subseteq Devices \X Ids
    /\ clock \in 0..MaxClock
    /\ written \in 0..MaxContent
    /\ over \in [0..MaxContent -> SUBSET Contents]
    /\ faults \in 0..MaxFaults
    /\ replaced \in 0..MaxReplaced

(* Nothing was ever saved, or one device uploaded a save with a Tender that *)
(* named no hash to RomM: its row is bare.                                  *)
Init ==
    /\ backups = [d \in Devices |-> {}]
    /\ game = [d \in Devices |-> NotRunning]
    /\ op = [d \in Devices |-> Idle]
    /\ shown = [d \in Devices |-> [f \in Files |-> 0]]
    /\ faults = 0
    /\ replaced = 0
    /\ \/ /\ disk = [d \in Devices |-> [f \in Files |-> None]]
          /\ base = [d \in Devices |-> [f \in Files |-> NoBaseline]]
          /\ saves = <<>>
          /\ rows = [d \in Devices |-> [i \in Ids |-> 0]]
          /\ bare = {}
          /\ clock = 0
          /\ written = 0
          /\ over = [c \in 0..MaxContent |-> {}]
       \/ \E d \in Devices, f \in Files :
          /\ MaxReplaced > 0 /\ MaxContent > 0 /\ MaxSaves > 0
          /\ disk = [e \in Devices |-> [g \in Files |-> IF e = d /\ g = f THEN 1 ELSE None]]
          /\ base = [e \in Devices |-> [g \in Files |->
                        IF e = d /\ g = f THEN [local |-> 1, server |-> 1] ELSE NoBaseline]]
          /\ saves = <<[file |-> f, content |-> 1, upd |-> 1]>>
          /\ rows = [e \in Devices |-> [i \in Ids |-> IF e = d /\ i = 1 THEN 1 ELSE 0]]
          /\ bare = {<<d, 1>>}
          /\ clock = 1
          /\ written = 1
          /\ over = [c \in 0..MaxContent |-> IF c = 1 THEN {1} ELSE {}]

-----------------------------------------------------------------------------
(* History: what supersedes what.                                          *)

Write(content, from) ==
    over' = [over EXCEPT ![content] = over[from] \cup {content}]

(* The user chose winner over loser: whatever was played from the winner   *)
(* supersedes what the loser does.                                         *)
Choose(winner, loser) ==
    over' = [c \in DOMAIN over |-> IF winner \in over[c] THEN over[c] \cup over[loser] ELSE over[c]]

-----------------------------------------------------------------------------
(* Mutant: the start leaves the sync running.                              *)
StartGame_SyncRunsOn(d) ==
    /\ ~game[d].running
    /\ op[d].pc = "idle" \/ PlayAnyway
    /\ game' = [game EXCEPT ![d] = [running |-> TRUE, loaded |-> disk[d]]]
    /\ op' = op
    /\ UNCHANGED <<disk, backups, base, shown, serverVars, written, over, boundVars>>

(* The game.                                                               *)
StartGame(d) ==
    /\ ~game[d].running
    /\ op[d].pc = "idle" \/ PlayAnyway
    /\ game' = [game EXCEPT ![d] = [running |-> TRUE, loaded |-> disk[d]]]
    /\ op' = IF op[d].kind = "preLaunch" THEN [op EXCEPT ![d].stop = TRUE] ELSE op
    /\ UNCHANGED <<disk, backups, base, shown, serverVars, written, over, boundVars>>

GameWrites(d, f) ==
    /\ game[d].running
    /\ written < MaxContent
    /\ written' = written + 1
    /\ Write(written + 1, game[d].loaded[f])
    /\ disk' = [disk EXCEPT ![d][f] = written + 1]
    /\ game' = [game EXCEPT ![d].loaded[f] = written + 1]
    /\ UNCHANGED <<backups, base, op, shown, serverVars, boundVars>>

ExitGame(d) ==
    /\ game[d].running
    /\ game' = [game EXCEPT ![d] = NotRunning]
    /\ UNCHANGED <<disk, backups, base, op, shown, serverVars, written, over, boundVars>>

-----------------------------------------------------------------------------
(* A sync: the server's saves are listed once, the files probed once, and  *)
(* each file is decided just before it is dispatched.                      *)

Start(d, kind) ==
    LET listed == Listing(saves, rows[d])
        probed == {f \in Files : disk[d][f] # None}
    IN /\ op[d].pc = "idle"
       /\ ~game[d].running
       /\ op' = [op EXCEPT ![d] = [Idle EXCEPT
                    !.pc = "decide", !.kind = kind, !.mem = base[d], !.listed = listed,
                    !.probed = probed, !.todo = probed \cup {s.file : s \in listed}]]
       /\ shown' = [shown EXCEPT ![d] = [f \in Files |-> 0]]
       /\ UNCHANGED <<deviceVars, serverVars, written, over, boundVars>>

(* The operation once its file is dispatched.  A resolution has one file.  *)
Done(o) == [o EXCEPT !.pc = "decide", !.todo = @ \ {o.file},
                     !.local = None, !.head = NoSave, !.then = "none"]

(* A failure of the file: a sync reports it and goes on; a resolution      *)
(* raises, and what it recorded in memory is not written.                  *)
Failed(o) == IF o.kind \in Syncs THEN Done(o) ELSE Idle

Named(s) == [id |-> s.id, content |-> s.content]

Decide(d) ==
    /\ op[d].pc = "decide"
    /\ ~op[d].stop
    /\ \E f \in op[d].todo :
       LET o == [op[d] EXCEPT !.file = f]
           local == IF f \in o.probed THEN disk[d][f] ELSE None
           group == Group(o.listed, f)
           head == IF group = {} THEN NoSave ELSE Named(Newest(group))
           decision == Decision(local, group, o.mem[f], Truncated)
           at(pc) == [o EXCEPT !.pc = pc, !.local = local, !.head = head]
       IN /\ f \in o.probed \/ o.todo \cap o.probed = {}
          /\ shown' = IF decision = "conflict" THEN [shown EXCEPT ![d][f] = head.id] ELSE shown
          /\ op' = [op EXCEPT ![d] =
                CASE decision \in {"skip", "conflict"} -> Done(o)
                  [] decision = "record" -> Done([o EXCEPT
                        !.mem[f] = [local |-> local, server |-> head.content]])
                  [] decision = "adopt" -> at("adopt")
                  [] decision = "upload" -> at("post")
                  [] decision = "download" -> at("fetch")]
    /\ UNCHANGED <<deviceVars, serverVars, written, over, boundVars>>

(* The one write of the state, at the end of the run or where a stop ends  *)
(* it.                                                                     *)
Finish(d) ==
    /\ op[d].pc = "decide"
    /\ op[d].todo = {} \/ op[d].stop
    /\ base' = [base EXCEPT ![d] = op[d].mem]
    /\ shown' = IF op[d].kind \in Resolutions THEN [shown EXCEPT ![d][op[d].file] = 0] ELSE shown
    /\ op' = [op EXCEPT ![d] = Idle]
    /\ UNCHANGED <<disk, backups, game, serverVars, written, over, boundVars>>

-----------------------------------------------------------------------------
(* The user picks a side of a conflict the device showed.                  *)

(* Resolving lists again and takes the newest save of the slot.            *)
Resolve(d, f, kind) ==
    LET id == SlotHead(saves)
        o == [Idle EXCEPT !.kind = kind, !.mem = base[d], !.file = f, !.todo = {f},
                          !.head = [id |-> id, content |-> saves[id].content]]
    IN /\ op[d].pc = "idle"
       /\ ~game[d].running
       /\ shown[d][f] \in Ids
       /\ id # 0
       /\ \/ /\ id # shown[d][f]
             /\ shown' = [shown EXCEPT ![d][f] = Refused]
             /\ UNCHANGED op
          \/ /\ id = shown[d][f]
             /\ kind = "useServer"
             /\ op' = [op EXCEPT ![d] = [o EXCEPT !.pc = "fetch"]]
             /\ UNCHANGED shown
          \/ /\ id = shown[d][f]
             /\ kind = "keepLocal"
             /\ disk[d][f] # None
             /\ op' = [op EXCEPT ![d] = [o EXCEPT !.pc = "compare", !.local = disk[d][f]]]
             /\ UNCHANGED shown
       /\ UNCHANGED <<deviceVars, serverVars, written, over, boundVars>>

(* Keep Local fetches the server copy to spare an upload of the same bytes. *)
Compare(d) ==
    /\ op[d].pc = "compare"
    /\ op' = [op EXCEPT ![d].pc = IF saves[op[d].head.id].content = op[d].local THEN "adopt" ELSE "post"]
    /\ UNCHANGED <<deviceVars, shown, serverVars, written, over, boundVars>>

-----------------------------------------------------------------------------
(* Uploads.                                                                *)

Create(d, f, content) ==
    /\ saves' = Append(saves, [file |-> f, content |-> content, upd |-> clock + 1])
    /\ rows' = [rows EXCEPT ![d][Len(saves) + 1] = clock + 1]
    /\ clock' = clock + 1
    /\ UNCHANGED bare

(* Mutant: a sync uploads past RomM's gate.                                *)
Overwrites_Always(o) == TRUE

(* Mutant: Keep Local is sent without overwrite.                           *)
Overwrites_Never(o) == FALSE

(* Only the user's choice passes RomM's write-time gate.                   *)
Overwrites(o) == o.kind = "keepLocal"

KeptOver(d, content) ==
    LET beaten == FileHead(saves, op[d].file)
    IN IF op[d].kind = "keepLocal" /\ beaten # 0
       THEN Choose(content, saves[beaten].content) ELSE UNCHANGED over

Post(d) ==
    LET o == op[d]
        content == disk[d][o.file]
        overwrite == Overwrites(o)
        same == SameContent(saves, content, overwrite)
    IN /\ o.pc = "post"
       /\ \/ /\ PostRefused(saves, rows[d], overwrite)
             /\ op' = [op EXCEPT ![d].pc = "relist"]
             /\ UNCHANGED <<serverVars, over>>
          \/ /\ ~PostRefused(saves, rows[d], overwrite)
             /\ \E id \in same :
                LET response == [id |-> id, content |-> content]
                    planned == Group(o.listed, o.file)
                IN op' = [op EXCEPT ![d] =
                    IF planned # {} /\ DedupReturnedNonHead(response, planned)
                    THEN [o EXCEPT !.pc = "relist"]
                    ELSE [o EXCEPT !.pc = "recordUpload", !.head = response,
                              !.then = IF IsCurrent(saves, rows[d], id) THEN "none" ELSE "done"]]
             /\ UNCHANGED <<serverVars, over>>
          \/ /\ ~PostRefused(saves, rows[d], overwrite)
             /\ same = {}
             /\ Len(saves) < MaxSaves
             /\ Create(d, o.file, content)
             /\ op' = [op EXCEPT ![d] = [o EXCEPT
                    !.pc = "recordUpload", !.head = [id |-> Len(saves) + 1, content |-> content]]]
             /\ KeptOver(d, content)
       /\ UNCHANGED <<deviceVars, shown, written, boundVars>>

(* The baseline is measured after the request; the acknowledgement is sent *)
(* unless the answer proved the device current.                            *)
RecordUpload(d) ==
    LET o == op[d]
        recorded == [o EXCEPT !.mem[o.file] = [local |-> disk[d][o.file], server |-> o.head.content]]
    IN /\ o.pc = "recordUpload"
       /\ op' = [op EXCEPT ![d] =
            IF o.then = "none" THEN Done(recorded)
            ELSE [recorded EXCEPT !.pc = "ack", !.local = o.head.content]]
       /\ UNCHANGED <<deviceVars, shown, serverVars, written, over, boundVars>>

(* Mutant: the recorded hash stands in for the local one.                  *)
Redecided_Recorded(o, fresh) == UploadConflict(o.mem[o.file].local, o.mem[o.file], fresh)

Redecided(o, fresh) == UploadConflict(o.local, o.mem[o.file], fresh)

(* A refused upload: list again and decide from the hashes alone.          *)
Relist(d) ==
    LET o == op[d]
        group == Group(Listing(saves, rows[d]), o.file)
        fresh == Newest(group)
    IN /\ o.pc = "relist"
       /\ \/ /\ group = {}
             /\ op' = [op EXCEPT ![d] = Failed(o)]
             /\ UNCHANGED shown
          \/ /\ group # {}
             /\ Redecided(o, fresh) = "download"
             /\ op' = [op EXCEPT ![d] = [o EXCEPT !.pc = "fetch", !.head = Named(fresh)]]
             /\ UNCHANGED shown
          \/ /\ group # {}
             /\ Redecided(o, fresh) = "conflict"
             /\ op' = [op EXCEPT ![d] = Done(o)]
             /\ shown' = [shown EXCEPT ![d][o.file] = fresh.id]
       /\ UNCHANGED <<deviceVars, serverVars, written, over, boundVars>>

-----------------------------------------------------------------------------
(* Mutant: RomM marks the device current at the GET.                       *)
Fetch_MarksCurrent(d) ==
    LET o == op[d]
    IN /\ o.pc = "fetch"
       /\ op' = [op EXCEPT ![d] =
            IF o.stop THEN Done(o)
            ELSE [o EXCEPT !.pc = "place", !.local = saves[o.head.id].content]]
       /\ rows' = [rows EXCEPT ![d][o.head.id] = saves[o.head.id].upd]
       /\ UNCHANGED <<deviceVars, shown, saves, bare, clock, written, over, boundVars>>

(* Downloads: fetched beside the file, placed once complete, acknowledged  *)
(* once placed, recorded once acknowledged.  A stop asked by the time the  *)
(* content is complete ends the run; a placing once begun is carried out.  *)
Fetch(d) ==
    LET o == op[d]
    IN /\ o.pc = "fetch"
       /\ op' = [op EXCEPT ![d] =
            IF o.stop THEN Done(o)
            ELSE [o EXCEPT !.pc = "place", !.local = saves[o.head.id].content]]
       /\ UNCHANGED <<deviceVars, shown, serverVars, written, over, boundVars>>

(* Mutant: the file replaced is not kept.                                  *)
MoveAside_Deletes(d, f) ==
    backups' = backups

(* Mutant: a file that is not there is backed up.                          *)
MoveAside_NoFileToo(d, f) ==
    backups' = [backups EXCEPT ![d] = @ \cup {disk[d][f]}]

MoveAside(d, f) ==
    backups' = [backups EXCEPT ![d] = @ \cup ({disk[d][f]} \ {None})]

Place(d) ==
    LET o == op[d]
        f == o.file
    IN /\ o.pc = "place"
       /\ MoveAside(d, f)
       /\ disk' = [disk EXCEPT ![d][f] = o.local]
       /\ op' = [op EXCEPT ![d] = [o EXCEPT !.pc = "ack", !.then = "record"]]
       /\ UNCHANGED <<base, game, shown, serverVars, written, over, boundVars>>

(* Mutant: the download is not recorded.                                   *)
Record_Forgotten(d) ==
    LET o == op[d]
    IN /\ o.pc = "record"
       /\ op' = [op EXCEPT ![d] = Done(o)]
       /\ UNCHANGED <<deviceVars, shown, serverVars, written, over, boundVars>>

(* A record follows a transfer: the file is measured again.                *)
Record(d) ==
    LET o == op[d]
    IN /\ o.pc = "record"
       /\ op' = [op EXCEPT ![d] = Done([o EXCEPT
                    !.mem[o.file] = [local |-> disk[d][o.file], server |-> o.head.content]])]
       /\ UNCHANGED <<deviceVars, shown, serverVars, written, over, boundVars>>

-----------------------------------------------------------------------------
(* Acknowledgements.  local is the hash they name.                         *)

(* An adopt measures the file again; one that changed is not acknowledged  *)
(* (Keep Local then uploads it).                                           *)
Adopt(d) ==
    LET o == op[d]
    IN /\ o.pc = "adopt"
       /\ op' = [op EXCEPT ![d] =
            IF disk[d][o.file] = o.local THEN [o EXCEPT !.pc = "ack", !.then = "recordAdopt"]
            ELSE IF o.kind = "keepLocal" THEN [o EXCEPT !.pc = "post"] ELSE Done(o)]
       /\ UNCHANGED <<deviceVars, shown, serverVars, written, over, boundVars>>

Confirm(d, id) ==
    /\ rows' = [rows EXCEPT ![d][id] = ConfirmedRow(saves, rows[d], <<d, id>> \in bare, id)]
    /\ bare' = bare \ {<<d, id>>}
    /\ UNCHANGED <<saves, clock>>

Acknowledged(o) ==
    CASE o.then = "record" -> [o EXCEPT !.pc = "record"]
      [] o.then = "recordAdopt" -> Done([o EXCEPT
            !.mem[o.file] = [local |-> o.local, server |-> o.head.content]])
      [] o.then = "done" -> Done(o)

(* A fetch that fails or an acknowledgement not taken: an upload's is       *)
(* swallowed, a resolution whose file holds the head's bytes counts as      *)
(* carried out.                                                            *)
NotTaken(d) ==
    LET o == op[d]
    IN IF o.then = "done" \/ (o.kind \in Resolutions /\ disk[d][o.file] = o.head.content)
       THEN Done(o) ELSE Failed(o)

(* Mutant: whatever RomM answers counts as taken.                          *)
Acknowledge_OnceEnough(d) ==
    LET o == op[d]
        id == o.head.id
    IN /\ o.pc = "ack"
       /\ Confirm(d, id)
       /\ op' = [op EXCEPT ![d] =
            Acknowledged(o)]
       /\ UNCHANGED <<deviceVars, shown, written, over, boundVars>>

Acknowledge(d) ==
    LET o == op[d]
        id == o.head.id
    IN /\ o.pc = "ack"
       /\ Confirm(d, id)
       /\ op' = [op EXCEPT ![d] =
            IF rows'[d][id] >= saves[id].upd THEN Acknowledged(o)
            ELSE IF saves[id].content # o.local THEN NotTaken(d)
            ELSE [o EXCEPT !.pc = "ackAgain"]]
       /\ UNCHANGED <<deviceVars, shown, written, over, boundVars>>

AcknowledgeAgain(d) ==
    LET o == op[d]
        id == o.head.id
    IN /\ o.pc = "ackAgain"
       /\ Confirm(d, id)
       /\ op' = [op EXCEPT ![d] =
            IF rows'[d][id] >= saves[id].upd THEN Acknowledged(o) ELSE NotTaken(d)]
       /\ UNCHANGED <<deviceVars, shown, written, over, boundVars>>

-----------------------------------------------------------------------------
(* What goes wrong.                                                        *)

Fault == faults < MaxFaults /\ faults' = faults + 1

(* A request that fails once its retries are spent.                        *)
RequestFails(d) ==
    LET o == op[d]
    IN /\ Fault
       /\ \/ /\ o.pc \in {"post", "relist"}
             /\ op' = [op EXCEPT ![d] = Failed(o)]
          \/ /\ o.pc = "compare"
             /\ op' = [op EXCEPT ![d].pc = "post"]
          \/ /\ o.pc \in {"fetch", "ack", "ackAgain"}
             /\ op' = [op EXCEPT ![d] = NotTaken(d)]
       /\ UNCHANGED <<deviceVars, shown, serverVars, written, over, replaced>>

(* RomM did it, the answer was lost, and the retry sends it again.         *)
AnswerLost(d) ==
    LET o == op[d]
        overwrite == Overwrites(o)
        content == disk[d][o.file]
    IN /\ Fault
       /\ \/ /\ o.pc = "post"
             /\ ~PostRefused(saves, rows[d], overwrite)
             /\ SameContent(saves, content, overwrite) = {}
             /\ Len(saves) < MaxSaves
             /\ KeptOver(d, content)
             /\ Create(d, o.file, content)
             /\ UNCHANGED op
          \/ /\ o.pc \in {"ack", "ackAgain"}
             /\ Confirm(d, o.head.id)
             /\ op' = [op EXCEPT ![d].pc = "ack"]
             /\ UNCHANGED over
       /\ UNCHANGED <<deviceVars, shown, written, replaced>>

(* The old file was moved aside and the new one could not be renamed.      *)
PlaceFails(d) ==
    LET o == op[d]
    IN /\ RenameFails
       /\ Fault
       /\ o.pc = "place"
       /\ MoveAside(d, o.file)
       /\ disk' = [disk EXCEPT ![d][o.file] = None]
       /\ op' = [op EXCEPT ![d] = Failed(o)]
       /\ UNCHANGED <<base, game, shown, serverVars, written, over, replaced>>

(* The backend stops between two steps: what was recorded in memory is     *)
(* lost, what RomM and the disk hold is not.                               *)
Crash(d) ==
    /\ Fault
    /\ op[d].pc # "idle"
    /\ op' = [op EXCEPT ![d] = Idle]
    /\ UNCHANGED <<deviceVars, shown, serverVars, written, over, replaced>>

(* Another client replaces a save in place.                                *)
Replace(id) ==
    /\ replaced < MaxReplaced
    /\ written < MaxContent
    /\ id \in 1..Len(saves)
    /\ replaced' = replaced + 1
    /\ written' = written + 1
    /\ clock' = clock + 1
    /\ saves' = [saves EXCEPT ![id].content = written + 1, ![id].upd = clock + 1]
    /\ Write(written + 1, saves[id].content)
    /\ UNCHANGED <<deviceVars, op, shown, rows, bare, faults>>

-----------------------------------------------------------------------------
Step(d) ==
    \/ Decide(d) \/ Finish(d) \/ Compare(d)
    \/ Post(d) \/ RecordUpload(d) \/ Relist(d)
    \/ Fetch(d) \/ Place(d) \/ Record(d)
    \/ Adopt(d) \/ Acknowledge(d) \/ AcknowledgeAgain(d)

Fails(d) == RequestFails(d) \/ AnswerLost(d) \/ PlaceFails(d) \/ Crash(d)

Plays(d) == StartGame(d) \/ ExitGame(d) \/ \E f \in Files : GameWrites(d, f)

Next ==
    \/ \E d \in Devices :
        \/ Plays(d)
        \/ \E kind \in Syncs : Start(d, kind)
        \/ \E f \in Files, kind \in Resolutions : Resolve(d, f, kind)
        \/ Step(d)
        \/ Fails(d)
    \/ \E id \in Ids : Replace(id)

Spec == Init /\ [][Next]_vars

-----------------------------------------------------------------------------
(* What the save sync promises.                                            *)

(* No content a game or a client wrote is ever gone: it, or one that       *)
(* supersedes it, is on a device, in its backup folder or on RomM, whatever *)
(* fails between moving the old file aside and recording the new one.      *)
NoLostWork ==
    \A c \in 1..written :
        \/ \E d \in Devices, f \in Files : c \in over[disk[d][f]]
        \/ \E d \in Devices, b \in Contents : b \in backups[d] /\ c \in over[b]
        \/ \E i \in 1..Len(saves) : c \in over[saves[i].content]

(* Where RomM holds a device current on the newest save of a file, the     *)
(* device's file is that save or was played on from it.  The decisions     *)
(* trust this (rows 7 and 9), and RomM's upload gate is built on it.       *)
CurrentMeansHeld ==
    \A d \in Devices, f \in Files :
        LET id == FileHead(saves, f)
        IN id # 0 /\ IsCurrent(saves, rows[d], id) /\ disk[d][f] # None
            => saves[id].content \in over[disk[d][f]]

(* A sync replaces a local file only by one that supersedes it: work that  *)
(* is on this device alone is never discarded without the user.            *)
NoSilentDiscard ==
    [][\A d \in Devices :
        op[d].pc = "place" /\ op[d].kind \in Syncs =>
            \A f \in Files :
                disk'[d][f] \notin {disk[d][f], None} /\ disk[d][f] # None
                    => disk[d][f] \in over'[disk'[d][f]]]_vars

(* A sync's upload becomes the newest save of its file only if it was      *)
(* played on from the save it passes: another device's progress is never   *)
(* buried without the user.                                                *)
Creates(d) == Len(saves') > Len(saves) /\ rows'[d] # rows[d]

NoSilentBurial ==
    [][\A d \in Devices :
        Creates(d) /\ op[d].kind \in Syncs =>
            LET new == saves'[Len(saves')]
                passed == FileHead(saves, new.file)
            IN passed = 0 \/ saves[passed].content \in over'[new.content]]_vars

(* A conflict is shown only where both sides changed: neither the file on  *)
(* this device nor the save it is shown against was played on from the     *)
(* other, or the file looks cut short (docs/user-guide/save-sync.md).  A   *)
(* fault may leave a placed save unrecorded, and that one is asked about.  *)
ConflictIsReal ==
    [][\A d \in Devices, f \in Files :
        faults = 0 /\ shown'[d][f] \in Ids /\ shown'[d][f] # shown[d][f] =>
            LET server == saves[shown'[d][f]].content
                local == disk[d][f]
            IN \/ local \in Truncated
               \/ local \notin over[server] /\ server \notin over[local]]_vars

(* A resolution is refused as stale only if another save of the file came  *)
(* to lead it since the conflict was shown.                                *)
StaleOnlyIfMoved ==
    [][\A d \in Devices, f \in Files :
        shown'[d][f] = Refused /\ shown[d][f] # Refused =>
            FileHead(saves, f) # shown[d][f]]_vars

(* A download is recorded only once RomM holds this device current on the  *)
(* save, or the save was changed again after the acknowledgement.          *)
AcknowledgedIsCurrent ==
    [][\A d \in Devices :
        op'[d].pc = "record" /\ op[d].pc # "record" =>
            rows'[d][op[d].head.id] >= saves[op[d].head.id].upd]_vars

(* A start stops the sync it did not wait for: at most the file whose      *)
(* placing had begun changes under the game that loaded it.                *)
OneFileAfterStart ==
    \A d \in Devices : game[d].running =>
        \A f, g \in Files :
            disk[d][f] # game[d].loaded[f] /\ disk[d][g] # game[d].loaded[g] => f = g

-----------------------------------------------------------------------------
(* Devices that go on syncing, finish what they begin and settle what they *)
(* are asked.                                                              *)
Fairness ==
    \A d \in Devices :
        /\ WF_vars(Step(d))
        /\ WF_vars(ExitGame(d))
        /\ \A kind \in Syncs : SF_vars(Start(d, kind))
        /\ \A f \in Files : SF_vars(\E kind \in Resolutions : Resolve(d, f, kind))

FairSpec == Spec /\ Fairness

(* Once nothing is written and nothing fails any more, every device comes  *)
(* to hold the same saves.                                                 *)
Converges ==
    <>[](\A d, e \in Devices, f \in Files : disk[d][f] = disk[e][f])
=============================================================================
