---------------------------- MODULE SaveSyncGate ----------------------------
(***************************************************************************)
(* Who may sync the saves of this device, and when a start of a game stops *)
(* it.                                                                     *)
(*                                                                         *)
(* Four triggers sync saves: a game's start, its end, a press of Sync      *)
(* Saves and a press of Sync All Saves Now.  They queue for one device     *)
(* gate, each but the first within a limit, and take the rom_lock of the   *)
(* game they are at under it; conflict resolutions, slot switches and      *)
(* other work take a rom_lock alone.  Both locks hand themselves to the    *)
(* first that waits.  A start that goes past a sync (Play Anyway) asks the *)
(* syncs of its game to stop; each looks at its stop before it follows a   *)
(* moved save directory, before each file and before it places one.  A     *)
(* step below is what happens between two of these looks or awaits.        *)
(***************************************************************************)
EXTENDS Naturals, SequencesExt

CONSTANTS
    Runs,       \* calls of the four triggers
    Others,     \* calls that hold a rom_lock without the gate
    LastRom,    \* the games are 1..LastRom
    Played,     \* bound: the games that are ever started
    MaxFiles,   \* bound: files one sync moves
    Nobody

ASSUME GateAssumption ==
    /\ LastRom \in Nat
    /\ MaxFiles \in Nat
    /\ Played \subseteq 1..LastRom
    /\ Nobody \notin Runs \cup Others
    /\ Runs \cap Others = {}

VARIABLES
    run,        \* the state of each call of a trigger
    other,      \* the state of each other call
    owner,      \* who holds the gate and each rom_lock
    queue,      \* who waits for them
    game        \* each game: whether its start was checked, went ahead, is listed

vars == <<run, other, owner, queue, game>>

Roms == 1..LastRom
Gate == 0
Locks == {Gate} \cup Roms

Kinds == {"preLaunch", "postExit", "romSync", "syncAll"}

\* The triggers that ask Steam whether the game runs once they hold its lock.
AsksSteam == {"romSync", "syncAll"}

Syncing == {"ask", "read", "files", "fetch", "placing"}

Answered ==
    [pc |-> "idle", kind |-> "preLaunch", rom |-> 0, left |-> {}, stop |-> FALSE,
     files |-> 0, asked |-> FALSE, reached |-> "off"]

GameStates == {"off", "checked", "started", "listed"}

RunStates ==
    [pc : {"idle", "gate", "won", "held", "rom"} \cup Syncing,
     kind : Kinds,
     rom : 0..LastRom,
     left : SUBSET Roms,            \* the games a sweep has not reached
     stop : BOOLEAN,                \* SyncStop: requested
     files : 0..MaxFiles,
     asked : BOOLEAN,               \* history: under way when a start asked its stop
     reached : GameStates]          \* history: the game, when it took its lock

TypeOK ==
    /\ run \in [Runs -> RunStates]
    /\ other \in [Others -> [pc : {"idle", "rom", "held"}, rom : 0..LastRom]]
    /\ owner \in [Locks -> Runs \cup Others \cup {Nobody}]
    /\ queue \in [Locks -> Seq(Runs \cup Others)]
    /\ game \in [Roms -> [state : GameStates, anyway : BOOLEAN]]

Init ==
    /\ run = [r \in Runs |-> Answered]
    /\ other = [o \in Others |-> [pc |-> "idle", rom |-> 0]]
    /\ owner = [l \in Locks |-> Nobody]
    /\ queue = [l \in Locks |-> <<>>]
    /\ game = [m \in Roms |-> [state |-> "off", anyway |-> FALSE]]

-----------------------------------------------------------------------------
(* asyncio.Lock: a release hands the lock to the first that waits.         *)

Enqueued(l, p) == queue' = [queue EXCEPT ![l] = Append(@, p)]

Take(l, p) ==
    /\ owner[l] = Nobody
    /\ queue[l] # <<>> /\ Head(queue[l]) = p
    /\ owner' = [owner EXCEPT ![l] = p]
    /\ queue' = [queue EXCEPT ![l] = Tail(@)]

\* p holds nothing any more and waits for nothing, whatever it was at.
LetGo(p) ==
    /\ owner' = [l \in Locks |-> IF owner[l] = p THEN Nobody ELSE owner[l]]
    /\ queue' = [l \in Locks |-> RemoveFirst(queue[l], p)]

-----------------------------------------------------------------------------
(* The triggers. *)

Call(r, kind, m) ==
    /\ run[r].pc = "idle"
    /\ kind = "preLaunch" => m \in Played
    /\ run' = [run EXCEPT ![r] = [Answered EXCEPT
                  !.pc = "gate", !.kind = kind,
                  !.rom = IF kind = "syncAll" THEN 0 ELSE m,
                  !.left = IF kind = "syncAll" THEN Roms ELSE {}]]
    /\ Enqueued(Gate, r)
    /\ UNCHANGED <<other, owner, game>>

TakeGate(r) ==
    /\ run[r].pc = "gate"
    /\ Take(Gate, r)
    /\ run' = [run EXCEPT ![r].pc = "won"]
    /\ UNCHANGED <<other, game>>

EndWait(r) ==
    /\ run[r].pc = "won"
    /\ run' = [run EXCEPT ![r].pc = "held"]
    /\ UNCHANGED <<other, owner, queue, game>>

\* Mutant: a timed-out call that had just got the gate keeps it.
TimeOut_Leaks(r) ==
    /\ run[r].pc \in {"gate", "won"}
    /\ run[r].kind # "preLaunch"
    /\ run' = [run EXCEPT ![r] = Answered]
    /\ queue' = [l \in Locks |-> RemoveFirst(queue[l], r)]
    /\ UNCHANGED <<other, owner, game>>

\* The limit of the wait runs out; the gate may have been won just before.
TimeOut(r) ==
    /\ run[r].pc \in {"gate", "won"}
    /\ run[r].kind # "preLaunch"
    /\ run' = [run EXCEPT ![r] = Answered]
    /\ LetGo(r)
    /\ UNCHANGED <<other, game>>

\* The stop of a sync before a start ends its wait for either lock.
StopWait(r) ==
    /\ run[r].pc \in {"gate", "rom"}
    /\ run[r].kind = "preLaunch" /\ run[r].stop
    /\ run' = [run EXCEPT ![r] = Answered]
    /\ LetGo(r)
    /\ UNCHANGED <<other, game>>

\* The call is answered; a start waited for the answer of its sync.
End(r) ==
    LET o == run[r]
    IN /\ run' = [run EXCEPT ![r] = Answered]
       /\ LetGo(r)
       /\ game' = IF o.kind = "preLaunch" /\ game[o.rom].state = "off"
                    THEN [game EXCEPT ![o.rom].state = "checked"] ELSE game

\* The one game of the call; a stop asked by now ends the sync before a start
\* where it would begin to wait for the game's lock.
EnterRom(r) ==
    LET o == run[r]
    IN /\ o.pc = "held" /\ o.kind # "syncAll"
       /\ IF o.kind = "preLaunch" /\ o.stop THEN End(r)
          ELSE /\ run' = [run EXCEPT ![r].pc = "rom"]
               /\ Enqueued(o.rom, r)
               /\ UNCHANGED <<owner, game>>
       /\ UNCHANGED other

\* A sweep goes through the games in the order of their ids.
NextRom(r) ==
    LET o == run[r]
        m == CHOOSE m \in o.left : \A n \in o.left : m <= n
    IN /\ o.pc = "held" /\ o.kind = "syncAll"
       /\ IF o.left = {} THEN End(r)
          ELSE /\ run' = [run EXCEPT ![r] = [o EXCEPT !.pc = "rom", !.rom = m, !.left = @ \ {m}]]
               /\ Enqueued(m, r)
               /\ UNCHANGED <<owner, game>>
       /\ UNCHANGED other

TakeRom(r) ==
    /\ run[r].pc = "rom"
    /\ Take(run[r].rom, r)
    /\ run' = [run EXCEPT ![r].pc = IF run[r].kind \in AsksSteam THEN "ask" ELSE "read",
                          ![r].reached = game[run[r].rom].state]
    /\ UNCHANGED <<other, game>>

-----------------------------------------------------------------------------
(* The sync of one game, under the gate and its rom_lock. *)

\* Mutant: a sweep gives the gate back with the game's lock and goes on.
LeaveRom_GivesGateBack(r) ==
    LET o == run[r]
    IN IF o.kind # "syncAll" THEN End(r)
       ELSE /\ run' = [run EXCEPT ![r] = [Answered EXCEPT
                          !.pc = "held", !.kind = "syncAll", !.left = o.left]]
            /\ LetGo(r)
            /\ UNCHANGED game

\* Mutant: a sweep goes on with the lock of the game it leaves.
LeaveRom_KeepsLock(r) ==
    LET o == run[r]
    IN IF o.kind # "syncAll" THEN End(r)
       ELSE /\ run' = [run EXCEPT ![r] = [Answered EXCEPT
                          !.pc = "held", !.kind = "syncAll", !.left = o.left]]
            /\ UNCHANGED <<owner, queue, game>>

\* The call is through with its game: it ends, or the sweep goes on.
LeaveRom(r) ==
    LET o == run[r]
    IN IF o.kind # "syncAll" THEN End(r)
       ELSE /\ run' = [run EXCEPT ![r] = [Answered EXCEPT
                          !.pc = "held", !.kind = "syncAll", !.left = o.left]]
            /\ owner' = [owner EXCEPT ![o.rom] = Nobody]
            /\ UNCHANGED <<queue, game>>

Goes(r, pc) ==
    /\ run' = [run EXCEPT ![r].pc = pc]
    /\ UNCHANGED <<owner, queue, game>>

\* Mutant: what Steam lists is not asked.
AskSteam_Skipped(r) ==
    /\ run[r].pc = "ask"
    /\ Goes(r, "read")
    /\ UNCHANGED other

\* A game Steam lists is passed over by a sweep, and a press for it refused.
AskSteam(r) ==
    /\ run[r].pc = "ask"
    /\ IF game[run[r].rom].state = "listed" THEN LeaveRom(r) ELSE Goes(r, "read")
    /\ UNCHANGED other

\* The save answer was read; then the stop, and the follow of a moved
\* directory.  A game whose saves cannot be synced ends here.
Follow(r) ==
    LET o == run[r]
    IN /\ o.pc = "read"
       /\ \/ LeaveRom(r)
          \/ /\ ~o.stop
             /\ run' = [run EXCEPT ![r].pc = "files", ![r].files = MaxFiles]
             /\ UNCHANGED <<owner, queue, game>>
       /\ UNCHANGED other

\* Mutant: the files are not counted.
BeginFile_PastLast(r) ==
    /\ run[r].pc = "files"
    /\ IF run[r].stop THEN LeaveRom(r)
       ELSE /\ run' = [run EXCEPT ![r].pc = "fetch", ![r].files = @ - 1]
            /\ UNCHANGED <<owner, queue, game>>
    /\ UNCHANGED other

BeginFile(r) ==
    LET o == run[r]
    IN /\ o.pc = "files"
       /\ IF o.stop \/ o.files = 0 THEN LeaveRom(r)
          ELSE /\ run' = [run EXCEPT ![r].pc = "fetch", ![r].files = @ - 1]
               /\ UNCHANGED <<owner, queue, game>>
       /\ UNCHANGED other

\* Mutant: the stop is not looked at between a download and its placing.
EndFetch_NoLook(r) ==
    /\ run[r].pc = "fetch"
    /\ \/ Goes(r, "placing")
       \/ Goes(r, "files")
    /\ UNCHANGED other

\* A download is placed unless the stop was asked; an upload, and a file that
\* failed, place nothing.
EndFetch(r) ==
    /\ run[r].pc = "fetch"
    /\ \/ Goes(r, IF run[r].stop THEN "files" ELSE "placing")
       \/ Goes(r, "files")
    /\ UNCHANGED other

Place(r) ==
    /\ run[r].pc = "placing"
    /\ Goes(r, "files")
    /\ UNCHANGED other

\* RomM is away or has switched the sync off for this device, or a step raises.
Fail(r) ==
    /\ run[r].pc \in {"held"} \cup Syncing
    /\ End(r)
    /\ UNCHANGED other

-----------------------------------------------------------------------------
(* Work on one game's saves outside the gate. *)

CallOther(o, m) ==
    /\ other[o].pc = "idle"
    /\ other' = [other EXCEPT ![o] = [pc |-> "rom", rom |-> m]]
    /\ Enqueued(m, o)
    /\ UNCHANGED <<run, owner, game>>

TakeOther(o) ==
    /\ other[o].pc = "rom"
    /\ Take(other[o].rom, o)
    /\ other' = [other EXCEPT ![o].pc = "held"]
    /\ UNCHANGED <<run, game>>

EndOther(o) ==
    /\ other[o].pc = "held"
    /\ other' = [other EXCEPT ![o] = [pc |-> "idle", rom |-> 0]]
    /\ LetGo(o)
    /\ UNCHANGED <<run, game>>

-----------------------------------------------------------------------------
(* The games. *)

\* Calls that registered a stop: of every start of the game, of a Sync Saves
\* and, from before it waits for the game's lock, of a sweep.
Tracked(r, m) == run[r].pc # "idle" /\ run[r].rom = m /\ run[r].kind # "postExit"

\* Play Anyway, once a sync before the start is past its limit: the syncs of
\* the game are asked to stop and the game is started.  (The start goes on a
\* moment later: one that comes first is StartGame.)
PlayAnyway(m) ==
    /\ game[m].state \in {"off", "checked"}
    /\ \E r \in Runs : run[r].kind = "preLaunch" /\ run[r].pc # "idle" /\ run[r].rom = m
    /\ run' = [r \in Runs |-> [run[r] EXCEPT
                  !.stop = @ \/ Tracked(r, m),
                  !.asked = @ \/ (run[r].pc # "idle" /\ run[r].rom = m /\ run[r].kind # "postExit")]]
    /\ game' = [game EXCEPT ![m] = [state |-> "started", anyway |-> TRUE]]
    /\ UNCHANGED <<other, owner, queue>>

\* A start on an answered sync, or past one that failed: no stop is asked.  (A
\* start that finds RomM away runs no sync and is left out.)
StartGame(m) ==
    /\ game[m].state = "checked"
    /\ game' = [game EXCEPT ![m] = [state |-> "started", anyway |-> FALSE]]
    /\ UNCHANGED <<run, other, owner, queue>>

ListGame(m) ==
    /\ game[m].state = "started"
    /\ game' = [game EXCEPT ![m].state = "listed"]
    /\ UNCHANGED <<run, other, owner, queue>>

\* The game ends, or the start was given up once its sync was answered.
ExitGame(m) ==
    /\ game[m].state # "off"
    /\ game' = [game EXCEPT ![m] = [state |-> "off", anyway |-> FALSE]]
    /\ UNCHANGED <<run, other, owner, queue>>

-----------------------------------------------------------------------------
Step(r) ==
    \/ TakeGate(r) \/ EndWait(r) \/ StopWait(r) \/ EnterRom(r) \/ NextRom(r) \/ TakeRom(r)
    \/ AskSteam(r) \/ Follow(r) \/ BeginFile(r) \/ EndFetch(r) \/ Place(r)

Next ==
    \/ \E r \in Runs :
        \/ \E kind \in Kinds, m \in Roms : Call(r, kind, m)
        \/ Step(r) \/ TimeOut(r) \/ Fail(r)
    \/ \E o \in Others : TakeOther(o) \/ EndOther(o) \/ \E m \in Roms : CallOther(o, m)
    \/ \E m \in Played : PlayAnyway(m) \/ StartGame(m) \/ ListGame(m) \/ ExitGame(m)

Spec == Init /\ [][Next]_vars

\* What the event loop and the limits of every request guarantee: a call that
\* can go on does.  No call, press or start is ever due.
Fairness ==
    /\ \A r \in Runs : WF_vars(Step(r))
    /\ \A o \in Others : WF_vars(TakeOther(o) \/ EndOther(o))

FairSpec == Spec /\ Fairness

-----------------------------------------------------------------------------
(* What the gate is for. *)

\* Whoever a lock has is a call that is at work under it and will give it back
\* when it ends: no wait that timed out or was stopped leaves the gate or a
\* rom_lock behind (bounded_run, PreLaunchRun.wait).
LocksAreOwned ==
    /\ owner[Gate] # Nobody => run[owner[Gate]].pc \notin {"idle", "gate"}
    /\ \A m \in Roms : owner[m] # Nobody =>
          IF owner[m] \in Runs
            THEN run[owner[m]].pc \in Syncing /\ run[owner[m]].rom = m
            ELSE other[owner[m]].pc = "held" /\ other[owner[m]].rom = m

\* No two calls are at the saves of one game, and no two syncs at any saves of
\* the device, at the same time (SaveSyncGate, SyncEngine.rom_lock).
OneSyncPerDevice ==
    /\ \A q, r \in Runs : run[q].pc \in Syncing /\ run[r].pc \in Syncing => q = r
    /\ \A r \in Runs, o \in Others :
          run[r].pc \in Syncing /\ other[o].pc = "held" => run[r].rom # other[o].rom

BeginsPlacing(r) == run[r].pc # "placing" /\ run'[r].pc = "placing"

\* Follows a moved save directory, begins a file, or begins to place one.
BeginsWriting(r) ==
    \/ run[r].pc = "read" /\ run'[r].pc = "files"
    \/ run[r].pc = "files" /\ run'[r].pc = "fetch"
    \/ BeginsPlacing(r)

\* A start's stop reaches every sync of its game under way at the press but
\* the one after a game, waiting or at work: none of them follows a directory,
\* begins a file or begins to place one after it (save-file-sync-architecture.md,
\* "The stop").
StopReaches ==
    [][\A r \in Runs : BeginsWriting(r) => ~run[r].asked]_vars

\* A game started with Play Anyway that Steam lists has a save placed under it
\* by no sweep and no Sync Saves but one that reached the game between the
\* press and Steam's listing ("A game that is running").
AnywayIsKept ==
    [][\A r \in Runs :
        /\ BeginsPlacing(r)
        /\ run[r].kind \in AsksSteam
        /\ game[run[r].rom].state = "listed" /\ game[run[r].rom].anyway
        => run[r].reached = "started"]_vars

\* No sweep and no Sync Saves that reached a game before it was started changes
\* the save of that game once Steam lists it: a start stops the other syncs of
\* its game ("A game that is running").
RunningGameIsKept ==
    [][\A r \in Runs :
        /\ BeginsPlacing(r)
        /\ run[r].kind \in AsksSteam
        /\ game[run[r].rom].state = "listed"
        => run[r].reached = "started"]_vars

\* Every call is answered, the sync before a start too, which waits without a
\* limit: nothing that holds the gate or a rom_lock waits for one that waits
\* for it, and every wait's turn comes.
CallsAreAnswered ==
    \A r \in Runs : run[r].pc # "idle" ~> run[r].pc = "idle"

=============================================================================
