# Verification of romm-tender

romm-tender ("Tender") puts the games of a RomM server into Steam as non-Steam shortcuts, downloads and starts them,
and keeps their saves in step between devices. A Python backend runs on one event loop with an executor for blocking
work; a TypeScript panel, injected into Steam's own pages, calls it over a WebSocket and receives events.

This directory holds TLA+ models of the parts of Tender in which order matters, the TLC configurations that check them
on small instances, and theorems about them with proofs that TLAPS checks. `PROJECT.json` lists the components, the
runs, the source lines each definition stands for, the hazards, the findings and the theorems. Paths below are relative
to the repository's root; `services/` is `backend/services/`.

## How to run it

    tlc -workers 2 -config MCConflictRules.cfg MCConflictRules.tla
    tlc -workers 2 -config MCSaveSync.cfg MCSaveSync.tla          (and the other MCSaveSync*.cfg)
    tlc -workers 2 -config MCSaveSyncGate.cfg MCSaveSyncGate.tla  (and MCSaveSyncGateStart.cfg)
    tlc -workers 2 -config MCLibrarySync.cfg MCLibrarySync.tla    (and MCLibrarySyncFailedCreate.cfg)
    tlc -workers 2 -config MCDownloads.cfg MCDownloads.tla        (and MCDownloadsPause.cfg)
    tlc -workers 2 -config MCPruneAction.cfg MCPruneAction.tla
    tlapm ConflictRulesProofs.tla       (and SaveSyncProofs, SaveConflictProofs, SaveSyncGateProofs, LibrarySyncProofs,
                                         LibraryRowsProofs, DownloadsProofs, PruneActionProofs)

## Inventory

The parts of the system, the state each keeps, what operates on it, and what is hard about it.

| Component | State | Operations | What has to hold |
|---|---|---|---|
| Conflict rules (`lib/conflict_rules.py`, `lib/prune_conflicts.py`) | operations, leases, reservations, run claims (memory) | an endpoint's `hold`, a cleanup's `hold_start`, `hold_until_done`, lease take/renew/release/disown | nothing that touches Steam or a game's data runs beside a cleanup; no claim outlives its holder |
| Removed-game cleanup (`services/prune/`, `frontend/src/utils/pruneActions.ts`) | preview, `_starting`, `_run_id`, pending action token, its claim and result, recovery bundles, the ledger of committed and ambiguous actions | preview, start, claim and report a Steam action, cancel, shut down, seal a bundle, finalize | one run; nothing destroyed before the bundle is sealed and the Steam change reported; the result says what happened |
| Update install (`services/update_install.py`) | the update rule (`_holding`), phase, attempt record | press, download, verify, start the installer, watch it, fail | the process is never stopped under work in progress; one attempt |
| Shortcut artwork job (`services/shortcut_artwork.py`) | run task, `_cleanup_holds` | request, yield, stop for a cleanup, resume | a cleanup never waits for ever; the job comes back afterwards |
| Save sync (`services/saves/`) | save files, `.romm-backup`, baselines in SQLite; on RomM: saves and device sync rows | sync before a start, after a game, Sync Saves, Sync All Saves Now, resolve a conflict | no work lost, no silent overwrite on either side, convergence |
| Save sync gate (`services/saves/sync_engine/_gate.py`, `_pre_launch.py`, `_sweep_step.py`) | device gate, a `rom_lock` per game, stops | queue with and without a limit, take a game's lock, stop, sweep | one sync per device, no lock left behind, a start's stop arrives |
| Slots, versions, copies, save directory (`services/saves/slots`, `versions.py`, `copies.py`, `save_directory.py`) | the current slot, the directory an emulator answered | switch, set up, delete, restore, copy, follow | a switch never mixes two slots' saves |
| Library sync (`services/library/`, `frontend/src/utils/syncManager.ts`) | the run slot, staged ROMs, the active chunk, the stash of an abandoned chunk, completion stamps, `SyncRun` rows | preview, apply, full sync, cancel, chunk report, heartbeat, force full sync | what the panel did to Steam is recorded; a stamp never claims more than was applied |
| Downloads (`services/downloads/`, `adapters/romm/http.py`, `services/rom_removal.py`) | the queue's entries, `in_progress`, tasks, control tokens, the two slots, partial and installed files, `rom_installs` | start, pause, resume, cancel, clear, transfer, unpack, record, uninstall one or all | what is installed is whole; completed means installed; a claim is released by its owner; a late callback changes nothing |
| Sessions and playtime (`services/session_lifecycle.py`, `playtime.py`) | open session marker, outbox | start, end, flush | each session posted once |
| Game start (`services/game_start.py`, `frontend/src/utils/launchGate*.ts`) | the launch in progress | checks, sync, hand-over to the launcher | a start is not blocked for ever, nor goes past a check unseen |
| Version switch (`services/version_switch.py`) | which ROM a shortcut is bound to | switch | no unsynced save is stranded |
| Steam injection (`host/inject/`) | the injection state, the recovery record on disk | find Steam, inject, watch, reload, give up | reloads stay limited over restarts |
| Host (`host/`) | connections, calls in flight, instance lock | accept, dispatch, emit | answers go to the connection that asked; one instance |
| Firmware, artwork, SteamGridDB, adoption, removal, migration, settings, … | files and rows of their own | one endpoint at a time | mostly sequential; guarded by the conflict rules |

How they interact. Every endpoint that touches what a cleanup touches enters through `ConflictRuleSet.hold`. The
library sync and the artwork job run outside any endpoint and take leases for what the panel still has to write to
Steam. A cleanup stops the artwork job, reserves its start, and holds a run claim; an update reads all claims once and
then holds the update rule, which the endpoints that name it ask twice. Saves are synced under the device gate and the
game's `rom_lock`, in that order; everything else that works on a game's saves takes the `rom_lock` alone. The panel
learns of long work through events, and an event sent while no panel is connected is dropped.

What is hard. Almost every defect this code guards against sits between two awaits: a rule asked before a wait and
relied on after it, a claim handed from one holder to the next, a lock won in the turn its waiter gave up, a listing
older than the upload based on it, an acknowledgement that arrived without its answer, a crash between a change on disk
and the row that records it. `PROJECT.json` names these places line by line under "hazards", with the properties that
cover each one, or why none does yet.

## Modules

| Module | Models | Extends |
|---|---|---|
| `ConflictRules` | endpoints, leases, the cleanup's start and run, the artwork job's hold, the update's press and attempt | (instantiates `ConflictPromise`) |
| `ConflictPromise` | what the conflict rules promise, abstractly: which work may be under way beside a cleanup and beside an update | |
| `ConflictRulesProofs` | theorems about `ConflictRules`, and that it implements `ConflictPromise` | `ConflictRules`, `TLAPS`, `FiniteSetTheorems` |
| `MCConflictRules` | its instance for TLC | `ConflictRules` |
| `SaveKernel` | the save decisions and RomM's answers, as pure operators | |
| `SaveSync` | one game's save files on several devices, and RomM | `SaveKernel` |
| `SaveSyncProofs` | theorems about it | `SaveSync`, `TLAPS`, `WellFoundedInduction` |
| `SaveConflictProofs` | theorem about the conflicts it shows | `SaveSyncProofs` |
| `MCSaveSync` | its instances for TLC | `SaveSync` |
| `SaveSyncGate` | who may sync which game's saves on one device, and what a start stops | `SequencesExt` |
| `SaveSyncGateProofs` | theorems about it | `SaveSyncGate`, `TLAPS`, `WellFoundedInduction` |
| `MCSaveSyncGate` | its instances for TLC | `SaveSyncGate` |
| `LibrarySync` | an apply run of the library sync, the panel that writes Steam's shortcuts, and the calls between them | |
| `LibrarySyncProofs` | theorems about the run's row and the panel's answers; what the chunks are, and the shapes | `LibrarySync`, `TLAPS`, the theorems on finite sets and functions |
| `LibraryRowsProofs` | theorems about what the rows, the stamps and Steam hold | `LibrarySyncProofs` |
| `MCLibrarySync` | its instances for TLC | `LibrarySync` |
| `Downloads` | a game's download, the thread that outlives its task, the partial and the installed file, an uninstall beside it | |
| `DownloadsProofs` | theorems about it | `Downloads`, `TLAPS`, `SequenceTheorems` |
| `MCDownloads` | its instances for TLC | `Downloads` |
| `PruneAction` | one cleanup run, the Steam actions it asks the panel for, the bundle and the deletion | |
| `PruneActionProofs` | theorems about it | `PruneAction`, `TLAPS` |
| `MCPruneAction` | its instance for TLC | `PruneAction` |

Definitions named `X_Something` before a definition `X` are mutants: `X` changed the way a plausible bug would change
it. Nothing refers to them. Replacing `X` by one of them makes TLC find the property that `PROJECT.json` pairs with it
violated, which shows that the property depends on that piece of code.

### ConflictRules

A step is what the event loop does between two awaits. The prune conflicts' lock is never held across an await, so a
critical section is one step, but a caller may be suspended before it: that is the `entered` place of a call, between
asking the rules and registering the operation. `callPc` follows an endpoint through `hold` (`EnterCall`,
`RegisterOperation`, `EndBody`, `ReleaseOperation`); `detached` is a task that outlives its body (`hold_until_done`).
`leases` keeps for each token whether it stands and whether its deadline has passed; `Swept` is `_expire_leases`, which
every call that takes the lock does first. `startPc` follows `start_prune` from stopping the artwork job over the
reservation, the admission lock, the rebuilt preview and the run claim to its `finally` blocks; a run is named by its
start. `pressPc` follows `install_update` and the attempt it starts, up to the stop of the process, which empties all
of it. Calls that name the update rule and calls that only read (a press does not wait for those) are subsets of
`Calls`.

`ConflictPromise` says the same system's promise with four sets: the work that holds a claim, the work that is exposed to
a restart, the cleanups and the update attempts under way. Work begins in one step and only beside no cleanup, a cleanup
begins only once nothing is claimed, an attempt only while nothing is exposed and no cleanup runs. The mapping (`Promise`
in `ConflictRules`) reads the first two sets off the calls' places, the leases, the sync and the job, and takes the runs
and the presses in an attempt for the others. An entered call that is not registered, a reservation and a press that has
only been made are invisible in it: asking and registering are two steps of the code and must look like one. The
promise does not keep a cleanup from beginning beside an attempt, because the code does not (first finding).

### SaveKernel and SaveSync

A save's bytes are a number; hashes are equal when the numbers are. `over` is a history variable: the contents each
content supersedes, because it was played from them or the user chose it over them. It is what "lost", "buried" and
"real conflict" are stated with, and no action reads it.

A device runs one operation at a time, as under its `rom_lock`. A sync lists RomM's saves and probes the files once
(`Start`), decides file by file (`Decide`, the matrix), uploads (`Compare`, `Post`, `RecordUpload`, and `Relist` when
RomM refuses), downloads (`Fetch`, `Place`, `Acknowledge`, `AcknowledgeAgain`, `Record`), or adopts what both sides hold
already (`Adopt`). The baselines it changes are in memory until the one write at its end (`Finish`). `Resolve` begins a
resolution of a conflict that was shown, for Use Server or Keep Local. Between any two steps another device, another
client (`Replace`), a game (`StartGame`, `GameWrites`, `ExitGame`) or a fault (`RequestFails`, `AnswerLost`,
`PlaceFails`, `Crash`) may come.

The decisions come from a compiled module (gavel) and the answers from RomM; neither is source in `backend/`, and
`SaveKernel` models both from how the callers use them, from the decision table in
`docs/architecture/save-file-sync-architecture.md` and from the fakes the tests hold RomM to. `PROJECT.json` marks them
external.

### SaveSyncGate

A call of one of the four triggers goes from the gate's queue (`gate`), over having won it (`won`: the turn in which a
limit can still run out), to holding it (`held`), to a game's queue (`rom`), to its work (`ask` Steam, `read` the save
answer, `files`, `fetch`, `placing`). Locks hand themselves to the first that waits, as `asyncio.Lock` does. Other
calls take a `rom_lock` alone. The looks at a stop are where the code has them: before the wait for the game's lock,
before following a moved directory, before each file, before placing one. `asked` and `reached` are history: whether
the call was under way when a start asked the syncs of its game to stop, and what the game was doing when the call took
its lock.

### LibrarySync

A step is what the backend or the panel does between two awaits. `slot` is the run slot (`sync_state`,
`current_sync_id`), `box` the rest of `LibrarySyncStateBox`: the staged ROMs, the active chunk, its answer, the stash of
an abandoned chunk, and the interrupted and paused flags. `works[r].pc` follows a run through `_do_sync_per_unit`,
`apply_unit` and `apply_unit_in_chunks`: `begun`, `queue` and `open` up to the run's row; `unit`, `fetched` and `clear`
up to the first chunk of a platform; `dispatch`, `wait` and `commit` for each chunk; `final`, `errored` and `finish` for
the two writes and the `finally` block at its end. `late` holds the answers taken from the stash whose commit is still
with the executor. `rows`, `stamp` and `runRow` are the database: the bound ROMs, the platforms' completion stamps, the
`SyncRun` rows. `panel` follows the handler of a frame through its games, `wire` and `acks` are the frames and the
answers under way, `cancels` the Cancel calls, `steam` the shortcuts Steam holds.

Frames and answers may cross, be dropped with the panel, or come after the run has given up on them; a restart may come
between any two steps. `upsets` counts what goes wrong besides: a plan or a step that fails, a pause for the session
budget, a shortcut Steam does not create or does not list, a reload of the panel, a Cancel press, a restart, a change on
RomM, a Force Full Sync. `closed`, `presses`, `failed` and `blind` are history: which runs ended, which were asked to
stop by their user, which games Steam failed to create, and whether a scan missed a shortcut. No action reads them.

### Downloads

An attempt is one accepted call of `start_download` or `resume_download`. `at[a].pc` follows its call (`starting`) and its
task through `DownloadTransfer.run`: `spawned` before its first step, `waiting` for a slot, `fetching`, `committing` (the
file is put in place and recorded on a thread), `finishing`, `settling` and `telling` in the handlers of a stop, then
`ended`, `refused`, or one of the two ends that leave something behind: `stranded` (cancelled before its first step) and
`dropped` (its handler was itself stopped or raised). `at[a].th` follows the worker thread: it connects, with the range
it asks for read off the `.tmp`, opens the file for appending or from zero by what the server answers, writes block by
block, looks at the control flags after each block, checks the size, renames, records the row. A retry goes back to
connecting and looks at no flag. A file is the sequence of the blocks written to it, and an open handle follows its file
through a rename and a removal, as POSIX has it: a thread that was not stopped in time writes on into the installed file.

`claim` is `in_progress`, `token` the attempt registered for a game (its task, its control token), `entry` and `shown` the
queue's status and the last one the panel was told; `tick` is a progress callback handed to the loop and not yet run.
`removal` is an uninstall of one game or of all: files, rows, queue entry. `crossed` is history: the games of which two
attempts were under way at once, which the code allows (see the findings); no action reads it. The properties that fail
for those games are stated for all others, and `InstalledIsWhole` is the violated one. `torn` is history too:
the games at which the rest of a partial file was appended to another file than the one measured.

### PruneAction

Every value of `pc` is an await of the run, so a cancellation can come at each. `plan` is the proof of a group's state;
`emit`, `waitClaim`, `waitResult` and `lastWait` (a claimed action is waited for once more after a cancel) are
`_request_action`; `reconcile`, `seal`, `arm` and `check` lead to the cascade (`saves`, `content`, `artifacts`, `absences`,
`rows`) and to `finish` and `closing`. With a bundle the shortcut is captured before the bundle is sealed and removed
after; without one it is removed at once. `pending`, `claimed`, `result` and `validating` are the token the run has
published and what is known of it; the claim's validation is an await under the action lock, so that the run may have
moved on when it ends (`ClaimDecided`). `panel`, `sent` and `answer` are the panel's place for each token and the calls
under way; a call may be lost or repeated (`Resend`), an answer may be lost with the panel's page (`PanelDies`). Steam
removes a shortcut it was asked to remove at any later time (`SteamRemoves`), or never. `committed` and `ambiguous` are the
ledger the result of a group is computed from. `Changes` is what comes from outside: the user removes the shortcut in
Steam, RomM has the game again, another writer unbinds the row. `cutSending` and `cutWaiting` are history: the games at
which a cancellation lost an action.

## Runs

| Run | Instance | Distinct states | Shows |
|---|---|---|---|
| `conflict_rules` | one guarded and one reading call, one token, two starts, two presses; fairness | 55,168 | `TypeOK`, `HoldsAreOwned`, `StartIsAnswered` hold, and the rules implement `ConflictPromise` (`PromiseKept`) |
| `conflict_rules_update_and_cleanup` | one more call | about 6,000 until found | `UpdateExcludesCleanup` is violated (finding) |
| `save_sync` | two devices, one file, syncs after the game, three contents of which one short, five saves, one fault, failing renames; fairness | 195,982 | `TypeOK`, `NoLostWork`, `CurrentMeansHeld`, `NoSilentDiscard`, `NoSilentBurial`, `ConflictIsReal`, `Converges` hold |
| `save_sync_stopped` | two files, syncs before a start, one fault, one replaced save, failing renames, Play Anyway | 561,786 | `OneFileAfterStart`, `AcknowledgedIsCurrent` hold |
| `save_sync_stale` | two files, four contents | 36,576 until found | `StaleOnlyIfMoved` is violated (finding) |
| `save_sync_gate` | two calls of triggers, one other call, two games, one of them started, one file a sync; fairness | 53,796 | `TypeOK`, `LocksAreOwned`, `OneSyncPerDevice`, `StopReaches`, `AnywayIsKept`, `CallsAreAnswered` hold |
| `save_sync_gate_start` | the same, without fairness | 36,693 until found | `RunningGameIsKept` is violated (finding) |
| `library_sync` | two platforms, one of its two games in two chunks, two runs, two upsets; fairness | 328,334 | `TypeOK`, `GenerationsHonest`, `SkipIsSafe`, `StagingKept`, `OneShortcutPerGame`, `RecordedAsEnded`, `AckIsKept`, `RunEnds` hold |
| `library_sync_failed_create` | the same with one upset | 2,101 until found | `SkipMeansMirrored` is violated (finding) |
| `downloads` | two games of two blocks, two attempts, one slot, one uninstall, within `MCBound` | 686,918 | `TypeOK`, `WholeUnlessCrossed`, `CompletedIsInstalled`, `ClaimHeld`, `EntryIsWorked`, `NobodyStuck`, `OnlyOwnerReleases`, `EndedStaysEnded` hold |
| `downloads_pause_resume` | one game, two attempts, no uninstall | 9,587 until found | `InstalledIsWhole` is violated (finding) |
| `prune_action` | one game, with a bundle or without, one change from outside, one death of the panel, one resent call, a cancel and a shutdown; fairness | 543,816 | `TypeOK`, `SourceIsKept`, `ResultIsTrue`, `GivenUpStaysUnclaimed`, `RunEnds` hold |

Why the bounds are enough. Every exclusion in the conflict rules is between two holders, and a third would repeat one
of them: two starts and two presses race each other, one guarded and one reading call cover both ways a press treats a
call, and one token can be taken by a body, a detached task, the sync or the job. For any number of them the theorems
below take over. In the save sync the hazards need two devices, of which one moves between two steps of the other, and
a third content for a fork; five saves let every content be uploaded and two of them twice. One fault is a crash or a
lost answer at any step of any operation. A fourth content, which lets a fork be played on, was checked for the same
safety properties with six saves and no short content (1,189,018 states); and two files in one slot (three contents,
four saves, one fault, `Truncated = {3}`, failing renames) for `TypeOK`, `NoLostWork`, `CurrentMeansHeld`,
`NoSilentDiscard` and `NoSilentBurial`, which hold in all 2,105,174 states. In the gate, two calls contend for the gate
and for a game's lock, and the third holder of that lock is the other call; the second game is what a sweep goes on to.
In the library sync one run is abandoned and a newer one claims the slot; two chunks put a boundary inside a platform,
the second platform is the unit after a stopped one and the one a later run skips; two copies of a shortcut are a
duplicate. Two upsets are, say, a pause and a restart, or a Cancel and a failed create. Limits that run out, late
answers and dropped frames are not counted: they may come whenever the code lets them. Three runs with one upset
(140,210 states) showed nothing new. The hazards of a download are between two attempts at one game, between an attempt
and its own thread, and between attempts at two games that share the slots. `MCBound` (in `MCDownloads`) keeps to
those: an uninstall comes only where both attempts are at one game and have not crossed, and the first attempt is at a
fixed game, the games being interchangeable. (An uninstall beside attempts that crossed but tore no
partial file was checked too, with 1,425,833 states in all; and every property of the run but `NobodyStuck` is proved
without these bounds.) Two blocks are what a gap, a doubled and an overwritten block need. The theorems hold for any
number of games, attempts, slots and blocks. A cleanup works through its games one after the other, with one action
pending at a time; that an action of an earlier game stays closed was also checked with two games and no resent call
(1,674,803 states).

`Truncated` names the contents that are too short to be an edit (row 9 of the decision table). `MaxReplaced`,
`RenameFails` and `PlayAnyway` switch on another client replacing a save in place, a download that cannot be renamed
into place, and starts that do not wait for a sync.
`MaxRuns`, `MaxUpsets` and `Copies` bound the library sync, `Attempts`, `Blocks` and `MaxRemovals` a download, `MaxChanges`,
`MaxDeaths`, `MaxResends` and `Shutdowns` a cleanup. The cfgs of `LibrarySync`, `Downloads` and `PruneAction` turn TLC's
deadlock check off, since an instance really stops once its runs or attempts are used up; that a download does not stop
before is what `NobodyStuck` says. Every other cfg keeps the check on and goes on from every state it reaches.

## Fairness

- `ConflictRules`: weak fairness of the steps of a start and of the end of an artwork job. A coroutine that was resumed
  goes on; a job's run is made of requests with limits. Nothing is assumed of a user, of the panel or of a lease.
- `SaveSync`: weak fairness of an operation's next step and of a game's exit, strong fairness of a sync's begin and of
  a conflict's resolution. Each exit is followed by a sync (`session_lifecycle.py`), so a device that goes on being
  used syncs again and again; that a user answers each conflict is an assumption about the user, needed because a
  conflict is kept until it is answered. No fault and no upload of a fork is ever due.
- `SaveSyncGate`: weak fairness of each call's next step and of the end of work under a `rom_lock`. Requests have
  limits, so no holder stays for ever; the queues are first in, first out.
- `LibrarySync`: weak fairness of each run's next step. The event loop resumes the coroutine, and a wait for the panel
  ends at the heartbeat's limit if no answer does. Nothing is owed by the panel or by the user.
- `PruneAction`: weak fairness of the run's next step and of the limits of its waits. Nothing is owed by the panel, by
  Steam or by the user; `RunEnds` holds whatever became of them.
- `Downloads` has no liveness property: a transfer may be retried, and a user may pause it, for ever. That somebody can
  always move is the invariant `NobodyStuck`.

## What is proved

Eight modules of proofs, for all values of the constants that meet the assumption each module names: sets of calls,
tokens, starts and presses of any size (finitely many starts) in `ConflictRules`; any devices, files, contents, saves and
faults in `SaveSync`; any games and calls in `SaveSyncGate`; any queue of platforms, chunks and runs in `LibrarySync`; any
games, attempts, slots and blocks in `Downloads`; any games and any number of changes, deaths of the panel and resent calls
in `PruneAction`.

- `TypeCorrect`, `CleanupExclusion`, `SingleCleanupRun`, `NoHoldIsLost` of `ConflictRulesProofs`: the invariants `TypeOK`,
  `CleanupExcludesWork`, `OneCleanupRun` and `HoldsAreOwned`, all from the inductive invariant `CleanupInv`.
- `SingleAttempt`, `UpdateExclusion`: `OneAttempt` and `UpdateExcludesWork`, from `UpdateInv`.
- `RulesKeepThePromise` of the same module: `ConflictRules` implements `ConflictPromise`, from both invariants. Four of the
  exclusions above follow from it; they are what its proof rests on.
- `TypeCorrect`, `WorkIsKept`, `RecordsAreAcknowledged` of `SaveSyncProofs`: `TypeOK`, `NoLostWork` and the action property
  `AcknowledgedIsCurrent`, the first and the last from `StateInv`, `NoLostWork` from `StateInv` and `WorkInv`.
- `OneFileChanges` of the same module: `OneFileAfterStart`, from `StateInv` and `StartInv`, for constants with
  `PlayAnyway => "postExit" \notin Syncs`. Only a start's own sync is asked to stop by it; a sync after the game that a game
  is started beside is the limit of finding 3.
- `CurrentIsHeld`: `CurrentMeansHeld`, from `StateInv`, `WorkInv` and `CurrentInv`, for `MaxReplaced = 0`, `~PlayAnyway` and
  `~RenameFails`; `UploadsBuryNothing` and `SyncsDiscardNothing`: the action properties `NoSilentBurial` and `NoSilentDiscard`,
  under the same three assumptions and for a slot with one file, the second from `DescentInv` besides. Devices, contents,
  saves and faults are any. The `save_sync` run has failing renames and one fault, the theorems any faults but those.
- `ConflictsAreReal` of `SaveConflictProofs`: the action property `ConflictIsReal`, from `StateInv`, `WorkInv` and `RealInv`, for
  `MaxReplaced = 0`, `~PlayAnyway` and one file. The property itself ends at the first fault, so failing renames are
  not excluded. With those above these are all the safety properties of the save sync's passing runs.
- `TypeCorrect`, `NoLockIsLeaked`, `SyncExclusion` of `SaveSyncGateProofs`: `TypeOK`, `LocksAreOwned` and `OneSyncPerDevice`,
  from `GateInv`.
- `StopsReach`, `RunningKeepsItsSave` of the same module: the action properties `StopReaches` and `AnywayIsKept`, from `GateInv`
  and `StopInv`.
- `RunIsRecordedAsEnded` of `LibrarySyncProofs`: `RecordedAsEnded`, from `RecordInv`.
- `AnswersAreKept` of the same module: the action property `AckIsKept`, from `RecordInv` and `AnswerInv`.
- `LibraryTypes`, `GenerationsAreHonest`, `SkipsAreSafe`, `StagingIsKept`, `OneShortcut` of `LibraryRowsProofs`: the
  invariants `TypeOK`, `GenerationsHonest`, `SkipIsSafe`, `StagingKept` and `OneShortcutPerGame`, from `LibraryInv`. With the
  two above these are all the safety properties of the library sync.
- `ClaimIsHeld`, `EntriesAreWorked`, `OwnersRelease` of `DownloadsProofs`: `ClaimHeld`, `EntryIsWorked` and the action
  property `OnlyOwnerReleases`, from `DownloadInv`; `TypeCorrect`, `InstalledFilesAreWhole`, `CompletedMeansInstalled`,
  `EndedIsFinal`: `TypeOK`, `WholeUnlessCrossed`, `CompletedIsInstalled` and the action property `EndedStaysEnded`, from
  `FullInv`. These are all the safety properties of a download but `NobodyStuck`.
- `TypeCorrect`, `SourceIsSafe`, `ResultsAreTrue`, `LateClaimsRefused` of `PruneActionProofs`: `TypeOK`, `SourceIsKept`,
  `ResultIsTrue` and the action property `GivenUpStaysUnclaimed`, from `PruneInv`. These are all the safety properties of
  a cleanup.

`CleanupInv`. `CleanupExcludesWork` is not inductive: it says nothing of the time between a reservation and the run
claim, in which an operation must not register either. `CleanupShutsOut` extends it to every start that holds a
reservation. `OneAdmitted` says that `_starting` covers the one start that is validating, has begun or was found stale,
and that no run exists before a validating start begins one. `HoldsAreOwned`, the two counters as cardinalities of sets
of starts, is needed as well: a counted reservation is what makes `CleanupRunning` shut everything out. `MoveStart` and
`MoveStartCounts` are the lemmas about what one start's move does to the counted sets, and one lemma for each group of
actions (`CallStepKeeps`, `LeaseStepKeeps`, `StartStepKeeps`, ...) shows that the invariant is kept.

`StateInv` of `SaveSync` adds to the types what each place of an operation relies on (`OperationOK`): a listed save and
the save in hand are among RomM's, a file to send is on the device, a content to place is one. It needs that nothing ever
takes a save from RomM, nor a file from a device but the operation that is at it, and it needs RomM's clock to count the
saves and the replacements. `BoundedMax` (of a bounded set of numbers there is a greatest) is what makes the kernel's
`CHOOSE` of a newest save a save.

`WorkInv` is `NoLostWork` with what each step that takes something away needs. A step that moves a file aside leaves it in
the backup folder (`PlacingKeepsWork`); a new content supersedes what it was played from (`WritesOver`), and no older
content's history changes, for which no content may be held that was not written (`ValuesInv`). The one hard case is Play
Anyway: a game writes over a file that a sync placed under it after it had loaded the old one. `PlacedInv` says that such
a file came from RomM and that RomM still holds it or what superseded it there, which another client's `Replace` and Keep
Local's `Choose` both keep. One file or many makes no difference to the argument, so the theorem also covers the slot
with several files that the `save_sync` run leaves out.

`StartInv` says which file may differ from what a running game loaded: the one that the operation under way is at. A
resolution has no other file, and a sync was asked to stop, so that it ends where it would take up the next. `Follows` says
what every step of a transfer has in common, and is used by the two invariants below as well: the operation ends, or keeps its kind, its
file, its listing and its probe, and of its baselines changes at most that of its file, to the save in hand
(`StepFollows`, one lemma for the eleven steps and the faults).

`CurrentInv`. RomM holds a device current on a save because the device acknowledged or uploaded it; that the device still
has it is decided steps later, after other devices' steps. `HeldInv` is `CurrentMeansHeld` without RomM's times, which
`OrderInv` settles (without replaced saves, a save's time is its place in the sequence). A step may break it in two ways.
A download may take the file away: `HandInv` says that, while a save is fetched and placed, the device is current on no
later save of the file, and that what was listed at the start of a sync still tells of every save the device was current
on (`ListedOK`), which is why an old listing does no harm. An upload or an acknowledgement may make the device current: the
file then still is what was sent or named (`HandOK`), since no game runs meanwhile (`CalmInv`). `OwnerInv` (a content is of one file)
excludes that RomM's dedup answers with the save of another file, `ShownInv` that a resolution takes one, and `EvenInv` that a
baseline names a file that was not the save's. Each of the three assumptions is needed; the known limits have the traces.

`UploadsBuryNothing` then takes one step: `PostCreates` shows that only an upload RomM does not refuse makes a save, and RomM
refuses it from a device that is not current on the slot's newest save (`TakenPlaysOn`). With one file that is the save
the upload passes. With several, RomM's gate asks about whichever file's save is newest, and the theorem says nothing.

`DescentInv`, for `NoSilentDiscard`. A download is decided on when the local file is the one of the baseline, or is not there; it is
placed steps later, while other devices go on. The order of what supersedes what is transitive (`LineInv`), and a newer save of a
file supersedes the older ones (`ChainInv`): a sync's upload by `TakenPlaysOn`, Keep Local's by the user's choice
(`ChosenLine`). What a baseline names is held by RomM (`Known`), so it is listed, and the newest listed save supersedes it
(`ListedDescent`); a file whose probe found nothing is not there when its turn comes (`AheadOK`); and between the decision and the
placing the file stays what was measured and superseded (`PassOK`). One file is assumed because `ChainInv` rests on
`TakenPlaysOn`, which only there is about the file's own saves.

`RealInv`, for `ConflictIsReal`: until something fails, `CurrentInv`, `DescentInv` and `CleanInv`. A conflict comes of two facts
that were learnt apart, that the file is not the one of the baseline and that RomM has a newer save, and the listing the second
rests on may be old when it is shown. Both have to mean what they say. What a file has beyond its baseline is this
device's alone (`OwnOf`, `Apart`): no save and no other device has anything of it, so no save can contain the file. A
content stops being alone when it is uploaded, and at that moment the device becomes current on it and it is what the
baseline will be; that the record comes steps later is why the places between (`Landing`) are excepted, and why a lost
answer or a crash there ends the property: the device would then take its own upload for somebody else's change. On the
other side, a save later than what the device is current on contains the file only if it was played on from it, and no
save has anything of a later one (`NewerInv`), so the file does not have the save. `PlaceOK` carries this over a sync's
steps: what is compared, posted or was refused is the device's alone, a refused upload meets a newest save that the
device is not current on, and the listing still tells which saves it is current on. `ShownOK` is needed for Keep Local,
which sends a file whose conflict was shown before. One file is assumed because with two the property is false (see the
known limits). `SaveSyncProofs` has its steps for `CurrentInv` and `DescentInv` for a single step in which no placing fails
(`WholeStepCurrent`, `WholeStepDescent`), since here a placing may fail, and the argument ends with it.

`GateInv`. `LocksAreOwned` says that an owner is at work; to show that it stays so one also has to know the converse,
that a call at a place under the gate or under a game's lock is its owner (`RunHolds`, `OtherHolds`), and that a queue
only holds waiting calls. `RunFrame` and `OtherFrame` say that the steps of one call do not touch what is said of
another. `OneSyncPerDevice` follows at once: a lock has one owner. `TypeOK` adds that only calls are in the queues; a waiter
is taken out of the middle of one (`RemoveFirst`, the `_waiters.remove` of `asyncio.Lock`), and that what is left is a queue
of calls rests on `LeastOfNaturals`, the existence of the first place it waits at.

`StopInv`. `StopReaches` and `AnywayIsKept` speak of single steps, and hold because of what became of the call before. A
call that was asked to stop still has its stop. Of a game that was started with Play Anyway, every press and sweep that is
at its saves was asked to stop, reached it after the press, or took its lock while Steam lists it and has yet to ask Steam;
the last cannot place anything, because asking ends it. `CallMoves` brings every step of a call to one of three forms (it
rests, it begins with a game, it works on), and `OnlyWorkWrites` says that only the third writes.

`RulesKeepThePromise`. One lemma for each group of actions says which step of the promise it is. A registration is
`BeginWork`: the new claim is the only one (`ClaimsGrow`) and `CleanupShutsOut` gives that no run exists; a press that is
confirmed is `BeginAttempt`: the call found nothing guarded under way, and an attempt is the only one by `UpdateInv`;
`BeginRun` is `BeginCleanup`, because a start that is validating holds a reservation, under which nothing holds a claim.
All other steps shrink the sets or leave them alone.

`RecordInv`. What a run's row says at its end was decided steps before: by what the run found when it reached `final`.
The invariant says that a run under way is the one in the slot (`SlotInv`); that a run is being cancelled only for a press
of the user, or for a pause or a silence its own work met, and before its work begins for a press only (`CancelInv`); and
that a run nobody cancels did every platform before the one it is at, so that a run which reaches `final` uncancelled did
all of them (`ProgressInv`). Then `completed` and `cancelled` are right when they are written.

`AnswerInv`. An answer can only be dropped if nobody waits for it and the stash does not have it, while its run still wants it.
The invariant follows the one message of a chunk, from its frame over the panel's work to its answer: the box holds one
chunk and one abandoned chunk at most (`BoxTyped`); the runs before the one in the slot are closed, and a chunk of the
slot's run is only abandoned when it is being cancelled (`OrderInv`); a message is of a run that started (`SentInv`), what
is alive of it is known, by its run's wait or by the stash (`KnownInv`), and there is one live message at most (`OneMessage`).
With `RecordInv`, which says who is in the slot, every live answer then finds its wait or its abandoned chunk.

`LibraryInv` adds seven parts to `AnswerInv`. `ShapeInv`: the types, and that the chunks of a unit are lists of its games,
each game in one of them (`ChunksOf`); that `BuildUnitChunks` makes such chunks is a lemma about the ranges it cuts and
about `SelectSeq`, of which only the set of what it selects is needed. `ClosedInv`: only a cancel closes the run in the
slot. `CoverInv`: the frame, the panel's work, the answer and the commit of a chunk each account for all of its games, as
had or as failed, so nothing is lost on the way. `RowInv` has `GenerationsHonest` and `SkipIsSafe`, neither of them
inductive: a stamp is right because every chunk before the last was committed with the run's generation (`CommittedOf`),
because a game that was not sent had its shortcut (`UnsentOf`), because nobody else stamps or stages the unit meanwhile
(`UnitOpen`), and because the run's generation is on no row it has not come to (`GensOf`). `HeldInv` is `StagingKept` with
the run that an abandoned chunk or a late answer is of: as long as it has the slot it is being cancelled and stages
nothing new. `FrameInv`: of a run one frame at most is on the wire or at the panel, of games it sent and each once.
`SteamInv`: what the panel's scan does not tell of was made since, for a game the scan's run has sent and sends no more; so a
game at the head of a frame has no shortcut that the panel does not know of, and none is made twice. The proof uses that
a game is of one platform, which lists it once (`LibraryAssumption`): a ROM has one `platform_id` in RomM, and the fetch
keys its ROMs by id.

`DownloadInv` has three parts. `ShapeInv`: the types, and that a thread's handle is on a file that is there, without which
a write would have nothing to change. `ClaimInv`: a registered attempt is under way or stranded, a start under way holds
its game's claim alone, a registered game is claimed; all but the first only for games of which no two attempts crossed,
since a resume does not ask for the claim. `EntryInv`: an entry that shows work has an attempt whose end would still
settle it, or one that was stranded or dropped. Lemmas about single fields (`PcChanges`, `ThreadChanges`, ...) and about
the groups of steps that go on, end or release (`GoesOnKeeps`, `IsOverKeeps`, `ClaimReleases`, `EntryMoves`) carry the steps
of the thirty actions. `OnlyOwnerReleases` then needs only `ShapeInv` and the first part of `ClaimInv`.

`FullInv` goes on from there to the files. `StageInv` says where a thread can be while its task is at a place: it renames
only once its task commits, and a task that finishes has its thread done. `OneLive`: of a game whose attempts did not
cross, the one attempt under way is the registered one; with `EntriesFit` the entry is then its own. `WorkInv`: one thread
is at work on a game's files (`OneAtWork`), the partial file is a beginning of the game, and the thread goes on writing
where it ends (`FileInv`). A thread that was stopped too late is at work too, and this is where two attempts cross and the
argument ends; where `torn` is set the request for the rest was made for a file that is gone. `CompletedInv`: an entry told
as completed has its file and row or is in an uninstall's list, for which the commit's own steps, and what an uninstall
may take between them, have to be followed (`PlacedOf`). `EndedStaysEnded` needs `OneLive` and `EntriesFit`: a step that
would change an ended entry is an attempt's at work, and none is.

`PruneInv` relates the run, the host's record of its action, and the panel. `PendingInv`: the pending action is the
current game's, and open after a wait only if its sending was cut off. `ReportsInv`: a report that the shortcut is gone is
true when it is made, and stays true. `SourceInv`: where the run is told of a removal, the shortcut is gone and the ledger
has it; what may be destroyed in a step is the current game's, and an ambiguous game is behind the run, so that the ledger
cannot come to doubt what was destroyed. `PanelInv` follows each action: not asked for, not at the panel; worked on only
once claimed and before any report; a removal asked of Steam ends as removed, attempted or unreported, never as failed.
`ResultInv` speaks of the games the run is done with in terms of what the *host* granted rather than what Steam was asked:
a grant can be seen at the moment a game ends, while the removal it allows may come later. `ResultIsTrue` follows because
`PanelInv` excludes the one remaining case, a granted removal reported as failed. Its groups of steps are the run's, a
cancellation's (`CutOffMoves` names the five kinds of place it may find the run at), the host's, the panel's (`PanelActs`
brings the eight handlers to one form) and what comes from outside. Nothing in it uses an order between the panel's
steps and the run's.

All invariants were checked by TLC on the instances above before they were proved, `PruneInv` also with two games,
`CleanInv` with two and three devices and no fault (64,775 and 380,597 states),
`WorkInv` also with three contents under Play Anyway (3,310,689 states), `DescentInv` with four contents, four saves and two
faults (7,025,594 states), and with two files, three contents and one fault (2,965,962 states).

Out of the prover's reach, and so only model-checked: liveness under fairness (`StartIsAnswered`, `Converges`,
`CallsAreAnswered`, `RunEnds`) and anything about ENABLED, of which `NobodyStuck` speaks. Induction over data is out of reach
by the library's theorems, which take an operator as parameter; where a proof needed it (a least element, a greatest one)
it goes over sets instead, and no theorem says what a recursive definition computes. None of the modules has a recursive
operator. Every safety property of the passing runs but `NobodyStuck` is stated by a theorem.

Two of the proofs corrected the properties of a download. `FileInv` was not inductive where a thread waits for the rest of a
partial file that is removed meanwhile; the known limits below tell what comes of it. `torn` names the games it came to,
and `WholeUnlessCrossed` excepts them. `CompletedIsInstalled` holds only where attempts did not cross: of two that did, one
completes the entry of the other after an uninstall took its file. Both take more attempts than the run has, so that
before the run alone had not shown them.

## Findings

1. `conflict_rules_update_and_cleanup`: the update's press asks `PruneService.is_active`, which is false while a start
   holds only its reservation; a press in that window is accepted, the cleanup begins, and the installer stops the
   process under it (`backend/bootstrap/services.py:907`).
2. `save_sync_stale`: a resolution compares the save shown with the newest save of the whole slot; in a slot with two
   files the conflict of the other file can never be resolved (`rollback.py:161`).
3. `save_sync_gate_start`: only Play Anyway asks the syncs of a game to stop; after an ordinary start a sweep that had
   reached the game before goes on under it (`engine.py:842`), and a sync after the game has no stop at all
   (`engine.py:894`).
4. `library_sync_failed_create`: a shortcut that Steam fails to create is left out of the panel's answer
   (`frontend/src/utils/syncManager.ts:366`), the platform is stamped complete all the same, and later runs skip it
   with the game missing, although the skip is meant for a local mirror that "already matches the server"
   (`services/library/fetcher.py:819`).

5. `downloads_pause_resume`: a pause ends the task and not the thread (`services/downloads/service.py:501`). The thread looks at
   its flag only after it has read and written its next block, and at none while it connects or retries. A resume is
   accepted as soon as the entry is paused and opens the same `.tmp`; the old thread then writes into it, or into the file
   the resumed attempt has put in place. The size check of the resumed attempt counts its own blocks and passes.

## Known limits of the code that the models show

Each of these is a property that holds in the listed runs and fails under other constants; where the documentation
accepts the limit, no run lists it.

- With `MaxReplaced = 1`, `CurrentMeansHeld` fails: the first acknowledgement names no hash, so a save that another
  client replaces between a download and its acknowledgement is acknowledged unseen (`save_transfer.py:322`).
- With failing renames, `CurrentMeansHeld` fails (one device, one file, three contents, the second too short, one fault;
  a trace of 20 states, longer than the `save_sync` run's contents allow). A device can be asked about a save it is
  current on, where its file looks cut short. If the user takes the server's side and placing it fails after the old
  file was moved aside (`save_transfer.py:181`), the device has no file and RomM still holds it current. A game that is started
  then writes a new file from nothing, and the next sync uploads it over the server's save without asking. The old file
  is in the backup folder and the server's save stays in the slot's history, so `NoLostWork` holds.
- With `PlayAnyway`, `CurrentMeansHeld` fails too: a game may write between a placing and its acknowledgement.
- With two files, `ConflictIsReal` fails (a trace of 25 states): RomM refuses an upload by the newest save of the slot,
  whichever file it is of, and the file's own decision then shows a conflict where one side changed (`matrix.py:416`;
  `docs/user-guide/save-sync.md:33` promises a modal "only" if both sides changed).
- With `PlayAnyway` and a sync after the game, a file is measured after the transfer, when the game may have written it
  again (`save_transfer.py:456`).
- `StagingKept` says nothing of the time after a newer run has claimed the slot. A late answer that was already taken
  from the stash may then commit while the newer run has staged its own ROMs; the rows it finds no staging for are
  refused (`reporter.py:210`), so their bindings are not recorded, and the shortcuts are adopted by a later run.
- A resume's thread measures the partial file before it asks RomM for the rest (`adapters/romm/http.py:747`), and opens it
  by its name when the answer comes. If the file was removed in between, the rest is written into a new file, from its
  start, although the docstring of `_resume_branch` says that a partial file is "never" appended to at another offset.
  With three attempts TLC finds a trace of 28 states that installs such a file: a pause ends the task while its thread
  waits for the answer, Resume is pressed, a cancel of the still paused entry removes the file, the thread writes the rest
  into a new one, and the resumed attempt continues it. The size check passes: it counts the bytes found and those read.
- Keep Local overwrites whatever is newest when its upload arrives (`rollback.py:389`).
- A resume asks only for a paused entry (`services/downloads/service.py:505`), not for the claim: pressed twice, or between the
  entry's pause and the release of its task, it registers a second attempt over the first; a cancel of the paused entry
  does not see a resume that is being started. A cancel that arrives before a task's first step leaves its claim and its
  entry as they were, and the game cannot be downloaded again until a restart (`stranded`). A second cancel while a
  handler waits, or Uninstall All clearing the entry of a running download, ends the handler before it settles the entry
  (`dropped`). A progress frame may follow a paused entry. "At most two ROMs transfer at once" (`_state.py:51`) counts
  tasks, not threads that outlive them. `ClaimHeld`, `EntryIsWorked` and `EndedStaysEnded` name these cases.
- A cancel that arrives while a Steam action is being sent (`services/prune/service.py:560`, outside the `try` that closes the
  token) leaves the token open until the run's end: the panel may still claim it and remove the shortcut, and the run
  reports nothing done, although `steam_actions.py:7` says an outcome lost in transit is reported as ambiguous and
  `docs/architecture/removed-game-cleanup.md:541` that removed ids "stay truthful even after cancellation". The second
  cancellation of a shutdown loses a claimed action's outcome in the same way. `ResultIsTrue` excepts both
  (`cutSending`, `cutWaiting`). `SourceIsKept` holds without exception.

## What is not modelled

In the modelled parts: of `SaveSync`, slots and slot switches, version restore and copies, the retention of backups,
the adoption on a read of the status, the bookkeeping of a promoted slot, the negotiate session, device rows that were
never touched, the follow of a save directory, a listing that fails at the start of a sync (it changes nothing), and a
resolution before a start while Steam lists it. A placed file's hash is taken in the step of its rename. Of
`SaveSyncGate`, starts without a connection (they run no sync) and the cleanup's hold of several games' locks, which
takes them in ascending order under no other lock. Of `ConflictRules`, the folder, migration and sync backstops an
endpoint may name besides, which are asked and change nothing. Of `LibrarySync`, collections,
previews (which claim the same slot), the removal of stale shortcuts and the convergence after it, covers, the
reconciliation of shortcuts the user deleted, and groups of sibling ROMs (a game is one ROM). The probe that decides a
skip compares sets of games in place of dates; the answer to the active chunk reaches the panel before the next frame,
and the plan's event is delivered at once. Of `Downloads`, zips and their unpacking, disk space, the occupancy gate, a
version superseded by its sibling, the count of the retries (they may go on), the throttle of the progress frames,
forgetting an entry and the pruning of old ones, the shutdown. Of `PruneAction`, groups without a shortcut or with several
versions of which some stay, the contents of a bundle, the preview and the selection, the gone marks, progress frames.

Not modelled as components, with the reason for each, in `PROJECT.json`: reads and caches, single-step writes, file
handling, rendering; and the components the plan has left. By far the most lines of the repository are vendored
(`backend/_vendor/atlas`, a table-driven catalogue of emulators; `backend/_vendor/backports`, the standard library's zip
and tar modules) or React views; neither has behaviour of Tender's own whose interleavings a model would show.

## Plan

1. Done: `ConflictRules` with `ConflictPromise`, `SaveSync` with `SaveKernel`, `SaveSyncGate`, `LibrarySync`, `Downloads`,
   `PruneAction`, and the proofs named above.
2. The rest of `LibrarySync`: collections, previews on the same slot, the removal of stale shortcuts.
3. Slots in `SaveSync`: a slot per save and a current slot per device, so that switching, restore and copies are
   actions.
4. `Playtime`: the outbox between two units of work.
5. `Injector`: the injection's states with the watchdog and the limited reloads over restarts.
6. Proofs: an abstract specification of a game's save history (a set of contents with the order of what supersedes what,
   on which devices act atomically), which `SaveSync` is to implement.
