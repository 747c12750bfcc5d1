-------------------------- MODULE DownloadsProofs --------------------------
(***************************************************************************)
(* Proofs about downloads, for any number of games, attempts, slots,       *)
(* blocks and uninstalls: every variable keeps its type, no entry shows    *)
(* work that nobody does, a registered download holds its game's claim and *)
(* only its owner gives it back, what is installed is whole, what is told  *)
(* completed is installed, and what ended is not revived.                  *)
(*                                                                         *)
(* First the shape of the state, the claims and the entries (DownloadInv). *)
(* Then, on top of it and step by step: where a thread can be while its    *)
(* task is at a place, that one task of a game is under way and its entry  *)
(* its own, that one thread is at work on its files and finds on disk what *)
(* it goes on from, and that what is told completed was put in place       *)
(* (FullInv).                                                              *)
(***************************************************************************)
EXTENDS Downloads, SequenceTheorems, TLAPS

AttemptFields ==
    [pc : {"unused", "starting"} \cup Live \cup Over, rom : Roms,
     resume : BOOLEAN, sig : BOOLEAN, stop : {"cancelled", "paused", None},
     end : Ended \cup {"paused", None},
     th : {"none", "asking", "streaming", "done", "aborted", "failed",
           "placing", "renamed", "placed", "unplaced"},
     have : Nat, nxt : 0..Blocks, append : BOOLEAN,
     fd : {"none", "partial", "installed", "orphan"}, tick : BOOLEAN]

\* An attempt not made yet has no thread.
AttemptRecord == {q \in AttemptFields : q.pc = "unused" => q.th = "none"}

\* What is on disk, and what an uninstall has left to do.
FilesOK ==
    /\ partial \in [Roms -> Contents] /\ installed \in [Roms -> Contents]
    /\ recorded \subseteq Roms

RestOK ==
    /\ claim \subseteq Roms /\ crossed \subseteq Roms
    /\ token \in [Roms -> Attempts \cup {None}]
    /\ entry \in [Roms -> Statuses \cup {None}]
    /\ shown \in [Roms -> Statuses \cup {None}]
    /\ removal \in [stage : {"idle", "files", "rows", "queue"}, of : SUBSET Roms,
                    evicts : SUBSET Roms, left : 0..MaxRemovals]

\* A thread's handle is on a file that is there; an attempt not made yet has none.
HandlesOpen(s, p, i) ==
    \A a \in Attempts :
        /\ s[a].fd = "partial" => p[s[a].rom] # NoFile
        /\ s[a].fd = "installed" => i[s[a].rom] # NoFile
        /\ s[a].pc = "unused" => s[a].fd = "none"

ShapeInv ==
    /\ at \in [Attempts -> AttemptRecord]
    /\ FilesOK
    /\ RestOK
    /\ HandlesOpen(at, partial, installed)

\* A registered attempt is under way or was stranded, one game's claim is held
\* for the one attempt that starts or is registered, unless attempts crossed.
ClaimInv ==
    /\ \A r \in Roms, a \in Attempts :
          token[r] = a => at[a].rom = r /\ at[a].pc \in Live \cup {"stranded"}
    /\ \A a \in Attempts :
          at[a].pc = "starting" /\ at[a].rom \notin crossed
              => at[a].rom \in claim /\ token[at[a].rom] = None
    /\ \A a, b \in Attempts :
          /\ at[a].pc = "starting" /\ at[b].pc = "starting"
          /\ at[a].rom = at[b].rom /\ at[a].rom \notin crossed
          => a = b
    /\ \A r \in Roms \ crossed : token[r] # None => r \in claim

AtWorkPcs == {"spawned", "waiting", "fetching", "committing", "settling"}

\* Where an attempt is that keeps its game's entry from being settled.
Unsettled == AtWorkPcs \cup {"stranded", "dropped"}

ShowsWork(e) == e \in {"queued", "downloading"}

EntryInv ==
    \A r \in Roms :
        ShowsWork(entry[r]) => \E a \in Attempts : at[a].rom = r /\ at[a].pc \in Unsettled

DownloadInv == ShapeInv /\ ClaimInv /\ EntryInv

\* The parts are the type invariant.
LEMMA TypeParts == ShapeInv /\ torn \subseteq Roms => TypeOK
BY DEF ShapeInv, TypeOK, AttemptFields, AttemptRecord, FilesOK, RestOK

-----------------------------------------------------------------------------
(* What the helpers of the module do to the attempts. *)

\* Only the place of attempt a may differ, and it is pc.
Moved(s, t, a, pc) ==
    /\ t[a].pc = pc /\ t[a].rom = s[a].rom
    /\ \A b \in Attempts \ {a} : t[b].pc = s[b].pc /\ t[b].rom = s[b].rom

Still(s, t) == \A b \in Attempts : t[b].pc = s[b].pc /\ t[b].rom = s[b].rom

\* An attempt at rest keeps its place and its game, and has no handle.
LEMMA RestedKeeps ==
    ASSUME NEW s \in AttemptRecord
    PROVE  /\ Rested(s) \in AttemptRecord
           /\ Rested(s).pc = s.pc /\ Rested(s).rom = s.rom
           /\ Rested(s).fd \in {"none", s.fd}
<1>1. CASE s.pc \in Over /\ s.th \notin Running
  <2>1. Rested(s) = [pc |-> s.pc, rom |-> s.rom, resume |-> FALSE, sig |-> FALSE, stop |-> None,
                     end |-> None, th |-> "none", have |-> 0, nxt |-> 0, append |-> FALSE,
                     fd |-> "none", tick |-> s.tick]
      BY <1>1 DEF Rested, Unused
  <2> QED BY <1>1, <2>1, DownloadsAssumption DEF AttemptFields, AttemptRecord, Over
<1>2. CASE ~(s.pc \in Over /\ s.th \notin Running)
    BY <1>2 DEF Rested
<1> QED BY <1>1, <1>2

\* A task that is over is at the place it left for; nothing else moved.
LEMMA LeavesKeeps ==
    ASSUME at \in [Attempts -> AttemptRecord], NEW a \in Attempts, NEW pc \in Over, Leaves(a, pc)
    PROVE  /\ at' \in [Attempts -> AttemptRecord]
           /\ Moved(at, at', a, pc)
           /\ \A b \in Attempts : at'[b].fd \in {"none", at[b].fd}
<1> DEFINE s == [at[a] EXCEPT !.pc = pc, !.sig = FALSE]
<1>1. s \in AttemptRecord /\ s.pc = pc /\ s.rom = at[a].rom /\ s.fd = at[a].fd
  <2>1. ASSUME NEW r \in AttemptRecord, NEW q, q = [r EXCEPT !.pc = pc, !.sig = FALSE]
        PROVE  q \in AttemptRecord /\ q.pc = pc /\ q.rom = r.rom /\ q.fd = r.fd
      BY <2>1 DEF AttemptFields, AttemptRecord, Over
  <2>2. at[a] \in AttemptRecord
      OBVIOUS
  <2> HIDE DEF AttemptFields, AttemptRecord
  <2> QED BY <2>1, <2>2
<1>2. at' = [at EXCEPT ![a] = Rested(s)]
    BY DEF Leaves
<1> HIDE DEF s
<1> QED BY <1>1, <1>2, RestedKeeps DEF Moved

\* A transfer that is over has closed its file.
LEMMA ClosedKeeps ==
    ASSUME NEW s \in [Attempts -> AttemptRecord], NEW a \in Attempts,
           NEW th \in {"done", "aborted", "failed", "placed", "unplaced"}, s[a].th # "none"
    PROVE  /\ Closed(s, a, th) \in [Attempts -> AttemptRecord]
           /\ Still(s, Closed(s, a, th))
           /\ \A b \in Attempts : Closed(s, a, th)[b].fd \in {"none", s[b].fd}
<1> DEFINE q == [s[a] EXCEPT !.th = th, !.fd = "none", !.append = FALSE,
                             !.nxt = 0, !.have = 0, !.resume = FALSE]
<1>1. q \in AttemptRecord /\ q.pc = s[a].pc /\ q.rom = s[a].rom /\ q.fd = "none"
  <2>1. ASSUME NEW r \in AttemptRecord, r.th # "none",
               NEW u, u = [r EXCEPT !.th = th, !.fd = "none", !.append = FALSE,
                                    !.nxt = 0, !.have = 0, !.resume = FALSE]
        PROVE  u \in AttemptRecord /\ u.pc = r.pc /\ u.rom = r.rom /\ u.fd = "none"
    <3>1. 0 \in 0..Blocks /\ 0 \in Nat
        BY DownloadsAssumption
    <3>2. u = [pc |-> r.pc, rom |-> r.rom, resume |-> FALSE, sig |-> r.sig, stop |-> r.stop,
               end |-> r.end, th |-> th, have |-> 0, nxt |-> 0, append |-> FALSE,
               fd |-> "none", tick |-> r.tick]
        BY <2>1 DEF AttemptFields, AttemptRecord
    <3>3. r \in AttemptFields /\ r.pc # "unused"
        BY <2>1 DEF AttemptRecord
    <3>4. u \in AttemptFields
        BY <3>1, <3>2, <3>3 DEF AttemptFields
    <3> QED BY <3>2, <3>3, <3>4 DEF AttemptRecord
  <2>2. s[a] \in AttemptRecord
      OBVIOUS
  <2> QED BY <2>1, <2>2
<1>2. Closed(s, a, th) = [s EXCEPT ![a] = Rested(q)]
    BY DEF Closed
<1> HIDE DEF q
<1> QED BY <1>1, <1>2, RestedKeeps DEF Still

\* Handles follow a file of one game and nothing else changes.
LEMMA FollowsKeeps ==
    ASSUME NEW s \in [Attempts -> AttemptRecord], NEW r, NEW from,
           NEW to \in {"none", "partial", "installed", "orphan"}
    PROVE  /\ Follows(s, r, from, to) \in [Attempts -> AttemptRecord]
           /\ Still(s, Follows(s, r, from, to))
           /\ \A b \in Attempts : Follows(s, r, from, to)[b].fd =
                 IF s[b].rom = r /\ s[b].fd = from THEN to ELSE s[b].fd
<1>1. \A b \in Attempts : s[b] \in AttemptRecord
    OBVIOUS
<1>2. \A b \in Attempts : /\ [s[b] EXCEPT !.fd = to] \in AttemptRecord
                          /\ [s[b] EXCEPT !.fd = to].pc = s[b].pc
                          /\ [s[b] EXCEPT !.fd = to].rom = s[b].rom
                          /\ [s[b] EXCEPT !.fd = to].fd = to
    BY <1>1 DEF AttemptFields, AttemptRecord
<1> QED BY <1>1, <1>2 DEF Follows, Still

\* A block written to a file leaves a file.
LEMMA PutKeeps ==
    ASSUME NEW c \in Seq(0..Blocks), NEW a \in Attempts, at[a] \in AttemptRecord
    PROVE  Put(a, c) \in Seq(0..Blocks)
<1> DEFINE p == IF at[a].append THEN Len(c) + 1 ELSE at[a].nxt
           n == IF p > Len(c) THEN p ELSE Len(c)
<1>1. at[a].nxt \in 0..Blocks /\ Len(c) \in Nat
    BY DEF AttemptFields, AttemptRecord
<1>2. n \in Nat
    BY <1>1
<1>3. \A i \in 1..Len(c) : c[i] \in 0..Blocks
    BY ElementOfSeq
<1>4. \A i \in 1..n : (IF i = p THEN at[a].nxt ELSE IF i <= Len(c) THEN c[i] ELSE 0) \in 0..Blocks
    BY <1>1, <1>2, <1>3, DownloadsAssumption
<1>5. Put(a, c) = [i \in 1..n |-> IF i = p THEN at[a].nxt ELSE IF i <= Len(c) THEN c[i] ELSE 0]
    BY DEF Put, Written
<1> HIDE DEF n, p
<1> QED BY <1>2, <1>4, <1>5, IsASeq

-----------------------------------------------------------------------------
(* Every action keeps the types, and says which attempt it moved. *)

\* Handles stay on files that are there if no file goes and none is opened.
LEMMA HandlesKept ==
    ASSUME HandlesOpen(at, partial, installed),
           \A b \in Attempts : /\ at'[b].fd \in {"none", at[b].fd}
                               /\ at'[b].fd # "none" => at'[b].rom = at[b].rom
                               /\ at'[b].pc = "unused" => at[b].pc = "unused",
           UNCHANGED <<partial, installed>>
    PROVE  HandlesOpen(at, partial, installed)'
BY DEF HandlesOpen

\* One attempt changes, the others do not.
LEMMA OneChanges ==
    ASSUME at \in [Attempts -> AttemptRecord], NEW a \in Attempts, NEW u \in AttemptRecord,
           at' = [at EXCEPT ![a] = u]
    PROVE  /\ at' \in [Attempts -> AttemptRecord]
           /\ at'[a] = u
           /\ \A b \in Attempts \ {a} : at'[b] = at[b]
OBVIOUS

\* Replacing a field by a value of its type leaves a record of an attempt.
LEMMA PcChanges ==
    ASSUME NEW q \in AttemptRecord, NEW pc \in {"starting"} \cup Live
    PROVE  /\ [q EXCEPT !.pc = pc] \in AttemptRecord
           /\ [q EXCEPT !.pc = pc].pc = pc
           /\ [q EXCEPT !.pc = pc].rom = q.rom
           /\ [q EXCEPT !.pc = pc].fd = q.fd
BY DEF AttemptFields, AttemptRecord, Live

LEMMA SigChanges ==
    ASSUME NEW q \in AttemptRecord, NEW sig \in BOOLEAN
    PROVE  /\ [q EXCEPT !.sig = sig] \in AttemptRecord
           /\ [q EXCEPT !.sig = sig].pc = q.pc
           /\ [q EXCEPT !.sig = sig].rom = q.rom
           /\ [q EXCEPT !.sig = sig].fd = q.fd
BY DEF AttemptFields, AttemptRecord

LEMMA StopChanges ==
    ASSUME NEW q \in AttemptRecord, NEW stop \in {"cancelled", "paused", None}
    PROVE  /\ [q EXCEPT !.stop = stop] \in AttemptRecord
           /\ [q EXCEPT !.stop = stop].pc = q.pc
           /\ [q EXCEPT !.stop = stop].rom = q.rom
           /\ [q EXCEPT !.stop = stop].fd = q.fd
BY DEF AttemptFields, AttemptRecord

LEMMA ThreadChanges ==
    ASSUME NEW q \in AttemptRecord, NEW th \in {"asking", "streaming", "placing", "renamed"}, q.pc # "unused"
    PROVE  /\ [q EXCEPT !.th = th] \in AttemptRecord
           /\ [q EXCEPT !.th = th].pc = q.pc
           /\ [q EXCEPT !.th = th].rom = q.rom
           /\ [q EXCEPT !.th = th].fd = q.fd
BY DEF AttemptFields, AttemptRecord

LEMMA TickChanges ==
    ASSUME NEW q \in AttemptRecord, NEW tick \in BOOLEAN
    PROVE  /\ [q EXCEPT !.tick = tick] \in AttemptRecord
           /\ [q EXCEPT !.tick = tick].pc = q.pc
           /\ [q EXCEPT !.tick = tick].rom = q.rom
           /\ [q EXCEPT !.tick = tick].fd = q.fd
BY DEF AttemptFields, AttemptRecord

LEMMA RomChanges ==
    ASSUME NEW q \in AttemptRecord, NEW r \in Roms
    PROVE  /\ [q EXCEPT !.rom = r] \in AttemptRecord
           /\ [q EXCEPT !.rom = r].pc = q.pc
           /\ [q EXCEPT !.rom = r].rom = r
           /\ [q EXCEPT !.rom = r].fd = q.fd
BY DEF AttemptFields, AttemptRecord

LEMMA ResumeChanges ==
    ASSUME NEW q \in AttemptRecord
    PROVE  /\ [q EXCEPT !.resume = TRUE] \in AttemptRecord
           /\ [q EXCEPT !.resume = TRUE].pc = q.pc
           /\ [q EXCEPT !.resume = TRUE].rom = q.rom
           /\ [q EXCEPT !.resume = TRUE].fd = q.fd
BY DEF AttemptFields, AttemptRecord

-----------------------------------------------------------------------------

\* A call that is accepted takes the place of an attempt not made yet.
LEMMA StartShape ==
    ASSUME ShapeInv, NEW a \in Attempts, NEW r \in Roms, StartDownload(a, r) \/ ResumeDownload(a, r)
    PROVE  /\ ShapeInv'
           /\ at[a].pc = "unused"
           /\ at'[a].pc = "starting" /\ at'[a].rom = r
           /\ \A b \in Attempts \ {a} : at'[b] = at[b]
<1>1. at \in [Attempts -> AttemptRecord] /\ FilesOK /\ RestOK /\ HandlesOpen(at, partial, installed)
    BY DEF ShapeInv
<1>2. at[a] \in AttemptRecord
    BY <1>1
<1> DEFINE q1 == [at[a] EXCEPT !.pc = "starting"]
           q2 == [q1 EXCEPT !.rom = r]
           q3 == [q2 EXCEPT !.resume = TRUE]
<1>3. /\ q2 \in AttemptRecord /\ q2.pc = "starting" /\ q2.rom = r /\ q2.fd = at[a].fd
      /\ q3 \in AttemptRecord /\ q3.pc = "starting" /\ q3.rom = r /\ q3.fd = at[a].fd
  <2>1. q1 \in AttemptRecord /\ q1.pc = "starting" /\ q1.fd = at[a].fd
      BY <1>2, PcChanges
  <2> HIDE DEF q1
  <2>2. q2 \in AttemptRecord /\ q2.pc = "starting" /\ q2.rom = r /\ q2.fd = at[a].fd
      BY <2>1, RomChanges
  <2> HIDE DEF q2
  <2> QED BY <2>2, ResumeChanges
<1>4. at' = [at EXCEPT ![a] = q2] \/ at' = [at EXCEPT ![a] = q3]
  <2>1. StartDownload(a, r) => at' = [at EXCEPT ![a] = q2]
      BY DEF StartDownload
  <2>2. ResumeDownload(a, r) => at' = [at EXCEPT ![a] = q3]
      BY DEF ResumeDownload
  <2> QED BY <2>1, <2>2
<1> HIDE DEF q2, q3
<1>5. /\ at' \in [Attempts -> AttemptRecord]
      /\ at'[a].pc = "starting" /\ at'[a].rom = r /\ at'[a].fd = at[a].fd
      /\ \A b \in Attempts \ {a} : at'[b] = at[b]
    BY <1>1, <1>3, <1>4, OneChanges
<1>6. at[a].pc = "unused" /\ UNCHANGED <<token, told, files, removal>> /\ claim' = claim \cup {r}
      /\ crossed' \in {crossed, crossed \cup {r}}
    BY DEF StartDownload, ResumeDownload, Fresh
<1>7. FilesOK' /\ RestOK'
    BY <1>1, <1>6 DEF FilesOK, RestOK, files, told
<1>8. HandlesOpen(at, partial, installed)'
    BY <1>1, <1>5, <1>6 DEF HandlesOpen, files
<1> QED BY <1>5, <1>6, <1>7, <1>8 DEF ShapeInv

-----------------------------------------------------------------------------
(* What moving one attempt does to the claims and the entries. *)

\* An attempt under way that goes on, or is stranded, keeps what it registered.
LEMMA ClaimStays ==
    ASSUME ClaimInv, RestOK, NEW a \in Attempts, NEW pc \in Live \cup {"stranded"},
           at[a].pc \in Live, Moved(at, at', a, pc), UNCHANGED <<claim, token>>,
           crossed \subseteq crossed'
    PROVE  ClaimInv'
<1>1. at[a].pc # "starting" /\ pc # "starting"
    BY DEF Live
<1>2. \A b \in Attempts : /\ at'[b].rom = at[b].rom
                          /\ at'[b].pc = "starting" => at[b].pc = "starting"
                          /\ at[b].pc \in Live \cup {"stranded"} => at'[b].pc \in Live \cup {"stranded"}
    BY <1>1 DEF Moved
<1> QED BY <1>2 DEF ClaimInv

\* Where no attempt moves and no claim changes, the claims stay.
LEMMA ClaimUntouched ==
    ASSUME ClaimInv, Still(at, at'), UNCHANGED <<claim, token>>, crossed \subseteq crossed'
    PROVE  ClaimInv'
BY DEF ClaimInv, Still

\* The owner's release gives back one claim, anyone else's none.
LEMMA ClaimReleases ==
    ASSUME ClaimInv, RestOK, NEW a \in Attempts, NEW pc \in Over,
           at[a].rom \in Roms, at[a].pc \in Live, Moved(at, at', a, pc), Release(a),
           UNCHANGED crossed
    PROVE  ClaimInv'
<1>1. at[a].pc # "starting" /\ pc # "starting"
    BY DEF Live, Over
<1>2. \A b \in Attempts : /\ at'[b].rom = at[b].rom
                          /\ at'[b].pc = "starting" => at[b].pc = "starting"
                          /\ b # a => at'[b].pc = at[b].pc
    BY <1>1 DEF Moved
<1>3. CASE token[at[a].rom] = a
  <2>1. /\ token' = [token EXCEPT ![at[a].rom] = None]
        /\ claim' = claim \ {at[a].rom}
      BY <1>3 DEF Release
  <2>2. \A r \in Roms : token'[r] = IF r = at[a].rom THEN None ELSE token[r]
      BY <2>1 DEF RestOK
  <2>3. \A b \in Attempts : at[b].pc = "starting" /\ at[b].rom \notin crossed => at[b].rom # at[a].rom
      BY <1>3, DownloadsAssumption DEF ClaimInv
  <2>4. \A r \in Roms : token'[r] # a
      BY <2>2, DownloadsAssumption DEF ClaimInv
  <2>5. \A r \in Roms, b \in Attempts :
            token'[r] = b => at'[b].rom = r /\ at'[b].pc \in Live \cup {"stranded"}
      BY <1>2, <2>2, <2>4, DownloadsAssumption DEF ClaimInv
  <2>6. \A b \in Attempts :
            at'[b].pc = "starting" /\ at'[b].rom \notin crossed
              => at'[b].rom \in claim' /\ token'[at'[b].rom] = None
      BY <1>2, <2>1, <2>3 DEF ClaimInv, RestOK
  <2>7. \A r \in Roms \ crossed : token'[r] # None => r \in claim'
      BY <2>1, <2>2 DEF ClaimInv
  <2> QED BY <1>2, <2>5, <2>6, <2>7 DEF ClaimInv
<1>4. CASE token[at[a].rom] # a
  <2>1. UNCHANGED <<token, claim>>
      BY <1>4 DEF Release
  <2>2. \A r \in Roms : token[r] # a
      BY <1>4 DEF ClaimInv
  <2> QED BY <1>2, <2>1, <2>2 DEF ClaimInv
<1> QED BY <1>3, <1>4

\* An entry shows work on only while its game's attempt stays unsettled.
LEMMA EntryMoves ==
    ASSUME EntryInv, NEW a \in Attempts, NEW pc, Moved(at, at', a, pc),
           \A r \in Roms : r # at[a].rom /\ ShowsWork(entry'[r]) => ShowsWork(entry[r]),
           \/ pc \in Unsettled
           \/ ~ShowsWork(entry'[at[a].rom])
           \/ at[a].pc \notin Unsettled /\ (ShowsWork(entry'[at[a].rom]) => ShowsWork(entry[at[a].rom]))
    PROVE  EntryInv'
<1> SUFFICES ASSUME NEW r \in Roms, ShowsWork(entry'[r])
             PROVE  \E b \in Attempts : at'[b].rom = r /\ at'[b].pc \in Unsettled
    BY DEF EntryInv
<1>1. CASE r = at[a].rom /\ pc \in Unsettled
    BY <1>1 DEF Moved
<1>2. CASE ~(r = at[a].rom /\ pc \in Unsettled)
  <2>1. ShowsWork(entry[r]) /\ (r = at[a].rom => at[a].pc \notin Unsettled)
      BY <1>2
  <2>2. PICK b \in Attempts : at[b].rom = r /\ at[b].pc \in Unsettled
      BY <2>1 DEF EntryInv
  <2>3. b # a
      BY <2>1, <2>2
  <2> QED BY <2>2, <2>3 DEF Moved
<1> QED BY <1>1, <1>2

\* Where no attempt moves, an entry may only stop showing work.
LEMMA EntryUntouched ==
    ASSUME EntryInv, Still(at, at'),
           \A r \in Roms : ShowsWork(entry'[r]) => ShowsWork(entry[r])
    PROVE  EntryInv'
BY DEF EntryInv, Still

-----------------------------------------------------------------------------
(* The calls keep the invariant. *)

LEMMA StartKeeps ==
    ASSUME DownloadInv, NEW a \in Attempts, NEW r \in Roms, StartDownload(a, r) \/ ResumeDownload(a, r)
    PROVE  DownloadInv'
<1>1. /\ ShapeInv' /\ at[a].pc = "unused"
      /\ at'[a].pc = "starting" /\ at'[a].rom = r
      /\ \A b \in Attempts \ {a} : at'[b] = at[b]
    BY StartShape DEF DownloadInv
<1>2. /\ UNCHANGED <<token, entry>> /\ claim' = claim \cup {r}
      /\ crossed \subseteq crossed'
      /\ r \notin crossed' => r \notin claim
    BY DEF StartDownload, ResumeDownload, told
<1>3. \A q \in Roms : token[q] # a
    BY <1>1 DEF DownloadInv, ClaimInv, Live
<1>4. r \notin crossed' => token[r] = None /\ \A b \in Attempts : at[b].pc = "starting" => at[b].rom # r
    BY <1>2 DEF DownloadInv, ClaimInv
<1>5. ClaimInv'
  <2>1. \A q \in Roms, b \in Attempts :
            token'[q] = b => at'[b].rom = q /\ at'[b].pc \in Live \cup {"stranded"}
      BY <1>1, <1>2, <1>3 DEF DownloadInv, ClaimInv
  <2>2. \A b \in Attempts :
            at'[b].pc = "starting" /\ at'[b].rom \notin crossed'
              => at'[b].rom \in claim' /\ token'[at'[b].rom] = None
      BY <1>1, <1>2, <1>4 DEF DownloadInv, ClaimInv
  <2>3. \A b, c \in Attempts :
            /\ at'[b].pc = "starting" /\ at'[c].pc = "starting"
            /\ at'[b].rom = at'[c].rom /\ at'[b].rom \notin crossed'
            => b = c
      BY <1>1, <1>2, <1>4 DEF DownloadInv, ClaimInv
  <2>4. \A q \in Roms \ crossed' : token'[q] # None => q \in claim'
      BY <1>2 DEF DownloadInv, ClaimInv
  <2> QED BY <2>1, <2>2, <2>3, <2>4 DEF ClaimInv
<1>6. EntryInv'
  <2>1. at[a].pc \notin Unsettled
      BY <1>1 DEF Unsettled, AtWorkPcs
  <2> QED BY <1>1, <1>2, <2>1 DEF DownloadInv, EntryInv
<1> QED BY <1>1, <1>5, <1>6 DEF DownloadInv

\* A refused start gives the claim back that no other attempt rests on.
LEMMA RefuseKeeps ==
    ASSUME DownloadInv, NEW a \in Attempts, RefuseStart(a)
    PROVE  DownloadInv'
<1>1. at \in [Attempts -> AttemptRecord] /\ FilesOK /\ RestOK /\ HandlesOpen(at, partial, installed)
    BY DEF DownloadInv, ShapeInv
<1>2. /\ Leaves(a, "refused") /\ at[a].pc = "starting" /\ claim' = claim \ {at[a].rom}
      /\ UNCHANGED <<token, entry, shown, partial, installed, recorded, removal, crossed>>
    BY DEF RefuseStart, told, files
<1>3. /\ at' \in [Attempts -> AttemptRecord]
      /\ Moved(at, at', a, "refused")
      /\ \A b \in Attempts : at'[b].fd \in {"none", at[b].fd}
    BY <1>1, <1>2, LeavesKeeps DEF Over
<1>4. HandlesOpen(at, partial, installed)'
    BY <1>1, <1>2, <1>3, HandlesKept DEF Moved
<1>5. ShapeInv'
    BY <1>1, <1>2, <1>3, <1>4 DEF ShapeInv, FilesOK, RestOK
<1>6. ClaimInv'
  <2>1. \A b \in Attempts : /\ at'[b].rom = at[b].rom
                            /\ b # a => at'[b].pc = at[b].pc
                            /\ at'[b].pc = "starting" => at[b].pc = "starting" /\ b # a
      BY <1>3 DEF Moved
  <2>2. \A q \in Roms : token[q] # a
      BY <1>2 DEF DownloadInv, ClaimInv, Live
  <2>3. \A q \in Roms, b \in Attempts :
            token'[q] = b => at'[b].rom = q /\ at'[b].pc \in Live \cup {"stranded"}
      BY <1>2, <2>1, <2>2 DEF DownloadInv, ClaimInv
  <2>4. \A b \in Attempts :
            at'[b].pc = "starting" /\ at'[b].rom \notin crossed'
              => at'[b].rom \in claim' /\ token'[at'[b].rom] = None
      BY <1>2, <2>1 DEF DownloadInv, ClaimInv
  <2>5. \A b, c \in Attempts :
            /\ at'[b].pc = "starting" /\ at'[c].pc = "starting"
            /\ at'[b].rom = at'[c].rom /\ at'[b].rom \notin crossed'
            => b = c
      BY <1>2, <2>1 DEF DownloadInv, ClaimInv
  <2>6. \A q \in Roms \ crossed' : token'[q] # None => q \in claim'
      BY <1>2 DEF DownloadInv, ClaimInv
  <2> QED BY <2>3, <2>4, <2>5, <2>6 DEF ClaimInv
<1>7. EntryInv'
    BY <1>2, <1>3, EntryMoves DEF DownloadInv, Unsettled, AtWorkPcs
<1> QED BY <1>5, <1>6, <1>7 DEF DownloadInv

\* The start that is admitted registers its attempt.
LEMMA AdmitKeeps ==
    ASSUME DownloadInv, NEW a \in Attempts, Admit(a)
    PROVE  DownloadInv'
<1>1. at \in [Attempts -> AttemptRecord] /\ FilesOK /\ RestOK /\ HandlesOpen(at, partial, installed)
    BY DEF DownloadInv, ShapeInv
<1>2. /\ at[a].pc = "starting" /\ at' = [at EXCEPT ![a] = [at[a] EXCEPT !.pc = "spawned"]]
      /\ entry' = [entry EXCEPT ![at[a].rom] = "queued"]
      /\ token' = [token EXCEPT ![at[a].rom] = a]
      /\ UNCHANGED <<claim, shown, partial, installed, recorded, removal, crossed>>
    BY DEF Admit, files
<1>3. /\ at[a] \in AttemptRecord /\ at[a].rom \in Roms
      /\ [at[a] EXCEPT !.pc = "spawned"] \in AttemptRecord
      /\ [at[a] EXCEPT !.pc = "spawned"].pc = "spawned"
      /\ [at[a] EXCEPT !.pc = "spawned"].rom = at[a].rom
      /\ [at[a] EXCEPT !.pc = "spawned"].fd = at[a].fd
  <2>1. at[a] \in AttemptRecord
      BY <1>1
  <2>2. at[a].rom \in Roms
      BY <2>1 DEF AttemptFields, AttemptRecord
  <2> QED BY <2>1, <2>2, PcChanges DEF Live
<1>4. /\ at' \in [Attempts -> AttemptRecord]
      /\ Moved(at, at', a, "spawned")
      /\ \A b \in Attempts : at'[b].fd \in {"none", at[b].fd}
    BY <1>1, <1>2, <1>3, OneChanges DEF Moved
<1>5. HandlesOpen(at, partial, installed)'
    BY <1>1, <1>2, <1>4, HandlesKept DEF Moved
<1>6. ShapeInv'
    BY <1>1, <1>2, <1>3, <1>4, <1>5 DEF ShapeInv, FilesOK, RestOK, Statuses
<1>7. ClaimInv'
  <2>1. \A b \in Attempts : /\ at'[b].rom = at[b].rom
                            /\ b # a => at'[b].pc = at[b].pc
                            /\ at'[b].pc = "starting" => at[b].pc = "starting" /\ b # a
      BY <1>4 DEF Moved
  <2>2. \A q \in Roms : token'[q] = IF q = at[a].rom THEN a ELSE token[q]
      BY <1>1, <1>2 DEF RestOK
  <2>3. at[a].rom \notin crossed =>
            /\ at[a].rom \in claim
            /\ \A b \in Attempts \ {a} : at[b].pc = "starting" => at[b].rom # at[a].rom
      BY <1>2 DEF DownloadInv, ClaimInv
  <2>4. \A q \in Roms, b \in Attempts :
            token'[q] = b => at'[b].rom = q /\ at'[b].pc \in Live \cup {"stranded"}
    <3>1. at'[a].pc \in Live /\ \A q \in Roms : token[q] # a
        BY <1>2, <1>4 DEF DownloadInv, ClaimInv, Live, Moved
    <3> QED BY <2>1, <2>2, <3>1 DEF DownloadInv, ClaimInv
  <2>5. \A b \in Attempts :
            at'[b].pc = "starting" /\ at'[b].rom \notin crossed'
              => at'[b].rom \in claim' /\ token'[at'[b].rom] = None
    <3> SUFFICES ASSUME NEW b \in Attempts, at'[b].pc = "starting", at'[b].rom \notin crossed'
                 PROVE  at'[b].rom \in claim' /\ token'[at'[b].rom] = None
        OBVIOUS
    <3>1. at[b].pc = "starting" /\ b # a /\ at[b].rom \notin crossed /\ at[b].rom \in Roms
        BY <1>1, <1>2, <2>1 DEF AttemptFields, AttemptRecord
    <3>2. at[b].rom # at[a].rom
        BY <2>3, <3>1
    <3> QED BY <1>2, <2>1, <2>2, <3>1, <3>2 DEF DownloadInv, ClaimInv
  <2>6. \A b, c \in Attempts :
            /\ at'[b].pc = "starting" /\ at'[c].pc = "starting"
            /\ at'[b].rom = at'[c].rom /\ at'[b].rom \notin crossed'
            => b = c
      BY <1>2, <2>1 DEF DownloadInv, ClaimInv
  <2>7. \A q \in Roms \ crossed' : token'[q] # None => q \in claim'
      BY <1>2, <2>2, <2>3 DEF DownloadInv, ClaimInv
  <2> QED BY <2>4, <2>5, <2>6, <2>7 DEF ClaimInv
<1>8. EntryInv'
  <2>1. \A r \in Roms : r # at[a].rom => entry'[r] = entry[r]
      BY <1>1, <1>2 DEF RestOK
  <2> QED BY <1>4, <2>1, EntryMoves DEF DownloadInv, Unsettled, AtWorkPcs
<1> QED BY <1>6, <1>7, <1>8 DEF DownloadInv

-----------------------------------------------------------------------------
(* The ways a task step can go. *)

\* A task that goes on, its entry left or marked, keeps the invariant.
LEMMA GoesOnKeeps ==
    ASSUME DownloadInv, NEW a \in Attempts, NEW u \in AttemptRecord, u.pc \in Live,
           u.rom = at[a].rom, u.fd = at[a].fd, at[a].pc \in Live,
           at' = [at EXCEPT ![a] = u],
           entry' \in {entry} \cup {[entry EXCEPT ![at[a].rom] = e] : e \in Statuses},
           shown' \in {shown} \cup {[shown EXCEPT ![at[a].rom] = e] : e \in Statuses},
           u.pc \in AtWorkPcs \/ ~ShowsWork(entry'[at[a].rom]),
           UNCHANGED <<claim, token, partial, installed, recorded, removal, crossed>>
    PROVE  DownloadInv'
<1>1. at \in [Attempts -> AttemptRecord] /\ FilesOK /\ RestOK /\ HandlesOpen(at, partial, installed)
    BY DEF DownloadInv, ShapeInv
<1>2. /\ at' \in [Attempts -> AttemptRecord]
      /\ Moved(at, at', a, u.pc)
      /\ \A b \in Attempts : at'[b].fd \in {"none", at[b].fd}
    BY <1>1, OneChanges DEF Moved
<1>3. HandlesOpen(at, partial, installed)'
  <2>1. \A b \in Attempts : at'[b].rom = at[b].rom /\ (at'[b].pc = "unused" => at[b].pc = "unused")
      BY <1>2 DEF Moved, Live
  <2> QED BY <1>1, <1>2, <2>1, HandlesKept
<1>4. at[a].rom \in Roms
  <2>1. at[a] \in AttemptRecord
      BY <1>1
  <2> QED BY <2>1 DEF AttemptFields, AttemptRecord
<1>5. /\ entry' \in [Roms -> Statuses \cup {None}] /\ shown' \in [Roms -> Statuses \cup {None}]
      /\ \A r \in Roms : r # at[a].rom => entry'[r] = entry[r]
    BY <1>1, <1>4 DEF RestOK
<1>6. ShapeInv'
    BY <1>1, <1>2, <1>3, <1>5 DEF ShapeInv, FilesOK, RestOK
<1>7. ClaimInv'
    BY <1>1, <1>2, ClaimStays DEF DownloadInv
<1>8. EntryInv'
    BY <1>2, <1>5, EntryMoves DEF DownloadInv, Unsettled
<1> QED BY <1>6, <1>7, <1>8 DEF DownloadInv

\* A task that is over and released what it registered keeps the invariant, if
\* it was at its end, settled its entry, or is one of those that leave it.
LEMMA IsOverKeeps ==
    ASSUME DownloadInv, NEW a \in Attempts, NEW pc \in {"ended", "dropped"}, at[a].pc \in Live,
           Leaves(a, pc), Release(a),
           entry' \in {entry, [entry EXCEPT ![at[a].rom] = None]},
           pc = "dropped" \/ at[a].pc \notin AtWorkPcs,
           UNCHANGED <<shown, partial, installed, recorded, removal, crossed>>
    PROVE  DownloadInv'
<1>1. at \in [Attempts -> AttemptRecord] /\ FilesOK /\ RestOK /\ HandlesOpen(at, partial, installed)
    BY DEF DownloadInv, ShapeInv
<1>2. /\ at' \in [Attempts -> AttemptRecord]
      /\ Moved(at, at', a, pc)
      /\ \A b \in Attempts : at'[b].fd \in {"none", at[b].fd}
    BY <1>1, LeavesKeeps DEF Over
<1>3. HandlesOpen(at, partial, installed)'
  <2>1. \A b \in Attempts : at'[b].rom = at[b].rom /\ (at'[b].pc = "unused" => at[b].pc = "unused")
      BY <1>2 DEF Moved
  <2> QED BY <1>1, <1>2, <2>1, HandlesKept
<1>4. at[a].rom \in Roms
  <2>1. at[a] \in AttemptRecord
      BY <1>1
  <2> QED BY <2>1 DEF AttemptFields, AttemptRecord
<1>5. /\ entry' \in [Roms -> Statuses \cup {None}]
      /\ \A r \in Roms : entry'[r] = entry[r] \/ entry'[r] = None
    BY <1>1, <1>4 DEF RestOK
<1>6. claim' \subseteq Roms /\ token' \in [Roms -> Attempts \cup {None}]
    BY <1>1, <1>4 DEF RestOK, Release
<1>7. ShapeInv'
    BY <1>1, <1>2, <1>3, <1>5, <1>6 DEF ShapeInv, FilesOK, RestOK
<1>8. ClaimInv'
    BY <1>1, <1>2, <1>4, ClaimReleases DEF DownloadInv, Over
<1>9. EntryInv'
  <2>1. \A r \in Roms : ShowsWork(entry'[r]) => ShowsWork(entry[r])
    <3>1. ~ShowsWork(None)
        BY DownloadsAssumption DEF ShowsWork
    <3> QED BY <1>5, <3>1 DEF ShowsWork
  <2>2. pc \in Unsettled \/ at[a].pc \notin Unsettled
      BY DEF Unsettled, Live
  <2> QED BY <1>2, <1>4, <2>1, <2>2, EntryMoves DEF DownloadInv
<1> QED BY <1>7, <1>8, <1>9 DEF DownloadInv

\* The handler of a task whose entry was cleared raises.
LEMMA DropsKeeps ==
    ASSUME DownloadInv, NEW a \in Attempts, at[a].pc \in Live, Drops(a), UNCHANGED <<removal, crossed>>
    PROVE  DownloadInv'
BY IsOverKeeps DEF Drops, files

\* A fresh status marks the entry of a task's own game.
LEMMA MarksKeeps ==
    ASSUME DownloadInv, NEW a \in Attempts, NEW e \in Statuses, Marks(a, e)
    PROVE  /\ entry' = [entry EXCEPT ![at[a].rom] = e]
           /\ shown' = [shown EXCEPT ![at[a].rom] = e]
           /\ at[a].rom \in Roms
           /\ entry'[at[a].rom] = e
<1>1. at[a].rom \in Roms
  <2>1. at[a] \in AttemptRecord
      BY DEF DownloadInv, ShapeInv
  <2> QED BY <2>1 DEF AttemptFields, AttemptRecord
<1> QED BY <1>1 DEF Marks, DownloadInv, ShapeInv, RestOK

\* An attempt at the place pc with its end decided and no stop unanswered.
Settled(q, pc, end) == [q EXCEPT !.pc = pc, !.end = end, !.sig = FALSE]

LEMMA SettledRecord ==
    \A q \in AttemptRecord, pc \in {"telling", "finishing"}, e \in Ended \cup {"paused"} :
        /\ Settled(q, pc, e) \in AttemptRecord
        /\ Settled(q, pc, e).pc = pc
        /\ Settled(q, pc, e).rom = q.rom
        /\ Settled(q, pc, e).fd = q.fd
<1> SUFFICES ASSUME NEW q \in AttemptRecord, NEW pc \in {"telling", "finishing"},
                    NEW e \in Ended \cup {"paused"}
             PROVE  /\ Settled(q, pc, e) \in AttemptRecord
                    /\ Settled(q, pc, e).pc = pc
                    /\ Settled(q, pc, e).rom = q.rom
                    /\ Settled(q, pc, e).fd = q.fd
    OBVIOUS
<1>1. pc \in Live
    BY DEF Live
<1> QED BY <1>1 DEF Settled, AttemptFields, AttemptRecord

\* A removed partial file turns the handles on it into handles on nothing, and
\* a task that settles its entry with it keeps the invariant.
LEMMA ClearsPartialKeeps ==
    ASSUME DownloadInv, NEW a \in Attempts, NEW u \in AttemptRecord, at[a].pc \in Live,
           u.pc = "telling", u.rom = at[a].rom, u.fd = at[a].fd,
           at' = Follows([at EXCEPT ![a] = u], at[a].rom, "partial", "orphan"),
           partial' = [partial EXCEPT ![at[a].rom] = NoFile],
           NEW e \in Ended, Marks(a, e),
           UNCHANGED <<claim, token, installed, recorded, removal, crossed>>
    PROVE  DownloadInv'
<1>1. at \in [Attempts -> AttemptRecord] /\ FilesOK /\ RestOK /\ HandlesOpen(at, partial, installed)
    BY DEF DownloadInv, ShapeInv
<1>2. /\ entry' = [entry EXCEPT ![at[a].rom] = e] /\ shown' = [shown EXCEPT ![at[a].rom] = e]
      /\ at[a].rom \in Roms /\ entry'[at[a].rom] = e
    BY MarksKeeps DEF Statuses
<1> DEFINE s == [at EXCEPT ![a] = u]
<1>3. s \in [Attempts -> AttemptRecord] /\ s[a] = u /\ \A b \in Attempts \ {a} : s[b] = at[b]
    BY <1>1
<1> HIDE DEF s
<1>4. /\ at' \in [Attempts -> AttemptRecord]
      /\ \A b \in Attempts : at'[b].pc = s[b].pc /\ at'[b].rom = s[b].rom
      /\ \A b \in Attempts :
            at'[b].fd = IF s[b].rom = at[a].rom /\ s[b].fd = "partial" THEN "orphan" ELSE s[b].fd
  <2>1. at' = Follows(s, at[a].rom, "partial", "orphan")
      BY DEF s
  <2> DEFINE r == at[a].rom
             t == Follows(s, r, "partial", "orphan")
  <2>2. /\ t \in [Attempts -> AttemptRecord]
        /\ Still(s, t)
        /\ \A b \in Attempts :
              t[b].fd = IF s[b].rom = r /\ s[b].fd = "partial" THEN "orphan" ELSE s[b].fd
    <3> HIDE DEF r
    <3> QED BY <1>3, FollowsKeeps
  <2>3. at' = t
      BY <2>1
  <2> HIDE DEF t
  <2> QED BY <2>2, <2>3 DEF Still
<1>5. /\ Moved(at, at', a, "telling")
      /\ \A b \in Attempts :
            at'[b].fd = IF at[b].rom = at[a].rom /\ at[b].fd = "partial" THEN "orphan" ELSE at[b].fd
    BY <1>3, <1>4 DEF Moved
<1>6. \A r \in Roms : partial'[r] = IF r = at[a].rom THEN NoFile ELSE partial[r]
    BY <1>1 DEF FilesOK
<1>7. HandlesOpen(at, partial, installed)'
  <2> SUFFICES ASSUME NEW b \in Attempts
               PROVE  /\ at'[b].fd = "partial" => partial'[at'[b].rom] # NoFile
                      /\ at'[b].fd = "installed" => installed'[at'[b].rom] # NoFile
                      /\ at'[b].pc = "unused" => at'[b].fd = "none"
      BY DEF HandlesOpen
  <2>1. at[b].rom \in Roms /\ at'[b].rom = at[b].rom /\ (at'[b].pc = "unused" => at[b].pc = "unused")
    <3>1. at[b] \in AttemptRecord
        BY <1>1
    <3> QED BY <1>5, <3>1 DEF AttemptFields, AttemptRecord, Moved
  <2>2. at'[b].fd = "partial" => partial'[at'[b].rom] # NoFile
    <3> SUFFICES ASSUME at'[b].fd = "partial" PROVE partial'[at[b].rom] # NoFile
        BY <2>1
    <3>1. at[b].fd = "partial" /\ at[b].rom # at[a].rom
        BY <1>5
    <3>2. partial[at[b].rom] # NoFile
        BY <1>1, <3>1 DEF HandlesOpen
    <3> QED BY <1>6, <2>1, <3>1, <3>2
  <2>3. at'[b].fd = "installed" => installed'[at'[b].rom] # NoFile
      BY <1>1, <1>5, <2>1 DEF HandlesOpen
  <2>4. at'[b].pc = "unused" => at'[b].fd = "none"
      BY <1>1, <1>5, <2>1 DEF HandlesOpen
  <2> QED BY <2>2, <2>3, <2>4
<1>8. ShapeInv'
    BY <1>1, <1>2, <1>4, <1>7 DEF ShapeInv, FilesOK, RestOK, Contents, Statuses
<1>9. ClaimInv'
    BY <1>1, <1>5, ClaimStays DEF DownloadInv, Live
<1>10. EntryInv'
  <2>1. ~ShowsWork(e) /\ \A r \in Roms : r # at[a].rom => entry'[r] = entry[r]
      BY <1>1, <1>2 DEF ShowsWork, Ended, RestOK
  <2> QED BY <1>2, <1>5, <2>1, EntryMoves DEF DownloadInv
<1> QED BY <1>8, <1>9, <1>10 DEF DownloadInv

\* The terminal handler of a stop: dropped, paused, or cancelled.
LEMMA HandleStopKeeps ==
    ASSUME DownloadInv, NEW a \in Attempts, at[a].pc \in Live, HandleStop(a), UNCHANGED <<removal, crossed>>
    PROVE  DownloadInv'
<1> DEFINE end == IF at[a].stop = "paused" THEN "paused" ELSE "cancelled"
           u == Settled(at[a], "telling", end)
<1>1. end \in Ended \cup {"paused"} /\ end \in Statuses /\ ~ShowsWork(end)
    BY DEF Ended, Statuses, ShowsWork
<1>2. at[a] \in AttemptRecord
    BY DEF DownloadInv, ShapeInv
<1>3. u \in AttemptRecord /\ u.pc = "telling" /\ u.rom = at[a].rom /\ u.fd = at[a].fd
  <2> HIDE DEF end
  <2> QED BY <1>1, <1>2, SettledRecord
<1>4. [at EXCEPT ![a].pc = "telling", ![a].end = end, ![a].sig = FALSE] = [at EXCEPT ![a] = u]
    BY <1>2 DEF AttemptFields, AttemptRecord, Settled
<1> HIDE DEF u
<1>5. CASE Drops(a)
    BY <1>5, DropsKeeps
<1>6. CASE Marks(a, end) /\ end = "paused" /\ at' = [at EXCEPT ![a] = u]
           /\ UNCHANGED <<partial, claim, token, installed, recorded>>
  <2>1. /\ entry' = [entry EXCEPT ![at[a].rom] = end] /\ shown' = [shown EXCEPT ![at[a].rom] = end]
        /\ entry'[at[a].rom] = end
      BY <1>1, <1>6, MarksKeeps
  <2>2. entry' \in {[entry EXCEPT ![at[a].rom] = e] : e \in Statuses}
        /\ shown' \in {[shown EXCEPT ![at[a].rom] = e] : e \in Statuses}
      BY <1>1, <2>1
  <2> QED BY <1>1, <1>3, <1>6, <2>1, <2>2, GoesOnKeeps DEF Live
<1>7. CASE /\ Marks(a, end) /\ end = "cancelled"
           /\ at' = Follows([at EXCEPT ![a] = u], at[a].rom, "partial", "orphan")
           /\ partial' = [partial EXCEPT ![at[a].rom] = NoFile]
           /\ UNCHANGED <<claim, token, installed, recorded>>
  <2>1. end \in Ended
      BY <1>7 DEF Ended
  <2> QED BY <1>3, <1>7, <2>1, ClearsPartialKeeps
<1> QED BY <1>4, <1>5, <1>6, <1>7 DEF HandleStop

\* A completed download is told, and its task goes on to its end.
LEMMA MarkCompletedKeeps ==
    ASSUME DownloadInv, NEW a \in Attempts, NEW pc \in {"telling", "finishing"},
           at[a].pc \in Live, MarkCompleted(a, pc), UNCHANGED <<removal, crossed>>
    PROVE  DownloadInv'
<1> DEFINE u == Settled(at[a], pc, "completed")
<1>1. "completed" \in Ended /\ "completed" \in Statuses /\ ~ShowsWork("completed")
    BY DEF Ended, Statuses, ShowsWork
<1>2. at[a] \in AttemptRecord
    BY DEF DownloadInv, ShapeInv
<1>3. u \in AttemptRecord /\ u.pc = pc /\ u.rom = at[a].rom /\ u.fd = at[a].fd
    BY <1>1, <1>2, SettledRecord
<1>4. [at EXCEPT ![a].pc = pc, ![a].end = "completed", ![a].sig = FALSE] = [at EXCEPT ![a] = u]
    BY <1>2 DEF AttemptFields, AttemptRecord, Settled
<1> HIDE DEF u
<1>5. CASE Drops(a)
    BY <1>5, DropsKeeps
<1>6. CASE Marks(a, "completed") /\ at' = [at EXCEPT ![a] = u] /\ UNCHANGED <<claim, token, files>>
  <2>1. /\ entry' = [entry EXCEPT ![at[a].rom] = "completed"]
        /\ shown' = [shown EXCEPT ![at[a].rom] = "completed"]
        /\ entry'[at[a].rom] = "completed"
      BY <1>1, <1>6, MarksKeeps
  <2>2. entry' \in {[entry EXCEPT ![at[a].rom] = e] : e \in Statuses}
        /\ shown' \in {[shown EXCEPT ![at[a].rom] = e] : e \in Statuses}
      BY <1>1, <2>1
  <2> QED BY <1>1, <1>3, <1>6, <2>1, <2>2, GoesOnKeeps DEF Live, files
<1> QED BY <1>4, <1>5, <1>6 DEF MarkCompleted

-----------------------------------------------------------------------------
(* The steps of the task. *)

\* What a step that only moves the task needs.
LEMMA MovesKeep ==
    ASSUME DownloadInv, NEW a \in Attempts, NEW pc \in Live, at[a].pc \in Live,
           at' = [at EXCEPT ![a] = [at[a] EXCEPT !.pc = pc]],
           entry' \in {entry} \cup {[entry EXCEPT ![at[a].rom] = e] : e \in Statuses},
           shown' \in {shown} \cup {[shown EXCEPT ![at[a].rom] = e] : e \in Statuses},
           pc \in AtWorkPcs,
           UNCHANGED <<claim, token, partial, installed, recorded, removal, crossed>>
    PROVE  DownloadInv'
<1> DEFINE q == at[a]
           u == [q EXCEPT !.pc = pc]
<1>1. q \in AttemptRecord
    BY DEF DownloadInv, ShapeInv
<1>2. u \in AttemptRecord /\ u.pc = pc /\ u.rom = q.rom /\ u.fd = q.fd
  <2> HIDE DEF q
  <2> QED BY <1>1, PcChanges
<1>3. at' = [at EXCEPT ![a] = u]
    OBVIOUS
<1> HIDE DEF u
<1> QED BY <1>2, <1>3, GoesOnKeeps

LEMMA EnterKeeps ==
    ASSUME DownloadInv, NEW a \in Attempts, at[a].pc \in Live, Enter(a), UNCHANGED <<removal, crossed>>
    PROVE  DownloadInv'
<1>1. CASE Drops(a)
    BY <1>1, DropsKeeps
<1>2. CASE ~Drops(a)
  <2>1. "fetching" \in Live /\ "fetching" \in AtWorkPcs /\ "downloading" \in Statuses
      BY DEF Live, AtWorkPcs, Statuses
  <2> QED BY <1>2, <2>1, MovesKeep DEF Enter, files
<1> QED BY <1>1, <1>2

LEMMA BeginKeeps ==
    ASSUME DownloadInv, NEW a \in Attempts, Begin(a)
    PROVE  DownloadInv'
<1>1. at[a].pc \in Live /\ UNCHANGED <<removal, crossed>>
    BY DEF Begin, Live
<1>2. CASE Enter(a)
    BY <1>1, <1>2, EnterKeeps
<1>3. CASE Drops(a)
    BY <1>1, <1>3, DropsKeeps
<1>4. CASE Marks(a, "queued") /\ at' = [at EXCEPT ![a].pc = "waiting"] /\ UNCHANGED <<claim, token, files>>
  <2>1. "waiting" \in Live /\ "waiting" \in AtWorkPcs /\ "queued" \in Statuses
      BY DEF Live, AtWorkPcs, Statuses
  <2>2. entry' = [entry EXCEPT ![at[a].rom] = "queued"] /\ shown' = [shown EXCEPT ![at[a].rom] = "queued"]
      BY <1>4 DEF Marks
  <2> QED BY <1>1, <1>4, <2>1, <2>2, MovesKeep DEF files
<1> QED BY <1>2, <1>3, <1>4 DEF Begin

LEMMA AcquireKeeps ==
    ASSUME DownloadInv, NEW a \in Attempts, Acquire(a)
    PROVE  DownloadInv'
BY EnterKeeps DEF Acquire, Live

\* A stranded task leaves its claim and its entry as they are.
LEMMA StrandKeeps ==
    ASSUME DownloadInv, NEW a \in Attempts, Strand(a)
    PROVE  DownloadInv'
<1>1. at \in [Attempts -> AttemptRecord] /\ FilesOK /\ RestOK /\ HandlesOpen(at, partial, installed)
    BY DEF DownloadInv, ShapeInv
<1>2. /\ at[a].pc \in Live /\ Leaves(a, "stranded")
      /\ UNCHANGED <<claim, token, entry, shown, partial, installed, recorded, removal, crossed>>
    BY DEF Strand, Live, told, files
<1>3. /\ at' \in [Attempts -> AttemptRecord]
      /\ Moved(at, at', a, "stranded")
      /\ \A b \in Attempts : at'[b].fd \in {"none", at[b].fd}
    BY <1>1, <1>2, LeavesKeeps DEF Over
<1>4. HandlesOpen(at, partial, installed)'
  <2>1. \A b \in Attempts : at'[b].rom = at[b].rom /\ (at'[b].pc = "unused" => at[b].pc = "unused")
      BY <1>3 DEF Moved
  <2> QED BY <1>1, <1>2, <1>3, <2>1, HandlesKept
<1>5. ShapeInv'
    BY <1>1, <1>2, <1>3, <1>4 DEF ShapeInv, FilesOK, RestOK
<1>6. ClaimInv'
    BY <1>1, <1>2, <1>3, ClaimStays DEF DownloadInv
<1>7. EntryInv'
    BY <1>2, <1>3, EntryMoves DEF DownloadInv, Unsettled
<1> QED BY <1>5, <1>6, <1>7 DEF DownloadInv

\* The attempt may be put in place, or a stop waits for that.
LEMMA CommitKeeps ==
    ASSUME DownloadInv, NEW a \in Attempts, Commit(a)
    PROVE  DownloadInv'
<1> DEFINE q == [at[a] EXCEPT !.pc = "committing"]
           u == [q EXCEPT !.th = "placing"]
<1>1. at[a] \in AttemptRecord
    BY DEF DownloadInv, ShapeInv
<1>2. q \in AttemptRecord /\ q.pc = "committing" /\ q.rom = at[a].rom /\ q.fd = at[a].fd
    BY <1>1, PcChanges DEF Live
<1>3. at' = [at EXCEPT ![a] = u]
    BY DEF Commit
<1> HIDE DEF q
<1>4. u \in AttemptRecord /\ u.pc = "committing" /\ u.rom = at[a].rom /\ u.fd = at[a].fd
    BY <1>2, ThreadChanges
<1> HIDE DEF u
<1>5. "committing" \in Live /\ "committing" \in AtWorkPcs /\ at[a].pc \in Live
    BY DEF Live, AtWorkPcs, Commit
<1> QED BY <1>3, <1>4, <1>5, GoesOnKeeps DEF Commit, told, files

LEMMA StopCommitKeeps ==
    ASSUME DownloadInv, NEW a \in Attempts, StopCommit(a)
    PROVE  DownloadInv'
<1> DEFINE q == [at[a] EXCEPT !.pc = "settling"]
           u == [q EXCEPT !.sig = FALSE]
<1>1. at[a] \in AttemptRecord
    BY DEF DownloadInv, ShapeInv
<1>2. q \in AttemptRecord /\ q.pc = "settling" /\ q.rom = at[a].rom /\ q.fd = at[a].fd
    BY <1>1, PcChanges DEF Live
<1>3. at' = [at EXCEPT ![a] = u]
    BY DEF StopCommit
<1> HIDE DEF q
<1>4. u \in AttemptRecord /\ u.pc = "settling" /\ u.rom = at[a].rom /\ u.fd = at[a].fd
    BY <1>2, SigChanges
<1> HIDE DEF u
<1>5. "settling" \in Live /\ "settling" \in AtWorkPcs /\ at[a].pc \in Live
    BY DEF Live, AtWorkPcs, StopCommit
<1> QED BY <1>3, <1>4, <1>5, GoesOnKeeps DEF StopCommit, told, files

\* A stop, an end and a commit that failed settle the entry.
LEMMA StopTransferKeeps ==
    ASSUME DownloadInv, NEW a \in Attempts, StopTransfer(a)
    PROVE  DownloadInv'
BY HandleStopKeeps DEF StopTransfer, Live

LEMMA CompleteKeeps ==
    ASSUME DownloadInv, NEW a \in Attempts, Complete(a)
    PROVE  DownloadInv'
BY MarkCompletedKeeps DEF Complete, Live

LEMMA SettleKeeps ==
    ASSUME DownloadInv, NEW a \in Attempts, Settle(a)
    PROVE  DownloadInv'
BY MarkCompletedKeeps, HandleStopKeeps DEF Settle, Live

LEMMA StopFinishKeeps ==
    ASSUME DownloadInv, NEW a \in Attempts, StopFinish(a)
    PROVE  DownloadInv'
BY MarkCompletedKeeps DEF StopFinish, Live

LEMMA FailKeeps ==
    ASSUME DownloadInv, NEW a \in Attempts, Fail(a)
    PROVE  DownloadInv'
<1> DEFINE u == Settled(at[a], "telling", "failed")
<1>1. at[a] \in AttemptRecord /\ at[a].pc \in Live /\ UNCHANGED <<removal, crossed>>
    BY DEF DownloadInv, ShapeInv, Fail, Live
<1>2. u \in AttemptRecord /\ u.pc = "telling" /\ u.rom = at[a].rom /\ u.fd = at[a].fd
    BY <1>1, SettledRecord DEF Ended
<1>3. [at EXCEPT ![a].pc = "telling", ![a].end = "failed"] = [at EXCEPT ![a] = u]
  <2>1. at[a].sig = FALSE
      BY <1>1 DEF Fail, AttemptFields, AttemptRecord
  <2> QED BY <1>1, <2>1 DEF AttemptFields, AttemptRecord, Settled
<1> HIDE DEF u
<1>4. CASE Drops(a)
    BY <1>1, <1>4, DropsKeeps
<1>5. CASE ~Drops(a)
  <2>1. "failed" \in Ended
      BY DEF Ended
  <2> QED BY <1>1, <1>2, <1>3, <1>5, <2>1, ClearsPartialKeeps DEF Fail
<1> QED BY <1>4, <1>5

\* A task that is over gives back what it registered.
LEMMA EndKeeps ==
    ASSUME DownloadInv, NEW a \in Attempts, End(a)
    PROVE  DownloadInv'
<1>1. at[a].pc \in Live /\ at[a].pc \notin AtWorkPcs
    BY DEF End, Live, AtWorkPcs
<1>2. entry' \in {entry, [entry EXCEPT ![at[a].rom] = None]}
    BY DEF End
<1> QED BY <1>1, <1>2, IsOverKeeps DEF End, files

LEMMA InterruptKeeps ==
    ASSUME DownloadInv, NEW a \in Attempts, Interrupt(a)
    PROVE  DownloadInv'
<1> DEFINE pc == IF at[a].pc = "settling" \/ at[a].end = "cancelled" THEN "dropped" ELSE "ended"
<1>1. at[a].pc \in Live /\ pc \in {"ended", "dropped"} /\ Leaves(a, pc)
    BY DEF Interrupt, Live
<1>2. pc = "dropped" \/ at[a].pc \notin AtWorkPcs
    BY DEF Interrupt, AtWorkPcs
<1> HIDE DEF pc
<1> QED BY <1>1, <1>2, IsOverKeeps DEF Interrupt, told, files

LEMMA TaskStepKeeps ==
    ASSUME DownloadInv, NEW a \in Attempts, TaskStep(a)
    PROVE  DownloadInv'
BY BeginKeeps, AcquireKeeps, StrandKeeps, StopTransferKeeps, CommitKeeps, CompleteKeeps,
   StopCommitKeeps, SettleKeeps, StopFinishKeeps, FailKeeps, EndKeeps, InterruptKeeps DEF TaskStep

-----------------------------------------------------------------------------
(* The other calls, and the threads: the places of the attempts stay. *)

\* Where no attempt moves, the files and the handles decide.
LEMMA StillKeeps ==
    ASSUME DownloadInv, at' \in [Attempts -> AttemptRecord], Still(at, at'), FilesOK',
           HandlesOpen(at, partial, installed)', UNCHANGED <<claim, token>>,
           crossed \subseteq crossed', crossed' \subseteq Roms,
           entry' \in [Roms -> Statuses \cup {None}], shown' \in [Roms -> Statuses \cup {None}],
           \A r \in Roms : entry'[r] \in {entry[r], None},
           removal' \in [stage : {"idle", "files", "rows", "queue"}, of : SUBSET Roms,
                         evicts : SUBSET Roms, left : 0..MaxRemovals]
    PROVE  DownloadInv'
<1>1. ShapeInv'
    BY DEF DownloadInv, ShapeInv, RestOK
<1>2. ClaimInv'
    BY ClaimUntouched DEF DownloadInv
<1>3. EntryInv'
  <2>1. ~ShowsWork(None)
      BY DownloadsAssumption DEF ShowsWork
  <2>2. \A r \in Roms : ShowsWork(entry'[r]) => ShowsWork(entry[r])
      BY <2>1
  <2> QED BY <2>2, EntryUntouched DEF DownloadInv
<1> QED BY <1>1, <1>2, <1>3 DEF DownloadInv

\* The rest of the state where only the attempts and the files change.
LEMMA ThreadKeeps ==
    ASSUME DownloadInv, at' \in [Attempts -> AttemptRecord], Still(at, at'), FilesOK',
           HandlesOpen(at, partial, installed)', UNCHANGED <<claim, token, told, removal>>,
           crossed \subseteq crossed', crossed' \subseteq Roms
    PROVE  DownloadInv'
BY StillKeeps DEF DownloadInv, ShapeInv, RestOK, told

LEMMA StopKeeps ==
    ASSUME DownloadInv, NEW r \in Roms, NEW how \in {"cancelled", "paused"}, Stop(r, how)
    PROVE  DownloadInv'
<1> DEFINE a == token[r]
           stop == IF at[a].stop = "paused" THEN at[a].stop ELSE how
           q == [at[a] EXCEPT !.stop = stop]
           u == [q EXCEPT !.sig = TRUE]
<1>1. a \in Attempts /\ at[a] \in AttemptRecord
    BY DEF Stop, DownloadInv, ShapeInv, RestOK
<1>2. stop \in {"cancelled", "paused", None}
    OBVIOUS
<1>3. at' = [at EXCEPT ![a] = u]
    BY DEF Stop
<1> HIDE DEF stop, a
<1>4. q \in AttemptRecord /\ q.pc = at[a].pc /\ q.rom = at[a].rom /\ q.fd = at[a].fd
    BY <1>1, <1>2, StopChanges
<1> HIDE DEF q
<1>5. u \in AttemptRecord /\ u.pc = at[a].pc /\ u.rom = at[a].rom /\ u.fd = at[a].fd
    BY <1>4, SigChanges
<1> HIDE DEF u
<1>6. /\ at' \in [Attempts -> AttemptRecord] /\ Still(at, at')
      /\ \A b \in Attempts : at'[b].fd = at[b].fd
    BY <1>1, <1>3, <1>5 DEF Still, DownloadInv, ShapeInv
<1>7. UNCHANGED <<claim, token, told, files, removal, crossed>>
    BY DEF Stop
<1>8. HandlesOpen(at, partial, installed)'
    BY <1>6, <1>7 DEF HandlesOpen, Still, DownloadInv, ShapeInv, files
<1> QED BY <1>6, <1>7, <1>8, ThreadKeeps DEF DownloadInv, ShapeInv, FilesOK, RestOK, files

LEMMA CancelPausedKeeps ==
    ASSUME DownloadInv, NEW r \in Roms, CancelPaused(r)
    PROVE  DownloadInv'
<1>1. at \in [Attempts -> AttemptRecord] /\ FilesOK /\ RestOK /\ HandlesOpen(at, partial, installed)
    BY DEF DownloadInv, ShapeInv
<1>2. /\ at' \in [Attempts -> AttemptRecord]
      /\ Still(at, at')
      /\ \A b \in Attempts :
            at'[b].fd = IF at[b].rom = r /\ at[b].fd = "partial" THEN "orphan" ELSE at[b].fd
  <2> DEFINE t == Follows(at, r, "partial", "orphan")
  <2>1. /\ t \in [Attempts -> AttemptRecord]
        /\ Still(at, t)
        /\ \A b \in Attempts :
              t[b].fd = IF at[b].rom = r /\ at[b].fd = "partial" THEN "orphan" ELSE at[b].fd
      BY <1>1, FollowsKeeps
  <2>2. at' = t
      BY DEF CancelPaused
  <2> HIDE DEF t
  <2> QED BY <2>1, <2>2
<1>3. /\ partial' = [partial EXCEPT ![r] = NoFile]
      /\ entry' = [entry EXCEPT ![r] = None] /\ shown' = [shown EXCEPT ![r] = "cancelled"]
      /\ UNCHANGED <<claim, token, installed, recorded, removal, crossed>>
    BY DEF CancelPaused
<1>4. \A p \in Roms : partial'[p] = IF p = r THEN NoFile ELSE partial[p]
    BY <1>1, <1>3 DEF FilesOK
<1>5. HandlesOpen(at, partial, installed)'
  <2> SUFFICES ASSUME NEW b \in Attempts
               PROVE  /\ at'[b].fd = "partial" => partial'[at[b].rom] # NoFile
                      /\ at'[b].fd = "installed" => installed[at[b].rom] # NoFile
                      /\ at[b].pc = "unused" => at'[b].fd = "none"
      BY <1>2, <1>3 DEF HandlesOpen, Still
  <2>1. at[b].rom \in Roms
    <3>1. at[b] \in AttemptRecord
        BY <1>1
    <3> QED BY <3>1 DEF AttemptFields, AttemptRecord
  <2>2. at'[b].fd = "partial" => partial'[at[b].rom] # NoFile
    <3> SUFFICES ASSUME at'[b].fd = "partial" PROVE partial'[at[b].rom] # NoFile
        OBVIOUS
    <3>1. at[b].fd = "partial" /\ at[b].rom # r
        BY <1>2
    <3>2. partial[at[b].rom] # NoFile
        BY <1>1, <3>1 DEF HandlesOpen
    <3> QED BY <1>4, <2>1, <3>1, <3>2
  <2>3. at'[b].fd = "installed" => installed[at[b].rom] # NoFile
      BY <1>1, <1>2 DEF HandlesOpen
  <2>4. at[b].pc = "unused" => at'[b].fd = "none"
      BY <1>1, <1>2 DEF HandlesOpen
  <2> QED BY <2>2, <2>3, <2>4
<1>6. FilesOK'
    BY <1>1, <1>3 DEF FilesOK, Contents
<1>7. /\ entry' \in [Roms -> Statuses \cup {None}] /\ shown' \in [Roms -> Statuses \cup {None}]
      /\ \A p \in Roms : entry'[p] \in {entry[p], None}
    BY <1>1, <1>3 DEF RestOK, Statuses, Ended
<1> QED BY <1>1, <1>2, <1>3, <1>5, <1>6, <1>7, StillKeeps DEF RestOK

LEMMA ClearCompletedKeeps ==
    ASSUME DownloadInv, ClearCompleted
    PROVE  DownloadInv'
<1>1. at \in [Attempts -> AttemptRecord] /\ FilesOK /\ RestOK /\ HandlesOpen(at, partial, installed)
    BY DEF DownloadInv, ShapeInv
<1>2. UNCHANGED <<at, claim, token, shown, partial, installed, recorded, removal, crossed>>
    BY DEF ClearCompleted, files
<1>3. /\ entry' \in [Roms -> Statuses \cup {None}]
      /\ \A r \in Roms : entry'[r] \in {entry[r], None}
    BY <1>1 DEF ClearCompleted, RestOK
<1>4. Still(at, at') /\ FilesOK' /\ HandlesOpen(at, partial, installed)'
    BY <1>1, <1>2 DEF Still, FilesOK, HandlesOpen
<1> QED BY <1>1, <1>2, <1>3, <1>4, StillKeeps DEF RestOK

-----------------------------------------------------------------------------
(* The worker thread keeps the invariant. *)

\* The game of an attempt is a game.
LEMMA RomOfAttempt ==
    ASSUME DownloadInv, NEW a \in Attempts
    PROVE  at[a] \in AttemptRecord /\ at[a].rom \in Roms
<1>1. at[a] \in AttemptRecord
    BY DEF DownloadInv, ShapeInv
<1> QED BY <1>1 DEF AttemptFields, AttemptRecord

\* An attempt whose thread asks for what follows the first have blocks.
Asking(q, have) ==
    [q EXCEPT !.th = "asking", !.fd = "none", !.append = FALSE, !.nxt = 0, !.have = have]

LEMMA AskingRecord ==
    ASSUME NEW q \in AttemptRecord, NEW have \in Nat, q.pc # "unused"
    PROVE  /\ Asking(q, have) \in AttemptRecord
           /\ Asking(q, have).pc = q.pc /\ Asking(q, have).rom = q.rom
           /\ Asking(q, have).fd = "none"
<1>1. 0 \in 0..Blocks
    BY DownloadsAssumption
<1>2. ASSUME NEW r \in AttemptFields,
             NEW u, u = [r EXCEPT !.th = "asking", !.fd = "none", !.append = FALSE,
                                  !.nxt = 0, !.have = have]
      PROVE  u \in AttemptFields /\ u.pc = r.pc /\ u.rom = r.rom /\ u.fd = "none"
  <2>1. u = [pc |-> r.pc, rom |-> r.rom, resume |-> r.resume, sig |-> r.sig, stop |-> r.stop,
             end |-> r.end, th |-> "asking", have |-> have, nxt |-> 0, append |-> FALSE,
             fd |-> "none", tick |-> r.tick]
      BY <1>2 DEF AttemptFields
  <2> QED BY <1>1, <2>1 DEF AttemptFields
<1>3. q \in AttemptFields
    BY DEF AttemptRecord
<1> QED BY <1>2, <1>3 DEF AttemptRecord, Asking

LEMMA AsksKeeps ==
    ASSUME DownloadInv, NEW a \in Attempts, at[a].pc # "unused", Asks(a)
    PROVE  DownloadInv'
<1>1. at \in [Attempts -> AttemptRecord] /\ FilesOK /\ RestOK /\ HandlesOpen(at, partial, installed)
    BY DEF DownloadInv, ShapeInv
<1>2. at[a] \in AttemptRecord /\ at[a].rom \in Roms
    BY RomOfAttempt
<1> DEFINE have == IF at[a].resume THEN Size(at[a].rom) ELSE 0
           u == Asking(at[a], have)
<1>3. have \in Nat
  <2>1. partial[at[a].rom] # NoFile => partial[at[a].rom] \in Seq(0..Blocks)
      BY <1>1, <1>2 DEF FilesOK, Contents
  <2> QED BY <2>1 DEF Size
<1>4. at' = [at EXCEPT ![a] = u]
    BY <1>1, <1>2 DEF Asks, Asking, AttemptFields, AttemptRecord
<1>5. u \in AttemptRecord /\ u.pc = at[a].pc /\ u.rom = at[a].rom /\ u.fd = "none"
  <2> HIDE DEF have
  <2> QED BY <1>2, <1>3, AskingRecord
<1> HIDE DEF u
<1>6. /\ at' \in [Attempts -> AttemptRecord] /\ Still(at, at')
      /\ \A b \in Attempts : at'[b].fd \in {"none", at[b].fd}
    BY <1>1, <1>4, <1>5 DEF Still
<1>7. /\ UNCHANGED <<claim, token, told, files, removal>>
      /\ crossed \subseteq crossed' /\ crossed' \subseteq Roms
    BY <1>1, <1>2 DEF Asks, RestOK
<1>8. HandlesOpen(at, partial, installed)'
    BY <1>1, <1>6, <1>7, HandlesKept DEF Still, files
<1> QED BY <1>1, <1>6, <1>7, <1>8, ThreadKeeps DEF FilesOK, files

\* A file, empty or not, is not a missing one.
LEMMA NoFileIsNoSeq ==
    ASSUME NEW c \in Seq(0..Blocks)
    PROVE  c # NoFile
<1>1. 0..Blocks \subseteq Nat
    BY DownloadsAssumption
<1>2. c \in Seq(Nat)
    BY <1>1, SeqMonotonic
<1> QED BY <1>2, DownloadsAssumption

\* A file that is opened is there.
LEMMA OpenKeeps ==
    ASSUME DownloadInv, NEW a \in Attempts, at[a].th = "asking",
           NEW append \in BOOLEAN, NEW nxt \in 0..Blocks, NEW content \in Seq(0..Blocks),
           Open(a, append, nxt, content)
    PROVE  DownloadInv'
<1>1. at \in [Attempts -> AttemptRecord] /\ FilesOK /\ RestOK /\ HandlesOpen(at, partial, installed)
    BY DEF DownloadInv, ShapeInv
<1>2. at[a] \in AttemptRecord /\ at[a].rom \in Roms
    BY RomOfAttempt
<1> DEFINE q == at[a]
           u == [q EXCEPT !.th = "streaming", !.fd = "partial", !.have = 0,
                          !.append = append, !.nxt = nxt]
<1>3. at' = [at EXCEPT ![a] = u]
    BY <1>1, <1>2 DEF Open, AttemptFields, AttemptRecord
<1>4. u \in AttemptRecord /\ u.pc = at[a].pc /\ u.rom = at[a].rom /\ u.fd = "partial"
      /\ at[a].pc # "unused"
  <2>1. q \in AttemptFields /\ q.pc # "unused"
      BY <1>2 DEF AttemptRecord
  <2>2. ASSUME NEW r \in AttemptFields,
               NEW v, v = [r EXCEPT !.th = "streaming", !.fd = "partial", !.have = 0,
                                    !.append = append, !.nxt = nxt]
        PROVE  v \in AttemptFields /\ v.pc = r.pc /\ v.rom = r.rom /\ v.fd = "partial"
    <3>1. v = [pc |-> r.pc, rom |-> r.rom, resume |-> r.resume, sig |-> r.sig, stop |-> r.stop,
               end |-> r.end, th |-> "streaming", have |-> 0, nxt |-> nxt, append |-> append,
               fd |-> "partial", tick |-> r.tick]
        BY <2>2 DEF AttemptFields
    <3> QED BY <3>1 DEF AttemptFields
  <2> QED BY <2>1, <2>2 DEF AttemptRecord
<1> HIDE DEF u
<1>5. /\ at' \in [Attempts -> AttemptRecord] /\ Still(at, at')
      /\ at'[a] = u /\ \A b \in Attempts \ {a} : at'[b] = at[b]
    BY <1>1, <1>3, <1>4 DEF Still
<1>6. content # NoFile
    BY NoFileIsNoSeq
<1>7. /\ partial' = [partial EXCEPT ![at[a].rom] = content]
      /\ UNCHANGED <<claim, token, told, installed, recorded, removal, crossed>>
    BY DEF Open
<1>8. FilesOK' /\ \A r \in Roms : partial'[r] = IF r = at[a].rom THEN content ELSE partial[r]
    BY <1>1, <1>2, <1>7 DEF FilesOK, Contents
<1>9. HandlesOpen(at, partial, installed)'
  <2> SUFFICES ASSUME NEW b \in Attempts
               PROVE  /\ at'[b].fd = "partial" => partial'[at'[b].rom] # NoFile
                      /\ at'[b].fd = "installed" => installed'[at'[b].rom] # NoFile
                      /\ at'[b].pc = "unused" => at'[b].fd = "none"
      BY DEF HandlesOpen
  <2>1. CASE b = a
      BY <1>2, <1>4, <1>5, <1>6, <1>8, <2>1
  <2>2. CASE b # a
    <3>1. at'[b] = at[b] /\ at[b].rom \in Roms
        BY <1>5, <2>2, RomOfAttempt
    <3> QED BY <1>1, <1>6, <1>7, <1>8, <3>1 DEF HandlesOpen
  <2> QED BY <2>1, <2>2
<1> QED BY <1>1, <1>5, <1>7, <1>8, <1>9, ThreadKeeps DEF RestOK

LEMMA AnswerKeeps ==
    ASSUME DownloadInv, NEW a \in Attempts, AnswerPart(a) \/ AnswerWhole(a)
    PROVE  DownloadInv'
<1>1. at[a] \in AttemptRecord /\ at[a].rom \in Roms
    BY RomOfAttempt
<1>2. <<>> \in Seq(0..Blocks) /\ 1 \in 0..Blocks
    BY DownloadsAssumption
<1>3. CASE AnswerPart(a)
  <2> DEFINE c == IF partial[at[a].rom] = NoFile THEN <<>> ELSE partial[at[a].rom]
  <2>1. c \in Seq(0..Blocks)
      BY <1>1, <1>2 DEF DownloadInv, ShapeInv, FilesOK, Contents
  <2>2. at[a].have + 1 \in 0..Blocks
      BY <1>3, DownloadsAssumption DEF AnswerPart
  <2>3. at[a].th = "asking" /\ Open(a, TRUE, at[a].have + 1, c)
      BY <1>3 DEF AnswerPart
  <2> HIDE DEF c
  <2> QED BY <2>1, <2>2, <2>3, OpenKeeps
<1>4. CASE AnswerWhole(a)
    BY <1>2, <1>4, OpenKeeps DEF AnswerWhole
<1> QED BY <1>3, <1>4

\* A block goes into the file the handle is on, and the thread goes on or ends.
LEMMA WriteKeeps ==
    ASSUME DownloadInv, NEW a \in Attempts, Write(a)
    PROVE  DownloadInv'
<1>1. at \in [Attempts -> AttemptRecord] /\ FilesOK /\ RestOK /\ HandlesOpen(at, partial, installed)
    BY DEF DownloadInv, ShapeInv
<1>2. at[a] \in AttemptRecord /\ at[a].rom \in Roms /\ at[a].th = "streaming"
    BY RomOfAttempt DEF Write
<1> DEFINE q == [at[a] EXCEPT !.tick = TRUE]
           s == [at EXCEPT ![a] = q]
           n == at[a].nxt + 1
           v == [q EXCEPT !.nxt = n]
<1>3. q \in AttemptRecord /\ q.pc = at[a].pc /\ q.rom = at[a].rom /\ q.fd = at[a].fd
    BY <1>2, TickChanges
<1>4. q.th = "streaming" /\ q.nxt = at[a].nxt
    BY <1>2 DEF AttemptFields, AttemptRecord
<1>5. /\ at' \in [Attempts -> AttemptRecord] /\ Still(at, at')
      /\ \A b \in Attempts : at'[b].fd \in {"none", at[b].fd}
  <2>1. /\ s \in [Attempts -> AttemptRecord] /\ s[a] = q /\ Still(at, s)
        /\ \A b \in Attempts : s[b].fd = at[b].fd
    <3> HIDE DEF q
    <3> QED BY <1>1, <1>3 DEF Still
  <2>2. CASE at' = Closed(at, a, "aborted")
      BY <1>1, <1>2, <2>2, ClosedKeeps
  <2>3. CASE at' = Closed(s, a, "done")
    <3> HIDE DEF s, q
    <3>1. s[a].th # "none"
        BY <1>4, <2>1
    <3> DEFINE t == Closed(s, a, "done")
    <3>2. /\ t \in [Attempts -> AttemptRecord] /\ Still(s, t)
          /\ \A b \in Attempts : t[b].fd \in {"none", s[b].fd}
        BY <2>1, <3>1, ClosedKeeps
    <3>3. at' = t
        BY <2>3
    <3> HIDE DEF t
    <3> QED BY <2>1, <3>2, <3>3 DEF Still
  <2>4. CASE at[a].nxt < Blocks /\ at' = [s EXCEPT ![a].nxt = @ + 1]
    <3> HIDE DEF q
    <3>1. at' = [at EXCEPT ![a] = v]
        BY <1>1, <1>4, <2>1, <2>4
    <3>2. n \in 0..Blocks
      <4>1. at[a].nxt \in 0..Blocks
          BY <1>2 DEF AttemptFields, AttemptRecord
      <4> QED BY <2>4, <4>1, DownloadsAssumption
    <3>3. v \in AttemptRecord /\ v.pc = q.pc /\ v.rom = q.rom /\ v.fd = q.fd
      <4> HIDE DEF n
      <4> QED BY <1>3, <3>2 DEF AttemptFields, AttemptRecord
    <3> HIDE DEF v
    <3> QED BY <1>1, <1>3, <3>1, <3>3 DEF Still
  <2> QED BY <2>2, <2>3, <2>4 DEF Write
<1>6. /\ partial' = partial \/ (at[a].fd = "partial" /\ partial' = [partial EXCEPT ![at[a].rom] = Put(a, partial[at[a].rom])])
      /\ installed' = installed \/ (at[a].fd = "installed" /\ installed' = [installed EXCEPT ![at[a].rom] = Put(a, installed[at[a].rom])])
      /\ UNCHANGED <<claim, token, told, recorded, removal, crossed>>
    BY DEF Write
<1>7. /\ at[a].fd = "partial" => Put(a, partial[at[a].rom]) \in Seq(0..Blocks)
      /\ at[a].fd = "installed" => Put(a, installed[at[a].rom]) \in Seq(0..Blocks)
  <2>1. /\ at[a].fd = "partial" => partial[at[a].rom] \in Seq(0..Blocks)
        /\ at[a].fd = "installed" => installed[at[a].rom] \in Seq(0..Blocks)
      BY <1>1, <1>2 DEF FilesOK, Contents, HandlesOpen
  <2> QED BY <1>2, <2>1, PutKeeps
<1>8. /\ FilesOK'
      /\ \A r \in Roms : /\ partial[r] # NoFile => partial'[r] # NoFile
                         /\ installed[r] # NoFile => installed'[r] # NoFile
  <2>1. /\ at[a].fd = "partial" => Put(a, partial[at[a].rom]) # NoFile
        /\ at[a].fd = "installed" => Put(a, installed[at[a].rom]) # NoFile
      BY <1>7, NoFileIsNoSeq
  <2> QED BY <1>1, <1>2, <1>6, <1>7, <2>1 DEF FilesOK, Contents
<1>9. HandlesOpen(at, partial, installed)'
  <2> SUFFICES ASSUME NEW b \in Attempts
               PROVE  /\ at'[b].fd = "partial" => partial'[at'[b].rom] # NoFile
                      /\ at'[b].fd = "installed" => installed'[at'[b].rom] # NoFile
                      /\ at'[b].pc = "unused" => at'[b].fd = "none"
      BY DEF HandlesOpen
  <2>1. at[b].rom \in Roms /\ at'[b].rom = at[b].rom /\ at'[b].pc = at[b].pc
      BY <1>5, RomOfAttempt DEF Still
  <2> QED BY <1>1, <1>5, <1>8, <2>1 DEF HandlesOpen
<1> QED BY <1>1, <1>5, <1>6, <1>8, <1>9, ThreadKeeps DEF RestOK

\* A thread that closes its file, the files as they are.
LEMMA ClosesKeeps ==
    ASSUME DownloadInv, NEW a \in Attempts, at[a].th # "none",
           NEW th \in {"done", "aborted", "failed", "placed", "unplaced"},
           at' = Closed(at, a, th),
           UNCHANGED <<claim, token, told, partial, installed, removal, crossed>>,
           recorded' \subseteq Roms
    PROVE  DownloadInv'
<1>1. at \in [Attempts -> AttemptRecord] /\ FilesOK /\ RestOK /\ HandlesOpen(at, partial, installed)
    BY DEF DownloadInv, ShapeInv
<1>2. /\ at' \in [Attempts -> AttemptRecord] /\ Still(at, at')
      /\ \A b \in Attempts : at'[b].fd \in {"none", at[b].fd}
    BY <1>1, ClosedKeeps
<1>3. HandlesOpen(at, partial, installed)'
    BY <1>1, <1>2, HandlesKept DEF Still
<1> QED BY <1>1, <1>2, <1>3, ThreadKeeps DEF FilesOK, RestOK

\* The target is replaced by the partial file, and the handles go with them.
LEMMA RenameKeeps ==
    ASSUME DownloadInv, NEW a \in Attempts, Rename(a)
    PROVE  DownloadInv'
<1>1. at \in [Attempts -> AttemptRecord] /\ FilesOK /\ RestOK /\ HandlesOpen(at, partial, installed)
    BY DEF DownloadInv, ShapeInv
<1>2. at[a] \in AttemptRecord /\ at[a].rom \in Roms /\ at[a].th = "placing"
    BY RomOfAttempt DEF Rename
<1>3. CASE partial[at[a].rom] = NoFile
    BY <1>1, <1>2, <1>3, ClosesKeeps DEF Rename, files, FilesOK
<1>4. CASE partial[at[a].rom] # NoFile
  <2> DEFINE r == at[a].rom
             q == [at[a] EXCEPT !.th = "renamed"]
             s == [at EXCEPT ![a] = q]
             t == Follows(s, r, "installed", "orphan")
             w == Follows(t, r, "partial", "installed")
  <2>1. /\ at' = w
        /\ installed' = [installed EXCEPT ![r] = partial[r]]
        /\ partial' = [partial EXCEPT ![r] = NoFile]
        /\ UNCHANGED <<claim, token, told, recorded, removal, crossed>>
      BY <1>4 DEF Rename
  <2>2. q \in AttemptRecord /\ q.pc = at[a].pc /\ q.rom = at[a].rom /\ q.fd = at[a].fd
    <3>1. at[a].pc # "unused"
        BY <1>2 DEF AttemptRecord
    <3> QED BY <1>2, <3>1, ThreadChanges
  <2>3. /\ s \in [Attempts -> AttemptRecord] /\ Still(at, s)
        /\ \A b \in Attempts : s[b].fd = at[b].fd
    <3> HIDE DEF q
    <3> QED BY <1>1, <2>2 DEF Still
  <2> HIDE DEF s, r
  <2>4. /\ t \in [Attempts -> AttemptRecord] /\ Still(s, t)
        /\ \A b \in Attempts :
              t[b].fd = IF s[b].rom = r /\ s[b].fd = "installed" THEN "orphan" ELSE s[b].fd
      BY <2>3, FollowsKeeps
  <2> HIDE DEF t
  <2>5. /\ w \in [Attempts -> AttemptRecord] /\ Still(t, w)
        /\ \A b \in Attempts :
              w[b].fd = IF t[b].rom = r /\ t[b].fd = "partial" THEN "installed" ELSE t[b].fd
      BY <2>4, FollowsKeeps
  <2> HIDE DEF w
  <2>6. /\ at' \in [Attempts -> AttemptRecord] /\ Still(at, at')
        /\ \A b \in Attempts :
              at'[b].fd = IF at[b].rom # r THEN at[b].fd
                          ELSE IF at[b].fd = "installed" THEN "orphan"
                          ELSE IF at[b].fd = "partial" THEN "installed" ELSE at[b].fd
      BY <2>1, <2>3, <2>4, <2>5 DEF Still
  <2>7. /\ FilesOK'
        /\ \A p \in Roms : /\ partial'[p] = IF p = r THEN NoFile ELSE partial[p]
                           /\ installed'[p] = IF p = r THEN partial[r] ELSE installed[p]
      BY <1>1, <1>2, <2>1 DEF FilesOK, Contents, r
  <2>8. HandlesOpen(at, partial, installed)'
    <3> SUFFICES ASSUME NEW b \in Attempts
                 PROVE  /\ at'[b].fd = "partial" => partial'[at'[b].rom] # NoFile
                        /\ at'[b].fd = "installed" => installed'[at'[b].rom] # NoFile
                        /\ at'[b].pc = "unused" => at'[b].fd = "none"
        BY DEF HandlesOpen
    <3>1. at[b].rom \in Roms /\ at'[b].rom = at[b].rom /\ at'[b].pc = at[b].pc
        BY <2>6, RomOfAttempt DEF Still
    <3>2. CASE at[b].rom = r
        BY <1>1, <1>4, <2>6, <2>7, <3>1, <3>2 DEF HandlesOpen, r
    <3>3. CASE at[b].rom # r
        BY <1>1, <2>6, <2>7, <3>1, <3>3 DEF HandlesOpen
    <3> QED BY <3>2, <3>3
  <2> QED BY <1>1, <2>1, <2>6, <2>7, <2>8, ThreadKeeps DEF RestOK
<1> QED BY <1>3, <1>4

LEMMA RecordKeeps ==
    ASSUME DownloadInv, NEW a \in Attempts, Record(a)
    PROVE  DownloadInv'
<1>1. /\ at[a].th = "renamed" /\ at[a].rom \in Roms /\ recorded \subseteq Roms
      /\ at' = Closed(at, a, "placed") \/ at' = Closed(at, a, "unplaced")
      /\ recorded' \in {recorded, recorded \cup {at[a].rom}}
      /\ UNCHANGED <<claim, token, told, partial, installed, removal, crossed>>
    BY RomOfAttempt DEF Record, DownloadInv, ShapeInv, FilesOK
<1>2. at[a].th # "none" /\ recorded' \subseteq Roms
    BY <1>1
<1>3. CASE at' = Closed(at, a, "placed")
    BY <1>1, <1>2, <1>3, ClosesKeeps
<1>4. CASE at' = Closed(at, a, "unplaced")
    BY <1>1, <1>2, <1>4, ClosesKeeps
<1> QED BY <1>1, <1>3, <1>4

LEMMA GiveUpKeeps ==
    ASSUME DownloadInv, NEW a \in Attempts, GiveUp(a)
    PROVE  DownloadInv'
<1>1. at[a].th # "none" /\ recorded \subseteq Roms
    BY DEF GiveUp, DownloadInv, ShapeInv, FilesOK
<1> QED BY <1>1, ClosesKeeps DEF GiveUp, files

LEMMA TransferKeeps ==
    ASSUME DownloadInv, NEW a \in Attempts, Transfer(a)
    PROVE  DownloadInv'
<1>1. CASE Ask(a) \/ Retry(a)
  <2>1. at[a].pc # "unused" /\ Asks(a)
      BY <1>1, RomOfAttempt DEF Ask, Retry, AttemptRecord
  <2> QED BY <2>1, AsksKeeps
<1> QED BY <1>1, AnswerKeeps, WriteKeeps, GiveUpKeeps, RenameKeeps, RecordKeeps DEF Transfer

\* A late tick may tell, and changes no entry.
LEMMA ApplyTickKeeps ==
    ASSUME DownloadInv, NEW a \in Attempts, ApplyTick(a)
    PROVE  DownloadInv'
<1>1. at \in [Attempts -> AttemptRecord] /\ FilesOK /\ RestOK /\ HandlesOpen(at, partial, installed)
    BY DEF DownloadInv, ShapeInv
<1> DEFINE q == at[a]
           u == [q EXCEPT !.tick = FALSE]
<1>2. q \in AttemptRecord /\ q.rom \in Roms
    BY RomOfAttempt
<1>3. at' = [at EXCEPT ![a] = u]
    BY DEF ApplyTick
<1>4. u \in AttemptRecord /\ u.pc = q.pc /\ u.rom = q.rom /\ u.fd = q.fd
  <2> HIDE DEF q
  <2> QED BY <1>2, TickChanges
<1> HIDE DEF u
<1>5. /\ at' \in [Attempts -> AttemptRecord] /\ Still(at, at')
      /\ \A b \in Attempts : at'[b].fd = at[b].fd
    BY <1>1, <1>3, <1>4 DEF Still
<1>6. /\ UNCHANGED <<claim, token, entry, partial, installed, recorded, removal, crossed>>
      /\ shown' \in [Roms -> Statuses \cup {None}]
    BY <1>1, <1>2 DEF ApplyTick, files, RestOK, Statuses
<1>7. HandlesOpen(at, partial, installed)'
    BY <1>1, <1>5, <1>6, HandlesKept DEF Still
<1> QED BY <1>1, <1>5, <1>6, <1>7, StillKeeps DEF RestOK, FilesOK

-----------------------------------------------------------------------------
(* An uninstall keeps the invariant. *)

\* A step of an uninstall that leaves the files and the handles alone.
LEMMA RemovalKeeps ==
    ASSUME DownloadInv, UNCHANGED <<at, claim, token, shown, partial, installed, crossed>>,
           recorded' \subseteq Roms,
           entry' \in [Roms -> Statuses \cup {None}], \A r \in Roms : entry'[r] \in {entry[r], None},
           removal' \in [stage : {"idle", "files", "rows", "queue"}, of : SUBSET Roms,
                         evicts : SUBSET Roms, left : 0..MaxRemovals]
    PROVE  DownloadInv'
<1>1. at \in [Attempts -> AttemptRecord] /\ FilesOK /\ RestOK /\ HandlesOpen(at, partial, installed)
    BY DEF DownloadInv, ShapeInv
<1>2. Still(at, at') /\ FilesOK' /\ HandlesOpen(at, partial, installed)'
    BY <1>1 DEF Still, FilesOK, HandlesOpen
<1> QED BY <1>1, <1>2, StillKeeps DEF RestOK

LEMMA BeginRemovalKeeps ==
    ASSUME DownloadInv, (\E r \in Roms : RemoveRom(r)) \/ UninstallAllRoms
    PROVE  DownloadInv'
<1>1. FilesOK /\ RestOK
    BY DEF DownloadInv, ShapeInv
<1>2. PICK of \in SUBSET Roms, evicts \in SUBSET Roms : BeginRemoval(of, evicts)
    BY <1>1 DEF RemoveRom, UninstallAllRoms, FilesOK
<1>3. /\ UNCHANGED <<at, claim, token, entry, shown, partial, installed, recorded, crossed>>
      /\ removal' = [stage |-> "files", of |-> of, evicts |-> evicts, left |-> removal.left - 1]
      /\ removal.left \in 0..MaxRemovals /\ removal.left > 0
    BY <1>1, <1>2 DEF BeginRemoval, told, files, RestOK
<1>4. removal.left - 1 \in 0..MaxRemovals
    BY <1>3, DownloadsAssumption
<1> QED BY <1>1, <1>3, <1>4, RemovalKeeps DEF FilesOK, RestOK

\* The removed files' handles stay on what is no longer there.
LEMMA DeleteFilesKeeps ==
    ASSUME DownloadInv, DeleteFiles
    PROVE  DownloadInv'
<1>1. at \in [Attempts -> AttemptRecord] /\ FilesOK /\ RestOK /\ HandlesOpen(at, partial, installed)
    BY DEF DownloadInv, ShapeInv
<1>2. /\ at' \in [Attempts -> AttemptRecord] /\ Still(at, at')
      /\ \A b \in Attempts :
            at'[b].fd = IF at[b].rom \in removal.of /\ at[b].fd = "installed" THEN "orphan"
                        ELSE at[b].fd
  <2>1. \A b \in Attempts : at[b] \in AttemptRecord
      BY <1>1
  <2>2. \A q \in AttemptRecord : /\ [q EXCEPT !.fd = "orphan"] \in AttemptRecord
                                 /\ [q EXCEPT !.fd = "orphan"].pc = q.pc
                                 /\ [q EXCEPT !.fd = "orphan"].rom = q.rom
                                 /\ [q EXCEPT !.fd = "orphan"].fd = "orphan"
      BY DEF AttemptFields, AttemptRecord
  <2>3. \A b \in Attempts : /\ [at[b] EXCEPT !.fd = "orphan"] \in AttemptRecord
                            /\ [at[b] EXCEPT !.fd = "orphan"].pc = at[b].pc
                            /\ [at[b] EXCEPT !.fd = "orphan"].rom = at[b].rom
                            /\ [at[b] EXCEPT !.fd = "orphan"].fd = "orphan"
      BY <2>1, <2>2
  <2> QED BY <2>1, <2>3 DEF DeleteFiles, Still
<1>3. /\ UNCHANGED <<claim, token, told, partial, recorded, crossed>>
      /\ \A r \in Roms : installed'[r] = IF r \in removal.of THEN NoFile ELSE installed[r]
      /\ FilesOK'
    BY <1>1 DEF DeleteFiles, FilesOK, Contents
<1>4. removal' \in [stage : {"idle", "files", "rows", "queue"}, of : SUBSET Roms,
                    evicts : SUBSET Roms, left : 0..MaxRemovals]
    BY <1>1 DEF DeleteFiles, RestOK
<1>5. HandlesOpen(at, partial, installed)'
  <2> SUFFICES ASSUME NEW b \in Attempts
               PROVE  /\ at'[b].fd = "partial" => partial'[at'[b].rom] # NoFile
                      /\ at'[b].fd = "installed" => installed'[at'[b].rom] # NoFile
                      /\ at'[b].pc = "unused" => at'[b].fd = "none"
      BY DEF HandlesOpen
  <2>1. at[b].rom \in Roms /\ at'[b].rom = at[b].rom /\ at'[b].pc = at[b].pc
      BY <1>2, RomOfAttempt DEF Still
  <2> QED BY <1>1, <1>2, <1>3, <2>1 DEF HandlesOpen
<1> QED BY <1>1, <1>2, <1>3, <1>4, <1>5, StillKeeps DEF RestOK, told

LEMMA RemovalStepKeeps ==
    ASSUME DownloadInv, RemovalStep
    PROVE  DownloadInv'
<1>1. FilesOK /\ RestOK
    BY DEF DownloadInv, ShapeInv
<1>2. CASE DeleteFails
  <2>1. removal' \in [stage : {"idle", "files", "rows", "queue"}, of : SUBSET Roms,
                      evicts : SUBSET Roms, left : 0..MaxRemovals]
      BY <1>1, <1>2 DEF DeleteFails, RestOK
  <2> QED BY <1>1, <1>2, <2>1, RemovalKeeps DEF DeleteFails, told, files, FilesOK, RestOK
<1>3. CASE DropRows
  <2>1. removal' \in [stage : {"idle", "files", "rows", "queue"}, of : SUBSET Roms,
                      evicts : SUBSET Roms, left : 0..MaxRemovals]
      BY <1>1, <1>3 DEF DropRows, RestOK
  <2> QED BY <1>1, <1>3, <2>1, RemovalKeeps DEF DropRows, told, FilesOK, RestOK
<1>4. CASE Forget
  <2>1. removal' \in [stage : {"idle", "files", "rows", "queue"}, of : SUBSET Roms,
                      evicts : SUBSET Roms, left : 0..MaxRemovals]
      BY <1>1, <1>4 DEF Forget, RestOK
  <2>2. entry' \in [Roms -> Statuses \cup {None}] /\ \A r \in Roms : entry'[r] \in {entry[r], None}
      BY <1>1, <1>4 DEF Forget, RestOK
  <2> QED BY <1>1, <1>4, <2>1, <2>2, RemovalKeeps DEF Forget, files, FilesOK
<1> QED BY <1>2, <1>3, <1>4, DeleteFilesKeeps DEF RemovalStep

-----------------------------------------------------------------------------
(* The invariant, and what follows from it. *)

LEMMA InitIsGood == Init => DownloadInv
<1> SUFFICES ASSUME Init PROVE DownloadInv
    OBVIOUS
<1>1. Unused \in AttemptRecord /\ Unused.pc = "unused" /\ Unused.fd = "none"
  <2>1. (CHOOSE r \in Roms : TRUE) \in Roms
      BY DownloadsAssumption
  <2>2. 0 \in 0..Blocks
      BY DownloadsAssumption
  <2> QED BY <2>1, <2>2 DEF Unused, AttemptFields, AttemptRecord
<1> HIDE DEF Unused
<1>2. /\ at \in [Attempts -> AttemptRecord]
      /\ \A a \in Attempts : at[a].pc = "unused" /\ at[a].fd = "none"
    BY <1>1 DEF Init
<1>3. FilesOK /\ RestOK
    BY DownloadsAssumption DEF Init, FilesOK, RestOK, Contents
<1>4. ShapeInv
    BY <1>2, <1>3 DEF ShapeInv, HandlesOpen
<1>5. ClaimInv
  <2>1. \A r \in Roms : token[r] = None
      BY DEF Init
  <2> QED BY <1>2, <2>1, DownloadsAssumption DEF ClaimInv
<1>6. EntryInv
    BY DownloadsAssumption DEF Init, EntryInv, ShowsWork
<1> QED BY <1>4, <1>5, <1>6 DEF DownloadInv

LEMMA NextKeeps == DownloadInv /\ [Next]_vars => DownloadInv'
<1> SUFFICES ASSUME DownloadInv, [Next]_vars PROVE DownloadInv'
    OBVIOUS
<1>1. CASE UNCHANGED vars
    BY <1>1 DEF vars, DownloadInv, ShapeInv, FilesOK, RestOK, HandlesOpen, ClaimInv, EntryInv
<1>2. ASSUME NEW a \in Attempts, NEW r \in Roms, StartDownload(a, r) \/ ResumeDownload(a, r)
      PROVE  DownloadInv'
    BY <1>2, StartKeeps
<1>3. ASSUME NEW r \in Roms, NEW how \in {"cancelled", "paused"}, Stop(r, how)
      PROVE  DownloadInv'
    BY <1>3, StopKeeps
<1>4. ASSUME NEW r \in Roms, CancelPaused(r)
      PROVE  DownloadInv'
    BY <1>4, CancelPausedKeeps
<1>5. ASSUME NEW a \in Attempts, Answered(a) \/ TaskStep(a) \/ Transfer(a) \/ ApplyTick(a)
      PROVE  DownloadInv'
    BY <1>5, RefuseKeeps, AdmitKeeps, TaskStepKeeps, TransferKeeps, ApplyTickKeeps DEF Answered
<1>6. CASE ClearCompleted
    BY <1>6, ClearCompletedKeeps
<1>7. CASE (\E r \in Roms : RemoveRom(r)) \/ UninstallAllRoms
    BY <1>7, BeginRemovalKeeps
<1>8. CASE RemovalStep
    BY <1>8, RemovalStepKeeps
<1> QED BY <1>1, <1>2, <1>3, <1>4, <1>5, <1>6, <1>7, <1>8 DEF Next

LEMMA InvariantHolds == Spec => []DownloadInv
BY InitIsGood, NextKeeps, PTL DEF Spec

\* A registered download under way holds its game's claim, whatever was
\* paused, resumed, refused or cancelled (in_progress and control_tokens of
\* services/downloads/_state.py).
THEOREM ClaimIsHeld == Spec => []ClaimHeld
<1>1. DownloadInv => ClaimHeld
    BY DEF DownloadInv, ClaimInv, ClaimHeld
<1> QED BY <1>1, InvariantHolds, PTL

\* No queue entry shows work that no attempt does, or left unsettled by being
\* stranded or dropped (the entries of services/downloads/queue.py).
THEOREM EntriesAreWorked == Spec => []EntryIsWorked
<1>1. DownloadInv => EntryIsWorked
    BY DEF DownloadInv, EntryInv, EntryIsWorked, ShowsWork, Unsettled, AtWorkPcs, Live, Gone
<1> QED BY <1>1, InvariantHolds, PTL

-----------------------------------------------------------------------------
(* Who gives a registered download back. *)

\* The ways a task step can change what is registered.
Releases == \E a \in Attempts, pc \in {"ended", "dropped"} : Leaves(a, pc) /\ Release(a)

LEMMA DropsRelease ==
    ASSUME NEW a \in Attempts, Drops(a)
    PROVE  Releases
BY DEF Drops, Releases

LEMMA TaskStepReleases ==
    ASSUME NEW a \in Attempts, TaskStep(a)
    PROVE  UNCHANGED token \/ Releases
<1>1. CASE Drops(a)
    BY <1>1, DropsRelease
<1>2. CASE ~Drops(a)
  <2>1. HandleStop(a) => UNCHANGED token
      BY <1>2 DEF HandleStop
  <2>2. \A pc \in {"telling", "finishing"} : MarkCompleted(a, pc) => UNCHANGED token
      BY <1>2 DEF MarkCompleted
  <2>3. Enter(a) => UNCHANGED token
      BY <1>2 DEF Enter
  <2>4. CASE Begin(a) \/ Acquire(a)
      BY <1>2, <2>3, <2>4 DEF Begin, Acquire
  <2>5. CASE Strand(a) \/ Commit(a) \/ StopCommit(a)
      BY <2>5 DEF Strand, Commit, StopCommit
  <2>6. CASE StopTransfer(a) \/ Settle(a) \/ Complete(a) \/ StopFinish(a)
      BY <2>1, <2>2, <2>6 DEF StopTransfer, Settle, Complete, StopFinish
  <2>7. CASE Fail(a)
      BY <1>2, <2>7 DEF Fail
  <2>8. CASE End(a)
      BY <2>8 DEF End, Releases
  <2>9. CASE Interrupt(a)
    <3>1. PICK pc \in {"ended", "dropped"} : Leaves(a, pc)
        BY <2>9 DEF Interrupt
    <3> QED BY <2>9, <3>1 DEF Interrupt, Releases
  <2> QED BY <2>4, <2>5, <2>6, <2>7, <2>8, <2>9 DEF TaskStep
<1> QED BY <1>1, <1>2

LEMMA NextReleases ==
    ASSUME [Next]_vars
    PROVE  UNCHANGED token \/ Releases \/ \E a \in Attempts : Admit(a)
<1>1. CASE UNCHANGED vars
    BY <1>1 DEF vars
<1>2. ASSUME NEW a \in Attempts, NEW r \in Roms, StartDownload(a, r) \/ ResumeDownload(a, r)
      PROVE  UNCHANGED token
    BY <1>2 DEF StartDownload, ResumeDownload
<1>3. ASSUME NEW r \in Roms, NEW how \in {"cancelled", "paused"}, Stop(r, how)
      PROVE  UNCHANGED token
    BY <1>3 DEF Stop
<1>4. ASSUME NEW r \in Roms, CancelPaused(r)
      PROVE  UNCHANGED token
    BY <1>4 DEF CancelPaused
<1>5. ASSUME NEW a \in Attempts, Answered(a) \/ TaskStep(a) \/ Transfer(a) \/ ApplyTick(a)
      PROVE  UNCHANGED token \/ Releases \/ Admit(a)
  <2>1. Transfer(a) \/ ApplyTick(a) => UNCHANGED token
      BY DEF Transfer, ApplyTick, Ask, Retry, Asks, AnswerPart, AnswerWhole, Open, Write, GiveUp,
             Rename, Record
  <2>2. RefuseStart(a) => UNCHANGED token
      BY DEF RefuseStart
  <2> QED BY <1>5, <2>1, <2>2, TaskStepReleases DEF Answered
<1>6. CASE ClearCompleted
    BY <1>6 DEF ClearCompleted
<1>7. CASE (\E r \in Roms : RemoveRom(r)) \/ UninstallAllRoms
    BY <1>7 DEF RemoveRom, UninstallAllRoms, BeginRemoval
<1>8. CASE RemovalStep
    BY <1>8 DEF RemovalStep, DeleteFiles, DeleteFails, DropRows, Forget
<1> QED BY <1>1, <1>2, <1>3, <1>4, <1>5, <1>6, <1>7, <1>8 DEF Next

\* Only the attempt that registered a download releases it, at its own end;
\* another may only register in its place (_release_claim and admission of
\* services/downloads/service.py).
THEOREM OwnersRelease == Spec => OnlyOwnerReleases
<1> DEFINE Kept ==
        \A r \in Roms, a \in Attempts :
          token[r] = a /\ token'[r] # a =>
              \/ at'[a].pc \in {"ended", "dropped"} /\ token'[r] = None
              \/ token'[r] # None /\ at'[token'[r]].pc = "spawned"
                                 /\ at[token'[r]].pc = "starting"
<1>1. DownloadInv /\ [Next]_vars => Kept
  <2> SUFFICES ASSUME DownloadInv, [Next]_vars PROVE Kept
      OBVIOUS
  <2>1. at \in [Attempts -> AttemptRecord] /\ token \in [Roms -> Attempts \cup {None}]
      BY DEF DownloadInv, ShapeInv, RestOK
  <2>2. CASE UNCHANGED token
      BY <2>2
  <2>3. CASE Releases
    <3>1. PICK b \in Attempts, pc \in {"ended", "dropped"} : Leaves(b, pc) /\ Release(b)
        BY <2>3 DEF Releases
    <3>2. at'[b].pc = pc /\ at[b].rom \in Roms
        BY <2>1, <3>1, LeavesKeeps, RomOfAttempt DEF Moved, Over
    <3>3. token' \in {token, [token EXCEPT ![at[b].rom] = None]}
          /\ (token' # token => token[at[b].rom] = b)
        BY <3>1 DEF Release
    <3> QED BY <2>1, <3>2, <3>3
  <2>4. CASE \E a \in Attempts : Admit(a)
    <3>1. PICK b \in Attempts : Admit(b)
        BY <2>4
    <3>2. /\ at[b].pc = "starting" /\ at'[b].pc = "spawned" /\ at[b].rom \in Roms
          /\ token' = [token EXCEPT ![at[b].rom] = b]
      <4>1. at[b] \in AttemptRecord /\ at[b].rom \in Roms
          BY RomOfAttempt
      <4>2. at' = [at EXCEPT ![b] = [at[b] EXCEPT !.pc = "spawned"]]
          BY <3>1 DEF Admit
      <4>3. [at[b] EXCEPT !.pc = "spawned"].pc = "spawned"
          BY <4>1, PcChanges DEF Live
      <4> QED BY <2>1, <3>1, <4>1, <4>2, <4>3 DEF Admit
    <3> QED BY <2>1, <3>2, DownloadsAssumption
  <2> QED BY <2>2, <2>3, <2>4, NextReleases
<1> QED BY <1>1, InvariantHolds, PTL DEF Spec, OnlyOwnerReleases

-----------------------------------------------------------------------------
(* What the steps do to the threads. *)

\* The thread of an attempt is where it was.
Alike(q, u) == u.rom = q.rom /\ u.th = q.th /\ u.nxt = q.nxt

\* Its handle is, too, unless the file under it went.
HandleFollows(q, u, p) ==
    \/ u.fd = q.fd
    \/ q.fd = "partial" /\ u.fd = "orphan" /\ p[q.rom] = NoFile
    \/ q.fd = "installed" /\ u.fd = "orphan"

Stays(b) == Alike(at[b], at'[b]) /\ HandleFollows(at[b], at'[b], partial')

\* Its thread was over, and nothing of it is left.
Rests(b) == at'[b].rom = at[b].rom /\ at'[b].th = "none" /\ at'[b].fd = "none"

OthersStay(a) == \A b \in Attempts \ {a} : at'[b].pc = at[b].pc /\ Stays(b)

AllStay == \A b \in Attempts : at'[b].pc = at[b].pc /\ Stays(b)

\* An attempt that leaves its task keeps a thread that still has work.
LEMMA LeavesStays ==
    ASSUME at \in [Attempts -> AttemptRecord], NEW a \in Attempts, NEW pc \in Over, Leaves(a, pc)
    PROVE  /\ at'[a].pc = pc
           /\ \A b \in Attempts \ {a} : at'[b] = at[b]
           /\ \/ Alike(at[a], at'[a]) /\ at'[a].fd = at[a].fd
              \/ Rests(a)
<1> DEFINE s == [at[a] EXCEPT !.pc = pc, !.sig = FALSE]
<1>1. s \in AttemptRecord /\ s.pc = pc /\ Alike(at[a], s) /\ s.fd = at[a].fd
  <2>1. ASSUME NEW r \in AttemptRecord, NEW q, q = [r EXCEPT !.pc = pc, !.sig = FALSE]
        PROVE  q \in AttemptRecord /\ q.pc = pc /\ Alike(r, q) /\ q.fd = r.fd
      BY <2>1 DEF AttemptFields, AttemptRecord, Over, Alike
  <2>2. at[a] \in AttemptRecord
      OBVIOUS
  <2> HIDE DEF AttemptFields, AttemptRecord
  <2> QED BY <2>1, <2>2
<1>2. at' = [at EXCEPT ![a] = Rested(s)]
    BY DEF Leaves
<1> HIDE DEF s
<1>3. at'[a] = Rested(s) /\ \A b \in Attempts \ {a} : at'[b] = at[b]
    BY <1>2
<1>4. CASE s.th \in Running
    BY <1>1, <1>3, <1>4 DEF Rested
<1>5. CASE s.th \notin Running
  <2>1. Rested(s).rom = s.rom /\ Rested(s).pc = s.pc /\ Rested(s).th = "none" /\ Rested(s).fd = "none"
      BY <1>1, <1>5 DEF Rested, Unused
  <2> QED BY <1>1, <1>3, <2>1 DEF Rests, Alike
<1> QED BY <1>4, <1>5

\* A thread that is over has its answer, unless its task is over too.
LEMMA ClosedAnswers ==
    ASSUME NEW s \in [Attempts -> AttemptRecord], NEW a \in Attempts,
           NEW th \in {"done", "aborted", "failed", "placed", "unplaced"}
    PROVE  /\ \A b \in Attempts \ {a} : Closed(s, a, th)[b] = s[b]
           /\ Closed(s, a, th)[a].pc = s[a].pc /\ Closed(s, a, th)[a].rom = s[a].rom
           /\ Closed(s, a, th)[a].fd = "none"
           /\ Closed(s, a, th)[a].th = IF s[a].pc \in Over THEN "none" ELSE th
<1> DEFINE q == [s[a] EXCEPT !.th = th, !.fd = "none", !.append = FALSE,
                             !.nxt = 0, !.have = 0, !.resume = FALSE]
<1>1. q.pc = s[a].pc /\ q.rom = s[a].rom /\ q.fd = "none" /\ q.th = th
  <2>1. ASSUME NEW r \in AttemptRecord,
               NEW u, u = [r EXCEPT !.th = th, !.fd = "none", !.append = FALSE,
                                    !.nxt = 0, !.have = 0, !.resume = FALSE]
        PROVE  u.pc = r.pc /\ u.rom = r.rom /\ u.fd = "none" /\ u.th = th
      BY <2>1 DEF AttemptFields, AttemptRecord
  <2>2. s[a] \in AttemptRecord
      OBVIOUS
  <2> QED BY <2>1, <2>2
<1>2. Closed(s, a, th) = [s EXCEPT ![a] = Rested(q)]
    BY DEF Closed
<1> HIDE DEF q
<1>3. /\ Closed(s, a, th)[a] = Rested(q)
      /\ \A b \in Attempts \ {a} : Closed(s, a, th)[b] = s[b]
    BY <1>2
<1>4. /\ Rested(q).pc = q.pc /\ Rested(q).rom = q.rom /\ Rested(q).fd = "none"
      /\ Rested(q).th = IF q.pc \in Over THEN "none" ELSE th
    BY <1>1 DEF Rested, Unused, Running
<1> QED BY <1>1, <1>3, <1>4

\* Following a file moves handles only.
LEMMA FollowsStays ==
    ASSUME NEW s \in [Attempts -> AttemptRecord], NEW r, NEW from,
           NEW to \in {"none", "partial", "installed", "orphan"}
    PROVE  \A b \in Attempts :
              /\ Follows(s, r, from, to)[b].pc = s[b].pc
              /\ Alike(s[b], Follows(s, r, from, to)[b])
              /\ Follows(s, r, from, to)[b].fd =
                    IF s[b].rom = r /\ s[b].fd = from THEN to ELSE s[b].fd
<1>1. \A b \in Attempts : s[b] \in AttemptRecord
    OBVIOUS
<1>2. \A b \in Attempts : /\ [s[b] EXCEPT !.fd = to].pc = s[b].pc
                          /\ Alike(s[b], [s[b] EXCEPT !.fd = to])
                          /\ [s[b] EXCEPT !.fd = to].fd = to
    BY <1>1 DEF AttemptFields, AttemptRecord, Alike
<1>3. \A b \in Attempts : Alike(s[b], s[b])
    BY DEF Alike
<1> QED BY <1>1, <1>2, <1>3 DEF Follows

\* One attempt's record is replaced by one with the same thread.
LEMMA OneStays ==
    ASSUME at \in [Attempts -> AttemptRecord], NEW a \in Attempts, NEW u \in AttemptRecord,
           at' = [at EXCEPT ![a] = u], Alike(at[a], u), u.fd = at[a].fd
    PROVE  /\ at'[a].pc = u.pc /\ Stays(a)
           /\ OthersStay(a)
<1>1. at'[a] = u /\ \A b \in Attempts \ {a} : at'[b] = at[b]
    OBVIOUS
<1> QED BY <1>1 DEF Stays, OthersStay, Alike, HandleFollows

LEMMA SettledAlike ==
    \A q \in AttemptRecord, pc \in {"telling", "finishing"}, e \in Ended \cup {"paused"} :
        Alike(q, Settled(q, pc, e))
BY DEF Settled, AttemptFields, AttemptRecord, Alike

LEMMA PcAlike ==
    ASSUME NEW q \in AttemptRecord, NEW pc
    PROVE  Alike(q, [q EXCEPT !.pc = pc])
BY DEF AttemptFields, AttemptRecord, Alike

LEMMA SigAlike ==
    ASSUME NEW q \in AttemptRecord, NEW sig
    PROVE  Alike(q, [q EXCEPT !.sig = sig])
BY DEF AttemptFields, AttemptRecord, Alike

LEMMA StopAlike ==
    ASSUME NEW q \in AttemptRecord, NEW stop
    PROVE  Alike(q, [q EXCEPT !.stop = stop])
BY DEF AttemptFields, AttemptRecord, Alike

LEMMA TickAlike ==
    ASSUME NEW q \in AttemptRecord, NEW tick
    PROVE  Alike(q, [q EXCEPT !.tick = tick])
BY DEF AttemptFields, AttemptRecord, Alike

\* A task's handler removes the partial file of its game.
LEMMA ClearsStays ==
    ASSUME DownloadInv, NEW a \in Attempts, NEW u \in AttemptRecord,
           Alike(at[a], u), u.fd = at[a].fd,
           at' = Follows([at EXCEPT ![a] = u], at[a].rom, "partial", "orphan"),
           partial' = [partial EXCEPT ![at[a].rom] = NoFile]
    PROVE  /\ at'[a].pc = u.pc /\ Stays(a)
           /\ OthersStay(a)
<1> DEFINE s == [at EXCEPT ![a] = u]
           r == at[a].rom
           t == Follows(s, r, "partial", "orphan")
<1>1. at \in [Attempts -> AttemptRecord] /\ r \in Roms /\ partial \in [Roms -> Contents]
    BY RomOfAttempt DEF DownloadInv, ShapeInv, FilesOK
<1>2. s \in [Attempts -> AttemptRecord] /\ s[a] = u /\ \A b \in Attempts \ {a} : s[b] = at[b]
    BY <1>1
<1>3. at' = t /\ partial'[r] = NoFile
    BY <1>1
<1> HIDE DEF s, r
<1>4. \A b \in Attempts : /\ t[b].pc = s[b].pc /\ Alike(s[b], t[b])
                          /\ t[b].fd = IF s[b].rom = r /\ s[b].fd = "partial" THEN "orphan" ELSE s[b].fd
    BY <1>2, FollowsStays
<1> HIDE DEF t
<1>5. \A b \in Attempts : Alike(at[b], s[b]) /\ s[b].fd = at[b].fd
    BY <1>2 DEF Alike
<1>6. \A b \in Attempts : Stays(b)
    BY <1>3, <1>4, <1>5 DEF Stays, Alike, HandleFollows
<1>7. at'[a].pc = u.pc /\ \A b \in Attempts \ {a} : at'[b].pc = at[b].pc
    BY <1>2, <1>3, <1>4
<1> QED BY <1>6, <1>7 DEF OthersStay

-----------------------------------------------------------------------------
(* How a task can go on. *)

Marked(a, S) ==
    /\ entry[at[a].rom] # None
    /\ \E e \in S : /\ entry' = [entry EXCEPT ![at[a].rom] = e]
                   /\ shown' \in {shown, [shown EXCEPT ![at[a].rom] = e]}

PartialMayGo(a) == partial' \in {partial, [partial EXCEPT ![at[a].rom] = NoFile]}

\* It waits for a slot or got one.
Advances(a) ==
    /\ at[a].pc \in {"spawned", "waiting"} /\ at'[a].pc \in {"waiting", "fetching"}
    /\ Marked(a, {"queued", "downloading"})
    /\ Stays(a) /\ UNCHANGED <<token, partial>>

\* It told its end, with nothing in place.
Settles(a) ==
    /\ at[a].pc \in AtWorkPcs /\ at'[a].pc = "telling"
    /\ Marked(a, {"paused", "cancelled", "failed"})
    /\ Stays(a) /\ UNCHANGED token /\ PartialMayGo(a)

\* It told that the game is in place.
Completes(a) ==
    /\ \/ at[a].pc \in {"committing", "settling"} /\ at[a].th = "placed"
       \/ at[a].pc = "finishing"
    /\ \/ at'[a].pc = "telling"
       \/ at[a].pc = "committing" /\ at'[a].pc = "finishing"
    /\ Marked(a, {"completed"})
    /\ Stays(a) /\ UNCHANGED <<token, partial>>

\* It waits for the commit.
Waits(a) ==
    /\ at[a].pc = "committing" /\ at'[a].pc = "settling"
    /\ Stays(a) /\ UNCHANGED <<token, partial, entry, shown>>

\* It is over, and gave back what it had registered.
IsOver(a) ==
    /\ at[a].pc \in Live \cup {"starting"} /\ at'[a].pc \in Over
    /\ entry' \in {entry, [entry EXCEPT ![at[a].rom] = None]} /\ UNCHANGED <<partial, shown>>
    /\ Stays(a) \/ Rests(a)
    /\ UNCHANGED token \/ Release(a)

\* It put its transfer in the hands of the commit.
HandsOver(a) ==
    /\ at[a].pc = "fetching" /\ at'[a].pc = "committing"
    /\ at[a].th = "done" /\ at'[a].th = "placing"
    /\ at'[a].rom = at[a].rom /\ at'[a].fd = at[a].fd /\ at'[a].nxt = at[a].nxt
    /\ UNCHANGED <<token, partial, entry, shown>>

GoesOn(a) ==
    /\ OthersStay(a)
    /\ UNCHANGED <<installed, recorded, removal, crossed, torn>>
    /\ Advances(a) \/ Settles(a) \/ Completes(a) \/ Waits(a) \/ IsOver(a) \/ HandsOver(a)

\* What does not move does not change.
LEMMA SameStays ==
    ASSUME NEW a, NEW b, at'[b] = at[b]
    PROVE  at'[b].pc = at[b].pc /\ Stays(b)
BY DEF Stays, Alike, HandleFollows

LEMMA OverGoesOn ==
    ASSUME DownloadInv, NEW a \in Attempts, NEW pc \in Over, Leaves(a, pc),
           at[a].pc \in Live \cup {"starting"},
           entry' \in {entry, [entry EXCEPT ![at[a].rom] = None]},
           UNCHANGED token \/ Release(a),
           UNCHANGED <<shown, partial, installed, recorded, removal, crossed, torn>>
    PROVE  GoesOn(a)
<1>1. at \in [Attempts -> AttemptRecord]
    BY DEF DownloadInv, ShapeInv
<1>2. /\ at'[a].pc = pc
      /\ \A b \in Attempts \ {a} : at'[b] = at[b]
      /\ (Alike(at[a], at'[a]) /\ at'[a].fd = at[a].fd) \/ Rests(a)
    BY <1>1, LeavesStays
<1>3. OthersStay(a)
    BY <1>2, SameStays DEF OthersStay
<1>4. Stays(a) \/ Rests(a)
    BY <1>2 DEF Stays, HandleFollows
<1> QED BY <1>2, <1>3, <1>4 DEF GoesOn, IsOver

LEMMA DropsGoesOn ==
    ASSUME DownloadInv, NEW a \in Attempts, at[a].pc \in Live, Drops(a),
           UNCHANGED <<removal, crossed, torn>>
    PROVE  GoesOn(a)
<1>1. "dropped" \in Over
    BY DEF Over
<1>2. /\ Leaves(a, "dropped") /\ Release(a)
      /\ UNCHANGED <<entry, shown, partial, installed, recorded>>
    BY DEF Drops, files
<1> QED BY <1>1, <1>2, OverGoesOn

LEMMA HandleStopGoesOn ==
    ASSUME DownloadInv, NEW a \in Attempts, at[a].pc \in AtWorkPcs, HandleStop(a),
           UNCHANGED <<removal, crossed, torn>>
    PROVE  GoesOn(a)
<1> DEFINE end == IF at[a].stop = "paused" THEN "paused" ELSE "cancelled"
           u == Settled(at[a], "telling", end)
<1>1. end \in Ended \cup {"paused"} /\ end \in {"paused", "cancelled", "failed"}
    BY DEF Ended
<1>2. at[a] \in AttemptRecord /\ at \in [Attempts -> AttemptRecord] /\ at[a].pc \in Live
    BY DEF DownloadInv, ShapeInv, AtWorkPcs, Live
<1>3. u \in AttemptRecord /\ u.pc = "telling" /\ Alike(at[a], u) /\ u.fd = at[a].fd
  <2> HIDE DEF end
  <2> QED BY <1>1, <1>2, SettledRecord, SettledAlike
<1>4. [at EXCEPT ![a].pc = "telling", ![a].end = end, ![a].sig = FALSE] = [at EXCEPT ![a] = u]
    BY <1>2 DEF AttemptFields, AttemptRecord, Settled
<1>5. CASE Drops(a)
    BY <1>2, <1>5, DropsGoesOn
<1>6. CASE ~Drops(a)
  <2>1. /\ Marks(a, end) /\ UNCHANGED <<token, installed, recorded>>
        /\ \/ at' = [at EXCEPT ![a] = u] /\ UNCHANGED partial
           \/ /\ at' = Follows([at EXCEPT ![a] = u], at[a].rom, "partial", "orphan")
              /\ partial' = [partial EXCEPT ![at[a].rom] = NoFile]
      BY <1>4, <1>6 DEF HandleStop
  <2> HIDE DEF u, end
  <2>2. Marked(a, {"paused", "cancelled", "failed"})
      BY <1>1, <2>1 DEF Marked, Marks
  <2>3. at'[a].pc = "telling" /\ Stays(a) /\ OthersStay(a)
    <3>1. CASE at' = [at EXCEPT ![a] = u]
        BY <1>2, <1>3, <3>1, OneStays
    <3>2. CASE ~(at' = [at EXCEPT ![a] = u])
        BY <1>2, <1>3, <2>1, <3>2, ClearsStays
    <3> QED BY <3>1, <3>2
  <2> QED BY <2>1, <2>2, <2>3 DEF GoesOn, Settles, PartialMayGo
<1> QED BY <1>5, <1>6

LEMMA MarkCompletedGoesOn ==
    ASSUME DownloadInv, NEW a \in Attempts, NEW pc \in {"telling", "finishing"},
           \/ at[a].pc \in {"committing", "settling"} /\ at[a].th = "placed"
           \/ at[a].pc = "finishing",
           pc = "telling" \/ at[a].pc = "committing",
           MarkCompleted(a, pc), UNCHANGED <<removal, crossed, torn>>
    PROVE  GoesOn(a)
<1> DEFINE u == Settled(at[a], pc, "completed")
<1>1. at[a] \in AttemptRecord /\ at \in [Attempts -> AttemptRecord] /\ at[a].pc \in Live
    BY DEF DownloadInv, ShapeInv, Live
<1>2. u \in AttemptRecord /\ u.pc = pc /\ Alike(at[a], u) /\ u.fd = at[a].fd
    BY <1>1, SettledRecord, SettledAlike DEF Ended
<1>3. [at EXCEPT ![a].pc = pc, ![a].end = "completed", ![a].sig = FALSE] = [at EXCEPT ![a] = u]
    BY <1>1 DEF AttemptFields, AttemptRecord, Settled
<1> HIDE DEF u
<1>4. CASE Drops(a)
    BY <1>1, <1>4, DropsGoesOn
<1>5. CASE ~Drops(a)
  <2>1. /\ Marks(a, "completed") /\ UNCHANGED <<token, partial, installed, recorded>>
        /\ at' = [at EXCEPT ![a] = u]
      BY <1>3, <1>5 DEF MarkCompleted, files
  <2>2. Marked(a, {"completed"})
      BY <2>1 DEF Marked, Marks
  <2>3. at'[a].pc = pc /\ Stays(a) /\ OthersStay(a)
      BY <1>1, <1>2, <2>1, OneStays
  <2> QED BY <2>1, <2>2, <2>3 DEF GoesOn, Completes
<1> QED BY <1>4, <1>5

LEMMA AdvancesOn ==
    ASSUME DownloadInv, NEW a \in Attempts, NEW pc \in {"waiting", "fetching"},
           at[a].pc \in {"spawned", "waiting"},
           at' = [at EXCEPT ![a].pc = pc], Marked(a, {"queued", "downloading"}),
           UNCHANGED <<token, partial, installed, recorded, removal, crossed, torn>>
    PROVE  GoesOn(a)
<1> DEFINE u == [at[a] EXCEPT !.pc = pc]
<1>1. at[a] \in AttemptRecord /\ at \in [Attempts -> AttemptRecord]
    BY DEF DownloadInv, ShapeInv
<1>2. u \in AttemptRecord /\ u.pc = pc /\ Alike(at[a], u) /\ u.fd = at[a].fd
    BY <1>1, PcChanges, PcAlike DEF Live
<1>3. at' = [at EXCEPT ![a] = u]
    OBVIOUS
<1> HIDE DEF u
<1>4. at'[a].pc = pc /\ Stays(a) /\ OthersStay(a)
    BY <1>1, <1>2, <1>3, OneStays
<1> QED BY <1>4 DEF GoesOn, Advances

LEMMA EnterGoesOn ==
    ASSUME DownloadInv, NEW a \in Attempts, at[a].pc \in {"spawned", "waiting"}, Enter(a),
           UNCHANGED <<removal, crossed, torn>>
    PROVE  GoesOn(a)
<1>1. CASE Drops(a)
    BY <1>1, DropsGoesOn DEF Live
<1>2. CASE ~Drops(a)
  <2>1. /\ at' = [at EXCEPT ![a].pc = "fetching"]
        /\ UNCHANGED <<token, partial, installed, recorded>>
      BY <1>2 DEF Enter, files
  <2>2. Marked(a, {"queued", "downloading"})
      BY <1>2 DEF Enter, Marked
  <2> QED BY <2>1, <2>2, AdvancesOn
<1> QED BY <1>1, <1>2

LEMMA BeginGoesOn ==
    ASSUME DownloadInv, NEW a \in Attempts, Begin(a)
    PROVE  GoesOn(a)
<1>1. at[a].pc = "spawned" /\ UNCHANGED <<removal, crossed, torn>>
    BY DEF Begin
<1>2. CASE Enter(a)
    BY <1>1, <1>2, EnterGoesOn
<1>3. CASE Drops(a)
    BY <1>1, <1>3, DropsGoesOn DEF Live
<1>4. CASE Marks(a, "queued") /\ at' = [at EXCEPT ![a].pc = "waiting"] /\ UNCHANGED <<claim, token, files>>
  <2>1. Marked(a, {"queued", "downloading"})
      BY <1>4 DEF Marks, Marked
  <2>2. UNCHANGED <<token, partial, installed, recorded>>
      BY <1>4 DEF files
  <2> QED BY <1>1, <1>4, <2>1, <2>2, AdvancesOn
<1> QED BY <1>2, <1>3, <1>4 DEF Begin

LEMMA CommitGoesOn ==
    ASSUME DownloadInv, NEW a \in Attempts, Commit(a)
    PROVE  GoesOn(a)
<1> DEFINE q == at[a]
           u == [q EXCEPT !.pc = "committing", !.th = "placing"]
<1>1. q \in AttemptRecord /\ at \in [Attempts -> AttemptRecord]
    BY DEF DownloadInv, ShapeInv
<1>2. u.pc = "committing" /\ u.th = "placing" /\ u.rom = q.rom /\ u.fd = q.fd /\ u.nxt = q.nxt
    BY <1>1 DEF AttemptFields, AttemptRecord
<1>3. at' = [at EXCEPT ![a] = u]
    BY <1>1 DEF Commit, AttemptFields, AttemptRecord
<1> HIDE DEF u
<1>4. at'[a] = u /\ \A b \in Attempts \ {a} : at'[b] = at[b]
    BY <1>1, <1>3
<1>5. OthersStay(a)
    BY <1>4, SameStays DEF OthersStay
<1> QED BY <1>2, <1>4, <1>5 DEF Commit, GoesOn, HandsOver, told, files

LEMMA StopCommitGoesOn ==
    ASSUME DownloadInv, NEW a \in Attempts, StopCommit(a)
    PROVE  GoesOn(a)
<1> DEFINE q == [at[a] EXCEPT !.pc = "settling"]
           u == [q EXCEPT !.sig = FALSE]
<1>1. at[a] \in AttemptRecord /\ at \in [Attempts -> AttemptRecord]
    BY DEF DownloadInv, ShapeInv
<1>2. q \in AttemptRecord /\ q.pc = "settling" /\ q.fd = at[a].fd /\ Alike(at[a], q)
    BY <1>1, PcChanges, PcAlike DEF Live
<1>3. at' = [at EXCEPT ![a] = u]
    BY DEF StopCommit
<1> HIDE DEF q
<1>4. u \in AttemptRecord /\ u.pc = "settling" /\ u.fd = at[a].fd /\ Alike(q, u)
    BY <1>2, SigChanges, SigAlike
<1> HIDE DEF u
<1>5. Alike(at[a], u)
    BY <1>2, <1>4 DEF Alike
<1>6. at'[a].pc = "settling" /\ Stays(a) /\ OthersStay(a)
    BY <1>1, <1>3, <1>4, <1>5, OneStays
<1> QED BY <1>6 DEF StopCommit, GoesOn, Waits, told, files

LEMMA FailGoesOn ==
    ASSUME DownloadInv, NEW a \in Attempts, Fail(a)
    PROVE  GoesOn(a)
<1> DEFINE u == Settled(at[a], "telling", "failed")
<1>1. /\ at[a] \in AttemptRecord /\ at \in [Attempts -> AttemptRecord]
      /\ at[a].pc \in Live /\ at[a].pc \in AtWorkPcs
      /\ UNCHANGED <<removal, crossed, torn>>
    BY DEF DownloadInv, ShapeInv, Fail, Live, AtWorkPcs
<1>2. u \in AttemptRecord /\ u.pc = "telling" /\ Alike(at[a], u) /\ u.fd = at[a].fd
    BY <1>1, SettledRecord, SettledAlike DEF Ended
<1>3. [at EXCEPT ![a].pc = "telling", ![a].end = "failed"] = [at EXCEPT ![a] = u]
  <2>1. at[a].sig = FALSE
      BY <1>1 DEF Fail, AttemptFields, AttemptRecord
  <2> QED BY <1>1, <2>1 DEF AttemptFields, AttemptRecord, Settled
<1> HIDE DEF u
<1>4. CASE Drops(a)
    BY <1>1, <1>4, DropsGoesOn
<1>5. CASE ~Drops(a)
  <2>1. /\ Marks(a, "failed") /\ UNCHANGED <<token, installed, recorded>>
        /\ at' = Follows([at EXCEPT ![a] = u], at[a].rom, "partial", "orphan")
        /\ partial' = [partial EXCEPT ![at[a].rom] = NoFile]
      BY <1>3, <1>5 DEF Fail
  <2>2. Marked(a, {"paused", "cancelled", "failed"})
      BY <2>1 DEF Marked, Marks
  <2>3. at'[a].pc = "telling" /\ Stays(a) /\ OthersStay(a)
      BY <1>2, <2>1, ClearsStays
  <2> QED BY <1>1, <2>1, <2>2, <2>3 DEF GoesOn, Settles, PartialMayGo
<1> QED BY <1>4, <1>5

LEMMA EndGoesOn ==
    ASSUME DownloadInv, NEW a \in Attempts, End(a)
    PROVE  GoesOn(a)
<1>1. "ended" \in Over /\ at[a].pc \in Live
    BY DEF Over, Live, End
<1>2. /\ Leaves(a, "ended") /\ Release(a)
      /\ entry' \in {entry, [entry EXCEPT ![at[a].rom] = None]}
      /\ UNCHANGED <<shown, partial, installed, recorded, removal, crossed, torn>>
    BY DEF End, files
<1> QED BY <1>1, <1>2, OverGoesOn

LEMMA InterruptGoesOn ==
    ASSUME DownloadInv, NEW a \in Attempts, Interrupt(a)
    PROVE  GoesOn(a)
<1>1. PICK pc \in {"ended", "dropped"} : Leaves(a, pc)
    BY DEF Interrupt
<1>2. pc \in Over /\ at[a].pc \in Live
    BY DEF Over, Live, Interrupt
<1>3. /\ Release(a) /\ entry' = entry
      /\ UNCHANGED <<shown, partial, installed, recorded, removal, crossed, torn>>
    BY DEF Interrupt, told, files
<1> QED BY <1>1, <1>2, <1>3, OverGoesOn

LEMMA LeaveGoesOn ==
    ASSUME DownloadInv, NEW a \in Attempts, Strand(a) \/ RefuseStart(a)
    PROVE  GoesOn(a)
<1>1. PICK pc \in Over : Leaves(a, pc)
    BY DEF Strand, RefuseStart, Over
<1>2. /\ at[a].pc \in Live \cup {"starting"} /\ entry' = entry /\ token' = token
      /\ UNCHANGED <<shown, partial, installed, recorded, removal, crossed, torn>>
    BY DEF Strand, RefuseStart, Live, told, files
<1> QED BY <1>1, <1>2, OverGoesOn

LEMMA TaskGoesOn ==
    ASSUME DownloadInv, NEW a \in Attempts, TaskStep(a) \/ RefuseStart(a)
    PROVE  GoesOn(a)
<1>1. CASE Acquire(a)
    BY <1>1, EnterGoesOn DEF Acquire
<1>2. CASE StopTransfer(a)
    BY <1>2, HandleStopGoesOn DEF StopTransfer, AtWorkPcs
<1>3. CASE Complete(a)
    BY <1>3, MarkCompletedGoesOn DEF Complete
<1>4. CASE Settle(a)
  <2>1. CASE at[a].th = "placed" /\ MarkCompleted(a, "telling")
      BY <1>4, <2>1, MarkCompletedGoesOn DEF Settle
  <2>2. CASE HandleStop(a)
      BY <1>4, <2>2, HandleStopGoesOn DEF Settle, AtWorkPcs
  <2> QED BY <1>4, <2>1, <2>2 DEF Settle
<1>5. CASE StopFinish(a)
    BY <1>5, MarkCompletedGoesOn DEF StopFinish
<1> QED BY <1>1, <1>2, <1>3, <1>4, <1>5, BeginGoesOn, LeaveGoesOn, CommitGoesOn, StopCommitGoesOn,
           FailGoesOn, EndGoesOn, InterruptGoesOn DEF TaskStep

-----------------------------------------------------------------------------
(* How the calls, the threads and the uninstalls move the attempts. *)

LEMMA StartMoves ==
    ASSUME DownloadInv, NEW a \in Attempts, NEW r \in Roms, StartDownload(a, r) \/ ResumeDownload(a, r)
    PROVE  /\ at[a].pc = "unused" /\ at'[a].pc = "starting" /\ at'[a].rom = r
           /\ at'[a].th = "none" /\ at'[a].fd = "none"
           /\ \A b \in Attempts \ {a} : at'[b] = at[b]
           /\ UNCHANGED <<token, entry, shown, partial, installed, recorded, removal, torn>>
           /\ crossed \subseteq crossed'
<1>1. /\ at[a] \in AttemptRecord /\ at \in [Attempts -> AttemptRecord]
      /\ at[a].pc = "unused" /\ at[a].th = "none" /\ at[a].fd = "none"
    BY DEF DownloadInv, ShapeInv, HandlesOpen, AttemptRecord, StartDownload, ResumeDownload, Fresh
<1> DEFINE q == at[a]
           u1 == [q EXCEPT !.pc = "starting", !.rom = r]
           u2 == [q EXCEPT !.pc = "starting", !.rom = r, !.resume = TRUE]
<1>2. /\ u1.pc = "starting" /\ u1.rom = r /\ u1.th = "none" /\ u1.fd = "none"
      /\ u2.pc = "starting" /\ u2.rom = r /\ u2.th = "none" /\ u2.fd = "none"
    BY <1>1 DEF AttemptFields, AttemptRecord
<1>3. at' = [at EXCEPT ![a] = u1] \/ at' = [at EXCEPT ![a] = u2]
    BY <1>1 DEF StartDownload, ResumeDownload
<1> HIDE DEF u1, u2
<1>4. /\ at'[a].pc = "starting" /\ at'[a].rom = r /\ at'[a].th = "none" /\ at'[a].fd = "none"
      /\ \A b \in Attempts \ {a} : at'[b] = at[b]
    BY <1>1, <1>2, <1>3
<1> QED BY <1>1, <1>4 DEF StartDownload, ResumeDownload, told, files

LEMMA AdmitMoves ==
    ASSUME DownloadInv, NEW a \in Attempts, Admit(a)
    PROVE  /\ at[a].pc = "starting" /\ at'[a].pc = "spawned" /\ Stays(a) /\ OthersStay(a)
           /\ entry' = [entry EXCEPT ![at[a].rom] = "queued"]
           /\ token' = [token EXCEPT ![at[a].rom] = a]
           /\ UNCHANGED <<shown, partial, installed, recorded, removal, crossed, torn>>
<1> DEFINE u == [at[a] EXCEPT !.pc = "spawned"]
<1>1. at[a] \in AttemptRecord /\ at \in [Attempts -> AttemptRecord]
    BY DEF DownloadInv, ShapeInv
<1>2. u \in AttemptRecord /\ u.pc = "spawned" /\ u.fd = at[a].fd /\ Alike(at[a], u)
    BY <1>1, PcChanges, PcAlike DEF Live
<1>3. at' = [at EXCEPT ![a] = u]
    BY DEF Admit
<1> HIDE DEF u
<1>4. at'[a].pc = "spawned" /\ Stays(a) /\ OthersStay(a)
    BY <1>1, <1>2, <1>3, OneStays
<1> QED BY <1>4 DEF Admit, files

\* Nothing moves, and no file comes.
Calm ==
    /\ AllStay
    /\ \A r \in Roms : /\ partial'[r] \in {partial[r], NoFile}
                       /\ installed'[r] \in {installed[r], NoFile}
                       /\ entry'[r] \in {entry[r], None}
    /\ UNCHANGED <<token, crossed, torn>>

LEMMA OneStaysAll ==
    ASSUME NEW a \in Attempts, Stays(a), OthersStay(a), at'[a].pc = at[a].pc
    PROVE  AllStay
BY DEF AllStay, OthersStay

LEMMA StopIsCalm ==
    ASSUME DownloadInv, NEW r \in Roms, NEW how \in {"cancelled", "paused"}, Stop(r, how)
    PROVE  Calm
<1> DEFINE a == token[r]
           stop == IF at[a].stop = "paused" THEN at[a].stop ELSE how
           q == [at[a] EXCEPT !.stop = stop]
           u == [q EXCEPT !.sig = TRUE]
<1>1. a \in Attempts /\ at[a] \in AttemptRecord /\ at \in [Attempts -> AttemptRecord]
    BY DEF Stop, DownloadInv, ShapeInv, RestOK
<1>2. stop \in {"cancelled", "paused", None}
    OBVIOUS
<1>3. at' = [at EXCEPT ![a] = u]
    BY DEF Stop
<1> HIDE DEF stop, a
<1>4. q \in AttemptRecord /\ q.pc = at[a].pc /\ q.fd = at[a].fd /\ Alike(at[a], q)
    BY <1>1, <1>2, StopChanges, StopAlike
<1> HIDE DEF q
<1>5. u \in AttemptRecord /\ u.pc = at[a].pc /\ u.fd = at[a].fd /\ Alike(q, u)
    BY <1>4, SigChanges, SigAlike
<1> HIDE DEF u
<1>6. Alike(at[a], u)
    BY <1>4, <1>5 DEF Alike
<1>7. AllStay
    BY <1>1, <1>3, <1>5, <1>6, OneStays, OneStaysAll
<1> QED BY <1>7 DEF Stop, Calm, told, files

LEMMA CancelPausedIsCalm ==
    ASSUME DownloadInv, NEW r \in Roms, CancelPaused(r)
    PROVE  Calm
<1> DEFINE t == Follows(at, r, "partial", "orphan")
<1>1. at \in [Attempts -> AttemptRecord] /\ partial \in [Roms -> Contents]
      /\ entry \in [Roms -> Statuses \cup {None}]
    BY DEF DownloadInv, ShapeInv, FilesOK, RestOK
<1>2. /\ at' = t /\ partial' = [partial EXCEPT ![r] = NoFile] /\ entry' = [entry EXCEPT ![r] = None]
      /\ UNCHANGED <<token, installed, crossed, torn>>
    BY DEF CancelPaused
<1>3. \A b \in Attempts : /\ t[b].pc = at[b].pc /\ Alike(at[b], t[b])
                          /\ t[b].fd = IF at[b].rom = r /\ at[b].fd = "partial" THEN "orphan" ELSE at[b].fd
    BY <1>1, FollowsStays
<1> HIDE DEF t
<1>4. partial'[r] = NoFile
    BY <1>1, <1>2
<1>5. AllStay
    BY <1>2, <1>3, <1>4 DEF AllStay, Stays, HandleFollows
<1> QED BY <1>1, <1>2, <1>5 DEF Calm

LEMMA ApplyTickIsCalm ==
    ASSUME DownloadInv, NEW a \in Attempts, ApplyTick(a)
    PROVE  Calm
<1> DEFINE u == [at[a] EXCEPT !.tick = FALSE]
<1>1. at[a] \in AttemptRecord /\ at \in [Attempts -> AttemptRecord]
    BY DEF DownloadInv, ShapeInv
<1>2. at' = [at EXCEPT ![a] = u]
    BY DEF ApplyTick
<1>3. u \in AttemptRecord /\ u.pc = at[a].pc /\ u.fd = at[a].fd /\ Alike(at[a], u)
    BY <1>1, TickChanges, TickAlike
<1> HIDE DEF u
<1>4. AllStay
    BY <1>1, <1>2, <1>3, OneStays, OneStaysAll
<1> QED BY <1>4 DEF ApplyTick, Calm, files

LEMMA SameIsStill ==
    ASSUME UNCHANGED at
    PROVE  AllStay
BY SameStays DEF AllStay

LEMMA DeleteFilesStays ==
    ASSUME DownloadInv, DeleteFiles
    PROVE  AllStay
<1>1. \A b \in Attempts : at[b] \in AttemptRecord
    BY DEF DownloadInv, ShapeInv
<1>2. \A q \in AttemptRecord : /\ [q EXCEPT !.fd = "orphan"].pc = q.pc
                               /\ Alike(q, [q EXCEPT !.fd = "orphan"])
                               /\ [q EXCEPT !.fd = "orphan"].fd = "orphan"
    BY DEF AttemptFields, AttemptRecord, Alike
<1>3. \A b \in Attempts :
          at'[b] = IF at[b].rom \in removal.of /\ at[b].fd = "installed"
                   THEN [at[b] EXCEPT !.fd = "orphan"] ELSE at[b]
    BY DEF DeleteFiles
<1>4. ASSUME NEW b \in Attempts PROVE at'[b].pc = at[b].pc /\ Stays(b)
  <2>1. CASE at[b].rom \in removal.of /\ at[b].fd = "installed"
    <3> DEFINE u == [at[b] EXCEPT !.fd = "orphan"]
    <3>1. at[b] \in AttemptRecord /\ at'[b] = u
        BY <1>1, <1>3, <2>1
    <3>2. u.pc = at[b].pc /\ Alike(at[b], u) /\ u.fd = "orphan"
        BY <1>2, <3>1
    <3> HIDE DEF u
    <3> QED BY <2>1, <3>1, <3>2 DEF Stays, HandleFollows
  <2>2. CASE ~(at[b].rom \in removal.of /\ at[b].fd = "installed")
      BY <1>3, <2>2, SameStays
  <2> QED BY <2>1, <2>2
<1> QED BY <1>4 DEF AllStay

LEMMA RemovalIsCalm ==
    ASSUME DownloadInv, RemovalStep \/ UninstallAllRoms \/ (\E r \in Roms : RemoveRom(r)) \/ ClearCompleted
    PROVE  Calm
<1>1. installed \in [Roms -> Contents] /\ entry \in [Roms -> Statuses \cup {None}]
    BY DEF DownloadInv, ShapeInv, FilesOK, RestOK
<1>2. CASE DeleteFiles
  <2>1. UNCHANGED <<token, told, partial, crossed, torn>>
      BY <1>2 DEF DeleteFiles
  <2>2. \A r \in Roms : installed'[r] \in {installed[r], NoFile}
      BY <1>2 DEF DeleteFiles
  <2> QED BY <1>2, <2>1, <2>2, DeleteFilesStays DEF Calm, told
<1>3. CASE DeleteFails \/ DropRows \/ UninstallAllRoms \/ (\E r \in Roms : RemoveRom(r))
  <2>1. UNCHANGED <<at, token, entry, partial, installed, crossed, torn>>
      BY <1>3 DEF DeleteFails, DropRows, UninstallAllRoms, RemoveRom, BeginRemoval, told, files
  <2> QED BY <2>1, SameIsStill DEF Calm
<1>4. CASE Forget \/ ClearCompleted
  <2>1. UNCHANGED <<at, token, partial, installed, crossed, torn>>
      BY <1>4 DEF Forget, ClearCompleted, files
  <2>2. \A r \in Roms : entry'[r] \in {entry[r], None}
      BY <1>4 DEF Forget, ClearCompleted
  <2> QED BY <2>1, <2>2, SameIsStill DEF Calm
<1> QED BY <1>2, <1>3, <1>4 DEF RemovalStep

-----------------------------------------------------------------------------
(* The threads. *)

\* Attempt a's thread moves, its task and the others do not.
ThreadMoves(a) ==
    /\ at'[a].pc = at[a].pc /\ at'[a].rom = at[a].rom
    /\ \A b \in Attempts \ {a} : at'[b] = at[b]
    /\ UNCHANGED <<token, entry, shown, removal>>

LEMMA AsksMoves ==
    ASSUME DownloadInv, NEW a \in Attempts, Asks(a)
    PROVE  /\ ThreadMoves(a) /\ at'[a].th = "asking" /\ at'[a].fd = "none"
           /\ UNCHANGED <<partial, installed, recorded, torn>>
           /\ crossed \subseteq crossed'
           /\ at[a].rom \notin crossed' =>
                 \A b \in Attempts \ {a} : at[b].rom = at[a].rom => ~AtWork(b)
<1>1. at[a] \in AttemptRecord /\ at \in [Attempts -> AttemptRecord]
    BY DEF DownloadInv, ShapeInv
<1> DEFINE have == IF at[a].resume THEN Size(at[a].rom) ELSE 0
           u == Asking(at[a], have)
<1>2. at' = [at EXCEPT ![a] = u]
    BY <1>1 DEF Asks, Asking, AttemptFields, AttemptRecord
<1>3. u.pc = at[a].pc /\ u.rom = at[a].rom /\ u.th = "asking" /\ u.fd = "none"
  <2> HIDE DEF have
  <2>1. ASSUME NEW r \in AttemptRecord
        PROVE  /\ Asking(r, have).pc = r.pc /\ Asking(r, have).rom = r.rom
               /\ Asking(r, have).th = "asking" /\ Asking(r, have).fd = "none"
      BY <2>1 DEF Asking, AttemptFields, AttemptRecord
  <2> QED BY <1>1, <2>1
<1> HIDE DEF u
<1>4. /\ at'[a] = u /\ \A b \in Attempts \ {a} : at'[b] = at[b]
      /\ UNCHANGED <<token, entry, shown, removal, partial, installed, recorded, torn>>
    BY <1>1, <1>2 DEF Asks, told, files
<1>5. crossed \subseteq crossed'
      /\ (at[a].rom \notin crossed' =>
             \A b \in Attempts \ {a} : at[b].rom = at[a].rom => ~AtWork(b))
    BY DEF Asks
<1> QED BY <1>3, <1>4, <1>5 DEF ThreadMoves

LEMMA OpenMoves ==
    ASSUME DownloadInv, NEW a \in Attempts, NEW append, NEW nxt, NEW content,
           Open(a, append, nxt, content)
    PROVE  /\ ThreadMoves(a)
           /\ at'[a].th = "streaming" /\ at'[a].fd = "partial" /\ at'[a].nxt = nxt
           /\ partial' = [partial EXCEPT ![at[a].rom] = content]
           /\ UNCHANGED <<installed, recorded, crossed>>
           /\ torn \subseteq torn'
           /\ append /\ at[a].rom \notin torn' => Size(at[a].rom) = at[a].have
<1>1. at[a] \in AttemptRecord /\ at \in [Attempts -> AttemptRecord]
    BY DEF DownloadInv, ShapeInv
<1> DEFINE q == at[a]
           u == [q EXCEPT !.th = "streaming", !.fd = "partial", !.have = 0,
                          !.append = append, !.nxt = nxt]
<1>2. at' = [at EXCEPT ![a] = u]
    BY <1>1 DEF Open, AttemptFields, AttemptRecord
<1>3. u.pc = q.pc /\ u.rom = q.rom /\ u.th = "streaming" /\ u.fd = "partial" /\ u.nxt = nxt
    BY <1>1 DEF AttemptFields, AttemptRecord
<1> HIDE DEF u
<1>4. at'[a] = u /\ \A b \in Attempts \ {a} : at'[b] = at[b]
    BY <1>1, <1>2
<1>5. /\ partial' = [partial EXCEPT ![at[a].rom] = content]
      /\ UNCHANGED <<token, entry, shown, removal, installed, recorded, crossed>>
    BY DEF Open, told
<1>6. torn \subseteq torn' /\ (append /\ at[a].rom \notin torn' => Size(at[a].rom) = at[a].have)
    BY DEF Open
<1> QED BY <1>3, <1>4, <1>5, <1>6 DEF ThreadMoves

\* After a block the thread goes on to the next, or is over: stopped, or done.
LEMMA WriteMoves ==
    ASSUME DownloadInv, NEW a \in Attempts, Write(a)
    PROVE  /\ at[a].th = "streaming" /\ ThreadMoves(a)
           /\ \/ at'[a].th \in {"aborted", "none"} /\ at'[a].fd = "none"
              \/ /\ at[a].nxt < Blocks /\ at'[a].nxt = at[a].nxt + 1
                 /\ at'[a].th = "streaming" /\ at'[a].fd = at[a].fd
              \/ ~(at[a].nxt < Blocks) /\ at'[a].th \in {"done", "none"} /\ at'[a].fd = "none"
           /\ UNCHANGED <<recorded, crossed, torn>>
<1>1. at[a] \in AttemptRecord /\ at \in [Attempts -> AttemptRecord] /\ at[a].th = "streaming"
    BY DEF DownloadInv, ShapeInv, Write
<1> DEFINE q == [at[a] EXCEPT !.tick = TRUE]
           s == [at EXCEPT ![a] = q]
           n == at[a].nxt + 1
           v == [q EXCEPT !.nxt = n]
<1>2. q \in AttemptRecord /\ q.pc = at[a].pc /\ q.rom = at[a].rom /\ q.fd = at[a].fd
      /\ q.th = "streaming" /\ q.nxt = at[a].nxt
    BY <1>1, TickChanges, TickAlike DEF Alike
<1>3. s \in [Attempts -> AttemptRecord] /\ s[a] = q /\ \A b \in Attempts \ {a} : s[b] = at[b]
  <2> HIDE DEF q
  <2> QED BY <1>1, <1>2
<1>4. UNCHANGED <<token, entry, shown, removal, recorded, crossed, torn>>
    BY DEF Write, told
<1>5. CASE at' = Closed(at, a, "aborted")
    BY <1>1, <1>4, <1>5, ClosedAnswers DEF ThreadMoves
<1>6. CASE ~(at[a].nxt < Blocks) /\ at' = Closed(s, a, "done")
  <2> HIDE DEF s, q
  <2> DEFINE t == Closed(s, a, "done")
  <2>1. /\ \A b \in Attempts \ {a} : t[b] = s[b]
        /\ t[a].pc = s[a].pc /\ t[a].rom = s[a].rom /\ t[a].fd = "none"
        /\ t[a].th = IF s[a].pc \in Over THEN "none" ELSE "done"
      BY <1>3, ClosedAnswers
  <2>2. at' = t
      BY <1>6
  <2> HIDE DEF t
  <2> QED BY <1>1, <1>2, <1>3, <1>4, <1>6, <2>1, <2>2 DEF ThreadMoves
<1>7. CASE at[a].nxt < Blocks /\ at' = [s EXCEPT ![a].nxt = @ + 1]
  <2>1. v.nxt = n /\ v.pc = q.pc /\ v.rom = q.rom /\ v.fd = q.fd /\ v.th = q.th
    <3> HIDE DEF n, q
    <3> QED BY <1>2 DEF AttemptFields, AttemptRecord
  <2> HIDE DEF q
  <2>2. at' = [at EXCEPT ![a] = v]
      BY <1>1, <1>2, <1>3, <1>7
  <2> HIDE DEF v
  <2>3. at'[a] = v /\ \A b \in Attempts \ {a} : at'[b] = at[b]
      BY <1>1, <2>2
  <2> QED BY <1>1, <1>2, <1>4, <1>7, <2>1, <2>3 DEF ThreadMoves
<1> QED BY <1>5, <1>6, <1>7 DEF Write

\* A thread that closes its file is over.
LEMMA ClosesMoves ==
    ASSUME DownloadInv, NEW a \in Attempts, NEW th \in {"failed", "placed", "unplaced"},
           at' = Closed(at, a, th), UNCHANGED <<token, entry, shown, removal>>
    PROVE  /\ ThreadMoves(a) /\ at'[a].fd = "none"
           /\ at'[a].th = IF at[a].pc \in Over THEN "none" ELSE th
<1>1. at \in [Attempts -> AttemptRecord]
    BY DEF DownloadInv, ShapeInv
<1> DEFINE t == Closed(at, a, th)
<1>2. /\ \A b \in Attempts \ {a} : t[b] = at[b]
      /\ t[a].pc = at[a].pc /\ t[a].rom = at[a].rom /\ t[a].fd = "none"
      /\ t[a].th = IF at[a].pc \in Over THEN "none" ELSE th
    BY <1>1, ClosedAnswers
<1>3. at' = t
    OBVIOUS
<1> HIDE DEF t
<1> QED BY <1>2, <1>3 DEF ThreadMoves

\* The partial file takes the target's place, its handles with it.
LEMMA RenameMoves ==
    ASSUME DownloadInv, NEW a \in Attempts, Rename(a), partial[at[a].rom] # NoFile
    PROVE  /\ at[a].th = "placing" /\ at'[a].th = "renamed"
           /\ \A b \in Attempts : at'[b].pc = at[b].pc /\ at'[b].rom = at[b].rom
           /\ \A b \in Attempts \ {a} : Alike(at[b], at'[b])
           /\ \A b \in Attempts :
                 /\ at[b].rom # at[a].rom => at'[b].fd = at[b].fd
                 /\ at[b].fd \in {"none", "orphan"} => at'[b].fd = at[b].fd
           /\ partial' = [partial EXCEPT ![at[a].rom] = NoFile]
           /\ installed' = [installed EXCEPT ![at[a].rom] = partial[at[a].rom]]
           /\ UNCHANGED <<token, entry, shown, recorded, removal, crossed, torn>>
<1>1. at[a] \in AttemptRecord /\ at \in [Attempts -> AttemptRecord] /\ at[a].th = "placing"
    BY DEF DownloadInv, ShapeInv, Rename
<1> DEFINE r == at[a].rom
           q == [at[a] EXCEPT !.th = "renamed"]
           s == [at EXCEPT ![a] = q]
           t == Follows(s, r, "installed", "orphan")
           w == Follows(t, r, "partial", "installed")
<1>2. /\ at' = w
      /\ installed' = [installed EXCEPT ![r] = partial[r]]
      /\ partial' = [partial EXCEPT ![r] = NoFile]
      /\ UNCHANGED <<token, entry, shown, recorded, removal, crossed, torn>>
    BY DEF Rename, told
<1>3. q \in AttemptRecord /\ q.pc = at[a].pc /\ q.rom = at[a].rom /\ q.fd = at[a].fd /\ q.th = "renamed"
  <2>1. at[a].pc # "unused"
      BY <1>1 DEF AttemptRecord
  <2>2. q.th = "renamed"
      BY <1>1 DEF AttemptFields, AttemptRecord
  <2> QED BY <1>1, <2>1, <2>2, ThreadChanges
<1>4. s \in [Attempts -> AttemptRecord] /\ s[a] = q /\ \A b \in Attempts \ {a} : s[b] = at[b]
  <2> HIDE DEF q
  <2> QED BY <1>1, <1>3
<1> HIDE DEF s, r, q
<1>5. /\ t \in [Attempts -> AttemptRecord]
      /\ \A b \in Attempts :
            /\ t[b].pc = s[b].pc /\ Alike(s[b], t[b])
            /\ t[b].fd = IF s[b].rom = r /\ s[b].fd = "installed" THEN "orphan" ELSE s[b].fd
    BY <1>4, FollowsStays, FollowsKeeps
<1> HIDE DEF t
<1>6. \A b \in Attempts :
            /\ w[b].pc = t[b].pc /\ Alike(t[b], w[b])
            /\ w[b].fd = IF t[b].rom = r /\ t[b].fd = "partial" THEN "installed" ELSE t[b].fd
    BY <1>5, FollowsStays
<1> HIDE DEF w
<1>7. \A b \in Attempts : s[b].pc = at[b].pc /\ s[b].rom = at[b].rom /\ s[b].fd = at[b].fd
    BY <1>3, <1>4
<1>8. \A b \in Attempts :
          /\ at'[b].pc = at[b].pc /\ at'[b].rom = at[b].rom
          /\ Alike(s[b], at'[b])
          /\ at'[b].fd = IF at[b].rom # r THEN at[b].fd
                         ELSE IF at[b].fd = "installed" THEN "orphan"
                         ELSE IF at[b].fd = "partial" THEN "installed" ELSE at[b].fd
    BY <1>2, <1>5, <1>6, <1>7 DEF Alike
<1>9. at'[a].th = "renamed" /\ \A b \in Attempts \ {a} : Alike(at[b], at'[b])
    BY <1>3, <1>4, <1>8 DEF Alike
<1>10. \A b \in Attempts :
          /\ at[b].rom # r => at'[b].fd = at[b].fd
          /\ at[b].fd \in {"none", "orphan"} => at'[b].fd = at[b].fd
    BY <1>8
<1> QED BY <1>1, <1>2, <1>8, <1>9, <1>10 DEF r

-----------------------------------------------------------------------------
(* Where a thread can be while its task is at a place. *)

StageOf(q) ==
    /\ q.fd # "none" => q.th = "streaming"
    /\ q.pc \in {"unused", "starting", "spawned", "waiting"} => q.th = "none"
    /\ q.pc = "fetching" => q.th \notin {"placing", "renamed", "placed", "unplaced"}
    /\ q.pc \in {"committing", "settling"} => q.th \in {"placing", "renamed", "placed", "unplaced"}
    /\ q.pc = "finishing" => q.th = "placed"

StageInv == \A a \in Attempts : StageOf(at[a])

LEMMA StayKeepsStage ==
    ASSUME NEW b \in Attempts, StageOf(at[b]), at'[b].pc = at[b].pc, Stays(b)
    PROVE  StageOf(at'[b])
BY DEF StageOf, Stays, Alike, HandleFollows

LEMMA StageOthers ==
    ASSUME StageInv, NEW a \in Attempts, OthersStay(a), StageOf(at'[a])
    PROVE  StageInv'
BY StayKeepsStage DEF StageInv, OthersStay

LEMMA StageCalm ==
    ASSUME StageInv, AllStay
    PROVE  StageInv'
BY StayKeepsStage DEF StageInv, AllStay

LEMMA StageGoesOn ==
    ASSUME StageInv, NEW a \in Attempts, GoesOn(a)
    PROVE  StageInv'
<1>1. StageOf(at[a]) /\ OthersStay(a)
    BY DEF StageInv, GoesOn
<1>2. CASE Advances(a)
    BY <1>1, <1>2, StageOthers DEF Advances, StageOf, Stays, Alike, HandleFollows
<1>3. CASE Settles(a)
    BY <1>1, <1>3, StageOthers DEF Settles, StageOf, Stays, Alike, HandleFollows
<1>4. CASE Completes(a)
    BY <1>1, <1>4, StageOthers DEF Completes, StageOf, Stays, Alike, HandleFollows
<1>5. CASE Waits(a)
    BY <1>1, <1>5, StageOthers DEF Waits, StageOf, Stays, Alike, HandleFollows
<1>6. CASE IsOver(a)
  <2>1. Rests(a) \/ Stays(a)
      BY <1>6 DEF IsOver
  <2>2. at'[a].fd # "none" => at'[a].th = "streaming"
      BY <1>1, <2>1 DEF StageOf, Rests, Stays, Alike, HandleFollows
  <2>3. at'[a].pc \notin {"unused", "starting", "spawned", "waiting", "fetching",
                          "committing", "settling", "finishing"}
      BY <1>6 DEF IsOver, Over
  <2>4. StageOf(at'[a])
      BY <2>2, <2>3 DEF StageOf
  <2> QED BY <1>1, <2>4, StageOthers
<1>7. CASE HandsOver(a)
    BY <1>1, <1>7, StageOthers DEF HandsOver, StageOf
<1> QED BY <1>2, <1>3, <1>4, <1>5, <1>6, <1>7 DEF GoesOn

LEMMA SameOthers ==
    ASSUME NEW a, \A b \in Attempts \ {a} : at'[b] = at[b]
    PROVE  OthersStay(a)
BY SameStays DEF OthersStay

\* Attempt a's thread is somewhere its task lets it be.
LEMMA StageThread ==
    ASSUME StageInv, NEW a \in Attempts, ThreadMoves(a), StageOf(at'[a])
    PROVE  StageInv'
BY StageOthers, SameOthers DEF ThreadMoves

\* An attempt whose thread is at work is past its start.
LEMMA StageTransfer ==
    ASSUME DownloadInv, StageInv, NEW a \in Attempts, Transfer(a)
    PROVE  StageInv'
<1>1. StageOf(at[a])
    BY DEF StageInv
<1>2. CASE Ask(a) \/ Retry(a)
  <2>1. Asks(a) /\ (at[a].pc = "fetching" \/ at[a].th \in {"asking", "streaming"})
      BY <1>2 DEF Ask, Retry
  <2>2. ThreadMoves(a) /\ at'[a].th = "asking" /\ at'[a].fd = "none" /\ at'[a].pc = at[a].pc
      BY <2>1, AsksMoves DEF ThreadMoves
  <2>3. StageOf(at'[a])
      BY <1>1, <2>1, <2>2 DEF StageOf
  <2> QED BY <2>2, <2>3, StageThread
<1>3. CASE AnswerPart(a) \/ AnswerWhole(a)
  <2>1. at[a].th = "asking" /\ \E append, nxt, content : Open(a, append, nxt, content)
      BY <1>3 DEF AnswerPart, AnswerWhole
  <2>2. ThreadMoves(a) /\ at'[a].th = "streaming" /\ at'[a].pc = at[a].pc
      BY <2>1, OpenMoves DEF ThreadMoves
  <2>3. StageOf(at'[a])
      BY <1>1, <2>1, <2>2 DEF StageOf
  <2> QED BY <2>2, <2>3, StageThread
<1>4. CASE Write(a)
  <2>1. /\ at[a].th = "streaming" /\ ThreadMoves(a) /\ at'[a].pc = at[a].pc
        /\ at'[a].th \in {"aborted", "none", "streaming", "done"}
        /\ at'[a].fd # "none" => at'[a].th = "streaming"
      BY <1>4, WriteMoves DEF ThreadMoves
  <2>2. StageOf(at'[a])
      BY <1>1, <2>1 DEF StageOf
  <2> QED BY <2>1, <2>2, StageThread
<1>5. CASE GiveUp(a)
  <2>1. at[a].th \in {"asking", "streaming"} /\ at' = Closed(at, a, "failed")
        /\ UNCHANGED <<token, entry, shown, removal>>
      BY <1>5 DEF GiveUp, told
  <2>2. /\ ThreadMoves(a) /\ at'[a].pc = at[a].pc /\ at'[a].fd = "none"
        /\ at'[a].th = IF at[a].pc \in Over THEN "none" ELSE "failed"
      BY <2>1, ClosesMoves DEF ThreadMoves
  <2>3. StageOf(at'[a])
      BY <1>1, <2>1, <2>2 DEF StageOf
  <2> QED BY <2>2, <2>3, StageThread
<1>6. CASE Record(a) \/ (Rename(a) /\ partial[at[a].rom] = NoFile)
  <2>1. PICK th \in {"placed", "unplaced"} : at' = Closed(at, a, th)
      BY <1>6 DEF Record, Rename
  <2>2. at[a].th \in {"placing", "renamed"} /\ UNCHANGED <<token, entry, shown, removal>>
      BY <1>6 DEF Record, Rename, told
  <2>3. /\ ThreadMoves(a) /\ at'[a].pc = at[a].pc /\ at'[a].fd = "none"
        /\ at'[a].th = IF at[a].pc \in Over THEN "none" ELSE th
      BY <2>1, <2>2, ClosesMoves DEF ThreadMoves
  <2>4. at[a].pc # "finishing"
      BY <1>1, <2>2 DEF StageOf
  <2>5. StageOf(at'[a])
      BY <1>1, <2>2, <2>3, <2>4 DEF StageOf, Over
  <2> QED BY <2>3, <2>5, StageThread
<1>7. CASE Rename(a) /\ partial[at[a].rom] # NoFile
  <2>1. /\ at[a].th = "placing" /\ at'[a].th = "renamed"
        /\ \A b \in Attempts : at'[b].pc = at[b].pc /\ at'[b].rom = at[b].rom
        /\ \A b \in Attempts \ {a} : Alike(at[b], at'[b])
        /\ \A b \in Attempts : at[b].fd = "none" => at'[b].fd = "none"
      BY <1>7, RenameMoves
  <2>2. \A b \in Attempts : StageOf(at'[b])
      BY <2>1 DEF StageInv, StageOf, Alike
  <2> QED BY <2>2 DEF StageInv
<1> QED BY <1>2, <1>3, <1>4, <1>5, <1>6, <1>7 DEF Transfer

LEMMA StageStarts ==
    ASSUME DownloadInv, StageInv, NEW a \in Attempts, NEW r \in Roms,
           StartDownload(a, r) \/ ResumeDownload(a, r)
    PROVE  StageInv'
<1>1. StageOf(at'[a]) /\ OthersStay(a)
    BY StartMoves, SameOthers DEF StageOf
<1> QED BY <1>1, StageOthers

LEMMA StageAdmits ==
    ASSUME DownloadInv, StageInv, NEW a \in Attempts, Admit(a)
    PROVE  StageInv'
<1>1. OthersStay(a) /\ Stays(a) /\ at[a].pc = "starting" /\ at'[a].pc = "spawned" /\ StageOf(at[a])
    BY AdmitMoves DEF StageInv
<1>2. StageOf(at'[a])
    BY <1>1 DEF StageOf, Stays, Alike, HandleFollows
<1> QED BY <1>1, <1>2, StageOthers

-----------------------------------------------------------------------------
(* One task of a game is under way, and the game's entry is its own. *)

OneLive ==
    \A a \in Attempts : at[a].pc \in Live /\ at[a].rom \notin crossed => token[at[a].rom] = a

EntryOf(a) ==
    at[a].rom \notin crossed =>
        /\ at[a].pc \in AtWorkPcs => entry[at[a].rom] \in {None, "queued", "downloading"}
        /\ at[a].pc = "finishing" => entry[at[a].rom] \in {None, "completed"}

EntriesFit == \A a \in Attempts : EntryOf(a)

\* Of two tasks of one game one is not under way.
LEMMA LiveIsAlone ==
    ASSUME OneLive, NEW a \in Attempts, NEW b \in Attempts, at[a].pc \in Live,
           at[b].pc \in Live, at[a].rom = at[b].rom, at[a].rom \notin crossed
    PROVE  a = b
BY DEF OneLive

\* What changes at a step of attempt a where the others keep their places.
LEMMA OthersKeepEntry ==
    ASSUME OneLive, EntriesFit, NEW a \in Attempts, at[a].pc \in Live, at'[a].rom = at[a].rom,
           \A b \in Attempts \ {a} : at'[b].pc = at[b].pc /\ at'[b].rom = at[b].rom,
           \A r \in Roms : r # at[a].rom => entry'[r] = entry[r],
           \A b \in Attempts : at[b].rom \in Roms,
           crossed \subseteq crossed', EntryOf(a)'
    PROVE  EntriesFit'
<1> SUFFICES ASSUME NEW b \in Attempts, b # a PROVE EntryOf(b)'
    BY DEF EntriesFit
<1>1. at'[b].pc = at[b].pc /\ at'[b].rom = at[b].rom /\ at[b].rom \in Roms /\ EntryOf(b)
    BY DEF EntriesFit
<1>2. CASE at[b].pc \in Live /\ at[b].rom = at[a].rom /\ at[b].rom \notin crossed
    BY <1>2, LiveIsAlone
<1>3. CASE at[b].rom # at[a].rom
    BY <1>1, <1>3 DEF EntryOf
<1>4. CASE at[b].rom \in crossed \/ at[b].pc \notin Live
    BY <1>1, <1>4 DEF EntryOf, AtWorkPcs, Live
<1> QED BY <1>2, <1>3, <1>4

LEMMA GamesKept ==
    ASSUME NEW a \in Attempts, GoesOn(a)
    PROVE  /\ \A b \in Attempts : at'[b].rom = at[b].rom
           /\ \A b \in Attempts \ {a} : at'[b].pc = at[b].pc
<1>1. at'[a].rom = at[a].rom
    BY DEF GoesOn, Advances, Settles, Completes, Waits, IsOver, HandsOver, Stays, Rests, Alike
<1> QED BY <1>1 DEF GoesOn, OthersStay, Stays, Alike

LEMMA LiveGoesOn ==
    ASSUME DownloadInv, OneLive, NEW a \in Attempts, GoesOn(a)
    PROVE  OneLive'
<1>1. token \in [Roms -> Attempts \cup {None}]
    BY DEF DownloadInv, ShapeInv, RestOK
<1>2. \A b \in Attempts : at'[b].rom = at[b].rom /\ at[b].rom \in Roms
    BY GamesKept, RomOfAttempt
<1>3. \A b \in Attempts \ {a} : at'[b].pc = at[b].pc
    BY GamesKept
<1>4. UNCHANGED crossed
    BY DEF GoesOn
<1>5. CASE IsOver(a)
  <2>1. at'[a].pc \notin Live
      BY <1>5 DEF IsOver, Over, Live
  <2>2. \A r \in Roms : token[r] # a => token'[r] = token[r]
      BY <1>1, <1>5 DEF IsOver, Release
  <2> QED BY <1>2, <1>3, <1>4, <2>1, <2>2 DEF OneLive
<1>6. CASE ~IsOver(a)
  <2>1. UNCHANGED token /\ at[a].pc \in Live
      BY <1>6 DEF GoesOn, Advances, Settles, Completes, Waits, HandsOver, Live, AtWorkPcs
  <2> QED BY <1>2, <1>3, <1>4, <2>1 DEF OneLive
<1> QED BY <1>5, <1>6

LEMMA EntryGoesOn ==
    ASSUME DownloadInv, OneLive, EntriesFit, NEW a \in Attempts, GoesOn(a)
    PROVE  EntriesFit'
<1>1. entry \in [Roms -> Statuses \cup {None}]
    BY DEF DownloadInv, ShapeInv, RestOK
<1>2. \A b \in Attempts : at'[b].rom = at[b].rom /\ at[b].rom \in Roms
    BY GamesKept, RomOfAttempt
<1>3. \A b \in Attempts \ {a} : at'[b].pc = at[b].pc
    BY GamesKept
<1>4. UNCHANGED crossed /\ EntryOf(a)
    BY DEF GoesOn, EntriesFit
<1>5. ASSUME NEW S, Marked(a, S)
      PROVE  /\ \A r \in Roms : r # at[a].rom => entry'[r] = entry[r]
             /\ entry'[at[a].rom] \in S
    BY <1>1, <1>2, <1>5 DEF Marked
<1>6. CASE Advances(a)
  <2>1. EntryOf(a)'
      BY <1>2, <1>5, <1>6 DEF EntryOf, Advances
  <2> QED BY <1>2, <1>3, <1>4, <1>5, <1>6, <2>1, OthersKeepEntry DEF Advances, Live
<1>7. CASE Settles(a)
  <2>1. EntryOf(a)'
      BY <1>7 DEF EntryOf, Settles, AtWorkPcs
  <2> QED BY <1>2, <1>3, <1>4, <1>5, <1>7, <2>1, OthersKeepEntry DEF Settles, AtWorkPcs, Live
<1>8. CASE Completes(a)
  <2>1. EntryOf(a)'
      BY <1>2, <1>5, <1>8 DEF EntryOf, Completes, AtWorkPcs
  <2> QED BY <1>2, <1>3, <1>4, <1>5, <1>8, <2>1, OthersKeepEntry DEF Completes, Live
<1>9. CASE Waits(a) \/ HandsOver(a)
  <2>1. UNCHANGED entry /\ at[a].pc \in AtWorkPcs /\ at'[a].pc # "finishing" /\ at[a].pc \in Live
      BY <1>9 DEF Waits, HandsOver, AtWorkPcs, Live
  <2>2. EntryOf(a)'
      BY <1>2, <1>4, <2>1 DEF EntryOf
  <2> QED BY <1>2, <1>3, <1>4, <2>1, <2>2, OthersKeepEntry
<1>10. CASE IsOver(a)
  <2>1. at'[a].pc \notin AtWorkPcs /\ at'[a].pc # "finishing"
      BY <1>10 DEF IsOver, Over, AtWorkPcs
  <2>2. \A r \in Roms : entry'[r] \in {entry[r], None}
      BY <1>1, <1>10 DEF IsOver
  <2> QED BY <1>2, <1>3, <1>4, <2>1, <2>2 DEF EntriesFit, EntryOf
<1> QED BY <1>6, <1>7, <1>8, <1>9, <1>10 DEF GoesOn

\* Where no task moves, entries are dropped at most.
LEMMA TasksRest ==
    ASSUME OneLive, EntriesFit, \A b \in Attempts : at'[b].pc = at[b].pc /\ at'[b].rom = at[b].rom,
           \A b \in Attempts : at[b].rom \in Roms,
           \A r \in Roms : entry'[r] \in {entry[r], None}, UNCHANGED token, crossed \subseteq crossed'
    PROVE  OneLive' /\ EntriesFit'
<1>1. OneLive'
    BY DEF OneLive
<1>2. EntriesFit'
    BY DEF EntriesFit, EntryOf
<1> QED BY <1>1, <1>2

LEMMA TasksCalm ==
    ASSUME DownloadInv, OneLive, EntriesFit, Calm
    PROVE  OneLive' /\ EntriesFit'
<1>1. \A b \in Attempts : at'[b].pc = at[b].pc /\ at'[b].rom = at[b].rom /\ at[b].rom \in Roms
    BY RomOfAttempt DEF Calm, AllStay, Stays, Alike
<1> QED BY <1>1, TasksRest DEF Calm

\* No thread moves a task.
LEMMA ThreadsOnly ==
    ASSUME DownloadInv, NEW a \in Attempts, Transfer(a)
    PROVE  /\ \A b \in Attempts : at'[b].pc = at[b].pc /\ at'[b].rom = at[b].rom
           /\ UNCHANGED <<token, entry, shown, removal>> /\ crossed \subseteq crossed' /\ torn \subseteq torn'
<1>1. CASE Ask(a) \/ Retry(a)
  <2>1. Asks(a)
      BY <1>1 DEF Ask, Retry
  <2> QED BY <2>1, AsksMoves DEF ThreadMoves
<1>2. CASE AnswerPart(a) \/ AnswerWhole(a)
  <2>1. \E append, nxt, content : Open(a, append, nxt, content)
      BY <1>2 DEF AnswerPart, AnswerWhole
  <2> QED BY <2>1, OpenMoves DEF ThreadMoves
<1>3. CASE Write(a)
    BY <1>3, WriteMoves DEF ThreadMoves
<1>4. CASE GiveUp(a) \/ Record(a) \/ (Rename(a) /\ partial[at[a].rom] = NoFile)
  <2>1. PICK th \in {"failed", "placed", "unplaced"} : at' = Closed(at, a, th)
      BY <1>4 DEF GiveUp, Record, Rename
  <2>2. UNCHANGED <<token, entry, shown, removal, crossed, torn>>
      BY <1>4 DEF GiveUp, Record, Rename, told
  <2> QED BY <2>1, <2>2, ClosesMoves DEF ThreadMoves
<1>5. CASE Rename(a) /\ partial[at[a].rom] # NoFile
    BY <1>5, RenameMoves
<1> QED BY <1>1, <1>2, <1>3, <1>4, <1>5 DEF Transfer

LEMMA TasksTransfer ==
    ASSUME DownloadInv, OneLive, EntriesFit, NEW a \in Attempts, Transfer(a)
    PROVE  OneLive' /\ EntriesFit'
BY ThreadsOnly, TasksRest, RomOfAttempt

LEMMA TasksStart ==
    ASSUME DownloadInv, OneLive, EntriesFit, NEW a \in Attempts, NEW r \in Roms,
           StartDownload(a, r) \/ ResumeDownload(a, r)
    PROVE  OneLive' /\ EntriesFit'
<1>1. /\ at'[a].pc = "starting" /\ \A b \in Attempts \ {a} : at'[b] = at[b]
      /\ UNCHANGED <<token, entry>> /\ crossed \subseteq crossed'
    BY StartMoves
<1>2. OneLive'
    BY <1>1 DEF OneLive, Live
<1>3. EntriesFit'
  <2> SUFFICES ASSUME NEW b \in Attempts PROVE EntryOf(b)'
      BY DEF EntriesFit
  <2>1. CASE b = a
      BY <1>1, <2>1 DEF EntryOf, AtWorkPcs
  <2>2. CASE b # a
      BY <1>1, <2>2 DEF EntriesFit, EntryOf
  <2> QED BY <2>1, <2>2
<1> QED BY <1>2, <1>3

LEMMA TasksAdmit ==
    ASSUME DownloadInv, OneLive, EntriesFit, NEW a \in Attempts, Admit(a)
    PROVE  OneLive' /\ EntriesFit'
<1>1. token \in [Roms -> Attempts \cup {None}] /\ entry \in [Roms -> Statuses \cup {None}]
    BY DEF DownloadInv, ShapeInv, RestOK
<1>2. /\ at[a].pc = "starting" /\ at'[a].pc = "spawned"
      /\ \A b \in Attempts : at'[b].rom = at[b].rom /\ at[b].rom \in Roms
      /\ \A b \in Attempts \ {a} : at'[b].pc = at[b].pc
      /\ entry' = [entry EXCEPT ![at[a].rom] = "queued"]
      /\ token' = [token EXCEPT ![at[a].rom] = a]
      /\ UNCHANGED crossed
    BY AdmitMoves, RomOfAttempt DEF OthersStay, Stays, Alike
<1>3. at[a].rom \notin crossed => token[at[a].rom] = None
    BY <1>2 DEF DownloadInv, ClaimInv
<1>4. \A b \in Attempts : at[b].pc \in Live /\ at[b].rom \notin crossed => at[b].rom # at[a].rom
    BY <1>3, DownloadsAssumption DEF OneLive
<1>5. /\ \A r \in Roms : r # at[a].rom => token'[r] = token[r] /\ entry'[r] = entry[r]
      /\ token'[at[a].rom] = a /\ entry'[at[a].rom] = "queued"
    BY <1>1, <1>2
<1>6. OneLive'
    BY <1>2, <1>4, <1>5 DEF OneLive
<1>7. EntriesFit'
  <2> SUFFICES ASSUME NEW b \in Attempts PROVE EntryOf(b)'
      BY DEF EntriesFit
  <2>1. CASE b = a
      BY <1>2, <1>5, <2>1 DEF EntryOf
  <2>2. CASE b # a
      BY <1>2, <1>4, <1>5, <2>2 DEF EntriesFit, EntryOf, Live, AtWorkPcs
  <2> QED BY <2>1, <2>2
<1> QED BY <1>6, <1>7

-----------------------------------------------------------------------------
(* The files, and the one thread that is at work on them. *)

\* Of a game whose attempts did not cross one thread is at work.
OneAtWork ==
    \A a, b \in Attempts :
        /\ at[a].rom = at[b].rom /\ at[a].rom \notin crossed
        /\ AtWork(a) /\ AtWork(b)
        => a = b

\* The blocks of the game from the first on.
Sound(c) == c # NoFile => Len(c) <= Blocks /\ \A i \in 1..Len(c) : c[i] = i

\* What thread a finds of its game, c on disk: where it writes next, or all of it.
ThreadFits(q, c) ==
    /\ q.th = "streaming" =>
          /\ q.nxt \in 1..Blocks /\ q.fd # "installed"
          /\ q.fd = "partial" => c # NoFile /\ Len(c) + 1 = q.nxt
          /\ q.fd # "partial" => c = NoFile
    /\ (q.th = "done" /\ q.pc = "fetching") \/ q.th = "placing" => c \in {NoFile, Whole}

FilesFit(r) ==
    /\ Sound(partial[r]) /\ installed[r] \in {NoFile, Whole}
    /\ \A a \in Attempts : at[a].rom = r => ThreadFits(at[a], partial[r])

FileInv == \A r \in Roms \ (crossed \cup torn) : FilesFit(r)

WorkInv == OneAtWork /\ FileInv

\* Attempt b's thread does not start to work: it goes on where it was, or rests.
Quiet(b) ==
    AtWork(b)' =>
        /\ AtWork(b) /\ at'[b].rom = at[b].rom /\ at'[b].nxt = at[b].nxt
        /\ at'[b].th = at[b].th \/ (at[b].th = "done" /\ at'[b].th = "placing")
        /\ HandleFollows(at[b], at'[b], partial')

\* A step of quiet threads, in which files may go.
LEMMA QuietFile ==
    ASSUME NEW b \in Attempts, NEW r \in Roms, at'[b].rom = r, Quiet(b),
           ThreadFits(at[b], partial[r]), HandlesOpen(at, partial, installed)',
           partial'[r] \in {partial[r], NoFile}
    PROVE  ThreadFits(at'[b], partial'[r])
<1>1. CASE ~AtWork(b)'
    BY <1>1 DEF AtWork, Running, ThreadFits
<1>2. CASE AtWork(b)'
  <2>1. /\ AtWork(b) /\ at[b].rom = r /\ at'[b].nxt = at[b].nxt
        /\ at'[b].th = at[b].th \/ (at[b].th = "done" /\ at'[b].th = "placing")
        /\ HandleFollows(at[b], at'[b], partial')
      BY <1>2 DEF Quiet
  <2>2. (at'[b].th = "done" /\ at'[b].pc = "fetching") \/ at'[b].th = "placing"
            => partial'[r] \in {NoFile, Whole}
      BY <2>1 DEF AtWork, Running, ThreadFits
  <2>3. ASSUME at'[b].th = "streaming"
        PROVE  /\ at'[b].nxt \in 1..Blocks /\ at'[b].fd # "installed"
               /\ at'[b].fd = "partial" => partial'[r] # NoFile /\ Len(partial'[r]) + 1 = at'[b].nxt
               /\ at'[b].fd # "partial" => partial'[r] = NoFile
    <3>1. /\ at[b].th = "streaming" /\ at[b].nxt \in 1..Blocks /\ at[b].fd # "installed"
          /\ at[b].fd = "partial" => partial[r] # NoFile /\ Len(partial[r]) + 1 = at[b].nxt
          /\ at[b].fd # "partial" => partial[r] = NoFile
        BY <2>1, <2>3 DEF ThreadFits
    <3>2. CASE at'[b].fd = at[b].fd /\ at[b].fd = "partial"
        BY <2>1, <3>1, <3>2 DEF HandlesOpen
    <3>3. CASE at'[b].fd = at[b].fd /\ at[b].fd # "partial"
        BY <2>1, <3>1, <3>3
    <3>4. CASE at[b].fd = "partial" /\ at'[b].fd = "orphan" /\ partial'[r] = NoFile
        BY <2>1, <3>1, <3>4
    <3> QED BY <2>1, <3>1, <3>2, <3>3, <3>4 DEF HandleFollows
  <2> QED BY <2>2, <2>3 DEF ThreadFits
<1> QED BY <1>1, <1>2

LEMMA QuietKeeps ==
    ASSUME DownloadInv', WorkInv, \A b \in Attempts : Quiet(b),
           \A b \in Attempts : at'[b].rom \in Roms,
           \A b \in Attempts : at'[b].rom # at[b].rom => ~AtWork(b)',
           crossed \subseteq crossed', torn \subseteq torn',
           \A r \in Roms : /\ partial'[r] \in {partial[r], NoFile}
                           /\ installed'[r] \in {installed[r], NoFile}
    PROVE  WorkInv'
<1>1. OneAtWork'
    BY DEF WorkInv, OneAtWork, Quiet
<1>2. HandlesOpen(at, partial, installed)'
    BY DEF DownloadInv, ShapeInv
<1>3. FileInv'
  <2> SUFFICES ASSUME NEW r \in Roms, r \notin crossed', r \notin torn'
               PROVE  FilesFit(r)'
      BY DEF FileInv
  <2>1. FilesFit(r)
      BY DEF WorkInv, FileInv
  <2>2. Sound(partial'[r]) /\ installed'[r] \in {NoFile, Whole}
      BY <2>1 DEF FilesFit, Sound
  <2>3. ASSUME NEW b \in Attempts, at'[b].rom = r
        PROVE  ThreadFits(at'[b], partial'[r])
    <3>1. CASE AtWork(b)'
      <4>1. at[b].rom = r
          BY <2>3, <3>1 DEF Quiet
      <4> QED BY <1>2, <2>1, <2>3, <4>1, QuietFile DEF FilesFit
    <3>2. CASE ~AtWork(b)'
        BY <3>2 DEF AtWork, Running, ThreadFits
    <3> QED BY <3>1, <3>2
  <2> QED BY <2>2, <2>3 DEF FilesFit
<1> QED BY <1>1, <1>3 DEF WorkInv

LEMMA StayIsQuiet ==
    ASSUME NEW b \in Attempts, Stays(b), at'[b].pc = "fetching" => at[b].pc = "fetching" \/ at[b].th = "none"
    PROVE  Quiet(b)
BY DEF Stays, Alike, Quiet, AtWork

LEMMA RestIsQuiet ==
    ASSUME NEW b \in Attempts, at'[b].th \notin Running \cup {"done"}
    PROVE  Quiet(b)
BY DEF Quiet, AtWork

LEMMA WorkGoesOn ==
    ASSUME DownloadInv, DownloadInv', StageInv, WorkInv, NEW a \in Attempts, GoesOn(a)
    PROVE  WorkInv'
<1>1. \A b \in Attempts : at'[b].rom = at[b].rom /\ at[b].rom \in Roms
    BY GamesKept, RomOfAttempt
<1>2. \A b \in Attempts \ {a} : Quiet(b)
    BY StayIsQuiet DEF GoesOn, OthersStay
<1>3. Quiet(a)
  <2>1. CASE Advances(a)
    <3>1. at[a].th = "none"
        BY <2>1 DEF Advances, StageInv, StageOf
    <3> QED BY <2>1, <3>1, StayIsQuiet DEF Advances
  <2>2. CASE Settles(a) \/ Completes(a) \/ Waits(a)
      BY <2>2, StayIsQuiet DEF Settles, Completes, Waits
  <2>3. CASE IsOver(a)
    <3>1. at'[a].pc # "fetching"
        BY <2>3 DEF IsOver, Over
    <3>2. CASE Rests(a)
        BY <3>2, RestIsQuiet DEF Rests, Running
    <3> QED BY <2>3, <3>1, <3>2, StayIsQuiet DEF IsOver
  <2>4. CASE HandsOver(a)
      BY <2>4 DEF HandsOver, Quiet, AtWork, HandleFollows
  <2> QED BY <2>1, <2>2, <2>3, <2>4 DEF GoesOn
<1>4. /\ UNCHANGED <<installed, crossed, torn>>
      /\ partial' \in {partial, [partial EXCEPT ![at[a].rom] = NoFile]}
    BY DEF GoesOn, Advances, Settles, Completes, Waits, IsOver, HandsOver, PartialMayGo
<1>5. \A r \in Roms : /\ partial'[r] \in {partial[r], NoFile}
                      /\ installed'[r] \in {installed[r], NoFile}
    BY <1>4 DEF DownloadInv, ShapeInv, FilesOK
<1>6. \A b \in Attempts : Quiet(b)
    BY <1>2, <1>3
<1> QED BY <1>1, <1>4, <1>5, <1>6, QuietKeeps

LEMMA WorkCalm ==
    ASSUME DownloadInv, DownloadInv', WorkInv, Calm
    PROVE  WorkInv'
<1>1. \A b \in Attempts : at'[b].rom = at[b].rom /\ at[b].rom \in Roms /\ Quiet(b)
    BY RomOfAttempt, StayIsQuiet DEF Calm, AllStay, Stays, Alike
<1> QED BY <1>1, QuietKeeps DEF Calm

LEMMA WorkStart ==
    ASSUME DownloadInv, DownloadInv', WorkInv, NEW a \in Attempts, NEW r \in Roms,
           StartDownload(a, r) \/ ResumeDownload(a, r)
    PROVE  WorkInv'
<1>1. /\ at'[a].th = "none" /\ at'[a].rom = r
      /\ \A b \in Attempts \ {a} : at'[b] = at[b]
      /\ UNCHANGED <<partial, installed, torn>> /\ crossed \subseteq crossed'
    BY StartMoves
<1>2. ~AtWork(a)' /\ Quiet(a)
    BY <1>1, RestIsQuiet DEF AtWork, Running
<1>3. \A b \in Attempts \ {a} : Quiet(b)
    BY <1>1, SameStays, StayIsQuiet
<1>4. \A b \in Attempts : at'[b].rom \in Roms
    BY <1>1, RomOfAttempt
<1>5. \A b \in Attempts : Quiet(b) /\ (at'[b].rom # at[b].rom => ~AtWork(b)')
    BY <1>1, <1>2, <1>3
<1> QED BY <1>1, <1>4, <1>5, QuietKeeps

LEMMA WorkAdmit ==
    ASSUME DownloadInv, DownloadInv', WorkInv, NEW a \in Attempts, Admit(a)
    PROVE  WorkInv'
<1>1. /\ at'[a].pc = "spawned" /\ Stays(a) /\ OthersStay(a)
      /\ UNCHANGED <<partial, installed, torn, crossed>>
    BY AdmitMoves
<1>2. \A b \in Attempts : at'[b].rom = at[b].rom /\ at[b].rom \in Roms /\ Quiet(b)
    BY <1>1, RomOfAttempt, StayIsQuiet DEF OthersStay, Stays, Alike
<1> QED BY <1>1, <1>2, QuietKeeps

-----------------------------------------------------------------------------
(* A thread that works. *)

\* Where only attempt a's thread moves, and it was at work, only its game's
\* files are in question.
LEMMA WorksKeeps ==
    ASSUME DownloadInv, WorkInv, NEW a \in Attempts, ThreadMoves(a),
           AtWork(a) \/ (at[a].rom \notin crossed' =>
                             \A b \in Attempts \ {a} : at[b].rom = at[a].rom => ~AtWork(b)),
           crossed \subseteq crossed', torn \subseteq torn',
           \A r \in Roms : r # at[a].rom => partial'[r] = partial[r] /\ installed'[r] = installed[r],
           at[a].rom \notin crossed' \cup torn' =>
               /\ Sound(partial'[at[a].rom]) /\ installed'[at[a].rom] \in {NoFile, Whole}
               /\ ThreadFits(at'[a], partial'[at[a].rom])
    PROVE  WorkInv'
<1>1. /\ at'[a].rom = at[a].rom /\ at[a].rom \in Roms
      /\ \A b \in Attempts \ {a} : at'[b] = at[b]
    BY RomOfAttempt DEF ThreadMoves
<1>2. at[a].rom \notin crossed' => \A b \in Attempts \ {a} : at[b].rom = at[a].rom => ~AtWork(b)
    BY DEF WorkInv, OneAtWork
<1>3. \A b \in Attempts \ {a} : AtWork(b)' => AtWork(b)
    BY <1>1 DEF AtWork
<1>4. OneAtWork'
    BY <1>1, <1>2, <1>3 DEF WorkInv, OneAtWork
<1>5. FileInv'
  <2> SUFFICES ASSUME NEW r \in Roms, r \notin crossed', r \notin torn'
               PROVE  FilesFit(r)'
      BY DEF FileInv
  <2>1. FilesFit(r)
      BY DEF WorkInv, FileInv
  <2>2. CASE r # at[a].rom
      BY <1>1, <2>1, <2>2 DEF FilesFit
  <2>3. CASE r = at[a].rom
    <3>1. ASSUME NEW b \in Attempts, b # a, at'[b].rom = r PROVE ThreadFits(at'[b], partial'[r])
      <4>1. at'[b] = at[b] /\ ~AtWork(b)
          BY <1>1, <1>2, <2>3, <3>1
      <4> QED BY <4>1 DEF AtWork, Running, ThreadFits
    <3> QED BY <2>3, <3>1 DEF FilesFit
  <2> QED BY <2>2, <2>3
<1> QED BY <1>4, <1>5 DEF WorkInv

LEMMA WorkAsks ==
    ASSUME DownloadInv, WorkInv, NEW a \in Attempts, Asks(a)
    PROVE  WorkInv'
<1>1. /\ ThreadMoves(a) /\ at'[a].th = "asking"
      /\ UNCHANGED <<partial, installed, torn>> /\ crossed \subseteq crossed'
      /\ at[a].rom \notin crossed' =>
            \A b \in Attempts \ {a} : at[b].rom = at[a].rom => ~AtWork(b)
    BY AsksMoves
<1>2. at[a].rom \in Roms
    BY RomOfAttempt
<1>3. at[a].rom \notin crossed' \cup torn' =>
          /\ Sound(partial'[at[a].rom]) /\ installed'[at[a].rom] \in {NoFile, Whole}
          /\ ThreadFits(at'[a], partial'[at[a].rom])
    BY <1>1, <1>2 DEF WorkInv, FileInv, FilesFit, ThreadFits
<1> QED BY <1>1, <1>3, WorksKeeps

LEMMA WorkOpens ==
    ASSUME DownloadInv, WorkInv, NEW a \in Attempts, at[a].th = "asking",
           NEW append, NEW nxt, NEW content, Open(a, append, nxt, content),
           content # NoFile, nxt \in 1..Blocks,
           at[a].rom \notin crossed' \cup torn' => Sound(content) /\ Len(content) + 1 = nxt
    PROVE  WorkInv'
<1>1. /\ ThreadMoves(a) /\ at'[a].th = "streaming" /\ at'[a].fd = "partial" /\ at'[a].nxt = nxt
      /\ partial' = [partial EXCEPT ![at[a].rom] = content]
      /\ UNCHANGED <<installed, crossed>> /\ torn \subseteq torn'
    BY OpenMoves
<1>2. at[a].rom \in Roms /\ partial \in [Roms -> Contents]
    BY RomOfAttempt DEF DownloadInv, ShapeInv, FilesOK
<1>3. partial'[at[a].rom] = content /\ \A r \in Roms : r # at[a].rom => partial'[r] = partial[r]
    BY <1>1, <1>2
<1>4. AtWork(a)
    BY DEF AtWork, Running
<1>5. at[a].rom \notin crossed' \cup torn' =>
          /\ Sound(partial'[at[a].rom]) /\ installed'[at[a].rom] \in {NoFile, Whole}
          /\ ThreadFits(at'[a], partial'[at[a].rom])
    BY <1>1, <1>2, <1>3 DEF WorkInv, FileInv, FilesFit, ThreadFits
<1> QED BY <1>1, <1>3, <1>4, <1>5, WorksKeeps

\* A request's answer goes on where the partial file ends, or starts over.
LEMMA WorkAnswers ==
    ASSUME DownloadInv, WorkInv, NEW a \in Attempts, AnswerPart(a) \/ AnswerWhole(a)
    PROVE  WorkInv'
<1>1. at[a].th = "asking" /\ at[a].rom \in Roms
    BY RomOfAttempt DEF AnswerPart, AnswerWhole
<1>2. <<>> \in Seq(0..Blocks) /\ Len(<<>>) = 0 /\ Blocks \in Nat \ {0}
    BY DownloadsAssumption
<1>3. CASE AnswerWhole(a)
  <2> DEFINE c == <<>>
  <2>1. Open(a, FALSE, 1, c)
      BY <1>3 DEF AnswerWhole
  <2>2. c \in Seq(0..Blocks) /\ Len(c) = 0
      BY <1>2
  <2> HIDE DEF c
  <2>3. c # NoFile
      BY <2>2, NoFileIsNoSeq
  <2>4. 1 \in 1..Blocks /\ Len(c) + 1 = 1
      BY <1>2, <2>2
  <2>5. Sound(c)
      BY <1>2, <2>2 DEF Sound
  <2> QED BY <1>1, <2>1, <2>3, <2>4, <2>5, WorkOpens
<1>4. CASE AnswerPart(a)
  <2> DEFINE r == at[a].rom
             c == IF partial[r] = NoFile THEN <<>> ELSE partial[r]
             n == at[a].have + 1
  <2>1. Open(a, TRUE, n, c) /\ at[a].have \in 1..(Blocks - 1)
      BY <1>4 DEF AnswerPart
  <2>2. /\ torn \subseteq torn' /\ UNCHANGED crossed
        /\ r \notin torn' => Size(r) = at[a].have
    <3> HIDE DEF c, n
    <3> QED BY <2>1, OpenMoves
  <2>3. n \in 1..Blocks
      BY <1>2, <2>1
  <2>4. c # NoFile
    <3>1. c \in Seq(0..Blocks)
        BY <1>1, <1>2 DEF DownloadInv, ShapeInv, FilesOK, Contents
    <3> HIDE DEF c
    <3> QED BY <3>1, NoFileIsNoSeq
  <2>5. r \notin crossed' \cup torn' => Sound(c) /\ Len(c) + 1 = n
    <3> SUFFICES ASSUME r \notin crossed' \cup torn' PROVE Sound(c) /\ Len(c) + 1 = n
        OBVIOUS
    <3>1. Size(r) = at[a].have /\ at[a].have # 0
        BY <2>1, <2>2
    <3>2. partial[r] # NoFile /\ Len(partial[r]) = at[a].have /\ c = partial[r]
        BY <3>1 DEF Size
    <3>3. Sound(partial[r])
        BY <1>1, <2>2 DEF WorkInv, FileInv, FilesFit
    <3> QED BY <3>2, <3>3
  <2> HIDE DEF c, n
  <2> QED BY <1>1, <2>1, <2>3, <2>4, <2>5, WorkOpens
<1> QED BY <1>3, <1>4

\* The next block of a sound file keeps it sound.
LEMMA PutIsSound ==
    ASSUME NEW a, NEW c \in Seq(0..Blocks), Sound(c), c # NoFile,
           at[a].nxt \in 1..Blocks, Len(c) + 1 = at[a].nxt
    PROVE  /\ Put(a, c) = [k \in 1..at[a].nxt |-> k]
<1>1. Len(c) \in Nat /\ at[a].nxt \in Nat /\ \A i \in 1..Len(c) : c[i] = i
    BY DEF Sound
<1>2. Put(a, c) = Written(c, at[a].nxt, at[a].nxt)
    BY DEF Put
<1> DEFINE n == at[a].nxt
<1>3. n \in Nat /\ n = Len(c) + 1
    BY <1>1
<1> HIDE DEF n
<1>4. Written(c, n, n) = [i \in 1..n |-> IF i = n THEN n ELSE IF i <= Len(c) THEN c[i] ELSE 0]
    BY <1>1, <1>3 DEF Written
<1>5. \A i \in 1..n : (IF i = n THEN n ELSE IF i <= Len(c) THEN c[i] ELSE 0) = i
  <2> TAKE i \in 1..n
  <2>1. i \in Nat /\ i >= 1 /\ i <= n
      BY <1>3
  <2>2. CASE i = n
      BY <2>2
  <2>3. CASE i # n
    <3>1. i <= Len(c) /\ i \in 1..Len(c)
        BY <1>1, <1>3, <2>1, <2>3
    <3> QED BY <1>1, <2>3, <3>1
  <2> QED BY <2>2, <2>3
<1>6. Written(c, n, n) = [k \in 1..n |-> k]
    BY <1>4, <1>5
<1> QED BY <1>2, <1>6 DEF n

LEMMA CountIsSound ==
    ASSUME NEW n \in 1..Blocks
    PROVE  /\ Sound([k \in 1..n |-> k]) /\ Len([k \in 1..n |-> k]) = n
           /\ [k \in 1..n |-> k] # NoFile
<1> DEFINE c == [k \in 1..n |-> k]
<1>1. n \in Nat /\ n <= Blocks /\ Blocks \in Nat
    BY DownloadsAssumption
<1>2. \A k \in 1..n : k \in 0..Blocks
    BY <1>1
<1>3. c \in Seq(0..Blocks) /\ Len(c) = n
  <2>1. c \in Seq(0..Blocks)
      BY <1>1, <1>2, IsASeq
  <2>2. DOMAIN c = 1..n
      OBVIOUS
  <2> QED BY <1>1, <2>1, <2>2, LenProperties
<1>4. \A i \in 1..n : c[i] = i
    OBVIOUS
<1> HIDE DEF c
<1>5. c # NoFile
    BY <1>3, NoFileIsNoSeq
<1>6. Sound(c)
    BY <1>1, <1>3, <1>4 DEF Sound
<1> QED BY <1>3, <1>5, <1>6 DEF c

LEMMA WorkWrites ==
    ASSUME DownloadInv, WorkInv, NEW a \in Attempts, Write(a)
    PROVE  WorkInv'
<1> DEFINE r == at[a].rom
           n == at[a].nxt
<1>1. /\ at[a].th = "streaming" /\ ThreadMoves(a) /\ UNCHANGED <<crossed, torn>>
      /\ \/ at'[a].th \in {"aborted", "none"} /\ at'[a].fd = "none"
         \/ n < Blocks /\ at'[a].nxt = n + 1 /\ at'[a].th = "streaming" /\ at'[a].fd = at[a].fd
         \/ ~(n < Blocks) /\ at'[a].th \in {"done", "none"} /\ at'[a].fd = "none"
    BY WriteMoves
<1>2. r \in Roms /\ partial \in [Roms -> Contents] /\ installed \in [Roms -> Contents]
    BY RomOfAttempt DEF DownloadInv, ShapeInv, FilesOK
<1>3. /\ partial' = IF at[a].fd = "partial" THEN [partial EXCEPT ![r] = Put(a, partial[r])] ELSE partial
      /\ installed' = IF at[a].fd = "installed" THEN [installed EXCEPT ![r] = Put(a, installed[r])] ELSE installed
    BY DEF Write
<1>4. \A p \in Roms : p # r => partial'[p] = partial[p] /\ installed'[p] = installed[p]
    BY <1>2, <1>3
<1>5. AtWork(a)
    BY <1>1 DEF AtWork, Running
<1>6. ASSUME r \notin crossed' \cup torn'
      PROVE  /\ Sound(partial'[r]) /\ installed'[r] \in {NoFile, Whole}
             /\ ThreadFits(at'[a], partial'[r])
  <2>1. FilesFit(r)
      BY <1>1, <1>2, <1>6 DEF WorkInv, FileInv
  <2>2. /\ n \in 1..Blocks /\ at[a].fd # "installed"
        /\ at[a].fd = "partial" => partial[r] # NoFile /\ Len(partial[r]) + 1 = n
        /\ at[a].fd # "partial" => partial[r] = NoFile
      BY <1>1, <2>1 DEF FilesFit, ThreadFits
  <2>3. installed'[r] \in {NoFile, Whole}
      BY <1>3, <2>1, <2>2 DEF FilesFit
  <2>4. Blocks \in Nat \ {0}
      BY DownloadsAssumption
  <2>5. ~(n < Blocks) => n = Blocks
      BY <2>2, <2>4
  <2>6. n < Blocks => n + 1 \in 1..Blocks
      BY <2>2, <2>4
  <2>7. CASE at[a].fd # "partial"
    <3>1. partial'[r] = NoFile
        BY <1>3, <2>2, <2>7
    <3> QED BY <1>1, <2>2, <2>3, <2>6, <2>7, <3>1 DEF Sound, ThreadFits
  <2>8. CASE at[a].fd = "partial"
    <3> DEFINE c == [k \in 1..n |-> k]
    <3>1. partial[r] \in Seq(0..Blocks) /\ Sound(partial[r]) /\ partial[r] # NoFile
        BY <1>2, <2>1, <2>2, <2>8 DEF Contents, FilesFit
    <3>2. Put(a, partial[r]) = c
      <4>1. Len(partial[r]) + 1 = at[a].nxt /\ at[a].nxt \in 1..Blocks
          BY <2>2, <2>8
      <4> QED BY <3>1, <4>1, PutIsSound
    <3>3. partial'[r] = c
        BY <1>2, <1>3, <2>8, <3>2
    <3>4. Sound(c) /\ Len(c) = n /\ c # NoFile
      <4> HIDE DEF n
      <4> QED BY <2>2, CountIsSound
    <3>5. n = Blocks => c = Whole
        BY DEF Whole
    <3> HIDE DEF c, n
    <3> QED BY <1>1, <2>2, <2>3, <2>5, <2>6, <2>8, <3>3, <3>4, <3>5 DEF ThreadFits
  <2> QED BY <2>7, <2>8
<1> HIDE DEF n
<1> QED BY <1>1, <1>4, <1>5, <1>6, WorksKeeps

LEMMA WorkEnds ==
    ASSUME DownloadInv, WorkInv, NEW a \in Attempts, AtWork(a),
           NEW th \in {"failed", "placed", "unplaced"},
           at' = Closed(at, a, th), UNCHANGED <<token, entry, shown, removal, partial, installed, crossed, torn>>
    PROVE  WorkInv'
<1>1. ThreadMoves(a) /\ at'[a].th \in {"none", th}
    BY ClosesMoves
<1>2. at[a].rom \in Roms
    BY RomOfAttempt
<1>3. at[a].rom \notin crossed' \cup torn' =>
          /\ Sound(partial'[at[a].rom]) /\ installed'[at[a].rom] \in {NoFile, Whole}
          /\ ThreadFits(at'[a], partial'[at[a].rom])
    BY <1>1, <1>2 DEF WorkInv, FileInv, FilesFit, ThreadFits
<1> QED BY <1>1, <1>3, WorksKeeps

\* What is put in place is all of the game.
LEMMA WorkRenames ==
    ASSUME DownloadInv, StageInv, WorkInv, NEW a \in Attempts, Rename(a), partial[at[a].rom] # NoFile
    PROVE  WorkInv'
<1> DEFINE r == at[a].rom
<1>1. /\ at[a].th = "placing" /\ at'[a].th = "renamed"
      /\ \A b \in Attempts : at'[b].pc = at[b].pc /\ at'[b].rom = at[b].rom
      /\ \A b \in Attempts \ {a} : Alike(at[b], at'[b])
      /\ \A b \in Attempts : at[b].rom # r => at'[b].fd = at[b].fd
      /\ partial' = [partial EXCEPT ![r] = NoFile]
      /\ installed' = [installed EXCEPT ![r] = partial[r]]
      /\ UNCHANGED <<crossed, torn>>
    BY RenameMoves
<1>2. r \in Roms /\ partial \in [Roms -> Contents] /\ installed \in [Roms -> Contents]
    BY RomOfAttempt DEF DownloadInv, ShapeInv, FilesOK
<1>3. AtWork(a)
    BY <1>1 DEF AtWork, Running
<1>4. \A b \in Attempts : AtWork(b)' => AtWork(b)
    BY <1>1, <1>3 DEF AtWork, Alike
<1>5. OneAtWork'
    BY <1>1, <1>4 DEF WorkInv, OneAtWork
<1>6. FileInv'
  <2> SUFFICES ASSUME NEW p \in Roms, p \notin crossed, p \notin torn
               PROVE  FilesFit(p)'
      BY <1>1 DEF FileInv
  <2>1. FilesFit(p)
      BY DEF WorkInv, FileInv
  <2>2. CASE p # r
    <3>1. partial'[p] = partial[p] /\ installed'[p] = installed[p]
        BY <1>1, <1>2, <2>2
    <3>2. \A b \in Attempts : at[b].rom = p =>
              at'[b].th = at[b].th /\ at'[b].pc = at[b].pc /\ at'[b].nxt = at[b].nxt /\ at'[b].fd = at[b].fd
        BY <1>1, <2>2 DEF Alike
    <3> QED BY <1>1, <2>1, <3>1, <3>2 DEF FilesFit, ThreadFits
  <2>3. CASE p = r
    <3>1. partial[r] = Whole
        BY <1>1, <2>1, <2>3 DEF FilesFit, ThreadFits
    <3>2. partial'[r] = NoFile /\ installed'[r] = Whole
        BY <1>1, <1>2, <3>1
    <3>3. ASSUME NEW b \in Attempts, at[b].rom = r PROVE ThreadFits(at'[b], NoFile)
      <4>1. CASE b = a
          BY <1>1, <4>1 DEF ThreadFits
      <4>2. CASE b # a
        <5>1. ~AtWork(b)
            BY <1>3, <2>3, <3>3, <4>2 DEF WorkInv, OneAtWork
        <5>2. at'[b].th = at[b].th /\ at'[b].pc = at[b].pc
            BY <1>1, <4>2 DEF Alike
        <5> QED BY <5>1, <5>2 DEF AtWork, Running, ThreadFits
      <4> QED BY <4>1, <4>2
    <3> QED BY <1>1, <2>3, <3>2, <3>3 DEF FilesFit, Sound
  <2> QED BY <2>2, <2>3
<1> QED BY <1>5, <1>6 DEF WorkInv

LEMMA WorkTransfer ==
    ASSUME DownloadInv, StageInv, WorkInv, NEW a \in Attempts, Transfer(a)
    PROVE  WorkInv'
<1>1. CASE Ask(a) \/ Retry(a)
    BY <1>1, WorkAsks DEF Ask, Retry
<1>2. CASE GiveUp(a) \/ Record(a) \/ (Rename(a) /\ partial[at[a].rom] = NoFile)
  <2>1. PICK th \in {"failed", "placed", "unplaced"} : at' = Closed(at, a, th)
      BY <1>2 DEF GiveUp, Record, Rename
  <2>2. /\ AtWork(a)
        /\ UNCHANGED <<token, entry, shown, removal, partial, installed, crossed, torn>>
      BY <1>2 DEF GiveUp, Record, Rename, told, files, AtWork, Running
  <2> QED BY <2>1, <2>2, WorkEnds
<1>3. CASE Rename(a) /\ partial[at[a].rom] # NoFile
    BY <1>3, WorkRenames
<1> QED BY <1>1, <1>2, <1>3, WorkAnswers, WorkWrites DEF Transfer

-----------------------------------------------------------------------------
(* What is told completed, and what is in place. *)

InPlace(r) == installed[r] # NoFile /\ r \in recorded

\* An uninstall took the files and will drop the entry.
Removing(r) == removal.stage \in {"rows", "queue"} /\ r \in removal.evicts

CompletedFits(r) == entry[r] = "completed" => InPlace(r) \/ Removing(r)

\* A commit put the game in place, unless an uninstall took it since: then the
\* entry goes, or is gone.
PlacedOf(a) ==
    at[a].rom \notin crossed /\ at[a].pc \in {"committing", "settling", "finishing"} =>
        /\ at[a].th = "renamed" =>
              installed[at[a].rom] # NoFile \/ Removing(at[a].rom) \/ entry[at[a].rom] = None
        /\ at[a].th = "placed" =>
              InPlace(at[a].rom) \/ Removing(at[a].rom) \/ entry[at[a].rom] = None

CompletedInv ==
    /\ \A r \in Roms \ crossed : CompletedFits(r)
    /\ \A a \in Attempts : PlacedOf(a)
    /\ removal.of \subseteq removal.evicts

LEMMA CompletedGoesOn ==
    ASSUME DownloadInv, StageInv, CompletedInv, NEW a \in Attempts, GoesOn(a)
    PROVE  CompletedInv'
<1>1. \A b \in Attempts : at'[b].rom = at[b].rom /\ at[b].rom \in Roms
    BY GamesKept, RomOfAttempt
<1>2. UNCHANGED <<installed, recorded, removal, crossed>> /\ PlacedOf(a) /\ StageOf(at[a])
    BY DEF GoesOn, CompletedInv, StageInv
<1>3. entry \in [Roms -> Statuses \cup {None}]
    BY DEF DownloadInv, ShapeInv, RestOK
<1>4. \A r \in Roms : entry[r] = None => entry'[r] = None
    BY <1>1, <1>3 DEF GoesOn, Advances, Settles, Completes, Waits, IsOver, HandsOver, Marked
<1>5. ASSUME NEW r \in Roms \ crossed PROVE CompletedFits(r)'
  <2>1. CASE entry'[r] # entry[r] /\ entry'[r] = "completed"
    <3>1. r = at[a].rom /\ Completes(a)
        BY <1>1, <1>3, <2>1, DownloadsAssumption
           DEF GoesOn, Advances, Settles, Completes, Waits, IsOver, HandsOver, Marked
    <3>2. /\ at[a].pc \in {"committing", "settling", "finishing"} /\ at[a].th = "placed"
          /\ entry[r] # None
        BY <1>2, <3>1 DEF Completes, StageOf, Marked
    <3>3. InPlace(r) \/ Removing(r)
        BY <1>2, <3>1, <3>2 DEF PlacedOf
    <3> QED BY <1>2, <3>3 DEF CompletedFits, InPlace, Removing
  <2>2. CASE ~(entry'[r] # entry[r] /\ entry'[r] = "completed")
      BY <1>2, <2>2 DEF CompletedInv, CompletedFits, InPlace, Removing
  <2> QED BY <2>1, <2>2
<1>6. ASSUME NEW b \in Attempts PROVE PlacedOf(b)'
  <2>1. \/ at'[b].pc \notin {"committing", "settling", "finishing"}
        \/ at'[b].th = "placing"
        \/ at[b].pc \in {"committing", "settling", "finishing"} /\ at'[b].th = at[b].th
    <3>1. CASE b # a
        BY <3>1 DEF GoesOn, OthersStay, Stays, Alike
    <3>2. CASE b = a
        BY <3>2 DEF GoesOn, Advances, Settles, Completes, Waits, IsOver, HandsOver, Stays, Alike, Over
    <3> QED BY <3>1, <3>2
  <2>2. PlacedOf(b)
      BY DEF CompletedInv
  <2> QED BY <1>1, <1>2, <1>4, <2>1, <2>2 DEF PlacedOf, InPlace, Removing
<1>7. (removal.of \subseteq removal.evicts)'
    BY <1>2 DEF CompletedInv
<1> QED BY <1>2, <1>5, <1>6, <1>7 DEF CompletedInv

\* An uninstall takes the files of what it will forget, and then forgets it.
LEMMA CompletedCalm ==
    ASSUME DownloadInv, CompletedInv, Calm,
           \A r \in Roms : /\ installed'[r] = installed[r] \/ Removing(r)'
                           /\ InPlace(r) => InPlace(r)' \/ Removing(r)'
                           /\ Removing(r) => Removing(r)' \/ entry'[r] = None,
           removal'.of \subseteq removal'.evicts
    PROVE  CompletedInv'
<1>1. \A r \in Roms : entry'[r] \in {entry[r], None}
    BY DEF Calm
<1>2. UNCHANGED crossed /\ \A b \in Attempts : at'[b].pc = at[b].pc /\ Alike(at[b], at'[b])
    BY DEF Calm, AllStay, Stays
<1>3. ASSUME NEW r \in Roms \ crossed PROVE CompletedFits(r)'
    BY <1>1, DownloadsAssumption DEF CompletedInv, CompletedFits
<1>4. ASSUME NEW b \in Attempts PROVE PlacedOf(b)'
  <2>1. PlacedOf(b) /\ at[b].rom \in Roms
      BY RomOfAttempt DEF CompletedInv
  <2> QED BY <1>1, <1>2, <2>1 DEF PlacedOf, Alike
<1> QED BY <1>2, <1>3, <1>4 DEF CompletedInv

LEMMA CompletedRemoval ==
    ASSUME DownloadInv, CompletedInv,
           RemovalStep \/ UninstallAllRoms \/ (\E r \in Roms : RemoveRom(r))
    PROVE  CompletedInv'
<1>1. Calm
    BY RemovalIsCalm
<1>2. /\ removal \in [stage : {"idle", "files", "rows", "queue"}, of : SUBSET Roms,
                      evicts : SUBSET Roms, left : 0..MaxRemovals]
      /\ removal.of \subseteq removal.evicts /\ recorded \subseteq Roms
    BY DEF DownloadInv, ShapeInv, RestOK, FilesOK, CompletedInv
<1>3. CASE DeleteFiles
  <2>1. /\ removal.stage = "files" /\ removal' = [removal EXCEPT !.stage = "rows"]
        /\ \A r \in Roms : installed'[r] = IF r \in removal.of THEN NoFile ELSE installed[r]
        /\ UNCHANGED recorded
      BY <1>3 DEF DeleteFiles
  <2>2. removal'.stage = "rows" /\ removal'.of = removal.of /\ removal'.evicts = removal.evicts
      BY <1>2, <2>1
  <2>3. \A r \in Roms : r \in removal.of => Removing(r)'
      BY <1>2, <2>2 DEF Removing
  <2>4. \A r \in Roms : ~Removing(r)
      BY <2>1 DEF Removing
  <2> QED BY <1>1, <1>2, <2>1, <2>2, <2>3, <2>4, CompletedCalm DEF InPlace
<1>4. CASE DeleteFails
  <2>1. removal.stage = "files" /\ UNCHANGED <<installed, recorded>>
      BY <1>4 DEF DeleteFails, files
  <2>2. removal'.of \subseteq removal'.evicts
      BY <1>2, <1>4 DEF DeleteFails
  <2>3. \A r \in Roms : ~Removing(r)
      BY <2>1 DEF Removing
  <2> QED BY <1>1, <2>1, <2>2, <2>3, CompletedCalm DEF InPlace
<1>5. CASE DropRows
  <2>1. /\ removal.stage = "rows" /\ removal' = [removal EXCEPT !.stage = "queue"]
        /\ recorded' = recorded \ removal.of /\ UNCHANGED installed
      BY <1>5 DEF DropRows
  <2>2. removal'.stage = "queue" /\ removal'.of = removal.of /\ removal'.evicts = removal.evicts
      BY <1>2, <2>1
  <2>3. \A r \in Roms : /\ r \in removal.of => Removing(r)'
                        /\ Removing(r) => Removing(r)'
      BY <1>2, <2>2 DEF Removing
  <2> QED BY <1>1, <1>2, <2>1, <2>2, <2>3, CompletedCalm DEF InPlace
<1>6. CASE Forget
  <2>1. /\ removal' = [removal EXCEPT !.stage = "idle", !.of = {}, !.evicts = {}]
        /\ \A r \in Roms : r \in removal.evicts => entry'[r] = None
        /\ UNCHANGED <<installed, recorded>>
      BY <1>6 DEF Forget, files
  <2>2. removal'.of = {}
      BY <1>2, <2>1
  <2> QED BY <1>1, <2>1, <2>2, CompletedCalm DEF InPlace, Removing
<1>7. CASE UninstallAllRoms \/ (\E r \in Roms : RemoveRom(r))
  <2>1. PICK of \in SUBSET Roms, evicts \in SUBSET Roms : of \subseteq evicts /\ BeginRemoval(of, evicts)
      BY <1>2, <1>7 DEF RemoveRom, UninstallAllRoms
  <2>2. /\ removal.stage = "idle" /\ UNCHANGED <<installed, recorded>>
        /\ removal'.of \subseteq removal'.evicts
      BY <2>1 DEF BeginRemoval, files
  <2>3. \A r \in Roms : ~Removing(r)
      BY <2>2 DEF Removing
  <2> QED BY <1>1, <2>2, <2>3, CompletedCalm DEF InPlace
<1> QED BY <1>3, <1>4, <1>5, <1>6, <1>7 DEF RemovalStep

\* The calls that leave files and uninstalls alone.
LEMMA CompletedCall ==
    ASSUME DownloadInv, CompletedInv, Calm, UNCHANGED <<installed, recorded, removal>>
    PROVE  CompletedInv'
<1>1. removal'.of \subseteq removal'.evicts
    BY DEF CompletedInv
<1>2. \A r \in Roms : (InPlace(r) => InPlace(r)') /\ (Removing(r) => Removing(r)')
    BY DEF InPlace, Removing
<1> QED BY <1>1, <1>2, CompletedCalm

\* Threads: what is in place stays, and a commit that is over has put it there.
LEMMA CompletedThread ==
    ASSUME CompletedInv, \A b \in Attempts : at'[b].pc = at[b].pc /\ at'[b].rom = at[b].rom,
           UNCHANGED <<entry, removal>>, crossed \subseteq crossed', recorded \subseteq recorded',
           \A b \in Attempts : at[b].rom \in Roms,
           \A r \in Roms : installed[r] # NoFile => installed'[r] # NoFile,
           \A b \in Attempts : at'[b].th = at[b].th \/ at'[b].th \notin {"renamed", "placed"} \/ PlacedOf(b)'
    PROVE  CompletedInv'
<1>1. \A r \in Roms : (InPlace(r) => InPlace(r)') /\ (Removing(r) => Removing(r)')
    BY DEF InPlace, Removing
<1>2. ASSUME NEW r \in Roms \ crossed PROVE CompletedFits(r)'
    BY <1>1 DEF CompletedInv, CompletedFits
<1>3. ASSUME NEW b \in Attempts PROVE PlacedOf(b)'
  <2>1. PlacedOf(b) /\ at[b].rom \in Roms
      BY DEF CompletedInv
  <2> QED BY <1>1, <2>1 DEF PlacedOf
<1> QED BY <1>2, <1>3 DEF CompletedInv

LEMMA CompletedTransfer ==
    ASSUME DownloadInv, DownloadInv', CompletedInv, NEW a \in Attempts, Transfer(a)
    PROVE  CompletedInv'
<1>1. /\ \A b \in Attempts : at'[b].pc = at[b].pc /\ at'[b].rom = at[b].rom
      /\ UNCHANGED <<entry, removal>> /\ crossed \subseteq crossed'
    BY ThreadsOnly
<1>2. \A b \in Attempts : at[b].rom \in Roms
    BY RomOfAttempt
<1>3. installed \in [Roms -> Contents] /\ PlacedOf(a)
    BY DEF DownloadInv, ShapeInv, FilesOK, CompletedInv
<1>4. CASE Ask(a) \/ Retry(a)
  <2>1. Asks(a)
      BY <1>4 DEF Ask, Retry
  <2>2. /\ at'[a].th = "asking" /\ \A b \in Attempts \ {a} : at'[b] = at[b]
        /\ UNCHANGED <<installed, recorded>>
      BY <2>1, AsksMoves DEF ThreadMoves
  <2>3. \A b \in Attempts : at'[b].th = at[b].th \/ at'[b].th \notin {"renamed", "placed"}
      BY <2>2
  <2> QED BY <1>1, <1>2, <2>2, <2>3, CompletedThread
<1>5. CASE AnswerPart(a) \/ AnswerWhole(a)
  <2>1. \E append, nxt, content : Open(a, append, nxt, content)
      BY <1>5 DEF AnswerPart, AnswerWhole
  <2>2. /\ at'[a].th = "streaming" /\ \A b \in Attempts \ {a} : at'[b] = at[b]
        /\ UNCHANGED <<installed, recorded>>
      BY <2>1, OpenMoves DEF ThreadMoves
  <2>3. \A b \in Attempts : at'[b].th = at[b].th \/ at'[b].th \notin {"renamed", "placed"}
      BY <2>2
  <2> QED BY <1>1, <1>2, <2>2, <2>3, CompletedThread
<1>6. CASE Write(a)
  <2>1. /\ at'[a].th \in {"aborted", "none", "streaming", "done"}
        /\ \A b \in Attempts \ {a} : at'[b] = at[b]
        /\ UNCHANGED recorded
      BY <1>6, WriteMoves DEF ThreadMoves
  <2>2. \A b \in Attempts : at'[b].th = at[b].th \/ at'[b].th \notin {"renamed", "placed"}
      BY <2>1
  <2>3. \A r \in Roms : installed[r] # NoFile => installed'[r] # NoFile
    <3>1. CASE at[a].fd # "installed"
        BY <1>6, <3>1 DEF Write
    <3>2. CASE at[a].fd = "installed"
      <4>1. at[a] \in AttemptRecord /\ installed[at[a].rom] \in Seq(0..Blocks)
          BY <1>2, <1>3, <3>2, RomOfAttempt DEF DownloadInv, ShapeInv, HandlesOpen, Contents
      <4>2. Put(a, installed[at[a].rom]) \in Seq(0..Blocks)
          BY <4>1, PutKeeps
      <4>3. Put(a, installed[at[a].rom]) # NoFile
          BY <4>2, NoFileIsNoSeq
      <4>4. installed' = [installed EXCEPT ![at[a].rom] = Put(a, installed[at[a].rom])]
          BY <1>6, <3>2 DEF Write
      <4> QED BY <1>3, <4>3, <4>4
    <3> QED BY <3>1, <3>2
  <2> QED BY <1>1, <1>2, <2>1, <2>2, <2>3, CompletedThread
<1>7. CASE GiveUp(a) \/ (Rename(a) /\ partial[at[a].rom] = NoFile)
  <2>1. PICK th \in {"failed", "unplaced"} : at' = Closed(at, a, th)
      BY <1>7 DEF GiveUp, Rename
  <2>2. UNCHANGED <<token, entry, shown, removal, installed, recorded>>
      BY <1>7 DEF GiveUp, Rename, told, files
  <2>3. at'[a].th \in {"none", th} /\ \A b \in Attempts \ {a} : at'[b] = at[b]
      BY <2>1, <2>2, ClosesMoves DEF ThreadMoves
  <2>4. \A b \in Attempts : at'[b].th = at[b].th \/ at'[b].th \notin {"renamed", "placed"}
      BY <2>3
  <2> QED BY <1>1, <1>2, <2>2, <2>4, CompletedThread
<1>8. CASE Rename(a) /\ partial[at[a].rom] # NoFile
  <2>1. /\ at'[a].th = "renamed" /\ \A b \in Attempts \ {a} : Alike(at[b], at'[b])
        /\ installed' = [installed EXCEPT ![at[a].rom] = partial[at[a].rom]]
        /\ UNCHANGED recorded
      BY <1>8, RenameMoves
  <2>2. installed'[at[a].rom] # NoFile
      BY <1>2, <1>3, <1>8, <2>1
  <2>3. \A r \in Roms : installed[r] # NoFile => installed'[r] # NoFile
      BY <1>3, <1>8, <2>1
  <2>4. PlacedOf(a)'
      BY <1>1, <2>1, <2>2 DEF PlacedOf
  <2>5. \A b \in Attempts : at'[b].th = at[b].th \/ PlacedOf(b)'
      BY <2>1, <2>4 DEF Alike
  <2> QED BY <1>1, <1>2, <2>1, <2>3, <2>5, CompletedThread
<1>9. CASE Record(a)
  <2>1. PICK th \in {"placed", "unplaced"} :
            at' = Closed(at, a, th) /\ (th = "placed" => recorded' = recorded \cup {at[a].rom})
      BY <1>9 DEF Record
  <2>2. /\ at[a].th = "renamed" /\ UNCHANGED <<token, entry, shown, removal, installed>>
        /\ recorded \subseteq recorded'
      BY <1>9 DEF Record, told
  <2>3. at'[a].th \in {"none", th} /\ \A b \in Attempts \ {a} : at'[b] = at[b]
      BY <2>1, <2>2, ClosesMoves DEF ThreadMoves
  <2>4. at'[a].th = "placed" => PlacedOf(a)'
    <3> SUFFICES ASSUME at'[a].th = "placed" PROVE PlacedOf(a)'
        OBVIOUS
    <3>1. at[a].rom \in recorded'
        BY <2>1, <2>3
    <3> QED BY <1>1, <1>3, <2>2, <3>1 DEF PlacedOf, InPlace, Removing
  <2>5. \A b \in Attempts : at'[b].th = at[b].th \/ at'[b].th \notin {"renamed", "placed"} \/ PlacedOf(b)'
      BY <2>3, <2>4
  <2> QED BY <1>1, <1>2, <2>2, <2>5, CompletedThread
<1> QED BY <1>4, <1>5, <1>6, <1>7, <1>8, <1>9 DEF Transfer

LEMMA CompletedStart ==
    ASSUME DownloadInv, CompletedInv, NEW a \in Attempts, NEW r \in Roms,
           StartDownload(a, r) \/ ResumeDownload(a, r)
    PROVE  CompletedInv'
<1>1. /\ at'[a].pc = "starting" /\ \A b \in Attempts \ {a} : at'[b] = at[b]
      /\ UNCHANGED <<entry, installed, recorded, removal>> /\ crossed \subseteq crossed'
    BY StartMoves
<1>2. ASSUME NEW p \in Roms \ crossed PROVE CompletedFits(p)'
    BY <1>1 DEF CompletedInv, CompletedFits, InPlace, Removing
<1>3. ASSUME NEW b \in Attempts PROVE PlacedOf(b)'
  <2>1. CASE b = a
      BY <1>1, <2>1 DEF PlacedOf
  <2>2. CASE b # a
      BY <1>1, <2>2 DEF CompletedInv, PlacedOf, InPlace, Removing
  <2> QED BY <2>1, <2>2
<1> QED BY <1>1, <1>2, <1>3 DEF CompletedInv

LEMMA CompletedAdmit ==
    ASSUME DownloadInv, OneLive, CompletedInv, NEW a \in Attempts, Admit(a)
    PROVE  CompletedInv'
<1>1. entry \in [Roms -> Statuses \cup {None}]
    BY DEF DownloadInv, ShapeInv, RestOK
<1>2. /\ at[a].pc = "starting" /\ at'[a].pc = "spawned"
      /\ \A b \in Attempts : at[b].rom \in Roms
      /\ \A b \in Attempts \ {a} : at'[b].pc = at[b].pc /\ Alike(at[b], at'[b])
      /\ entry' = [entry EXCEPT ![at[a].rom] = "queued"]
      /\ UNCHANGED <<installed, recorded, removal, crossed>>
    BY AdmitMoves, RomOfAttempt DEF OthersStay, Stays
<1>3. at[a].rom \notin crossed => token[at[a].rom] = None
    BY <1>2 DEF DownloadInv, ClaimInv
<1>4. \A b \in Attempts : at[b].pc \in Live /\ at[b].rom \notin crossed => at[b].rom # at[a].rom
    BY <1>3, DownloadsAssumption DEF OneLive
<1>5. \A r \in Roms : entry'[r] = IF r = at[a].rom THEN "queued" ELSE entry[r]
    BY <1>1, <1>2
<1>6. ASSUME NEW r \in Roms \ crossed PROVE CompletedFits(r)'
    BY <1>2, <1>5 DEF CompletedInv, CompletedFits, InPlace, Removing
<1>7. ASSUME NEW b \in Attempts PROVE PlacedOf(b)'
  <2>1. CASE b = a
      BY <1>2, <2>1 DEF PlacedOf
  <2>2. CASE b # a
      BY <1>2, <1>4, <1>5, <2>2 DEF CompletedInv, PlacedOf, InPlace, Removing, Alike, Live
  <2> QED BY <2>1, <2>2
<1>8. (removal.of \subseteq removal.evicts)'
    BY <1>2 DEF CompletedInv
<1> QED BY <1>2, <1>6, <1>7, <1>8 DEF CompletedInv

-----------------------------------------------------------------------------
(* The whole invariant. *)

FullInv ==
    /\ DownloadInv /\ torn \subseteq Roms
    /\ StageInv /\ OneLive /\ EntriesFit /\ WorkInv /\ CompletedInv

LEMMA TornInRoms ==
    ASSUME DownloadInv, torn \subseteq Roms, [Next]_vars
    PROVE  torn' \subseteq Roms
<1>1. ASSUME NEW a \in Attempts, AnswerPart(a) \/ AnswerWhole(a)
      PROVE  torn' \subseteq Roms
  <2>1. \E append, nxt, content : Open(a, append, nxt, content)
      BY <1>1 DEF AnswerPart, AnswerWhole
  <2>2. torn' \subseteq torn \cup {at[a].rom}
      BY <2>1 DEF Open
  <2> QED BY <2>2, RomOfAttempt
<1>2. ASSUME NEW a \in Attempts, Transfer(a), ~(AnswerPart(a) \/ AnswerWhole(a))
      PROVE  UNCHANGED torn
    BY <1>2 DEF Transfer, Ask, Retry, Asks, Write, GiveUp, Rename, Record
<1>3. ASSUME NEW a \in Attempts, TaskStep(a) \/ RefuseStart(a)
      PROVE  UNCHANGED torn
    BY <1>3, TaskGoesOn DEF GoesOn
<1>4. ASSUME NEW a \in Attempts, Admit(a) \/ ApplyTick(a)
      PROVE  UNCHANGED torn
    BY <1>4 DEF Admit, ApplyTick
<1>5. ASSUME NEW r \in Roms, CancelPaused(r) \/ \E how \in {"cancelled", "paused"} : Stop(r, how)
      PROVE  UNCHANGED torn
    BY <1>5 DEF CancelPaused, Stop
<1>6. ASSUME NEW a \in Attempts, NEW r \in Roms, StartDownload(a, r) \/ ResumeDownload(a, r)
      PROVE  UNCHANGED torn
    BY <1>6 DEF StartDownload, ResumeDownload
<1>7. CASE RemovalStep \/ UninstallAllRoms \/ (\E r \in Roms : RemoveRom(r)) \/ ClearCompleted
    BY <1>7, RemovalIsCalm DEF Calm
<1>8. CASE UNCHANGED vars
    BY <1>8 DEF vars
<1> QED BY <1>1, <1>2, <1>3, <1>4, <1>5, <1>6, <1>7, <1>8 DEF Next, Answered

LEMMA FullStart == Init => FullInv
<1> SUFFICES ASSUME Init PROVE FullInv
    OBVIOUS
<1>1. DownloadInv
    BY InitIsGood
<1>2. \A a \in Attempts : at[a].pc = "unused" /\ at[a].th = "none" /\ at[a].fd = "none"
    BY DEF Init, Unused
<1>3. StageInv
    BY <1>2 DEF StageInv, StageOf
<1>4. OneLive /\ EntriesFit
    BY <1>2 DEF OneLive, EntriesFit, EntryOf, Live, AtWorkPcs
<1>5. WorkInv
  <2>1. \A a \in Attempts : ~AtWork(a) /\ \A c : ThreadFits(at[a], c)
      BY <1>2 DEF AtWork, Running, ThreadFits
  <2>2. \A r \in Roms : partial[r] = NoFile /\ installed[r] = NoFile
      BY DEF Init
  <2> QED BY <2>1, <2>2 DEF WorkInv, OneAtWork, FileInv, FilesFit, Sound
<1>6. CompletedInv
    BY <1>2, DownloadsAssumption DEF Init, CompletedInv, CompletedFits, PlacedOf
<1> QED BY <1>1, <1>3, <1>4, <1>5, <1>6 DEF Init, FullInv

LEMMA FullCalm ==
    ASSUME FullInv, DownloadInv', torn' \subseteq Roms, Calm, CompletedInv'
    PROVE  FullInv'
<1>1. StageInv'
    BY StageCalm DEF Calm, FullInv
<1> QED BY <1>1, TasksCalm, WorkCalm DEF FullInv

LEMMA FullKeeps == FullInv /\ [Next]_vars => FullInv'
<1> SUFFICES ASSUME FullInv, [Next]_vars PROVE FullInv'
    OBVIOUS
<1>1. DownloadInv' /\ torn' \subseteq Roms
    BY NextKeeps, TornInRoms DEF FullInv
<1>2. CASE UNCHANGED vars
  <2>1. Calm /\ UNCHANGED <<installed, recorded, removal>>
      BY <1>2, SameIsStill DEF Calm, vars
  <2> QED BY <1>1, <2>1, CompletedCall, FullCalm DEF FullInv
<1>3. ASSUME NEW a \in Attempts, NEW r \in Roms, StartDownload(a, r) \/ ResumeDownload(a, r)
      PROVE  FullInv'
    BY <1>1, <1>3, StageStarts, TasksStart, WorkStart, CompletedStart DEF FullInv
<1>4. ASSUME NEW r \in Roms, CancelPaused(r) \/ \E how \in {"cancelled", "paused"} : Stop(r, how)
      PROVE  FullInv'
  <2>1. Calm /\ UNCHANGED <<installed, recorded, removal>>
      BY <1>4, CancelPausedIsCalm, StopIsCalm DEF FullInv, CancelPaused, Stop, files
  <2> QED BY <1>1, <2>1, CompletedCall, FullCalm DEF FullInv
<1>5. ASSUME NEW a \in Attempts, ApplyTick(a)
      PROVE  FullInv'
  <2>1. Calm /\ UNCHANGED <<installed, recorded, removal>>
      BY <1>5, ApplyTickIsCalm DEF FullInv, ApplyTick, files
  <2> QED BY <1>1, <2>1, CompletedCall, FullCalm DEF FullInv
<1>6. ASSUME NEW a \in Attempts, Admit(a)
      PROVE  FullInv'
    BY <1>1, <1>6, StageAdmits, TasksAdmit, WorkAdmit, CompletedAdmit DEF FullInv
<1>7. ASSUME NEW a \in Attempts, TaskStep(a) \/ RefuseStart(a)
      PROVE  FullInv'
  <2>1. GoesOn(a)
      BY <1>7, TaskGoesOn DEF FullInv
  <2> QED BY <1>1, <2>1, StageGoesOn, LiveGoesOn, EntryGoesOn, WorkGoesOn, CompletedGoesOn DEF FullInv
<1>8. ASSUME NEW a \in Attempts, Transfer(a)
      PROVE  FullInv'
    BY <1>1, <1>8, StageTransfer, TasksTransfer, WorkTransfer, CompletedTransfer DEF FullInv
<1>9. CASE ClearCompleted
  <2>1. Calm /\ UNCHANGED <<installed, recorded, removal>>
      BY <1>9, RemovalIsCalm DEF FullInv, ClearCompleted, files
  <2> QED BY <1>1, <2>1, CompletedCall, FullCalm DEF FullInv
<1>10. CASE RemovalStep \/ UninstallAllRoms \/ (\E r \in Roms : RemoveRom(r))
  <2>1. Calm /\ CompletedInv'
      BY <1>10, RemovalIsCalm, CompletedRemoval DEF FullInv
  <2> QED BY <1>1, <2>1, FullCalm
<1> QED BY <1>2, <1>3, <1>4, <1>5, <1>6, <1>7, <1>8, <1>9, <1>10 DEF Next, Answered

\* The inductive invariant of downloads: which thread may be at work where a
\* task is, whose a game's entry is, what a thread finds on disk, and what a
\* commit put in place (services/downloads and adapters/romm/http.py).
THEOREM DownloadsInvariant == Spec => []FullInv
BY FullStart, FullKeeps, PTL DEF Spec

\* Every variable of a download keeps its type: registered attempts exist,
\* files hold blocks of the game or gaps (the state of services/downloads).
THEOREM TypeCorrect == Spec => []TypeOK
<1>1. FullInv => TypeOK
    BY TypeParts DEF FullInv, DownloadInv
<1> QED BY <1>1, DownloadsInvariant, PTL

\* What is at a game's target path is the whole game, whatever was paused,
\* resumed, retried, restarted by the server, cancelled or uninstalled, as long
\* as no two attempts of the game crossed and no partial file went between a
\* request for its rest and the answer (_resume_branch of adapters/romm/http.py
\* and the commit of services/downloads).
THEOREM InstalledFilesAreWhole == Spec => []WholeUnlessCrossed
<1>1. FullInv => WholeUnlessCrossed
    BY DEF FullInv, WorkInv, FileInv, FilesFit, WholeUnlessCrossed
<1> QED BY <1>1, DownloadsInvariant, PTL

\* A download told completed is on disk and recorded, or an uninstall that took
\* it is about to drop its entry, as long as no two attempts of the game crossed
\* (_commit_download and _mark_completed of services/downloads).
THEOREM CompletedMeansInstalled == Spec => []CompletedIsInstalled
<1>1. FullInv => CompletedIsInstalled
    BY DEF FullInv, CompletedInv, CompletedFits, InPlace, Removing, CompletedIsInstalled
<1> QED BY <1>1, DownloadsInvariant, PTL

-----------------------------------------------------------------------------
(* What ended is not revived. *)

Unrevived(r) ==
    entry[r] \in Ended \cup {None} =>
        \/ entry'[r] = entry[r] /\ shown'[r] = shown[r]
        \/ entry'[r] \in {None, "queued"} /\ shown'[r] = shown[r]
        \/ entry[r] = "completed" /\ entry'[r] = "completed"

LEMMA GoesOnRevivesNone ==
    ASSUME FullInv, NEW a \in Attempts, GoesOn(a), NEW r \in Roms \ crossed
    PROVE  Unrevived(r)
<1>1. /\ entry \in [Roms -> Statuses \cup {None}] /\ shown \in [Roms -> Statuses \cup {None}]
      /\ at[a].rom \in Roms /\ EntryOf(a)
    BY RomOfAttempt DEF FullInv, DownloadInv, ShapeInv, RestOK, EntriesFit
<1>2. CASE UNCHANGED shown /\ entry' \in {entry, [entry EXCEPT ![at[a].rom] = None]}
    BY <1>1, <1>2 DEF Unrevived
<1>3. ASSUME NEW S, Marked(a, S)
      PROVE  /\ r # at[a].rom => entry'[r] = entry[r] /\ shown'[r] = shown[r]
             /\ entry'[at[a].rom] \in S /\ entry[at[a].rom] # None
    BY <1>1, <1>3 DEF Marked
<1>4. CASE Advances(a) \/ Settles(a)
  <2>1. at[a].pc \in AtWorkPcs /\ \E S : Marked(a, S)
      BY <1>4 DEF Advances, Settles, AtWorkPcs
  <2>2. r = at[a].rom => entry[r] \in {"queued", "downloading"}
      BY <1>1, <1>3, <2>1 DEF EntryOf
  <2> QED BY <1>3, <2>1, <2>2, DownloadsAssumption DEF Unrevived, Ended
<1>5. CASE Completes(a)
  <2>1. Marked(a, {"completed"}) /\ at[a].pc \in {"committing", "settling", "finishing"}
      BY <1>5 DEF Completes
  <2>2. r = at[a].rom => entry[r] \in {"queued", "downloading", "completed"} /\ entry'[r] = "completed"
      BY <1>1, <1>3, <2>1 DEF EntryOf, AtWorkPcs
  <2> QED BY <1>3, <2>1, <2>2, DownloadsAssumption DEF Unrevived, Ended
<1>6. CASE Waits(a) \/ IsOver(a) \/ HandsOver(a)
    BY <1>2, <1>6 DEF Waits, IsOver, HandsOver
<1> QED BY <1>4, <1>5, <1>6 DEF GoesOn

LEMMA NextRevivesNone ==
    ASSUME FullInv, [Next]_vars, NEW r \in Roms \ crossed
    PROVE  Unrevived(r)
<1>1. entry \in [Roms -> Statuses \cup {None}] /\ shown \in [Roms -> Statuses \cup {None}]
    BY DEF FullInv, DownloadInv, ShapeInv, RestOK
<1>2. CASE UNCHANGED <<entry, shown>>
    BY <1>2 DEF Unrevived
<1>3. ASSUME NEW a \in Attempts, NEW p \in Roms, StartDownload(a, p) \/ ResumeDownload(a, p)
      PROVE  Unrevived(r)
    BY <1>2, <1>3 DEF StartDownload, ResumeDownload, told
<1>4. ASSUME NEW p \in Roms, NEW how \in {"cancelled", "paused"}, Stop(p, how)
      PROVE  Unrevived(r)
    BY <1>2, <1>4 DEF Stop, told
<1>5. ASSUME NEW p \in Roms, CancelPaused(p)
      PROVE  Unrevived(r)
    BY <1>1, <1>5, DownloadsAssumption DEF CancelPaused, Unrevived, Ended
<1>6. ASSUME NEW a \in Attempts, ApplyTick(a)
      PROVE  Unrevived(r)
  <2>1. at[a].rom \in Roms
      BY RomOfAttempt DEF FullInv
  <2> QED BY <1>1, <1>6, <2>1 DEF ApplyTick, LiveEntry, Unrevived
<1>7. ASSUME NEW a \in Attempts, Admit(a)
      PROVE  Unrevived(r)
  <2>1. at[a].rom \in Roms
      BY RomOfAttempt DEF FullInv
  <2> QED BY <1>1, <1>7, <2>1 DEF Admit, Unrevived
<1>8. ASSUME NEW a \in Attempts, TaskStep(a) \/ RefuseStart(a)
      PROVE  Unrevived(r)
    BY <1>8, TaskGoesOn, GoesOnRevivesNone DEF FullInv
<1>9. ASSUME NEW a \in Attempts, Transfer(a)
      PROVE  Unrevived(r)
    BY <1>2, <1>9, ThreadsOnly DEF FullInv
<1>10. CASE ClearCompleted \/ Forget
    BY <1>1, <1>10 DEF ClearCompleted, Forget, Unrevived
<1>11. CASE DeleteFiles \/ DeleteFails \/ DropRows \/ UninstallAllRoms \/ (\E p \in Roms : RemoveRom(p))
    BY <1>2, <1>11 DEF DeleteFiles, DeleteFails, DropRows, UninstallAllRoms, RemoveRom, BeginRemoval, told
<1>12. CASE UNCHANGED vars
    BY <1>2, <1>12 DEF vars
<1> QED BY <1>3, <1>4, <1>5, <1>6, <1>7, <1>8, <1>9, <1>10, <1>11, <1>12 DEF Next, Answered, RemovalStep

LEMMA CrossedGrows ==
    ASSUME FullInv, [Next]_vars
    PROVE  crossed \subseteq crossed'
<1>1. ASSUME NEW a \in Attempts, NEW r \in Roms, StartDownload(a, r) \/ ResumeDownload(a, r)
      PROVE  crossed \subseteq crossed'
    BY <1>1, StartMoves DEF FullInv
<1>2. ASSUME NEW r \in Roms, CancelPaused(r) \/ \E how \in {"cancelled", "paused"} : Stop(r, how)
      PROVE  crossed \subseteq crossed'
    BY <1>2 DEF CancelPaused, Stop
<1>3. ASSUME NEW a \in Attempts, Admit(a) \/ ApplyTick(a)
      PROVE  crossed \subseteq crossed'
    BY <1>3 DEF Admit, ApplyTick
<1>4. ASSUME NEW a \in Attempts, TaskStep(a) \/ RefuseStart(a) \/ Transfer(a)
      PROVE  crossed \subseteq crossed'
    BY <1>4, TaskGoesOn, ThreadsOnly DEF FullInv, GoesOn
<1>5. CASE RemovalStep \/ UninstallAllRoms \/ (\E r \in Roms : RemoveRom(r)) \/ ClearCompleted
    BY <1>5, RemovalIsCalm DEF FullInv, Calm
<1>6. CASE UNCHANGED vars
    BY <1>6 DEF vars
<1> QED BY <1>1, <1>2, <1>3, <1>4, <1>5, <1>6 DEF Next, Answered

\* No step revives an ended or cleared entry, nor tells the panel of it, until
\* the game is queued again: a late progress tick, a second stop, the handler
\* of a task whose game was uninstalled (the guards of services/downloads and
\* its queue).
THEOREM EndedIsFinal == Spec => EndedStaysEnded
<1> DEFINE Kept ==
        \A r \in Roms :
          entry[r] \in Ended \cup {None} /\ r \notin crossed' =>
              \/ entry'[r] = entry[r] /\ shown'[r] = shown[r]
              \/ entry'[r] \in {None, "queued"} /\ shown'[r] = shown[r]
              \/ entry[r] = "completed" /\ entry'[r] = "completed"
<1>1. FullInv /\ [Next]_vars => Kept
  <2> SUFFICES ASSUME FullInv, [Next]_vars, NEW r \in Roms, r \notin crossed' PROVE Unrevived(r)
      BY DEF Unrevived
  <2>1. r \in Roms \ crossed
      BY CrossedGrows
  <2> QED BY <2>1, NextRevivesNone
<1> QED BY <1>1, DownloadsInvariant, PTL DEF Spec, EndedStaysEnded
=============================================================================
