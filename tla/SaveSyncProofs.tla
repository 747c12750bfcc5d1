--------------------------- MODULE SaveSyncProofs ---------------------------
(***************************************************************************)
(* Proofs about SaveSync, for any devices, files and contents: no work is  *)
(* lost, whatever fails; a download is recorded once acknowledged; once a  *)
(* game starts, its sync may still change one file; and, where no save is  *)
(* replaced in place, a save RomM holds a device current on is on it, and, *)
(* with one file in the slot, a sync's upload buries and its download      *)
(* discards nothing that was not played on from.                           *)
(***************************************************************************)
EXTENDS SaveSync, Integers, WellFoundedInduction, TLAPS

-----------------------------------------------------------------------------
(* The newest of a group of saves, which the kernel and RomM choose. *)

LEMMA BoundedMax ==
    ASSUME NEW n \in Nat, NEW T, T \subseteq 0..n, T # {}
    PROVE  \E x \in T : \A y \in T : y <= x
<1> DEFINE gaps == {n - x : x \in T}
<1>0. \A x \in T : x \in 0..n /\ x \in Nat /\ n - x \in Nat
    OBVIOUS
<1>1. gaps \subseteq Nat /\ gaps # {}
    BY <1>0
<1>2. PICK g \in gaps : \A h \in gaps : ~(<<h, g>> \in OpToRel(<, Nat))
    BY <1>1, WFMin, NatLessThanWellFounded, Zenon
<1>3. \A h \in gaps : ~(h < g)
    <2> SUFFICES ASSUME NEW h \in gaps, h < g PROVE FALSE
        OBVIOUS
    <2>1. <<h, g>> \in Nat \X Nat /\ <<h, g>>[1] < <<h, g>>[2]
        BY <1>1
    <2>2. <<h, g>> \in OpToRel(<, Nat)
        BY <2>1, Zenon DEF OpToRel
    <2>3. QED
        BY <1>2, <2>2
<1>4. PICK x \in T : g = n - x
    OBVIOUS
<1>5. \A y \in T : y <= x
    <2> SUFFICES ASSUME NEW y \in T PROVE y <= x
        OBVIOUS
    <2>1. ~(n - y < n - x)
        BY <1>3, <1>4
    <2>2. x \in Nat /\ y \in Nat
        BY <1>0
    <2>3. QED
        BY <2>1, <2>2
<1>6. QED
    BY <1>5

LEMMA NewestInGroup ==
    ASSUME NEW n \in Nat, NEW group, group # {}, \A s \in group : s.upd \in 0..n
    PROVE  Newest(group) \in group
<1> DEFINE T == {s.upd : s \in group}
<1>1. PICK x \in T : \A y \in T : y <= x
    <2>1. T # {} /\ T \subseteq 0..n
        OBVIOUS
    <2> HIDE DEF T
    <2>2. QED
        BY <2>1, BoundedMax
<1>2. \E s \in group : \A t \in group : t.upd <= s.upd
    BY <1>1
<1>3. QED
    BY <1>2 DEF Newest

SaveType == [file : Files, content : Contents, upd : 1..MaxClock]

LEMMA ClockBounds == MaxClock \in Nat /\ MaxSaves \in Nat /\ MaxContent \in Nat
BY SaveAssumption DEF MaxClock

LEMMA SlotHeadTyped ==
    ASSUME saves \in Seq(SaveType)
    PROVE  SlotHead(saves) \in 0..Len(saves)
<1> DEFINE T == {saves[i].upd : i \in 1..Len(saves)}
<1>1. CASE saves = <<>>
    BY <1>1 DEF SlotHead
<1>2. CASE saves # <<>>
    <2>1. Len(saves) \in Nat \ {0} /\ \A i \in 1..Len(saves) : saves[i] \in SaveType
        BY <1>2
    <2>2. T \subseteq 0..MaxClock /\ T # {}
        BY <2>1, ClockBounds DEF SaveType
    <2>3. PICK x \in T : \A y \in T : y <= x
        <3> HIDE DEF T
        <3>1. QED
            BY <2>2, ClockBounds, BoundedMax
    <2>4. \E i \in 1..Len(saves) : \A j \in 1..Len(saves) : saves[j].upd <= saves[i].upd
        BY <2>3
    <2>5. SlotHead(saves) \in 1..Len(saves)
        BY <1>2, <2>4 DEF SlotHead
    <2>6. QED
        BY <2>1, <2>5
<1>3. QED
    BY <1>1, <1>2

LEMMA FileHeadTyped ==
    ASSUME saves \in Seq(SaveType), NEW f
    PROVE  FileHead(saves, f) \in 0..Len(saves)
<1> DEFINE ids == {i \in 1..Len(saves) : saves[i].file = f}
           T == {saves[i].upd : i \in ids}
<1>1. CASE ids = {}
    BY <1>1 DEF FileHead
<1>2. CASE ids # {}
    <2>1. Len(saves) \in Nat /\ \A i \in ids : saves[i] \in SaveType
        OBVIOUS
    <2>2. \A i \in ids : saves[i].upd \in 0..MaxClock
        BY <2>1, ClockBounds DEF SaveType
    <2> HIDE DEF ids
    <2>3. T \subseteq 0..MaxClock /\ T # {}
        BY <1>2, <2>2
    <2>4. PICK x \in T : \A y \in T : y <= x
        <3> HIDE DEF T
        <3>1. QED
            BY <2>3, ClockBounds, BoundedMax
    <2>5. \E i \in ids : \A j \in ids : saves[j].upd <= saves[i].upd
        BY <2>4
    <2>6. FileHead(saves, f) \in ids
        BY <1>2, <2>5 DEF FileHead, ids
    <2>7. QED
        BY <2>1, <2>6 DEF ids
<1>3. QED
    BY <1>1, <1>2

-----------------------------------------------------------------------------
(* What is true of an operation at each of its places, on a device with the  *)
(* given files, when RomM holds count saves.                                *)

\* The operation has a save of RomM's in hand.
HasHead == {"compare", "adopt", "recordUpload", "fetch", "place", "ack", "ackAgain"}

\* The device has a file to send.
HasFile == {"compare", "adopt", "post"}

OperationOK(o, files, count) ==
    /\ \A s \in o.listed : s.id \in 1..count
    /\ o.pc \notin {"idle", "decide"} => o.file \in Files
    /\ o.pc \in HasHead => o.head.id \in 1..count
    /\ o.pc \in HasFile => files[o.file] # None
    /\ o.pc = "place" => o.local # None
    /\ o.pc \in {"ack", "ackAgain"} => o.then # "none"

StateInv ==
    /\ TypeOK
    /\ clock = Len(saves) + replaced
    /\ \A d \in Devices : OperationOK(op[d], disk[d], Len(saves))

LEMMA StateInit == Init => StateInv
<1> SUFFICES ASSUME Init PROVE StateInv
    OBVIOUS
<1> USE SaveAssumption
<1>1. Idle \in Operations
    BY DEF Idle, Operations, Baselines, NoBaseline, NoSave, None
<1>2. \A d \in Devices : op[d] = Idle
    BY DEF Init
<1>3. \A d \in Devices : OperationOK(op[d], disk[d], Len(saves))
    BY <1>2 DEF OperationOK, Idle, HasHead, HasFile
<1>4. op \in [Devices -> Operations]
    BY <1>1 DEF Init
<1>5. CASE saves = <<>>
    <2>1. clock = Len(saves) + replaced
        BY <1>5 DEF Init
    <2>2. TypeOK
        BY <1>4, <1>5
        DEF Init, TypeOK, None, NoBaseline, NotRunning, Baselines, Contents, Ids, MaxClock, Refused
    <2>3. QED
        BY <1>3, <2>1, <2>2 DEF StateInv
<1>6. ASSUME NEW d \in Devices, NEW f \in Files,
             /\ MaxReplaced > 0 /\ MaxContent > 0 /\ MaxSaves > 0
             /\ disk = [e \in Devices |-> [g \in Files |-> IF e = d /\ g = f THEN 1 ELSE None]]
             /\ base = [e \in Devices |-> [g \in Files |->
                           IF e = d /\ g = f THEN [local |-> 1, server |-> 1] ELSE NoBaseline]]
             /\ saves = <<[file |-> f, content |-> 1, upd |-> 1]>>
             /\ rows = [e \in Devices |-> [i \in Ids |-> IF e = d /\ i = 1 THEN 1 ELSE 0]]
             /\ bare = {<<d, 1>>}
             /\ clock = 1
             /\ written = 1
             /\ over = [c \in 0..MaxContent |-> IF c = 1 THEN {1} ELSE {}]
      PROVE  StateInv
    <2>1. clock = Len(saves) + replaced
        BY <1>6 DEF Init
    <2>2. saves \in Seq(SaveType) /\ Len(saves) <= MaxSaves
        BY <1>6 DEF SaveType, Contents, MaxClock
    <2>3. /\ disk \in [Devices -> [Files -> 0..MaxContent]]
          /\ rows \in [Devices -> [Ids -> 0..MaxClock]]
          /\ bare \subseteq Devices \X Ids
          /\ clock \in 0..MaxClock /\ written \in 0..MaxContent
          /\ over \in [0..MaxContent -> SUBSET Contents]
        BY <1>6 DEF Contents, Ids, MaxClock, None
    <2>4. base \in [Devices -> Baselines]
        BY <1>6 DEF Baselines, NoBaseline, None
    <2>5. QED
        BY <1>3, <1>4, <2>1, <2>2, <2>3, <2>4
        DEF Init, StateInv, TypeOK, SaveType, NotRunning, None, Contents, Refused
<1>7. QED
    BY <1>5, <1>6 DEF Init

-----------------------------------------------------------------------------
(* Operations, as they are made from one another. *)

LEMMA OperationStays ==
    ASSUME NEW o, NEW files, NEW later, NEW m \in Nat, NEW n \in Nat, m <= n,
           OperationOK(o, files, m),
           \A f \in Files : files[f] # None => later[f] # None
    PROVE  OperationOK(o, later, n)
BY DEF OperationOK, HasFile

LEMMA IdleOK ==
    /\ Idle \in Operations
    /\ \A files, n : OperationOK(Idle, files, n)
BY SaveAssumption
DEF Idle, Operations, Baselines, NoBaseline, NoSave, None, OperationOK, HasHead, HasFile

LEMMA DoneOK ==
    ASSUME NEW o \in Operations
    PROVE  /\ Done(o) \in Operations
           /\ \A files, n : OperationOK(o, files, n) => OperationOK(Done(o), files, n)
<1>1. Done(o) \in Operations
    <2>1. NoSave \in [id : 0..MaxSaves, content : 0..MaxContent] /\ None \in 0..MaxContent
        BY SaveAssumption DEF NoSave, None
    <2>2. o.todo \ {o.file} \in SUBSET Files
        BY DEF Operations
    <2>3. QED
        BY <2>1, <2>2 DEF Done, Operations
<1>2. Done(o).pc = "decide" /\ Done(o).listed = o.listed
    BY DEF Done, Operations
<1>3. QED
    BY <1>1, <1>2 DEF OperationOK, HasHead, HasFile

LEMMA FailedOK ==
    ASSUME NEW o \in Operations
    PROVE  /\ Failed(o) \in Operations
           /\ \A files, n : OperationOK(o, files, n) => OperationOK(Failed(o), files, n)
BY IdleOK, DoneOK DEF Failed

\* Only a fetch comes to place a file, and only an acknowledgement RomM took to
\* record a download.
StillThere ==
    \A d \in Devices : op'[d].pc \in {"place", "record"} =>
        op'[d].pc = op[d].pc /\ op'[d].local = op[d].local

LEMMA Leaves ==
    ASSUME StateInv, NEW d \in Devices, NEW o, op' = [op EXCEPT ![d] = o],
           o.pc \notin {"place", "record"}
    PROVE  StillThere
BY DEF StillThere, StateInv, TypeOK

LEMMA DoneLeaves ==
    ASSUME NEW o \in Operations
    PROVE  Done(o).pc = "decide" /\ Failed(o).pc \in {"idle", "decide"}
BY DEF Done, Failed, Idle, Operations

\* A baseline recorded for the file.
LEMMA RecordedTyped ==
    ASSUME NEW o \in Operations, NEW f, NEW local \in 0..MaxContent, NEW server \in 0..MaxContent
    PROVE  /\ [o EXCEPT !.mem[f] = [local |-> local, server |-> server]] \in Operations
           /\ [o EXCEPT !.mem[f] = [local |-> local, server |-> server]].listed = o.listed
           /\ [o EXCEPT !.mem[f] = [local |-> local, server |-> server]].file = o.file
           /\ [o EXCEPT !.mem[f] = [local |-> local, server |-> server]].head = o.head
<1>1. o.mem \in Baselines
    BY DEF Operations
<1>2. [o.mem EXCEPT ![f] = [local |-> local, server |-> server]] \in Baselines
    BY <1>1 DEF Baselines
<1>3. QED
    BY <1>2 DEF Operations

LEMMA DoneRecordedOK ==
    ASSUME NEW o \in Operations, NEW f, NEW local \in 0..MaxContent, NEW server \in 0..MaxContent
    PROVE  /\ Done([o EXCEPT !.mem[f] = [local |-> local, server |-> server]]) \in Operations
           /\ \A files, n : OperationOK(o, files, n) =>
                  OperationOK(Done([o EXCEPT !.mem[f] = [local |-> local, server |-> server]]), files, n)
<1> DEFINE q == [o EXCEPT !.mem[f] = [local |-> local, server |-> server]]
<1>1. q \in Operations /\ q.listed = o.listed
    BY RecordedTyped
<1> HIDE DEF q
<1>2. Done(q) \in Operations
    BY <1>1, DoneOK
<1>3. Done(q).pc = "decide" /\ Done(q).listed = o.listed
    BY <1>1 DEF Done, Operations
<1>4. \A files, n : OperationOK(o, files, n) => OperationOK(Done(q), files, n)
    BY <1>3 DEF OperationOK, HasHead, HasFile
<1>5. QED
    BY <1>2, <1>4 DEF q

LEMMA AcknowledgedOK ==
    ASSUME NEW o \in Operations, o.then # "none"
    PROVE  /\ Acknowledged(o) \in Operations
           /\ \A files, n : OperationOK(o, files, n) /\ o.pc \in {"ack", "ackAgain"} =>
                  OperationOK(Acknowledged(o), files, n)
<1>1. CASE o.then = "record"
    <2>1. Acknowledged(o) = [o EXCEPT !.pc = "record"]
        BY <1>1 DEF Acknowledged
    <2>2. QED
        BY <2>1 DEF Operations, OperationOK, HasHead, HasFile
<1>2. CASE o.then = "recordAdopt"
    <2>1. Acknowledged(o) = Done([o EXCEPT !.mem[o.file] =
                                [local |-> o.local, server |-> o.head.content]])
        BY <1>2 DEF Acknowledged
    <2>2. o.local \in 0..MaxContent /\ o.head.content \in 0..MaxContent
        BY DEF Operations
    <2>3. QED
        BY <2>1, <2>2, DoneRecordedOK
<1>3. CASE o.then = "done"
    <2>1. Acknowledged(o) = Done(o)
        BY <1>3 DEF Acknowledged
    <2>2. QED
        BY <2>1, DoneOK
<1>4. QED
    BY <1>1, <1>2, <1>3 DEF Operations

LEMMA NotTakenOK ==
    ASSUME NEW d, op[d] \in Operations
    PROVE  /\ NotTaken(d) \in Operations
           /\ \A files, n : OperationOK(op[d], files, n) => OperationOK(NotTaken(d), files, n)
BY DoneOK, FailedOK DEF NotTaken

-----------------------------------------------------------------------------
(* The steps that change an operation and nothing it works on. *)

\* What such a step leaves of the state.
OperationOnly ==
    /\ UNCHANGED <<disk, backups, base, game, saves, written, over>>
    /\ shown' \in [Devices -> [Files -> 0..Refused]]
    /\ rows' \in [Devices -> [Ids -> 0..MaxClock]]
    /\ bare' \subseteq Devices \X Ids
    /\ clock' = clock /\ replaced' = replaced
    /\ faults' \in 0..MaxFaults

Becomes(d, o) ==
    /\ op' = [op EXCEPT ![d] = o]
    /\ o \in Operations
    /\ OperationOK(o, disk[d], Len(saves))

LEMMA BecomesKeeps ==
    ASSUME StateInv, NEW d \in Devices, NEW o, Becomes(d, o), OperationOnly
    PROVE  StateInv'
<1>1. op' \in [Devices -> Operations]
    BY DEF StateInv, TypeOK, Becomes
<1>2. \A e \in Devices : OperationOK(op'[e], disk'[e], Len(saves'))
    BY DEF StateInv, TypeOK, Becomes, OperationOnly
<1>3. QED
    BY <1>1, <1>2 DEF StateInv, TypeOK, OperationOnly

LEMMA SameKeeps ==
    ASSUME StateInv, op' = op, OperationOnly
    PROVE  StateInv'
BY DEF StateInv, TypeOK, OperationOnly

LEMMA Unchanging ==
    ASSUME StateInv, UNCHANGED <<deviceVars, shown, serverVars, written, over, boundVars>>
    PROVE  OperationOnly
BY DEF StateInv, TypeOK, OperationOnly, deviceVars, serverVars, boundVars

\* The saves RomM lists are RomM's.
LEMMA ListingTyped ==
    ASSUME StateInv, NEW d \in Devices
    PROVE  \A s \in Listing(saves, rows[d]) : s \in Listed /\ s.id \in 1..Len(saves)
<1>1. saves \in Seq(SaveType) /\ Len(saves) <= MaxSaves /\ rows[d] \in [Ids -> 0..MaxClock]
    BY DEF StateInv, TypeOK, SaveType
<1>2. ASSUME NEW i \in 1..Len(saves)
      PROVE  /\ saves[i] \in SaveType /\ i \in Ids
             /\ IsCurrent(saves, rows[d], i) \in BOOLEAN
    BY <1>1, SaveAssumption DEF Ids, IsCurrent
<1>3. ASSUME NEW i \in 1..Len(saves)
      PROVE  [id |-> i, file |-> saves[i].file, content |-> saves[i].content,
              upd |-> saves[i].upd, current |-> IsCurrent(saves, rows[d], i)] \in Listed
    BY <1>2 DEF SaveType, Listed
<1>4. QED
    BY <1>3 DEF Listing

\* The newest of a file's listed saves.
LEMMA NewestListed ==
    ASSUME NEW listed, listed \subseteq Listed, NEW f, Group(listed, f) # {}
    PROVE  /\ Newest(Group(listed, f)) \in listed
           /\ Newest(Group(listed, f)) \in Listed
           /\ Named(Newest(Group(listed, f))) \in [id : Ids, content : Contents]
<1>1. \A s \in Group(listed, f) : s \in Listed /\ s \in listed /\ s.upd \in 0..MaxClock
    BY ClockBounds DEF Group, Listed
<1>2. Newest(Group(listed, f)) \in Group(listed, f)
    BY <1>1, ClockBounds, NewestInGroup
<1>3. QED
    BY <1>1, <1>2 DEF Named, Listed

LEMMA StartKeeps ==
    ASSUME StateInv, NEW d \in Devices, NEW kind \in Syncs, Start(d, kind)
    PROVE  StateInv'
<1> DEFINE listed == Listing(saves, rows[d])
           probed == {f \in Files : disk[d][f] # None}
           o == [Idle EXCEPT !.pc = "decide", !.kind = kind, !.mem = base[d], !.listed = listed,
                             !.probed = probed, !.todo = probed \cup {s.file : s \in listed}]
<1>1. \A s \in listed : s \in Listed /\ s.id \in 1..Len(saves)
    BY ListingTyped
<1>2. listed \subseteq Listed /\ probed \subseteq Files /\ {s.file : s \in listed} \subseteq Files
      /\ base[d] \in Baselines
    BY <1>1 DEF Listed, StateInv, TypeOK
<1> HIDE DEF listed, probed
<1>3. o \in Operations
    BY <1>2, IdleOK DEF Operations, Idle
<1>4. OperationOK(o, disk[d], Len(saves))
    BY <1>1 DEF OperationOK, HasHead, HasFile, Idle
<1>5. op' = [op EXCEPT ![d] = o]
    BY DEF Start, listed, probed
<1>6. OperationOnly
    <2>1. shown' \in [Devices -> [Files -> 0..Refused]]
        BY SaveAssumption DEF Start, StateInv, TypeOK, Refused
    <2>2. QED
        BY <2>1 DEF Start, StateInv, TypeOK, OperationOnly, deviceVars, serverVars, boundVars
<1>7. QED
    BY <1>3, <1>4, <1>5, <1>6, BecomesKeeps DEF Becomes

LEMMA DecideKeeps ==
    ASSUME StateInv, NEW d \in Devices, Decide(d)
    PROVE  StateInv' /\ StillThere
<1>1. op[d] \in Operations /\ OperationOK(op[d], disk[d], Len(saves)) /\ op[d].pc = "decide"
    BY DEF StateInv, TypeOK, Decide
<1>2. PICK f \in op[d].todo :
        LET o == [op[d] EXCEPT !.file = f]
            local == IF f \in o.probed THEN disk[d][f] ELSE None
            group == Group(o.listed, f)
            head == IF group = {} THEN NoSave ELSE Named(Newest(group))
            decision == Decision(local, group, o.mem[f], Truncated)
            at(pc) == [o EXCEPT !.pc = pc, !.local = local, !.head = head]
        IN  /\ shown' = IF decision = "conflict" THEN [shown EXCEPT ![d][f] = head.id] ELSE shown
            /\ op' = [op EXCEPT ![d] =
                  CASE decision \in {"skip", "conflict"} -> Done(o)
                    [] decision = "record" -> Done([o EXCEPT
                          !.mem[f] = [local |-> local, server |-> head.content]])
                    [] decision = "adopt" -> at("adopt")
                    [] decision = "upload" -> at("post")
                    [] decision = "download" -> at("fetch")]
    BY DEF Decide
<1> DEFINE o == [op[d] EXCEPT !.file = f]
           local == IF f \in o.probed THEN disk[d][f] ELSE None
           group == Group(o.listed, f)
           head == IF group = {} THEN NoSave ELSE Named(Newest(group))
           decision == Decision(local, group, o.mem[f], Truncated)
           at(pc) == [o EXCEPT !.pc = pc, !.local = local, !.head = head]
           next == CASE decision \in {"skip", "conflict"} -> Done(o)
                     [] decision = "record" -> Done([o EXCEPT
                           !.mem[f] = [local |-> local, server |-> head.content]])
                     [] decision = "adopt" -> at("adopt")
                     [] decision = "upload" -> at("post")
                     [] decision = "download" -> at("fetch")
<1>3. op' = [op EXCEPT ![d] = next]
      /\ shown' = IF decision = "conflict" THEN [shown EXCEPT ![d][f] = head.id] ELSE shown
    BY <1>2
<1>4. f \in Files /\ o \in Operations /\ o.listed = op[d].listed /\ o.pc = "decide" /\ o.file = f
      /\ o.listed \subseteq Listed
    BY <1>1 DEF Operations
<1>5. OperationOK(o, disk[d], Len(saves))
    BY <1>1, <1>4 DEF OperationOK, HasHead, HasFile
<1>6. local \in 0..MaxContent /\ (local # None => disk[d][f] = local)
    BY <1>4, SaveAssumption DEF StateInv, TypeOK, None
<1>7. group # {} => /\ head.id \in 1..Len(saves) /\ head.id \in Ids /\ head.content \in Contents
                    /\ Newest(group) \in Listed
    BY <1>1, <1>4, NewestListed DEF Named, OperationOK, Listed
<1>8. head \in [id : 0..MaxSaves, content : 0..MaxContent]
    BY <1>4, <1>7, NewestListed, SaveAssumption DEF NoSave, None, Ids, Contents
<1>9. /\ decision \in {"skip", "conflict", "record", "adopt", "upload", "download"}
      /\ decision \in {"conflict", "record", "adopt", "download"} => group # {}
      /\ decision \in {"adopt", "upload"} => local # None
    <2>1. group # {} => Newest(group).current \in BOOLEAN
        BY <1>7 DEF Listed
    <2> HIDE DEF group, local, o
    <2>2. QED
        BY <2>1 DEF Decision
<1> HIDE DEF o, local, group, head, decision
<1>10. \A pc \in {"adopt", "post", "fetch"} : at(pc) \in Operations
    BY <1>4, <1>6, <1>8 DEF Operations
<1>11. ASSUME NEW pc \in {"adopt", "post", "fetch"},
              pc \in {"adopt", "fetch"} => group # {},
              pc \in {"adopt", "post"} => local # None
       PROVE  OperationOK(at(pc), disk[d], Len(saves)) /\ at(pc).pc = pc
    <2>1. /\ at(pc).listed = o.listed /\ at(pc).pc = pc /\ at(pc).file = f /\ at(pc).head = head
        BY <1>4 DEF Operations
    <2>2. QED
        BY <1>4, <1>5, <1>6, <1>7, <1>11, <2>1 DEF OperationOK, HasHead, HasFile
<1>12. /\ next \in Operations /\ OperationOK(next, disk[d], Len(saves))
       /\ next.pc \in {"decide", "adopt", "post", "fetch"}
    <2>1. CASE decision \in {"skip", "conflict"}
        <3>1. next = Done(o)
            BY <2>1
        <3>2. QED
            BY <1>4, <1>5, <3>1, DoneOK, DoneLeaves
    <2>2. CASE decision = "record"
        <3>1. next = Done([o EXCEPT !.mem[f] = [local |-> local, server |-> head.content]])
            BY <2>2
        <3>2. head.content \in 0..MaxContent
            BY <1>8
        <3>3. /\ Done([o EXCEPT !.mem[f] = [local |-> local, server |-> head.content]]) \in Operations
              /\ OperationOK(Done([o EXCEPT !.mem[f] = [local |-> local, server |-> head.content]]),
                             disk[d], Len(saves))
              /\ Done([o EXCEPT !.mem[f] = [local |-> local, server |-> head.content]]).pc = "decide"
            BY <1>4, <1>5, <1>6, <3>2, DoneRecordedOK, RecordedTyped, DoneLeaves
        <3> HIDE DEF next
        <3>4. QED
            BY <3>1, <3>3
    <2>3. CASE decision = "adopt"
        BY <1>9, <1>10, <1>11, <2>3
    <2>4. CASE decision = "upload"
        BY <1>9, <1>10, <1>11, <2>4
    <2>5. CASE decision = "download"
        BY <1>9, <1>10, <1>11, <2>5
    <2>6. QED
        BY <1>9, <2>1, <2>2, <2>3, <2>4, <2>5
<1>13. OperationOnly
    <2>1. head.id \in 0..Refused
        BY <1>8, SaveAssumption DEF Refused
    <2>2. shown' \in [Devices -> [Files -> 0..Refused]]
        BY <1>3, <1>4, <2>1 DEF StateInv, TypeOK
    <2>3. QED
        BY <2>2 DEF Decide, StateInv, TypeOK, OperationOnly, deviceVars, serverVars, boundVars
<1>14. StateInv'
    BY <1>3, <1>12, <1>13, BecomesKeeps DEF Becomes
<1>15. StillThere
    BY <1>3, <1>12, Leaves
<1>16. QED
    BY <1>14, <1>15

LEMMA ResolveKeeps ==
    ASSUME StateInv, NEW d \in Devices, NEW f \in Files, NEW kind \in Resolutions, Resolve(d, f, kind)
    PROVE  StateInv'
<1> DEFINE id == SlotHead(saves)
           o == [Idle EXCEPT !.kind = kind, !.mem = base[d], !.file = f, !.todo = {f},
                             !.head = [id |-> id, content |-> saves[id].content]]
<1>1. saves \in Seq(SaveType) /\ Len(saves) <= MaxSaves /\ base[d] \in Baselines
    BY DEF StateInv, TypeOK, SaveType
<1>2. id \in 1..Len(saves)
    <2>1. id # 0 /\ id \in 0..Len(saves)
        BY <1>1, SlotHeadTyped DEF Resolve
    <2>2. Len(saves) \in Nat
        BY <1>1
    <2> HIDE DEF id
    <2>3. QED
        BY <2>1, <2>2
<1>3. saves[id] \in SaveType
    BY <1>1, <1>2
<1>4. [id |-> id, content |-> saves[id].content] \in [id : 0..MaxSaves, content : 0..MaxContent]
    BY <1>1, <1>2, <1>3, SaveAssumption DEF SaveType, Contents
<1> HIDE DEF id
<1>5. o \in Operations
    BY <1>1, <1>4, IdleOK DEF Operations, Idle
<1>6. o.listed = {} /\ o.file = f /\ o.head.id = id
    BY DEF Idle
<1>7. CASE op' = op
    <2>1. shown' = shown \/ shown' = [shown EXCEPT ![d][f] = Refused]
        BY DEF Resolve
    <2>2. shown' \in [Devices -> [Files -> 0..Refused]]
        <3>1. Refused \in 0..Refused
            BY SaveAssumption DEF Refused
        <3>2. shown \in [Devices -> [Files -> 0..Refused]]
            BY DEF StateInv, TypeOK
        <3>3. QED
            BY <2>1, <3>1, <3>2
    <2>3. OperationOnly
        BY <2>2 DEF Resolve, StateInv, TypeOK, OperationOnly, deviceVars, serverVars, boundVars
    <2>4. QED
        BY <1>7, <2>3, SameKeeps
<1>8. CASE op' = [op EXCEPT ![d] = [o EXCEPT !.pc = "fetch"]] /\ shown' = shown
    <2>1. [o EXCEPT !.pc = "fetch"] \in Operations
        BY <1>5 DEF Operations
    <2>2. OperationOK([o EXCEPT !.pc = "fetch"], disk[d], Len(saves))
        BY <1>2, <1>5, <1>6 DEF OperationOK, HasHead, HasFile, Operations
    <2>3. OperationOnly
        BY <1>8, Unchanging DEF Resolve
    <2>4. QED
        BY <1>8, <2>1, <2>2, <2>3, BecomesKeeps DEF Becomes
<1>9. CASE /\ op' = [op EXCEPT ![d] = [o EXCEPT !.pc = "compare", !.local = disk[d][f]]]
           /\ disk[d][f] # None /\ shown' = shown
    <2> DEFINE q == [o EXCEPT !.pc = "compare", !.local = disk[d][f]]
    <2>1. q \in Operations
        <3>1. disk[d][f] \in 0..MaxContent
            BY DEF StateInv, TypeOK
        <3>2. QED
            BY <1>5, <3>1 DEF Operations
    <2>2. OperationOK(q, disk[d], Len(saves))
        BY <1>2, <1>5, <1>6, <1>9 DEF OperationOK, HasHead, HasFile, Operations
    <2>3. OperationOnly
        BY <1>9, Unchanging DEF Resolve
    <2>4. QED
        BY <1>9, <2>1, <2>2, <2>3, BecomesKeeps DEF Becomes
<1>10. QED
    BY <1>7, <1>8, <1>9 DEF Resolve, id

\* A step that leaves the operation at another place, with what it has in hand.
LEMMA MovesOK ==
    ASSUME NEW o \in Operations,
           NEW pc \in {"compare", "adopt", "post", "relist", "fetch", "ack", "ackAgain", "record"},
           NEW files, NEW n, OperationOK(o, files, n), o.file \in Files,
           pc \in HasHead => o.head.id \in 1..n,
           pc \in HasFile => files[o.file] # None,
           pc \in {"ack", "ackAgain"} => o.then # "none"
    PROVE  /\ [o EXCEPT !.pc = pc] \in Operations
           /\ OperationOK([o EXCEPT !.pc = pc], files, n)
<1>1. [o EXCEPT !.pc = pc] \in Operations
    BY DEF Operations
<1>2. /\ [o EXCEPT !.pc = pc].pc = pc /\ [o EXCEPT !.pc = pc].listed = o.listed
      /\ [o EXCEPT !.pc = pc].file = o.file /\ [o EXCEPT !.pc = pc].head = o.head
      /\ [o EXCEPT !.pc = pc].then = o.then
    BY DEF Operations
<1>3. QED
    BY <1>1, <1>2 DEF OperationOK

\* Another save comes to be in hand.
LEMMA GetsHeadOK ==
    ASSUME NEW o \in Operations, NEW pc \in {"recordUpload", "fetch"}, NEW files, NEW n,
           OperationOK(o, files, n), o.file \in Files,
           NEW head \in [id : 0..MaxSaves, content : 0..MaxContent],
           head.id \in 1..n,
           NEW then \in {"none", "record", "recordAdopt", "done"}
    PROVE  /\ [o EXCEPT !.pc = pc, !.head = head] \in Operations
           /\ OperationOK([o EXCEPT !.pc = pc, !.head = head], files, n)
           /\ [o EXCEPT !.pc = pc, !.head = head, !.then = then] \in Operations
           /\ OperationOK([o EXCEPT !.pc = pc, !.head = head, !.then = then], files, n)
<1> DEFINE p == [o EXCEPT !.pc = pc, !.head = head]
           q == [o EXCEPT !.pc = pc, !.head = head, !.then = then]
<1>1. p \in Operations /\ q \in Operations
    BY DEF Operations
<1>2. /\ p.pc = pc /\ p.listed = o.listed /\ p.file = o.file /\ p.head = head
      /\ q.pc = pc /\ q.listed = o.listed /\ q.file = o.file /\ q.head = head
    BY DEF Operations
<1> HIDE DEF p, q
<1>3. OperationOK(p, files, n) /\ OperationOK(q, files, n)
    BY <1>2 DEF OperationOK, HasHead, HasFile
<1>4. QED
    BY <1>1, <1>3 DEF p, q

LEMMA AtPlace ==
    ASSUME StateInv, NEW d \in Devices
    PROVE  /\ op[d] \in Operations
           /\ OperationOK(op[d], disk[d], Len(saves))
           /\ saves \in Seq(SaveType) /\ Len(saves) \in Nat /\ Len(saves) <= MaxSaves
           /\ \A i \in 1..Len(saves) : saves[i] \in SaveType
           /\ disk[d] \in [Files -> 0..MaxContent]
<1>1. op[d] \in Operations /\ disk[d] \in [Files -> 0..MaxContent]
    BY DEF StateInv, TypeOK
<1>2. saves \in Seq(SaveType) /\ Len(saves) <= MaxSaves
    BY DEF StateInv, TypeOK, SaveType
<1>3. Len(saves) \in Nat /\ \A i \in 1..Len(saves) : saves[i] \in SaveType
    BY <1>2
<1>4. OperationOK(op[d], disk[d], Len(saves))
    BY DEF StateInv
<1>5. QED
    BY <1>1, <1>2, <1>3, <1>4

LEMMA CompareKeeps ==
    ASSUME StateInv, NEW d \in Devices, Compare(d)
    PROVE  StateInv'
<1>1. OperationOnly /\ op[d].pc = "compare"
    BY Unchanging DEF Compare
<1>2. op[d].file \in Files /\ op[d].head.id \in 1..Len(saves) /\ disk[d][op[d].file] # None
    BY <1>1, AtPlace DEF OperationOK, HasHead, HasFile
<1>3. PICK pc \in {"adopt", "post"} : op' = [op EXCEPT ![d].pc = pc]
    BY DEF Compare
<1>4. op' = [op EXCEPT ![d] = [op[d] EXCEPT !.pc = pc]]
    BY <1>3
<1>5. [op[d] EXCEPT !.pc = pc] \in Operations
      /\ OperationOK([op[d] EXCEPT !.pc = pc], disk[d], Len(saves))
    <2>1. op[d] \in Operations /\ OperationOK(op[d], disk[d], Len(saves))
        BY AtPlace
    <2>2. QED
        BY <1>2, <2>1, MovesOK
<1>6. QED
    BY <1>1, <1>4, <1>5, BecomesKeeps DEF Becomes

LEMMA RelistKeeps ==
    ASSUME StateInv, NEW d \in Devices, Relist(d)
    PROVE  StateInv'
<1> DEFINE o == op[d]
           listed == Listing(saves, rows[d])
           group == Group(listed, o.file)
           fresh == Newest(group)
<1>1. o.pc = "relist" /\ o.file \in Files
    BY AtPlace DEF Relist, OperationOK
<1>2. group # {} => fresh.id \in 1..Len(saves)
                    /\ Named(fresh) \in [id : 0..MaxSaves, content : 0..MaxContent]
                    /\ fresh.id \in 0..Refused
    <2>1. listed \subseteq Listed /\ \A s \in listed : s.id \in 1..Len(saves)
        BY ListingTyped
    <2> HIDE DEF listed
    <2>2. group # {} => fresh \in listed /\ Named(fresh) \in [id : Ids, content : Contents]
        BY <2>1, NewestListed
    <2>3. Ids \subseteq 0..MaxSaves /\ Contents \subseteq 0..MaxContent /\ Ids \subseteq 0..Refused
        BY SaveAssumption DEF Ids, Contents, Refused
    <2>4. group # {} => fresh.id \in Ids
        BY <2>1, <2>2 DEF Listed
    <2> HIDE DEF group
    <2>5. QED
        BY <2>1, <2>2, <2>3, <2>4
<1>3. Named(fresh).id = fresh.id
    BY DEF Named
<1> HIDE DEF group, fresh
<1>4. /\ UNCHANGED <<deviceVars, serverVars, written, over, boundVars>>
      /\ \/ op' = [op EXCEPT ![d] = Failed(o)] /\ shown' = shown
         \/ /\ group # {} /\ shown' = shown
            /\ op' = [op EXCEPT ![d] = [o EXCEPT !.pc = "fetch", !.head = Named(fresh)]]
         \/ /\ group # {}
            /\ op' = [op EXCEPT ![d] = Done(o)]
            /\ shown' = [shown EXCEPT ![d][o.file] = fresh.id]
    BY DEF Relist, group, fresh
<1>5. shown' \in [Devices -> [Files -> 0..Refused]]
    <2>1. shown' = shown \/ (group # {} /\ shown' = [shown EXCEPT ![d][o.file] = fresh.id])
        BY <1>4
    <2>2. shown \in [Devices -> [Files -> 0..Refused]]
        BY DEF StateInv, TypeOK
    <2>3. ASSUME NEW f \in Files, NEW id \in 0..Refused
          PROVE  [shown EXCEPT ![d][f] = id] \in [Devices -> [Files -> 0..Refused]]
        BY <2>2
    <2>4. group # {} => [shown EXCEPT ![d][o.file] = fresh.id] \in [Devices -> [Files -> 0..Refused]]
        BY <1>1, <1>2, <2>3, Zenon
    <2>5. QED
        BY <2>1, <2>2, <2>4, Zenon
<1>6. OperationOnly
    BY <1>4, <1>5 DEF StateInv, TypeOK, OperationOnly, deviceVars, serverVars, boundVars
<1>7. CASE op' = [op EXCEPT ![d] = Failed(o)]
    BY <1>6, <1>7, AtPlace, FailedOK, BecomesKeeps DEF Becomes
<1>8. CASE op' = [op EXCEPT ![d] = Done(o)]
    BY <1>6, <1>8, AtPlace, DoneOK, BecomesKeeps DEF Becomes
<1>9. CASE group # {} /\ op' = [op EXCEPT ![d] = [o EXCEPT !.pc = "fetch", !.head = Named(fresh)]]
    <2>1. o \in Operations /\ OperationOK(o, disk[d], Len(saves))
        BY AtPlace
    <2>2. /\ [o EXCEPT !.pc = "fetch", !.head = Named(fresh)] \in Operations
          /\ OperationOK([o EXCEPT !.pc = "fetch", !.head = Named(fresh)], disk[d], Len(saves))
        BY <1>1, <1>2, <1>3, <1>9, <2>1, GetsHeadOK
    <2>3. QED
        BY <1>6, <1>9, <2>2, BecomesKeeps DEF Becomes
<1>10. QED
    BY <1>4, <1>7, <1>8, <1>9

LEMMA FetchKeeps ==
    ASSUME StateInv, NEW d \in Devices, Fetch(d)
    PROVE  StateInv'
<1> DEFINE o == op[d]
           q == [o EXCEPT !.pc = "place", !.local = saves[o.head.id].content]
<1>1. OperationOnly /\ o.pc = "fetch"
    BY Unchanging DEF Fetch
<1>2. o.file \in Files /\ o.head.id \in 1..Len(saves)
    BY <1>1, AtPlace DEF OperationOK, HasHead
<1>3. saves[o.head.id].content \in Contents
    BY <1>2, AtPlace DEF SaveType
<1>4. saves[o.head.id].content \in 0..MaxContent /\ saves[o.head.id].content # None
    BY <1>3, SaveAssumption DEF Contents, None
<1>5. q \in Operations
    BY <1>4, AtPlace DEF Operations
<1>6. q.pc = "place" /\ q.listed = o.listed /\ q.file = o.file /\ q.head = o.head
      /\ q.local = saves[o.head.id].content
    BY AtPlace DEF Operations
<1> HIDE DEF q
<1>7. OperationOK(q, disk[d], Len(saves))
    BY <1>2, <1>4, <1>6, AtPlace DEF OperationOK, HasHead, HasFile
<1>8. op' = [op EXCEPT ![d] = q] \/ op' = [op EXCEPT ![d] = Done(o)]
    BY DEF Fetch, q
<1>9. CASE op' = [op EXCEPT ![d] = q]
    BY <1>1, <1>5, <1>7, <1>9, BecomesKeeps DEF Becomes
<1>10. CASE op' = [op EXCEPT ![d] = Done(o)]
    BY <1>1, <1>10, AtPlace, DoneOK, BecomesKeeps DEF Becomes
<1>11. QED
    BY <1>8, <1>9, <1>10

LEMMA RecordKeeps ==
    ASSUME StateInv, NEW d \in Devices, Record(d)
    PROVE  StateInv'
<1>1. OperationOnly /\ op[d].pc = "record"
    BY Unchanging DEF Record
<1>2. op[d].file \in Files
    BY <1>1, AtPlace DEF OperationOK
<1>3. disk[d][op[d].file] \in 0..MaxContent /\ op[d].head.content \in 0..MaxContent
    BY <1>2, AtPlace DEF Operations
<1>4. op' = [op EXCEPT ![d] = Done([op[d] EXCEPT
                    !.mem[op[d].file] = [local |-> disk[d][op[d].file], server |-> op[d].head.content]])]
    BY DEF Record
<1>5. QED
    BY <1>1, <1>3, <1>4, AtPlace, DoneRecordedOK, BecomesKeeps DEF Becomes

LEMMA RecordUploadKeeps ==
    ASSUME StateInv, NEW d \in Devices, RecordUpload(d)
    PROVE  StateInv'
<1> DEFINE o == op[d]
           recorded == [o EXCEPT !.mem[o.file] = [local |-> disk[d][o.file], server |-> o.head.content]]
           acks == [recorded EXCEPT !.pc = "ack", !.local = o.head.content]
<1>1. OperationOnly /\ o.pc = "recordUpload"
    BY Unchanging DEF RecordUpload
<1>2. o.file \in Files /\ o.head.id \in 1..Len(saves)
    BY <1>1, AtPlace DEF OperationOK, HasHead
<1>3. disk[d][o.file] \in 0..MaxContent /\ o.head.content \in 0..MaxContent
    BY <1>2, AtPlace DEF Operations
<1>4. /\ recorded \in Operations /\ recorded.listed = o.listed /\ recorded.file = o.file
      /\ recorded.head = o.head /\ recorded.then = o.then
    <2>1. o \in Operations
        BY AtPlace
    <2>2. recorded.then = o.then
        BY <2>1 DEF Operations
    <2> HIDE DEF o
    <2>3. /\ recorded \in Operations /\ recorded.listed = o.listed /\ recorded.file = o.file
          /\ recorded.head = o.head
        BY <1>3, <2>1, RecordedTyped
    <2>4. QED
        BY <2>2, <2>3
<1> HIDE DEF recorded
<1>5. acks \in Operations
    BY <1>3, <1>4 DEF Operations
<1>6. /\ acks.pc = "ack" /\ acks.listed = o.listed /\ acks.file = o.file
      /\ acks.head = o.head /\ acks.then = o.then
    BY <1>4 DEF Operations
<1> HIDE DEF acks
<1>7. CASE o.then = "none" /\ op' = [op EXCEPT ![d] = Done(recorded)]
    <2>1. Done(recorded) \in Operations /\ OperationOK(Done(recorded), disk[d], Len(saves))
        BY <1>3, AtPlace, DoneRecordedOK DEF recorded
    <2>2. QED
        BY <1>1, <1>7, <2>1, BecomesKeeps DEF Becomes
<1>8. CASE o.then # "none" /\ op' = [op EXCEPT ![d] = acks]
    <2>1. OperationOK(acks, disk[d], Len(saves))
        BY <1>2, <1>6, <1>8, AtPlace DEF OperationOK, HasHead, HasFile
    <2>2. QED
        BY <1>1, <1>5, <1>8, <2>1, BecomesKeeps DEF Becomes
<1>9. QED
    BY <1>7, <1>8 DEF RecordUpload, recorded, acks

LEMMA AdoptKeeps ==
    ASSUME StateInv, NEW d \in Devices, Adopt(d)
    PROVE  StateInv'
<1> DEFINE o == op[d]
           acks == [o EXCEPT !.pc = "ack", !.then = "recordAdopt"]
<1>1. OperationOnly /\ o.pc = "adopt"
    BY Unchanging DEF Adopt
<1>2. o.file \in Files /\ o.head.id \in 1..Len(saves) /\ disk[d][o.file] # None
    BY <1>1, AtPlace DEF OperationOK, HasHead, HasFile
<1>3. acks \in Operations
    BY AtPlace DEF Operations
<1>4. /\ acks.pc = "ack" /\ acks.listed = o.listed /\ acks.file = o.file
      /\ acks.head = o.head /\ acks.then = "recordAdopt"
    BY AtPlace DEF Operations
<1> HIDE DEF acks
<1>5. CASE op' = [op EXCEPT ![d] = acks]
    <2>1. OperationOK(acks, disk[d], Len(saves))
        BY <1>2, <1>4, AtPlace DEF OperationOK, HasHead, HasFile
    <2>2. QED
        BY <1>1, <1>3, <1>5, <2>1, BecomesKeeps DEF Becomes
<1>6. CASE op' = [op EXCEPT ![d] = [o EXCEPT !.pc = "post"]]
    <2>1. o \in Operations /\ OperationOK(o, disk[d], Len(saves))
        BY AtPlace
    <2>2. /\ [o EXCEPT !.pc = "post"] \in Operations
          /\ OperationOK([o EXCEPT !.pc = "post"], disk[d], Len(saves))
        BY <1>2, <2>1, MovesOK
    <2>3. QED
        BY <1>1, <1>6, <2>2, BecomesKeeps DEF Becomes
<1>7. CASE op' = [op EXCEPT ![d] = Done(o)]
    BY <1>1, <1>7, AtPlace, DoneOK, BecomesKeeps DEF Becomes
<1>8. QED
    BY <1>5, <1>6, <1>7 DEF Adopt, acks

\* RomM's answer to an acknowledgement.
LEMMA ConfirmTyped ==
    ASSUME StateInv, NEW d \in Devices, NEW id \in 1..Len(saves), Confirm(d, id)
    PROVE  rows' \in [Devices -> [Ids -> 0..MaxClock]] /\ bare' \subseteq Devices \X Ids
<1>1. id \in Ids /\ saves[id].upd \in 0..MaxClock
    BY AtPlace, ClockBounds DEF Ids, SaveType
<1>2. ConfirmedRow(saves, rows[d], <<d, id>> \in bare, id) \in 0..MaxClock
    BY <1>1 DEF ConfirmedRow, StateInv, TypeOK
<1>3. QED
    BY <1>2 DEF Confirm, StateInv, TypeOK

LEMMA AcknowledgeKeeps ==
    ASSUME StateInv, NEW d \in Devices, Acknowledge(d) \/ AcknowledgeAgain(d)
    PROVE  StateInv'
<1> DEFINE o == op[d]
<1>1. o.pc \in {"ack", "ackAgain"} /\ Confirm(d, o.head.id)
      /\ UNCHANGED <<deviceVars, shown, written, over, boundVars>>
    BY DEF Acknowledge, AcknowledgeAgain
<1>2. o.file \in Files /\ o.head.id \in 1..Len(saves) /\ o.then # "none"
    BY <1>1, AtPlace DEF OperationOK, HasHead
<1>3. OperationOnly
    BY <1>1, <1>2, ConfirmTyped
    DEF Confirm, StateInv, TypeOK, OperationOnly, deviceVars, boundVars
<1>4. o \in Operations /\ OperationOK(o, disk[d], Len(saves))
    BY AtPlace
<1>5. CASE op' = [op EXCEPT ![d] = Acknowledged(o)]
    BY <1>1, <1>2, <1>3, <1>4, <1>5, AcknowledgedOK, BecomesKeeps DEF Becomes
<1>6. CASE op' = [op EXCEPT ![d] = NotTaken(d)]
    BY <1>3, <1>4, <1>6, NotTakenOK, BecomesKeeps DEF Becomes
<1>7. CASE op' = [op EXCEPT ![d] = [o EXCEPT !.pc = "ackAgain"]]
    <2>1. /\ [o EXCEPT !.pc = "ackAgain"] \in Operations
          /\ OperationOK([o EXCEPT !.pc = "ackAgain"], disk[d], Len(saves))
        BY <1>2, <1>4, MovesOK DEF HasFile
    <2>2. QED
        BY <1>3, <1>7, <2>1, BecomesKeeps DEF Becomes
<1>8. QED
    BY <1>5, <1>6, <1>7 DEF Acknowledge, AcknowledgeAgain

-----------------------------------------------------------------------------
(* The steps that change what the operations work on. *)

WorldTyped ==
    /\ disk \in [Devices -> [Files -> 0..MaxContent]]
    /\ backups \in [Devices -> SUBSET Contents]
    /\ base \in [Devices -> Baselines]
    /\ game \in [Devices -> [running : BOOLEAN, loaded : [Files -> 0..MaxContent]]]
    /\ shown \in [Devices -> [Files -> 0..Refused]]
    /\ saves \in Seq(SaveType)
    /\ Len(saves) <= MaxSaves
    /\ rows \in [Devices -> [Ids -> 0..MaxClock]]
    /\ bare \subseteq Devices \X Ids
    /\ clock \in 0..MaxClock
    /\ written \in 0..MaxContent
    /\ over \in [0..MaxContent -> SUBSET Contents]
    /\ faults \in 0..MaxFaults
    /\ replaced \in 0..MaxReplaced

LEMMA World == TypeOK <=> WorldTyped /\ op \in [Devices -> Operations]
BY Zenon DEF TypeOK, WorldTyped, SaveType

LEMMA ChangesKeeps ==
    ASSUME StateInv, NEW d \in Devices, NEW o \in Operations,
           op' = [op EXCEPT ![d] = o],
           OperationOK(o, disk'[d], Len(saves')),
           \A e \in Devices \ {d} : disk'[e] = disk[e],
           Len(saves) <= Len(saves'),
           WorldTyped',
           clock' = Len(saves') + replaced'
    PROVE  StateInv'
<1>1. op' \in [Devices -> Operations]
    BY DEF StateInv, TypeOK
<1>2. Len(saves) \in Nat /\ Len(saves') \in Nat
    BY DEF StateInv, TypeOK, WorldTyped
<1>3. ASSUME NEW e \in Devices
      PROVE  OperationOK(op'[e], disk'[e], Len(saves'))
    <2>1. CASE e = d
        <3>1. op'[e] = o
            BY <2>1 DEF StateInv, TypeOK
        <3>2. QED
            BY <2>1, <3>1
    <2>2. CASE e # d
        <3>1. op'[e] = op[e] /\ disk'[e] = disk[e]
            BY <2>2 DEF StateInv, TypeOK
        <3>2. OperationOK(op[e], disk[e], Len(saves))
            BY DEF StateInv
        <3>3. QED
            BY <1>2, <3>1, <3>2, OperationStays
    <2>3. QED
        BY <2>1, <2>2
<1>4. TypeOK'
    BY <1>1, World DEF TypeOK, WorldTyped, SaveType
<1>5. QED
    BY <1>3, <1>4 DEF StateInv

\* The same, where no operation moves.
LEMMA StaysKeeps ==
    ASSUME StateInv, op' = op,
           \A e \in Devices, f \in Files : disk[e][f] # None => disk'[e][f] # None,
           Len(saves) <= Len(saves'),
           WorldTyped',
           clock' = Len(saves') + replaced'
    PROVE  StateInv'
<1>1. Len(saves) \in Nat /\ Len(saves') \in Nat
    BY DEF StateInv, TypeOK, WorldTyped
<1>2. ASSUME NEW e \in Devices
      PROVE  OperationOK(op'[e], disk'[e], Len(saves'))
    <2>1. OperationOK(op[e], disk[e], Len(saves))
        BY DEF StateInv
    <2>2. QED
        BY <1>1, <2>1, OperationStays
<1>3. TypeOK'
    BY DEF StateInv, TypeOK, WorldTyped, SaveType
<1>4. QED
    BY <1>2, <1>3 DEF StateInv

LEMMA WorldOf == StateInv => WorldTyped
BY World DEF StateInv

LEMMA FinishKeeps ==
    ASSUME StateInv, NEW d \in Devices, Finish(d)
    PROVE  StateInv'
<1>1. op' = [op EXCEPT ![d] = Idle] /\ Idle \in Operations /\ OperationOK(Idle, disk'[d], Len(saves'))
    BY IdleOK DEF Finish
<1>2. op[d].mem \in Baselines
    BY AtPlace DEF Operations
<1>3. shown' \in [Devices -> [Files -> 0..Refused]]
    <2>1. shown \in [Devices -> [Files -> 0..Refused]] /\ 0 \in 0..Refused
        BY SaveAssumption DEF StateInv, TypeOK, Refused
    <2>2. shown' = shown \/ shown' = [shown EXCEPT ![d][op[d].file] = 0]
        BY DEF Finish
    <2>3. \A f : [shown EXCEPT ![d][f] = 0] \in [Devices -> [Files -> 0..Refused]]
        BY <2>1
    <2>4. [shown EXCEPT ![d][op[d].file] = 0] \in [Devices -> [Files -> 0..Refused]]
        BY <2>3, Zenon
    <2>5. QED
        BY <2>1, <2>2, <2>4, Zenon
<1>4. WorldTyped'
    BY <1>2, <1>3, WorldOf DEF WorldTyped, Finish, serverVars, boundVars
<1>5. /\ disk' = disk /\ saves' = saves /\ clock' = clock /\ replaced' = replaced
    BY DEF Finish, serverVars, boundVars
<1>6. Len(saves) \in Nat /\ clock = Len(saves) + replaced
    BY AtPlace DEF StateInv
<1>7. /\ \A e \in Devices \ {d} : disk'[e] = disk[e]
      /\ Len(saves) <= Len(saves') /\ clock' = Len(saves') + replaced'
    BY <1>5, <1>6
<1>8. QED
    BY <1>1, <1>4, <1>7, ChangesKeeps

LEMMA CreateTyped ==
    ASSUME StateInv, NEW d \in Devices, NEW f \in Files, NEW content \in Contents,
           Len(saves) < MaxSaves, Create(d, f, content), replaced' = replaced
    PROVE  /\ saves' \in Seq(SaveType) /\ Len(saves') = Len(saves) + 1 /\ Len(saves') <= MaxSaves
           /\ rows' \in [Devices -> [Ids -> 0..MaxClock]]
           /\ bare' = bare
           /\ clock' \in 0..MaxClock
           /\ clock' = Len(saves') + replaced'
           /\ saves' = Append(saves, [file |-> f, content |-> content, upd |-> clock + 1])
           /\ \A i \in 1..Len(saves) : saves'[i] = saves[i]
           /\ saves'[Len(saves) + 1].content = content
<1>1. saves \in Seq(SaveType) /\ Len(saves) \in Nat /\ clock = Len(saves) + replaced
      /\ replaced \in 0..MaxReplaced
    BY AtPlace DEF StateInv, TypeOK
<1>2. clock + 1 \in 1..MaxClock
    BY <1>1, SaveAssumption DEF MaxClock
<1> DEFINE new == [file |-> f, content |-> content, upd |-> clock + 1]
<1>3. new \in SaveType /\ new.content = content /\ saves' = Append(saves, new)
    BY <1>2 DEF SaveType, Create
<1> HIDE DEF new
<1>4. /\ saves' \in Seq(SaveType) /\ Len(saves') = Len(saves) + 1
      /\ \A i \in 1..Len(saves) : saves'[i] = saves[i]
      /\ saves'[Len(saves) + 1] = new
    BY <1>1, <1>3
<1>5. clock' = clock + 1 /\ bare' = bare /\ rows' = [rows EXCEPT ![d][Len(saves) + 1] = clock + 1]
    BY DEF Create
<1>6. clock + 1 \in 0..MaxClock
    BY <1>2
<1>7. rows' \in [Devices -> [Ids -> 0..MaxClock]]
    <2>1. rows \in [Devices -> [Ids -> 0..MaxClock]]
        BY DEF StateInv, TypeOK
    <2>2. QED
        BY <1>5, <1>6, <2>1
<1>8. clock' = Len(saves') + replaced' /\ Len(saves') <= MaxSaves
    BY <1>1, <1>4, <1>5, SaveAssumption
<1>9. QED
    BY <1>3, <1>4, <1>5, <1>6, <1>7, <1>8 DEF new

\* What Keep Local supersedes.
LEMMA ChooseTyped ==
    ASSUME over \in [0..MaxContent -> SUBSET Contents], NEW winner, NEW loser \in 0..MaxContent,
           Choose(winner, loser)
    PROVE  over' \in [0..MaxContent -> SUBSET Contents]
BY DEF Choose

LEMMA KeptOverTyped ==
    ASSUME StateInv, NEW d \in Devices, NEW content, KeptOver(d, content)
    PROVE  /\ over' \in [0..MaxContent -> SUBSET Contents]
           /\ \A c \in 0..MaxContent : over[c] \subseteq over'[c]
<1> DEFINE beaten == FileHead(saves, op[d].file)
<1>1. over \in [0..MaxContent -> SUBSET Contents] /\ beaten \in 0..Len(saves)
    BY AtPlace, FileHeadTyped DEF StateInv, TypeOK
<1>2. CASE UNCHANGED over
    BY <1>1, <1>2
<1>3. CASE beaten # 0 /\ Choose(content, saves[beaten].content)
    <2>1. beaten \in 1..Len(saves) /\ Len(saves) \in Nat
        <3> HIDE DEF beaten
        <3>1. QED
            BY <1>1, <1>3, AtPlace
    <2> DEFINE loser == saves[beaten].content
    <2>2. loser \in 0..MaxContent
        BY <2>1, AtPlace, ClockBounds DEF SaveType, Contents
    <2> HIDE DEF loser, beaten
    <2>3. Choose(content, loser)
        BY <1>3 DEF loser, beaten
    <2>4. over' \in [0..MaxContent -> SUBSET Contents]
        BY <1>1, <2>2, <2>3, ChooseTyped
    <2>5. \A c \in 0..MaxContent : over[c] \subseteq over'[c]
        BY <1>1, <2>3 DEF Choose
    <2>6. QED
        BY <2>4, <2>5
<1>4. QED
    BY <1>2, <1>3 DEF KeptOver

\* A save made of the device's file, and what it leaves as it was.
LEMMA CreatesWorld ==
    ASSUME StateInv, NEW d \in Devices, op[d].pc = "post",
           Len(saves) < MaxSaves,
           Create(d, op[d].file, disk[d][op[d].file]),
           KeptOver(d, disk[d][op[d].file]),
           UNCHANGED <<deviceVars, shown, written, replaced>>,
           faults' \in 0..MaxFaults
    PROVE  /\ WorldTyped'
           /\ clock' = Len(saves') + replaced'
           /\ Len(saves') = Len(saves) + 1 /\ Len(saves) \in Nat
           /\ disk[d][op[d].file] \in Contents
<1> DEFINE content == disk[d][op[d].file]
<1>1. op[d].file \in Files /\ content # None /\ content \in 0..MaxContent
    BY AtPlace DEF OperationOK, HasFile
<1>2. content \in Contents
    BY <1>1, ClockBounds DEF Contents, None
<1>3. over' \in [0..MaxContent -> SUBSET Contents]
    BY KeptOverTyped
<1>4. /\ saves' \in Seq(SaveType) /\ Len(saves') = Len(saves) + 1 /\ Len(saves') <= MaxSaves
      /\ rows' \in [Devices -> [Ids -> 0..MaxClock]]
      /\ bare' = bare
      /\ clock' \in 0..MaxClock
      /\ clock' = Len(saves') + replaced'
    BY <1>1, <1>2, CreateTyped
<1>5. WorldTyped'
    BY <1>3, <1>4, WorldOf DEF WorldTyped, deviceVars
<1>6. QED
    BY <1>2, <1>4, <1>5, AtPlace

LEMMA PostKeeps ==
    ASSUME StateInv, NEW d \in Devices, Post(d)
    PROVE  StateInv'
<1> DEFINE o == op[d]
           content == disk[d][o.file]
           overwrite == Overwrites(o)
           same == SameContent(saves, content, overwrite)
<1>1. o.pc = "post" /\ UNCHANGED <<deviceVars, shown, written, boundVars>>
    BY DEF Post
<1>2. o \in Operations /\ OperationOK(o, disk[d], Len(saves)) /\ o.file \in Files
      /\ content \in 0..MaxContent
    BY <1>1, AtPlace DEF OperationOK
<1>3. ASSUME op' = [op EXCEPT ![d] = [o EXCEPT !.pc = "relist"]], UNCHANGED <<serverVars, over>>
      PROVE  StateInv'
    <2>1. OperationOnly
        BY <1>1, <1>3, Unchanging
    <2>2. /\ [o EXCEPT !.pc = "relist"] \in Operations
          /\ OperationOK([o EXCEPT !.pc = "relist"], disk[d], Len(saves))
        BY <1>2, MovesOK DEF HasHead, HasFile
    <2>3. QED
        BY <1>3, <2>1, <2>2, BecomesKeeps DEF Becomes
<1>4. CASE /\ \E id \in same :
                LET response == [id |-> id, content |-> content]
                    planned == Group(o.listed, o.file)
                IN op' = [op EXCEPT ![d] =
                    IF planned # {} /\ DedupReturnedNonHead(response, planned)
                    THEN [o EXCEPT !.pc = "relist"]
                    ELSE [o EXCEPT !.pc = "recordUpload", !.head = response,
                              !.then = IF IsCurrent(saves, rows[d], id) THEN "none" ELSE "done"]]
           /\ UNCHANGED <<serverVars, over>>
    <2>1. PICK id \in same, then \in {"none", "done"} :
              \/ op' = [op EXCEPT ![d] = [o EXCEPT !.pc = "relist"]]
              \/ op' = [op EXCEPT ![d] = [o EXCEPT !.pc = "recordUpload",
                            !.head = [id |-> id, content |-> content], !.then = then]]
        BY <1>4
    <2>2. id \in 1..Len(saves)
        BY DEF SameContent
    <2> DEFINE response == [id |-> id, content |-> content]
    <2>3. response \in [id : 0..MaxSaves, content : 0..MaxContent] /\ response.id = id
        BY <1>2, <2>2, AtPlace, ClockBounds
    <2> DEFINE q == [o EXCEPT !.pc = "recordUpload", !.head = response, !.then = then]
    <2> HIDE DEF response
    <2>4. q \in Operations /\ OperationOK(q, disk[d], Len(saves))
        BY <1>2, <2>2, <2>3, GetsHeadOK
    <2>5. OperationOnly
        BY <1>1, <1>4, Unchanging
    <2>6. CASE op' = [op EXCEPT ![d] = q]
        BY <2>4, <2>5, <2>6, BecomesKeeps DEF Becomes
    <2>7. QED
        BY <1>3, <1>4, <2>1, <2>6 DEF response
<1>5. CASE /\ Len(saves) < MaxSaves
           /\ Create(d, o.file, content)
           /\ op' = [op EXCEPT ![d] = [o EXCEPT
                  !.pc = "recordUpload", !.head = [id |-> Len(saves) + 1, content |-> content]]]
           /\ KeptOver(d, content)
    <2> DEFINE head == [id |-> Len(saves) + 1, content |-> content]
               q == [o EXCEPT !.pc = "recordUpload", !.head = head]
    <2>1. /\ WorldTyped'
          /\ clock' = Len(saves') + replaced'
          /\ Len(saves') = Len(saves) + 1 /\ Len(saves) \in Nat
        BY <1>1, <1>5, CreatesWorld DEF StateInv, TypeOK, boundVars
    <2>2. head \in [id : 0..MaxSaves, content : 0..MaxContent] /\ head.id \in 1..Len(saves')
        BY <1>2, <1>5, <2>1, ClockBounds
    <2> HIDE DEF head
    <2>3. OperationOK(o, disk[d], Len(saves'))
        BY <1>2, <2>1, OperationStays
    <2>4. q \in Operations /\ OperationOK(q, disk[d], Len(saves'))
        BY <1>2, <2>2, <2>3, GetsHeadOK
    <2>5. disk' = disk
        BY <1>1 DEF deviceVars
    <2>6. op' = [op EXCEPT ![d] = q]
        BY <1>5 DEF head
    <2> HIDE DEF q
    <2>7. Len(saves) <= Len(saves') /\ \A e \in Devices \ {d} : disk'[e] = disk[e]
        BY <2>1, <2>5
    <2>8. OperationOK(q, disk'[d], Len(saves'))
        BY <2>4, <2>5
    <2>9. QED
        BY <2>1, <2>4, <2>6, <2>7, <2>8, ChangesKeeps
<1>6. CASE op' = [op EXCEPT ![d].pc = "relist"] /\ UNCHANGED <<serverVars, over>>
    BY <1>3, <1>6
<1>7. QED
    BY <1>4, <1>5, <1>6 DEF Post

\* A file moved aside and the place it leaves filled, or not.
LEMMA PlacesWorld ==
    ASSUME StateInv, NEW d \in Devices, NEW f \in Files, NEW content \in 0..MaxContent,
           MoveAside(d, f),
           disk' = [disk EXCEPT ![d][f] = content],
           UNCHANGED <<base, game, shown, serverVars, written, over, replaced>>,
           faults' \in 0..MaxFaults
    PROVE  /\ WorldTyped'
           /\ clock' = Len(saves') + replaced'
           /\ Len(saves') = Len(saves) /\ Len(saves) \in Nat
           /\ \A e \in Devices \ {d} : disk'[e] = disk[e]
<1>1. disk' \in [Devices -> [Files -> 0..MaxContent]] /\ \A e \in Devices \ {d} : disk'[e] = disk[e]
    BY DEF StateInv, TypeOK
<1>2. {disk[d][f]} \ {None} \subseteq Contents
    BY ClockBounds DEF StateInv, TypeOK, Contents, None
<1>3. backups' \in [Devices -> SUBSET Contents]
    BY <1>2 DEF MoveAside, StateInv, TypeOK
<1>4. WorldTyped'
    BY <1>1, <1>3, WorldOf DEF WorldTyped, serverVars
<1>5. saves' = saves /\ clock' = clock /\ replaced' = replaced
    BY DEF serverVars
<1>6. QED
    BY <1>1, <1>4, <1>5, AtPlace DEF StateInv

LEMMA PlaceKeeps ==
    ASSUME StateInv, NEW d \in Devices, Place(d)
    PROVE  StateInv'
<1> DEFINE o == op[d]
           q == [o EXCEPT !.pc = "ack", !.then = "record"]
<1>1. o.pc = "place"
    BY DEF Place
<1>2. /\ o \in Operations /\ o.file \in Files /\ o.head.id \in 1..Len(saves)
      /\ o.local \in 0..MaxContent /\ \A s \in o.listed : s.id \in 1..Len(saves)
    BY <1>1, AtPlace DEF OperationOK, HasHead, Operations
<1>3. /\ WorldTyped'
      /\ clock' = Len(saves') + replaced'
      /\ Len(saves') = Len(saves) /\ Len(saves) \in Nat
      /\ \A e \in Devices \ {d} : disk'[e] = disk[e]
    <2>1. MoveAside(d, o.file) /\ disk' = [disk EXCEPT ![d][o.file] = o.local]
          /\ UNCHANGED <<base, game, shown, serverVars, written, over, replaced>>
        BY DEF Place, boundVars
    <2>2. faults' \in 0..MaxFaults
        BY DEF Place, boundVars, StateInv, TypeOK
    <2> HIDE DEF o
    <2>3. QED
        BY <1>2, <2>1, <2>2, PlacesWorld
<1>4. q \in Operations
    BY <1>2 DEF Operations
<1>5. q.pc = "ack" /\ q.listed = o.listed /\ q.file = o.file /\ q.head = o.head /\ q.then = "record"
    BY <1>2 DEF Operations
<1>6. op' = [op EXCEPT ![d] = q]
    BY DEF Place
<1> HIDE DEF q
<1>7. OperationOK(q, disk'[d], Len(saves'))
    BY <1>2, <1>3, <1>5 DEF OperationOK, HasHead, HasFile
<1>8. Len(saves) <= Len(saves')
    BY <1>3
<1>9. QED
    BY <1>3, <1>4, <1>6, <1>7, <1>8, ChangesKeeps

LEMMA PlaceFailsKeeps ==
    ASSUME StateInv, NEW d \in Devices, PlaceFails(d)
    PROVE  StateInv'
<1> DEFINE o == op[d]
<1>1. o.pc = "place" /\ op' = [op EXCEPT ![d] = Failed(o)]
    BY DEF PlaceFails
<1>2. o \in Operations /\ o.file \in Files /\ Failed(o) \in Operations
    BY <1>1, AtPlace, FailedOK DEF OperationOK
<1>3. faults' \in 0..MaxFaults
    BY SaveAssumption DEF PlaceFails, Fault, StateInv, TypeOK
<1>4. /\ WorldTyped'
      /\ clock' = Len(saves') + replaced'
      /\ Len(saves') = Len(saves) /\ Len(saves) \in Nat
      /\ \A e \in Devices \ {d} : disk'[e] = disk[e]
    <2>1. MoveAside(d, o.file) /\ disk' = [disk EXCEPT ![d][o.file] = None]
          /\ UNCHANGED <<base, game, shown, serverVars, written, over, replaced>>
        BY DEF PlaceFails
    <2>2. None \in 0..MaxContent
        BY SaveAssumption DEF None
    <2> HIDE DEF o
    <2>3. QED
        BY <1>2, <1>3, <2>1, <2>2, PlacesWorld
<1>5. OperationOK(Failed(o), disk'[d], Len(saves'))
    <2>1. \A s \in o.listed : s.id \in 1..Len(saves)
        BY AtPlace DEF OperationOK
    <2>2. Failed(o) = Idle \/ (Failed(o).pc = "decide" /\ Failed(o).listed = o.listed)
        BY <1>2 DEF Failed, Done, Operations
    <2>3. OperationOK(Idle, disk'[d], Len(saves'))
        BY IdleOK
    <2>4. QED
        BY <1>4, <2>1, <2>2, <2>3 DEF OperationOK, HasHead, HasFile
<1>6. Len(saves) <= Len(saves')
    BY <1>4
<1>7. QED
    BY <1>1, <1>2, <1>4, <1>5, <1>6, ChangesKeeps

LEMMA RequestFailsKeeps ==
    ASSUME StateInv, NEW d \in Devices, RequestFails(d)
    PROVE  StateInv'
<1> DEFINE o == op[d]
<1>1. faults' \in 0..MaxFaults
    BY SaveAssumption DEF RequestFails, Fault, StateInv, TypeOK
<1>2. OperationOnly
    BY <1>1 DEF RequestFails, StateInv, TypeOK, OperationOnly, deviceVars, serverVars
<1>3. o \in Operations /\ OperationOK(o, disk[d], Len(saves))
    BY AtPlace
<1>4. CASE op' = [op EXCEPT ![d] = Failed(o)]
    BY <1>2, <1>3, <1>4, FailedOK, BecomesKeeps DEF Becomes
<1>5. CASE op' = [op EXCEPT ![d] = NotTaken(d)]
    BY <1>2, <1>3, <1>5, NotTakenOK, BecomesKeeps DEF Becomes
<1>6. CASE o.pc = "compare" /\ op' = [op EXCEPT ![d].pc = "post"]
    <2>1. o.file \in Files /\ disk[d][o.file] # None
        BY <1>3, <1>6 DEF OperationOK, HasFile
    <2>2. /\ [o EXCEPT !.pc = "post"] \in Operations
          /\ OperationOK([o EXCEPT !.pc = "post"], disk[d], Len(saves))
        BY <1>3, <2>1, MovesOK DEF HasHead
    <2>3. op' = [op EXCEPT ![d] = [o EXCEPT !.pc = "post"]]
        BY <1>6
    <2>4. QED
        BY <1>2, <2>2, <2>3, BecomesKeeps DEF Becomes
<1>7. QED
    BY <1>4, <1>5, <1>6 DEF RequestFails

LEMMA AnswerLostKeeps ==
    ASSUME StateInv, NEW d \in Devices, AnswerLost(d)
    PROVE  StateInv'
<1> DEFINE o == op[d]
<1>1. faults' \in 0..MaxFaults /\ UNCHANGED <<deviceVars, shown, written, replaced>>
    BY SaveAssumption DEF AnswerLost, Fault, StateInv, TypeOK
<1>2. CASE /\ o.pc = "post"
           /\ Len(saves) < MaxSaves
           /\ KeptOver(d, disk[d][o.file])
           /\ Create(d, o.file, disk[d][o.file])
           /\ op' = op
    <2>1. /\ WorldTyped'
          /\ clock' = Len(saves') + replaced'
          /\ Len(saves') = Len(saves) + 1 /\ Len(saves) \in Nat
        BY <1>1, <1>2, CreatesWorld
    <2>2. disk' = disk
        BY <1>1 DEF deviceVars
    <2>3. Len(saves) <= Len(saves')
          /\ \A e \in Devices, f \in Files : disk[e][f] # None => disk'[e][f] # None
        BY <2>1, <2>2
    <2>4. QED
        BY <1>2, <2>1, <2>3, StaysKeeps
<1>3. CASE /\ o.pc \in {"ack", "ackAgain"}
           /\ Confirm(d, o.head.id)
           /\ op' = [op EXCEPT ![d].pc = "ack"]
           /\ UNCHANGED over
    <2>1. o \in Operations /\ OperationOK(o, disk[d], Len(saves))
        BY AtPlace
    <2>2. o.file \in Files /\ o.head.id \in 1..Len(saves) /\ o.then # "none"
        BY <1>3, <2>1 DEF OperationOK, HasHead
    <2>3. OperationOnly
        BY <1>1, <1>3, <2>2, ConfirmTyped
        DEF Confirm, StateInv, TypeOK, OperationOnly, deviceVars
    <2>4. /\ [o EXCEPT !.pc = "ack"] \in Operations
          /\ OperationOK([o EXCEPT !.pc = "ack"], disk[d], Len(saves))
        BY <2>1, <2>2, MovesOK DEF HasFile
    <2>5. op' = [op EXCEPT ![d] = [o EXCEPT !.pc = "ack"]]
        BY <1>3
    <2>6. QED
        BY <2>3, <2>4, <2>5, BecomesKeeps DEF Becomes
<1>4. QED
    BY <1>2, <1>3 DEF AnswerLost

LEMMA CrashKeeps ==
    ASSUME StateInv, NEW d \in Devices, Crash(d)
    PROVE  StateInv'
<1>1. faults' \in 0..MaxFaults
    BY SaveAssumption DEF Crash, Fault, StateInv, TypeOK
<1>2. OperationOnly
    BY <1>1 DEF Crash, StateInv, TypeOK, OperationOnly, deviceVars, serverVars
<1>3. QED
    BY <1>2, IdleOK, BecomesKeeps DEF Crash, Becomes

\* A save replaced in place.
LEMMA ReplaceWorld ==
    ASSUME StateInv, NEW id \in Ids, Replace(id)
    PROVE  /\ WorldTyped'
           /\ clock' = Len(saves') + replaced'
           /\ Len(saves') = Len(saves) /\ Len(saves) \in Nat /\ id \in 1..Len(saves)
           /\ written + 1 \in 1..MaxContent /\ written' = written + 1
           /\ \A i \in 1..Len(saves) : i # id => saves'[i] = saves[i]
           /\ saves'[id].content = written + 1
<1>1. /\ saves \in Seq(SaveType) /\ Len(saves) \in Nat /\ Len(saves) <= MaxSaves
      /\ clock = Len(saves) + replaced
      /\ replaced \in 0..MaxReplaced /\ written \in 0..MaxContent /\ id \in 1..Len(saves)
      /\ saves[id] \in SaveType
    <2>1. WorldTyped /\ clock = Len(saves) + replaced /\ id \in 1..Len(saves)
        BY WorldOf DEF Replace, StateInv
    <2>2. saves \in Seq(SaveType) /\ Len(saves) <= MaxSaves
          /\ replaced \in 0..MaxReplaced /\ written \in 0..MaxContent
        BY <2>1 DEF WorldTyped
    <2>3. QED
        BY <2>1, <2>2
<1>2. replaced + 1 \in 0..MaxReplaced /\ written + 1 \in 1..MaxContent
    BY <1>1, SaveAssumption DEF Replace
<1>3. clock + 1 \in 1..MaxClock
    BY <1>1, <1>2, SaveAssumption DEF MaxClock
<1> DEFINE new == [saves[id] EXCEPT !.content = written + 1, !.upd = clock + 1]
<1>4. new \in SaveType /\ new.content = written + 1
    BY <1>1, <1>2, <1>3 DEF SaveType, Contents
<1>5. saves' = [saves EXCEPT ![id] = new]
    BY <1>1 DEF Replace
<1> HIDE DEF new
<1>6. /\ saves' \in Seq(SaveType) /\ Len(saves') = Len(saves)
      /\ \A i \in 1..Len(saves) : i # id => saves'[i] = saves[i]
      /\ saves'[id] = new
    BY <1>1, <1>4, <1>5
<1>7. over' \in [0..MaxContent -> SUBSET Contents]
    <2>1. saves[id].content \in 0..MaxContent
        BY <1>1, ClockBounds DEF SaveType, Contents
    <2>2. over \in [0..MaxContent -> SUBSET Contents]
        BY DEF StateInv, TypeOK
    <2> DEFINE from == saves[id].content
    <2>3. over' = [over EXCEPT ![written + 1] = over[from] \cup {written + 1}]
        BY DEF Replace, Write
    <2> HIDE DEF from
    <2>4. over[from] \cup {written + 1} \subseteq Contents
        BY <1>2, <2>1, <2>2 DEF Contents, from
    <2>5. QED
        BY <2>2, <2>3, <2>4
<1>8. /\ replaced' = replaced + 1 /\ written' = written + 1 /\ clock' = clock + 1
      /\ UNCHANGED <<deviceVars, op, shown, rows, bare, faults>>
    BY DEF Replace
<1>9. clock' = Len(saves') + replaced'
    BY <1>1, <1>6, <1>8
<1>10. /\ written' \in 0..MaxContent /\ clock' \in 0..MaxClock /\ replaced' \in 0..MaxReplaced
       /\ Len(saves') <= MaxSaves
    BY <1>1, <1>2, <1>3, <1>6, <1>8
<1>11. WorldTyped'
    BY <1>6, <1>7, <1>8, <1>10, WorldOf DEF WorldTyped, deviceVars
<1>12. QED
    BY <1>1, <1>2, <1>4, <1>6, <1>8, <1>9, <1>11

LEMMA ReplaceKeeps ==
    ASSUME StateInv, NEW id \in Ids, Replace(id)
    PROVE  StateInv'
<1>1. /\ WorldTyped'
      /\ clock' = Len(saves') + replaced'
      /\ Len(saves') = Len(saves) /\ Len(saves) \in Nat
    BY ReplaceWorld
<1>2. op' = op /\ disk' = disk
    BY DEF Replace, deviceVars
<1>3. Len(saves) <= Len(saves')
      /\ \A e \in Devices, f \in Files : disk[e][f] # None => disk'[e][f] # None
    BY <1>1, <1>2
<1>4. QED
    BY <1>1, <1>2, <1>3, StaysKeeps

LEMMA StartGameKeeps ==
    ASSUME StateInv, NEW d \in Devices, StartGame(d)
    PROVE  StateInv'
<1>1. UNCHANGED <<disk, backups, base, shown, serverVars, written, over, boundVars>>
      /\ game' = [game EXCEPT ![d] = [running |-> TRUE, loaded |-> disk[d]]]
    BY DEF StartGame
<1>2. game' \in [Devices -> [running : BOOLEAN, loaded : [Files -> 0..MaxContent]]]
    <2>1. [running |-> TRUE, loaded |-> disk[d]] \in [running : BOOLEAN, loaded : [Files -> 0..MaxContent]]
        BY AtPlace
    <2>2. QED
        BY <1>1, <2>1 DEF StateInv, TypeOK
<1>3. WorldTyped'
    BY <1>1, <1>2, WorldOf DEF WorldTyped, serverVars, boundVars
<1>4. /\ disk' = disk /\ saves' = saves /\ clock' = clock /\ replaced' = replaced
    BY <1>1 DEF serverVars, boundVars
<1>5. /\ Len(saves) <= Len(saves') /\ clock' = Len(saves') + replaced'
      /\ \A e \in Devices, f \in Files : disk[e][f] # None => disk'[e][f] # None
    BY <1>4, AtPlace DEF StateInv
<1>6. CASE op' = op
    BY <1>3, <1>5, <1>6, StaysKeeps
<1>7. CASE op' = [op EXCEPT ![d].stop = TRUE]
    <2> DEFINE q == [op[d] EXCEPT !.stop = TRUE]
    <2>1. op' = [op EXCEPT ![d] = q]
        BY <1>7
    <2>2. /\ q \in Operations /\ q.pc = op[d].pc /\ q.listed = op[d].listed /\ q.file = op[d].file
          /\ q.head = op[d].head /\ q.local = op[d].local /\ q.then = op[d].then
        BY AtPlace DEF Operations
    <2> HIDE DEF q
    <2>3. OperationOK(q, disk'[d], Len(saves'))
        BY <1>4, <2>2, AtPlace DEF OperationOK
    <2>4. \A e \in Devices \ {d} : disk'[e] = disk[e]
        BY <1>4
    <2>5. QED
        BY <1>3, <1>5, <2>1, <2>2, <2>3, <2>4, ChangesKeeps
<1>8. QED
    BY <1>6, <1>7 DEF StartGame

LEMMA GameWritesWorld ==
    ASSUME StateInv, NEW d \in Devices, NEW f \in Files, GameWrites(d, f)
    PROVE  /\ WorldTyped'
           /\ written + 1 \in 1..MaxContent /\ written' = written + 1
           /\ game[d].loaded[f] \in 0..MaxContent
<1>1. /\ written \in 0..MaxContent /\ game[d].loaded[f] \in 0..MaxContent
      /\ over \in [0..MaxContent -> SUBSET Contents]
      /\ game \in [Devices -> [running : BOOLEAN, loaded : [Files -> 0..MaxContent]]]
      /\ disk \in [Devices -> [Files -> 0..MaxContent]]
    BY DEF StateInv, TypeOK
<1>2. written + 1 \in 1..MaxContent
    BY <1>1, ClockBounds DEF GameWrites
<1> DEFINE from == game[d].loaded[f]
           new == written + 1
<1>3. /\ over' = [over EXCEPT ![new] = over[from] \cup {new}]
      /\ disk' = [disk EXCEPT ![d][f] = new]
      /\ game' = [game EXCEPT ![d].loaded[f] = new]
      /\ written' = new
      /\ UNCHANGED <<backups, base, op, shown, serverVars, boundVars>>
    BY DEF GameWrites, Write
<1>4. new \in Contents /\ new \in 0..MaxContent /\ from \in 0..MaxContent
    BY <1>1, <1>2 DEF Contents
<1> HIDE DEF from, new
<1>5. over' \in [0..MaxContent -> SUBSET Contents]
    BY <1>1, <1>3, <1>4
<1>6. disk' \in [Devices -> [Files -> 0..MaxContent]]
    BY <1>1, <1>3, <1>4
<1>7. game' \in [Devices -> [running : BOOLEAN, loaded : [Files -> 0..MaxContent]]]
    <2>1. game[d] \in [running : BOOLEAN, loaded : [Files -> 0..MaxContent]]
        BY <1>1
    <2>2. [game[d] EXCEPT !.loaded[f] = new] \in [running : BOOLEAN, loaded : [Files -> 0..MaxContent]]
        BY <1>4, <2>1
    <2>3. game' = [game EXCEPT ![d] = [game[d] EXCEPT !.loaded[f] = new]]
        BY <1>3
    <2>4. QED
        BY <1>1, <2>2, <2>3
<1>8. WorldTyped'
    BY <1>3, <1>4, <1>5, <1>6, <1>7, WorldOf DEF WorldTyped, serverVars, boundVars
<1>9. QED
    BY <1>1, <1>2, <1>3, <1>8 DEF new

LEMMA GameWritesKeeps ==
    ASSUME StateInv, NEW d \in Devices, NEW f \in Files, GameWrites(d, f)
    PROVE  StateInv'
<1>1. WorldTyped' /\ written + 1 \in 1..MaxContent
    BY GameWritesWorld
<1>2. op' = op /\ saves' = saves /\ clock' = clock /\ replaced' = replaced
    BY DEF GameWrites, serverVars, boundVars
<1>3. \A e \in Devices, g \in Files : disk[e][g] # None => disk'[e][g] # None
    BY <1>1 DEF GameWrites, StateInv, TypeOK, None
<1>4. Len(saves) <= Len(saves') /\ clock' = Len(saves') + replaced'
    BY <1>2, AtPlace DEF StateInv
<1>5. QED
    BY <1>1, <1>2, <1>3, <1>4, StaysKeeps

LEMMA ExitGameKeeps ==
    ASSUME StateInv, NEW d \in Devices, ExitGame(d)
    PROVE  StateInv'
<1>1. NotRunning \in [running : BOOLEAN, loaded : [Files -> 0..MaxContent]]
    BY SaveAssumption DEF NotRunning, None
<1>2. WorldTyped'
    BY <1>1, WorldOf DEF WorldTyped, ExitGame, serverVars, boundVars
<1>3. op' = op /\ disk' = disk /\ saves' = saves /\ clock' = clock /\ replaced' = replaced
    BY DEF ExitGame, serverVars, boundVars
<1>4. /\ Len(saves) <= Len(saves') /\ clock' = Len(saves') + replaced'
      /\ \A e \in Devices, f \in Files : disk[e][f] # None => disk'[e][f] # None
    BY <1>3, AtPlace DEF StateInv
<1>5. QED
    BY <1>2, <1>3, <1>4, StaysKeeps

LEMMA StateStep == StateInv /\ [Next]_vars => StateInv'
<1> SUFFICES ASSUME StateInv, [Next]_vars PROVE StateInv'
    OBVIOUS
<1>1. ASSUME NEW d \in Devices, Plays(d) PROVE StateInv'
    BY <1>1, StartGameKeeps, ExitGameKeeps, GameWritesKeeps DEF Plays
<1>2. ASSUME NEW d \in Devices, NEW kind \in Syncs, Start(d, kind) PROVE StateInv'
    BY <1>2, StartKeeps
<1>3. ASSUME NEW d \in Devices, NEW f \in Files, NEW kind \in Resolutions, Resolve(d, f, kind)
      PROVE  StateInv'
    BY <1>3, ResolveKeeps
<1>4. ASSUME NEW d \in Devices, Step(d) PROVE StateInv'
    BY <1>4, DecideKeeps, FinishKeeps, CompareKeeps, PostKeeps, RecordUploadKeeps, RelistKeeps,
       FetchKeeps, PlaceKeeps, RecordKeeps, AdoptKeeps, AcknowledgeKeeps, Zenon DEF Step
<1>5. ASSUME NEW d \in Devices, Fails(d) PROVE StateInv'
    BY <1>5, RequestFailsKeeps, AnswerLostKeeps, PlaceFailsKeeps, CrashKeeps, Zenon DEF Fails
<1>6. ASSUME NEW id \in Ids, Replace(id) PROVE StateInv'
    BY <1>6, ReplaceKeeps
<1>7. CASE UNCHANGED vars
    <2>1. OperationOnly /\ op' = op
        BY <1>7 DEF vars, deviceVars, serverVars, boundVars, StateInv, TypeOK, OperationOnly
    <2>2. QED
        BY <2>1, SameKeeps
<1>8. QED
    BY <1>1, <1>2, <1>3, <1>4, <1>5, <1>6, <1>7, Zenon DEF Next

(* Every operation, wherever it is, works on a file of the device and on a   *)
(* save RomM holds: a step after an answer that was lost, a stop or a        *)
(* failure is taken on what the step before it left.                         *)
THEOREM StateInvariant == Spec => []StateInv
BY StateInit, StateStep, PTL DEF Spec

(* The state keeps its types: the ids, times and contents that devices and   *)
(* RomM name stay among those that came to be.                               *)
THEOREM TypeCorrect == Spec => []TypeOK
<1>1. StateInv => TypeOK
    BY DEF StateInv
<1>2. QED
    BY StateInvariant, <1>1, PTL

-----------------------------------------------------------------------------
(* No work is lost: what holds a content, and what a step takes from it. *)

\* RomM holds what x supersedes.
Covered(x) == \E i \in 1..Len(saves) : over[x] \subseteq over[saves[i].content]

OverInv ==
    /\ over[None] = {}
    /\ \A c \in 1..written : c \in over[c]

\* Nothing is held that was not written.
ValuesInv ==
    /\ \A d \in Devices, f \in Files : disk[d][f] <= written
    /\ \A d \in Devices : \A b \in backups[d] : b <= written
    /\ \A i \in 1..Len(saves) : saves[i].content <= written

\* What a sync places, and what it has placed under a running game, came from
\* RomM, which holds it still or what superseded it there.
PlacedInv ==
    /\ \A d \in Devices : op[d].pc = "place" => op[d].local <= written /\ Covered(op[d].local)
    /\ \A d \in Devices, f \in Files :
        game[d].running /\ disk[d][f] \notin {game[d].loaded[f], None} => Covered(disk[d][f])

WorkInv == OverInv /\ ValuesInv /\ PlacedInv /\ NoLostWork

LEMMA WorkInit == Init => WorkInv
<1> SUFFICES ASSUME Init PROVE WorkInv
    OBVIOUS
<1>1. /\ \A d \in Devices : op[d].pc = "idle" /\ ~game[d].running /\ backups[d] = {}
    BY DEF Init, Idle, NotRunning
<1>2. PlacedInv
    BY <1>1 DEF PlacedInv
<1>3. CASE /\ disk = [d \in Devices |-> [f \in Files |-> None]] /\ saves = <<>>
           /\ written = 0 /\ over = [c \in 0..MaxContent |-> {}]
    <2>1. OverInv
        BY <1>3, ClockBounds DEF OverInv, None
    <2>2. ValuesInv
        BY <1>1, <1>3 DEF ValuesInv, None
    <2>3. NoLostWork
        BY <1>3 DEF NoLostWork
    <2>4. QED
        BY <1>2, <2>1, <2>2, <2>3 DEF WorkInv
<1>4. ASSUME NEW d \in Devices, NEW f \in Files, MaxContent > 0,
             disk = [e \in Devices |-> [g \in Files |-> IF e = d /\ g = f THEN 1 ELSE None]],
             saves = <<[file |-> f, content |-> 1, upd |-> 1]>>,
             written = 1,
             over = [c \in 0..MaxContent |-> IF c = 1 THEN {1} ELSE {}]
      PROVE  WorkInv
    <2>1. OverInv
        BY <1>4, ClockBounds DEF OverInv, None
    <2>2. ValuesInv
        BY <1>1, <1>4 DEF ValuesInv, None
    <2>3. Len(saves) = 1 /\ saves[1].content = 1
        BY <1>4
    <2>4. 1 \in over[1]
        BY <1>4, ClockBounds
    <2>5. NoLostWork
        <3>1. written = 1 /\ 1 \in 1..Len(saves)
            BY <1>4, <2>3
        <3>2. \A c \in 1..written : c = 1
            BY <3>1
        <3>3. \A c \in 1..written : \E i \in 1..Len(saves) : c \in over[saves[i].content]
            BY <2>3, <2>4, <3>1, <3>2, Zenon
        <3>4. QED
            BY <3>3, Zenon DEF NoLostWork
    <2>6. QED
        BY <1>2, <2>1, <2>2, <2>5 DEF WorkInv
<1>5. QED
    BY <1>3, <1>4 DEF Init

\* A step that takes nothing from what holds a content.
LEMMA QuietKeepsWork ==
    ASSUME WorkInv, UNCHANGED <<disk, backups, saves, written, over>>,
           \A d \in Devices : op'[d].pc = "place" =>
               \/ op[d].pc = "place" /\ op'[d].local = op[d].local
               \/ \E i \in 1..Len(saves) : op'[d].local = saves[i].content,
           \A d \in Devices :
               game'[d] = game[d] \/ ~game'[d].running \/ game'[d].loaded = disk[d]
    PROVE  WorkInv'
<1>1. OverInv' /\ ValuesInv'
    BY DEF WorkInv, OverInv, ValuesInv
<1>2. \A x : Covered(x)' <=> Covered(x)
    BY DEF Covered
<1>3. ASSUME NEW d \in Devices, op'[d].pc = "place"
      PROVE  op'[d].local <= written' /\ Covered(op[d].local)'
    <2>1. CASE op[d].pc = "place" /\ op'[d].local = op[d].local
        BY <2>1 DEF WorkInv, PlacedInv, Covered
    <2>2. CASE \E i \in 1..Len(saves) : op'[d].local = saves[i].content
        BY <2>2 DEF WorkInv, ValuesInv, Covered
    <2>3. QED
        BY <1>3, <2>1, <2>2
<1>4. ASSUME NEW d \in Devices, NEW f \in Files,
             game'[d].running, disk'[d][f] \notin {game'[d].loaded[f], None}
      PROVE  Covered(disk[d][f])'
    BY <1>4 DEF WorkInv, PlacedInv, Covered
<1>5. PlacedInv'
    BY <1>3, <1>4 DEF PlacedInv, Covered
<1>6. NoLostWork'
    BY DEF WorkInv, NoLostWork
<1>7. QED
    BY <1>1, <1>5, <1>6 DEF WorkInv

\* A content superseded more, at RomM's end, by what the user chose or by a save
\* that came to be.
LEMMA GrowsKeepsWork ==
    ASSUME StateInv, WorkInv, UNCHANGED <<disk, backups, game, written>>,
           \A d \in Devices : op'[d].pc = "place" =>
               op[d].pc = "place" /\ op'[d].local = op[d].local,
           over'[None] = {},
           \A c \in 0..MaxContent : over[c] \subseteq over'[c],
           \A x \in 0..MaxContent, y \in Contents : over[x] \subseteq over[y] => over'[x] \subseteq over'[y],
           Len(saves') = Len(saves) + 1,
           \A i \in 1..Len(saves) : saves'[i] = saves[i],
           saves'[Len(saves) + 1].content <= written
    PROVE  WorkInv'
<1>1. Len(saves) \in Nat /\ written \in 0..MaxContent
      /\ \A i \in 1..Len(saves) : saves[i].content \in Contents
      /\ disk \in [Devices -> [Files -> 0..MaxContent]]
      /\ backups \in [Devices -> SUBSET Contents]
      /\ game \in [Devices -> [running : BOOLEAN, loaded : [Files -> 0..MaxContent]]]
    <2>1. WorldTyped
        BY WorldOf
    <2>2. saves \in Seq(SaveType)
        BY <2>1 DEF WorldTyped
    <2>3. \A i \in 1..Len(saves) : saves[i].content \in Contents
        <3>1. \A i \in 1..Len(saves) : saves[i] \in SaveType
            BY <2>2
        <3>2. QED
            BY <3>1 DEF SaveType
    <2>4. Len(saves) \in Nat
        BY <2>2
    <2>5. QED
        BY <2>1, <2>3, <2>4, Zenon DEF WorldTyped
<1>2. 1..Len(saves) \subseteq 1..Len(saves')
    BY <1>1
<1>3. OverInv'
    <2>1. \A c \in 1..written : c \in 0..MaxContent /\ c \in over[c]
        BY <1>1, ClockBounds DEF WorkInv, OverInv
    <2>2. QED
        BY <2>1 DEF OverInv
<1>4. ValuesInv'
    <2>1. ASSUME NEW i \in 1..Len(saves') PROVE saves'[i].content <= written
        BY <1>1 DEF WorkInv, ValuesInv
    <2>2. QED
        BY <2>1 DEF WorkInv, ValuesInv
<1>5. ASSUME NEW x \in 0..MaxContent, Covered(x) PROVE Covered(x)'
    <2>1. PICK i \in 1..Len(saves) : over[x] \subseteq over[saves[i].content]
        BY <1>5 DEF Covered
    <2>2. over'[x] \subseteq over'[saves[i].content] /\ saves'[i] = saves[i] /\ i \in 1..Len(saves')
        BY <1>1, <1>2, <2>1
    <2>3. QED
        BY <2>2 DEF Covered
<1>6. ASSUME NEW d \in Devices, op'[d].pc = "place"
      PROVE  op'[d].local <= written' /\ Covered(op[d].local)'
    <2>1. op[d].pc = "place" /\ op'[d].local = op[d].local /\ op[d].local \in 0..MaxContent
        BY <1>6, AtPlace DEF Operations
    <2>2. op[d].local <= written /\ Covered(op[d].local)
        BY <2>1 DEF WorkInv, PlacedInv
    <2>3. Covered(op[d].local)'
        BY <1>5, <2>1, <2>2 DEF Covered
    <2>4. QED
        BY <2>1, <2>2, <2>3 DEF Covered
<1>7. ASSUME NEW d \in Devices, NEW f \in Files,
             game'[d].running, disk'[d][f] \notin {game'[d].loaded[f], None}
      PROVE  Covered(disk[d][f])'
    <2>1. game[d].running /\ disk[d][f] \notin {game[d].loaded[f], None}
        BY <1>7
    <2>2. Covered(disk[d][f]) /\ disk[d][f] \in 0..MaxContent
        <3>1. disk[d][f] \in 0..MaxContent
            BY AtPlace
        <3>2. QED
            BY <2>1, <3>1, Zenon DEF WorkInv, PlacedInv
    <2>3. QED
        BY <1>5, <2>2 DEF Covered
<1>8. PlacedInv'
    BY <1>6, <1>7 DEF PlacedInv, Covered
<1>9. NoLostWork'
    <2> SUFFICES ASSUME NEW c \in 1..written
                 PROVE  \/ \E d \in Devices, f \in Files : c \in over'[disk[d][f]]
                        \/ \E d \in Devices, b \in Contents : b \in backups[d] /\ c \in over'[b]
                        \/ \E i \in 1..Len(saves') : c \in over'[saves'[i].content]
        BY DEF NoLostWork
    <2>1. CASE \E d \in Devices, f \in Files : c \in over[disk[d][f]]
        <3>1. PICK d \in Devices, f \in Files : c \in over[disk[d][f]]
            BY <2>1
        <3>2. disk[d][f] \in 0..MaxContent
            BY AtPlace
        <3>3. c \in over'[disk[d][f]]
            BY <3>1, <3>2
        <3>4. QED
            BY <3>3
    <2>2. CASE \E d \in Devices, b \in Contents : b \in backups[d] /\ c \in over[b]
        BY <2>2, ClockBounds DEF Contents
    <2>3. CASE \E i \in 1..Len(saves) : c \in over[saves[i].content]
        <3>1. PICK i \in 1..Len(saves) : c \in over[saves[i].content]
            BY <2>3
        <3>2. saves[i].content \in 0..MaxContent /\ saves'[i] = saves[i] /\ i \in 1..Len(saves')
            BY <1>1, <1>2, ClockBounds DEF Contents
        <3>3. QED
            BY <3>1, <3>2
    <2>4. QED
        BY <2>1, <2>2, <2>3 DEF WorkInv, NoLostWork
<1>10. QED
    BY <1>3, <1>4, <1>8, <1>9 DEF WorkInv

\* A file moved aside: the backup folder holds what the file held.
LEMMA PlacingKeepsWork ==
    ASSUME StateInv, WorkInv, NEW d \in Devices, NEW f \in Files, NEW content \in 0..MaxContent,
           content = None \/ (content <= written /\ Covered(content)),
           MoveAside(d, f),
           disk' = [disk EXCEPT ![d][f] = content],
           UNCHANGED <<game, saves, written, over>>,
           \A e \in Devices : op'[e].pc = "place" =>
               op[e].pc = "place" /\ op'[e].local = op[e].local
    PROVE  WorkInv'
<1>1. /\ disk \in [Devices -> [Files -> 0..MaxContent]]
      /\ backups \in [Devices -> SUBSET Contents]
      /\ written \in 0..MaxContent
    BY DEF StateInv, TypeOK
<1>2. OverInv'
    BY DEF WorkInv, OverInv
<1>3. \A e \in Devices, g \in Files : disk'[e][g] = IF e = d /\ g = f THEN content ELSE disk[e][g]
    BY <1>1
<1>4. \A e \in Devices :
        /\ backups[e] \subseteq backups'[e]
        /\ \A b \in backups'[e] : b \in backups[e] \/ (e = d /\ b = disk[d][f] /\ b # None)
    BY <1>1 DEF MoveAside
<1>5. disk[d][f] # None => disk[d][f] \in backups'[d] /\ disk[d][f] \in Contents
    BY <1>1, ClockBounds DEF MoveAside, Contents, None
<1>6. ValuesInv'
    <2>1. content <= written
        BY <1>1 DEF None
    <2>2. QED
        BY <1>3, <1>4, <2>1 DEF WorkInv, ValuesInv
<1>7. PlacedInv'
    <2>1. ASSUME NEW e \in Devices, op'[e].pc = "place"
          PROVE  op'[e].local <= written' /\ Covered(op[e].local)'
        BY <2>1 DEF WorkInv, PlacedInv, Covered
    <2>2. ASSUME NEW e \in Devices, NEW g \in Files,
                 game'[e].running, disk'[e][g] \notin {game'[e].loaded[g], None}
          PROVE  Covered(disk[e][g])'
        <3>1. CASE e = d /\ g = f
            BY <1>3, <2>2, <3>1 DEF Covered
        <3>2. CASE ~(e = d /\ g = f)
            <4>1. disk'[e][g] = disk[e][g] /\ game' = game
                BY <1>3, <3>2
            <4>2. Covered(disk[e][g])
                BY <2>2, <4>1 DEF WorkInv, PlacedInv
            <4>3. QED
                BY <4>1, <4>2 DEF Covered
        <3>3. QED
            BY <3>1, <3>2
    <2>3. QED
        BY <2>1, <2>2 DEF PlacedInv, Covered
<1>8. NoLostWork'
    <2> SUFFICES ASSUME NEW c \in 1..written
                 PROVE  \/ \E e \in Devices, g \in Files : c \in over[disk'[e][g]]
                        \/ \E e \in Devices, b \in Contents : b \in backups'[e] /\ c \in over[b]
                        \/ \E i \in 1..Len(saves) : c \in over[saves[i].content]
        BY DEF NoLostWork
    <2>1. ASSUME NEW e \in Devices, NEW g \in Files, c \in over[disk[e][g]]
          PROVE  \/ c \in over[disk'[e][g]]
                 \/ \E b \in Contents : b \in backups'[d] /\ c \in over[b]
        <3>1. CASE e = d /\ g = f
            <4>1. disk[d][f] # None
                BY <2>1, <3>1 DEF WorkInv, OverInv
            <4>2. QED
                BY <1>5, <2>1, <3>1, <4>1
        <3>2. CASE ~(e = d /\ g = f)
            BY <1>3, <2>1, <3>2
        <3>3. QED
            BY <3>1, <3>2
    <2>2. CASE \E e \in Devices, b \in Contents : b \in backups[e] /\ c \in over[b]
        BY <1>4, <2>2
    <2>3. QED
        BY <2>1, <2>2 DEF WorkInv, NoLostWork
<1>9. QED
    BY <1>2, <1>6, <1>7, <1>8 DEF WorkInv

\* A new content: what it takes the place of, it supersedes.
LEMMA WritesOver ==
    ASSUME StateInv, WorkInv, NEW from, Write(written + 1, from), written + 1 \in 1..MaxContent
    PROVE  /\ over'[None] = {}
           /\ \A c \in 0..MaxContent : c <= written => over'[c] = over[c]
           /\ over'[written + 1] = over[from] \cup {written + 1}
<1>1. over \in [0..MaxContent -> SUBSET Contents] /\ written \in 0..MaxContent
    BY DEF StateInv, TypeOK
<1>2. over' = [over EXCEPT ![written + 1] = over[from] \cup {written + 1}]
    BY DEF Write
<1>3. \A c \in 0..MaxContent : c <= written => c # written + 1
    BY <1>1
<1>4. None \in 0..MaxContent /\ None <= written
    BY <1>1, ClockBounds DEF None
<1>5. QED
    BY <1>1, <1>2, <1>3, <1>4 DEF WorkInv, OverInv

LEMMA WrittenOver ==
    ASSUME StateInv, WorkInv, NEW from, Write(written + 1, from), written + 1 \in 1..MaxContent,
           written' = written + 1
    PROVE  OverInv'
<1>1. written \in 0..MaxContent
    BY DEF StateInv, TypeOK
<1>2. ASSUME NEW c \in 1..(written + 1) PROVE c \in over'[c]
    <2>1. CASE c = written + 1
        BY <2>1, WritesOver
    <2>2. CASE c # written + 1
        <3>1. c \in 1..written /\ c \in 0..MaxContent
            BY <1>1, <2>2, ClockBounds
        <3>2. QED
            BY <3>1, WritesOver DEF WorkInv, OverInv
    <2>3. QED
        BY <2>1, <2>2
<1>3. QED
    BY <1>2, WritesOver DEF OverInv

LEMMA SavedValues ==
    ASSUME StateInv, WorkInv
    PROVE  \A i \in 1..Len(saves) :
               saves[i].content \in 0..MaxContent /\ saves[i].content <= written
<1>1. saves \in Seq(SaveType)
    BY WorldOf DEF WorldTyped
<1>2. \A i \in 1..Len(saves) : saves[i] \in SaveType
    BY <1>1
<1>3. \A i \in 1..Len(saves) : saves[i].content \in 0..MaxContent
    BY <1>2, ClockBounds DEF SaveType, Contents
<1>4. QED
    BY <1>3 DEF WorkInv, ValuesInv

LEMMA GameWritesKeepsWork ==
    ASSUME StateInv, WorkInv, NEW d \in Devices, NEW f \in Files, GameWrites(d, f)
    PROVE  WorkInv'
<1> DEFINE new == written + 1
           from == game[d].loaded[f]
<1>1. /\ new \in 1..MaxContent /\ written' = new /\ from \in 0..MaxContent
      /\ written \in 0..MaxContent
    BY GameWritesWorld DEF StateInv, TypeOK
<1>2. /\ game[d].running
      /\ disk' = [disk EXCEPT ![d][f] = new]
      /\ game' = [game EXCEPT ![d].loaded[f] = new]
      /\ Write(new, from)
      /\ UNCHANGED <<backups, op, saves>>
    BY DEF GameWrites, serverVars
<1>3. /\ disk \in [Devices -> [Files -> 0..MaxContent]]
      /\ backups \in [Devices -> SUBSET Contents]
      /\ game \in [Devices -> [running : BOOLEAN, loaded : [Files -> 0..MaxContent]]]
    BY DEF StateInv, TypeOK
<1>4. /\ over'[None] = {}
      /\ \A c \in 0..MaxContent : c <= written => over'[c] = over[c]
      /\ over'[new] = over[from] \cup {new}
    BY <1>1, <1>2, WritesOver
<1>5. OverInv'
    BY <1>1, <1>2, WrittenOver
<1>6. \A e \in Devices, g \in Files :
          disk'[e][g] = IF e = d /\ g = f THEN new ELSE disk[e][g]
    BY <1>2, <1>3
<1>7. \A e \in Devices, g \in Files :
          /\ game'[e].running = game[e].running
          /\ game'[e].loaded[g] = IF e = d /\ g = f THEN new ELSE game[e].loaded[g]
    <2>1. [game[d] EXCEPT !.loaded[f] = new].running = game[d].running
          /\ \A g \in Files : [game[d] EXCEPT !.loaded[f] = new].loaded[g] =
                                  IF g = f THEN new ELSE game[d].loaded[g]
        BY <1>3
    <2>2. game' = [game EXCEPT ![d] = [game[d] EXCEPT !.loaded[f] = new]]
        BY <1>2
    <2> DEFINE later == [game[d] EXCEPT !.loaded[f] = new]
    <2>3. \A e \in Devices : game'[e] = IF e = d THEN later ELSE game[e]
        BY <1>3, <2>2
    <2> HIDE DEF later
    <2>4. later.running = game[d].running
          /\ \A g \in Files : later.loaded[g] = IF g = f THEN new ELSE game[d].loaded[g]
        BY <2>1 DEF later
    <2>5. QED
        BY <2>3, <2>4
<1> HIDE DEF from
<1>8. \A i \in 1..Len(saves) : saves[i].content \in 0..MaxContent /\ saves[i].content <= written
    BY SavedValues
<1>9. ASSUME NEW x \in 0..MaxContent, x <= written, Covered(x)
      PROVE  Covered(x)'
    <2>1. PICK i \in 1..Len(saves) : over[x] \subseteq over[saves[i].content]
        BY <1>9 DEF Covered
    <2>2. over'[x] = over[x] /\ over'[saves[i].content] = over[saves[i].content]
        BY <1>4, <1>8, <1>9
    <2>3. QED
        BY <1>2, <2>1, <2>2 DEF Covered
<1>10. \A e \in Devices, g \in Files : disk[e][g] \in 0..MaxContent /\ disk[e][g] <= written
    BY <1>3 DEF WorkInv, ValuesInv
<1>11. \A e \in Devices, b \in Contents : b \in backups[e] => b \in 0..MaxContent /\ b <= written
    BY <1>3, ClockBounds DEF WorkInv, ValuesInv, Contents
<1>12. ValuesInv'
    <2>1. \A e \in Devices, g \in Files : disk'[e][g] <= new
        BY <1>1, <1>6, <1>10
    <2>2. \A e \in Devices : \A b \in backups[e] : b <= new
        BY <1>1, <1>3, <1>11, ClockBounds DEF Contents
    <2>3. \A i \in 1..Len(saves) : saves[i].content <= new
        BY <1>1, <1>8
    <2>4. QED
        BY <1>1, <1>2, <2>1, <2>2, <2>3 DEF ValuesInv
<1>13. PlacedInv'
    <2>1. ASSUME NEW e \in Devices, op'[e].pc = "place"
          PROVE  op'[e].local <= written' /\ Covered(op[e].local)'
        <3>1. op'[e] = op[e] /\ op[e].local \in 0..MaxContent
            BY <1>2, AtPlace DEF Operations
        <3>2. op[e].local <= written /\ Covered(op[e].local)
            BY <2>1, <3>1 DEF WorkInv, PlacedInv
        <3>3. \E i \in 1..Len(saves') : over'[op[e].local] \subseteq over'[saves'[i].content]
            BY <1>9, <3>1, <3>2 DEF Covered
        <3>4. op[e].local <= new
            BY <1>1, <3>1, <3>2
        <3>5. QED
            BY <1>1, <3>1, <3>3, <3>4 DEF Covered
    <2>2. ASSUME NEW e \in Devices, NEW g \in Files,
                 game'[e].running, disk'[e][g] \notin {game'[e].loaded[g], None}
          PROVE  Covered(disk[e][g])'
        <3>1. ~(e = d /\ g = f)
            BY <1>6, <1>7, <2>2
        <3>2. disk'[e][g] = disk[e][g] /\ game[e].running
              /\ disk[e][g] \notin {game[e].loaded[g], None}
            BY <1>6, <1>7, <2>2, <3>1
        <3>3. Covered(disk[e][g])
            BY <3>2 DEF WorkInv, PlacedInv
        <3>4. \E i \in 1..Len(saves') : over'[disk[e][g]] \subseteq over'[saves'[i].content]
            BY <1>9, <1>10, <3>3 DEF Covered
        <3>5. QED
            BY <3>2, <3>4 DEF Covered
    <2>3. QED
        BY <2>1, <2>2 DEF PlacedInv, Covered
<1>14. NoLostWork'
    <2> SUFFICES ASSUME NEW c \in 1..new
                 PROVE  \/ \E e \in Devices, g \in Files : c \in over'[disk'[e][g]]
                        \/ \E e \in Devices, b \in Contents : b \in backups[e] /\ c \in over'[b]
                        \/ \E i \in 1..Len(saves) : c \in over'[saves[i].content]
        BY <1>1, <1>2 DEF NoLostWork
    <2>1. CASE c = new
        <3>1. c \in over'[disk'[d][f]]
            BY <1>4, <1>6, <2>1
        <3>2. QED
            BY <3>1
    <2>2. ASSUME NEW e \in Devices, NEW g \in Files, c \in over[disk[e][g]]
          PROVE  \/ \E h \in Devices, k \in Files : c \in over'[disk'[h][k]]
                 \/ \E i \in 1..Len(saves) : c \in over'[saves[i].content]
        <3>1. CASE ~(e = d /\ g = f)
            <4>1. disk'[e][g] = disk[e][g] /\ over'[disk[e][g]] = over[disk[e][g]]
                BY <1>4, <1>6, <1>10, <3>1
            <4>2. QED
                BY <2>2, <4>1
        <3>2. CASE e = d /\ g = f /\ disk[d][f] = from
            <4>1. c \in over'[disk'[d][f]]
                BY <1>4, <1>6, <2>2, <3>2
            <4>2. QED
                BY <4>1
        <3>3. CASE e = d /\ g = f /\ disk[d][f] # from
            <4>1. disk[d][f] # None
                BY <2>2, <3>3 DEF WorkInv, OverInv
            <4>2. Covered(disk[d][f])
                BY <1>2, <3>3, <4>1 DEF WorkInv, PlacedInv, from
            <4>3. PICK i \in 1..Len(saves) : over[disk[d][f]] \subseteq over[saves[i].content]
                BY <4>2 DEF Covered
            <4>4. over'[saves[i].content] = over[saves[i].content]
                BY <1>4, <1>8
            <4>5. QED
                BY <2>2, <3>3, <4>3, <4>4
        <3>4. QED
            BY <3>1, <3>2, <3>3
    <2>3. CASE \E e \in Devices, b \in Contents : b \in backups[e] /\ c \in over[b]
        BY <1>4, <1>11, <2>3
    <2>4. CASE \E i \in 1..Len(saves) : c \in over[saves[i].content]
        BY <1>4, <1>8, <2>4
    <2>5. c # new => c \in 1..written
        BY <1>1
    <2>6. QED
        BY <2>1, <2>2, <2>3, <2>4, <2>5 DEF WorkInv, NoLostWork
<1>15. QED
    BY <1>5, <1>12, <1>13, <1>14 DEF WorkInv

LEMMA ReplaceKeepsWork ==
    ASSUME StateInv, WorkInv, NEW id \in Ids, Replace(id)
    PROVE  WorkInv'
<1> DEFINE new == written + 1
           from == saves[id].content
<1>1. /\ new \in 1..MaxContent /\ written' = new /\ written \in 0..MaxContent
      /\ Len(saves') = Len(saves) /\ Len(saves) \in Nat /\ id \in 1..Len(saves)
      /\ \A i \in 1..Len(saves) : i # id => saves'[i] = saves[i]
      /\ saves'[id].content = new
    BY ReplaceWorld DEF StateInv, TypeOK
<1>2. Write(new, from) /\ UNCHANGED <<disk, backups, game, op>>
    BY DEF Replace, deviceVars
<1>3. /\ disk \in [Devices -> [Files -> 0..MaxContent]]
      /\ backups \in [Devices -> SUBSET Contents]
    BY DEF StateInv, TypeOK
<1>4. /\ over'[None] = {}
      /\ \A c \in 0..MaxContent : c <= written => over'[c] = over[c]
      /\ over'[new] = over[from] \cup {new}
    BY <1>1, <1>2, WritesOver
<1>5. OverInv'
    BY <1>1, <1>2, WrittenOver
<1>6. \A i \in 1..Len(saves) : saves[i].content \in 0..MaxContent /\ saves[i].content <= written
    BY SavedValues
<1>7. \A i \in 1..Len(saves) : over[saves[i].content] \subseteq over'[saves'[i].content]
    <2> SUFFICES ASSUME NEW i \in 1..Len(saves)
                 PROVE  over[saves[i].content] \subseteq over'[saves'[i].content]
        OBVIOUS
    <2>1. CASE i = id
        BY <1>1, <1>4, <2>1
    <2>2. CASE i # id
        BY <1>1, <1>4, <1>6, <2>2
    <2>3. QED
        BY <2>1, <2>2
<1> HIDE DEF from
<1>8. ASSUME NEW x \in 0..MaxContent, x <= written, Covered(x)
      PROVE  Covered(x)'
    <2>1. PICK i \in 1..Len(saves) : over[x] \subseteq over[saves[i].content]
        BY <1>8 DEF Covered
    <2>2. over'[x] = over[x] /\ over[saves[i].content] \subseteq over'[saves'[i].content]
          /\ i \in 1..Len(saves')
        BY <1>1, <1>4, <1>7, <1>8
    <2>3. QED
        BY <2>1, <2>2 DEF Covered
<1>9. \A e \in Devices, g \in Files : disk[e][g] \in 0..MaxContent /\ disk[e][g] <= written
    BY <1>3 DEF WorkInv, ValuesInv
<1>10. \A e \in Devices, b \in Contents : b \in backups[e] => b \in 0..MaxContent /\ b <= written
    BY <1>3, ClockBounds DEF WorkInv, ValuesInv, Contents
<1>11. ValuesInv'
    <2>1. \A e \in Devices, g \in Files : disk[e][g] <= new
        BY <1>1, <1>9
    <2>2. \A e \in Devices : \A b \in backups[e] : b <= new
        BY <1>1, <1>3, <1>10, ClockBounds DEF Contents
    <2>3. \A i \in 1..Len(saves') : saves'[i].content <= new
        <3> SUFFICES ASSUME NEW i \in 1..Len(saves) PROVE saves'[i].content <= new
            BY <1>1
        <3>1. CASE i = id
            BY <1>1, <3>1
        <3>2. CASE i # id
            BY <1>1, <1>6, <3>2
        <3>3. QED
            BY <3>1, <3>2
    <2>4. QED
        BY <1>1, <1>2, <2>1, <2>2, <2>3 DEF ValuesInv
<1>12. PlacedInv'
    <2>1. ASSUME NEW e \in Devices, op'[e].pc = "place"
          PROVE  op'[e].local <= written' /\ Covered(op[e].local)'
        <3>1. op'[e] = op[e] /\ op[e].local \in 0..MaxContent
            BY <1>2, AtPlace DEF Operations
        <3>2. op[e].local <= written /\ Covered(op[e].local)
            BY <2>1, <3>1 DEF WorkInv, PlacedInv
        <3>3. \E i \in 1..Len(saves') : over'[op[e].local] \subseteq over'[saves'[i].content]
            BY <1>8, <3>1, <3>2 DEF Covered
        <3>4. op[e].local <= new
            BY <1>1, <3>1, <3>2
        <3>5. QED
            BY <1>1, <3>1, <3>3, <3>4 DEF Covered
    <2>2. ASSUME NEW e \in Devices, NEW g \in Files,
                 game'[e].running, disk'[e][g] \notin {game'[e].loaded[g], None}
          PROVE  Covered(disk[e][g])'
        <3>1. disk' = disk /\ game' = game
            BY <1>2
        <3>2. Covered(disk[e][g])
            BY <2>2, <3>1 DEF WorkInv, PlacedInv
        <3>3. \E i \in 1..Len(saves') : over'[disk[e][g]] \subseteq over'[saves'[i].content]
            BY <1>8, <1>9, <3>2 DEF Covered
        <3>4. QED
            BY <3>1, <3>3 DEF Covered
    <2>3. QED
        BY <2>1, <2>2 DEF PlacedInv, Covered
<1>13. NoLostWork'
    <2> SUFFICES ASSUME NEW c \in 1..new
                 PROVE  \/ \E e \in Devices, g \in Files : c \in over'[disk[e][g]]
                        \/ \E e \in Devices, b \in Contents : b \in backups[e] /\ c \in over'[b]
                        \/ \E i \in 1..Len(saves) : c \in over'[saves'[i].content]
        BY <1>1, <1>2 DEF NoLostWork
    <2>1. CASE c = new
        <3>1. c \in over'[saves'[id].content]
            BY <1>1, <1>4, <2>1
        <3>2. QED
            BY <1>1, <3>1
    <2>2. CASE \E e \in Devices, g \in Files : c \in over[disk[e][g]]
        BY <1>4, <1>9, <2>2
    <2>3. CASE \E e \in Devices, b \in Contents : b \in backups[e] /\ c \in over[b]
        BY <1>4, <1>10, <2>3
    <2>4. CASE \E i \in 1..Len(saves) : c \in over[saves[i].content]
        BY <1>7, <2>4
    <2>5. c # new => c \in 1..written
        BY <1>1
    <2>6. QED
        BY <2>1, <2>2, <2>3, <2>4, <2>5 DEF WorkInv, NoLostWork
<1>14. QED
    BY <1>5, <1>11, <1>12, <1>13 DEF WorkInv

LEMMA DeviceLeaves ==
    ASSUME StateInv, NEW d \in Devices,
           \/ \E kind \in Syncs : Start(d, kind)
           \/ \E f \in Files, kind \in Resolutions : Resolve(d, f, kind)
           \/ Decide(d) \/ Finish(d) \/ Compare(d) \/ Post(d) \/ RecordUpload(d)
           \/ Relist(d) \/ Place(d) \/ Record(d) \/ Adopt(d)
           \/ Plays(d) \/ Fails(d)
    PROVE  StillThere
<1> DEFINE o == op[d]
<1>1. o \in Operations /\ op \in [Devices -> Operations]
    BY DEF StateInv, TypeOK
<1>2. ASSUME op' = op PROVE StillThere
    BY <1>2 DEF StillThere
<1>3. ASSUME NEW p \in Operations, NEW pc, pc \notin {"place", "record"},
             op' = [op EXCEPT ![d] = [p EXCEPT !.pc = pc]]
      PROVE  StillThere
    <2>1. [p EXCEPT !.pc = pc].pc = pc
        BY DEF Operations
    <2>2. QED
        BY <1>3, <2>1, Leaves
<1>4. ASSUME NEW p \in Operations, op' = [op EXCEPT ![d] = Done(p)] \/ op' = [op EXCEPT ![d] = Failed(p)]
      PROVE  StillThere
    BY <1>4, DoneLeaves, Leaves
<1>5. ASSUME op' = [op EXCEPT ![d] = Idle] PROVE StillThere
    BY <1>5, Leaves DEF Idle
<1>6. ASSUME op' = [op EXCEPT ![d] = NotTaken(d)] PROVE StillThere
    BY <1>1, <1>4, <1>6 DEF NotTaken
<1>7. ASSUME NEW kind \in Syncs, Start(d, kind) PROVE StillThere
    <2>1. PICK mem, listed, probed, todo :
              op' = [op EXCEPT ![d] = [Idle EXCEPT
                        !.pc = "decide", !.kind = kind, !.mem = mem, !.listed = listed,
                        !.probed = probed, !.todo = todo]]
        BY <1>7 DEF Start
    <2>2. QED
        BY <2>1, Leaves DEF Idle
<1>8. ASSUME NEW f \in Files, NEW kind \in Resolutions, Resolve(d, f, kind) PROVE StillThere
    <2> DEFINE p == [Idle EXCEPT !.kind = kind, !.mem = base[d], !.file = f, !.todo = {f},
                         !.head = [id |-> SlotHead(saves), content |-> saves[SlotHead(saves)].content]]
    <2>1. [p EXCEPT !.pc = "fetch"].pc = "fetch"
          /\ [p EXCEPT !.pc = "compare", !.local = disk[d][f]].pc = "compare"
        BY DEF Idle
    <2>2. \/ op' = op
          \/ op' = [op EXCEPT ![d] = [p EXCEPT !.pc = "fetch"]]
          \/ op' = [op EXCEPT ![d] = [p EXCEPT !.pc = "compare", !.local = disk[d][f]]]
        BY <1>8 DEF Resolve
    <2> HIDE DEF p
    <2>3. QED
        BY <1>2, <2>1, <2>2, Leaves
<1>9. ASSUME Decide(d) PROVE StillThere
    BY <1>9, DecideKeeps
<1>10. ASSUME RecordUpload(d) PROVE StillThere
    <2> DEFINE q == [o EXCEPT !.mem[o.file] = [local |-> disk[d][o.file], server |-> o.head.content]]
    <2>1. q \in Operations
        <3>1. o.file \in Files
            BY <1>10, AtPlace DEF RecordUpload, OperationOK
        <3>2. disk[d][o.file] \in 0..MaxContent /\ o.head.content \in 0..MaxContent
            BY <3>1, AtPlace DEF Operations
        <3> HIDE DEF o
        <3>3. QED
            BY <1>1, <3>2, RecordedTyped
    <2> HIDE DEF q
    <2>2. [q EXCEPT !.pc = "ack", !.local = o.head.content].pc = "ack"
        BY <2>1 DEF Operations
    <2>3. \/ op' = [op EXCEPT ![d] = Done(q)]
          \/ op' = [op EXCEPT ![d] = [q EXCEPT !.pc = "ack", !.local = o.head.content]]
        BY <1>10 DEF RecordUpload, q
    <2>4. QED
        BY <1>4, <2>1, <2>2, <2>3, Leaves
<1>11. ASSUME Record(d) PROVE StillThere
    <2> DEFINE q == [o EXCEPT !.mem[o.file] = [local |-> disk[d][o.file], server |-> o.head.content]]
    <2>1. q \in Operations
        <3>1. o.file \in Files
            BY <1>11, AtPlace DEF Record, OperationOK
        <3>2. disk[d][o.file] \in 0..MaxContent /\ o.head.content \in 0..MaxContent
            BY <3>1, AtPlace DEF Operations
        <3> HIDE DEF o
        <3>3. QED
            BY <1>1, <3>2, RecordedTyped
    <2>2. op' = [op EXCEPT ![d] = Done(q)]
        BY <1>11 DEF Record
    <2> HIDE DEF q
    <2>3. QED
        BY <1>4, <2>1, <2>2
<1>12. ASSUME Post(d) PROVE StillThere
    <2>1. \A head, then :
              /\ [o EXCEPT !.pc = "recordUpload", !.head = head].pc = "recordUpload"
              /\ [o EXCEPT !.pc = "recordUpload", !.head = head, !.then = then].pc = "recordUpload"
        BY <1>1 DEF Operations
    <2>2. \/ op' = [op EXCEPT ![d] = [o EXCEPT !.pc = "relist"]]
          \/ \E head : op' = [op EXCEPT ![d] = [o EXCEPT !.pc = "recordUpload", !.head = head]]
          \/ \E head, then :
                op' = [op EXCEPT ![d] = [o EXCEPT !.pc = "recordUpload", !.head = head, !.then = then]]
        BY <1>12 DEF Post
    <2>3. ASSUME op' = [op EXCEPT ![d] = [o EXCEPT !.pc = "relist"]] PROVE StillThere
        BY <1>1, <1>3, <2>3
    <2>4. ASSUME NEW head, op' = [op EXCEPT ![d] = [o EXCEPT !.pc = "recordUpload", !.head = head]]
          PROVE  StillThere
        BY <2>1, <2>4, Leaves
    <2>5. ASSUME NEW head, NEW then,
                 op' = [op EXCEPT ![d] = [o EXCEPT !.pc = "recordUpload", !.head = head, !.then = then]]
          PROVE  StillThere
        BY <2>1, <2>5, Leaves
    <2> HIDE DEF o
    <2>6. QED
        BY <2>2, <2>3, <2>4, <2>5, Zenon
<1>13. ASSUME Relist(d) \/ Place(d) \/ Adopt(d) PROVE StillThere
    <2>1. \A head, then :
              /\ [o EXCEPT !.pc = "fetch", !.head = head].pc = "fetch"
              /\ [o EXCEPT !.pc = "ack", !.then = then].pc = "ack"
        BY <1>1 DEF Operations
    <2>2. \/ op' = [op EXCEPT ![d] = Failed(o)]
          \/ op' = [op EXCEPT ![d] = Done(o)]
          \/ op' = [op EXCEPT ![d] = [o EXCEPT !.pc = "post"]]
          \/ \E head : op' = [op EXCEPT ![d] = [o EXCEPT !.pc = "fetch", !.head = head]]
          \/ \E then : op' = [op EXCEPT ![d] = [o EXCEPT !.pc = "ack", !.then = then]]
        BY <1>13 DEF Relist, Place, Adopt
    <2>3. ASSUME op' = [op EXCEPT ![d] = Failed(o)] \/ op' = [op EXCEPT ![d] = Done(o)]
          PROVE  StillThere
        BY <1>1, <1>4, <2>3
    <2>4. ASSUME op' = [op EXCEPT ![d] = [o EXCEPT !.pc = "post"]] PROVE StillThere
        BY <1>1, <1>3, <2>4
    <2>5. ASSUME NEW head, op' = [op EXCEPT ![d] = [o EXCEPT !.pc = "fetch", !.head = head]]
          PROVE  StillThere
        BY <2>1, <2>5, Leaves
    <2>6. ASSUME NEW then, op' = [op EXCEPT ![d] = [o EXCEPT !.pc = "ack", !.then = then]]
          PROVE  StillThere
        BY <2>1, <2>6, Leaves
    <2> HIDE DEF o
    <2>7. QED
        BY <2>2, <2>3, <2>4, <2>5, <2>6, Zenon
<1>14. ASSUME Compare(d) \/ Finish(d) PROVE StillThere
    <2>1. \/ op' = [op EXCEPT ![d] = Idle]
          \/ \E pc \in {"adopt", "post"} : op' = [op EXCEPT ![d] = [o EXCEPT !.pc = pc]]
        BY <1>14 DEF Compare, Finish
    <2>2. QED
        BY <1>1, <1>3, <1>5, <2>1
<1>15. ASSUME Plays(d) PROVE StillThere
    <2>1. op' = op \/ op' = [op EXCEPT ![d].stop = TRUE]
        BY <1>15 DEF Plays, StartGame, ExitGame, GameWrites
    <2>2. op' = [op EXCEPT ![d].stop = TRUE] => StillThere
        BY <1>1 DEF StillThere, Operations
    <2>3. QED
        BY <1>2, <2>1, <2>2
<1>16. ASSUME Fails(d) PROVE StillThere
    <2>1. \/ op' = op
          \/ op' = [op EXCEPT ![d] = Idle]
          \/ op' = [op EXCEPT ![d] = Failed(o)]
          \/ op' = [op EXCEPT ![d] = NotTaken(d)]
          \/ \E pc \in {"post", "ack"} : op' = [op EXCEPT ![d] = [o EXCEPT !.pc = pc]]
        BY <1>16 DEF Fails, RequestFails, AnswerLost, PlaceFails, Crash
    <2>2. QED
        BY <1>1, <1>2, <1>3, <1>4, <1>5, <1>6, <2>1
<1>17. QED
    BY <1>7, <1>8, <1>9, <1>10, <1>11, <1>12, <1>13, <1>14, <1>15, <1>16

LEMMA RestKeepsWork ==
    ASSUME WorkInv, StillThere, UNCHANGED <<disk, backups, saves, written, over>>,
           \A d \in Devices :
               game'[d] = game[d] \/ ~game'[d].running \/ game'[d].loaded = disk[d]
    PROVE  WorkInv'
BY QuietKeepsWork DEF StillThere

LEMMA FetchKeepsWork ==
    ASSUME StateInv, WorkInv, NEW d \in Devices, Fetch(d)
    PROVE  WorkInv'
<1> DEFINE o == op[d]
           q == [o EXCEPT !.pc = "place", !.local = saves[o.head.id].content]
<1>1. o \in Operations /\ op \in [Devices -> Operations]
    BY DEF StateInv, TypeOK
<1>2. o.head.id \in 1..Len(saves)
    BY AtPlace DEF Fetch, OperationOK, HasHead
<1>3. UNCHANGED <<disk, backups, game, saves, written, over>>
    BY DEF Fetch, deviceVars, serverVars
<1>4. op' = [op EXCEPT ![d] = Done(o)] \/ op' = [op EXCEPT ![d] = q]
    BY DEF Fetch
<1>5. Done(o).pc = "decide" /\ q.local = saves[o.head.id].content
    BY <1>1, DoneLeaves DEF Operations
<1> HIDE DEF q
<1>6. ASSUME NEW e \in Devices, op'[e].pc = "place"
      PROVE  \/ op[e].pc = "place" /\ op'[e].local = op[e].local
             \/ \E i \in 1..Len(saves) : op'[e].local = saves[i].content
    <2>1. CASE e # d
        BY <1>1, <1>4, <1>6, <2>1
    <2>2. CASE e = d
        <3>1. op'[d] = Done(o) \/ op'[d] = q
            BY <1>1, <1>4
        <3>2. op'[d] = q
            BY <1>5, <1>6, <2>2, <3>1
        <3>3. QED
            BY <1>2, <1>5, <2>2, <3>2
    <2>3. QED
        BY <2>1, <2>2
<1>7. QED
    BY <1>3, <1>6, QuietKeepsWork

\* RomM has one more save, and the user's choice of it may supersede another.
LEMMA CreatesKeepsWork ==
    ASSUME StateInv, WorkInv, NEW d \in Devices, op[d].pc = "post", StillThere,
           Len(saves) < MaxSaves,
           Create(d, op[d].file, disk[d][op[d].file]),
           KeptOver(d, disk[d][op[d].file]),
           UNCHANGED <<deviceVars, shown, written, replaced>>
    PROVE  WorkInv'
<1> DEFINE content == disk[d][op[d].file]
<1>1. op[d].file \in Files /\ content \in 0..MaxContent /\ content # None /\ content <= written
    <2>1. op[d].file \in Files /\ content # None
        BY AtPlace DEF OperationOK, HasFile
    <2>2. QED
        BY <2>1, AtPlace DEF WorkInv, ValuesInv
<1>2. content \in Contents
    BY <1>1, ClockBounds DEF Contents, None
<1>3. /\ Len(saves') = Len(saves) + 1
      /\ \A i \in 1..Len(saves) : saves'[i] = saves[i]
      /\ saves'[Len(saves) + 1].content = content
    BY <1>1, <1>2, CreateTyped
<1>4. over \in [0..MaxContent -> SUBSET Contents]
    BY DEF StateInv, TypeOK
<1>5. \A c \in 0..MaxContent : over[c] \subseteq over'[c]
    BY KeptOverTyped
<1>6. over' = over \/ \E loser : over' = [c \in 0..MaxContent |->
              IF content \in over[c] THEN over[c] \cup over[loser] ELSE over[c]]
    <2>1. DOMAIN over = 0..MaxContent
        BY <1>4
    <2>2. over' = over \/ \E loser : Choose(content, loser)
        BY DEF KeptOver
    <2>3. QED
        BY <2>1, <2>2 DEF Choose
<1> HIDE DEF content
<1>7. over'[None] = {}
    <2>1. over[None] = {} /\ None \in 0..MaxContent
        BY ClockBounds DEF WorkInv, OverInv, None
    <2>2. QED
        BY <1>6, <2>1
<1>8. ASSUME NEW x \in 0..MaxContent, NEW y \in Contents, over[x] \subseteq over[y]
      PROVE  over'[x] \subseteq over'[y]
    <2>1. y \in 0..MaxContent
        BY ClockBounds DEF Contents
    <2>2. QED
        BY <1>6, <1>8, <2>1
<1>9. UNCHANGED <<disk, backups, game, written>>
    BY DEF deviceVars
<1>10. \A e \in Devices : op'[e].pc = "place" => op[e].pc = "place" /\ op'[e].local = op[e].local
    BY DEF StillThere
<1>11. saves'[Len(saves) + 1].content <= written
    BY <1>1, <1>3
<1>12. QED
    BY <1>3, <1>5, <1>7, <1>8, <1>9, <1>10, <1>11, GrowsKeepsWork

LEMMA PlaceKeepsWork ==
    ASSUME StateInv, WorkInv, NEW d \in Devices, Place(d) \/ PlaceFails(d), StillThere
    PROVE  WorkInv'
<1> DEFINE f == op[d].file
<1>1. op[d].pc = "place"
    BY DEF Place, PlaceFails
<1>2. /\ f \in Files /\ op[d].local \in 0..MaxContent
      /\ op[d].local <= written /\ Covered(op[d].local)
    BY <1>1, AtPlace DEF OperationOK, Operations, WorkInv, PlacedInv
<1>3. /\ MoveAside(d, f) /\ UNCHANGED <<game, saves, written, over>>
      /\ disk' = [disk EXCEPT ![d][f] = op[d].local] \/ disk' = [disk EXCEPT ![d][f] = None]
    BY DEF Place, PlaceFails, serverVars
<1>4. \A e \in Devices : op'[e].pc = "place" => op[e].pc = "place" /\ op'[e].local = op[e].local
    BY DEF StillThere
<1> HIDE DEF f
<1>5. CASE disk' = [disk EXCEPT ![d][f] = op[d].local]
    BY <1>2, <1>3, <1>4, <1>5, PlacingKeepsWork
<1>6. CASE disk' = [disk EXCEPT ![d][f] = None]
    <2>1. None \in 0..MaxContent
        BY ClockBounds DEF None
    <2>2. QED
        BY <1>2, <1>3, <1>4, <1>6, <2>1, PlacingKeepsWork
<1>7. QED
    BY <1>3, <1>5, <1>6

LEMMA AcknowledgeKeepsWork ==
    ASSUME StateInv, WorkInv, NEW d \in Devices, Acknowledge(d) \/ AcknowledgeAgain(d)
    PROVE  WorkInv'
<1>1. UNCHANGED <<disk, backups, game, saves, written, over>>
    BY DEF Acknowledge, AcknowledgeAgain, Confirm, deviceVars
<1>2. \A e \in Devices : op'[e].pc = "place" => op[e].pc = "place" /\ op'[e].local = op[e].local
    <2>1. op[d] \in Operations /\ op \in [Devices -> Operations]
        BY DEF StateInv, TypeOK
    <2>2. op[d].then # "none"
        BY AtPlace DEF Acknowledge, AcknowledgeAgain, OperationOK
    <2>3. Acknowledged(op[d]).pc \in {"record", "decide"}
        <3>1. CASE op[d].then = "record"
            <4>1. Acknowledged(op[d]) = [op[d] EXCEPT !.pc = "record"]
                BY <3>1 DEF Acknowledged
            <4>2. QED
                BY <2>1, <4>1 DEF Operations
        <3>2. CASE op[d].then = "recordAdopt"
            <4> DEFINE q == [op[d] EXCEPT !.mem[op[d].file] =
                                [local |-> op[d].local, server |-> op[d].head.content]]
            <4>1. q \in Operations
                <5>1. op[d].local \in 0..MaxContent /\ op[d].head.content \in 0..MaxContent
                    BY <2>1 DEF Operations
                <5>2. QED
                    BY <2>1, <5>1, RecordedTyped
            <4>2. Acknowledged(op[d]) = Done(q)
                BY <3>2 DEF Acknowledged
            <4>3. QED
                BY <4>1, <4>2, DoneLeaves
        <3>3. CASE op[d].then = "done"
            <4>1. Acknowledged(op[d]) = Done(op[d])
                BY <3>3 DEF Acknowledged
            <4>2. QED
                BY <2>1, <4>1, DoneLeaves
        <3>4. QED
            BY <2>1, <2>2, <3>1, <3>2, <3>3 DEF Operations
    <2>4. NotTaken(d).pc \in {"idle", "decide"}
        BY <2>1, DoneLeaves DEF NotTaken
    <2>5. [op[d] EXCEPT !.pc = "ackAgain"].pc = "ackAgain"
        BY <2>1 DEF Operations
    <2>6. PICK q : op' = [op EXCEPT ![d] = q] /\ q.pc # "place"
        BY <2>3, <2>4, <2>5 DEF Acknowledge, AcknowledgeAgain
    <2>7. QED
        BY <2>1, <2>6
<1>3. QED
    BY <1>1, <1>2, QuietKeepsWork

LEMMA WorkStep == StateInv /\ WorkInv /\ [Next]_vars => WorkInv'
<1> SUFFICES ASSUME StateInv, WorkInv, [Next]_vars PROVE WorkInv'
    OBVIOUS
<1>1. ASSUME StillThere, UNCHANGED <<disk, backups, game, saves, written, over>> PROVE WorkInv'
    BY <1>1, RestKeepsWork
<1>2. ASSUME NEW d \in Devices, NEW kind \in Syncs, Start(d, kind) PROVE WorkInv'
    <2>1. StillThere
        BY <1>2, DeviceLeaves
    <2>2. QED
        BY <1>1, <1>2, <2>1 DEF Start, deviceVars, serverVars
<1>3. ASSUME NEW d \in Devices, NEW f \in Files, NEW kind \in Resolutions, Resolve(d, f, kind)
      PROVE  WorkInv'
    <2>1. StillThere
        BY <1>3, DeviceLeaves
    <2>2. QED
        BY <1>1, <1>3, <2>1 DEF Resolve, deviceVars, serverVars
<1>4. ASSUME NEW d \in Devices, Decide(d) \/ Finish(d) \/ Compare(d) \/ RecordUpload(d)
                                \/ Relist(d) \/ Record(d) \/ Adopt(d)
      PROVE  WorkInv'
    <2>1. StillThere
        BY <1>4, DeviceLeaves
    <2>2. UNCHANGED <<disk, backups, game, saves, written, over>>
        BY <1>4 DEF Decide, Finish, Compare, RecordUpload, Relist, Record, Adopt,
                    deviceVars, serverVars
    <2>3. QED
        BY <1>1, <2>1, <2>2
<1>5. ASSUME NEW d \in Devices, Post(d) PROVE WorkInv'
    <2>1. StillThere
        BY <1>5, DeviceLeaves
    <2>2. CASE UNCHANGED <<serverVars, over>>
        BY <1>1, <1>5, <2>1, <2>2 DEF Post, deviceVars, serverVars
    <2>3. CASE /\ Len(saves) < MaxSaves
               /\ Create(d, op[d].file, disk[d][op[d].file])
               /\ KeptOver(d, disk[d][op[d].file])
        <3>1. op[d].pc = "post" /\ UNCHANGED <<deviceVars, shown, written, replaced>>
            BY <1>5 DEF Post, boundVars
        <3>2. QED
            BY <2>1, <2>3, <3>1, CreatesKeepsWork
    <2>4. QED
        BY <1>5, <2>2, <2>3 DEF Post
<1>6. ASSUME NEW d \in Devices, Place(d) \/ PlaceFails(d) PROVE WorkInv'
    <2>1. StillThere
        BY <1>6, DeviceLeaves DEF Fails
    <2>2. QED
        BY <1>6, <2>1, PlaceKeepsWork
<1>7. ASSUME NEW d \in Devices, AnswerLost(d) PROVE WorkInv'
    <2>1. StillThere
        BY <1>7, DeviceLeaves DEF Fails
    <2>2. UNCHANGED <<deviceVars, shown, written, replaced>>
        BY <1>7 DEF AnswerLost
    <2>3. CASE /\ op[d].pc = "post"
               /\ Len(saves) < MaxSaves
               /\ Create(d, op[d].file, disk[d][op[d].file])
               /\ KeptOver(d, disk[d][op[d].file])
        BY <2>1, <2>2, <2>3, CreatesKeepsWork
    <2>4. CASE Confirm(d, op[d].head.id) /\ UNCHANGED over
        BY <1>1, <2>1, <2>2, <2>4 DEF Confirm, deviceVars
    <2>5. QED
        BY <1>7, <2>3, <2>4 DEF AnswerLost
<1>8. ASSUME NEW d \in Devices, RequestFails(d) \/ Crash(d) PROVE WorkInv'
    <2>1. StillThere
        BY <1>8, DeviceLeaves DEF Fails
    <2>2. QED
        BY <1>1, <1>8, <2>1 DEF RequestFails, Crash, deviceVars, serverVars
<1>9. ASSUME NEW d \in Devices, StartGame(d) \/ ExitGame(d) PROVE WorkInv'
    <2>1. StillThere
        BY <1>9, DeviceLeaves DEF Plays
    <2>2. UNCHANGED <<disk, backups, saves, written, over>>
        BY <1>9 DEF StartGame, ExitGame, serverVars
    <2>3. game \in [Devices -> [running : BOOLEAN, loaded : [Files -> 0..MaxContent]]]
        BY DEF StateInv, TypeOK
    <2>4. \A e \in Devices :
              game'[e] = game[e] \/ ~game'[e].running \/ game'[e].loaded = disk[e]
        BY <1>9, <2>3 DEF StartGame, ExitGame, NotRunning
    <2>5. QED
        BY <2>1, <2>2, <2>4, RestKeepsWork
<1>10. CASE UNCHANGED vars
    <2>1. StillThere
        BY <1>10 DEF StillThere, vars
    <2>2. QED
        BY <1>1, <1>10, <2>1 DEF vars, deviceVars, serverVars
<1>11. QED
    <2>1. ASSUME NEW d \in Devices, Step(d) PROVE WorkInv'
        BY <1>4, <1>5, <1>6, <2>1, FetchKeepsWork, AcknowledgeKeepsWork, Zenon DEF Step
    <2>2. ASSUME NEW d \in Devices, Fails(d) PROVE WorkInv'
        BY <1>6, <1>7, <1>8, <2>2, Zenon DEF Fails
    <2>3. ASSUME NEW d \in Devices, Plays(d) PROVE WorkInv'
        BY <1>9, <2>3, GameWritesKeepsWork, Zenon DEF Plays
    <2>4. QED
        BY <1>2, <1>3, <1>10, <2>1, <2>2, <2>3, ReplaceKeepsWork, Zenon DEF Next

(* No content a game or another client wrote is ever gone, whatever fails:   *)
(* a step that takes a file away has put what was there in the backup        *)
(* folder, unless the file was a download under a running game, which RomM   *)
(* has, or the step wrote what supersedes it.                                *)
THEOREM WorkIsKept == Spec => []NoLostWork
<1>1. Init => StateInv /\ WorkInv
    BY StateInit, WorkInit
<1>2. StateInv /\ WorkInv /\ [Next]_vars => (StateInv /\ WorkInv)'
    BY StateStep, WorkStep
<1>3. WorkInv => NoLostWork
    BY DEF WorkInv
<1>4. QED
    BY <1>1, <1>2, <1>3, PTL DEF Spec

-----------------------------------------------------------------------------
(* What is recorded was acknowledged. *)

LEMMA RecordStep ==
    ASSUME StateInv, [Next]_vars, NEW d \in Devices, op'[d].pc = "record", op[d].pc # "record"
    PROVE  rows'[d][op[d].head.id] >= saves[op[d].head.id].upd
<1> DEFINE o == op[d]
           id == o.head.id
<1>1. ~StillThere
    BY DEF StillThere
<1>2. PICK e \in Devices : Fetch(e) \/ Acknowledge(e) \/ AcknowledgeAgain(e)
    <2>1. CASE UNCHANGED vars
        BY <2>1 DEF vars
    <2>2. CASE \E i \in Ids : Replace(i)
        BY <2>2 DEF Replace
    <2>3. CASE \E e \in Devices : \/ Plays(e)
                                  \/ \E kind \in Syncs : Start(e, kind)
                                  \/ \E f \in Files, kind \in Resolutions : Resolve(e, f, kind)
                                  \/ Step(e)
                                  \/ Fails(e)
        BY <1>1, <2>3, DeviceLeaves, Zenon DEF Step
    <2>4. QED
        BY <2>1, <2>2, <2>3 DEF Next
<1>3. e = d
    BY <1>2 DEF Fetch, Acknowledge, AcknowledgeAgain, StateInv, TypeOK
<1>4. o \in Operations /\ op \in [Devices -> Operations]
    BY DEF StateInv, TypeOK
<1>5. ~Fetch(d)
    <2>1. Done(o).pc = "decide" /\ \A local : [o EXCEPT !.pc = "place", !.local = local].pc = "place"
        BY <1>4, DoneLeaves DEF Operations
    <2>2. Fetch(d) => \E q : op'[d] = q /\ q.pc \in {"decide", "place"}
        BY <1>4, <2>1 DEF Fetch
    <2>3. QED
        BY <2>2
<1>6. NotTaken(d).pc # "record"
    BY <1>4, DoneLeaves DEF NotTaken
<1>7. [o EXCEPT !.pc = "ackAgain"].pc # "record"
    BY <1>4 DEF Operations
<1>8. op'[d] \in {NotTaken(d), [o EXCEPT !.pc = "ackAgain"]} \/ rows'[d][id] >= saves[id].upd
    BY <1>2, <1>3, <1>4, <1>5 DEF Acknowledge, AcknowledgeAgain
<1>9. QED
    BY <1>6, <1>7, <1>8

(* A download is recorded only once RomM holds this device current on the    *)
(* save it acknowledged, or the save was changed again after it.             *)
THEOREM RecordsAreAcknowledged == Spec => AcknowledgedIsCurrent
<1>1. StateInv /\ [Next]_vars =>
          [\A d \in Devices :
              op'[d].pc = "record" /\ op[d].pc # "record" =>
                  rows'[d][op[d].head.id] >= saves[op[d].head.id].upd]_vars
    BY RecordStep
<1>2. QED
    BY StateInit, StateStep, <1>1, PTL DEF Spec, AcknowledgedIsCurrent

-----------------------------------------------------------------------------
(* How an operation goes on: it ends, or keeps its kind and its file. *)

\* It records the save in hand, if anything.
Remembers(o, q) ==
    \/ q.mem = o.mem
    \/ /\ o.pc \notin {"post", "relist"}
       /\ \E local : q.mem = [o.mem EXCEPT ![o.file] = [local |-> local, server |-> o.head.content]]

Follows(o, q) ==
    \/ q = Idle
    \/ /\ o.pc # "idle" /\ q.pc # "idle"
       /\ q.kind = o.kind /\ q.stop = o.stop /\ q.file = o.file
       /\ q.listed = o.listed /\ q.probed = o.probed
       /\ q.todo = IF q.pc = "decide" THEN o.todo \ {o.file} ELSE o.todo
       /\ Remembers(o, q)

LEMMA DoneFollows ==
    ASSUME NEW o \in Operations, NEW p \in Operations, o.pc # "idle",
           p.kind = o.kind, p.stop = o.stop, p.file = o.file, p.todo = o.todo,
           p.listed = o.listed, p.probed = o.probed, Remembers(o, p)
    PROVE  Follows(o, Done(p)) /\ Follows(o, Failed(p))
<1>1. /\ Done(p).pc = "decide" /\ Done(p).kind = p.kind /\ Done(p).stop = p.stop
      /\ Done(p).file = p.file /\ Done(p).todo = p.todo \ {p.file}
      /\ Done(p).listed = p.listed /\ Done(p).probed = p.probed /\ Done(p).mem = p.mem
    BY DEF Done, Operations
<1>2. Follows(o, Done(p))
    BY <1>1 DEF Follows, Remembers
<1>3. QED
    BY <1>2 DEF Failed, Follows

LEMMA NotTakenFollows ==
    ASSUME NEW d, op[d] \in Operations, op[d].pc # "idle"
    PROVE  Follows(op[d], NotTaken(d))
BY DoneFollows DEF NotTaken, Remembers

\* A baseline recorded leaves the rest.
LEMMA RecordedFollows ==
    ASSUME NEW o \in Operations, NEW local \in 0..MaxContent,
           o.pc \notin {"idle", "post", "relist"}
    PROVE  LET p == [o EXCEPT !.mem[o.file] = [local |-> local, server |-> o.head.content]]
           IN  /\ p \in Operations /\ Follows(o, Done(p)) /\ Remembers(o, p)
               /\ p.kind = o.kind /\ p.stop = o.stop /\ p.file = o.file /\ p.todo = o.todo
               /\ p.listed = o.listed /\ p.probed = o.probed /\ p.then = o.then /\ p.head = o.head
<1> DEFINE p == [o EXCEPT !.mem[o.file] = [local |-> local, server |-> o.head.content]]
<1>1. o.head.content \in 0..MaxContent
    BY DEF Operations
<1>2. p \in Operations
    BY <1>1, RecordedTyped
<1>3. /\ p.kind = o.kind /\ p.stop = o.stop /\ p.file = o.file /\ p.todo = o.todo
      /\ p.listed = o.listed /\ p.probed = o.probed /\ p.then = o.then /\ p.head = o.head
      /\ p.mem = [o.mem EXCEPT ![o.file] = [local |-> local, server |-> o.head.content]]
    BY DEF Operations
<1> HIDE DEF p
<1>4. Remembers(o, p)
    BY <1>3 DEF Remembers
<1>5. Follows(o, Done(p))
    BY <1>2, <1>3, <1>4, DoneFollows
<1> USE DEF p
<1>6. QED
    BY <1>2, <1>3, <1>4, <1>5

LEMMA AcknowledgedFollows ==
    ASSUME NEW o \in Operations, o.pc \in {"ack", "ackAgain"}, o.then # "none"
    PROVE  Follows(o, Acknowledged(o))
<1>1. CASE o.then = "record"
    <2>1. Acknowledged(o) = [o EXCEPT !.pc = "record"]
        BY <1>1 DEF Acknowledged
    <2>2. QED
        BY <2>1 DEF Operations, Follows, Remembers
<1>2. CASE o.then = "recordAdopt"
    <2>1. Acknowledged(o) = Done([o EXCEPT !.mem[o.file] =
                                [local |-> o.local, server |-> o.head.content]])
        BY <1>2 DEF Acknowledged
    <2>2. o.local \in 0..MaxContent
        BY DEF Operations
    <2>3. QED
        BY <2>1, <2>2, RecordedFollows
<1>3. CASE o.then = "done"
    BY <1>3, DoneFollows DEF Acknowledged, Remembers
<1>4. QED
    BY <1>1, <1>2, <1>3 DEF Operations

\* Where a transfer goes on to.
LEMMA MovesFollow ==
    ASSUME NEW o \in Operations, o.pc # "idle",
           NEW pc \in {"adopt", "post", "recordUpload", "relist", "fetch", "place",
                       "ack", "ackAgain", "record"},
           NEW local, NEW head, NEW then
    PROVE  /\ Follows(o, [o EXCEPT !.pc = pc])
           /\ Follows(o, [o EXCEPT !.pc = pc, !.local = local])
           /\ Follows(o, [o EXCEPT !.pc = pc, !.head = head])
           /\ Follows(o, [o EXCEPT !.pc = pc, !.then = then])
           /\ Follows(o, [o EXCEPT !.pc = pc, !.head = head, !.then = then])
<1>1. Follows(o, [o EXCEPT !.pc = pc])
    BY DEF Operations, Follows, Remembers
<1>2. Follows(o, [o EXCEPT !.pc = pc, !.local = local])
    BY DEF Operations, Follows, Remembers
<1>3. Follows(o, [o EXCEPT !.pc = pc, !.head = head])
    BY DEF Operations, Follows, Remembers
<1>4. Follows(o, [o EXCEPT !.pc = pc, !.then = then])
    BY DEF Operations, Follows, Remembers
<1>5. Follows(o, [o EXCEPT !.pc = pc, !.head = head, !.then = then])
    BY DEF Operations, Follows, Remembers
<1>6. QED
    BY <1>1, <1>2, <1>3, <1>4, <1>5

\* What a transfer or a failure makes of the operation.
LEMMA StepFollows ==
    ASSUME StateInv, NEW d \in Devices,
           \/ Compare(d) \/ Post(d) \/ RecordUpload(d) \/ Relist(d)
           \/ Fetch(d) \/ Place(d) \/ Record(d)
           \/ Adopt(d) \/ Acknowledge(d) \/ AcknowledgeAgain(d)
           \/ Fails(d)
    PROVE  \E q : Follows(op[d], q) /\ op' = [op EXCEPT ![d] = q]
<1> DEFINE o == op[d]
<1>1. o \in Operations /\ op \in [Devices -> Operations] /\ op = [op EXCEPT ![d] = o]
    BY DEF StateInv, TypeOK
<1>2. o.pc # "idle"
    BY DEF Compare, Post, RecordUpload, Relist, Fetch, Place, Record,
           Adopt, Acknowledge, AcknowledgeAgain, Fails, RequestFails, AnswerLost, PlaceFails, Crash
<1>3. Follows(o, Done(o)) /\ Follows(o, Failed(o)) /\ Follows(o, NotTaken(d)) /\ Follows(o, Idle)
    BY <1>1, <1>2, DoneFollows, NotTakenFollows DEF Follows, Remembers
<1>4. CASE Compare(d)
    <2>1. PICK pc \in {"adopt", "post"} : op' = [op EXCEPT ![d] = [o EXCEPT !.pc = pc]]
        BY <1>4 DEF Compare
    <2>2. QED
        BY <1>1, <1>2, <2>1, MovesFollow
<1>5. CASE Post(d)
    <2>1. CASE op' = [op EXCEPT ![d] = [o EXCEPT !.pc = "relist"]]
        BY <1>1, <1>2, <2>1, MovesFollow
    <2>2. ASSUME NEW head, NEW then,
                 op' = [op EXCEPT ![d] = [o EXCEPT !.pc = "recordUpload", !.head = head, !.then = then]]
          PROVE  \E q : Follows(o, q) /\ op' = [op EXCEPT ![d] = q]
        BY <1>1, <1>2, <2>2, MovesFollow
    <2>3. ASSUME NEW head, op' = [op EXCEPT ![d] = [o EXCEPT !.pc = "recordUpload", !.head = head]]
          PROVE  \E q : Follows(o, q) /\ op' = [op EXCEPT ![d] = q]
        BY <1>1, <1>2, <2>3, MovesFollow
    <2> HIDE DEF o
    <2>4. \/ op' = [op EXCEPT ![d] = [o EXCEPT !.pc = "relist"]]
          \/ \E head, then :
                op' = [op EXCEPT ![d] = [o EXCEPT !.pc = "recordUpload", !.head = head, !.then = then]]
          \/ \E head : op' = [op EXCEPT ![d] = [o EXCEPT !.pc = "recordUpload", !.head = head]]
        BY <1>5 DEF Post, o
    <2>5. QED
        BY <2>1, <2>2, <2>3, <2>4 DEF o
<1>6. CASE RecordUpload(d)
    <2> DEFINE p == [o EXCEPT !.mem[o.file] = [local |-> disk[d][o.file], server |-> o.head.content]]
    <2>1. o.file \in Files
        BY <1>6, AtPlace DEF RecordUpload, OperationOK
    <2>2. disk[d][o.file] \in 0..MaxContent /\ o.pc = "recordUpload"
        BY <1>6, <2>1, AtPlace DEF RecordUpload
    <2>3. /\ p \in Operations /\ Follows(o, Done(p)) /\ Remembers(o, p)
          /\ p.kind = o.kind /\ p.stop = o.stop /\ p.file = o.file /\ p.todo = o.todo
          /\ p.listed = o.listed /\ p.probed = o.probed
        <3> HIDE DEF o
        <3>1. QED
            BY <1>1, <1>2, <2>2, RecordedFollows
    <2>4. \/ op' = [op EXCEPT ![d] = Done(p)]
          \/ op' = [op EXCEPT ![d] = [p EXCEPT !.pc = "ack", !.local = o.head.content]]
        BY <1>6 DEF RecordUpload
    <2> HIDE DEF p
    <2>5. Follows(o, [p EXCEPT !.pc = "ack", !.local = o.head.content])
        BY <1>2, <2>3 DEF Follows, Remembers, Operations
    <2>6. QED
        BY <2>3, <2>4, <2>5
<1>7. CASE Relist(d)
    <2>1. \/ op' = [op EXCEPT ![d] = Failed(o)]
          \/ op' = [op EXCEPT ![d] = Done(o)]
          \/ \E head : op' = [op EXCEPT ![d] = [o EXCEPT !.pc = "fetch", !.head = head]]
        BY <1>7 DEF Relist
    <2>2. QED
        BY <1>1, <1>2, <1>3, <2>1, MovesFollow
<1>8. CASE Fetch(d)
    <2>1. \/ op' = [op EXCEPT ![d] = Done(o)]
          \/ op' = [op EXCEPT ![d] = [o EXCEPT !.pc = "place", !.local = saves[o.head.id].content]]
        BY <1>8 DEF Fetch
    <2>2. QED
        BY <1>1, <1>2, <1>3, <2>1, MovesFollow
<1>9. CASE Place(d)
    BY <1>1, <1>2, <1>9, MovesFollow DEF Place
<1>10. CASE Record(d)
    <2>1. o.file \in Files
        BY <1>10, AtPlace DEF Record, OperationOK
    <2>2. disk[d][o.file] \in 0..MaxContent /\ o.pc = "record"
        BY <1>10, <2>1, AtPlace DEF Record
    <2>3. QED
        BY <1>1, <1>2, <1>10, <2>2, RecordedFollows DEF Record
<1>11. CASE Adopt(d)
    <2>1. \/ op' = [op EXCEPT ![d] = Done(o)]
          \/ op' = [op EXCEPT ![d] = [o EXCEPT !.pc = "post"]]
          \/ op' = [op EXCEPT ![d] = [o EXCEPT !.pc = "ack", !.then = "recordAdopt"]]
        BY <1>11 DEF Adopt
    <2>2. QED
        BY <1>1, <1>2, <1>3, <2>1, MovesFollow
<1>12. CASE Acknowledge(d) \/ AcknowledgeAgain(d)
    <2>1. o.pc \in {"ack", "ackAgain"} /\ o.then # "none"
        BY <1>12, AtPlace DEF Acknowledge, AcknowledgeAgain, OperationOK
    <2>2. \/ op' = [op EXCEPT ![d] = Acknowledged(o)]
          \/ op' = [op EXCEPT ![d] = NotTaken(d)]
          \/ op' = [op EXCEPT ![d] = [o EXCEPT !.pc = "ackAgain"]]
        BY <1>12 DEF Acknowledge, AcknowledgeAgain
    <2>3. QED
        BY <1>1, <1>2, <1>3, <2>1, <2>2, AcknowledgedFollows, MovesFollow
<1>13. CASE Fails(d)
    <2>1. \/ op' = op /\ o.pc = "post"
          \/ op' = [op EXCEPT ![d] = Idle]
          \/ op' = [op EXCEPT ![d] = Failed(o)]
          \/ op' = [op EXCEPT ![d] = NotTaken(d)]
          \/ \E pc \in {"post", "ack"} : op' = [op EXCEPT ![d] = [o EXCEPT !.pc = pc]]
        BY <1>13 DEF Fails, RequestFails, AnswerLost, PlaceFails, Crash
    <2>2. o.pc = "post" => Follows(o, o)
        BY DEF Follows, Remembers
    <2>3. QED
        BY <1>1, <1>2, <1>3, <2>1, <2>2, MovesFollow
<1>14. QED
    BY <1>4, <1>5, <1>6, <1>7, <1>8, <1>9, <1>10, <1>11, <1>12, <1>13

\* What they make of the files: one of them changes, at most.
LEMMA StepPlaces ==
    ASSUME NEW d \in Devices,
           \/ Compare(d) \/ Post(d) \/ RecordUpload(d) \/ Relist(d)
           \/ Fetch(d) \/ Place(d) \/ Record(d)
           \/ Adopt(d) \/ Acknowledge(d) \/ AcknowledgeAgain(d)
           \/ Fails(d)
    PROVE  /\ op[d].pc # "idle" /\ game' = game
           /\ \/ disk' = disk
              \/ \E c : disk' = [disk EXCEPT ![d][op[d].file] = c]
BY DEF Compare, Post, RecordUpload, Relist, Fetch, Place, Record, Adopt, Acknowledge, AcknowledgeAgain,
       Fails, RequestFails, AnswerLost, PlaceFails, Crash, deviceVars

-----------------------------------------------------------------------------
(* At most one file changes under a game that did not wait for the sync. *)

Differs(d, f) == disk[d][f] # game[d].loaded[f]

\* Under a running game an operation works on one file, and on the one that may
\* have changed: a resolution has no other, a sync was asked to stop.
AfterStart(d) ==
    game[d].running =>
        /\ \A f, g \in Files : Differs(d, f) /\ Differs(d, g) => f = g
        /\ op[d].pc # "idle" =>
              /\ op[d].kind \in Resolutions \/ op[d].stop
              /\ \A f \in Files : Differs(d, f) => f = op[d].file

\* An operation under way is of some kind, and a resolution has one file.
KindOf(o) ==
    o.pc # "idle" =>
        /\ o.kind \in Syncs \cup Resolutions
        /\ o.kind \in Resolutions => o.todo \subseteq {o.file} /\ (o.pc = "decide" => o.todo = {})

StartInv == \A d \in Devices : AfterStart(d) /\ KindOf(op[d])

LEMMA StartInit == Init => StartInv
BY DEF Init, StartInv, AfterStart, KindOf, Idle, NotRunning

\* A step of one device.
LEMMA OneDevice ==
    ASSUME StateInv, StartInv, NEW d \in Devices,
           \A e \in Devices \ {d} : disk'[e] = disk[e] /\ game'[e] = game[e] /\ op'[e] = op[e],
           AfterStart(d)', KindOf(op'[d])
    PROVE  StartInv'
BY DEF StartInv, AfterStart, KindOf, Differs

LEMMA FollowsKind ==
    ASSUME NEW o, NEW q, Follows(o, q), KindOf(o)
    PROVE  KindOf(q)
<1>1. CASE q = Idle
    BY <1>1 DEF KindOf, Idle
<1>2. CASE q # Idle
    BY <1>2 DEF Follows, KindOf
<1>3. QED
    BY <1>1, <1>2

LEMMA StepStarts ==
    ASSUME StateInv, StartInv, NEW d \in Devices,
           \/ Compare(d) \/ Post(d) \/ RecordUpload(d) \/ Relist(d)
           \/ Fetch(d) \/ Place(d) \/ Record(d)
           \/ Adopt(d) \/ Acknowledge(d) \/ AcknowledgeAgain(d)
           \/ Fails(d)
    PROVE  StartInv'
<1>1. /\ op \in [Devices -> Operations]
      /\ disk \in [Devices -> [Files -> 0..MaxContent]]
    BY DEF StateInv, TypeOK
<1>2. PICK q : Follows(op[d], q) /\ op' = [op EXCEPT ![d] = q]
    BY StepFollows
<1>3. /\ op[d].pc # "idle" /\ game' = game
      /\ \/ disk' = disk
         \/ \E c : disk' = [disk EXCEPT ![d][op[d].file] = c]
    BY StepPlaces
<1>4. op'[d] = q /\ \A e \in Devices \ {d} : disk'[e] = disk[e] /\ op'[e] = op[e]
    BY <1>1, <1>2, <1>3
<1>5. \A f \in Files : f # op[d].file => disk'[d][f] = disk[d][f]
    BY <1>1, <1>3
<1>6. KindOf(op'[d])
    BY <1>2, <1>4, FollowsKind DEF StartInv
<1>7. ASSUME game'[d].running PROVE AfterStart(d)'
    <2>1. /\ op[d].kind \in Resolutions \/ op[d].stop
          /\ \A f \in Files : Differs(d, f) => f = op[d].file
        BY <1>3, <1>7 DEF StartInv, AfterStart
    <2>2. \A f \in Files : Differs(d, f)' => f = op[d].file
        BY <1>3, <1>5, <2>1 DEF Differs
    <2>3. q.pc = "idle" \/ (q.kind = op[d].kind /\ q.stop = op[d].stop /\ q.file = op[d].file)
        BY <1>2 DEF Follows, Idle
    <2>4. QED
        BY <1>4, <2>1, <2>2, <2>3 DEF AfterStart
<1>8. AfterStart(d)'
    BY <1>7 DEF AfterStart
<1>9. QED
    BY <1>3, <1>4, <1>6, <1>8, OneDevice

\* What a decision comes to, with the newest of the file's listed saves in hand.
Decides(d, f, local, head) ==
    LET o == [op[d] EXCEPT !.file = f]
        listed == Group(o.listed, f) # {}
        at(pc) == [o EXCEPT !.pc = pc, !.local = local, !.head = head]
    IN  /\ local = IF f \in o.probed THEN disk[d][f] ELSE None
        /\ listed => head = Named(Newest(Group(o.listed, f)))
        /\ \/ /\ op' = [op EXCEPT ![d] = Done(o)]
              /\ shown' = shown \/ (listed /\ shown' = [shown EXCEPT ![d][f] = head.id])
           \/ /\ op' = [op EXCEPT ![d] = Done([o EXCEPT
                            !.mem[f] = [local |-> local, server |-> head.content]])]
              /\ listed /\ local = head.content /\ UNCHANGED shown
           \/ /\ op' = [op EXCEPT ![d] = at("adopt")]
              /\ listed /\ local # None /\ Identical(local, o.mem[f], head) /\ UNCHANGED shown
           \/ /\ op' = [op EXCEPT ![d] = at("post")]
              /\ local # None /\ UNCHANGED shown
           \/ /\ op' = [op EXCEPT ![d] = at("fetch")]
              /\ listed /\ local \in {None, o.mem[f].local} /\ UNCHANGED shown

LEMMA DecideOutcome ==
    ASSUME StateInv, NEW d \in Devices, Decide(d)
    PROVE  \E f \in op[d].todo, local \in 0..MaxContent,
              head \in [id : 0..MaxSaves, content : 0..MaxContent] : Decides(d, f, local, head)
<1>1. op[d] \in Operations /\ OperationOK(op[d], disk[d], Len(saves)) /\ op[d].pc = "decide"
    BY DEF StateInv, TypeOK, Decide
<1>2. PICK f \in op[d].todo :
        LET o == [op[d] EXCEPT !.file = f]
            local == IF f \in o.probed THEN disk[d][f] ELSE None
            group == Group(o.listed, f)
            head == IF group = {} THEN NoSave ELSE Named(Newest(group))
            decision == Decision(local, group, o.mem[f], Truncated)
            at(pc) == [o EXCEPT !.pc = pc, !.local = local, !.head = head]
        IN  /\ shown' = IF decision = "conflict" THEN [shown EXCEPT ![d][f] = head.id] ELSE shown
            /\ op' = [op EXCEPT ![d] =
                  CASE decision \in {"skip", "conflict"} -> Done(o)
                    [] decision = "record" -> Done([o EXCEPT
                          !.mem[f] = [local |-> local, server |-> head.content]])
                    [] decision = "adopt" -> at("adopt")
                    [] decision = "upload" -> at("post")
                    [] decision = "download" -> at("fetch")]
    BY DEF Decide
<1> DEFINE o == [op[d] EXCEPT !.file = f]
           local == IF f \in o.probed THEN disk[d][f] ELSE None
           group == Group(o.listed, f)
           head == IF group = {} THEN NoSave ELSE Named(Newest(group))
           decision == Decision(local, group, o.mem[f], Truncated)
           at(pc) == [o EXCEPT !.pc = pc, !.local = local, !.head = head]
<1>3. f \in Files /\ o.listed = op[d].listed /\ o.listed \subseteq Listed
    BY <1>1 DEF Operations
<1>4. local \in 0..MaxContent /\ local = IF f \in o.probed THEN disk[d][f] ELSE None
    BY <1>3, SaveAssumption DEF StateInv, TypeOK, None
<1>5. head \in [id : 0..MaxSaves, content : 0..MaxContent]
    BY <1>3, NewestListed, SaveAssumption DEF NoSave, None, Ids, Contents
<1>6. group # {} => head = Named(Newest(group)) /\ head.content = Newest(group).content
                    /\ Newest(group).current \in BOOLEAN
    BY <1>3, NewestListed DEF Named, Listed
<1> HIDE DEF group, local, o, head
<1>7. /\ decision \in {"skip", "conflict", "record", "adopt", "upload", "download"}
      /\ decision \in {"conflict", "record", "adopt", "download"} => group # {}
      /\ decision = "record" => local = head.content
      /\ decision = "adopt" => local # None /\ Identical(local, o.mem[f], head)
      /\ decision = "upload" => local # None
      /\ decision = "download" => local \in {None, o.mem[f].local}
    BY <1>6 DEF Decision, Identical
<1> HIDE DEF decision
<1>8. /\ shown' = IF decision = "conflict" THEN [shown EXCEPT ![d][f] = head.id] ELSE shown
      /\ op' = [op EXCEPT ![d] =
            CASE decision \in {"skip", "conflict"} -> Done(o)
              [] decision = "record" -> Done([o EXCEPT
                    !.mem[f] = [local |-> local, server |-> head.content]])
              [] decision = "adopt" -> at("adopt")
              [] decision = "upload" -> at("post")
              [] decision = "download" -> at("fetch")]
    BY <1>2 DEF group, local, o, head, decision
<1>9. /\ local = IF f \in o.probed THEN disk[d][f] ELSE None
      /\ group # {} => head = Named(Newest(group))
      /\ \/ /\ op' = [op EXCEPT ![d] = Done(o)]
            /\ shown' = shown \/ (group # {} /\ shown' = [shown EXCEPT ![d][f] = head.id])
         \/ /\ op' = [op EXCEPT ![d] = Done([o EXCEPT
                          !.mem[f] = [local |-> local, server |-> head.content]])]
            /\ group # {} /\ local = head.content /\ UNCHANGED shown
         \/ /\ op' = [op EXCEPT ![d] = at("adopt")]
            /\ group # {} /\ local # None /\ Identical(local, o.mem[f], head) /\ UNCHANGED shown
         \/ /\ op' = [op EXCEPT ![d] = at("post")]
            /\ local # None /\ UNCHANGED shown
         \/ /\ op' = [op EXCEPT ![d] = at("fetch")]
            /\ group # {} /\ local \in {None, o.mem[f].local} /\ UNCHANGED shown
    <2>1. CASE decision = "skip"
        <3>1. op' = [op EXCEPT ![d] = Done(o)] /\ shown' = shown
            BY <1>8, <2>1
        <3>2. QED
            BY <1>4, <1>6, <3>1
    <2>2. CASE decision = "conflict"
        BY <1>4, <1>6, <1>7, <1>8, <2>2
    <2>3. CASE decision = "record"
        BY <1>4, <1>6, <1>7, <1>8, <2>3
    <2>4. CASE decision = "adopt"
        BY <1>4, <1>6, <1>7, <1>8, <2>4
    <2>5. CASE decision = "upload"
        BY <1>4, <1>6, <1>7, <1>8, <2>5
    <2>6. CASE decision = "download"
        BY <1>4, <1>6, <1>7, <1>8, <2>6
    <2>7. QED
        BY <1>7, <2>1, <2>2, <2>3, <2>4, <2>5, <2>6
<1>10. Decides(d, f, local, head)
    BY <1>9 DEF Decides, o, group
<1>11. QED
    BY <1>4, <1>5, <1>10

\* It takes up a file.
LEMMA DecideFollows ==
    ASSUME StateInv, NEW d \in Devices, NEW f \in op[d].todo, op[d].pc = "decide",
           NEW local \in 0..MaxContent, NEW head \in [id : 0..MaxSaves, content : 0..MaxContent],
           Decides(d, f, local, head)
    PROVE  \E q : /\ Follows([op[d] EXCEPT !.file = f, !.head = head], q)
                  /\ op' = [op EXCEPT ![d] = q]
                  /\ q.mem = op[d].mem \/ Group(op[d].listed, f) # {}
<1> DEFINE o == [op[d] EXCEPT !.file = f]
           t == [op[d] EXCEPT !.file = f, !.head = head]
           p == [o EXCEPT !.mem[f] = [local |-> local, server |-> head.content]]
           pt == [t EXCEPT !.mem[f] = [local |-> local, server |-> head.content]]
           at(pc) == [o EXCEPT !.pc = pc, !.local = local, !.head = head]
<1>1. /\ op[d] \in Operations /\ f \in Files
      /\ o \in Operations /\ t \in Operations /\ t.pc = "decide" /\ t.file = f /\ t.head = head
      /\ t.mem = op[d].mem /\ o.listed = op[d].listed
    <2>1. op[d] \in Operations
        BY DEF StateInv, TypeOK
    <2>2. QED
        BY <2>1 DEF Operations
<1>2. Done(o) = Done(t) /\ Done(p) = Done(pt) /\ Done(o).mem = op[d].mem
    BY <1>1 DEF Done, Operations
<1>3. \A pc \in {"adopt", "post", "fetch"} :
          /\ at(pc).pc = pc /\ at(pc).kind = t.kind /\ at(pc).stop = t.stop /\ at(pc).file = t.file
          /\ at(pc).todo = t.todo /\ at(pc).listed = t.listed /\ at(pc).probed = t.probed
          /\ at(pc).mem = t.mem
    BY <1>1 DEF Operations
<1>4. \/ op' = [op EXCEPT ![d] = Done(o)]
      \/ op' = [op EXCEPT ![d] = Done(p)] /\ Group(o.listed, f) # {}
      \/ \E pc \in {"adopt", "post", "fetch"} : op' = [op EXCEPT ![d] = at(pc)]
    BY DEF Decides
<1>5. t.head.content = head.content
    BY <1>1
<1> HIDE DEF o, p, at
<1>6. Follows(t, Done(t)) /\ Follows(t, Done(pt))
    <2> HIDE DEF t
    <2>1. Follows(t, Done(t))
        BY <1>1, DoneFollows DEF Remembers
    <2>2. Follows(t, Done([t EXCEPT !.mem[t.file] = [local |-> local, server |-> t.head.content]]))
        BY <1>1, RecordedFollows
    <2>3. QED
        BY <1>1, <1>5, <2>1, <2>2
<1>7. ASSUME NEW pc \in {"adopt", "post", "fetch"} PROVE Follows(t, at(pc)) /\ at(pc).mem = op[d].mem
    BY <1>1, <1>3 DEF Follows, Remembers
<1> HIDE DEF t, pt
<1>8. \E q : Follows(t, q) /\ op' = [op EXCEPT ![d] = q]
             /\ (q.mem = op[d].mem \/ Group(op[d].listed, f) # {})
    BY <1>1, <1>2, <1>4, <1>6, <1>7
<1>9. QED
    BY <1>8 DEF t

\* A sync under a running game was asked to stop before its next file.
LEMMA DecideStarts ==
    ASSUME StateInv, StartInv, NEW d \in Devices, Decide(d)
    PROVE  StartInv'
<1>1. op[d] \in Operations /\ op \in [Devices -> Operations] /\ op[d].pc = "decide" /\ ~op[d].stop
    BY DEF StateInv, TypeOK, Decide
<1>2. PICK f \in op[d].todo, local \in 0..MaxContent,
           head \in [id : 0..MaxSaves, content : 0..MaxContent] : Decides(d, f, local, head)
    BY DecideOutcome
<1> DEFINE t == [op[d] EXCEPT !.file = f, !.head = head]
<1>3. PICK q : Follows(t, q) /\ op' = [op EXCEPT ![d] = q]
    BY <1>1, <1>2, DecideFollows
<1>4. op[d].kind \notin Resolutions /\ op[d].kind \in Syncs /\ ~game[d].running
    BY <1>1 DEF StartInv, AfterStart, KindOf
<1>5. t.kind = op[d].kind
    BY <1>1 DEF Operations
<1> HIDE DEF t
<1>6. KindOf(q)
    BY <1>3, <1>4, <1>5 DEF Follows, KindOf, Idle
<1>7. op'[d] = q /\ UNCHANGED <<disk, game>> /\ \A e \in Devices \ {d} : op'[e] = op[e]
    BY <1>1, <1>3 DEF Decide, deviceVars
<1>8. AfterStart(d)'
    BY <1>4, <1>7 DEF AfterStart
<1>9. QED
    BY <1>6, <1>7, <1>8, OneDevice

\* A start finds the files as it loads them, and asks the sync to stop.
LEMMA StartGameStarts ==
    ASSUME StateInv, StartInv, NEW d \in Devices, StartGame(d),
           PlayAnyway => "postExit" \notin Syncs
    PROVE  StartInv'
<1>1. /\ op \in [Devices -> Operations] /\ op[d] \in Operations
      /\ game \in [Devices -> [running : BOOLEAN, loaded : [Files -> 0..MaxContent]]]
    BY DEF StateInv, TypeOK
<1>2. /\ op[d].pc = "idle" \/ PlayAnyway
      /\ game' = [game EXCEPT ![d] = [running |-> TRUE, loaded |-> disk[d]]]
      /\ op' = IF op[d].kind = "preLaunch" THEN [op EXCEPT ![d] = [op[d] EXCEPT !.stop = TRUE]] ELSE op
      /\ disk' = disk
    BY DEF StartGame
<1>3. /\ op'[d].pc = op[d].pc /\ op'[d].kind = op[d].kind
      /\ op'[d].todo = op[d].todo /\ op'[d].file = op[d].file
      /\ op[d].kind = "preLaunch" => op'[d].stop
      /\ \A e \in Devices \ {d} : op'[e] = op[e]
    BY <1>1, <1>2 DEF Operations
<1>4. \A e \in Devices \ {d} : game'[e] = game[e]
    BY <1>1, <1>2
<1>5. \A f \in Files : ~Differs(d, f)'
    BY <1>1, <1>2 DEF Differs
<1>6. op[d].pc # "idle" => op[d].kind \in Resolutions \/ op[d].kind = "preLaunch"
    BY <1>2, SaveAssumption DEF StartInv, KindOf
<1>7. AfterStart(d)'
    BY <1>3, <1>5, <1>6 DEF AfterStart
<1>8. KindOf(op'[d])
    BY <1>3 DEF StartInv, KindOf
<1>9. QED
    BY <1>2, <1>3, <1>4, <1>7, <1>8, OneDevice

\* What the game writes it has loaded.
LEMMA GameWritesStarts ==
    ASSUME StateInv, StartInv, NEW d \in Devices, NEW f \in Files, GameWrites(d, f)
    PROVE  StartInv'
<1>1. /\ disk' = [disk EXCEPT ![d][f] = written + 1]
      /\ game' = [game EXCEPT ![d].loaded[f] = written + 1]
      /\ op' = op
    BY DEF GameWrites
<1>2. /\ game \in [Devices -> [running : BOOLEAN, loaded : [Files -> 0..MaxContent]]]
      /\ disk \in [Devices -> [Files -> 0..MaxContent]]
    BY DEF StateInv, TypeOK
<1>3. \A g \in Files : Differs(d, g)' => Differs(d, g)
    BY <1>1, <1>2 DEF Differs
<1>4. game'[d].running = game[d].running
      /\ \A e \in Devices \ {d} : game'[e] = game[e] /\ disk'[e] = disk[e]
    BY <1>1, <1>2
<1>5. AfterStart(d)'
    BY <1>1, <1>3, <1>4 DEF StartInv, AfterStart
<1>6. KindOf(op'[d])
    BY <1>1 DEF StartInv
<1>7. QED
    BY <1>1, <1>4, <1>5, <1>6, OneDevice

\* What begins begins beside no game.
LEMMA BeginStarts ==
    ASSUME StateInv, StartInv, NEW d \in Devices,
           \/ \E kind \in Syncs : Start(d, kind)
           \/ \E f \in Files, kind \in Resolutions : Resolve(d, f, kind)
           \/ Finish(d) \/ ExitGame(d)
    PROVE  StartInv'
<1>1. op \in [Devices -> Operations] /\ op[d] \in Operations
      /\ game \in [Devices -> [running : BOOLEAN, loaded : [Files -> 0..MaxContent]]]
    BY DEF StateInv, TypeOK
<1>2. Syncs \cap Resolutions = {}
    BY SaveAssumption DEF Resolutions
<1>3. CASE \E kind \in Syncs : Start(d, kind)
    <2>1. PICK kind \in Syncs : Start(d, kind)
        BY <1>3
    <2> DEFINE q == [Idle EXCEPT
                        !.pc = "decide", !.kind = kind, !.mem = base[d],
                        !.listed = Listing(saves, rows[d]),
                        !.probed = {f \in Files : disk[d][f] # None},
                        !.todo = {f \in Files : disk[d][f] # None}
                                    \cup {s.file : s \in Listing(saves, rows[d])}]
    <2>2. op' = [op EXCEPT ![d] = q]
        BY <2>1 DEF Start
    <2>3. q.kind = kind
        BY DEF Idle
    <2> HIDE DEF q
    <2>4. KindOf(op'[d]) /\ \A e \in Devices \ {d} : op'[e] = op[e]
        BY <1>1, <1>2, <2>2, <2>3 DEF KindOf
    <2>5. UNCHANGED <<disk, game>> /\ ~game[d].running
        BY <2>1 DEF Start, deviceVars
    <2>6. QED
        BY <2>4, <2>5, OneDevice DEF AfterStart
<1>4. CASE \E f \in Files, kind \in Resolutions : Resolve(d, f, kind)
    <2>1. PICK f \in Files, kind \in Resolutions : Resolve(d, f, kind)
        BY <1>4
    <2> DEFINE o == [Idle EXCEPT !.kind = kind, !.mem = base[d], !.file = f, !.todo = {f},
                        !.head = [id |-> SlotHead(saves), content |-> saves[SlotHead(saves)].content]]
               fetches == [o EXCEPT !.pc = "fetch"]
               compares == [o EXCEPT !.pc = "compare", !.local = disk[d][f]]
    <2>2. op' = op \/ op' = [op EXCEPT ![d] = fetches] \/ op' = [op EXCEPT ![d] = compares]
        BY <2>1 DEF Resolve
    <2>3. /\ fetches.kind = kind /\ fetches.file = f /\ fetches.todo = {f} /\ fetches.pc = "fetch"
          /\ compares.kind = kind /\ compares.file = f /\ compares.todo = {f} /\ compares.pc = "compare"
        BY DEF Idle
    <2> HIDE DEF fetches, compares
    <2>4. KindOf(fetches) /\ KindOf(compares)
        BY <2>3 DEF KindOf
    <2>5. KindOf(op'[d]) /\ \A e \in Devices \ {d} : op'[e] = op[e]
        BY <1>1, <2>2, <2>4 DEF StartInv
    <2>6. UNCHANGED <<disk, game>> /\ ~game[d].running
        BY <2>1 DEF Resolve, deviceVars
    <2>7. QED
        BY <2>5, <2>6, OneDevice DEF AfterStart
<1>5. CASE Finish(d)
    <2>1. op'[d].pc = "idle" /\ UNCHANGED <<disk, game>> /\ \A e \in Devices \ {d} : op'[e] = op[e]
        BY <1>1, <1>5 DEF Finish, Idle
    <2>2. AfterStart(d)' /\ KindOf(op'[d])
        BY <2>1 DEF AfterStart, KindOf, StartInv, Differs
    <2>3. QED
        BY <2>1, <2>2, OneDevice
<1>6. CASE ExitGame(d)
    <2>1. /\ ~game'[d].running /\ UNCHANGED <<disk, op>>
          /\ \A e \in Devices \ {d} : game'[e] = game[e]
        BY <1>1, <1>6 DEF ExitGame, NotRunning
    <2>2. AfterStart(d)' /\ KindOf(op'[d])
        BY <2>1 DEF AfterStart, StartInv
    <2>3. QED
        BY <2>1, <2>2, OneDevice
<1>7. QED
    BY <1>3, <1>4, <1>5, <1>6

LEMMA StartStep ==
    ASSUME PlayAnyway => "postExit" \notin Syncs
    PROVE  StateInv /\ StartInv /\ [Next]_vars => StartInv'
<1> SUFFICES ASSUME StateInv, StartInv, [Next]_vars PROVE StartInv'
    OBVIOUS
<1>1. ASSUME NEW d \in Devices, Plays(d) PROVE StartInv'
    BY <1>1, StartGameStarts, GameWritesStarts, BeginStarts DEF Plays
<1>2. ASSUME NEW d \in Devices, Step(d) PROVE StartInv'
    BY <1>2, DecideStarts, BeginStarts, StepStarts DEF Step
<1>3. ASSUME NEW d \in Devices, Fails(d) PROVE StartInv'
    BY <1>3, StepStarts
<1>4. ASSUME NEW id \in Ids, Replace(id) PROVE StartInv'
    BY <1>4 DEF Replace, deviceVars, StartInv, AfterStart, KindOf, Differs
<1>5. CASE UNCHANGED vars
    BY <1>5 DEF vars, deviceVars, StartInv, AfterStart, KindOf, Differs
<1>6. QED
    BY <1>1, <1>2, <1>3, <1>4, <1>5, BeginStarts DEF Next

(* A start stops the sync it did not wait for: at most the file whose        *)
(* placing had begun changes under the game that loaded it, whatever fails.  *)
(* A sync after the game is not asked to stop: with one the promise is made  *)
(* where no game starts beside it.                                           *)
THEOREM OneFileChanges ==
    ASSUME PlayAnyway => "postExit" \notin Syncs
    PROVE  Spec => []OneFileAfterStart
<1>1. Init => StateInv /\ StartInv
    BY StateInit, StartInit
<1>2. StateInv /\ StartInv /\ [Next]_vars => (StateInv /\ StartInv)'
    BY StateStep, StartStep
<1>3. StartInv => OneFileAfterStart
    BY DEF StartInv, AfterStart, Differs, OneFileAfterStart
<1>4. QED
    BY <1>1, <1>2, <1>3, PTL DEF Spec

-----------------------------------------------------------------------------
(* Where RomM holds a device current, the device has the save. *)

\* Without replaced saves the ids are in the order of the changes, and a row
\* names its save's.
OrderInv ==
    /\ \A i \in 1..Len(saves) : saves[i].upd = i
    /\ \A d \in Devices, i \in Ids :
          rows[d][i] \in {0, i} /\ (i > Len(saves) => rows[d][i] = 0)

\* A content is of one file.
OwnerInv ==
    /\ \A i, j \in 1..Len(saves) : saves[i].content = saves[j].content => saves[i].file = saves[j].file
    /\ \A d \in Devices, f \in Files, i \in 1..Len(saves) :
          disk[d][f] = saves[i].content => saves[i].file = f
    /\ \A d, e \in Devices, f, g \in Files : disk[d][f] = disk[e][g] /\ disk[d][f] # None => f = g

\* A game runs beside no operation, on the files it loaded.
CalmInv == \A d \in Devices : game[d].running => op[d].pc = "idle" /\ \A f \in Files : ~Differs(d, f)

\* A conflict was shown against a save of its file.
ShownInv ==
    \A d \in Devices, f \in Files :
        shown[d][f] \in Ids => shown[d][f] \in 1..Len(saves) /\ saves[shown[d][f]].file = f

\* A baseline's two sides agree.
Even(m) == \A f \in Files : m[f].local = m[f].server

EvenInv == \A d \in Devices : Even(base[d]) /\ Even(op[d].mem)

\* The device with these rows is current on no save of the file after the i-th.
NoneAfter(held, row, f, i) == \A j \in 1..Len(held) : held[j].file = f /\ j > i => row[j] = 0

\* The listing tells of its saves what RomM holds, and of each file not yet
\* dispatched every save the device is current on.
ListedOK(o, held, row) ==
    /\ \A s \in o.listed :
          s.id \in 1..Len(held) /\ s.upd = s.id
          /\ s.content = held[s.id].content /\ s.file = held[s.id].file
    /\ \A f \in o.todo : o.pc = "decide" \/ (o.pc # "idle" /\ f # o.file) =>
          \A j \in 1..Len(held) : held[j].file = f /\ row[j] # 0 => \E s \in o.listed : s.id = j

\* The save in hand is of the file, and the device has what was made of it.
InHand == {"compare", "adopt", "recordUpload", "fetch", "place", "ack", "ackAgain", "record"}

HandOK(o, files, held, row) ==
    o.pc \in InHand =>
        /\ o.head.id \in 1..Len(held)
        /\ held[o.head.id].file = o.file /\ held[o.head.id].content = o.head.content
        /\ o.pc \in {"adopt", "place", "ack", "ackAgain"} => o.local = o.head.content
        /\ o.pc \in {"recordUpload", "ack", "ackAgain", "record"} => files[o.file] = o.head.content
        /\ o.pc \in {"fetch", "place"} => NoneAfter(held, row, o.file, o.head.id)

HandInv ==
    \A d \in Devices : ListedOK(op[d], saves, rows[d]) /\ HandOK(op[d], disk[d], saves, rows[d])

\* The newest save of the file, if the device is current on it, is on the device
\* or what is there was played on from it.
HeldOf(d, f) ==
    \A i \in 1..Len(saves) :
        /\ saves[i].file = f /\ rows[d][i] # 0
        /\ \A j \in 1..Len(saves) : saves[j].file = f => j <= i
        => disk[d][f] # None /\ saves[i].content \in over[disk[d][f]]

HeldInv == \A d \in Devices, f \in Files : HeldOf(d, f)

CurrentInv == OrderInv /\ OwnerInv /\ CalmInv /\ ShownInv /\ EvenInv /\ HandInv /\ HeldInv

LEMMA CurrentInit ==
    ASSUME MaxReplaced = 0, Init
    PROVE  CurrentInv
<1> USE SaveAssumption
<1>1. /\ disk = [d \in Devices |-> [f \in Files |-> None]]
      /\ base = [d \in Devices |-> [f \in Files |-> NoBaseline]]
      /\ saves = <<>> /\ rows = [d \in Devices |-> [i \in Ids |-> 0]]
      /\ \A d \in Devices : op[d] = Idle /\ ~game[d].running /\ \A f \in Files : shown[d][f] = 0
    BY DEF Init, NotRunning
<1>2. Len(saves) = 0 /\ 1..Len(saves) = {}
    BY <1>1
<1>3. OrderInv
    BY <1>1, <1>2 DEF OrderInv
<1>4. OwnerInv
    BY <1>1, <1>2 DEF OwnerInv
<1>5. CalmInv /\ ShownInv
    BY <1>1 DEF CalmInv, ShownInv, Ids
<1>6. EvenInv
    BY <1>1 DEF EvenInv, Even, Idle, NoBaseline
<1>7. HandInv
    BY <1>1 DEF HandInv, ListedOK, HandOK, InHand, Idle
<1>8. HeldInv
    BY <1>2 DEF HeldInv, HeldOf
<1>9. QED
    BY <1>3, <1>4, <1>5, <1>6, <1>7, <1>8 DEF CurrentInv

-----------------------------------------------------------------------------
(* An operation and what it has in hand, as they go on. *)

LEMMA FollowsListed ==
    ASSUME NEW o, NEW q, NEW held, NEW row, Follows(o, q), ListedOK(o, held, row)
    PROVE  ListedOK(q, held, row)
<1>1. CASE q = Idle
    BY <1>1 DEF ListedOK, Idle
<1>2. CASE q # Idle
    BY <1>2 DEF Follows, ListedOK
<1>3. QED
    BY <1>1, <1>2

\* RomM comes to hold more saves, this device current on none of them.
LEMMA HandStays ==
    ASSUME NEW o, NEW files, NEW held, NEW more, NEW row,
           Len(held) \in Nat, Len(more) \in Nat, Len(held) <= Len(more),
           \A i \in 1..Len(held) : more[i] = held[i],
           \A j \in 1..Len(more) : j > Len(held) => row[j] = 0,
           ListedOK(o, held, row), HandOK(o, files, held, row)
    PROVE  ListedOK(o, more, row) /\ HandOK(o, files, more, row)
<1>1. \A j \in 1..Len(more) : row[j] # 0 => j \in 1..Len(held)
    OBVIOUS
<1>2. \A i \in 1..Len(held) : i \in 1..Len(more)
    OBVIOUS
<1>3. ListedOK(o, more, row)
    BY <1>1, <1>2 DEF ListedOK
<1>4. \A f, i : NoneAfter(held, row, f, i) => NoneAfter(more, row, f, i)
    BY <1>1 DEF NoneAfter
<1>5. HandOK(o, files, more, row)
    BY <1>2, <1>4 DEF HandOK
<1>6. QED
    BY <1>3, <1>5

\* The device comes to be current on a save of the file it works on.
LEMMA ListedGrows ==
    ASSUME NEW o, NEW held, NEW more, NEW row, NEW later,
           Len(held) \in Nat, Len(more) \in Nat, Len(held) <= Len(more),
           \A i \in 1..Len(held) : more[i] = held[i],
           \A j \in 1..Len(more) : later[j] # 0 /\ more[j].file # o.file =>
               j \in 1..Len(held) /\ row[j] # 0,
           o.pc # "decide", ListedOK(o, held, row)
    PROVE  ListedOK(o, more, later)
<1>1. \A i \in 1..Len(held) : i \in 1..Len(more)
    OBVIOUS
<1>2. QED
    BY <1>1 DEF ListedOK

\* Nothing in hand, or as it was.
Settled(o, q) == q.pc \notin InHand /\ (Even(o.mem) => Even(q.mem))

LEMMA DoneSettled ==
    ASSUME NEW o \in Operations
    PROVE  Settled(o, Done(o)) /\ Settled(o, Failed(o)) /\ Settled(o, Idle)
<1>1. Done(o).pc = "decide" /\ Done(o).mem = o.mem
    BY DEF Done, Operations
<1>2. Settled(o, Done(o))
    BY <1>1 DEF Settled, InHand
<1>3. Settled(o, Idle)
    BY DEF Settled, InHand, Idle, Even, NoBaseline
<1>4. QED
    BY <1>2, <1>3 DEF Failed

LEMMA NotTakenSettled ==
    ASSUME NEW d, op[d] \in Operations
    PROVE  Settled(op[d], NotTaken(d))
BY DoneSettled DEF NotTaken

\* A baseline both of whose sides are one content.
LEMMA RecordedEven ==
    ASSUME NEW o \in Operations, NEW f, NEW c \in 0..MaxContent
    PROVE  LET p == [o EXCEPT !.mem[f] = [local |-> c, server |-> c]]
           IN  (Even(o.mem) => Even(p.mem)) /\ Settled(o, Done(p))
<1> DEFINE p == [o EXCEPT !.mem[f] = [local |-> c, server |-> c]]
<1>1. p \in Operations
    BY RecordedTyped
<1>2. p.mem = [o.mem EXCEPT ![f] = [local |-> c, server |-> c]] /\ o.mem \in Baselines
    BY DEF Operations
<1>3. Even(o.mem) => Even(p.mem)
    BY <1>2 DEF Even, Baselines
<1> HIDE DEF p
<1>4. Settled(p, Done(p))
    BY <1>1, DoneSettled
<1> USE DEF p
<1>5. QED
    BY <1>3, <1>4 DEF Settled

\* What RomM and the device have in hand while an operation works on no file.
LEMMA QuietCurrent ==
    ASSUME StateInv, CurrentInv, NEW d \in Devices, NEW q, ~game[d].running,
           op' = [op EXCEPT ![d] = q],
           UNCHANGED <<disk, game, saves, rows, over>>,
           ShownInv', \A e \in Devices : Even(base'[e]), Even(q.mem),
           ListedOK(q, saves, rows[d]), HandOK(q, disk[d], saves, rows[d])
    PROVE  CurrentInv'
<1>1. op \in [Devices -> Operations]
    BY DEF StateInv, TypeOK
<1>2. op'[d] = q /\ \A e \in Devices \ {d} : op'[e] = op[e]
    BY <1>1
<1>3. OrderInv' /\ OwnerInv'
    BY DEF CurrentInv, OrderInv, OwnerInv
<1>4. CalmInv'
    BY <1>2 DEF CurrentInv, CalmInv, Differs
<1>5. EvenInv'
    BY <1>2 DEF CurrentInv, EvenInv
<1>6. HandInv'
    BY <1>2 DEF CurrentInv, HandInv
<1>7. HeldInv'
    BY DEF CurrentInv, HeldInv, HeldOf
<1>8. QED
    BY <1>3, <1>4, <1>5, <1>6, <1>7 DEF CurrentInv

\* At a place of an operation.
LEMMA InPlace ==
    ASSUME StateInv, CurrentInv, NEW d \in Devices
    PROVE  /\ ListedOK(op[d], saves, rows[d]) /\ HandOK(op[d], disk[d], saves, rows[d])
           /\ Even(op[d].mem) /\ Even(base[d])
           /\ op[d].pc # "idle" => ~game[d].running
           /\ op[d] \in Operations
BY AtPlace DEF CurrentInv, HandInv, EvenInv, CalmInv

\* A step of a transfer that leaves what RomM and the device have.
LEMMA TransferCurrent ==
    ASSUME StateInv, CurrentInv, NEW d \in Devices,
           \/ Compare(d) \/ Post(d) \/ RecordUpload(d) \/ Relist(d)
           \/ Fetch(d) \/ Record(d) \/ Adopt(d) \/ Fails(d),
           UNCHANGED <<disk, base, game, saves, rows, over>>, ShownInv',
           NEW q, op' = [op EXCEPT ![d] = q],
           Even(op[d].mem) => Even(q.mem), HandOK(q, disk[d], saves, rows[d])
    PROVE  CurrentInv'
<1>1. op \in [Devices -> Operations]
    BY DEF StateInv, TypeOK
<1>2. PICK p : Follows(op[d], p) /\ op' = [op EXCEPT ![d] = p]
    BY StepFollows
<1>3. p = q
    BY <1>1, <1>2
<1>4. op[d].pc # "idle"
    BY StepPlaces
<1>5. ListedOK(q, saves, rows[d])
    BY <1>2, <1>3, FollowsListed, InPlace
<1>6. /\ ~game[d].running /\ Even(q.mem)
      /\ \A e \in Devices : Even(base'[e])
    BY <1>4, InPlace
<1>7. QED
    BY <1>5, <1>6, QuietCurrent

LEMMA SettledHand ==
    ASSUME NEW o, NEW q, NEW files, NEW held, NEW row, Settled(o, q)
    PROVE  (Even(o.mem) => Even(q.mem)) /\ HandOK(q, files, held, row)
BY DEF Settled, HandOK

LEMMA ShownStays ==
    ASSUME CurrentInv, UNCHANGED <<shown, saves>>
    PROVE  ShownInv'
BY DEF CurrentInv, ShownInv

\* Moving on with the same save in hand.
LEMMA CompareCurrent ==
    ASSUME StateInv, CurrentInv, NEW d \in Devices, Compare(d)
    PROVE  CurrentInv'
<1> DEFINE o == op[d]
<1>1. o.pc = "compare" /\ UNCHANGED <<disk, base, game, saves, rows, over, shown>>
    BY DEF Compare, deviceVars, serverVars
<1>2. o \in Operations /\ HandOK(o, disk[d], saves, rows[d])
    BY InPlace
<1>3. PICK pc \in {"adopt", "post"} :
          /\ op' = [op EXCEPT ![d] = [o EXCEPT !.pc = pc]]
          /\ pc = "adopt" => saves[o.head.id].content = o.local
    BY DEF Compare
<1> DEFINE q == [o EXCEPT !.pc = pc]
<1>4. /\ q.pc = pc /\ q.head = o.head /\ q.local = o.local /\ q.file = o.file /\ q.mem = o.mem
    BY <1>2 DEF Operations
<1> HIDE DEF q
<1>5. HandOK(q, disk[d], saves, rows[d])
    BY <1>1, <1>2, <1>3, <1>4 DEF HandOK, InHand
<1>6. op' = [op EXCEPT ![d] = q]
    BY <1>3 DEF q
<1>7. ShownInv'
    BY <1>1, ShownStays
<1>8. QED
    BY <1>1, <1>4, <1>5, <1>6, <1>7, TransferCurrent

LEMMA FetchCurrent ==
    ASSUME StateInv, CurrentInv, NEW d \in Devices, Fetch(d)
    PROVE  CurrentInv'
<1> DEFINE o == op[d]
           q == [o EXCEPT !.pc = "place", !.local = saves[o.head.id].content]
<1>1. o.pc = "fetch" /\ UNCHANGED <<disk, base, game, saves, rows, over, shown>>
    BY DEF Fetch, deviceVars, serverVars
<1>2. o \in Operations /\ HandOK(o, disk[d], saves, rows[d])
    BY InPlace
<1>3. ShownInv'
    BY <1>1, ShownStays
<1>4. /\ q.pc = "place" /\ q.head = o.head /\ q.local = saves[o.head.id].content
      /\ q.file = o.file /\ q.mem = o.mem
    BY <1>2 DEF Operations
<1>5. op' = [op EXCEPT ![d] = q] \/ op' = [op EXCEPT ![d] = Done(o)]
    BY DEF Fetch
<1> HIDE DEF q
<1>6. HandOK(q, disk[d], saves, rows[d])
    BY <1>1, <1>2, <1>4 DEF HandOK, InHand
<1>7. CASE op' = [op EXCEPT ![d] = q]
    BY <1>1, <1>3, <1>4, <1>6, <1>7, TransferCurrent
<1>8. CASE op' = [op EXCEPT ![d] = Done(o)]
    BY <1>1, <1>2, <1>3, <1>8, DoneSettled, SettledHand, TransferCurrent
<1>9. QED
    BY <1>5, <1>7, <1>8

LEMMA AdoptCurrent ==
    ASSUME StateInv, CurrentInv, NEW d \in Devices, Adopt(d)
    PROVE  CurrentInv'
<1> DEFINE o == op[d]
           q == [o EXCEPT !.pc = "ack", !.then = "recordAdopt"]
           p == [o EXCEPT !.pc = "post"]
<1>1. o.pc = "adopt" /\ UNCHANGED <<disk, base, game, saves, rows, over, shown>>
    BY DEF Adopt, deviceVars, serverVars
<1>2. o \in Operations /\ HandOK(o, disk[d], saves, rows[d])
    BY InPlace
<1>3. ShownInv'
    BY <1>1, ShownStays
<1>4. /\ q.pc = "ack" /\ q.head = o.head /\ q.local = o.local /\ q.file = o.file /\ q.mem = o.mem
      /\ p.pc = "post" /\ p.mem = o.mem
    BY <1>2 DEF Operations
<1>5. \/ op' = [op EXCEPT ![d] = q] /\ disk[d][o.file] = o.local
      \/ op' = [op EXCEPT ![d] = p]
      \/ op' = [op EXCEPT ![d] = Done(o)]
    BY DEF Adopt
<1> HIDE DEF q, p
<1>6. disk[d][o.file] = o.local => HandOK(q, disk[d], saves, rows[d])
    BY <1>1, <1>2, <1>4 DEF HandOK, InHand
<1>7. HandOK(p, disk[d], saves, rows[d])
    BY <1>4 DEF HandOK, InHand
<1>8. CASE op' = [op EXCEPT ![d] = q] /\ disk[d][o.file] = o.local
    BY <1>1, <1>3, <1>4, <1>6, <1>8, TransferCurrent
<1>9. CASE op' = [op EXCEPT ![d] = p]
    BY <1>1, <1>3, <1>4, <1>7, <1>9, TransferCurrent
<1>10. CASE op' = [op EXCEPT ![d] = Done(o)]
    BY <1>1, <1>2, <1>3, <1>10, DoneSettled, SettledHand, TransferCurrent
<1>11. QED
    BY <1>5, <1>8, <1>9, <1>10

LEMMA RecordCurrent ==
    ASSUME StateInv, CurrentInv, NEW d \in Devices, Record(d)
    PROVE  CurrentInv'
<1> DEFINE o == op[d]
           c == o.head.content
<1>1. o.pc = "record" /\ UNCHANGED <<disk, base, game, saves, rows, over, shown>>
    BY DEF Record, deviceVars, serverVars
<1>2. o \in Operations /\ HandOK(o, disk[d], saves, rows[d])
    BY InPlace
<1>3. disk[d][o.file] = c /\ c \in 0..MaxContent
    BY <1>1, <1>2 DEF HandOK, InHand, Operations
<1>4. op' = [op EXCEPT ![d] = Done([o EXCEPT !.mem[o.file] = [local |-> c, server |-> c]])]
    BY <1>3 DEF Record
<1>5. ShownInv'
    BY <1>1, ShownStays
<1> HIDE DEF c
<1>6. Settled(o, Done([o EXCEPT !.mem[o.file] = [local |-> c, server |-> c]]))
    BY <1>2, <1>3, RecordedEven
<1>7. QED
    BY <1>1, <1>4, <1>5, <1>6, SettledHand, TransferCurrent

LEMMA RecordUploadCurrent ==
    ASSUME StateInv, CurrentInv, NEW d \in Devices, RecordUpload(d)
    PROVE  CurrentInv'
<1> DEFINE o == op[d]
           c == o.head.content
           p == [o EXCEPT !.mem[o.file] = [local |-> c, server |-> c]]
           q == [p EXCEPT !.pc = "ack", !.local = c]
<1>1. o.pc = "recordUpload" /\ UNCHANGED <<disk, base, game, saves, rows, over, shown>>
    BY DEF RecordUpload, deviceVars, serverVars
<1>2. o \in Operations /\ HandOK(o, disk[d], saves, rows[d])
    BY InPlace
<1>3. disk[d][o.file] = c /\ c \in 0..MaxContent
    BY <1>1, <1>2 DEF HandOK, InHand, Operations
<1>4. op' = [op EXCEPT ![d] = Done(p)] \/ op' = [op EXCEPT ![d] = q]
    BY <1>3 DEF RecordUpload
<1>5. ShownInv'
    BY <1>1, ShownStays
<1>6. /\ p \in Operations /\ p.file = o.file /\ p.head = o.head
      /\ Even(o.mem) => Even(p.mem)
      /\ Settled(o, Done(p))
    <2> HIDE DEF c, o
    <2>1. p \in Operations /\ p.file = o.file /\ p.head = o.head
        BY <1>2, <1>3, RecordedTyped
    <2>2. (Even(o.mem) => Even(p.mem)) /\ Settled(o, Done(p))
        BY <1>2, <1>3, RecordedEven
    <2>3. QED
        BY <2>1, <2>2
<1> HIDE DEF p
<1>7. /\ q.pc = "ack" /\ q.head = o.head /\ q.local = c /\ q.file = o.file /\ q.mem = p.mem
    BY <1>6 DEF Operations
<1> HIDE DEF q
<1>8. HandOK(q, disk[d], saves, rows[d])
    BY <1>1, <1>2, <1>3, <1>7 DEF HandOK, InHand
<1>9. CASE op' = [op EXCEPT ![d] = Done(p)]
    BY <1>1, <1>5, <1>6, <1>9, SettledHand, TransferCurrent
<1>10. CASE op' = [op EXCEPT ![d] = q]
    BY <1>1, <1>5, <1>6, <1>7, <1>8, <1>10, TransferCurrent
<1>11. QED
    BY <1>4, <1>9, <1>10

\* A request that fails, or a crash.
LEMMA FailsCurrent ==
    ASSUME StateInv, CurrentInv, NEW d \in Devices, RequestFails(d) \/ Crash(d)
    PROVE  CurrentInv'
<1> DEFINE o == op[d]
           p == [o EXCEPT !.pc = "post"]
<1>1. UNCHANGED <<disk, base, game, saves, rows, over, shown>> /\ Fails(d)
    BY DEF RequestFails, Crash, deviceVars, serverVars, Fails
<1>2. o \in Operations
    BY InPlace
<1>3. ShownInv'
    BY <1>1, ShownStays
<1>4. p.pc = "post" /\ p.mem = o.mem
    BY <1>2 DEF Operations
<1>5. Settled(o, p) /\ Settled(o, Failed(o)) /\ Settled(o, NotTaken(d)) /\ Settled(o, Idle)
    BY <1>2, <1>4, DoneSettled, NotTakenSettled DEF Settled, InHand
<1>6. \E q \in {p, Failed(o), NotTaken(d), Idle} : op' = [op EXCEPT ![d] = q]
    BY DEF RequestFails, Crash
<1> HIDE DEF p
<1>7. QED
    BY <1>1, <1>3, <1>5, <1>6, SettledHand, TransferCurrent

\* The newest of a file's listed saves is among them, and the last to change.
LEMMA NewestIsLast ==
    ASSUME NEW listed, listed \subseteq Listed, NEW f, Group(listed, f) # {}
    PROVE  LET newest == Newest(Group(listed, f))
           IN  newest \in Group(listed, f) /\ \A s \in Group(listed, f) : s.upd <= newest.upd
<1> DEFINE group == Group(listed, f)
           T == {s.upd : s \in group}
<1>1. \A s \in group : s.upd \in 0..MaxClock
    BY ClockBounds DEF Group, Listed
<1>2. group # {} /\ T \subseteq 0..MaxClock /\ T # {}
    BY <1>1
<1>3. PICK x \in T : \A y \in T : y <= x
    <2> HIDE DEF T
    <2>1. QED
        BY <1>2, ClockBounds, BoundedMax
<1>4. \E s \in group : \A t \in group : t.upd <= s.upd
    BY <1>3
<1> HIDE DEF group
<1>5. Newest(group) \in group /\ \A s \in group : s.upd <= Newest(group).upd
    BY <1>4 DEF Newest
<1>6. QED
    BY <1>5 DEF group

\* It is RomM's, and no later one of the file that the listing does not tell of
\* is one the device is current on.
LEMMA NewestInHand ==
    ASSUME NEW listed, listed \subseteq Listed, NEW f, NEW held, NEW row, Len(held) \in Nat,
           Group(listed, f) # {},
           \A s \in listed : s.id \in 1..Len(held) /\ s.upd = s.id
                             /\ s.content = held[s.id].content /\ s.file = held[s.id].file,
           \A j \in 1..Len(held) : held[j].file = f /\ row[j] # 0 => \E s \in listed : s.id = j
    PROVE  LET head == Named(Newest(Group(listed, f)))
           IN  /\ head.id \in 1..Len(held)
               /\ held[head.id].file = f /\ held[head.id].content = head.content
               /\ NoneAfter(held, row, f, head.id)
<1> DEFINE group == Group(listed, f)
           newest == Newest(group)
<1>1. \A s \in group : s \in listed /\ s.file = f
    BY DEF Group
<1>2. newest \in group /\ \A s \in group : s.upd <= newest.upd
    BY NewestIsLast
<1>3. Named(newest).id = newest.id /\ Named(newest).content = newest.content
    BY DEF Named
<1>4. /\ newest.id \in 1..Len(held) /\ newest.upd = newest.id
      /\ held[newest.id].file = f /\ held[newest.id].content = newest.content
    BY <1>1, <1>2
<1>5. NoneAfter(held, row, f, newest.id)
    <2> SUFFICES ASSUME NEW j \in 1..Len(held), held[j].file = f, j > newest.id, row[j] # 0
                 PROVE  FALSE
        BY DEF NoneAfter
    <2>1. PICK s \in listed : s.id = j
        OBVIOUS
    <2>2. s \in group /\ s.upd = j
        BY <2>1 DEF Group
    <2>3. j <= newest.id
        BY <1>2, <1>4, <2>2
    <2>4. QED
        BY <1>4, <2>3
<1> HIDE DEF group, newest
<1>6. QED
    BY <1>3, <1>4, <1>5 DEF group, newest

LEMMA DecideCurrent ==
    ASSUME StateInv, CurrentInv, NEW d \in Devices, Decide(d)
    PROVE  CurrentInv'
<1>1. /\ op[d].pc = "decide" /\ UNCHANGED <<disk, base, game, saves, rows, over>>
      /\ op[d] \in Operations /\ op[d].todo \subseteq Files
    BY InPlace DEF Decide, deviceVars, serverVars, Operations
<1>2. PICK f \in op[d].todo, local \in 0..MaxContent,
           head \in [id : 0..MaxSaves, content : 0..MaxContent] : Decides(d, f, local, head)
    BY DecideOutcome
<1> DEFINE o == [op[d] EXCEPT !.file = f]
           t == [op[d] EXCEPT !.file = f, !.head = head]
           at(pc) == [o EXCEPT !.pc = pc, !.local = local, !.head = head]
           p == [o EXCEPT !.mem[f] = [local |-> local, server |-> head.content]]
           listed == Group(op[d].listed, f) # {}
<1>3. /\ o \in Operations /\ o.pc = "decide" /\ o.file = f /\ f \in Files
      /\ o.listed = op[d].listed /\ o.mem = op[d].mem /\ o.todo = op[d].todo
      /\ o.listed \subseteq Listed
      /\ t.pc = "decide" /\ t.listed = op[d].listed /\ t.todo = op[d].todo
    BY <1>1 DEF Operations
<1> HIDE DEF o, t
<1>4. ListedOK(o, saves, rows[d]) /\ Even(o.mem) /\ ~game[d].running
    BY <1>1, <1>3, InPlace DEF ListedOK
<1>5. listed => /\ head.id \in 1..Len(saves)
                /\ saves[head.id].file = f /\ saves[head.id].content = head.content
                /\ NoneAfter(saves, rows[d], f, head.id)
    <2> SUFFICES ASSUME listed PROVE /\ head.id \in 1..Len(saves)
                /\ saves[head.id].file = f /\ saves[head.id].content = head.content
                /\ NoneAfter(saves, rows[d], f, head.id)
        OBVIOUS
    <2>1. head = Named(Newest(Group(o.listed, f)))
        BY <1>2, <1>3 DEF Decides, o
    <2>2. \A s \in o.listed : s.id \in 1..Len(saves) /\ s.upd = s.id
                             /\ s.content = saves[s.id].content /\ s.file = saves[s.id].file
        BY <1>4 DEF ListedOK
    <2>3. \A j \in 1..Len(saves) : saves[j].file = f /\ rows[d][j] # 0 => \E s \in o.listed : s.id = j
        BY <1>2, <1>3, <1>4 DEF ListedOK
    <2>4. Group(o.listed, f) # {} /\ Len(saves) \in Nat /\ o.listed \subseteq Listed
        BY <1>3, AtPlace
    <2> DEFINE newest == Named(Newest(Group(o.listed, f)))
    <2>5. /\ newest.id \in 1..Len(saves)
          /\ saves[newest.id].file = f /\ saves[newest.id].content = newest.content
          /\ NoneAfter(saves, rows[d], f, newest.id)
        <3> HIDE DEF listed, at, p
        <3>1. QED
            BY <2>2, <2>3, <2>4, NewestInHand
    <2>6. QED
        BY <2>1, <2>5
<1>6. PICK q : Follows(t, q) /\ op' = [op EXCEPT ![d] = q]
    BY <1>1, <1>2, DecideFollows DEF t
<1>7. ListedOK(q, saves, rows[d]) /\ op'[d] = q
    <2>1. ListedOK(t, saves, rows[d])
        BY <1>3, <1>4 DEF ListedOK
    <2>2. QED
        BY <1>6, <2>1, FollowsListed DEF StateInv, TypeOK
<1>8. op' = [op EXCEPT ![d] = op'[d]]
    BY <1>6, <1>7
<1>9. \/ /\ op'[d] = Done(o)
         /\ shown' = shown \/ (listed /\ shown' = [shown EXCEPT ![d][f] = head.id])
      \/ op'[d] = Done(p) /\ local = head.content /\ UNCHANGED shown
      \/ op'[d] = at("adopt") /\ listed /\ Identical(local, o.mem[f], head) /\ UNCHANGED shown
      \/ op'[d] = at("post") /\ UNCHANGED shown
      \/ op'[d] = at("fetch") /\ listed /\ UNCHANGED shown
    BY <1>2, <1>3 DEF Decides, StateInv, TypeOK, o
<1>10. ShownInv'
    <2>1. CASE shown' = shown
        BY <1>1, <2>1, ShownStays
    <2>2. CASE listed /\ shown' = [shown EXCEPT ![d][f] = head.id]
        <3>1. shown \in [Devices -> [Files -> 0..Refused]]
            BY DEF StateInv, TypeOK
        <3>2. \A e \in Devices, g \in Files :
                  shown'[e][g] = IF e = d /\ g = f THEN head.id ELSE shown[e][g]
            BY <2>2, <3>1
        <3>3. QED
            BY <1>1, <1>5, <2>2, <3>2 DEF CurrentInv, ShownInv
    <2>3. QED
        BY <1>9, <2>1, <2>2
<1>11. \A pc \in {"adopt", "post", "fetch"} :
           at(pc).pc = pc /\ at(pc).file = f /\ at(pc).local = local /\ at(pc).head = head
           /\ at(pc).mem = o.mem
    BY <1>3 DEF Operations
<1>12. Even(op'[d].mem) /\ HandOK(op'[d], disk[d], saves, rows[d])
    <2>1. CASE op'[d] = Done(o)
        BY <1>3, <1>4, <2>1, DoneSettled, SettledHand
    <2>2. CASE op'[d] = Done(p) /\ local = head.content
        <3>1. p = [o EXCEPT !.mem[f] = [local |-> local, server |-> local]]
            BY <2>2
        <3> HIDE DEF p
        <3>2. Settled(o, Done(p))
            BY <1>3, <3>1, RecordedEven
        <3>3. QED
            BY <1>4, <2>2, <3>2, SettledHand
    <2>3. CASE op'[d] = at("adopt") /\ listed /\ Identical(local, o.mem[f], head)
        <3>1. local = head.content
            BY <1>3, <1>4, <2>3 DEF Identical, Even
        <3>2. QED
            BY <1>4, <1>5, <1>11, <2>3, <3>1 DEF HandOK, InHand
    <2>4. CASE op'[d] = at("post")
        BY <1>4, <1>11, <2>4 DEF HandOK, InHand
    <2>5. CASE op'[d] = at("fetch") /\ listed
        BY <1>4, <1>5, <1>11, <2>5 DEF HandOK, InHand
    <2>6. QED
        BY <1>9, <2>1, <2>2, <2>3, <2>4, <2>5
<1>13. \A e \in Devices : Even(base'[e])
    BY <1>1, InPlace
<1>14. QED
    BY <1>1, <1>4, <1>7, <1>8, <1>10, <1>12, <1>13, QuietCurrent

\* RomM's listing tells of every save.
LEMMA ListingOK ==
    ASSUME StateInv, CurrentInv, NEW d \in Devices
    PROVE  LET listed == Listing(saves, rows[d])
           IN  /\ listed \subseteq Listed
               /\ \A s \in listed : s.id \in 1..Len(saves) /\ s.upd = s.id
                      /\ s.content = saves[s.id].content /\ s.file = saves[s.id].file
               /\ \A j \in 1..Len(saves) : \E s \in listed : s.id = j
<1>1. Listing(saves, rows[d]) \subseteq Listed
    BY ListingTyped
<1>2. ASSUME NEW s \in Listing(saves, rows[d])
      PROVE  s.id \in 1..Len(saves) /\ s.upd = s.id
             /\ s.content = saves[s.id].content /\ s.file = saves[s.id].file
    BY DEF Listing, CurrentInv, OrderInv
<1>3. ASSUME NEW j \in 1..Len(saves) PROVE \E s \in Listing(saves, rows[d]) : s.id = j
    <2> DEFINE s == [id |-> j, file |-> saves[j].file, content |-> saves[j].content,
                     upd |-> saves[j].upd, current |-> IsCurrent(saves, rows[d], j)]
    <2>1. s \in Listing(saves, rows[d])
        BY DEF Listing
    <2>2. s.id = j
        OBVIOUS
    <2>3. QED
        BY <2>1, <2>2
<1>4. QED
    BY <1>1, <1>2, <1>3

LEMMA RelistCurrent ==
    ASSUME StateInv, CurrentInv, NEW d \in Devices, Relist(d)
    PROVE  CurrentInv'
<1> DEFINE o == op[d]
           listed == Listing(saves, rows[d])
           fresh == Newest(Group(listed, o.file))
           head == Named(fresh)
           q == [o EXCEPT !.pc = "fetch", !.head = head]
<1>1. o.pc = "relist" /\ UNCHANGED <<disk, base, game, saves, rows, over>>
    BY DEF Relist, deviceVars, serverVars
<1>2. o \in Operations /\ o.file \in Files
    BY <1>1, AtPlace DEF OperationOK
<1>3. Group(listed, o.file) # {} =>
          /\ head.id \in 1..Len(saves)
          /\ saves[head.id].file = o.file /\ saves[head.id].content = head.content
          /\ NoneAfter(saves, rows[d], o.file, head.id)
    <2>1. /\ listed \subseteq Listed
          /\ \A s \in listed : s.id \in 1..Len(saves) /\ s.upd = s.id
                      /\ s.content = saves[s.id].content /\ s.file = saves[s.id].file
          /\ \A j \in 1..Len(saves) : \E s \in listed : s.id = j
        BY ListingOK
    <2>2. Len(saves) \in Nat
        BY AtPlace
    <2> HIDE DEF listed
    <2> SUFFICES ASSUME Group(listed, o.file) # {}
                 PROVE  /\ head.id \in 1..Len(saves)
                        /\ saves[head.id].file = o.file /\ saves[head.id].content = head.content
                        /\ NoneAfter(saves, rows[d], o.file, head.id)
        OBVIOUS
    <2>3. QED
        BY <2>1, <2>2, NewestInHand
<1>4. \/ op' = [op EXCEPT ![d] = Failed(o)] /\ shown' = shown
      \/ /\ Group(listed, o.file) # {} /\ shown' = shown
         /\ op' = [op EXCEPT ![d] = q]
      \/ /\ Group(listed, o.file) # {}
         /\ op' = [op EXCEPT ![d] = Done(o)]
         /\ shown' = [shown EXCEPT ![d][o.file] = head.id]
    BY DEF Relist, Named
<1>5. q.pc = "fetch" /\ q.head = head /\ q.file = o.file /\ q.mem = o.mem
    BY <1>2 DEF Operations
<1> HIDE DEF q, head, listed
<1>6. ShownInv'
    <2>1. CASE shown' = shown
        BY <1>1, <2>1, ShownStays
    <2>2. CASE Group(listed, o.file) # {} /\ shown' = [shown EXCEPT ![d][o.file] = head.id]
        <3>1. shown \in [Devices -> [Files -> 0..Refused]]
            BY DEF StateInv, TypeOK
        <3>2. \A e \in Devices, g \in Files :
                  shown'[e][g] = IF e = d /\ g = o.file THEN head.id ELSE shown[e][g]
            BY <2>2, <3>1
        <3>3. QED
            BY <1>1, <1>3, <2>2, <3>2 DEF CurrentInv, ShownInv
    <2>3. QED
        BY <1>4, <2>1, <2>2
<1>7. CASE op' = [op EXCEPT ![d] = Failed(o)]
    BY <1>1, <1>2, <1>6, <1>7, DoneSettled, SettledHand, TransferCurrent
<1>8. CASE op' = [op EXCEPT ![d] = Done(o)]
    BY <1>1, <1>2, <1>6, <1>8, DoneSettled, SettledHand, TransferCurrent
<1>9. CASE Group(listed, o.file) # {} /\ op' = [op EXCEPT ![d] = q]
    <2>1. HandOK(q, disk[d], saves, rows[d])
        BY <1>3, <1>5, <1>9 DEF HandOK, InHand
    <2>2. QED
        BY <1>1, <1>5, <1>6, <1>9, <2>1, TransferCurrent
<1>10. QED
    BY <1>4, <1>7, <1>8, <1>9

LEMMA StartCurrent ==
    ASSUME StateInv, CurrentInv, NEW d \in Devices, NEW kind \in Syncs, Start(d, kind)
    PROVE  CurrentInv'
<1> DEFINE listed == Listing(saves, rows[d])
           probed == {f \in Files : disk[d][f] # None}
           q == [Idle EXCEPT !.pc = "decide", !.kind = kind, !.mem = base[d], !.listed = listed,
                             !.probed = probed, !.todo = probed \cup {s.file : s \in listed}]
<1>1. /\ ~game[d].running /\ UNCHANGED <<disk, base, game, saves, rows, over>>
      /\ op' = [op EXCEPT ![d] = q]
      /\ shown' = [shown EXCEPT ![d] = [f \in Files |-> 0]]
    BY DEF Start, deviceVars, serverVars
<1>2. /\ \A s \in listed : s.id \in 1..Len(saves) /\ s.upd = s.id
                      /\ s.content = saves[s.id].content /\ s.file = saves[s.id].file
      /\ \A j \in 1..Len(saves) : \E s \in listed : s.id = j
    BY ListingOK
<1> HIDE DEF listed, probed
<1>3. q.pc = "decide" /\ q.listed = listed /\ q.mem = base[d]
    BY DEF Idle
<1> HIDE DEF q
<1>4. ListedOK(q, saves, rows[d]) /\ HandOK(q, disk[d], saves, rows[d])
    BY <1>2, <1>3 DEF ListedOK, HandOK, InHand
<1>5. Even(q.mem) /\ \A e \in Devices : Even(base'[e])
    BY <1>1, <1>3, InPlace
<1>6. ShownInv'
    <2>1. shown \in [Devices -> [Files -> 0..Refused]]
        BY DEF StateInv, TypeOK
    <2>2. \A e \in Devices, g \in Files : shown'[e][g] = IF e = d THEN 0 ELSE shown[e][g]
        BY <1>1, <2>1
    <2>3. QED
        BY <1>1, <2>2 DEF CurrentInv, ShownInv, Ids
<1>7. QED
    BY <1>1, <1>4, <1>5, <1>6, QuietCurrent

\* The newest save of the slot is the last.
LEMMA SlotHeadLast ==
    ASSUME StateInv, CurrentInv
    PROVE  SlotHead(saves) = Len(saves) /\ Len(saves) \in Nat
<1>1. Len(saves) \in Nat /\ saves \in Seq(SaveType) /\ \A i \in 1..Len(saves) : saves[i].upd = i
    BY WorldOf DEF WorldTyped, CurrentInv, OrderInv
<1>2. CASE saves = <<>>
    BY <1>1, <1>2 DEF SlotHead
<1>3. CASE saves # <<>>
    <2>1. Len(saves) \in 1..Len(saves)
        BY <1>1, <1>3
    <2>2. \A j \in 1..Len(saves) : saves[j].upd <= saves[Len(saves)].upd
        BY <1>1, <2>1
    <2>3. /\ SlotHead(saves) \in 1..Len(saves)
          /\ \A j \in 1..Len(saves) : saves[j].upd <= saves[SlotHead(saves)].upd
        BY <1>3, <2>1, <2>2 DEF SlotHead
    <2>4. QED
        BY <1>1, <2>1, <2>3
<1>4. QED
    BY <1>2, <1>3

LEMMA ResolveCurrent ==
    ASSUME StateInv, CurrentInv, NEW d \in Devices, NEW f \in Files, NEW kind \in Resolutions,
           Resolve(d, f, kind)
    PROVE  CurrentInv'
<1> DEFINE id == SlotHead(saves)
           head == [id |-> id, content |-> saves[id].content]
           o == [Idle EXCEPT !.kind = kind, !.mem = base[d], !.file = f, !.todo = {f}, !.head = head]
           fetches == [o EXCEPT !.pc = "fetch"]
           compares == [o EXCEPT !.pc = "compare", !.local = disk[d][f]]
<1>1. ~game[d].running /\ UNCHANGED <<disk, base, game, saves, rows, over>>
    BY DEF Resolve, deviceVars, serverVars
<1>2. \/ op' = op /\ shown' = [shown EXCEPT ![d][f] = Refused]
      \/ op' = [op EXCEPT ![d] = fetches] /\ shown' = shown /\ id = shown[d][f]
      \/ op' = [op EXCEPT ![d] = compares] /\ shown' = shown /\ id = shown[d][f]
    BY DEF Resolve
<1>3. id = Len(saves) /\ Len(saves) \in Nat /\ shown[d][f] \in Ids
    BY SlotHeadLast DEF Resolve
<1>4. /\ fetches.pc = "fetch" /\ fetches.file = f /\ fetches.head = head
      /\ fetches.mem = base[d] /\ fetches.todo = {f} /\ fetches.listed = {}
      /\ compares.pc = "compare" /\ compares.file = f /\ compares.head = head
      /\ compares.mem = base[d] /\ compares.todo = {f} /\ compares.listed = {}
    BY DEF Idle
<1> HIDE DEF fetches, compares, id
<1>5. head.id = id /\ head.content = saves[id].content
    OBVIOUS
<1> HIDE DEF head
<1>6. \A q \in {fetches, compares} : Even(q.mem) /\ ListedOK(q, saves, rows[d])
    BY <1>4, InPlace DEF ListedOK
<1>7. \A e \in Devices : Even(base'[e])
    BY <1>1, InPlace
<1>8. CASE op' = op /\ shown' = [shown EXCEPT ![d][f] = Refused]
    <2>1. ShownInv'
        <3>1. shown \in [Devices -> [Files -> 0..Refused]]
            BY DEF StateInv, TypeOK
        <3>2. \A e \in Devices, g \in Files :
                  shown'[e][g] = IF e = d /\ g = f THEN Refused ELSE shown[e][g]
            BY <1>8, <3>1
        <3>3. Refused \notin Ids
            BY SaveAssumption DEF Refused, Ids
        <3>4. QED
            BY <1>1, <3>2, <3>3 DEF CurrentInv, ShownInv
    <2>2. op' = [op EXCEPT ![d] = op[d]]
        BY <1>8 DEF StateInv, TypeOK
    <2>3. QED
        BY <1>1, <1>7, <2>1, <2>2, InPlace, QuietCurrent
<1>9. ASSUME id = shown[d][f], NEW q \in {fetches, compares}, op' = [op EXCEPT ![d] = q], shown' = shown
      PROVE  CurrentInv'
    <2>1. id \in 1..Len(saves) /\ saves[id].file = f
        BY <1>3, <1>9 DEF CurrentInv, ShownInv
    <2>2. NoneAfter(saves, rows[d], f, id)
        BY <1>3 DEF NoneAfter
    <2>3. HandOK(q, disk[d], saves, rows[d])
        BY <1>4, <1>5, <1>9, <2>1, <2>2 DEF HandOK
    <2>4. ShownInv'
        BY <1>1, <1>9, ShownStays
    <2>5. QED
        BY <1>1, <1>6, <1>7, <1>9, <2>3, <2>4, QuietCurrent
<1>10. QED
    BY <1>2, <1>8, <1>9

LEMMA FinishCurrent ==
    ASSUME StateInv, CurrentInv, NEW d \in Devices, Finish(d)
    PROVE  CurrentInv'
<1>1. /\ op[d].pc = "decide" /\ UNCHANGED <<disk, game, saves, rows, over>>
      /\ base' = [base EXCEPT ![d] = op[d].mem] /\ op' = [op EXCEPT ![d] = Idle]
      /\ shown' = shown \/ shown' = [shown EXCEPT ![d][op[d].file] = 0]
    BY DEF Finish, serverVars
<1>2. base \in [Devices -> Baselines] /\ shown \in [Devices -> [Files -> 0..Refused]]
    BY DEF StateInv, TypeOK
<1>3. ~game[d].running /\ \A e \in Devices : Even(base'[e])
    BY <1>1, <1>2, InPlace
<1>4. Even(Idle.mem) /\ ListedOK(Idle, saves, rows[d]) /\ HandOK(Idle, disk[d], saves, rows[d])
    BY DEF Idle, Even, NoBaseline, ListedOK, HandOK, InHand
<1>5. ShownInv'
    <2>1. \A e \in Devices, g \in Files : shown'[e][g] \in {0, shown[e][g]}
        BY <1>1, <1>2
    <2>2. QED
        BY <1>1, <2>1 DEF CurrentInv, ShownInv, Ids
<1>6. QED
    BY <1>1, <1>3, <1>4, <1>5, QuietCurrent

\* RomM refuses the upload, or has the bytes already.
LEMMA RepeatedCurrent ==
    ASSUME StateInv, CurrentInv, NEW d \in Devices, Post(d), UNCHANGED <<serverVars, over>>,
           NEW q, op' = [op EXCEPT ![d] = q], q.mem = op[d].mem,
           \/ q.pc = "relist"
           \/ /\ q.pc = "recordUpload" /\ q.file = op[d].file
              /\ q.head.id \in 1..Len(saves)
              /\ saves[q.head.id].content = disk[d][op[d].file]
              /\ q.head.content = disk[d][op[d].file]
    PROVE  CurrentInv'
<1>1. op[d].pc = "post" /\ UNCHANGED <<disk, base, game, saves, rows, over, shown>>
    BY DEF Post, deviceVars, serverVars
<1>2. op[d].file \in Files
    BY <1>1, AtPlace DEF OperationOK
<1>3. ShownInv'
    BY <1>1, ShownStays
<1>4. HandOK(q, disk[d], saves, rows[d])
    BY <1>2 DEF HandOK, InHand, CurrentInv, OwnerInv
<1>5. QED
    BY <1>1, <1>3, <1>4, TransferCurrent

\* A save made of the device's file.
LEMMA CreateCurrent ==
    ASSUME StateInv, WorkInv, CurrentInv, MaxReplaced = 0, NEW d \in Devices, op[d].pc = "post",
           Len(saves) < MaxSaves,
           Create(d, op[d].file, disk[d][op[d].file]),
           KeptOver(d, disk[d][op[d].file]),
           UNCHANGED <<deviceVars, shown, written, replaced>>,
           NEW q, op' = [op EXCEPT ![d] = q], Follows(op[d], q), q.mem = op[d].mem,
           \/ q.pc = "post"
           \/ /\ q.pc = "recordUpload" /\ q.file = op[d].file
              /\ q.head.id = Len(saves) + 1 /\ q.head.content = disk[d][op[d].file]
    PROVE  CurrentInv'
<1> DEFINE f == op[d].file
           content == disk[d][f]
           n == Len(saves) + 1
<1>1. /\ f \in Files /\ content \in 0..MaxContent /\ content # None
      /\ content \in Contents /\ content \in over[content]
    <2>1. f \in Files /\ content # None /\ content \in 0..MaxContent
        BY AtPlace DEF OperationOK, HasFile
    <2>2. content \in 1..written
        BY <2>1 DEF WorkInv, ValuesInv, None, StateInv, TypeOK
    <2>3. QED
        BY <2>1, <2>2 DEF WorkInv, OverInv, Contents, None
<1>2. /\ Len(saves) \in Nat /\ n \in Ids /\ clock + 1 = n
    <2>1. Len(saves) \in Nat /\ clock = Len(saves) + replaced /\ replaced \in 0..MaxReplaced
        BY AtPlace DEF StateInv, TypeOK
    <2>2. QED
        BY <2>1, SaveAssumption DEF Ids
<1>3. /\ saves' = Append(saves, [file |-> f, content |-> content, upd |-> n])
      /\ rows' = [rows EXCEPT ![d][n] = n]
      /\ UNCHANGED <<disk, base, game, shown>>
    BY <1>2 DEF Create, deviceVars
<1>4. op \in [Devices -> Operations] /\ rows \in [Devices -> [Ids -> 0..MaxClock]]
      /\ disk \in [Devices -> [Files -> 0..MaxContent]]
      /\ saves \in Seq(SaveType)
    BY WorldOf DEF StateInv, TypeOK, WorldTyped
<1>5. op'[d] = q /\ \A e \in Devices \ {d} : op'[e] = op[e]
    BY <1>4
<1> HIDE DEF f, content, n
<1>6. /\ Len(saves') = n /\ \A i \in 1..Len(saves) : saves'[i] = saves[i]
      /\ saves'[n].file = f /\ saves'[n].content = content /\ saves'[n].upd = n
    <2> DEFINE new == [file |-> f, content |-> content, upd |-> n]
    <2>1. n \in 1..MaxClock
        BY <1>2, SaveAssumption DEF Ids, MaxClock
    <2>2. new \in SaveType /\ new.file = f /\ new.content = content /\ new.upd = n
        BY <1>1, <2>1 DEF SaveType
    <2>3. saves' = Append(saves, new)
        BY <1>3
    <2> HIDE DEF new
    <2>4. /\ Len(saves') = Len(saves) + 1 /\ \A i \in 1..Len(saves) : saves'[i] = saves[i]
          /\ saves'[Len(saves) + 1] = new
        BY <1>4, <2>2, <2>3
    <2>5. QED
        BY <2>2, <2>4 DEF n
<1>7. /\ \A i \in 1..n : i = n \/ i \in 1..Len(saves)
      /\ n \in 1..n /\ n \in Nat /\ Len(saves) < n /\ \A i \in 1..Len(saves) : i \in 1..n
    BY <1>2 DEF n
<1>8. \A e \in Devices, i \in Ids :
          rows'[e][i] = IF e = d /\ i = n THEN n ELSE rows[e][i]
    BY <1>2, <1>3, <1>4
<1>9. \A e \in Devices : rows[e][n] = 0 /\ \A j \in 1..n : j \in Ids
    <2>1. \A j \in 1..n : j \in Ids
        BY <1>2, SaveAssumption DEF Ids, n
    <2>2. \A e \in Devices : rows[e][n] = 0
        BY <1>2, <1>7 DEF CurrentInv, OrderInv
    <2>3. QED
        BY <2>1, <2>2
<1>10. OrderInv'
    <2>1. \A i \in 1..Len(saves') : saves'[i].upd = i
        BY <1>6, <1>7 DEF CurrentInv, OrderInv
    <2>2. ASSUME NEW e \in Devices, NEW i \in Ids
          PROVE  rows'[e][i] \in {0, i} /\ (i > Len(saves') => rows'[e][i] = 0)
        <3>1. i > n => i > Len(saves) /\ i # n
            BY <1>2, <1>7, SaveAssumption DEF Ids
        <3>2. QED
            BY <1>6, <1>8, <3>1 DEF CurrentInv, OrderInv
    <2>3. QED
        BY <2>1, <2>2 DEF OrderInv
<1>11. OwnerInv'
    <2>1. \A i \in 1..Len(saves) : saves[i].content = content => saves[i].file = f
        BY <1>1 DEF CurrentInv, OwnerInv, f, content
    <2>2. \A e \in Devices, g \in Files : disk[e][g] = content => g = f
        BY <1>1 DEF CurrentInv, OwnerInv, f, content
    <2>3. \A i, j \in 1..n : saves'[i].content = saves'[j].content => saves'[i].file = saves'[j].file
        BY <1>6, <1>7, <2>1 DEF CurrentInv, OwnerInv
    <2>4. \A e \in Devices, g \in Files, i \in 1..n : disk[e][g] = saves'[i].content => saves'[i].file = g
        BY <1>6, <1>7, <2>2 DEF CurrentInv, OwnerInv
    <2>5. QED
        BY <1>3, <1>6, <2>3, <2>4 DEF CurrentInv, OwnerInv
<1>12. CalmInv'
    BY <1>3, <1>5 DEF CurrentInv, CalmInv, Differs
<1>13. ShownInv'
    BY <1>3, <1>6, <1>7 DEF CurrentInv, ShownInv
<1>14. EvenInv'
    BY <1>3, <1>5 DEF CurrentInv, EvenInv
<1>15. HandInv'
    <2>1. ASSUME NEW e \in Devices \ {d}
          PROVE  ListedOK(op[e], saves', rows[e]) /\ HandOK(op[e], disk[e], saves', rows[e])
        <3>1. \A j \in 1..Len(saves') : j > Len(saves) => rows[e][j] = 0
            BY <1>2, <1>6, <1>7, <1>9
        <3>2. Len(saves') \in Nat /\ Len(saves) <= Len(saves')
            BY <1>2, <1>6, <1>7
        <3>3. QED
            BY <1>2, <1>6, <3>1, <3>2, InPlace, HandStays
    <2>2. \A e \in Devices \ {d} : rows'[e] = rows[e]
        BY <1>3, <1>4
    <2>3. ListedOK(q, saves', rows'[d])
        <3>1. \A j \in 1..Len(saves') : rows'[d][j] # 0 /\ saves'[j].file # op[d].file =>
                  j \in 1..Len(saves) /\ rows[d][j] # 0
            BY <1>6, <1>7, <1>8, <1>9 DEF f
        <3>2. Len(saves') \in Nat /\ Len(saves) <= Len(saves')
            BY <1>2, <1>6, <1>7
        <3>3. ListedOK(op[d], saves', rows'[d])
            BY <1>2, <1>6, <3>1, <3>2, InPlace, ListedGrows
        <3>4. QED
            BY <3>3, FollowsListed
    <2>4. HandOK(q, disk[d], saves', rows'[d])
        BY <1>6, <1>7 DEF HandOK, InHand, f, content, n
    <2>5. QED
        BY <1>3, <1>5, <2>1, <2>2, <2>3, <2>4 DEF HandInv
<1>16. HeldInv'
    <2>1. \A c \in 0..MaxContent : over[c] \subseteq over'[c]
        BY KeptOverTyped
    <2> SUFFICES ASSUME NEW e \in Devices, NEW g \in Files, NEW i \in 1..n,
                        saves'[i].file = g, rows'[e][i] # 0,
                        \A j \in 1..n : saves'[j].file = g => j <= i
                 PROVE  disk[e][g] # None /\ saves'[i].content \in over'[disk[e][g]]
        BY <1>3, <1>6 DEF HeldInv, HeldOf
    <2>2. disk[e][g] \in 0..MaxContent
        BY <1>4
    <2>3. CASE i = n
        <3>1. e = d /\ g = f
            BY <1>6, <1>8, <1>9, <2>3
        <3>2. QED
            BY <1>1, <1>6, <2>1, <2>3, <3>1 DEF content
    <2>4. CASE i # n
        <3>1. i \in 1..Len(saves) /\ rows[e][i] # 0 /\ saves[i].file = g
            BY <1>6, <1>7, <1>8, <1>9, <2>4
        <3>2. \A j \in 1..Len(saves) : saves[j].file = g => j <= i
            BY <1>6, <1>7
        <3>3. disk[e][g] # None /\ saves[i].content \in over[disk[e][g]]
            BY <3>1, <3>2 DEF CurrentInv, HeldInv, HeldOf
        <3>4. QED
            BY <1>6, <2>1, <2>2, <3>1, <3>3
    <2>5. QED
        BY <2>3, <2>4
<1>17. QED
    BY <1>10, <1>11, <1>12, <1>13, <1>14, <1>15, <1>16 DEF CurrentInv

LEMMA PostCurrent ==
    ASSUME StateInv, WorkInv, CurrentInv, MaxReplaced = 0, NEW d \in Devices, Post(d)
    PROVE  CurrentInv'
<1> DEFINE o == op[d]
           content == disk[d][o.file]
           refused == [o EXCEPT !.pc = "relist"]
           head(id) == [id |-> id, content |-> content]
           repeated(id, then) == [o EXCEPT !.pc = "recordUpload", !.head = head(id), !.then = then]
           made == [o EXCEPT !.pc = "recordUpload", !.head = head(Len(saves) + 1)]
<1>1. o.pc = "post" /\ o \in Operations /\ UNCHANGED <<deviceVars, shown, written, boundVars>>
    BY InPlace DEF Post
<1>2. /\ refused.pc = "relist" /\ refused.mem = o.mem
      /\ made.pc = "recordUpload" /\ made.file = o.file /\ made.mem = o.mem
      /\ made.head.id = Len(saves) + 1 /\ made.head.content = content
    BY <1>1 DEF Operations
<1>3. Follows(o, made)
    BY <1>1, MovesFollow
<1>4. \/ op' = [op EXCEPT ![d] = refused] /\ UNCHANGED <<serverVars, over>>
      \/ \E id \in SameContent(saves, content, Overwrites(o)), then \in {"none", "done"} :
             op' = [op EXCEPT ![d] = repeated(id, then)] /\ UNCHANGED <<serverVars, over>>
      \/ /\ Len(saves) < MaxSaves /\ Create(d, o.file, content) /\ KeptOver(d, content)
         /\ op' = [op EXCEPT ![d] = made]
    BY DEF Post
<1> HIDE DEF refused, repeated, made
<1>5. CASE op' = [op EXCEPT ![d] = refused] /\ UNCHANGED <<serverVars, over>>
    BY <1>2, <1>5, RepeatedCurrent
<1>6. ASSUME NEW id \in SameContent(saves, content, Overwrites(o)), NEW then \in {"none", "done"},
             op' = [op EXCEPT ![d] = repeated(id, then)], UNCHANGED <<serverVars, over>>
      PROVE  CurrentInv'
    <2>1. id \in 1..Len(saves) /\ saves[id].content = content
        BY DEF SameContent
    <2> DEFINE q == repeated(id, then)
    <2>2. /\ q.pc = "recordUpload" /\ q.file = o.file /\ q.mem = o.mem
          /\ q.head.id = id /\ q.head.content = content
        BY <1>1 DEF repeated, Operations
    <2>3. op' = [op EXCEPT ![d] = q]
        BY <1>6
    <2> HIDE DEF q
    <2>4. QED
        BY <1>6, <2>1, <2>2, <2>3, RepeatedCurrent
<1>7. CASE /\ Len(saves) < MaxSaves /\ Create(d, o.file, content) /\ KeptOver(d, content)
           /\ op' = [op EXCEPT ![d] = made]
    <2>1. UNCHANGED <<deviceVars, shown, written, replaced>>
        BY <1>1 DEF boundVars
    <2>2. QED
        BY <1>1, <1>2, <1>3, <1>7, <2>1, CreateCurrent
<1>8. QED
    BY <1>4, <1>5, <1>6, <1>7

\* RomM's answer to an acknowledgement holds the device current on the save.
LEMMA ConfirmCurrent ==
    ASSUME StateInv, WorkInv, CurrentInv, NEW d \in Devices, op[d].pc \in {"ack", "ackAgain"},
           Confirm(d, op[d].head.id), UNCHANGED <<deviceVars, shown, over>>,
           NEW q, op' = [op EXCEPT ![d] = q], Follows(op[d], q), Even(q.mem),
           HandOK(q, disk[d], saves, rows[d]), q.pc \notin {"fetch", "place"}
    PROVE  CurrentInv'
<1> DEFINE id == op[d].head.id
           f == op[d].file
<1>1. /\ id \in 1..Len(saves) /\ id \in Ids /\ saves[id].file = f /\ saves[id].upd = id
      /\ disk[d][f] = saves[id].content /\ f \in Files
    BY AtPlace, InPlace, SaveAssumption DEF HandOK, InHand, OperationOK, CurrentInv, OrderInv, Ids
<1>2. /\ op \in [Devices -> Operations] /\ rows \in [Devices -> [Ids -> 0..MaxClock]]
      /\ Len(saves) \in Nat
    BY AtPlace DEF StateInv, TypeOK
<1>3. /\ op'[d] = q /\ \A e \in Devices \ {d} : op'[e] = op[e]
      /\ UNCHANGED <<disk, base, game, shown, saves>>
    BY <1>2 DEF Confirm, deviceVars
<1>4. PICK row \in {rows[d][id], id} : rows' = [rows EXCEPT ![d][id] = row]
    BY <1>1 DEF Confirm, ConfirmedRow
<1> HIDE DEF id, f
<1>5. row \in {0, id}
    BY <1>1, <1>4 DEF CurrentInv, OrderInv
<1>6. /\ \A e \in Devices \ {d} : rows'[e] = rows[e]
      /\ \A i \in Ids : rows'[d][i] = IF i = id THEN row ELSE rows[d][i]
    BY <1>1, <1>2, <1>4
<1>7. \A i \in 1..Len(saves) : i \in Ids
    BY AtPlace, SaveAssumption DEF Ids
<1>8. OrderInv'
    <2>1. id \in Nat /\ id <= Len(saves)
        BY <1>1, <1>2
    <2>2. ASSUME NEW e \in Devices, NEW i \in Ids
          PROVE  rows'[e][i] \in {0, i} /\ (i > Len(saves) => rows'[e][i] = 0)
        <3>1. CASE e = d /\ i = id
            BY <1>2, <1>5, <1>6, <2>1, <3>1
        <3>2. CASE ~(e = d /\ i = id)
            BY <1>6, <3>2 DEF CurrentInv, OrderInv
        <3>3. QED
            BY <3>1, <3>2
    <2>3. QED
        BY <1>3, <2>2 DEF CurrentInv, OrderInv
<1>9. OwnerInv' /\ ShownInv'
    BY <1>3 DEF CurrentInv, OwnerInv, ShownInv
<1>10. CalmInv' /\ EvenInv'
    BY <1>3 DEF CurrentInv, CalmInv, Differs, EvenInv
<1>11. HandInv'
    <2>1. ListedOK(q, saves, rows'[d])
        <3>1. \A j \in 1..Len(saves) : rows'[d][j] # 0 /\ saves[j].file # op[d].file =>
                  j \in 1..Len(saves) /\ rows[d][j] # 0
            <4> SUFFICES ASSUME NEW j \in 1..Len(saves), rows'[d][j] # 0, saves[j].file # op[d].file
                         PROVE  rows[d][j] # 0
                OBVIOUS
            <4>1. j # id /\ j \in Ids
                BY <1>1, <1>7 DEF f
            <4>2. QED
                BY <1>6, <4>1
        <3>2. ListedOK(op[d], saves, rows[d]) /\ op[d].pc # "decide" /\ Len(saves) <= Len(saves)
            BY <1>2, InPlace
        <3>3. ListedOK(op[d], saves, rows'[d])
            <4> HIDE DEF f
            <4>1. QED
                BY ONLY <1>2, <3>1, <3>2, ListedGrows
        <3>4. QED
            BY <3>3, FollowsListed
    <2>2. HandOK(q, disk[d], saves, rows'[d])
        BY DEF HandOK
    <2>3. QED
        BY <1>3, <1>6, <2>1, <2>2, InPlace DEF HandInv
<1>12. HeldInv'
    <2> SUFFICES ASSUME NEW e \in Devices, NEW g \in Files, NEW i \in 1..Len(saves),
                        saves[i].file = g, rows'[e][i] # 0,
                        \A j \in 1..Len(saves) : saves[j].file = g => j <= i
                 PROVE  disk[e][g] # None /\ saves[i].content \in over[disk[e][g]]
        BY <1>3 DEF HeldInv, HeldOf
    <2>1. CASE e = d /\ i = id
        <3>1. saves[id].content \in 1..written
            <4>1. saves[id] \in SaveType /\ saves[id].content <= written
                BY <1>1, AtPlace, SavedValues
            <4>2. written \in 0..MaxContent /\ saves[id].content \in 1..MaxContent
                BY <4>1 DEF SaveType, Contents, StateInv, TypeOK
            <4>3. QED
                BY <4>1, <4>2
        <3>2. QED
            BY <1>1, <2>1, <3>1 DEF WorkInv, OverInv, None
    <2>2. CASE ~(e = d /\ i = id)
        <3>1. rows[e][i] # 0
            BY <1>6, <1>7, <2>2
        <3>2. QED
            BY <3>1 DEF CurrentInv, HeldInv, HeldOf
    <2>3. QED
        BY <2>1, <2>2
<1>13. QED
    BY <1>3, <1>8, <1>9, <1>10, <1>11, <1>12 DEF CurrentInv

LEMMA AcknowledgeCurrent ==
    ASSUME StateInv, WorkInv, CurrentInv, NEW d \in Devices, Acknowledge(d) \/ AcknowledgeAgain(d)
    PROVE  CurrentInv'
<1> DEFINE o == op[d]
           again == [o EXCEPT !.pc = "ackAgain"]
<1>1. /\ o.pc \in {"ack", "ackAgain"} /\ Confirm(d, o.head.id)
      /\ UNCHANGED <<deviceVars, shown, over>>
    BY DEF Acknowledge, AcknowledgeAgain
<1>2. /\ o \in Operations /\ o.then # "none" /\ Even(o.mem)
      /\ HandOK(o, disk[d], saves, rows[d])
    BY <1>1, AtPlace, InPlace DEF OperationOK
<1>3. PICK q \in {Acknowledged(o), NotTaken(d), again} : op' = [op EXCEPT ![d] = q]
    BY DEF Acknowledge, AcknowledgeAgain
<1>4. again.pc = "ackAgain" /\ again.file = o.file /\ again.head = o.head /\ again.local = o.local
      /\ again.mem = o.mem /\ Follows(o, again)
    BY <1>1, <1>2, MovesFollow DEF Operations
<1> HIDE DEF again
<1>5. CASE q = again
    <2>1. HandOK(q, disk[d], saves, rows[d])
        BY <1>1, <1>2, <1>4, <1>5 DEF HandOK, InHand
    <2>2. QED
        BY <1>1, <1>2, <1>3, <1>4, <1>5, <2>1, ConfirmCurrent
<1>6. ASSUME Settled(o, q), Follows(o, q) PROVE CurrentInv'
    <2>1. Even(q.mem) /\ HandOK(q, disk[d], saves, rows[d]) /\ q.pc \notin {"fetch", "place"}
        BY <1>2, <1>6, SettledHand DEF Settled, InHand
    <2>2. QED
        BY <1>1, <1>3, <1>6, <2>1, ConfirmCurrent
<1>7. CASE q = NotTaken(d)
    BY <1>1, <1>2, <1>6, <1>7, NotTakenSettled, NotTakenFollows
<1>8. CASE q = Acknowledged(o)
    <2>1. Follows(o, q)
        BY <1>1, <1>2, <1>8, AcknowledgedFollows
    <2>2. CASE o.then = "record"
        <3>1. q = [o EXCEPT !.pc = "record"]
            BY <1>8, <2>2 DEF Acknowledged
        <3>2. q.pc = "record" /\ q.file = o.file /\ q.head = o.head /\ q.mem = o.mem
            BY <1>2, <3>1 DEF Operations
        <3>3. HandOK(q, disk[d], saves, rows[d])
            BY <1>1, <1>2, <3>2 DEF HandOK, InHand
        <3>4. QED
            BY <1>1, <1>2, <1>3, <2>1, <3>2, <3>3, ConfirmCurrent
    <2>3. CASE o.then = "recordAdopt"
        <3>1. o.local = o.head.content /\ o.local \in 0..MaxContent
            BY <1>1, <1>2 DEF HandOK, InHand, Operations
        <3>2. q = Done([o EXCEPT !.mem[o.file] = [local |-> o.local, server |-> o.local]])
            BY <1>8, <2>3, <3>1 DEF Acknowledged
        <3>3. Settled(o, q)
            BY <1>2, <3>1, <3>2, RecordedEven
        <3>4. QED
            BY <1>6, <2>1, <3>3
    <2>4. CASE o.then = "done"
        <3>1. q = Done(o)
            BY <1>8, <2>4 DEF Acknowledged
        <3>2. QED
            BY <1>2, <1>6, <2>1, <3>1, DoneSettled
    <2>5. QED
        BY <1>2, <2>2, <2>3, <2>4 DEF Operations
<1>9. QED
    BY <1>3, <1>5, <1>7, <1>8

LEMMA AnswerLostCurrent ==
    ASSUME StateInv, WorkInv, CurrentInv, MaxReplaced = 0, NEW d \in Devices, AnswerLost(d)
    PROVE  CurrentInv'
<1> DEFINE o == op[d]
           q == [o EXCEPT !.pc = "ack"]
<1>1. UNCHANGED <<deviceVars, shown, written, replaced>> /\ o \in Operations /\ Even(o.mem)
      /\ HandOK(o, disk[d], saves, rows[d])
    BY InPlace DEF AnswerLost
<1>2. CASE /\ o.pc = "post" /\ Len(saves) < MaxSaves
           /\ KeptOver(d, disk[d][o.file]) /\ Create(d, o.file, disk[d][o.file])
           /\ op' = op
    <2>1. op' = [op EXCEPT ![d] = o] /\ Follows(o, o)
        BY <1>2 DEF Follows, Remembers, StateInv, TypeOK
    <2>2. QED
        BY <1>1, <1>2, <2>1, CreateCurrent
<1>3. CASE /\ o.pc \in {"ack", "ackAgain"} /\ Confirm(d, o.head.id)
           /\ op' = [op EXCEPT ![d].pc = "ack"] /\ UNCHANGED over
    <2>1. /\ q.pc = "ack" /\ q.file = o.file /\ q.head = o.head /\ q.local = o.local
          /\ q.mem = o.mem /\ Follows(o, q)
        BY <1>1, <1>3, MovesFollow DEF Operations
    <2>2. op' = [op EXCEPT ![d] = q]
        BY <1>3
    <2> HIDE DEF q
    <2>3. HandOK(q, disk[d], saves, rows[d])
        BY <1>1, <1>3, <2>1 DEF HandOK, InHand
    <2>4. QED
        BY <1>1, <1>3, <2>1, <2>2, <2>3, ConfirmCurrent
<1>4. QED
    BY <1>2, <1>3 DEF AnswerLost

\* A download is placed: the save in hand, and no later one of the file is one
\* the device is current on.
LEMMA PlaceCurrent ==
    ASSUME StateInv, WorkInv, CurrentInv, NEW d \in Devices, Place(d)
    PROVE  CurrentInv'
<1> DEFINE o == op[d]
           id == o.head.id
           f == o.file
           q == [o EXCEPT !.pc = "ack", !.then = "record"]
           content == o.local
<1>1. /\ o.pc = "place" /\ disk' = [disk EXCEPT ![d][f] = content] /\ op' = [op EXCEPT ![d] = q]
      /\ UNCHANGED <<base, game, shown, saves, rows, over>>
    BY DEF Place, serverVars
<1>2. /\ o \in Operations /\ f \in Files /\ HandOK(o, disk[d], saves, rows[d])
      /\ ListedOK(o, saves, rows[d]) /\ Even(o.mem) /\ ~game[d].running
    BY <1>1, AtPlace, InPlace DEF OperationOK
<1>3. /\ id \in 1..Len(saves) /\ saves[id].file = f /\ saves[id].content = content
      /\ content = o.head.content /\ NoneAfter(saves, rows[d], f, id)
    BY <1>1, <1>2 DEF HandOK, InHand
<1>4. content \in 1..written /\ content # None /\ content \in over[content]
    <2>1. saves[id] \in SaveType /\ saves[id].content <= written
        BY <1>3, AtPlace, SavedValues
    <2>2. written \in 0..MaxContent /\ saves[id].content \in 1..MaxContent
        BY <2>1 DEF SaveType, Contents, StateInv, TypeOK
    <2>3. content \in 1..written
        BY <1>3, <2>1, <2>2
    <2>4. QED
        BY <2>3 DEF WorkInv, OverInv, None
<1>5. /\ q.pc = "ack" /\ q.file = f /\ q.head = o.head /\ q.local = content /\ q.mem = o.mem
      /\ Follows(o, q)
    BY <1>1, <1>2, MovesFollow DEF Operations
<1>6. /\ op \in [Devices -> Operations] /\ disk \in [Devices -> [Files -> 0..MaxContent]]
    BY DEF StateInv, TypeOK
<1> HIDE DEF q, f, id, content
<1>7. /\ op'[d] = q /\ \A e \in Devices \ {d} : op'[e] = op[e] /\ disk'[e] = disk[e]
      /\ \A e \in Devices, g \in Files :
            disk'[e][g] = IF e = d /\ g = f THEN content ELSE disk[e][g]
    BY <1>1, <1>2, <1>6
<1>8. OrderInv' /\ ShownInv'
    BY <1>1 DEF CurrentInv, OrderInv, ShownInv
<1>9. OwnerInv'
    <2>1. \A i \in 1..Len(saves) : saves[i].content = content => saves[i].file = f
        BY <1>3 DEF CurrentInv, OwnerInv
    <2>2. \A e \in Devices, g \in Files : disk[e][g] = content => g = f
        BY <1>3 DEF CurrentInv, OwnerInv
    <2>3. \A e \in Devices, g \in Files, i \in 1..Len(saves) :
              disk'[e][g] = saves[i].content => saves[i].file = g
        BY <1>7, <2>1 DEF CurrentInv, OwnerInv
    <2>4. \A e, a \in Devices, g, h \in Files : disk'[e][g] = disk'[a][h] /\ disk'[e][g] # None => g = h
        BY <1>7, <2>2 DEF CurrentInv, OwnerInv
    <2>5. QED
        BY <1>1, <2>3, <2>4 DEF CurrentInv, OwnerInv
<1>10. CalmInv' /\ EvenInv'
    BY <1>1, <1>2, <1>5, <1>7 DEF CurrentInv, CalmInv, EvenInv, Differs
<1>11. HandInv'
    <2>1. ListedOK(q, saves, rows[d])
        BY <1>2, <1>5, FollowsListed
    <2>2. HandOK(q, disk'[d], saves, rows[d])
        BY <1>2, <1>3, <1>5, <1>7 DEF HandOK, InHand, id
    <2>3. QED
        BY <1>1, <1>7, <2>1, <2>2, InPlace DEF HandInv
<1>12. HeldInv'
    <2> SUFFICES ASSUME NEW e \in Devices, NEW g \in Files, NEW i \in 1..Len(saves),
                        saves[i].file = g, rows[e][i] # 0,
                        \A j \in 1..Len(saves) : saves[j].file = g => j <= i
                 PROVE  disk'[e][g] # None /\ saves[i].content \in over[disk'[e][g]]
        BY <1>1 DEF HeldInv, HeldOf
    <2>1. CASE e = d /\ g = f
        <3>1. id <= i /\ ~(i > id)
            BY <1>3, <2>1 DEF NoneAfter
        <3>2. i = id
            BY <1>3, <3>1
        <3>3. QED
            BY <1>3, <1>4, <1>7, <2>1, <3>2
    <2>2. CASE ~(e = d /\ g = f)
        BY <1>7, <2>2 DEF CurrentInv, HeldInv, HeldOf
    <2>3. QED
        BY <2>1, <2>2
<1>13. QED
    BY <1>8, <1>9, <1>10, <1>11, <1>12 DEF CurrentInv

\* The game plays on from what it loaded, which is what is there.
LEMMA GameWritesCurrent ==
    ASSUME StateInv, WorkInv, CurrentInv, NEW d \in Devices, NEW f \in Files, GameWrites(d, f)
    PROVE  CurrentInv'
<1> DEFINE new == written + 1
           from == game[d].loaded[f]
<1>1. /\ game[d].running /\ written < MaxContent
      /\ disk' = [disk EXCEPT ![d][f] = new]
      /\ game' = [game EXCEPT ![d].loaded[f] = new]
      /\ Write(new, from)
      /\ UNCHANGED <<base, op, shown, saves, rows>>
    BY DEF GameWrites, serverVars
<1>2. /\ disk \in [Devices -> [Files -> 0..MaxContent]] /\ written \in 0..MaxContent
      /\ game \in [Devices -> [running : BOOLEAN, loaded : [Files -> 0..MaxContent]]]
    BY DEF StateInv, TypeOK
<1>3. new \in 1..MaxContent /\ new # None /\ \A c \in 0..MaxContent : c <= written => c # new
    BY <1>1, <1>2, SaveAssumption DEF None
<1>4. /\ \A c \in 0..MaxContent : c <= written => over'[c] = over[c]
      /\ over'[new] = over[from] \cup {new}
    BY <1>1, <1>3, WritesOver
<1>5. from = disk[d][f] /\ op[d].pc = "idle" /\ \A g \in Files : ~Differs(d, g)
    BY <1>1 DEF CurrentInv, CalmInv, Differs
<1>6. /\ \A e \in Devices, g \in Files : disk[e][g] \in 0..MaxContent /\ disk[e][g] <= written
      /\ \A i \in 1..Len(saves) : saves[i].content \in 0..MaxContent /\ saves[i].content <= written
    BY <1>2, SavedValues DEF WorkInv, ValuesInv
<1> HIDE DEF new, from
<1>7. /\ \A e \in Devices, g \in Files : disk'[e][g] = IF e = d /\ g = f THEN new ELSE disk[e][g]
      /\ \A e \in Devices \ {d} : game'[e] = game[e]
      /\ game'[d].running
      /\ \A g \in Files : game'[d].loaded[g] = IF g = f THEN new ELSE game[d].loaded[g]
    BY <1>1, <1>2
<1>8. OrderInv' /\ ShownInv' /\ EvenInv'
    BY <1>1 DEF CurrentInv, OrderInv, ShownInv, EvenInv
<1>9. OwnerInv'
    <2>1. \A e \in Devices, g \in Files : disk[e][g] # new
        BY <1>3, <1>6
    <2>2. \A i \in 1..Len(saves) : saves[i].content # new
        BY <1>3, <1>6
    <2>3. \A e \in Devices, g \in Files, i \in 1..Len(saves) :
              disk'[e][g] = saves[i].content => saves[i].file = g
        BY <1>7, <2>2 DEF CurrentInv, OwnerInv
    <2>4. \A e, a \in Devices, g, h \in Files : disk'[e][g] = disk'[a][h] /\ disk'[e][g] # None => g = h
        BY <1>7, <2>1 DEF CurrentInv, OwnerInv
    <2>5. QED
        BY <1>1, <2>3, <2>4 DEF CurrentInv, OwnerInv
<1>10. CalmInv'
    <2>1. \A g \in Files : ~Differs(d, g)'
        BY <1>5, <1>7 DEF Differs
    <2>2. \A e \in Devices \ {d}, g \in Files : Differs(e, g)' <=> Differs(e, g)
        BY <1>7 DEF Differs
    <2>3. QED
        BY <1>1, <1>5, <1>7, <2>1, <2>2 DEF CurrentInv, CalmInv
<1>11. HandInv'
    <2>1. HandOK(op[d], disk'[d], saves, rows[d])
        BY <1>5 DEF HandOK, InHand
    <2>2. \A e \in Devices \ {d} : disk'[e] = disk[e]
        BY <1>1, <1>2
    <2>3. QED
        BY <1>1, <2>1, <2>2, InPlace DEF HandInv
<1>12. HeldInv'
    <2> SUFFICES ASSUME NEW e \in Devices, NEW g \in Files, NEW i \in 1..Len(saves),
                        saves[i].file = g, rows[e][i] # 0,
                        \A j \in 1..Len(saves) : saves[j].file = g => j <= i
                 PROVE  disk'[e][g] # None /\ saves[i].content \in over'[disk'[e][g]]
        BY <1>1 DEF HeldInv, HeldOf
    <2>1. disk[e][g] # None /\ saves[i].content \in over[disk[e][g]]
        BY DEF CurrentInv, HeldInv, HeldOf
    <2>2. CASE e = d /\ g = f
        BY <1>3, <1>4, <1>5, <1>7, <2>1, <2>2
    <2>3. CASE ~(e = d /\ g = f)
        BY <1>4, <1>6, <1>7, <2>1, <2>3
    <2>4. QED
        BY <2>2, <2>3
<1>13. QED
    BY <1>8, <1>9, <1>10, <1>11, <1>12 DEF CurrentInv

LEMMA StartGameCurrent ==
    ASSUME StateInv, CurrentInv, ~PlayAnyway, NEW d \in Devices, StartGame(d)
    PROVE  CurrentInv'
<1> DEFINE q == IF op[d].kind = "preLaunch" THEN [op[d] EXCEPT !.stop = TRUE] ELSE op[d]
<1>1. /\ op \in [Devices -> Operations] /\ op[d] \in Operations
      /\ game \in [Devices -> [running : BOOLEAN, loaded : [Files -> 0..MaxContent]]]
    BY DEF StateInv, TypeOK
<1>2. /\ op[d].pc = "idle"
      /\ game' = [game EXCEPT ![d] = [running |-> TRUE, loaded |-> disk[d]]]
      /\ op' = [op EXCEPT ![d] = q]
      /\ UNCHANGED <<disk, base, shown, saves, rows, over>>
    BY <1>1 DEF StartGame, serverVars
<1>3. q.pc = "idle" /\ q.listed = op[d].listed /\ q.mem = op[d].mem
    BY <1>1, <1>2 DEF Operations
<1> HIDE DEF q
<1>4. /\ op'[d] = q
      /\ \A e \in Devices \ {d} : op'[e] = op[e] /\ game'[e] = game[e]
      /\ game'[d].loaded = disk[d]
    BY <1>1, <1>2
<1>5. OrderInv' /\ OwnerInv' /\ ShownInv'
    BY <1>2 DEF CurrentInv, OrderInv, OwnerInv, ShownInv
<1>6. CalmInv'
    <2>1. \A g \in Files : ~Differs(d, g)'
        BY <1>2, <1>4 DEF Differs
    <2>2. \A e \in Devices \ {d}, g \in Files : Differs(e, g)' <=> Differs(e, g)
        BY <1>2, <1>4 DEF Differs
    <2>3. QED
        BY <1>3, <1>4, <2>1, <2>2 DEF CurrentInv, CalmInv
<1>7. EvenInv'
    BY <1>2, <1>3, <1>4 DEF CurrentInv, EvenInv
<1>8. HandInv'
    <2>1. ListedOK(q, saves, rows[d]) /\ HandOK(q, disk[d], saves, rows[d])
        BY <1>3, InPlace DEF ListedOK, HandOK, InHand
    <2>2. QED
        BY <1>2, <1>4, <2>1, InPlace DEF HandInv
<1>9. HeldInv'
    BY <1>2 DEF CurrentInv, HeldInv, HeldOf
<1>10. QED
    BY <1>5, <1>6, <1>7, <1>8, <1>9 DEF CurrentInv

LEMMA ExitGameCurrent ==
    ASSUME StateInv, CurrentInv, NEW d \in Devices, ExitGame(d)
    PROVE  CurrentInv'
<1>1. /\ game' = [game EXCEPT ![d] = NotRunning]
      /\ UNCHANGED <<disk, base, op, shown, saves, rows, over>>
    BY DEF ExitGame, serverVars
<1>2. ~game'[d].running /\ \A e \in Devices \ {d} : game'[e] = game[e]
    BY <1>1 DEF StateInv, TypeOK, NotRunning
<1>3. CalmInv'
    BY <1>1, <1>2 DEF CurrentInv, CalmInv, Differs
<1>4. OrderInv' /\ OwnerInv' /\ ShownInv' /\ EvenInv' /\ HandInv' /\ HeldInv'
    BY <1>1 DEF CurrentInv, OrderInv, OwnerInv, ShownInv, EvenInv, HandInv, HeldInv, HeldOf
<1>5. QED
    BY <1>3, <1>4 DEF CurrentInv

\* A step in which no placing fails half way.
LEMMA WholeStepCurrent ==
    ASSUME MaxReplaced = 0, ~PlayAnyway, StateInv, WorkInv, CurrentInv,
           [Next]_vars, \A d \in Devices : ~PlaceFails(d)
    PROVE  CurrentInv'
<1>1. ASSUME NEW d \in Devices, Plays(d) PROVE CurrentInv'
    BY <1>1, StartGameCurrent, GameWritesCurrent, ExitGameCurrent DEF Plays
<1>2. ASSUME NEW d \in Devices, Step(d) PROVE CurrentInv'
    BY <1>2, DecideCurrent, FinishCurrent, CompareCurrent, PostCurrent, RecordUploadCurrent,
       RelistCurrent, FetchCurrent, PlaceCurrent, RecordCurrent, AdoptCurrent, AcknowledgeCurrent,
       Zenon DEF Step
<1>3. ASSUME NEW d \in Devices, Fails(d) PROVE CurrentInv'
    BY <1>3, FailsCurrent, AnswerLostCurrent DEF Fails
<1>4. ASSUME NEW id \in Ids, Replace(id) PROVE CurrentInv'
    BY <1>4 DEF Replace, StateInv, TypeOK
<1>5. CASE UNCHANGED vars
    <2>1. UNCHANGED <<disk, base, game, op, shown, saves, rows, over>>
        BY <1>5 DEF vars, deviceVars, serverVars
    <2>2. QED
        BY <2>1 DEF CurrentInv, OrderInv, OwnerInv, CalmInv, ShownInv, EvenInv, HandInv,
                    HeldInv, HeldOf, Differs
<1>6. QED
    BY <1>1, <1>2, <1>3, <1>4, <1>5, StartCurrent, ResolveCurrent, Zenon DEF Next

LEMMA CurrentStep ==
    ASSUME MaxReplaced = 0, ~PlayAnyway, ~RenameFails
    PROVE  StateInv /\ WorkInv /\ CurrentInv /\ [Next]_vars => CurrentInv'
BY WholeStepCurrent DEF PlaceFails

\* The newest save of a file is the last of its saves.
LEMMA FileHeadLast ==
    ASSUME StateInv, CurrentInv, NEW f,
           FileHead(saves, f) # 0 \/ \E i \in 1..Len(saves) : saves[i].file = f
    PROVE  LET id == FileHead(saves, f)
           IN  /\ id \in 1..Len(saves) /\ saves[id].file = f
               /\ \A j \in 1..Len(saves) : saves[j].file = f => j <= id
<1> DEFINE ids == {i \in 1..Len(saves) : saves[i].file = f}
           id == FileHead(saves, f)
<1>1. Len(saves) \in Nat /\ \A i \in 1..Len(saves) : saves[i].upd = i
    BY WorldOf DEF WorldTyped, CurrentInv, OrderInv
<1>2. ids # {} /\ ids \subseteq 0..Len(saves)
    BY <1>1 DEF FileHead
<1> HIDE DEF ids
<1>3. PICK x \in ids : \A y \in ids : y <= x
    BY <1>1, <1>2, BoundedMax
<1>4. \A i \in ids : i \in 1..Len(saves) /\ saves[i].upd = i
    BY <1>1 DEF ids
<1>5. \E i \in ids : \A j \in ids : saves[j].upd <= saves[i].upd
    BY <1>3, <1>4
<1>6. id = CHOOSE i \in ids : \A j \in ids : saves[j].upd <= saves[i].upd
    BY <1>2 DEF FileHead, ids
<1> HIDE DEF id
<1>7. id \in ids /\ \A j \in ids : saves[j].upd <= saves[id].upd
    BY <1>5, <1>6
<1>8. id \in 1..Len(saves) /\ saves[id].file = f
    BY <1>7 DEF ids
<1>9. \A j \in 1..Len(saves) : saves[j].file = f => j <= id
    BY <1>1, <1>7, <1>8 DEF ids
<1>10. QED
    BY <1>8, <1>9 DEF id

LEMMA HeldIsCurrent ==
    ASSUME StateInv, CurrentInv
    PROVE  CurrentMeansHeld
<1> SUFFICES ASSUME NEW d \in Devices, NEW f \in Files, FileHead(saves, f) # 0,
                    IsCurrent(saves, rows[d], FileHead(saves, f)), disk[d][f] # None
             PROVE  saves[FileHead(saves, f)].content \in over[disk[d][f]]
    BY DEF CurrentMeansHeld
<1> DEFINE id == FileHead(saves, f)
<1>1. /\ id \in 1..Len(saves) /\ saves[id].file = f
      /\ \A j \in 1..Len(saves) : saves[j].file = f => j <= id
    BY FileHeadLast
<1> HIDE DEF id
<1>2. saves[id].upd = id /\ id # 0
    BY <1>1 DEF CurrentInv, OrderInv
<1>3. rows[d][id] >= id
    BY <1>2 DEF IsCurrent, id
<1>4. rows[d][id] # 0
    BY <1>1, <1>3
<1>5. QED
    BY <1>1, <1>4 DEF CurrentInv, HeldInv, HeldOf, id

(* Where RomM holds a device current on the newest save of a file, the       *)
(* device's file is that save or was played on from it: what rows 7 and 9 of *)
(* the decision matrix and RomM's upload gate trust.  It takes that nobody   *)
(* replaces a save in place, that no game runs beside a sync, and that a     *)
(* placing once begun comes to its end: each alone breaks it.                *)
THEOREM CurrentIsHeld ==
    ASSUME MaxReplaced = 0, ~PlayAnyway, ~RenameFails
    PROVE  Spec => []CurrentMeansHeld
<1>1. Init => StateInv /\ WorkInv /\ CurrentInv
    BY StateInit, WorkInit, CurrentInit
<1>2. StateInv /\ WorkInv /\ CurrentInv /\ [Next]_vars => (StateInv /\ WorkInv /\ CurrentInv)'
    BY StateStep, WorkStep, CurrentStep
<1>3. StateInv /\ CurrentInv => CurrentMeansHeld
    BY HeldIsCurrent
<1>4. QED
    BY <1>1, <1>2, <1>3, PTL DEF Spec

-----------------------------------------------------------------------------
(* What a sync uploads. *)

\* A save comes to RomM by an upload that it does not refuse.
LEMMA PostCreates ==
    ASSUME StateInv, NEW d \in Devices, [Next]_vars, Creates(d)
    PROVE  /\ op[d].pc = "post"
           /\ ~PostRefused(saves, rows[d], Overwrites(op[d]))
           /\ Create(d, op[d].file, disk[d][op[d].file])
           /\ KeptOver(d, disk[d][op[d].file])
<1> DEFINE Posted(e) == /\ op[e].pc = "post"
                        /\ ~PostRefused(saves, rows[e], Overwrites(op[e]))
                        /\ Create(e, op[e].file, disk[e][op[e].file])
                        /\ KeptOver(e, disk[e][op[e].file])
<1>1. Len(saves) \in Nat /\ rows \in [Devices -> [Ids -> 0..MaxClock]]
    BY WorldOf DEF WorldTyped
<1>2. saves' # saves
    BY <1>1 DEF Creates
<1>3. ASSUME NEW e \in Devices, Posted(e) PROVE e = d
    <2>1. rows' = [rows EXCEPT ![e][Len(saves) + 1] = clock + 1]
        BY <1>3 DEF Create
    <2>2. \A a \in Devices \ {e} : rows'[a] = rows[a]
        BY <1>1, <2>1
    <2>3. QED
        BY <2>2 DEF Creates
<1>4. ASSUME NEW e \in Devices, Post(e) \/ AnswerLost(e) PROVE Posted(e)
    <2>1. CASE Post(e)
        BY <1>2, <2>1 DEF Post, serverVars
    <2>2. CASE AnswerLost(e)
        BY <1>2, <2>2 DEF AnswerLost, Confirm
    <2>3. QED
        BY <1>4, <2>1, <2>2
<1> HIDE DEF Posted
<1>5. ASSUME NEW e \in Devices PROVE ~Plays(e)
    BY <1>2 DEF Plays, StartGame, ExitGame, GameWrites, serverVars
<1>6. ASSUME NEW e \in Devices PROVE
          /\ \A kind \in Syncs : ~Start(e, kind)
          /\ \A f \in Files, kind \in Resolutions : ~Resolve(e, f, kind)
    BY <1>2 DEF Start, Resolve, serverVars
<1>7. ASSUME NEW e \in Devices, Step(e) PROVE Post(e)
    BY <1>2, <1>7 DEF Step, Decide, Finish, Compare, RecordUpload, Relist, Fetch, Place, Record,
       Adopt, Acknowledge, AcknowledgeAgain, Confirm, serverVars
<1>8. ASSUME NEW e \in Devices, Fails(e) PROVE AnswerLost(e)
    BY <1>2, <1>8 DEF Fails, RequestFails, PlaceFails, Crash, serverVars
<1>9. ASSUME NEW id \in Ids PROVE ~Replace(id)
    <2> SUFFICES ASSUME Replace(id) PROVE FALSE
        OBVIOUS
    <2>1. Len(saves') = Len(saves)
        BY ReplaceWorld
    <2>2. QED
        BY <1>1, <2>1 DEF Creates
<1>10. ~UNCHANGED vars
    BY <1>2 DEF vars, serverVars
<1>11. \E e \in Devices : Posted(e)
    BY <1>4, <1>5, <1>6, <1>7, <1>8, <1>9, <1>10, Zenon DEF Next
<1>12. Posted(d)
    BY <1>3, <1>11
<1>13. QED
    BY <1>12 DEF Posted

\* RomM takes an upload that may not overwrite only from a device that is current
\* on the newest save of the slot, which the device then has or has played on from.
LEMMA TakenPlaysOn ==
    ASSUME StateInv, CurrentInv, \A f, g \in Files : f = g,
           NEW d \in Devices, op[d].pc = "post", ~Overwrites(op[d]),
           ~PostRefused(saves, rows[d], Overwrites(op[d])), Len(saves) # 0
    PROVE  saves[Len(saves)].content \in over[disk[d][op[d].file]]
<1>1. /\ saves \in Seq(SaveType) /\ Len(saves) \in 1..Len(saves)
      /\ \A i \in 1..Len(saves) : saves[i].upd = i
    BY WorldOf DEF WorldTyped, CurrentInv, OrderInv
<1>2. saves # <<>>
    OBVIOUS
<1>3. rows[d][SlotHead(saves)] >= saves[SlotHead(saves)].upd
    BY <1>2 DEF PostRefused, IsCurrent
<1>4. SlotHead(saves) = Len(saves)
    BY <1>2, SlotHeadLast
<1>5. rows[d][Len(saves)] # 0
    BY <1>1, <1>3, <1>4
<1>6. op[d].file \in Files /\ saves[Len(saves)].file = op[d].file
    BY <1>1, AtPlace DEF OperationOK, SaveType
<1>7. HeldOf(d, op[d].file)
    BY <1>6 DEF CurrentInv, HeldInv
<1>8. QED
    BY <1>1, <1>5, <1>6, <1>7 DEF HeldOf

(* Of a slot with one file, a sync's upload becomes the newest save only if  *)
(* it was played on from the save it passes: another device's progress is    *)
(* never buried without the user.  RomM's gate asks whether the device is    *)
(* current on the newest save, which the device then has, or has played on   *)
(* from.  With several files the gate asks about another file's save.        *)
THEOREM UploadsBuryNothing ==
    ASSUME MaxReplaced = 0, ~PlayAnyway, ~RenameFails, \A f, g \in Files : f = g
    PROVE  Spec => NoSilentBurial
<1> DEFINE Passed(d) == LET new == saves'[Len(saves')]
                            passed == FileHead(saves, new.file)
                        IN  passed = 0 \/ saves[passed].content \in over'[new.content]
<1>1. ASSUME StateInv, CurrentInv, [Next]_vars,
             NEW d \in Devices, Creates(d), op[d].kind \in Syncs
      PROVE  Passed(d)
    <2> DEFINE f == op[d].file
               content == disk[d][f]
               passed == FileHead(saves, f)
    <2>1. /\ op[d].pc = "post" /\ ~PostRefused(saves, rows[d], Overwrites(op[d]))
          /\ Create(d, f, content) /\ KeptOver(d, content)
        BY <1>1, PostCreates
    <2>2. op[d] \in Operations /\ f \in Files /\ content # None /\ content \in 0..MaxContent
        BY <1>1, <2>1, AtPlace DEF OperationOK, HasFile
    <2>3. saves \in Seq(SaveType) /\ saves' = Append(saves, [file |-> f, content |-> content, upd |-> clock + 1])
        BY <1>1, <2>1, WorldOf DEF Create, WorldTyped
    <2>4. saves'[Len(saves')].file = f /\ saves'[Len(saves')].content = content
        BY <2>3
    <2>5. over[content] \subseteq over'[content]
        BY <1>1, <2>1, <2>2, KeptOverTyped
    <2>6. ASSUME passed # 0 PROVE saves[passed].content \in over[content]
        <3>1. /\ passed \in 1..Len(saves)
              /\ \A j \in 1..Len(saves) : saves[j].file = f => j <= passed
            BY <1>1, <2>6, FileHeadLast
        <3>2. \A j \in 1..Len(saves) : saves[j].file = f
            <4>1. \A j \in 1..Len(saves) : saves[j].file \in Files
                BY <1>1, AtPlace DEF SaveType
            <4>2. QED
                BY <2>2, <4>1
        <3>3. Len(saves) # 0 /\ passed = Len(saves)
            BY <2>3, <3>1, <3>2
        <3>4. ~Overwrites(op[d])
            BY <1>1, SaveAssumption DEF Overwrites
        <3>5. QED
            BY <1>1, <2>1, <3>3, <3>4, TakenPlaysOn
    <2> HIDE DEF passed, content
    <2>7. passed = 0 \/ saves[passed].content \in over'[content]
        BY <2>5, <2>6
    <2>8. QED
        BY <2>4, <2>7 DEF passed
<1>2. StateInv /\ CurrentInv /\ [Next]_vars =>
          [\A d \in Devices : Creates(d) /\ op[d].kind \in Syncs => Passed(d)]_vars
    BY <1>1
<1>3. Init => StateInv /\ WorkInv /\ CurrentInv
    BY StateInit, WorkInit, CurrentInit
<1>4. StateInv /\ WorkInv /\ CurrentInv /\ [Next]_vars => (StateInv /\ WorkInv /\ CurrentInv)'
    BY StateStep, WorkStep, CurrentStep
<1>5. QED
    BY <1>2, <1>3, <1>4, PTL DEF Spec, NoSilentBurial

-----------------------------------------------------------------------------
(* What a sync replaces, in a slot with one file. *)

\* Only what was written supersedes, or is superseded, and with it goes all that
\* it superseded.
LineInv ==
    \A c \in 0..MaxContent : \A x \in over[c] :
        c <= written /\ x <= written /\ over[x] \subseteq over[c]

\* A newer save of a file supersedes the older ones.
ChainInv ==
    \A i, j \in 1..Len(saves) :
        saves[i].file = saves[j].file /\ i <= j => saves[i].content \in over[saves[j].content]

\* A baseline is of a save that RomM holds.
Saved(held, f, c) == \E i \in 1..Len(held) : held[i].file = f /\ held[i].content = c

Known(held, m) == \A f \in Files : m[f].server = None \/ Saved(held, f, m[f].server)

\* Of a file not yet dispatched: without a probe nothing is there, and the save
\* of its baseline is listed.
AheadOK(o, files) ==
    \A f \in o.todo : o.pc = "decide" \/ (o.pc # "idle" /\ f # o.file) =>
        /\ f \notin o.probed => files[f] = None
        /\ o.mem[f].server # None => \E s \in o.listed : s.file = f /\ s.content = o.mem[f].server

\* The file is as it was measured, and the save a sync is to place supersedes it.
Measured == {"compare", "adopt", "post", "relist"}

PassOK(o, files, line) ==
    /\ o.pc \in Measured => o.local = files[o.file]
    /\ o.pc \in {"fetch", "place"} /\ o.kind \in Syncs =>
          files[o.file] = None \/ files[o.file] \in line[o.head.content]

WorksInv ==
    \A d \in Devices :
        /\ Known(saves, base[d]) /\ Known(saves, op[d].mem)
        /\ AheadOK(op[d], disk[d]) /\ PassOK(op[d], disk[d], over)

DescentInv == LineInv /\ ChainInv /\ WorksInv

LEMMA DescentInit ==
    ASSUME MaxReplaced = 0, Init
    PROVE  DescentInv
<1> USE SaveAssumption
<1>1. /\ base = [d \in Devices |-> [f \in Files |-> NoBaseline]]
      /\ saves = <<>> /\ over = [c \in 0..MaxContent |-> {}]
      /\ \A d \in Devices : op[d] = Idle
    BY DEF Init
<1>2. LineInv /\ ChainInv
    BY <1>1 DEF LineInv, ChainInv
<1>3. WorksInv
    BY <1>1 DEF WorksInv, Known, AheadOK, PassOK, Measured, Idle, NoBaseline
<1>4. QED
    BY <1>2, <1>3 DEF DescentInv

\* A step of one device: RomM keeps what it holds, and what supersedes what.
LEMMA DescentOf ==
    ASSUME StateInv, CurrentInv, DescentInv, NEW d \in Devices, NEW q,
           op' = [op EXCEPT ![d] = q],
           \A e \in Devices \ {d} : disk'[e] = disk[e],
           Len(saves') \in Nat, Len(saves) <= Len(saves'),
           \A i \in 1..Len(saves) : saves'[i] = saves[i],
           \A c \in 0..MaxContent : over[c] \subseteq over'[c],
           LineInv', ChainInv',
           \A e \in Devices : Known(saves, base'[e]),
           Known(saves, q.mem), AheadOK(q, disk'[d]), PassOK(q, disk'[d], over')
    PROVE  DescentInv'
<1>1. op \in [Devices -> Operations] /\ Len(saves) \in Nat
    BY AtPlace DEF StateInv, TypeOK
<1>2. op'[d] = q /\ \A e \in Devices \ {d} : op'[e] = op[e]
    BY <1>1
<1>3. \A i \in 1..Len(saves) : i \in 1..Len(saves')
    BY <1>1
<1>4. \A m : Known(saves, m) => Known(saves', m)
    BY <1>3 DEF Known, Saved
<1>5. ASSUME NEW e \in Devices \ {d} PROVE PassOK(op[e], disk[e], over')
    <2>1. op[e].head.content \in 0..MaxContent
        BY <1>1 DEF Operations
    <2>2. QED
        BY <2>1 DEF PassOK, DescentInv, WorksInv
<1>6. WorksInv'
    BY <1>2, <1>4, <1>5 DEF DescentInv, WorksInv
<1>7. QED
    BY <1>6 DEF DescentInv

\* An operation that goes on has still to come to what it had.
LEMMA FollowsAhead ==
    ASSUME NEW o \in Operations, NEW q, Follows(o, q), NEW files, NEW later, AheadOK(o, files),
           \A f \in Files : f # o.file => later[f] = files[f]
    PROVE  AheadOK(q, later)
<1>1. CASE q = Idle
    BY <1>1 DEF AheadOK, Idle
<1>2. CASE q # Idle
    <2>1. /\ o.pc # "idle" /\ q.file = o.file /\ q.listed = o.listed /\ q.probed = o.probed
          /\ q.todo = IF q.pc = "decide" THEN o.todo \ {o.file} ELSE o.todo
          /\ Remembers(o, q)
        BY <1>2 DEF Follows
    <2>2. o.mem \in Baselines /\ o.todo \subseteq Files
        BY DEF Operations
    <2>3. \A f \in Files : f # o.file => q.mem[f] = o.mem[f]
        BY <2>1, <2>2 DEF Remembers, Baselines
    <2> SUFFICES ASSUME NEW f \in q.todo, q.pc = "decide" \/ (q.pc # "idle" /\ f # q.file)
                 PROVE  /\ f \notin q.probed => later[f] = None
                        /\ q.mem[f].server # None =>
                              \E s \in q.listed : s.file = f /\ s.content = q.mem[f].server
        BY DEF AheadOK
    <2>4. f \in o.todo /\ f # o.file /\ f \in Files
        BY <2>1, <2>2
    <2>5. QED
        BY <2>1, <2>3, <2>4 DEF AheadOK
<1>3. QED
    BY <1>1, <1>2

\* What it records is the save in hand.
LEMMA FollowsKnown ==
    ASSUME NEW o \in Operations, NEW q, Follows(o, q), NEW held, Known(held, o.mem),
           \/ q = Idle \/ q.mem = o.mem
           \/ o.pc \in {"post", "relist"} \/ Saved(held, o.file, o.head.content)
    PROVE  Known(held, q.mem)
<1>1. CASE q = Idle
    BY <1>1 DEF Known, Idle, NoBaseline
<1>2. CASE q.mem = o.mem
    BY <1>2
<1>3. CASE q # Idle /\ q.mem # o.mem
    <2>1. PICK local : q.mem = [o.mem EXCEPT ![o.file] = [local |-> local, server |-> o.head.content]]
        BY <1>3 DEF Follows, Remembers
    <2>2. o.mem \in Baselines /\ o.pc \notin {"post", "relist"}
        BY <1>3 DEF Operations, Follows, Remembers
    <2>3. \A f \in Files : q.mem[f] = IF f = o.file THEN [local |-> local, server |-> o.head.content]
                                      ELSE o.mem[f]
        BY <2>1, <2>2 DEF Baselines
    <2>4. QED
        BY <1>3, <2>2, <2>3 DEF Known
<1>4. QED
    BY <1>1, <1>2, <1>3

\* At a place of an operation.
LEMMA InDescent ==
    ASSUME StateInv, CurrentInv, DescentInv, NEW d \in Devices
    PROVE  /\ Known(saves, op[d].mem) /\ Known(saves, base[d])
           /\ AheadOK(op[d], disk[d]) /\ PassOK(op[d], disk[d], over)
BY DEF DescentInv, WorksInv

\* What becomes of the operation in a transfer or a failure.
LEMMA StepDescent ==
    ASSUME StateInv, CurrentInv, DescentInv, NEW d \in Devices,
           \/ Compare(d) \/ Post(d) \/ RecordUpload(d) \/ Relist(d)
           \/ Fetch(d) \/ Place(d) \/ Record(d)
           \/ Adopt(d) \/ Acknowledge(d) \/ AcknowledgeAgain(d)
           \/ Fails(d),
           NEW q, op' = [op EXCEPT ![d] = q]
    PROVE  /\ Follows(op[d], q) /\ Known(saves, q.mem)
           /\ \A files : (\A f \in Files : f # op[d].file => files[f] = disk[d][f]) =>
                  AheadOK(q, files)
<1> DEFINE o == op[d]
<1>1. op \in [Devices -> Operations] /\ o \in Operations
    BY DEF StateInv, TypeOK
<1>2. PICK p : Follows(o, p) /\ op' = [op EXCEPT ![d] = p]
    BY StepFollows
<1>3. p = q
    BY <1>1, <1>2
<1>4. o.pc \notin {"decide", "idle"} \/ q = Idle
    <2>1. CASE Crash(d)
        BY <1>1, <2>1 DEF Crash
    <2>2. CASE ~Crash(d)
        <3>1. CASE Fails(d)
            BY <2>2, <3>1 DEF Fails, RequestFails, AnswerLost, PlaceFails
        <3>2. CASE ~Fails(d)
            BY <3>2 DEF Compare, Post, RecordUpload, Relist, Fetch, Place, Record,
                        Adopt, Acknowledge, AcknowledgeAgain
        <3>3. QED
            BY <3>1, <3>2
    <2>3. QED
        BY <2>1, <2>2
<1>5. ASSUME q # Idle PROVE o.pc \in {"post", "relist"} \/ Saved(saves, o.file, o.head.content)
    <2>1. o.pc \in {"post", "relist"} \cup InHand
        BY <1>1, <1>4, <1>5 DEF Operations, InHand
    <2>2. HandOK(o, disk[d], saves, rows[d])
        BY InPlace
    <2>3. QED
        BY <2>1, <2>2 DEF HandOK, Saved
<1> HIDE DEF o
<1>6. Known(saves, q.mem)
    BY <1>1, <1>2, <1>3, <1>5, InDescent, FollowsKnown DEF o
<1>7. \A files : (\A f \in Files : f # o.file => files[f] = disk[d][f]) => AheadOK(q, files)
    BY <1>1, <1>2, <1>3, InDescent, FollowsAhead DEF o
<1>8. QED
    BY <1>2, <1>3, <1>6, <1>7 DEF o

\* A step that leaves what RomM and the devices have.
LEMMA QuietDescent ==
    ASSUME StateInv, CurrentInv, DescentInv, NEW d \in Devices, NEW q,
           op' = [op EXCEPT ![d] = q],
           UNCHANGED <<disk, saves, written, over>>,
           \A e \in Devices : Known(saves, base'[e]),
           Known(saves, q.mem), AheadOK(q, disk[d]), PassOK(q, disk[d], over)
    PROVE  DescentInv'
<1>1. Len(saves) \in Nat
    BY AtPlace
<1>2. LineInv' /\ ChainInv'
    BY DEF DescentInv, LineInv, ChainInv
<1>3. AheadOK(q, disk'[d]) /\ PassOK(q, disk'[d], over')
    OBVIOUS
<1>4. /\ Len(saves') \in Nat /\ Len(saves) <= Len(saves')
      /\ \A i \in 1..Len(saves) : saves'[i] = saves[i]
      /\ \A c \in 0..MaxContent : over[c] \subseteq over'[c]
      /\ \A e \in Devices \ {d} : disk'[e] = disk[e]
    BY <1>1
<1>5. QED
    BY <1>2, <1>3, <1>4, DescentOf

LEMMA TransferDescent ==
    ASSUME StateInv, CurrentInv, DescentInv, NEW d \in Devices,
           \/ Compare(d) \/ Post(d) \/ RecordUpload(d) \/ Relist(d)
           \/ Fetch(d) \/ Record(d) \/ Adopt(d) \/ Acknowledge(d) \/ AcknowledgeAgain(d)
           \/ Fails(d),
           UNCHANGED <<disk, base, saves, written, over>>,
           NEW q, op' = [op EXCEPT ![d] = q], PassOK(q, disk[d], over)
    PROVE  DescentInv'
<1>1. Known(saves, q.mem) /\ AheadOK(q, disk[d])
    BY StepDescent
<1>2. \A e \in Devices : Known(saves, base'[e])
    BY InDescent
<1>3. QED
    BY <1>1, <1>2, QuietDescent

\* Nothing measured is in use, nothing is to be placed.
Passing == Measured \cup {"fetch", "place"}

LEMMA PassOver ==
    ASSUME NEW q, q.pc \notin Passing, NEW files, NEW line
    PROVE  PassOK(q, files, line)
BY DEF PassOK, Passing

LEMMA DonePass ==
    ASSUME NEW o \in Operations, NEW files, NEW line
    PROVE  /\ PassOK(Done(o), files, line) /\ PassOK(Failed(o), files, line)
           /\ PassOK(Idle, files, line)
<1>1. Done(o).pc \notin Passing /\ Failed(o).pc \notin Passing /\ Idle.pc \notin Passing
    BY DoneLeaves DEF Passing, Measured, Idle
<1>2. QED
    BY <1>1, PassOver

LEMMA NotTakenPass ==
    ASSUME NEW d, op[d] \in Operations, NEW files, NEW line
    PROVE  PassOK(NotTaken(d), files, line)
BY DonePass DEF NotTaken

\* What was measured is still in use.
LEMMA PassStays ==
    ASSUME NEW o \in Operations, NEW files, NEW line, PassOK(o, files, line),
           o.pc \in Measured, NEW pc \in Measured
    PROVE  PassOK([o EXCEPT !.pc = pc], files, line)
<1>1. /\ [o EXCEPT !.pc = pc].pc = pc /\ [o EXCEPT !.pc = pc].local = o.local
      /\ [o EXCEPT !.pc = pc].file = o.file
    BY DEF Operations
<1>2. QED
    BY <1>1 DEF PassOK, Measured

LEMMA CompareDescent ==
    ASSUME StateInv, CurrentInv, DescentInv, NEW d \in Devices, Compare(d)
    PROVE  DescentInv'
<1>1. PICK pc \in {"adopt", "post"} : op' = [op EXCEPT ![d] = [op[d] EXCEPT !.pc = pc]]
    BY DEF Compare
<1>2. op[d].pc = "compare" /\ UNCHANGED <<disk, base, saves, written, over>>
    BY DEF Compare, deviceVars, serverVars
<1>3. PassOK([op[d] EXCEPT !.pc = pc], disk[d], over)
    BY <1>2, InPlace, InDescent, PassStays DEF Measured
<1>4. QED
    BY <1>1, <1>2, <1>3, TransferDescent

LEMMA RecordDescent ==
    ASSUME StateInv, CurrentInv, DescentInv, NEW d \in Devices, Record(d) \/ RecordUpload(d)
    PROVE  DescentInv'
<1> DEFINE o == op[d]
           p == [o EXCEPT !.mem[o.file] = [local |-> disk[d][o.file], server |-> o.head.content]]
           q == [p EXCEPT !.pc = "ack", !.local = o.head.content]
<1>1. o \in Operations /\ o.file \in Files /\ UNCHANGED <<disk, base, saves, written, over>>
    BY AtPlace DEF Record, RecordUpload, OperationOK, deviceVars, serverVars
<1>2. p \in Operations
    <2>1. disk[d][o.file] \in 0..MaxContent /\ o.head.content \in 0..MaxContent
        BY <1>1, AtPlace DEF Operations
    <2> HIDE DEF o
    <2>2. QED
        BY <1>1, <2>1, RecordedTyped
<1>3. op' = [op EXCEPT ![d] = Done(p)] \/ op' = [op EXCEPT ![d] = q]
    BY DEF Record, RecordUpload
<1> HIDE DEF p
<1>4. q.pc = "ack"
    BY <1>2 DEF Operations
<1> HIDE DEF q
<1>5. PassOK(q, disk[d], over) /\ PassOK(Done(p), disk[d], over)
    BY <1>2, <1>4, PassOver, DonePass DEF Passing, Measured
<1>6. QED
    BY <1>1, <1>3, <1>5, TransferDescent

LEMMA AdoptDescent ==
    ASSUME StateInv, CurrentInv, DescentInv, NEW d \in Devices, Adopt(d)
    PROVE  DescentInv'
<1> DEFINE o == op[d]
           q == [o EXCEPT !.pc = "ack", !.then = "recordAdopt"]
<1>1. o.pc = "adopt" /\ o \in Operations /\ UNCHANGED <<disk, base, saves, written, over>>
    BY InPlace DEF Adopt, deviceVars, serverVars
<1>2. disk[d][o.file] = o.local
    BY <1>1, InDescent DEF PassOK, Measured
<1>3. op' = [op EXCEPT ![d] = q]
    BY <1>2 DEF Adopt
<1>4. q.pc = "ack"
    BY <1>1 DEF Operations
<1> HIDE DEF q
<1>5. PassOK(q, disk[d], over)
    BY <1>4, PassOver DEF Passing, Measured
<1>6. QED
    BY <1>1, <1>3, <1>5, TransferDescent

LEMMA FetchDescent ==
    ASSUME StateInv, CurrentInv, DescentInv, NEW d \in Devices, Fetch(d)
    PROVE  DescentInv'
<1> DEFINE o == op[d]
           q == [o EXCEPT !.pc = "place", !.local = saves[o.head.id].content]
<1>1. o.pc = "fetch" /\ o \in Operations /\ UNCHANGED <<disk, base, saves, written, over>>
    BY InPlace DEF Fetch, deviceVars, serverVars
<1>2. op' = [op EXCEPT ![d] = Done(o)] \/ op' = [op EXCEPT ![d] = q]
    BY DEF Fetch
<1>3. q.pc = "place" /\ q.file = o.file /\ q.head = o.head /\ q.kind = o.kind
    BY <1>1 DEF Operations
<1> HIDE DEF q
<1>4. PassOK(q, disk[d], over)
    BY <1>1, <1>3, InDescent DEF PassOK, Measured
<1>5. QED
    BY <1>1, <1>2, <1>4, DonePass, TransferDescent

LEMMA AcknowledgeDescent ==
    ASSUME StateInv, CurrentInv, DescentInv, NEW d \in Devices, Acknowledge(d) \/ AcknowledgeAgain(d)
    PROVE  DescentInv'
<1> DEFINE o == op[d]
           again == [o EXCEPT !.pc = "ackAgain"]
           p == [o EXCEPT !.mem[o.file] = [local |-> o.local, server |-> o.head.content]]
<1>1. /\ o.pc \in {"ack", "ackAgain"} /\ o \in Operations /\ o.then # "none"
      /\ UNCHANGED <<disk, base, saves, written, over>>
    BY AtPlace DEF Acknowledge, AcknowledgeAgain, OperationOK, Confirm, deviceVars
<1>2. \E q \in {Acknowledged(o), NotTaken(d), again} : op' = [op EXCEPT ![d] = q]
    BY DEF Acknowledge, AcknowledgeAgain
<1>3. PassOK(again, disk[d], over)
    <2>1. again.pc = "ackAgain"
        BY <1>1 DEF Operations
    <2> HIDE DEF again
    <2>2. QED
        BY <2>1, PassOver DEF Passing, Measured
<1>4. PassOK(Acknowledged(o), disk[d], over)
    <2>1. CASE o.then = "record"
        <3>1. Acknowledged(o).pc = "record"
            BY <1>1, <2>1 DEF Acknowledged, Operations
        <3>2. QED
            BY <3>1, PassOver DEF Passing, Measured
    <2>2. CASE o.then = "recordAdopt"
        <3>1. o.local \in 0..MaxContent /\ o.head.content \in 0..MaxContent
            BY <1>1 DEF Operations
        <3>2. p \in Operations
            <4> HIDE DEF o
            <4>1. QED
                BY <1>1, <3>1, RecordedTyped
        <3>3. Acknowledged(o) = Done(p)
            BY <2>2 DEF Acknowledged
        <3> HIDE DEF p
        <3>4. QED
            BY <3>2, <3>3, DonePass
    <2>3. CASE o.then = "done"
        <3>1. Acknowledged(o) = Done(o)
            BY <2>3 DEF Acknowledged
        <3>2. QED
            BY <1>1, <3>1, DonePass
    <2>4. QED
        BY <1>1, <2>1, <2>2, <2>3 DEF Operations
<1>5. PassOK(NotTaken(d), disk[d], over)
    BY <1>1, NotTakenPass
<1> HIDE DEF again, p
<1>6. PICK q \in {Acknowledged(o), NotTaken(d), again} : op' = [op EXCEPT ![d] = q]
    BY <1>2
<1>7. PassOK(q, disk[d], over)
    BY <1>3, <1>4, <1>5
<1>8. QED
    BY <1>1, <1>6, <1>7, TransferDescent

LEMMA FailsDescent ==
    ASSUME StateInv, CurrentInv, DescentInv, NEW d \in Devices, RequestFails(d) \/ Crash(d)
    PROVE  DescentInv'
<1> DEFINE o == op[d]
           p == [o EXCEPT !.pc = "post"]
<1>1. o \in Operations /\ Fails(d) /\ UNCHANGED <<disk, base, saves, written, over>>
    BY InPlace DEF RequestFails, Crash, deviceVars, serverVars, Fails
<1>2. \/ o.pc = "compare" /\ op' = [op EXCEPT ![d] = p]
      \/ \E q \in {Failed(o), NotTaken(d), Idle} : op' = [op EXCEPT ![d] = q]
    BY DEF RequestFails, Crash
<1>3. o.pc = "compare" => PassOK(p, disk[d], over)
    BY <1>1, InDescent, PassStays DEF Measured
<1> HIDE DEF p
<1>4. \A q \in {Failed(o), NotTaken(d), Idle} : PassOK(q, disk[d], over)
    BY <1>1, DonePass, NotTakenPass
<1>5. QED
    BY <1>1, <1>2, <1>3, <1>4, TransferDescent

\* The newest of a file's listed saves supersedes each of them.
LEMMA ListedDescent ==
    ASSUME StateInv, CurrentInv, DescentInv, NEW listed, listed \subseteq Listed,
           \A s \in listed : s.id \in 1..Len(saves) /\ s.upd = s.id
                             /\ s.content = saves[s.id].content /\ s.file = saves[s.id].file,
           NEW f, NEW s \in listed, s.file = f
    PROVE  LET head == Named(Newest(Group(listed, f)))
           IN  s.content \in over[head.content] /\ Saved(saves, f, head.content)
<1> DEFINE newest == Newest(Group(listed, f))
<1>1. s \in Group(listed, f)
    BY DEF Group
<1>2. newest \in Group(listed, f) /\ s.upd <= newest.upd
    BY <1>1, NewestIsLast
<1> HIDE DEF newest
<1>3. newest \in listed /\ newest.file = f
    BY <1>2 DEF Group
<1>4. /\ s.id \in 1..Len(saves) /\ newest.id \in 1..Len(saves) /\ s.id <= newest.id
      /\ saves[s.id].file = f /\ saves[newest.id].file = f
      /\ saves[newest.id].content = newest.content /\ saves[s.id].content = s.content
    BY <1>2, <1>3
<1>5. s.content \in over[newest.content]
    BY <1>4 DEF DescentInv, ChainInv
<1>6. Named(newest).content = newest.content
    BY DEF Named
<1>7. QED
    BY <1>4, <1>5, <1>6 DEF Saved, newest

LEMMA DecideDescent ==
    ASSUME StateInv, CurrentInv, DescentInv, NEW d \in Devices, Decide(d)
    PROVE  DescentInv'
<1> DEFINE o == op[d]
<1>1. /\ o.pc = "decide" /\ UNCHANGED <<disk, base, saves, written, over>>
      /\ o \in Operations /\ o.todo \subseteq Files /\ o.listed \subseteq Listed
      /\ Even(o.mem) /\ o.mem \in Baselines
    BY InPlace DEF Decide, deviceVars, serverVars, Operations
<1>2. PICK f \in o.todo, local \in 0..MaxContent,
           head \in [id : 0..MaxSaves, content : 0..MaxContent] : Decides(d, f, local, head)
    BY DecideOutcome
<1> DEFINE t == [o EXCEPT !.file = f, !.head = head]
           at(pc) == [[o EXCEPT !.file = f] EXCEPT !.pc = pc, !.local = local, !.head = head]
           group == Group(o.listed, f)
<1>3. PICK q : /\ Follows(t, q) /\ op' = [op EXCEPT ![d] = q]
               /\ q.mem = o.mem \/ group # {}
    BY <1>1, <1>2, DecideFollows
<1>4. /\ t \in Operations /\ t.pc = "decide" /\ t.file = f /\ t.head = head /\ t.mem = o.mem
      /\ t.todo = o.todo /\ t.probed = o.probed /\ t.listed = o.listed /\ f \in Files
    BY <1>1, <1>2 DEF Operations
<1>5. \A s \in o.listed : s.id \in 1..Len(saves) /\ s.upd = s.id
                          /\ s.content = saves[s.id].content /\ s.file = saves[s.id].file
    BY InPlace DEF ListedOK
<1>6. /\ f \notin o.probed => disk[d][f] = None
      /\ o.mem[f].server # None => \E s \in o.listed : s.file = f /\ s.content = o.mem[f].server
    BY <1>1, <1>2, InDescent DEF AheadOK
<1>7. group # {} => head = Named(Newest(group))
    BY <1>2 DEF Decides
<1> HIDE DEF t, o
<1>8. ASSUME NEW s \in group PROVE s.content \in over[head.content] /\ Saved(saves, f, head.content)
    <2>1. s \in o.listed /\ s.file = f
        BY DEF Group
    <2>2. head = Named(Newest(group))
        BY <1>7
    <2>3. QED
        BY <1>1, <1>5, <2>1, <2>2, ListedDescent
<1>9. group # {} => Saved(saves, f, head.content)
    BY <1>8
<1>10. Known(saves, q.mem)
    BY <1>3, <1>4, <1>9, InDescent, FollowsKnown DEF o
<1>11. AheadOK(q, disk[d])
    <2>1. AheadOK(t, disk[d])
        <3>1. AheadOK(o, disk[d])
            BY InDescent DEF o
        <3>2. QED
            BY <1>1, <1>4, <3>1 DEF AheadOK
    <2>2. QED
        BY <1>3, <1>4, <2>1, FollowsAhead
<1>12. /\ local = IF f \in o.probed THEN disk[d][f] ELSE None
       /\ \/ q.pc = "decide"
          \/ q = at("adopt") /\ local # None
          \/ q = at("post") /\ local # None
          \/ q = at("fetch") /\ local \in {None, o.mem[f].local}
    <2>1. op'[d] = q
        BY <1>3 DEF StateInv, TypeOK
    <2>2. /\ [o EXCEPT !.file = f] \in Operations
          /\ [o EXCEPT !.file = f, !.mem[f] = [local |-> local, server |-> head.content]] \in Operations
          /\ [o EXCEPT !.file = f].mem = o.mem /\ [o EXCEPT !.file = f].probed = o.probed
        BY <1>1, <1>4 DEF Operations, Baselines
    <2> DEFINE r == [o EXCEPT !.file = f]
               p == [r EXCEPT !.mem[f] = [local |-> local, server |-> head.content]]
    <2>3. r \in Operations /\ p \in Operations
        <3>1. r \in Operations /\ head.content \in 0..MaxContent
            BY <2>2
        <3> HIDE DEF r
        <3>2. QED
            BY <3>1, RecordedTyped
    <2>4. \/ op' = [op EXCEPT ![d] = Done(r)]
          \/ op' = [op EXCEPT ![d] = Done(p)]
          \/ op' = [op EXCEPT ![d] = at("adopt")] /\ local # None
          \/ op' = [op EXCEPT ![d] = at("post")] /\ local # None
          \/ op' = [op EXCEPT ![d] = at("fetch")] /\ local \in {None, r.mem[f].local}
        BY <1>2 DEF Decides, o
    <2>5. local = IF f \in r.probed THEN disk[d][f] ELSE None
        BY <1>2 DEF Decides, o
    <2>6. r.mem = o.mem /\ r.probed = o.probed
        BY <2>2
    <2> HIDE DEF r, p
    <2>7. Done(r).pc = "decide" /\ Done(p).pc = "decide"
        BY <2>3, DoneLeaves
    <2>8. op \in [Devices -> Operations]
        BY DEF StateInv, TypeOK
    <2> HIDE DEF at
    <2>9. \/ q = Done(r)
          \/ q = Done(p)
          \/ q = at("adopt") /\ local # None
          \/ q = at("post") /\ local # None
          \/ q = at("fetch") /\ local \in {None, r.mem[f].local}
        BY <2>1, <2>4, <2>8
    <2>10. QED
        BY <2>5, <2>6, <2>7, <2>9
<1>13. \A pc \in {"adopt", "post", "fetch"} :
           at(pc).pc = pc /\ at(pc).file = f /\ at(pc).local = local /\ at(pc).head = head
    BY <1>1 DEF Operations
<1> HIDE DEF at
<1>14. ASSUME local \in {None, o.mem[f].local} PROVE disk[d][f] = None \/ disk[d][f] \in over[head.content]
    <2>1. CASE local = None
        BY <1>6, <1>12, <2>1
    <2>2. CASE local # None
        <3>1. local = o.mem[f].server /\ local = disk[d][f]
            BY <1>1, <1>4, <1>12, <1>14, <2>2 DEF Even
        <3>2. PICK s \in o.listed : s.file = f /\ s.content = local
            BY <1>6, <2>2, <3>1
        <3>3. s \in group
            BY <3>2 DEF Group
        <3>4. QED
            BY <1>8, <3>1, <3>2, <3>3
    <2>3. QED
        BY <2>1, <2>2
<1>15. PassOK(q, disk[d], over)
    <2>1. CASE q.pc = "decide"
        BY <2>1 DEF PassOK, Measured
    <2>2. CASE (q = at("adopt") \/ q = at("post")) /\ local # None
        BY <1>12, <1>13, <2>2 DEF PassOK, Measured
    <2>3. CASE q = at("fetch") /\ local \in {None, o.mem[f].local}
        BY <1>13, <1>14, <2>3 DEF PassOK, Measured
    <2>4. QED
        BY <1>12, <2>1, <2>2, <2>3
<1>16. \A e \in Devices : Known(saves, base'[e])
    BY <1>1, InDescent
<1>17. QED
    BY <1>1, <1>3, <1>10, <1>11, <1>15, <1>16, QuietDescent

\* What RomM holds is listed.
LEMMA SavedIsListed ==
    ASSUME StateInv, CurrentInv, NEW d \in Devices, NEW f, NEW c, Saved(saves, f, c)
    PROVE  \E s \in Listing(saves, rows[d]) : s.file = f /\ s.content = c
<1>1. PICK i \in 1..Len(saves) : saves[i].file = f /\ saves[i].content = c
    BY DEF Saved
<1>2. PICK s \in Listing(saves, rows[d]) : s.id = i
    BY ListingOK
<1>3. s.content = saves[i].content /\ s.file = saves[i].file
    BY <1>2, ListingOK
<1>4. QED
    BY <1>1, <1>3

LEMMA RelistDescent ==
    ASSUME StateInv, CurrentInv, DescentInv, NEW d \in Devices, Relist(d)
    PROVE  DescentInv'
<1> DEFINE o == op[d]
           f == o.file
           listed == Listing(saves, rows[d])
           fresh == Newest(Group(listed, f))
           q == [o EXCEPT !.pc = "fetch", !.head = Named(fresh)]
<1>1. /\ o.pc = "relist" /\ o \in Operations /\ f \in Files
      /\ UNCHANGED <<disk, base, saves, written, over>>
    BY AtPlace DEF Relist, OperationOK, deviceVars, serverVars
<1>2. /\ o.local = disk[d][f] /\ Known(saves, o.mem) /\ Even(o.mem)
    BY <1>1, InPlace, InDescent DEF PassOK, Measured
<1>3. \/ op' = [op EXCEPT ![d] = Failed(o)]
      \/ op' = [op EXCEPT ![d] = Done(o)]
      \/ /\ op' = [op EXCEPT ![d] = q] /\ Group(listed, f) # {}
         /\ Redecided(o, fresh) = "download"
    BY DEF Relist
<1>4. q.pc = "fetch" /\ q.file = f /\ q.head = Named(fresh)
    BY <1>1 DEF Operations
<1> HIDE DEF q
<1>5. CASE /\ op' = [op EXCEPT ![d] = q] /\ Group(listed, f) # {}
           /\ Redecided(o, fresh) = "download"
    <2>1. /\ listed \subseteq Listed
          /\ \A s \in listed : s.id \in 1..Len(saves) /\ s.upd = s.id
                      /\ s.content = saves[s.id].content /\ s.file = saves[s.id].file
        BY ListingOK
    <2>2. \/ o.local = o.mem[f].local /\ o.mem[f].local # None
          \/ o.local = fresh.content
        BY <1>5 DEF Redecided, UploadConflict
    <2>3. \E s \in listed : s.file = f /\ s.content = o.local
        <3>1. CASE o.local = o.mem[f].local /\ o.mem[f].local # None
            <4>1. o.mem[f].server = o.local /\ o.mem[f].server # None
                BY <1>1, <1>2, <3>1 DEF Even
            <4>2. Saved(saves, f, o.local)
                BY <1>1, <1>2, <4>1 DEF Known
            <4>3. QED
                BY <4>2, SavedIsListed
        <3>2. CASE o.local = fresh.content
            <4> HIDE DEF listed
            <4>1. fresh \in Group(listed, f)
                BY <1>5, <2>1, NewestIsLast
            <4>2. QED
                BY <3>2, <4>1 DEF Group
        <3>3. QED
            BY <2>2, <3>1, <3>2
    <2> HIDE DEF listed
    <2>4. o.local \in over[Named(fresh).content]
        BY <2>1, <2>3, ListedDescent
    <2>5. PassOK(q, disk[d], over)
        BY <1>2, <1>4, <2>4 DEF PassOK, Measured
    <2>6. QED
        BY <1>1, <1>5, <2>5, TransferDescent
<1>6. CASE op' = [op EXCEPT ![d] = Failed(o)] \/ op' = [op EXCEPT ![d] = Done(o)]
    BY <1>1, <1>6, DonePass, TransferDescent
<1>7. QED
    BY <1>3, <1>5, <1>6

LEMMA StartDescent ==
    ASSUME StateInv, CurrentInv, DescentInv, NEW d \in Devices, NEW kind \in Syncs, Start(d, kind)
    PROVE  DescentInv'
<1> DEFINE listed == Listing(saves, rows[d])
           probed == {f \in Files : disk[d][f] # None}
           q == [Idle EXCEPT !.pc = "decide", !.kind = kind, !.mem = base[d], !.listed = listed,
                             !.probed = probed, !.todo = probed \cup {s.file : s \in listed}]
<1>1. UNCHANGED <<disk, base, saves, written, over>> /\ op' = [op EXCEPT ![d] = q]
    BY DEF Start, deviceVars, serverVars
<1>2. /\ q.pc = "decide" /\ q.mem = base[d] /\ q.listed = listed /\ q.probed = probed
      /\ q.todo = probed \cup {s.file : s \in listed}
    BY DEF Idle
<1> HIDE DEF q
<1>3. \A f \in q.todo : f \in Files
    BY <1>2, ListingTyped DEF Listed
<1>4. AheadOK(q, disk[d])
    <2> SUFFICES ASSUME NEW f \in q.todo
                 PROVE  /\ f \notin q.probed => disk[d][f] = None
                        /\ q.mem[f].server # None =>
                              \E s \in q.listed : s.file = f /\ s.content = q.mem[f].server
        BY DEF AheadOK
    <2>1. f \notin q.probed => disk[d][f] = None
        BY <1>2, <1>3
    <2>2. q.mem[f].server # None => Saved(saves, f, q.mem[f].server)
        BY <1>2, <1>3, InDescent DEF Known
    <2>3. QED
        BY <1>2, <2>1, <2>2, SavedIsListed
<1>5. PassOK(q, disk[d], over)
    BY <1>2 DEF PassOK, Measured
<1>6. Known(saves, q.mem) /\ \A e \in Devices : Known(saves, base'[e])
    BY <1>1, <1>2, InDescent
<1>7. QED
    BY <1>1, <1>4, <1>5, <1>6, QuietDescent

LEMMA ResolveDescent ==
    ASSUME StateInv, CurrentInv, DescentInv, NEW d \in Devices, NEW f \in Files, NEW kind \in Resolutions,
           Resolve(d, f, kind)
    PROVE  DescentInv'
<1> DEFINE id == SlotHead(saves)
           o == [Idle EXCEPT !.kind = kind, !.mem = base[d], !.file = f, !.todo = {f},
                             !.head = [id |-> id, content |-> saves[id].content]]
           fetches == [o EXCEPT !.pc = "fetch"]
           compares == [o EXCEPT !.pc = "compare", !.local = disk[d][f]]
<1>1. /\ UNCHANGED <<disk, base, saves, written, over>>
      /\ op' = op \/ \E q \in {fetches, compares} : op' = [op EXCEPT ![d] = q]
    BY DEF Resolve, deviceVars, serverVars
<1>2. /\ fetches.pc = "fetch" /\ fetches.file = f /\ fetches.kind = kind
      /\ fetches.mem = base[d] /\ fetches.todo = {f}
      /\ compares.pc = "compare" /\ compares.file = f /\ compares.local = disk[d][f]
      /\ compares.mem = base[d] /\ compares.todo = {f}
    BY DEF Idle
<1> HIDE DEF fetches, compares
<1>3. kind \notin Syncs
    BY SaveAssumption DEF Resolutions
<1>4. op = [op EXCEPT ![d] = op[d]]
    BY DEF StateInv, TypeOK
<1>5. \A q \in {fetches, compares} :
          Known(saves, q.mem) /\ AheadOK(q, disk[d]) /\ PassOK(q, disk[d], over)
    BY <1>2, <1>3, InDescent DEF AheadOK, PassOK, Measured
<1>6. \A e \in Devices : Known(saves, base'[e])
    BY <1>1, InDescent
<1>7. PICK q \in {op[d], fetches, compares} : op' = [op EXCEPT ![d] = q]
    BY <1>1, <1>4
<1>8. Known(saves, q.mem) /\ AheadOK(q, disk[d]) /\ PassOK(q, disk[d], over)
    BY <1>5, InDescent
<1>9. QED
    BY <1>1, <1>6, <1>7, <1>8, QuietDescent

LEMMA FinishDescent ==
    ASSUME StateInv, CurrentInv, DescentInv, NEW d \in Devices, Finish(d)
    PROVE  DescentInv'
<1>1. /\ UNCHANGED <<disk, saves, written, over>>
      /\ base' = [base EXCEPT ![d] = op[d].mem] /\ op' = [op EXCEPT ![d] = Idle]
    BY DEF Finish, serverVars
<1>2. \A e \in Devices : Known(saves, base'[e])
    BY <1>1, InDescent DEF StateInv, TypeOK
<1>3. Known(saves, Idle.mem) /\ AheadOK(Idle, disk[d]) /\ PassOK(Idle, disk[d], over)
    BY DEF Known, AheadOK, PassOK, Measured, Idle, NoBaseline
<1>4. QED
    BY <1>1, <1>2, <1>3, QuietDescent

\* Where the user chose one side, what it superseded goes with it.
LEMMA ChosenLine ==
    ASSUME StateInv, LineInv, NEW winner \in 0..MaxContent, winner \in over[winner],
           NEW loser \in 0..MaxContent, Choose(winner, loser), written' = written
    PROVE  LineInv' /\ over'[winner] = over[winner] \cup over[loser]
<1>1. /\ over \in [0..MaxContent -> SUBSET Contents]
      /\ \A c \in 0..MaxContent :
            over'[c] = IF winner \in over[c] THEN over[c] \cup over[loser] ELSE over[c]
    BY DEF Choose, StateInv, TypeOK
<1>2. \A c \in 0..MaxContent : \A x \in over[c] : x \in 0..MaxContent
    BY <1>1 DEF Contents
<1>3. ASSUME NEW c \in 0..MaxContent, NEW x \in over'[c]
      PROVE  c <= written /\ x <= written /\ over'[x] \subseteq over'[c]
    <2>1. CASE x \in over[c]
        <3>1. c <= written /\ x <= written /\ over[x] \subseteq over[c] /\ x \in 0..MaxContent
            BY <1>2, <2>1 DEF LineInv
        <3>2. QED
            BY <1>1, <3>1
    <2>2. CASE x \notin over[c]
        <3>1. winner \in over[c] /\ x \in over[loser]
            BY <1>1, <2>2
        <3>2. c <= written /\ x <= written /\ over[x] \subseteq over[loser] /\ x \in 0..MaxContent
            BY <1>2, <3>1 DEF LineInv
        <3>3. QED
            BY <1>1, <3>1, <3>2
    <2>3. QED
        BY <2>1, <2>2
<1>4. QED
    BY <1>1, <1>3 DEF LineInv

LEMMA PassGrows ==
    ASSUME NEW o \in Operations, NEW files, NEW line, NEW later, PassOK(o, files, line),
           \A c \in 0..MaxContent : line[c] \subseteq later[c]
    PROVE  PassOK(o, files, later)
<1>1. o.head.content \in 0..MaxContent
    BY DEF Operations
<1>2. QED
    BY <1>1 DEF PassOK

\* A save made of the device's file.
LEMMA CreateDescent ==
    ASSUME StateInv, WorkInv, CurrentInv, DescentInv, MaxReplaced = 0, \A f, g \in Files : f = g,
           NEW d \in Devices, Post(d) \/ Fails(d), op[d].pc = "post",
           ~PostRefused(saves, rows[d], Overwrites(op[d])),
           Len(saves) < MaxSaves,
           Create(d, op[d].file, disk[d][op[d].file]),
           KeptOver(d, disk[d][op[d].file]),
           UNCHANGED <<deviceVars, shown, written, replaced>>,
           NEW q, op' = [op EXCEPT ![d] = q], q = op[d] \/ q.pc \notin Passing
    PROVE  DescentInv'
<1> DEFINE f == op[d].file
           content == disk[d][f]
           n == Len(saves) + 1
           last == FileHead(saves, f)
           loser == saves[last].content
<1>1. /\ f \in Files /\ content \in 0..MaxContent /\ content \in Contents
      /\ content \in over[content]
    <2>1. f \in Files /\ content # None /\ content \in 0..MaxContent
        BY AtPlace DEF OperationOK, HasFile
    <2>2. content \in 1..written
        BY <2>1 DEF WorkInv, ValuesInv, None, StateInv, TypeOK
    <2>3. QED
        BY <2>1, <2>2 DEF WorkInv, OverInv, Contents, None
<1>2. /\ Len(saves) \in Nat /\ saves \in Seq(SaveType) /\ UNCHANGED <<disk, base>>
      /\ op[d] \in Operations
    BY InPlace, WorldOf DEF WorldTyped, deviceVars
<1>3. /\ Len(saves') = n /\ \A i \in 1..Len(saves) : saves'[i] = saves[i]
      /\ saves'[n].content = content
    BY <1>1, CreateTyped
<1>4. \A i \in 1..n : i = n \/ i \in 1..Len(saves)
    BY <1>2
<1>5. \A i \in 1..Len(saves) : saves[i].file = f /\ saves[i].content \in 0..MaxContent
    <2>1. \A i \in 1..Len(saves) : saves[i].file \in Files /\ saves[i].content \in 0..MaxContent
        BY AtPlace, SavedValues DEF SaveType
    <2>2. QED
        BY <1>1, <2>1
<1>6. \A c \in 0..MaxContent : over[c] \subseteq over'[c]
    BY KeptOverTyped
<1>7. ASSUME Len(saves) # 0
      PROVE  /\ last \in 1..Len(saves) /\ last # 0
             /\ \A i \in 1..Len(saves) : saves[i].content \in over[loser]
    <2>1. 1 \in 1..Len(saves)
        BY <1>2, <1>7
    <2>2. last \in 1..Len(saves) /\ \A j \in 1..Len(saves) : saves[j].file = f => j <= last
        BY <1>5, <2>1, FileHeadLast
    <2>3. QED
        BY <1>2, <1>5, <2>2 DEF DescentInv, ChainInv
<1>8. /\ LineInv'
      /\ Len(saves) # 0 => over[loser] \subseteq over'[content]
    <2>1. CASE Len(saves) # 0 /\ op[d].kind = "keepLocal"
        <3>1. Choose(content, loser)
            BY <1>7, <2>1 DEF KeptOver
        <3>2. loser \in 0..MaxContent
            BY <1>5, <1>7, <2>1
        <3> HIDE DEF content, loser
        <3>3. QED
            BY <1>1, <3>1, <3>2, ChosenLine DEF DescentInv
    <2>2. CASE Len(saves) = 0 \/ op[d].kind # "keepLocal"
        <3>1. UNCHANGED over
            <4>1. Len(saves) = 0 => last = 0
                BY FileHeadTyped, <1>2
            <4>2. QED
                BY <2>2, <4>1 DEF KeptOver
        <3>2. LineInv'
            BY <3>1 DEF DescentInv, LineInv
        <3>3. ASSUME Len(saves) # 0 PROVE over[loser] \subseteq over[content]
            <4>1. saves[Len(saves)].content \in over[content]
                BY <2>2, <3>3, TakenPlaysOn DEF Overwrites
            <4>2. Len(saves) \in 1..Len(saves)
                BY <1>2, <3>3
            <4>3. last = Len(saves)
                <5>1. \A j \in 1..Len(saves) : saves[j].file = f => j <= last
                    BY <1>7, <3>3, FileHeadLast
                <5>2. QED
                    BY <1>2, <1>5, <1>7, <3>3, <4>2, <5>1
            <4> HIDE DEF content
            <4>4. QED
                BY <1>1, <4>1, <4>3 DEF DescentInv, LineInv
        <3>4. QED
            BY <3>1, <3>2, <3>3
    <2>3. QED
        BY <2>1, <2>2
<1> HIDE DEF last, loser
<1>9. ChainInv'
    <2> SUFFICES ASSUME NEW i \in 1..n, NEW j \in 1..n, saves'[i].file = saves'[j].file, i <= j
                 PROVE  saves'[i].content \in over'[saves'[j].content]
        BY <1>3 DEF ChainInv
    <2>1. CASE j # n
        <3>1. i \in 1..Len(saves) /\ j \in 1..Len(saves)
            BY <1>2, <1>4, <2>1
        <3>2. saves[i].content \in over[saves[j].content]
            BY <1>3, <3>1 DEF DescentInv, ChainInv
        <3>3. QED
            BY <1>3, <1>5, <1>6, <3>1, <3>2
    <2>2. CASE i = n /\ j = n
        BY <1>1, <1>3, <1>6, <2>2
    <2>3. CASE i # n /\ j = n
        <3>1. i \in 1..Len(saves) /\ Len(saves) # 0
            BY <1>2, <1>4, <2>3
        <3>2. QED
            BY <1>3, <1>7, <1>8, <2>3, <3>1
    <2>4. QED
        BY <2>1, <2>2, <2>3
<1> HIDE DEF f, content
<1>10. Known(saves, q.mem) /\ AheadOK(q, disk[d])
    BY StepDescent DEF f
<1>11. PassOK(q, disk[d], over')
    <2>1. PassOK(op[d], disk[d], over')
        BY <1>2, <1>6, InDescent, PassGrows
    <2>2. QED
        BY <2>1, PassOver
<1>12. \A e \in Devices : Known(saves, base'[e])
    BY <1>2, InDescent
<1>13. Len(saves') \in Nat /\ Len(saves) <= Len(saves')
    BY <1>2, <1>3
<1>14. \A e \in Devices \ {d} : disk'[e] = disk[e]
    BY <1>2
<1>15. AheadOK(q, disk'[d]) /\ PassOK(q, disk'[d], over')
    BY <1>2, <1>10, <1>11
<1>16. QED
    BY <1>3, <1>6, <1>8, <1>9, <1>10, <1>12, <1>13, <1>14, <1>15, DescentOf

LEMMA PostDescent ==
    ASSUME StateInv, WorkInv, CurrentInv, DescentInv, MaxReplaced = 0, \A f, g \in Files : f = g,
           NEW d \in Devices, Post(d)
    PROVE  DescentInv'
<1> DEFINE o == op[d]
           content == disk[d][o.file]
           refused == [o EXCEPT !.pc = "relist"]
           head(id) == [id |-> id, content |-> content]
           repeated(id, then) == [o EXCEPT !.pc = "recordUpload", !.head = head(id), !.then = then]
           made == [o EXCEPT !.pc = "recordUpload", !.head = head(Len(saves) + 1)]
<1>1. o.pc = "post" /\ o \in Operations /\ UNCHANGED <<deviceVars, shown, written, boundVars>>
    BY InPlace DEF Post
<1>2. /\ made.pc = "recordUpload"
      /\ \A id, then : repeated(id, then).pc = "recordUpload"
    BY <1>1 DEF Operations
<1>3. PassOK(refused, disk[d], over)
    BY <1>1, InDescent, PassStays DEF Measured
<1>4. \/ op' = [op EXCEPT ![d] = refused] /\ UNCHANGED <<serverVars, over>>
      \/ \E id, then : op' = [op EXCEPT ![d] = repeated(id, then)] /\ UNCHANGED <<serverVars, over>>
      \/ /\ ~PostRefused(saves, rows[d], Overwrites(o))
         /\ Len(saves) < MaxSaves /\ Create(d, o.file, content) /\ KeptOver(d, content)
         /\ op' = [op EXCEPT ![d] = made]
    BY DEF Post
<1> HIDE DEF refused, repeated, made
<1>5. UNCHANGED <<serverVars, over>> => UNCHANGED <<disk, base, saves, written, over>>
    BY <1>1 DEF serverVars, deviceVars
<1>6. CASE op' = [op EXCEPT ![d] = refused] /\ UNCHANGED <<serverVars, over>>
    BY <1>3, <1>5, <1>6, TransferDescent
<1>7. ASSUME NEW id, NEW then,
             op' = [op EXCEPT ![d] = repeated(id, then)], UNCHANGED <<serverVars, over>>
      PROVE  DescentInv'
    <2>1. PassOK(repeated(id, then), disk[d], over)
        BY <1>2, PassOver DEF Passing, Measured
    <2>2. QED
        BY <1>5, <1>7, <2>1, TransferDescent
<1>8. CASE /\ ~PostRefused(saves, rows[d], Overwrites(o))
           /\ Len(saves) < MaxSaves /\ Create(d, o.file, content) /\ KeptOver(d, content)
           /\ op' = [op EXCEPT ![d] = made]
    <2>1. UNCHANGED <<deviceVars, shown, written, replaced>> /\ made.pc \notin Passing
        BY <1>1, <1>2 DEF boundVars, Passing, Measured
    <2>2. QED
        BY <1>1, <1>8, <2>1, CreateDescent
<1>9. QED
    BY <1>4, <1>6, <1>7, <1>8

LEMMA AnswerLostDescent ==
    ASSUME StateInv, WorkInv, CurrentInv, DescentInv, MaxReplaced = 0, \A f, g \in Files : f = g,
           NEW d \in Devices, AnswerLost(d)
    PROVE  DescentInv'
<1> DEFINE o == op[d]
           q == [o EXCEPT !.pc = "ack"]
<1>1. UNCHANGED <<deviceVars, shown, written, replaced>> /\ o \in Operations /\ Fails(d)
    BY InPlace DEF AnswerLost, Fails
<1>2. CASE /\ o.pc = "post" /\ ~PostRefused(saves, rows[d], Overwrites(o)) /\ Len(saves) < MaxSaves
           /\ KeptOver(d, disk[d][o.file]) /\ Create(d, o.file, disk[d][o.file])
           /\ op' = op
    <2>1. op' = [op EXCEPT ![d] = o]
        BY <1>2 DEF StateInv, TypeOK
    <2>2. QED
        BY <1>1, <1>2, <2>1, CreateDescent
<1>3. CASE /\ o.pc \in {"ack", "ackAgain"} /\ Confirm(d, o.head.id)
           /\ op' = [op EXCEPT ![d].pc = "ack"] /\ UNCHANGED over
    <2>1. q.pc = "ack" /\ op' = [op EXCEPT ![d] = q]
        BY <1>1, <1>3 DEF Operations
    <2>2. UNCHANGED <<disk, base, saves, written, over>>
        BY <1>1, <1>3 DEF deviceVars, Confirm
    <2> HIDE DEF q
    <2>3. PassOK(q, disk[d], over)
        BY <2>1, PassOver DEF Passing, Measured
    <2>4. QED
        BY <1>1, <2>1, <2>2, <2>3, TransferDescent
<1>4. QED
    BY <1>2, <1>3 DEF AnswerLost

LEMMA PlaceDescent ==
    ASSUME StateInv, CurrentInv, DescentInv, NEW d \in Devices, Place(d)
    PROVE  DescentInv'
<1> DEFINE o == op[d]
           q == [o EXCEPT !.pc = "ack", !.then = "record"]
<1>1. /\ o \in Operations /\ disk' = [disk EXCEPT ![d][o.file] = o.local]
      /\ op' = [op EXCEPT ![d] = q] /\ UNCHANGED <<base, saves, written, over>>
    BY InPlace DEF Place, serverVars
<1>2. q.pc = "ack"
    BY <1>1 DEF Operations
<1>3. /\ \A e \in Devices \ {d} : disk'[e] = disk[e]
      /\ \A f \in Files : f # o.file => disk'[d][f] = disk[d][f]
    BY <1>1 DEF StateInv, TypeOK
<1> HIDE DEF q
<1>4. /\ Known(saves, q.mem)
      /\ \A files : (\A f \in Files : f # o.file => files[f] = disk[d][f]) => AheadOK(q, files)
    BY <1>1, StepDescent
<1>5. PassOK(q, disk'[d], over') /\ AheadOK(q, disk'[d])
    BY <1>2, <1>3, <1>4, PassOver DEF Passing, Measured
<1>6. \A e \in Devices : Known(saves, base'[e])
    BY <1>1, InDescent
<1>7. LineInv' /\ ChainInv'
    BY <1>1 DEF DescentInv, LineInv, ChainInv
<1>8. /\ Len(saves') \in Nat /\ Len(saves) <= Len(saves')
      /\ \A i \in 1..Len(saves) : saves'[i] = saves[i]
      /\ \A c \in 0..MaxContent : over[c] \subseteq over'[c]
    BY <1>1, AtPlace
<1>9. QED
    BY <1>1, <1>3, <1>4, <1>5, <1>6, <1>7, <1>8, DescentOf

\* Between operations, nothing is ahead and nothing is to be placed.
LEMMA IdleDescent ==
    ASSUME NEW o, o.pc = "idle", NEW files, NEW line
    PROVE  AheadOK(o, files) /\ PassOK(o, files, line)
BY DEF AheadOK, PassOK, Measured

\* A new content supersedes what it was played on from, and what that did.
LEMMA GameWritesDescent ==
    ASSUME StateInv, WorkInv, CurrentInv, DescentInv, NEW d \in Devices, NEW f \in Files,
           GameWrites(d, f)
    PROVE  DescentInv'
<1> DEFINE new == written + 1
           from == game[d].loaded[f]
<1>1. /\ game[d].running /\ written < MaxContent /\ written' = new
      /\ disk' = [disk EXCEPT ![d][f] = new] /\ Write(new, from)
      /\ UNCHANGED <<base, op, saves>>
    BY DEF GameWrites, serverVars
<1>2. /\ written \in 0..MaxContent /\ from \in 0..MaxContent
      /\ over \in [0..MaxContent -> SUBSET Contents]
      /\ new \in 0..MaxContent /\ new \in 1..MaxContent
      /\ \A c \in 0..MaxContent : c <= written \/ c = new \/ ~(c <= new)
    BY GameWritesWorld DEF StateInv, TypeOK
<1>3. /\ over'[new] = over[from] \cup {new}
      /\ \A c \in 0..MaxContent : c # new => over'[c] = over[c]
    BY <1>1, <1>2 DEF Write
<1>4. \A c \in 0..MaxContent : \A x \in over[c] :
          x \in 0..MaxContent /\ c # new /\ x # new /\ c <= written /\ x <= written
          /\ over[x] \subseteq over[c]
    <2>1. \A c \in 0..MaxContent : \A x \in over[c] : x \in 0..MaxContent
        BY <1>2 DEF Contents
    <2>2. \A c \in 0..MaxContent : c <= written => c # new
        BY <1>2
    <2>3. QED
        BY <2>1, <2>2 DEF DescentInv, LineInv
<1>5. \A c \in 0..MaxContent : c <= written => c <= new
    BY <1>2
<1> HIDE DEF new, from
<1>6. \A c \in 0..MaxContent : over[c] \subseteq over'[c]
    BY <1>3, <1>4
<1>7. LineInv'
    <2> SUFFICES ASSUME NEW c \in 0..MaxContent, NEW x \in over'[c]
                 PROVE  c <= new /\ x <= new /\ over'[x] \subseteq over'[c]
        BY <1>1 DEF LineInv
    <2>1. new <= new
        BY <1>2
    <2>2. CASE c # new
        BY <1>3, <1>4, <1>5, <2>2
    <2>3. CASE c = new /\ x = new
        BY <2>1, <2>3
    <2>4. CASE c = new /\ x # new
        <3>1. x \in over[from]
            BY <1>3, <2>4
        <3>2. x \in 0..MaxContent /\ x <= written /\ over[x] \subseteq over[from]
            BY <1>2, <1>4, <3>1
        <3>3. QED
            BY <1>3, <1>5, <2>1, <2>4, <3>2
    <2>5. QED
        BY <2>2, <2>3, <2>4
<1>8. ChainInv'
    BY <1>1, <1>6, SavedValues DEF DescentInv, ChainInv
<1>9. op[d].pc = "idle" /\ op' = [op EXCEPT ![d] = op[d]]
    BY <1>1 DEF CurrentInv, CalmInv, StateInv, TypeOK
<1>10. /\ AheadOK(op[d], disk'[d]) /\ PassOK(op[d], disk'[d], over')
       /\ Known(saves, op[d].mem) /\ \A e \in Devices : Known(saves, base'[e])
    BY <1>1, <1>9, IdleDescent, InDescent
<1>11. /\ Len(saves') \in Nat /\ Len(saves) <= Len(saves')
       /\ \A i \in 1..Len(saves) : saves'[i] = saves[i]
       /\ \A e \in Devices \ {d} : disk'[e] = disk[e]
    BY <1>1, AtPlace DEF StateInv, TypeOK
<1>12. QED
    BY <1>6, <1>7, <1>8, <1>9, <1>10, <1>11, DescentOf

LEMMA StartGameDescent ==
    ASSUME StateInv, CurrentInv, DescentInv, ~PlayAnyway, NEW d \in Devices, StartGame(d)
    PROVE  DescentInv'
<1> DEFINE q == IF op[d].kind = "preLaunch" THEN [op[d] EXCEPT !.stop = TRUE] ELSE op[d]
<1>1. op \in [Devices -> Operations] /\ op[d] \in Operations
    BY DEF StateInv, TypeOK
<1>2. /\ op[d].pc = "idle" /\ op' = [op EXCEPT ![d] = q]
      /\ UNCHANGED <<disk, base, saves, written, over>>
    BY <1>1 DEF StartGame, serverVars
<1>3. q.pc = "idle" /\ q.mem = op[d].mem
    BY <1>1, <1>2 DEF Operations
<1> HIDE DEF q
<1>4. /\ Known(saves, q.mem) /\ AheadOK(q, disk[d]) /\ PassOK(q, disk[d], over)
      /\ \A e \in Devices : Known(saves, base'[e])
    BY <1>2, <1>3, InDescent, IdleDescent
<1>5. QED
    BY <1>2, <1>4, QuietDescent

\* What none of it is about.
LEMMA StillDescent ==
    ASSUME DescentInv, UNCHANGED <<disk, base, op, saves, written, over>>
    PROVE  DescentInv'
BY DEF DescentInv, LineInv, ChainInv, WorksInv

\* A step in which no placing fails half way.
LEMMA WholeStepDescent ==
    ASSUME MaxReplaced = 0, ~PlayAnyway, \A f, g \in Files : f = g,
           StateInv, WorkInv, CurrentInv, DescentInv,
           [Next]_vars, \A d \in Devices : ~PlaceFails(d)
    PROVE  DescentInv'
<1>1. ASSUME NEW d \in Devices, Plays(d) PROVE DescentInv'
    <2>1. ASSUME ExitGame(d) PROVE DescentInv'
        BY <2>1, StillDescent DEF ExitGame, serverVars
    <2>2. QED
        BY <1>1, <2>1, StartGameDescent, GameWritesDescent DEF Plays
<1>2. ASSUME NEW d \in Devices, Step(d) PROVE DescentInv'
    BY <1>2, DecideDescent, FinishDescent, CompareDescent, PostDescent, RecordDescent,
       RelistDescent, FetchDescent, PlaceDescent, AdoptDescent, AcknowledgeDescent,
       Zenon DEF Step
<1>3. ASSUME NEW d \in Devices, Fails(d) PROVE DescentInv'
    BY <1>3, FailsDescent, AnswerLostDescent DEF Fails
<1>4. ASSUME NEW id \in Ids, Replace(id) PROVE DescentInv'
    BY <1>4 DEF Replace, StateInv, TypeOK
<1>5. CASE UNCHANGED vars
    BY <1>5, StillDescent DEF vars, deviceVars, serverVars
<1>6. QED
    BY <1>1, <1>2, <1>3, <1>4, <1>5, StartDescent, ResolveDescent, Zenon DEF Next

LEMMA DescentStep ==
    ASSUME MaxReplaced = 0, ~PlayAnyway, ~RenameFails, \A f, g \in Files : f = g
    PROVE  StateInv /\ WorkInv /\ CurrentInv /\ DescentInv /\ [Next]_vars => DescentInv'
BY WholeStepDescent DEF PlaceFails

\* A file of a device with an operation changes in that operation's placing.
LEMMA OnlyPlaces ==
    ASSUME StateInv, CurrentInv, ~RenameFails, [Next]_vars,
           NEW d \in Devices, op[d].pc = "place", disk'[d] # disk[d]
    PROVE  Place(d)
<1>1. \A e \in Devices : (\E f, c : disk' = [disk EXCEPT ![e][f] = c]) => e = d
    BY DEF StateInv, TypeOK
<1>2. ASSUME NEW e \in Devices, Plays(e) PROVE FALSE
    <2>1. PICK f \in Files : GameWrites(e, f)
        BY <1>2 DEF Plays, StartGame, ExitGame
    <2>2. e = d
        BY <1>1, <2>1 DEF GameWrites
    <2>3. QED
        BY <2>1, <2>2 DEF GameWrites, CurrentInv, CalmInv
<1>3. ASSUME NEW e \in Devices, Step(e) PROVE Place(d)
    <2>1. Place(e)
        BY <1>3 DEF Step, Decide, Finish, Compare, Post, RecordUpload, Relist, Fetch, Record,
                    Adopt, Acknowledge, AcknowledgeAgain, deviceVars
    <2>2. QED
        BY <1>1, <2>1 DEF Place
<1>4. ASSUME NEW e \in Devices PROVE ~Fails(e)
    BY DEF Fails, RequestFails, AnswerLost, PlaceFails, Crash, deviceVars
<1>5. ASSUME NEW e \in Devices PROVE
          /\ \A kind \in Syncs : ~Start(e, kind)
          /\ \A f \in Files, kind \in Resolutions : ~Resolve(e, f, kind)
    BY DEF Start, Resolve, deviceVars
<1>6. ~UNCHANGED vars /\ \A id \in Ids : ~Replace(id)
    BY DEF vars, Replace, deviceVars
<1>7. QED
    BY <1>2, <1>3, <1>4, <1>5, <1>6, Zenon DEF Next

(* In a slot with one file a sync replaces the device's file only by a save  *)
(* that supersedes it: what is on this device alone is never discarded       *)
(* without the user.  Between the decision and the placing other devices     *)
(* upload and requests are lost, and what was decided of is still there.     *)
THEOREM SyncsDiscardNothing ==
    ASSUME MaxReplaced = 0, ~PlayAnyway, ~RenameFails, \A f, g \in Files : f = g
    PROVE  Spec => NoSilentDiscard
<1> DEFINE Kept(d) == \A f \in Files :
                disk'[d][f] \notin {disk[d][f], None} /\ disk[d][f] # None
                    => disk[d][f] \in over'[disk'[d][f]]
<1>1. ASSUME StateInv, CurrentInv, DescentInv, [Next]_vars,
             NEW d \in Devices, op[d].pc = "place", op[d].kind \in Syncs
      PROVE  Kept(d)
    <2> SUFFICES ASSUME NEW f \in Files, disk'[d][f] # disk[d][f], disk[d][f] # None
                 PROVE  disk[d][f] \in over'[disk'[d][f]]
        OBVIOUS
    <2>1. Place(d)
        BY <1>1, OnlyPlaces
    <2>2. /\ disk' = [disk EXCEPT ![d][op[d].file] = op[d].local] /\ over' = over
          /\ disk \in [Devices -> [Files -> 0..MaxContent]]
        BY <1>1, <2>1 DEF Place, StateInv, TypeOK
    <2>3. f = op[d].file /\ disk'[d][f] = op[d].local
        BY <2>2
    <2>4. op[d].local = op[d].head.content
        BY <1>1, InPlace DEF HandOK, InHand
    <2>5. disk[d][f] \in over[op[d].head.content]
        BY <1>1, <2>3, InDescent DEF PassOK
    <2>6. QED
        BY <2>2, <2>3, <2>4, <2>5
<1>2. StateInv /\ CurrentInv /\ DescentInv /\ [Next]_vars =>
          [\A d \in Devices : op[d].pc = "place" /\ op[d].kind \in Syncs => Kept(d)]_vars
    BY <1>1
<1>3. Init => StateInv /\ WorkInv /\ CurrentInv /\ DescentInv
    BY StateInit, WorkInit, CurrentInit, DescentInit
<1>4. StateInv /\ WorkInv /\ CurrentInv /\ DescentInv /\ [Next]_vars =>
          (StateInv /\ WorkInv /\ CurrentInv /\ DescentInv)'
    BY StateStep, WorkStep, CurrentStep, DescentStep
<1>5. QED
    BY <1>2, <1>3, <1>4, PTL DEF Spec, NoSilentDiscard
=============================================================================
