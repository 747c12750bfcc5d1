-------------------------- MODULE SaveConflictProofs --------------------------
(***************************************************************************)
(* Proof that a conflict is shown only where both sides changed, in a slot *)
(* with one file and until something fails, for any number of devices,     *)
(* contents and saves.                                                     *)
(*                                                                         *)
(* What a device has beyond its baseline is nowhere else; what is newer on *)
(* RomM than the saves the device is current on is not part of its file.   *)
(***************************************************************************)
EXTENDS SaveSyncProofs

-----------------------------------------------------------------------------
(* What a device has to itself. *)

\* Neither RomM's saves nor the other devices have anything of content c.
Apart(d, c) ==
    /\ \A i \in 1..Len(saves) : c \notin over[saves[i].content]
    /\ \A e \in Devices \ {d}, f \in Files : c \notin over[disk[e][f]]

\* The baseline of a file: of the operation under way, or the one kept.
Recorded(d, f) == IF op[d].pc = "idle" THEN base[d][f].local ELSE op[d].mem[f].local

\* A file has changed places and its baseline is still to be recorded.
Landing == {"recordUpload", "ack", "record"}

\* What the file has beyond its baseline is this device's alone, and the
\* baseline is of a save the device is current on, if it is current on any.
OwnOf(d, f, from) ==
    /\ \A c \in over[disk[d][f]] : c \in over[from] \/ Apart(d, c)
    /\ disk[d][f] \in {None, from} \/ Apart(d, disk[d][f])
    /\ from # None => \E i \in 1..Len(saves) : saves[i].content = from /\ rows[d][i] # 0
    /\ \A i \in 1..Len(saves) : rows[d][i] # 0 => from # None

OwnOK(d) == op[d].pc \notin Landing => \A f \in Files : OwnOf(d, f, Recorded(d, f))

\* What is true at each place until something fails: what is sent or was refused
\* is this device's alone, and what is recorded the device is current on.
PlaceOK(d) ==
    LET o == op[d]
    IN  /\ o.pc \in {"decide", "compare", "post", "recordUpload"} => o.then = "none"
        /\ o.pc \in {"recordUpload", "record"} => rows[d][o.head.id] # 0
        /\ o.pc = "ack" => o.then \in {"record", "recordAdopt"}
        /\ o.pc # "ackAgain"
        /\ o.pc = "relist" => Len(saves) # 0 /\ rows[d][Len(saves)] = 0
        /\ o.pc \in {"compare", "post", "relist"} => Apart(d, disk[d][o.file])
        /\ o.pc = "decide" /\ o.todo # {} => \A s \in o.listed : s.current <=> rows[d][s.id] # 0
        /\ o.pc # "idle" /\ o.kind \in Resolutions => o.file \in Files

\* A file whose conflict a device shows is this device's alone; a sync shows one
\* as it is done with the file.
ShownOK(d) ==
    \A f \in Files :
        shown[d][f] \in Ids /\ (op[d].pc = "idle" \/ op[d].kind \notin Resolutions) =>
            /\ Apart(d, disk[d][f])
            /\ op[d].pc = "idle" \/ (op[d].pc = "decide" /\ op[d].todo = {})

DeviceOK(d) == OwnOK(d) /\ PlaceOK(d) /\ ShownOK(d)

\* No save has anything of a later one.
NewerInv == \A i, j \in 1..Len(saves) : i < j => saves[j].content \notin over[saves[i].content]

CleanInv == NewerInv /\ \A d \in Devices : DeviceOK(d)

\* Until something fails.
RealInv == faults = 0 => CurrentInv /\ DescentInv /\ CleanInv

LEMMA CleanInit ==
    ASSUME MaxReplaced = 0, Init
    PROVE  CleanInv
<1> USE SaveAssumption
<1>1. /\ disk = [d \in Devices |-> [f \in Files |-> None]]
      /\ base = [d \in Devices |-> [f \in Files |-> NoBaseline]]
      /\ saves = <<>> /\ rows = [d \in Devices |-> [i \in Ids |-> 0]]
      /\ over = [c \in 0..MaxContent |-> {}]
      /\ \A d \in Devices : op[d] = Idle /\ \A f \in Files : shown[d][f] = 0
    BY DEF Init
<1>2. Len(saves) = 0 /\ 1..Len(saves) = {} /\ over[None] = {} /\ Idle.pc = "idle"
    BY <1>1 DEF None, Idle
<1>3. NewerInv
    BY <1>2 DEF NewerInv
<1>4. ASSUME NEW d \in Devices PROVE DeviceOK(d)
    <2>1. OwnOK(d)
        BY <1>1, <1>2 DEF OwnOK, OwnOf, Recorded, NoBaseline
    <2>2. PlaceOK(d) /\ ShownOK(d)
        BY <1>1, <1>2 DEF PlaceOK, ShownOK, Ids
    <2>3. QED
        BY <2>1, <2>2 DEF DeviceOK
<1>5. QED
    BY <1>3, <1>4 DEF CleanInv

\* What is about a device.
LEMMA InClean ==
    ASSUME StateInv, CleanInv, NEW d \in Devices
    PROVE  OwnOK(d) /\ PlaceOK(d) /\ ShownOK(d)
BY DEF CleanInv, DeviceOK

\* A step of a device that leaves what RomM and the devices have.
LEMMA QuietClean ==
    ASSUME StateInv, CleanInv, NEW d \in Devices,
           op' = [op EXCEPT ![d] = op'[d]],
           UNCHANGED <<disk, saves, over>>,
           \A e \in Devices \ {d} : base'[e] = base[e] /\ rows'[e] = rows[e] /\ shown'[e] = shown[e],
           OwnOK(d)', PlaceOK(d)', ShownOK(d)'
    PROVE  CleanInv'
<1>1. NewerInv'
    BY DEF CleanInv, NewerInv
<1>2. \A e, c : Apart(e, c)' <=> Apart(e, c)
    BY DEF Apart
<1>3. ASSUME NEW e \in Devices \ {d} PROVE DeviceOK(e)'
    <2>1. /\ op'[e] = op[e] /\ base'[e] = base[e] /\ rows'[e] = rows[e] /\ shown'[e] = shown[e]
          /\ OwnOK(e) /\ PlaceOK(e) /\ ShownOK(e)
        BY InClean DEF StateInv, TypeOK
    <2>2. \A f : Recorded(e, f)' = Recorded(e, f)
        BY <2>1 DEF Recorded
    <2>3. OwnOK(e)'
        BY <1>2, <2>1, <2>2 DEF OwnOK, OwnOf
    <2>4. PlaceOK(e)' /\ ShownOK(e)'
        BY <1>2, <2>1 DEF PlaceOK, ShownOK
    <2>5. QED
        BY <2>3, <2>4 DEF DeviceOK
<1>4. QED
    BY <1>1, <1>3 DEF CleanInv, DeviceOK

\* A step of a device that leaves the others what they have to themselves.
LEMMA OthersClean ==
    ASSUME StateInv, CurrentInv, CleanInv, StateInv', NewerInv', NEW d \in Devices,
           op' = [op EXCEPT ![d] = op'[d]],
           \A e \in Devices \ {d} :
               disk'[e] = disk[e] /\ base'[e] = base[e] /\ rows'[e] = rows[e] /\ shown'[e] = shown[e],
           Len(saves) <= Len(saves'),
           \A i \in 1..Len(saves) : saves'[i] = saves[i],
           \A c \in 0..MaxContent : over[c] \subseteq over'[c],
           \A e \in Devices \ {d}, f \in Files :
               /\ over'[disk[e][f]] = over[disk[e][f]]
               /\ \A c \in over[disk[e][f]] \cup {disk[e][f]} : Apart(e, c) => Apart(e, c)',
           OwnOK(d)', PlaceOK(d)', ShownOK(d)'
    PROVE  CleanInv'
<1>1. /\ Len(saves) \in Nat /\ Len(saves') \in Nat /\ Len(saves') <= MaxSaves
      /\ MaxSaves \in Nat
    <2>1. Len(saves) \in Nat /\ MaxSaves \in Nat
        BY AtPlace, ClockBounds
    <2>2. saves' \in Seq([file : Files, content : Contents, upd : 1..MaxClock]) /\ Len(saves') <= MaxSaves
        BY DEF StateInv, TypeOK, Contents, MaxClock
    <2>3. Len(saves') \in Nat
        BY <2>2
    <2>4. QED
        BY <2>1, <2>2, <2>3
<1>2. ASSUME NEW e \in Devices \ {d} PROVE DeviceOK(e)'
    <2>1. /\ op'[e] = op[e] /\ base'[e] = base[e] /\ rows'[e] = rows[e] /\ shown'[e] = shown[e]
          /\ disk'[e] = disk[e]
          /\ OwnOK(e) /\ PlaceOK(e) /\ ShownOK(e)
          /\ op[e] \in Operations /\ base[e] \in Baselines /\ disk[e] \in [Files -> 0..MaxContent]
        BY InClean DEF StateInv, TypeOK
    <2>2. \A f : Recorded(e, f)' = Recorded(e, f)
        BY <2>1 DEF Recorded
    <2>3. \A f \in Files : Recorded(e, f) \in 0..MaxContent
        BY <2>1 DEF Recorded, Operations, Baselines
    <2>4. \A i \in 1..Len(saves') : rows[e][i] # 0 => i \in 1..Len(saves)
        BY <1>1 DEF CurrentInv, OrderInv, Ids
    <2>5. \A i \in 1..Len(saves) : i \in 1..Len(saves')
        BY <1>1
    <2>6. ASSUME NEW f \in Files, OwnOf(e, f, Recorded(e, f)) PROVE OwnOf(e, f, Recorded(e, f))'
        <3>1. PICK from \in 0..MaxContent : from = Recorded(e, f) /\ from = Recorded(e, f)'
            BY <2>2, <2>3
        <3>2. OwnOf(e, f, from) /\ over[from] \subseteq over'[from]
            BY <2>6, <3>1
        <3>3. \A c \in over'[disk'[e][f]] : c \in over'[from] \/ Apart(e, c)'
            BY <2>1, <3>2 DEF OwnOf
        <3>4. disk'[e][f] \in {None, from} \/ Apart(e, disk[e][f])'
            BY <2>1, <3>2 DEF OwnOf
        <3>5. from # None => \E i \in 1..Len(saves') : saves'[i].content = from /\ rows'[e][i] # 0
            BY <2>1, <2>5, <3>2 DEF OwnOf
        <3>6. \A i \in 1..Len(saves') : rows'[e][i] # 0 => from # None
            BY <2>1, <2>4, <3>2 DEF OwnOf
        <3>7. QED
            BY <3>1, <3>3, <3>4, <3>5, <3>6 DEF OwnOf
    <2>7. OwnOK(e)'
        BY <2>1, <2>6 DEF OwnOK
    <2>8. \A f \in Files : Apart(e, disk[e][f]) => Apart(e, disk[e][f])'
        OBVIOUS
    <2>9. PlaceOK(e)'
        <3>1. op[e].pc = "relist" => Len(saves') # 0 /\ rows[e][Len(saves')] = 0
            BY <1>1, <2>1, <2>4 DEF PlaceOK
        <3>2. op[e].pc \in {"compare", "post", "relist"} => op[e].file \in Files
            BY AtPlace DEF OperationOK
        <3>3. QED
            BY <2>1, <2>8, <3>1, <3>2 DEF PlaceOK
    <2>10. ShownOK(e)'
        BY <2>1, <2>8 DEF ShownOK
    <2>11. QED
        BY <2>7, <2>9, <2>10 DEF DeviceOK
<1>3. QED
    BY <1>2 DEF CleanInv, DeviceOK


-----------------------------------------------------------------------------
(* The steps that leave what RomM and the devices have. *)

\* An operation on the slot's only file is done with everything.
LEMMA DoneFields ==
    ASSUME NEW o \in Operations, o.file \in Files, \A f, g \in Files : f = g
    PROVE  /\ Done(o).pc = "decide" /\ Done(o).todo = {} /\ Done(o).then = "none"
           /\ Done(o).kind = o.kind /\ Done(o).file = o.file /\ Done(o).mem = o.mem
<1>1. o.todo \subseteq Files
    BY DEF Operations
<1>2. o.todo \ {o.file} = {}
    BY <1>1
<1>3. QED
    BY <1>2 DEF Done, Operations

\* What the baseline was, it is.
LEMMA OwnStays ==
    ASSUME StateInv, CleanInv, NEW d \in Devices, op[d].pc \notin Landing,
           UNCHANGED <<disk, saves, over>>, rows'[d] = rows[d],
           \A f \in Files : Recorded(d, f)' = Recorded(d, f)
    PROVE  OwnOK(d)'
<1>1. \A c : Apart(d, c)' <=> Apart(d, c)
    BY DEF Apart
<1>2. ASSUME NEW f \in Files PROVE OwnOf(d, f, Recorded(d, f))'
    <2>1. OwnOf(d, f, Recorded(d, f))
        BY InClean DEF OwnOK
    <2>2. QED
        BY <1>1, <2>1 DEF OwnOf
<1>3. QED
    BY <1>2 DEF OwnOK

\* The baseline is what is on the device, a save the device is current on.
LEMMA Landed ==
    ASSUME StateInv, NEW d \in Devices, UNCHANGED <<disk, saves, over>>,
           \A f \in Files :
               /\ Recorded(d, f)' = disk[d][f] /\ disk[d][f] # None
               /\ \E i \in 1..Len(saves) : saves[i].content = disk[d][f] /\ rows'[d][i] # 0
    PROVE  OwnOK(d)'
BY DEF OwnOK, OwnOf

\* The operation of the device is done with its file.
LEMMA DoneClean ==
    ASSUME StateInv, CleanInv, \A f, g \in Files : f = g, NEW d \in Devices, op[d].pc # "idle",
           NEW p \in Operations, p.kind = op[d].kind, p.file \in Files, op'[d] = Done(p),
           op' = [op EXCEPT ![d] = op'[d]],
           UNCHANGED <<disk, saves, over>>,
           \A e \in Devices \ {d} : base'[e] = base[e] /\ rows'[e] = rows[e] /\ shown'[e] = shown[e],
           \A f \in Files : shown'[d][f] = shown[d][f] \/ Apart(d, disk[d][f]),
           OwnOK(d)'
    PROVE  CleanInv'
<1>1. /\ op'[d].pc = "decide" /\ op'[d].todo = {} /\ op'[d].then = "none"
      /\ op'[d].kind = op[d].kind /\ op'[d].file \in Files
    BY DoneFields
<1>2. \A c : Apart(d, c)' <=> Apart(d, c)
    BY DEF Apart
<1>3. PlaceOK(d)'
    BY <1>1 DEF PlaceOK
<1>4. ShownOK(d)'
    BY <1>1, <1>2, InClean DEF ShownOK
<1>5. QED
    BY <1>3, <1>4, QuietClean

\* A transfer goes on; a sync that is on its way shows no conflict.
LEMMA OnWayClean ==
    ASSUME StateInv, CleanInv, NEW d \in Devices,
           op[d].pc # "idle", op[d].pc # "decide" \/ op[d].todo # {}, op'[d].pc # "idle",
           op'[d].kind = op[d].kind, op' = [op EXCEPT ![d] = op'[d]],
           UNCHANGED <<disk, base, shown, saves, over>>,
           \A e \in Devices \ {d} : rows'[e] = rows[e],
           OwnOK(d)', PlaceOK(d)'
    PROVE  CleanInv'
<1>1. ShownOK(d)'
    BY InClean DEF ShownOK
<1>2. QED
    BY <1>1, QuietClean

LEMMA CompareClean ==
    ASSUME StateInv, CleanInv, NEW d \in Devices, Compare(d)
    PROVE  CleanInv'
<1>1. /\ op[d].pc = "compare" /\ UNCHANGED <<disk, base, shown, saves, rows, over>>
      /\ op[d] \in Operations /\ op \in [Devices -> Operations]
    BY AtPlace DEF Compare, deviceVars, serverVars, StateInv, TypeOK
<1>2. PICK pc \in {"adopt", "post"} : op' = [op EXCEPT ![d].pc = pc]
    BY DEF Compare
<1>3. /\ op' = [op EXCEPT ![d] = op'[d]] /\ op'[d].pc = pc /\ op'[d].mem = op[d].mem
      /\ op'[d].kind = op[d].kind /\ op'[d].file = op[d].file /\ op'[d].then = op[d].then
    BY <1>1, <1>2 DEF Operations
<1>4. OwnOK(d)'
    BY <1>1, <1>3, OwnStays DEF Recorded, Landing
<1>5. PlaceOK(d)'
    BY <1>1, <1>3, InClean DEF PlaceOK, Apart
<1>6. QED
    BY <1>1, <1>3, <1>4, <1>5, OnWayClean

LEMMA FetchClean ==
    ASSUME StateInv, CleanInv, \A f, g \in Files : f = g, NEW d \in Devices, Fetch(d)
    PROVE  CleanInv'
<1>1. /\ op[d].pc = "fetch" /\ UNCHANGED <<disk, base, shown, saves, rows, over>>
      /\ op[d] \in Operations /\ op \in [Devices -> Operations] /\ op[d].file \in Files
    BY AtPlace DEF Fetch, deviceVars, serverVars, StateInv, TypeOK, OperationOK
<1>2. CASE op' = [op EXCEPT ![d] = Done(op[d])]
    <2>1. op' = [op EXCEPT ![d] = op'[d]] /\ op'[d] = Done(op[d])
        BY <1>1, <1>2
    <2>2. OwnOK(d)'
        BY <1>1, <2>1, DoneFields, OwnStays DEF Recorded, Landing
    <2>3. QED
        BY <1>1, <2>1, <2>2, DoneClean
<1>3. CASE op' = [op EXCEPT ![d] = [op[d] EXCEPT !.pc = "place",
                                                !.local = saves[op[d].head.id].content]]
    <2>1. /\ op' = [op EXCEPT ![d] = op'[d]] /\ op'[d].pc = "place" /\ op'[d].mem = op[d].mem
          /\ op'[d].kind = op[d].kind /\ op'[d].file = op[d].file
        BY <1>1, <1>3 DEF Operations
    <2>2. OwnOK(d)'
        BY <1>1, <2>1, OwnStays DEF Recorded, Landing
    <2>3. PlaceOK(d)'
        BY <1>1, <2>1 DEF PlaceOK
    <2>4. QED
        BY <1>1, <2>1, <2>2, <2>3, OnWayClean
<1>4. QED
    BY <1>2, <1>3 DEF Fetch

\* An adopt finds the file as it was measured.
LEMMA AdoptClean ==
    ASSUME StateInv, CurrentInv, DescentInv, CleanInv, NEW d \in Devices, Adopt(d)
    PROVE  CleanInv'
<1>1. /\ op[d].pc = "adopt" /\ UNCHANGED <<disk, base, shown, saves, rows, over>>
      /\ op[d] \in Operations /\ op \in [Devices -> Operations] /\ op[d].file \in Files
    BY AtPlace DEF Adopt, deviceVars, serverVars, StateInv, TypeOK, OperationOK
<1>2. op[d].local = disk[d][op[d].file]
    BY <1>1, InDescent DEF PassOK, Measured
<1>3. op' = [op EXCEPT ![d] = [op[d] EXCEPT !.pc = "ack", !.then = "recordAdopt"]]
    BY <1>2 DEF Adopt
<1>4. /\ op' = [op EXCEPT ![d] = op'[d]] /\ op'[d].pc = "ack" /\ op'[d].then = "recordAdopt"
      /\ op'[d].kind = op[d].kind /\ op'[d].file = op[d].file
    BY <1>1, <1>3 DEF Operations
<1>5. OwnOK(d)' /\ PlaceOK(d)'
    BY <1>1, <1>4 DEF OwnOK, PlaceOK, Landing
<1>6. QED
    BY <1>1, <1>4, <1>5, OnWayClean

\* The device records a save it has and is current on.
LEMMA RecordedClean ==
    ASSUME StateInv, CurrentInv, CleanInv, \A f, g \in Files : f = g, NEW d \in Devices,
           op[d].pc \in {"recordUpload", "ack", "record"},
           UNCHANGED <<disk, base, shown, saves, over>>,
           \A e \in Devices \ {d} : rows'[e] = rows[e], rows'[d][op[d].head.id] # 0,
           op' = [op EXCEPT ![d] = op'[d]],
           op'[d] = Done([op[d] EXCEPT !.mem[op[d].file] =
                              [local |-> disk[d][op[d].file], server |-> op[d].head.content]])
    PROVE  CleanInv'
<1> DEFINE o == op[d]
           p == [o EXCEPT !.mem[o.file] = [local |-> disk[d][o.file], server |-> o.head.content]]
<1>1. /\ o \in Operations /\ o.file \in Files /\ o.head.id \in 1..Len(saves)
      /\ saves[o.head.id].content = disk[d][o.file] /\ disk[d][o.file] # None
      /\ disk[d][o.file] \in 0..MaxContent
    <2>1. /\ o \in Operations /\ o.file \in Files /\ disk[d][o.file] \in 0..MaxContent
          /\ \A i \in 1..Len(saves) : saves[i] \in SaveType
        BY AtPlace DEF OperationOK
    <2>2. o.head.id \in 1..Len(saves) /\ saves[o.head.id].content = disk[d][o.file]
        BY InPlace DEF HandOK, InHand
    <2>3. saves[o.head.id].content # None
        BY <2>1, <2>2 DEF SaveType, Contents, None
    <2>4. QED
        BY <2>1, <2>2, <2>3
<1>2. /\ p \in Operations /\ p.kind = o.kind /\ p.file = o.file
      /\ p.mem[o.file] = [local |-> disk[d][o.file], server |-> o.head.content]
    <2>1. p \in Operations /\ p.kind = o.kind /\ p.file = o.file
        BY <1>1, RecordedFollows
    <2>2. o.mem \in Baselines
        BY <1>1 DEF Operations
    <2>3. p.mem = [o.mem EXCEPT ![o.file] = [local |-> disk[d][o.file], server |-> o.head.content]]
        BY <1>1 DEF Operations
    <2>4. QED
        BY <1>1, <2>1, <2>2, <2>3 DEF Baselines
<1> HIDE DEF o, p
<1>3. op'[d] = Done(p) /\ op'[d].pc = "decide" /\ op'[d].mem = p.mem
    BY <1>1, <1>2, DoneFields DEF o, p
<1>4. ASSUME NEW f \in Files
      PROVE  /\ Recorded(d, f)' = disk[d][f] /\ disk[d][f] # None
             /\ \E i \in 1..Len(saves) : saves[i].content = disk[d][f] /\ rows'[d][i] # 0
    <2>1. f = o.file
        BY <1>1
    <2>2. Recorded(d, f)' = p.mem[f].local
        BY <1>3 DEF Recorded
    <2>3. rows'[d][o.head.id] # 0
        BY DEF o
    <2>4. QED
        BY <1>1, <1>2, <2>1, <2>2, <2>3
<1>5. OwnOK(d)'
    BY <1>4, Landed
<1>6. p.kind = op[d].kind /\ p.file \in Files
    BY <1>1, <1>2 DEF o
<1>7. QED
    BY <1>2, <1>3, <1>5, <1>6, DoneClean

LEMMA RecordClean ==
    ASSUME StateInv, CurrentInv, CleanInv, \A f, g \in Files : f = g, NEW d \in Devices,
           Record(d) \/ RecordUpload(d)
    PROVE  CleanInv'
<1> DEFINE p == [op[d] EXCEPT !.mem[op[d].file] =
                     [local |-> disk[d][op[d].file], server |-> op[d].head.content]]
<1>1. /\ op[d].pc \in {"recordUpload", "record"} /\ op \in [Devices -> Operations]
      /\ UNCHANGED <<disk, base, shown, saves, rows, over>>
    BY DEF Record, RecordUpload, deviceVars, serverVars, StateInv, TypeOK
<1>2. rows'[d][op[d].head.id] # 0
    BY <1>1, InClean DEF PlaceOK
<1>3. op' = [op EXCEPT ![d] = Done(p)]
    BY InClean DEF Record, RecordUpload, PlaceOK
<1>4. op'[d] = Done(p) /\ op' = [op EXCEPT ![d] = op'[d]]
    BY <1>1, <1>3
<1>5. QED
    BY <1>1, <1>2, <1>4, RecordedClean

\* RomM takes an acknowledgement: the row comes to name the save.
LEMMA ConfirmedIsCurrent ==
    ASSUME StateInv, CurrentInv, NEW d \in Devices, NEW id \in 1..Len(saves), Confirm(d, id)
    PROVE  /\ rows'[d][id] = id /\ id # 0 /\ saves[id].upd = id
           /\ \A e \in Devices \ {d} : rows'[e] = rows[e]
           /\ \A i \in Ids : i # id => rows'[d][i] = rows[d][i]
           /\ UNCHANGED saves
<1>1. /\ id \in Ids /\ id # 0 /\ rows \in [Devices -> [Ids -> 0..MaxClock]]
    <2>1. Len(saves) \in Nat /\ Len(saves) <= MaxSaves /\ MaxSaves \in Nat
        BY AtPlace, ClockBounds
    <2>2. rows \in [Devices -> [Ids -> 0..MaxClock]]
        BY DEF StateInv, TypeOK
    <2>3. QED
        BY <2>1, <2>2 DEF Ids
<1>2. saves[id].upd = id /\ rows[d][id] \in {0, id}
    BY <1>1 DEF CurrentInv, OrderInv
<1>3. ConfirmedRow(saves, rows[d], <<d, id>> \in bare, id) = id
    BY <1>2 DEF ConfirmedRow
<1>4. QED
    BY <1>1, <1>2, <1>3 DEF Confirm

LEMMA AcknowledgeClean ==
    ASSUME StateInv, CurrentInv, CleanInv, \A f, g \in Files : f = g, NEW d \in Devices,
           Acknowledge(d)
    PROVE  CleanInv'
<1> DEFINE o == op[d]
           id == op[d].head.id
<1>1. /\ o.pc = "ack" /\ UNCHANGED <<disk, base, shown, over>> /\ Confirm(d, id)
      /\ o \in Operations /\ op \in [Devices -> Operations] /\ o.file \in Files
    BY AtPlace DEF Acknowledge, deviceVars, StateInv, TypeOK, OperationOK
<1>2. /\ id \in 1..Len(saves) /\ id \in Nat
      /\ o.local = o.head.content /\ disk[d][o.file] = o.head.content
    BY <1>1, InPlace DEF HandOK, InHand
<1>3. /\ rows'[d][id] = id /\ id # 0 /\ saves[id].upd = id
      /\ \A e \in Devices \ {d} : rows'[e] = rows[e]
      /\ UNCHANGED saves
    BY <1>1, <1>2, ConfirmedIsCurrent
<1>4. op' = [op EXCEPT ![d] = Acknowledged(o)]
    <2>1. rows'[d][id] >= saves[id].upd
        BY <1>2, <1>3
    <2>2. QED
        BY <2>1 DEF Acknowledge
<1>5. op'[d] = Acknowledged(o) /\ op' = [op EXCEPT ![d] = op'[d]]
    BY <1>1, <1>4
<1>6. o.then \in {"record", "recordAdopt"}
    BY <1>1, InClean DEF PlaceOK
<1>7. CASE o.then = "record"
    <2>1. op'[d].pc = "record" /\ op'[d].kind = o.kind /\ op'[d].file = o.file /\ op'[d].head = o.head
        BY <1>1, <1>5, <1>7 DEF Acknowledged, Operations
    <2>2. OwnOK(d)' /\ PlaceOK(d)'
        BY <1>1, <1>3, <2>1 DEF OwnOK, PlaceOK, Landing
    <2>3. QED
        BY <1>1, <1>3, <1>5, <2>1, <2>2, OnWayClean
<1>8. CASE o.then = "recordAdopt"
    <2>1. op'[d] = Done([op[d] EXCEPT !.mem[op[d].file] =
                              [local |-> disk[d][op[d].file], server |-> op[d].head.content]])
        BY <1>2, <1>5, <1>8 DEF Acknowledged
    <2>2. QED
        BY <1>1, <1>3, <1>5, <2>1, RecordedClean
<1>9. QED
    BY <1>6, <1>7, <1>8

LEMMA FinishClean ==
    ASSUME StateInv, CleanInv, \A f, g \in Files : f = g, NEW d \in Devices, Finish(d)
    PROVE  CleanInv'
<1>1. /\ op[d].pc = "decide" /\ UNCHANGED <<disk, saves, rows, over>>
      /\ op \in [Devices -> Operations] /\ base \in [Devices -> Baselines]
      /\ shown \in [Devices -> [Files -> 0..Refused]]
    BY DEF Finish, serverVars, StateInv, TypeOK
<1>2. /\ op' = [op EXCEPT ![d] = op'[d]] /\ op'[d] = Idle /\ op'[d].pc = "idle"
      /\ base'[d] = op[d].mem
      /\ \A e \in Devices \ {d} : base'[e] = base[e] /\ shown'[e] = shown[e]
    BY <1>1 DEF Finish, Idle
<1>3. OwnOK(d)'
    BY <1>1, <1>2, OwnStays DEF Recorded, Landing
<1>4. PlaceOK(d)'
    BY <1>2 DEF PlaceOK
<1>5. \A c : Apart(d, c)' <=> Apart(d, c)
    BY <1>1 DEF Apart
<1>6. ShownOK(d)'
    <2>1. CASE op[d].kind \in Resolutions
        <3>1. op[d].file \in Files
            BY <1>1, <2>1, InClean DEF PlaceOK
        <3>2. \A f \in Files : shown'[d][f] = 0
            BY <1>1, <2>1, <3>1 DEF Finish
        <3>3. QED
            BY <3>2 DEF ShownOK, Ids
    <2>2. CASE op[d].kind \notin Resolutions
        <3>1. shown' = shown
            BY <2>2 DEF Finish
        <3>2. QED
            BY <1>1, <1>2, <1>5, <2>2, <3>1, InClean DEF ShownOK
    <2>3. QED
        BY <2>1, <2>2
<1>7. QED
    BY <1>1, <1>2, <1>3, <1>4, <1>6, QuietClean

\* A sync lists the device current on exactly the saves it has a row of.
LEMMA StartClean ==
    ASSUME StateInv, CurrentInv, CleanInv, NEW d \in Devices, NEW kind \in Syncs, Start(d, kind)
    PROVE  CleanInv'
<1>1. /\ op[d].pc = "idle" /\ UNCHANGED <<disk, base, saves, rows, over>>
      /\ op \in [Devices -> Operations] /\ base \in [Devices -> Baselines]
      /\ shown \in [Devices -> [Files -> 0..Refused]]
    BY DEF Start, deviceVars, serverVars, StateInv, TypeOK
<1>2. /\ op' = [op EXCEPT ![d] = op'[d]] /\ op'[d].pc = "decide" /\ op'[d].kind = kind
      /\ op'[d].mem = base[d] /\ op'[d].listed = Listing(saves, rows[d]) /\ op'[d].then = "none"
    BY <1>1 DEF Start, Idle
<1>3. /\ shown' = [shown EXCEPT ![d] = [f \in Files |-> 0]]
      /\ \A e \in Devices \ {d} : shown'[e] = shown[e]
      /\ \A f \in Files : shown'[d][f] \notin Ids
    BY <1>1 DEF Start, Ids
<1>4. OwnOK(d)'
    BY <1>1, <1>2, OwnStays DEF Recorded, Landing
<1>5. ASSUME NEW s \in Listing(saves, rows[d]) PROVE s.current <=> rows[d][s.id] # 0
    <2>1. PICK i \in 1..Len(saves) : s.id = i /\ s.current = IsCurrent(saves, rows[d], i)
        BY DEF Listing
    <2>2. i \in Ids /\ i \in Nat \ {0}
        BY AtPlace, ClockBounds DEF Ids
    <2>3. saves[i].upd = i /\ rows[d][i] \in {0, i}
        BY <2>2 DEF CurrentInv, OrderInv
    <2>4. rows[d][i] >= i <=> rows[d][i] # 0
        BY <2>2, <2>3
    <2>5. QED
        BY <2>1, <2>3, <2>4 DEF IsCurrent
<1>6. PlaceOK(d)'
    <2>1. kind \notin Resolutions
        BY SaveAssumption DEF Resolutions
    <2>2. QED
        BY <1>1, <1>2, <1>5, <2>1 DEF PlaceOK
<1>7. ShownOK(d)'
    BY <1>3 DEF ShownOK
<1>8. QED
    BY <1>1, <1>2, <1>3, <1>4, <1>6, <1>7, QuietClean

LEMMA ResolveClean ==
    ASSUME StateInv, CleanInv, \A f, g \in Files : f = g,
           NEW d \in Devices, NEW f \in Files, NEW kind \in Resolutions, Resolve(d, f, kind)
    PROVE  CleanInv'
<1>1. /\ op[d].pc = "idle" /\ UNCHANGED <<disk, base, saves, rows, over>>
      /\ op \in [Devices -> Operations] /\ base \in [Devices -> Baselines]
      /\ shown \in [Devices -> [Files -> 0..Refused]] /\ shown[d][f] \in Ids
    BY DEF Resolve, deviceVars, serverVars, StateInv, TypeOK
<1>2. Apart(d, disk[d][f])
    BY <1>1, InClean DEF ShownOK
<1>3. CASE shown' = [shown EXCEPT ![d][f] = Refused] /\ UNCHANGED op
    <2>1. /\ op' = [op EXCEPT ![d] = op'[d]] /\ \A e \in Devices \ {d} : shown'[e] = shown[e]
          /\ \A g \in Files : shown'[d][g] \notin Ids
        BY <1>1, <1>3, SaveAssumption DEF Refused, Ids
    <2>2. OwnOK(d)'
        BY <1>1, <1>3, OwnStays DEF Recorded, Landing
    <2>3. PlaceOK(d)' /\ ShownOK(d)'
        BY <1>1, <1>3, <2>1 DEF PlaceOK, ShownOK
    <2>4. QED
        BY <1>1, <2>1, <2>2, <2>3, QuietClean
<1> DEFINE o == [Idle EXCEPT !.kind = kind, !.mem = base[d], !.file = f, !.todo = {f},
                             !.head = [id |-> SlotHead(saves), content |-> saves[SlotHead(saves)].content]]
<1>4. ASSUME UNCHANGED shown, NEW q,
             q \in {[o EXCEPT !.pc = "fetch"], [o EXCEPT !.pc = "compare", !.local = disk[d][f]]},
             op' = [op EXCEPT ![d] = q]
      PROVE  CleanInv'
    <2>1. /\ op' = [op EXCEPT ![d] = op'[d]] /\ op'[d].kind = kind /\ op'[d].file = f
          /\ op'[d].mem = base[d] /\ op'[d].then = "none" /\ op'[d].pc \in {"fetch", "compare"}
        BY <1>1, <1>4 DEF Idle
    <2>2. OwnOK(d)'
        BY <1>1, <1>4, <2>1, OwnStays DEF Recorded, Landing
    <2>3. PlaceOK(d)'
        BY <1>1, <1>2, <1>4, <2>1 DEF PlaceOK, Apart
    <2>4. ShownOK(d)'
        BY <1>4, <2>1 DEF ShownOK
    <2>5. QED
        BY <1>1, <1>4, <2>1, <2>2, <2>3, <2>4, QuietClean
<1>5. QED
    BY <1>3, <1>4 DEF Resolve

LEMMA StartGameClean ==
    ASSUME ~PlayAnyway, StateInv, CleanInv, NEW d \in Devices, StartGame(d)
    PROVE  CleanInv'
<1>1. /\ op[d].pc = "idle" /\ UNCHANGED <<disk, base, shown, saves, rows, over>>
      /\ op[d] \in Operations /\ op \in [Devices -> Operations]
    BY AtPlace DEF StartGame, serverVars, StateInv, TypeOK
<1>2. op' = [op EXCEPT ![d] = op'[d]] /\ op'[d].pc = "idle" /\ op'[d].kind = op[d].kind
    BY <1>1 DEF StartGame, Operations
<1>3. OwnOK(d)'
    BY <1>1, <1>2, OwnStays DEF Recorded, Landing
<1>4. PlaceOK(d)'
    BY <1>2 DEF PlaceOK
<1>5. ShownOK(d)'
    BY <1>1, <1>2, InClean DEF ShownOK, Apart
<1>6. QED
    BY <1>1, <1>2, <1>3, <1>4, <1>5, QuietClean

\* Nothing the invariant is about changes.
LEMMA StillClean ==
    ASSUME CleanInv, UNCHANGED <<disk, base, op, shown, saves, rows, over>>
    PROVE  CleanInv'
BY DEF CleanInv, NewerInv, DeviceOK, OwnOK, OwnOf, PlaceOK, ShownOK, Recorded, Apart

-----------------------------------------------------------------------------
(* What a conflict is shown against. *)

\* A content supersedes itself.
LEMMA HasItself ==
    ASSUME StateInv, WorkInv
    PROVE  /\ written \in Nat
           /\ \A i \in 1..Len(saves) :
                  saves[i].content \in 1..written /\ saves[i].content \in over[saves[i].content]
           /\ \A d \in Devices, f \in Files : disk[d][f] # None =>
                  disk[d][f] \in 1..written /\ disk[d][f] \in over[disk[d][f]]
<1>1. written \in Nat
    BY ClockBounds DEF StateInv, TypeOK
<1>2. ASSUME NEW i \in 1..Len(saves)
      PROVE  saves[i].content \in 1..written /\ saves[i].content \in over[saves[i].content]
    <2>1. saves[i].content \in Contents /\ saves[i].content <= written
        <3>1. saves \in Seq(SaveType)
            BY WorldOf DEF WorldTyped
        <3>2. saves[i] \in SaveType
            BY <3>1
        <3>3. QED
            BY <3>2, SavedValues DEF SaveType
    <2>2. saves[i].content \in 1..written
        BY <1>1, <2>1, ClockBounds DEF Contents
    <2>3. QED
        BY <2>2 DEF WorkInv, OverInv
<1>3. ASSUME NEW d \in Devices, NEW f \in Files, disk[d][f] # None
      PROVE  disk[d][f] \in 1..written /\ disk[d][f] \in over[disk[d][f]]
    <2>1. disk[d][f] \in 0..MaxContent /\ disk[d][f] <= written
        BY AtPlace DEF WorkInv, ValuesInv
    <2>2. disk[d][f] \in 1..written
        BY <1>1, <1>3, <2>1, ClockBounds DEF None
    <2>3. QED
        BY <2>2 DEF WorkInv, OverInv
<1>4. QED
    BY <1>1, <1>2, <1>3

\* What lies after the saves the device is current on is not part of its file.
LEMMA NewsIsApart ==
    ASSUME StateInv, WorkInv, CleanInv, NEW d \in Devices, NEW f \in Files,
           op[d].pc \notin Landing, NEW k \in 1..Len(saves),
           \A j \in 1..Len(saves) : rows[d][j] # 0 => j < k
    PROVE  saves[k].content \notin over[disk[d][f]]
<1> SUFFICES ASSUME saves[k].content \in over[disk[d][f]] PROVE FALSE
    OBVIOUS
<1> DEFINE c == saves[k].content
           from == Recorded(d, f)
<1>1. OwnOf(d, f, from)
    BY InClean DEF OwnOK
<1> HIDE DEF from
<1>2. c \in over[c]
    BY HasItself
<1>3. ~Apart(d, c)
    BY <1>2 DEF Apart
<1>4. c \in over[from]
    BY <1>1, <1>3 DEF OwnOf
<1>5. from # None
    BY <1>4 DEF WorkInv, OverInv
<1>6. PICK i \in 1..Len(saves) : saves[i].content = from /\ rows[d][i] # 0
    BY <1>1, <1>5 DEF OwnOf
<1>7. i < k
    BY <1>6
<1>8. QED
    BY <1>4, <1>6, <1>7 DEF CleanInv, NewerInv

\* Both sides changed: the file is shown against the i-th save.
BothChanged(d, f, i) ==
    \/ disk[d][f] \in Truncated
    \/ disk[d][f] \notin over[saves[i].content] /\ saves[i].content \notin over[disk[d][f]]

\* The device has the file to itself, and is not current on the save.
LEMMA ApartIsReal ==
    ASSUME StateInv, WorkInv, CleanInv, NEW d \in Devices, NEW f \in Files,
           op[d].pc \notin Landing, NEW k \in 1..Len(saves), Apart(d, disk[d][f]),
           \/ disk[d][f] \in Truncated
           \/ \A j \in 1..Len(saves) : rows[d][j] # 0 => j < k
    PROVE  BothChanged(d, f, k)
BY NewsIsApart DEF BothChanged, Apart

\* What is shown of a conflict in a step of the device.
ShowsReal(d) ==
    \A f \in Files : shown'[d][f] \in Ids /\ shown'[d][f] # shown[d][f] =>
        BothChanged(d, f, shown'[d][f])

\* The device's rows of saves other than the k-th are of earlier ones.
LEMMA NoneLater ==
    ASSUME StateInv, CurrentInv, \A f, g \in Files : f = g, NEW d \in Devices, NEW f \in Files,
           NEW k \in 1..Len(saves), NoneAfter(saves, rows[d], f, k), rows[d][k] = 0
    PROVE  \A j \in 1..Len(saves) : rows[d][j] # 0 => j < k
<1> SUFFICES ASSUME NEW j \in 1..Len(saves), rows[d][j] # 0 PROVE j < k
    OBVIOUS
<1>1. saves[j].file = f /\ j \in Nat /\ k \in Nat /\ Len(saves) \in Nat
    BY AtPlace DEF SaveType
<1>2. ~(j > k) /\ j # k
    BY <1>1 DEF NoneAfter
<1>3. QED
    BY <1>1, <1>2

LEMMA RelistClean ==
    ASSUME StateInv, WorkInv, CurrentInv, DescentInv, CleanInv, \A f, g \in Files : f = g,
           NEW d \in Devices, Relist(d)
    PROVE  CleanInv' /\ ShowsReal(d)
<1> DEFINE o == op[d]
           f == op[d].file
           listed == Listing(saves, rows[d])
           group == Group(listed, f)
           fresh == Newest(group)
           q == [o EXCEPT !.pc = "fetch", !.head = Named(fresh)]
<1>1. /\ o.pc = "relist" /\ UNCHANGED <<disk, base, saves, rows, over>>
      /\ o \in Operations /\ op \in [Devices -> Operations] /\ f \in Files
      /\ shown \in [Devices -> [Files -> 0..Refused]]
    BY AtPlace DEF Relist, deviceVars, serverVars, StateInv, TypeOK, OperationOK
<1>2. Apart(d, disk[d][f]) /\ Len(saves) # 0 /\ rows[d][Len(saves)] = 0
    BY <1>1, InClean DEF PlaceOK
<1>3. /\ listed \subseteq Listed
      /\ \A s \in listed : s.id \in 1..Len(saves) /\ s.upd = s.id
                  /\ s.content = saves[s.id].content /\ s.file = saves[s.id].file
      /\ \A j \in 1..Len(saves) : \E s \in listed : s.id = j
    BY ListingOK
<1>4. Len(saves) \in Nat /\ \A i \in 1..Len(saves) : saves[i].file = f
    BY <1>1, AtPlace DEF SaveType
<1> HIDE DEF listed
<1>5. group # {}
    BY <1>2, <1>3, <1>4 DEF Group
<1>6. fresh.id \in 1..Len(saves) /\ NoneAfter(saves, rows[d], f, fresh.id)
    <2>1. LET head == Named(fresh)
          IN  head.id \in 1..Len(saves) /\ NoneAfter(saves, rows[d], f, head.id)
        BY <1>3, <1>4, <1>5, NewestInHand
    <2>2. QED
        BY <2>1 DEF Named
<1>7. fresh.id = Len(saves)
    <2>1. PICK s \in listed : s.id = Len(saves)
        BY <1>2, <1>3, <1>4
    <2>2. s \in group /\ s.upd = Len(saves)
        BY <1>2, <1>3, <1>4, <2>1 DEF Group
    <2>3. fresh \in group /\ s.upd <= fresh.upd
        BY <1>3, <1>5, <2>2, NewestIsLast
    <2>4. fresh.upd = fresh.id
        BY <1>3, <2>3 DEF Group
    <2>5. QED
        BY <1>4, <1>6, <2>2, <2>3, <2>4
<1>8. BothChanged(d, f, fresh.id)
    <2>1. \A j \in 1..Len(saves) : rows[d][j] # 0 => j < fresh.id
        BY <1>2, <1>4, <1>7
    <2>2. QED
        BY <1>1, <1>2, <1>6, <2>1, ApartIsReal DEF Landing
<1>9. \/ UNCHANGED shown /\ op' = [op EXCEPT ![d] = q]
      \/ op' = [op EXCEPT ![d] = Done(o)] /\ shown' = [shown EXCEPT ![d][f] = fresh.id]
    BY <1>5 DEF Relist, listed
<1>10. q.pc = "fetch" /\ q.kind = o.kind /\ q.file = f /\ q.mem = o.mem
    BY <1>1 DEF Operations
<1> HIDE DEF fresh, q, group
<1>11. CASE UNCHANGED shown /\ op' = [op EXCEPT ![d] = q]
    <2>1. op' = [op EXCEPT ![d] = op'[d]] /\ op'[d] = q
        BY <1>1, <1>11
    <2>2. OwnOK(d)'
        BY <1>1, <1>10, <2>1, OwnStays DEF Recorded, Landing
    <2>3. PlaceOK(d)'
        BY <1>1, <1>10, <2>1 DEF PlaceOK
    <2>4. ShowsReal(d)
        BY <1>11 DEF ShowsReal
    <2>5. QED
        BY <1>1, <1>10, <1>11, <2>1, <2>2, <2>3, <2>4, OnWayClean
<1>12. CASE op' = [op EXCEPT ![d] = Done(o)] /\ shown' = [shown EXCEPT ![d][f] = fresh.id]
    <2>1. op' = [op EXCEPT ![d] = op'[d]] /\ op'[d] = Done(o)
        BY <1>1, <1>12
    <2>2. OwnOK(d)'
        BY <1>1, <2>1, DoneFields, OwnStays DEF Recorded, Landing
    <2>3. \A g \in Files : g = f
        BY <1>1
    <2>4. shown'[d][f] = fresh.id /\ \A e \in Devices \ {d} : shown'[e] = shown[e]
        BY <1>1, <1>12
    <2>5. ShowsReal(d)
        BY <1>8, <2>3, <2>4 DEF ShowsReal
    <2>6. CleanInv'
        BY <1>1, <1>2, <2>1, <2>2, <2>3, <2>4, DoneClean
    <2>7. QED
        BY <2>5, <2>6
<1>13. QED
    BY <1>9, <1>11, <1>12

\* An upload RomM does not take as new: it has nothing of the file.
LEMMA RefusedClean ==
    ASSUME StateInv, WorkInv, CurrentInv, CleanInv, NEW d \in Devices, Post(d)
    PROVE  \/ CleanInv'
           \/ /\ Create(d, op[d].file, disk[d][op[d].file]) /\ Len(saves) < MaxSaves
              /\ op' = [op EXCEPT ![d] = [op[d] EXCEPT !.pc = "recordUpload",
                            !.head = [id |-> Len(saves) + 1, content |-> disk[d][op[d].file]]]]
              /\ KeptOver(d, disk[d][op[d].file])
<1> DEFINE o == op[d]
           content == disk[d][op[d].file]
<1>1. /\ o.pc = "post" /\ UNCHANGED <<disk, base, shown>>
      /\ o \in Operations /\ op \in [Devices -> Operations] /\ o.file \in Files
    BY AtPlace DEF Post, deviceVars, StateInv, TypeOK, OperationOK
<1>2. Apart(d, content)
    BY <1>1, InClean DEF PlaceOK
<1>3. SameContent(saves, content, Overwrites(o)) = {}
    <2> SUFFICES ASSUME NEW i \in 1..Len(saves), saves[i].content = content PROVE FALSE
        BY DEF SameContent
    <2>1. content \in over[saves[i].content]
        BY HasItself
    <2>2. QED
        BY <1>2, <2>1 DEF Apart
<1>4. CASE /\ PostRefused(saves, rows[d], Overwrites(o))
           /\ op' = [op EXCEPT ![d].pc = "relist"] /\ UNCHANGED <<serverVars, over>>
    <2>1. UNCHANGED <<saves, rows, over>>
        BY <1>4 DEF serverVars
    <2>2. Len(saves) # 0 /\ rows[d][Len(saves)] = 0
        <3>1. saves # <<>> /\ ~(rows[d][SlotHead(saves)] >= saves[SlotHead(saves)].upd)
            BY <1>4 DEF PostRefused, IsCurrent
        <3>2. SlotHead(saves) = Len(saves) /\ Len(saves) \in Nat /\ Len(saves) # 0 /\ Len(saves) <= MaxSaves
            BY <3>1, SlotHeadLast, AtPlace
        <3>3. Len(saves) \in 1..Len(saves) /\ Len(saves) \in Ids
            BY <3>2, ClockBounds DEF Ids
        <3>4. saves[Len(saves)].upd = Len(saves) /\ rows[d][Len(saves)] \in {0, Len(saves)}
            BY <3>3 DEF CurrentInv, OrderInv
        <3>5. QED
            BY <3>1, <3>2, <3>4
    <2>3. /\ op' = [op EXCEPT ![d] = op'[d]] /\ op'[d].pc = "relist" /\ op'[d].mem = o.mem
          /\ op'[d].kind = o.kind /\ op'[d].file = o.file
        BY <1>1, <1>4 DEF Operations
    <2>4. OwnOK(d)'
        BY <1>1, <2>1, <2>3, OwnStays DEF Recorded, Landing
    <2>5. PlaceOK(d)'
        BY <1>1, <1>2, <2>1, <2>2, <2>3 DEF PlaceOK, Apart
    <2>6. QED
        BY <1>1, <2>1, <2>3, <2>4, <2>5, OnWayClean
<1>5. QED
    BY <1>3, <1>4 DEF Post

-----------------------------------------------------------------------------
(* What a sync decides of the file. *)

\* Its baseline is of a save RomM lists, and it is current on the newest one if
\* the device has a row of it.
LEMMA DecidesOn ==
    ASSUME StateInv, CurrentInv, DescentInv, CleanInv, \A f, g \in Files : f = g,
           NEW d \in Devices, op[d].pc = "decide", NEW f \in op[d].todo
    PROVE  LET o == op[d]
               group == Group(o.listed, f)
               newest == Newest(group)
               from == o.mem[f].local
           IN  /\ f \in Files /\ disk[d][f] = IF f \in o.probed THEN disk[d][f] ELSE None
               /\ OwnOf(d, f, from)
               /\ group = {} => from = None
               /\ group # {} =>
                      /\ newest.id \in 1..Len(saves) /\ newest.content = saves[newest.id].content
                      /\ newest.current \in BOOLEAN /\ (newest.current <=> rows[d][newest.id] # 0)
                      /\ newest.current => from # None
                      /\ ~newest.current => \A j \in 1..Len(saves) : rows[d][j] # 0 => j < newest.id
<1> DEFINE o == op[d]
           listed == o.listed
           group == Group(listed, f)
           newest == Newest(group)
           from == o.mem[f].local
<1>1. o \in Operations /\ f \in Files /\ o.listed \subseteq Listed /\ Len(saves) \in Nat
    BY AtPlace DEF Operations
<1>2. disk[d][f] = IF f \in o.probed THEN disk[d][f] ELSE None
    BY <1>1, InDescent DEF AheadOK
<1>3. OwnOf(d, f, from)
    BY <1>1, InClean DEF OwnOK, Landing, Recorded
<1>4. ASSUME group = {} PROVE from = None
    <2>1. ~ \E s \in o.listed : s.file = f
        BY <1>4 DEF Group
    <2>2. o.mem[f].server = None
        BY <1>1, <2>1, InDescent DEF AheadOK
    <2>3. QED
        BY <1>1, <2>2, InPlace DEF Even
<1>5. ASSUME group # {}
      PROVE  /\ newest.id \in 1..Len(saves) /\ newest.content = saves[newest.id].content
             /\ newest.current \in BOOLEAN /\ (newest.current <=> rows[d][newest.id] # 0)
             /\ newest.current => from # None
             /\ ~newest.current => \A j \in 1..Len(saves) : rows[d][j] # 0 => j < newest.id
    <2>1. ListedOK(o, saves, rows[d])
        BY InPlace
    <2>2. \A s \in o.listed : s.id \in 1..Len(saves) /\ s.upd = s.id
                             /\ s.content = saves[s.id].content /\ s.file = saves[s.id].file
        BY <2>1 DEF ListedOK
    <2>3. \A j \in 1..Len(saves) : saves[j].file = f /\ rows[d][j] # 0 => \E s \in o.listed : s.id = j
        BY <1>1, <2>1 DEF ListedOK
    <2> DEFINE head == Named(newest)
    <2>4. /\ head.id \in 1..Len(saves)
          /\ saves[head.id].file = f /\ saves[head.id].content = head.content
          /\ NoneAfter(saves, rows[d], f, head.id)
        <3>1. listed \subseteq Listed
            BY <1>1
        <3>2. \A s \in listed : s.id \in 1..Len(saves) /\ s.upd = s.id
                             /\ s.content = saves[s.id].content /\ s.file = saves[s.id].file
            BY <2>2
        <3>3. \A j \in 1..Len(saves) : saves[j].file = f /\ rows[d][j] # 0 => \E s \in listed : s.id = j
            BY <2>3
        <3>4. Len(saves) \in Nat /\ Group(listed, f) # {}
            BY <1>1, <1>5
        <3> HIDE DEF listed, o, from
        <3>5. QED
            BY <3>1, <3>2, <3>3, <3>4, NewestInHand
    <2>5. newest.id \in 1..Len(saves) /\ NoneAfter(saves, rows[d], f, newest.id)
        BY <2>4 DEF Named
    <2>6. newest \in o.listed /\ newest.current \in BOOLEAN
        BY <1>1, <1>5, NewestListed DEF Listed
    <2>7. newest.content = saves[newest.id].content
        BY <2>2, <2>6
    <2>8. newest.current <=> rows[d][newest.id] # 0
        BY <2>6, InClean DEF PlaceOK
    <2> HIDE DEF newest, from, group
    <2>9. newest.current => from # None
        BY <1>3, <2>5, <2>8 DEF OwnOf
    <2>10. ~newest.current => \A j \in 1..Len(saves) : rows[d][j] # 0 => j < newest.id
        BY <1>1, <2>5, <2>8, NoneLater
    <2>11. QED
        BY <2>5, <2>6, <2>7, <2>8, <2>9, <2>10
<1>6. QED
    BY <1>1, <1>2, <1>3, <1>4, <1>5

LEMMA DecideClean ==
    ASSUME StateInv, WorkInv, CurrentInv, DescentInv, CleanInv, \A f, g \in Files : f = g,
           NEW d \in Devices, Decide(d)
    PROVE  CleanInv' /\ ShowsReal(d)
<1>1. /\ op[d].pc = "decide" /\ UNCHANGED <<disk, base, saves, rows, over>>
      /\ op[d] \in Operations /\ op \in [Devices -> Operations]
      /\ shown \in [Devices -> [Files -> 0..Refused]]
    BY AtPlace DEF Decide, deviceVars, serverVars, StateInv, TypeOK
<1>2. PICK f \in op[d].todo :
        LET o == [op[d] EXCEPT !.file = f]
            local == IF f \in o.probed THEN disk[d][f] ELSE None
            group == Group(o.listed, f)
            head == IF group = {} THEN NoSave ELSE Named(Newest(group))
            decision == Decision(local, group, o.mem[f], Truncated)
            at(pc) == [o EXCEPT !.pc = pc, !.local = local, !.head = head]
        IN  /\ shown' = IF decision = "conflict" THEN [shown EXCEPT ![d][f] = head.id] ELSE shown
            /\ op' = [op EXCEPT ![d] =
                  CASE decision \in {"skip", "conflict"} -> Done(o)
                    [] decision = "record" -> Done([o EXCEPT
                          !.mem[f] = [local |-> local, server |-> head.content]])
                    [] decision = "adopt" -> at("adopt")
                    [] decision = "upload" -> at("post")
                    [] decision = "download" -> at("fetch")]
    BY DEF Decide
<1> DEFINE o == [op[d] EXCEPT !.file = f]
           local == IF f \in op[d].probed THEN disk[d][f] ELSE None
           group == Group(op[d].listed, f)
           newest == Newest(group)
           head == IF group = {} THEN NoSave ELSE Named(newest)
           from == op[d].mem[f].local
           decision == Decision(local, group, op[d].mem[f], Truncated)
           at(pc) == [o EXCEPT !.pc = pc, !.local = local, !.head = head]
<1>3. /\ o \in Operations /\ o.file = f /\ o.listed = op[d].listed /\ o.probed = op[d].probed
      /\ o.mem = op[d].mem /\ o.kind = op[d].kind /\ o.then = op[d].then
      /\ op[d].todo # {} /\ op[d].todo \subseteq Files /\ f \in Files
    BY <1>1 DEF Operations
<1>4. /\ local = disk[d][f] /\ OwnOf(d, f, from) /\ (group = {} => from = None)
      /\ group # {} =>
             /\ newest.id \in 1..Len(saves) /\ newest.content = saves[newest.id].content
             /\ newest.current \in BOOLEAN /\ (newest.current <=> rows[d][newest.id] # 0)
             /\ newest.current => from # None
             /\ ~newest.current => \A j \in 1..Len(saves) : rows[d][j] # 0 => j < newest.id
    BY <1>1, DecidesOn
<1>5. group # {} => head.id = newest.id
    BY DEF Named
<1>6. \A pc \in {"adopt", "post", "fetch"} :
          /\ at(pc).pc = pc /\ at(pc).file = f /\ at(pc).mem = o.mem
          /\ at(pc).kind = o.kind /\ at(pc).then = o.then
    BY <1>3 DEF Operations
<1> HIDE DEF o, local, group, newest, head, from
<1>7. /\ decision \in {"skip", "conflict", "adopt", "upload", "download"}
      /\ decision \in {"conflict", "upload"} => local # None /\ local # from
      /\ decision = "conflict" =>
             group # {} /\ (local \in Truncated \/ ~newest.current)
    BY <1>4, <1>5 DEF Decision, Identical, newest, from
<1> HIDE DEF decision
<1>8. /\ shown' = IF decision = "conflict" THEN [shown EXCEPT ![d][f] = head.id] ELSE shown
      /\ op' = [op EXCEPT ![d] =
            CASE decision \in {"skip", "conflict"} -> Done(o)
              [] decision = "record" -> Done([o EXCEPT
                    !.mem[f] = [local |-> local, server |-> head.content]])
              [] decision = "adopt" -> at("adopt")
              [] decision = "upload" -> at("post")
              [] decision = "download" -> at("fetch")]
    <2>1. /\ local = IF f \in o.probed THEN disk[d][f] ELSE None
          /\ group = Group(o.listed, f) /\ decision = Decision(local, group, o.mem[f], Truncated)
          /\ head = IF group = {} THEN NoSave ELSE Named(Newest(group))
        BY <1>3 DEF group, local, head, decision, newest
    <2> USE DEF o
    <2>2. /\ shown' = IF decision = "conflict" THEN [shown EXCEPT ![d][f] = head.id] ELSE shown
          /\ op' = [op EXCEPT ![d] =
            CASE decision \in {"skip", "conflict"} -> Done(o)
              [] decision = "record" -> Done([o EXCEPT
                    !.mem[f] = [local |-> local, server |-> head.content]])
              [] decision = "adopt" -> at("adopt")
              [] decision = "upload" -> at("post")
              [] decision = "download" -> at("fetch")]
        BY <1>2, <2>1
    <2>3. QED
        BY <2>2
<1>9. decision \in {"conflict", "upload"} => Apart(d, disk[d][f])
    BY <1>4, <1>7 DEF OwnOf
<1>10. ASSUME op'[d].mem = op[d].mem, op'[d].pc # "idle" PROVE OwnOK(d)'
    BY <1>1, <1>10, OwnStays DEF Recorded, Landing
<1>11. \A g \in Files : g = f
    BY <1>3
<1>12. CASE decision \in {"skip", "conflict"}
    <2>1. op' = [op EXCEPT ![d] = op'[d]] /\ op'[d] = Done(o)
        BY <1>1, <1>8, <1>12
    <2>2. OwnOK(d)'
        BY <1>3, <1>10, <2>1, DoneFields
    <2>3. CASE decision = "skip"
        <3>1. shown' = shown
            BY <1>8, <2>3
        <3>2. CleanInv'
            BY <1>1, <1>3, <2>1, <2>2, <3>1, DoneClean
        <3>3. QED
            BY <3>1, <3>2 DEF ShowsReal
    <2>4. CASE decision = "conflict"
        <3>1. /\ shown'[d][f] = newest.id /\ newest.id \in 1..Len(saves)
              /\ \A e \in Devices \ {d} : shown'[e] = shown[e]
            BY <1>1, <1>3, <1>4, <1>5, <1>7, <1>8, <2>4
        <3>2. BothChanged(d, f, newest.id)
            BY <1>1, <1>3, <1>4, <1>7, <1>9, <2>4, <3>1, ApartIsReal DEF Landing
        <3>3. ShowsReal(d)
            BY <1>11, <3>1, <3>2 DEF ShowsReal
        <3>4. CleanInv'
            BY <1>1, <1>3, <1>9, <1>11, <2>1, <2>2, <2>4, <3>1, DoneClean
        <3>5. QED
            BY <3>3, <3>4
    <2>5. QED
        BY <1>12, <2>3, <2>4
<1>13. ASSUME NEW pc \in {"adopt", "post", "fetch"}, op' = [op EXCEPT ![d] = at(pc)],
              pc = "post" => Apart(d, disk[d][f]), shown' = shown
       PROVE  CleanInv' /\ ShowsReal(d)
    <2>1. /\ op' = [op EXCEPT ![d] = op'[d]] /\ op'[d].pc = pc /\ op'[d].file = f
          /\ op'[d].mem = op[d].mem /\ op'[d].kind = op[d].kind /\ op'[d].then = op[d].then
        BY <1>1, <1>3, <1>6, <1>13
    <2>2. OwnOK(d)'
        BY <1>10, <2>1
    <2>3. PlaceOK(d)'
        BY <1>1, <1>3, <1>13, <2>1, InClean DEF PlaceOK, Apart
    <2>4. CleanInv'
        BY <1>1, <1>3, <1>13, <2>1, <2>2, <2>3, OnWayClean
    <2>5. QED
        BY <1>13, <2>4 DEF ShowsReal
<1> HIDE DEF at
<1>14. CASE decision = "adopt"
    BY <1>8, <1>13, <1>14
<1>15. CASE decision = "upload"
    BY <1>8, <1>9, <1>13, <1>15
<1>16. CASE decision = "download"
    BY <1>8, <1>13, <1>16
<1>17. QED
    BY <1>7, <1>12, <1>14, <1>15, <1>16

-----------------------------------------------------------------------------
(* The steps that change what RomM or a device has. *)

\* A content a game writes is new: nothing else has it.
LEMMA GameWritesClean ==
    ASSUME StateInv, WorkInv, CurrentInv, DescentInv, CleanInv, StateInv',
           \A f, g \in Files : f = g, NEW d \in Devices, NEW f \in Files, GameWrites(d, f)
    PROVE  CleanInv'
<1>0. PICK new : new = written + 1
    OBVIOUS
<1> DEFINE from == Recorded(d, f)
<1>1. /\ game[d].running /\ written < MaxContent
      /\ disk' = [disk EXCEPT ![d][f] = new]
      /\ Write(new, game[d].loaded[f])
      /\ UNCHANGED <<base, op, shown, saves, rows>>
    BY <1>0 DEF GameWrites, serverVars
<1>2. /\ disk \in [Devices -> [Files -> 0..MaxContent]] /\ written \in 0..MaxContent
      /\ op \in [Devices -> Operations]
    BY DEF StateInv, TypeOK
<1>3. new \in 1..MaxContent /\ new # None /\ \A c \in 0..MaxContent : c <= written => c # new
    BY <1>0, <1>1, <1>2, SaveAssumption DEF None
<1>4. game[d].loaded[f] = disk[d][f] /\ op[d].pc = "idle"
    BY <1>1 DEF CurrentInv, CalmInv, Differs
<1>5. /\ \A c \in 0..MaxContent : c <= written => over'[c] = over[c]
      /\ over'[new] = over[disk[d][f]] \cup {new}
    BY <1>0, <1>1, <1>3, <1>4, WritesOver
<1>6. /\ \A e \in Devices, g \in Files : disk[e][g] \in 0..MaxContent /\ disk[e][g] <= written
      /\ \A i \in 1..Len(saves) : saves[i].content \in 0..MaxContent /\ saves[i].content <= written
    BY <1>2, SavedValues DEF WorkInv, ValuesInv
<1>7. \A c \in 0..MaxContent : \A x \in over[c] : x # new
    <2>1. ASSUME NEW c \in 0..MaxContent, NEW x \in over[c] PROVE x <= written /\ x \in 0..MaxContent
        <3>1. over[c] \subseteq Contents
            BY DEF StateInv, TypeOK
        <3>2. x <= written
            BY DEF DescentInv, LineInv
        <3>3. QED
            BY <3>1, <3>2, ClockBounds DEF Contents
    <2>2. QED
        BY <1>3, <2>1
<1>8. \A g \in Files : g = f
    OBVIOUS
<1>9. \A e \in Devices, g \in Files : disk'[e][g] = IF e = d /\ g = f THEN new ELSE disk[e][g]
    BY <1>1, <1>2
<1>10. /\ \A e \in Devices, g \in Files : over'[disk[e][g]] = over[disk[e][g]]
       /\ \A i \in 1..Len(saves) : over'[saves[i].content] = over[saves[i].content]
    BY <1>5, <1>6
<1>11. ASSUME NEW e \in Devices \ {d}, NEW c, c # new, Apart(e, c) PROVE Apart(e, c)'
    <2>1. c \notin over[disk[d][f]] /\ c \notin over'[new]
        BY <1>5, <1>11 DEF Apart
    <2>2. ASSUME NEW a \in Devices \ {e}, NEW g \in Files PROVE c \notin over'[disk'[a][g]]
        <3>1. CASE a = d /\ g = f
            BY <1>9, <2>1, <3>1
        <3>2. CASE ~(a = d /\ g = f)
            BY <1>9, <1>10, <1>11, <3>2 DEF Apart
        <3>3. QED
            BY <3>1, <3>2
    <2>3. QED
        BY <1>1, <1>10, <1>11, <2>2 DEF Apart
<1>12. ASSUME NEW c, c = new \/ Apart(d, c) PROVE Apart(d, c)'
    <2>1. \A i \in 1..Len(saves) : c \notin over[saves[i].content]
        BY <1>6, <1>7, <1>12 DEF Apart
    <2>2. \A e \in Devices \ {d}, g \in Files : c \notin over[disk[e][g]]
        BY <1>6, <1>7, <1>12 DEF Apart
    <2>3. \A e \in Devices \ {d}, g \in Files : c \notin over'[disk'[e][g]]
        BY <1>9, <1>10, <2>2
    <2>4. QED
        BY <1>1, <1>10, <2>1, <2>3 DEF Apart
<1>13. OwnOK(d)'
    <2>1. OwnOf(d, f, from)
        BY <1>4, InClean DEF OwnOK, Landing
    <2>2. PICK v : v = from /\ v = from'
        BY <1>1 DEF Recorded
    <2>3. v \in 0..MaxContent /\ v <= written
        BY <1>2, <1>6, <2>1, <2>2, ClockBounds DEF OwnOf, None
    <2>4. over'[v] = over[v]
        BY <1>5, <2>3
    <2>5. OwnOf(d, f, v)
        BY <2>1, <2>2
    <2> HIDE DEF from
    <2>6. \A c \in over'[disk'[d][f]] : c \in over'[v] \/ Apart(d, c)'
        BY <1>5, <1>9, <1>12, <2>4, <2>5 DEF OwnOf
    <2>7. Apart(d, disk[d][f])'
        <3>1. disk'[d][f] = new /\ Apart(d, new)'
            BY <1>9, <1>12
        <3>2. QED
            BY <3>1 DEF Apart
    <2>8. QED
        BY <1>1, <1>8, <2>2, <2>5, <2>6, <2>7 DEF OwnOK, OwnOf, from
<1>14. PlaceOK(d)'
    BY <1>1, <1>4 DEF PlaceOK
<1>15. ShownOK(d)'
    <2>1. \A g \in Files : Apart(d, disk[d][g])'
        <3>1. disk'[d][f] = new /\ Apart(d, new)'
            BY <1>9, <1>12
        <3>2. QED
            BY <1>8, <3>1 DEF Apart
    <2>2. QED
        BY <1>1, <1>4, <2>1 DEF ShownOK
<1>16. ASSUME NEW e \in Devices \ {d}, NEW g \in Files, NEW c \in over[disk[e][g]] \cup {disk[e][g]},
              Apart(e, c)
       PROVE  Apart(e, c)'
    <2>1. c # new
        BY <1>3, <1>6, <1>7
    <2>2. QED
        BY <1>11, <1>16, <2>1
<1>17. NewerInv'
    BY <1>1, <1>10 DEF CleanInv, NewerInv
<1>18. /\ op' = [op EXCEPT ![d] = op'[d]]
       /\ \A e \in Devices \ {d} :
              disk'[e] = disk[e] /\ base'[e] = base[e] /\ rows'[e] = rows[e] /\ shown'[e] = shown[e]
       /\ Len(saves) <= Len(saves') /\ \A i \in 1..Len(saves) : saves'[i] = saves[i]
    BY <1>1, <1>2, AtPlace
<1>19. \A c \in 0..MaxContent : over[c] \subseteq over'[c]
    <2>1. \A c \in 0..MaxContent : \A x \in over[c] : c <= written
        BY DEF DescentInv, LineInv
    <2>2. QED
        BY <1>5, <2>1
<1>20. QED
    BY <1>10, <1>13, <1>14, <1>15, <1>16, <1>17, <1>18, <1>19, OthersClean

\* What is placed is a save, and the baseline is still to be recorded.
LEMMA PlaceClean ==
    ASSUME StateInv, CurrentInv, CleanInv, StateInv', NEW d \in Devices, Place(d)
    PROVE  CleanInv'
<1> DEFINE o == op[d]
           f == op[d].file
<1>1. /\ o.pc = "place" /\ disk' = [disk EXCEPT ![d][f] = o.local]
      /\ op' = [op EXCEPT ![d] = [o EXCEPT !.pc = "ack", !.then = "record"]]
      /\ UNCHANGED <<base, shown, saves, rows, over>>
    BY DEF Place, serverVars
<1>2. /\ disk \in [Devices -> [Files -> 0..MaxContent]] /\ op \in [Devices -> Operations]
      /\ o \in Operations
    BY DEF StateInv, TypeOK
<1>3. PICK i \in 1..Len(saves) : o.local = saves[i].content
    BY <1>1, InPlace DEF HandOK, InHand
<1>4. \A e \in Devices, g \in Files :
          disk'[e][g] = IF e = d /\ g = f THEN saves[i].content ELSE disk[e][g]
    BY <1>1, <1>2, <1>3
<1>5. /\ op' = [op EXCEPT ![d] = op'[d]] /\ op'[d].pc = "ack" /\ op'[d].then = "record"
      /\ op'[d].kind = o.kind /\ op'[d].file = f
    BY <1>1, <1>2 DEF Operations
<1>6. ASSUME NEW e \in Devices \ {d}, NEW c, Apart(e, c) PROVE Apart(e, c)'
    <2>1. \A a \in Devices \ {e}, g \in Files : c \notin over'[disk'[a][g]]
        BY <1>1, <1>4, <1>6 DEF Apart
    <2>2. QED
        BY <1>1, <1>6, <2>1 DEF Apart
<1>7. OwnOK(d)'
    BY <1>5 DEF OwnOK, Landing
<1>8. PlaceOK(d)'
    BY <1>1, <1>5, AtPlace DEF PlaceOK, OperationOK
<1>9. ShownOK(d)'
    BY <1>1, <1>5, InClean DEF ShownOK
<1>10. NewerInv'
    BY <1>1 DEF CleanInv, NewerInv
<1>11. /\ \A e \in Devices \ {d} :
              disk'[e] = disk[e] /\ base'[e] = base[e] /\ rows'[e] = rows[e] /\ shown'[e] = shown[e]
       /\ Len(saves) <= Len(saves') /\ \A j \in 1..Len(saves) : saves'[j] = saves[j]
       /\ \A c \in 0..MaxContent : over[c] \subseteq over'[c]
       /\ \A e \in Devices \ {d}, g \in Files : over'[disk[e][g]] = over[disk[e][g]]
    BY <1>1, <1>2, AtPlace
<1>12. QED
    BY <1>5, <1>6, <1>7, <1>8, <1>9, <1>10, <1>11, OthersClean

\* What Keep Local supersedes: what has the file's content comes to have a save's.
LEMMA KeptFromSaves ==
    ASSUME StateInv, NEW d \in Devices, NEW content, KeptOver(d, content)
    PROVE  \A x \in 0..MaxContent :
               \/ over'[x] = over[x]
               \/ /\ content \in over[x]
                  /\ \E i \in 1..Len(saves) : over'[x] = over[x] \cup over[saves[i].content]
<1> DEFINE beaten == FileHead(saves, op[d].file)
<1>1. over \in [0..MaxContent -> SUBSET Contents] /\ beaten \in 0..Len(saves) /\ Len(saves) \in Nat
    BY AtPlace, FileHeadTyped DEF StateInv, TypeOK
<1> HIDE DEF beaten
<1>2. CASE UNCHANGED over
    BY <1>2
<1>3. CASE beaten # 0 /\ Choose(content, saves[beaten].content)
    <2>1. beaten \in 1..Len(saves)
        BY <1>1, <1>3
    <2>2. \A x \in 0..MaxContent :
              over'[x] = IF content \in over[x] THEN over[x] \cup over[saves[beaten].content] ELSE over[x]
        BY <1>1, <1>3 DEF Choose
    <2>3. QED
        BY <2>1, <2>2
<1>4. QED
    BY <1>2, <1>3 DEF KeptOver, beaten

\* An upload RomM takes is of a file the device has to itself.
LEMMA CreateClean ==
    ASSUME StateInv, WorkInv, CurrentInv, CleanInv, StateInv', \A f, g \in Files : f = g,
           NEW d \in Devices, op[d].pc = "post", UNCHANGED <<disk, base, shown, replaced>>,
           Create(d, op[d].file, disk[d][op[d].file]), Len(saves) < MaxSaves,
           op' = [op EXCEPT ![d] = [op[d] EXCEPT !.pc = "recordUpload",
                         !.head = [id |-> Len(saves) + 1, content |-> disk[d][op[d].file]]]],
           KeptOver(d, disk[d][op[d].file])
    PROVE  CleanInv'
<1>1. PICK content : content = disk[d][op[d].file]
    OBVIOUS
<1> DEFINE o == op[d]
           f == op[d].file
           k == Len(saves) + 1
<1>2. /\ o \in Operations /\ op \in [Devices -> Operations] /\ f \in Files /\ \A g \in Files : g = f
      /\ Len(saves) \in Nat /\ content \in 0..MaxContent /\ content # None /\ content \in Contents
    <2>1. /\ o \in Operations /\ f \in Files /\ Len(saves) \in Nat
          /\ content # None /\ content \in 0..MaxContent
        BY <1>1, AtPlace DEF OperationOK, HasFile
    <2>2. content \in Contents
        BY <2>1, ClockBounds DEF Contents, None
    <2>3. QED
        BY <2>1, <2>2 DEF StateInv, TypeOK
<1>3. Apart(d, content) /\ o.then = "none"
    BY <1>1, InClean DEF PlaceOK, Apart
<1>4. content \in over[content]
    BY <1>1, <1>2, HasItself
<1>5. /\ Len(saves') = k /\ saves'[k].content = content
      /\ \A i \in 1..Len(saves) : saves'[i] = saves[i]
    BY <1>1, <1>2, CreateTyped
<1>6. /\ \A e \in Devices \ {d} : rows'[e] = rows[e]
      /\ rows'[d][k] # 0
    <2>1. k \in Ids
        BY <1>2, ClockBounds DEF Ids
    <2>2. rows \in [Devices -> [Ids -> 0..MaxClock]] /\ clock \in 0..MaxClock
        BY DEF StateInv, TypeOK
    <2>3. clock + 1 # 0
        BY <2>2, ClockBounds
    <2>4. QED
        BY <2>1, <2>2, <2>3 DEF Create
<1>7. /\ op' = [op EXCEPT ![d] = op'[d]] /\ op'[d].pc = "recordUpload" /\ op'[d].head.id = k
      /\ op'[d].kind = o.kind /\ op'[d].file = f /\ op'[d].then = o.then
    BY <1>2 DEF Operations
<1>8. \A x \in 0..MaxContent :
          \/ over'[x] = over[x]
          \/ /\ content \in over[x]
             /\ \E i \in 1..Len(saves) : over'[x] = over[x] \cup over[saves[i].content]
    BY <1>1, KeptFromSaves
<1>9. \A i \in 1..Len(saves) : over'[saves[i].content] = over[saves[i].content]
    <2>1. \A i \in 1..Len(saves) : saves[i].content \in 0..MaxContent
        BY SavedValues
    <2>2. QED
        BY <1>3, <1>8, <2>1 DEF Apart
<1>10. \A e \in Devices \ {d}, g \in Files : over'[disk[e][g]] = over[disk[e][g]]
    <2>1. \A e \in Devices, g \in Files : disk[e][g] \in 0..MaxContent
        BY DEF StateInv, TypeOK
    <2>2. QED
        BY <1>3, <1>8, <2>1 DEF Apart
<1> HIDE DEF k
<1>11. \A j \in 1..k : j = k \/ j \in 1..Len(saves)
    BY <1>2 DEF k
<1>12. ASSUME NEW e \in Devices \ {d}, NEW c, Apart(e, c) PROVE Apart(e, c)'
    <2>1. c \notin over[content]
        BY <1>1, <1>2, <1>12 DEF Apart
    <2>2. c \notin over'[content]
        BY <1>2, <1>8, <1>12, <2>1 DEF Apart
    <2>3. \A i \in 1..Len(saves') : c \notin over'[saves'[i].content]
        <3> SUFFICES ASSUME NEW i \in 1..Len(saves') PROVE c \notin over'[saves'[i].content]
            OBVIOUS
        <3>1. CASE i = k
            BY <1>5, <2>2, <3>1
        <3>2. CASE i \in 1..Len(saves)
            BY <1>5, <1>9, <1>12, <3>2 DEF Apart
        <3>3. QED
            BY <1>5, <1>11, <3>1, <3>2
    <2>4. \A a \in Devices \ {e}, g \in Files : c \notin over'[disk'[a][g]]
        <3> SUFFICES ASSUME NEW a \in Devices \ {e}, NEW g \in Files PROVE c \notin over'[disk[a][g]]
            OBVIOUS
        <3>1. CASE a = d
            BY <1>1, <1>2, <2>2, <3>1
        <3>2. CASE a # d
            BY <1>10, <1>12, <3>2 DEF Apart
        <3>3. QED
            BY <3>1, <3>2
    <2>5. QED
        BY <2>3, <2>4 DEF Apart
<1>13. NewerInv'
    <2> SUFFICES ASSUME NEW i \in 1..Len(saves'), NEW j \in 1..Len(saves'), i < j
                 PROVE  saves'[j].content \notin over'[saves'[i].content]
        BY DEF NewerInv
    <2>1. i \in 1..Len(saves)
        BY <1>2, <1>5 DEF k
    <2>2. over'[saves'[i].content] = over[saves[i].content]
        BY <1>5, <1>9, <2>1
    <2>3. CASE j = k
        BY <1>3, <1>5, <2>1, <2>2, <2>3 DEF Apart
    <2>4. CASE j \in 1..Len(saves)
        BY <1>5, <2>1, <2>2, <2>4 DEF CleanInv, NewerInv
    <2>5. QED
        BY <1>5, <1>11, <2>3, <2>4
<1>14. OwnOK(d)'
    BY <1>7 DEF OwnOK, Landing
<1>15. PlaceOK(d)'
    BY <1>2, <1>3, <1>6, <1>7 DEF PlaceOK
<1>16. ShownOK(d)'
    BY <1>7, InClean DEF ShownOK
<1>17. /\ \A e \in Devices \ {d} :
              disk'[e] = disk[e] /\ base'[e] = base[e] /\ rows'[e] = rows[e] /\ shown'[e] = shown[e]
       /\ Len(saves) <= Len(saves')
       /\ \A c \in 0..MaxContent : over[c] \subseteq over'[c]
    BY <1>2, <1>5, <1>6, KeptOverTyped DEF k
<1>18. QED
    BY <1>5, <1>7, <1>10, <1>12, <1>13, <1>14, <1>15, <1>16, <1>17, OthersClean

LEMMA PostClean ==
    ASSUME StateInv, WorkInv, CurrentInv, CleanInv, StateInv', \A f, g \in Files : f = g,
           NEW d \in Devices, Post(d)
    PROVE  CleanInv'
<1>1. op[d].pc = "post" /\ UNCHANGED <<disk, base, shown, replaced>>
    BY DEF Post, deviceVars, boundVars
<1>2. QED
    BY <1>1, RefusedClean, CreateClean

-----------------------------------------------------------------------------
(* Until something fails. *)

\* A step of a device, and what it shows.
LEMMA StepClean ==
    ASSUME StateInv, WorkInv, CurrentInv, DescentInv, CleanInv, StateInv',
           \A f, g \in Files : f = g, NEW d \in Devices, Step(d)
    PROVE  CleanInv' /\ \A e \in Devices : ShowsReal(e)
<1>1. ASSUME UNCHANGED shown PROVE \A e \in Devices : ShowsReal(e)
    BY <1>1 DEF ShowsReal
<1>2. ASSUME ShowsReal(d), NEW f, NEW id, shown' \in {shown, [shown EXCEPT ![d][f] = id]}
      PROVE  \A e \in Devices : ShowsReal(e)
    <2>1. \A e \in Devices \ {d} : shown'[e] = shown[e]
        BY <1>2 DEF StateInv, TypeOK
    <2>2. QED
        BY <1>2, <2>1 DEF ShowsReal
<1>3. CASE Decide(d)
    <2>1. CleanInv' /\ ShowsReal(d)
        BY <1>3, DecideClean
    <2>2. \E f, id : shown' \in {shown, [shown EXCEPT ![d][f] = id]}
        BY <1>3 DEF Decide
    <2>3. QED
        BY <1>2, <2>1, <2>2
<1>4. CASE Relist(d)
    <2>1. CleanInv' /\ ShowsReal(d)
        BY <1>4, RelistClean
    <2>2. \E f, id : shown' \in {shown, [shown EXCEPT ![d][f] = id]}
        BY <1>4 DEF Relist
    <2>3. QED
        BY <1>2, <2>1, <2>2
<1>5. CASE Finish(d)
    <2>1. shown \in [Devices -> [Files -> 0..Refused]]
        BY DEF StateInv, TypeOK
    <2>2. \A e \in Devices, f \in Files : shown'[e][f] \in {shown[e][f], 0}
        BY <1>5, <2>1 DEF Finish
    <2>3. \A e \in Devices : ShowsReal(e)
        BY <2>2 DEF ShowsReal, Ids
    <2>4. QED
        BY <1>5, <2>3, FinishClean
<1>6. CASE Post(d)
    BY <1>1, <1>6, PostClean DEF Post
<1>7. CASE Record(d) \/ RecordUpload(d)
    BY <1>1, <1>7, RecordClean DEF Record, RecordUpload
<1>8. CASE Acknowledge(d)
    BY <1>1, <1>8, AcknowledgeClean DEF Acknowledge
<1>9. CASE AcknowledgeAgain(d)
    BY <1>9, InClean DEF AcknowledgeAgain, PlaceOK
<1>10. CASE Compare(d)
    BY <1>1, <1>10, CompareClean DEF Compare
<1>11. CASE Fetch(d)
    BY <1>1, <1>11, FetchClean DEF Fetch
<1>12. CASE Place(d)
    BY <1>1, <1>12, PlaceClean DEF Place
<1>13. CASE Adopt(d)
    BY <1>1, <1>13, AdoptClean DEF Adopt
<1>14. QED
    BY <1>3, <1>4, <1>5, <1>6, <1>7, <1>8, <1>9, <1>10, <1>11, <1>12, <1>13 DEF Step

\* A step in which nothing fails, and what it shows.
LEMMA NextClean ==
    ASSUME MaxReplaced = 0, ~PlayAnyway, \A f, g \in Files : f = g,
           StateInv, WorkInv, CurrentInv, DescentInv, CleanInv, StateInv',
           [Next]_vars, \A d \in Devices : ~Fails(d)
    PROVE  CleanInv' /\ \A e \in Devices : ShowsReal(e)
<1>1. ASSUME UNCHANGED shown PROVE \A e \in Devices : ShowsReal(e)
    BY <1>1 DEF ShowsReal
<1>2. shown \in [Devices -> [Files -> 0..Refused]]
    BY DEF StateInv, TypeOK
<1>3. ASSUME NEW d \in Devices, StartGame(d) PROVE CleanInv' /\ \A e \in Devices : ShowsReal(e)
    BY <1>1, <1>3, StartGameClean DEF StartGame
<1>4. ASSUME NEW d \in Devices, ExitGame(d) PROVE CleanInv' /\ \A e \in Devices : ShowsReal(e)
    BY <1>1, <1>4, StillClean DEF ExitGame, serverVars
<1>5. ASSUME NEW d \in Devices, NEW f \in Files, GameWrites(d, f)
      PROVE  CleanInv' /\ \A e \in Devices : ShowsReal(e)
    BY <1>1, <1>5, GameWritesClean DEF GameWrites
<1>6. ASSUME NEW d \in Devices, NEW kind \in Syncs, Start(d, kind)
      PROVE  CleanInv' /\ \A e \in Devices : ShowsReal(e)
    <2>1. \A e \in Devices, f \in Files : shown'[e][f] \in {shown[e][f], 0}
        BY <1>2, <1>6 DEF Start
    <2>2. \A e \in Devices : ShowsReal(e)
        BY <2>1 DEF ShowsReal, Ids
    <2>3. QED
        BY <1>6, <2>2, StartClean
<1>7. ASSUME NEW d \in Devices, NEW f \in Files, NEW kind \in Resolutions, Resolve(d, f, kind)
      PROVE  CleanInv' /\ \A e \in Devices : ShowsReal(e)
    <2>1. \A e \in Devices, g \in Files : shown'[e][g] \in {shown[e][g], Refused}
        BY <1>2, <1>7 DEF Resolve
    <2>2. Refused \notin Ids
        BY SaveAssumption DEF Refused, Ids
    <2>3. \A e \in Devices : ShowsReal(e)
        BY <2>1, <2>2 DEF ShowsReal
    <2>4. QED
        BY <1>7, <2>3, ResolveClean
<1>8. ASSUME NEW id \in Ids PROVE ~Replace(id)
    BY DEF Replace, StateInv, TypeOK
<1>9. CASE UNCHANGED vars
    BY <1>1, <1>9, StillClean DEF vars, deviceVars, serverVars
<1>10. CASE Next
    BY <1>3, <1>4, <1>5, <1>6, <1>7, <1>8, <1>10, StepClean, Zenon DEF Next, Plays
<1>11. QED
    BY <1>9, <1>10

LEMMA RealStep ==
    ASSUME MaxReplaced = 0, ~PlayAnyway, \A f, g \in Files : f = g,
           StateInv, WorkInv, RealInv, StateInv', [Next]_vars
    PROVE  RealInv'
<1> SUFFICES ASSUME faults' = 0 PROVE CurrentInv' /\ DescentInv' /\ CleanInv'
    BY DEF RealInv
<1>1. faults \in Nat
    BY SaveAssumption DEF StateInv, TypeOK
<1>2. ASSUME NEW d \in Devices PROVE ~Fails(d)
    BY <1>1 DEF Fails, RequestFails, AnswerLost, PlaceFails, Crash, Fault
<1>3. faults' = faults
    <2>1. ASSUME NEW d \in Devices, Plays(d) PROVE faults' = faults
        BY <2>1 DEF Plays, StartGame, ExitGame, GameWrites, boundVars
    <2>2. ASSUME NEW d \in Devices, Step(d) PROVE faults' = faults
        BY <2>2, Zenon DEF Step, Decide, Finish, Compare, Post, RecordUpload, Relist, Fetch, Place,
                           Record, Adopt, Acknowledge, AcknowledgeAgain, boundVars
    <2>3. ASSUME NEW d \in Devices
          PROVE  /\ \A kind \in Syncs : Start(d, kind) => faults' = faults
                 /\ \A f \in Files, kind \in Resolutions : Resolve(d, f, kind) => faults' = faults
        BY DEF Start, Resolve, boundVars
    <2>4. UNCHANGED vars \/ (\E id \in Ids : Replace(id)) => faults' = faults
        BY DEF Replace, vars, boundVars
    <2>5. QED
        BY <1>2, <2>1, <2>2, <2>3, <2>4, Zenon DEF Next
<1>4. CurrentInv /\ DescentInv /\ CleanInv
    BY <1>3 DEF RealInv
<1>5. CurrentInv' /\ DescentInv'
    BY <1>2, <1>4, WholeStepCurrent, WholeStepDescent DEF Fails
<1>6. CleanInv'
    BY <1>2, <1>4, NextClean
<1>7. QED
    BY <1>5, <1>6

(* Of a slot with one file, a conflict is shown only where both sides        *)
(* changed, or where the file looks cut short: until something fails.  What  *)
(* a device has beyond its baseline nothing else has, and what lies after    *)
(* the saves it is current on is not part of its file; so is the case where  *)
(* a sync decides on a listing that other devices have passed since.         *)
THEOREM ConflictsAreReal ==
    ASSUME MaxReplaced = 0, ~PlayAnyway, \A f, g \in Files : f = g
    PROVE  Spec => ConflictIsReal
<1> DEFINE Shows == \A d \in Devices, f \in Files :
               faults = 0 /\ shown'[d][f] \in Ids /\ shown'[d][f] # shown[d][f] =>
                   LET server == saves[shown'[d][f]].content
                       local == disk[d][f]
                   IN \/ local \in Truncated
                      \/ local \notin over[server] /\ server \notin over[local]
<1>1. ASSUME StateInv, WorkInv, RealInv, StateInv', [Next]_vars
      PROVE  Shows
    <2> SUFFICES ASSUME faults = 0, NEW d \in Devices, NEW f \in Files,
                        shown'[d][f] \in Ids, shown'[d][f] # shown[d][f]
                 PROVE  BothChanged(d, f, shown'[d][f])
        BY DEF BothChanged
    <2>1. ASSUME NEW e \in Devices PROVE ~Fails(e)
        BY DEF Fails, RequestFails, AnswerLost, PlaceFails, Crash
    <2>2. CurrentInv /\ DescentInv /\ CleanInv
        BY <1>1 DEF RealInv
    <2>3. ShowsReal(d)
        BY <1>1, <2>1, <2>2, NextClean
    <2>4. QED
        BY <2>3 DEF ShowsReal
<1>2. Init => StateInv /\ WorkInv /\ RealInv
    BY StateInit, WorkInit, CurrentInit, DescentInit, CleanInit DEF RealInv
<1>3. StateInv /\ WorkInv /\ RealInv /\ [Next]_vars =>
          (StateInv /\ WorkInv /\ RealInv)'
    BY StateStep, WorkStep, RealStep
<1>4. StateInv /\ WorkInv /\ RealInv /\ StateInv' /\ [Next]_vars =>
          [Shows]_vars
    BY <1>1
<1>5. QED
    BY <1>2, <1>3, <1>4, PTL DEF Spec, ConflictIsReal
=============================================================================
