------------------------ MODULE SaveSyncGateProofs ------------------------
(***************************************************************************)
(* Proofs that the device gate and the rom_locks are held by whom they     *)
(* should be, that a start's stop reaches the syncs of its game and that a *)
(* game played anyway keeps its saves, for any number of calls and games.  *)
(***************************************************************************)
EXTENDS SaveSyncGate, WellFoundedInduction, TLAPS

\* The types the argument about the owners needs; who waits does not matter to it.
StateTyped ==
    /\ run \in [Runs -> RunStates]
    /\ other \in [Others -> [pc : {"idle", "rom", "held"}, rom : 0..LastRom]]
    /\ owner \in [Locks -> Runs \cup Others \cup {Nobody}]
    /\ game \in [Roms -> [state : GameStates, anyway : BOOLEAN]]

UnderGate == {"won", "held", "rom"} \cup Syncing

\* A call has the locks its place in the code needs, and is at a game there.
RunHolds(r) ==
    /\ run[r].pc \in UnderGate => owner[Gate] = r
    /\ run[r].pc \in Syncing => owner[run[r].rom] = r
    /\ run[r].pc \in {"rom"} \cup Syncing => run[r].rom \in Roms
    /\ run[r].pc # "idle" /\ run[r].kind # "syncAll" => run[r].rom \in Roms

OtherHolds(o) ==
    /\ other[o].pc # "idle" => other[o].rom \in Roms
    /\ other[o].pc = "held" => owner[other[o].rom] = o

\* The converse, part by part: a lock that is held is held by a call at its place.
GateOwned ==
    owner[Gate] # Nobody => owner[Gate] \in Runs /\ run[owner[Gate]].pc \in UnderGate

RomOwned(m) ==
    owner[m] # Nobody =>
        \/ owner[m] \in Runs /\ run[owner[m]].pc \in Syncing /\ run[owner[m]].rom = m
        \/ owner[m] \in Others /\ other[owner[m]].pc = "held" /\ other[owner[m]].rom = m

GateInv ==
    /\ StateTyped
    /\ \A r \in Runs : RunHolds(r)
    /\ \A o \in Others : OtherHolds(o)
    /\ GateOwned
    /\ \A m \in Roms : RomOwned(m)

\* What a lock held by the call r says of r.
Mine(r) ==
    /\ owner[Gate] = r => run[r].pc \in UnderGate
    /\ \A m \in Roms : owner[m] = r => run[r].pc \in Syncing /\ run[r].rom = m

-----------------------------------------------------------------------------

\* A step of one call that moves locks only between nobody and itself leaves
\* what every other call holds as it was.
LEMMA RunFrame ==
    ASSUME GateInv, NEW r \in Runs, StateTyped', UNCHANGED other,
           \A q \in Runs : q # r => run'[q] = run[q],
           \A l \in Locks : \/ owner'[l] = owner[l]
                            \/ owner[l] \in {r, Nobody} /\ owner'[l] \in {r, Nobody},
           RunHolds(r)', Mine(r)'
    PROVE  GateInv'
<1>. USE GateAssumption
<1>0. Gate \in Locks /\ Roms \subseteq Locks
    BY DEF Locks
<1>1. ASSUME NEW q \in Runs PROVE RunHolds(q)'
    <2>1. CASE q = r
        BY <2>1
    <2>2. CASE q # r
        <3>1. run'[q] = run[q] /\ RunHolds(q)
            BY <2>2 DEF GateInv
        <3>2. \A l \in Locks : owner[l] = q => owner'[l] = q
            BY <2>2
        <3>3. QED
            BY <1>0, <3>1, <3>2 DEF RunHolds, Syncing, UnderGate
    <2>3. QED
        BY <2>1, <2>2
<1>2. ASSUME NEW o \in Others PROVE OtherHolds(o)'
    <2>1. OtherHolds(o) /\ \A l \in Locks : owner[l] = o => owner'[l] = o
        BY DEF GateInv
    <2>2. QED
        BY <1>0, <2>1 DEF OtherHolds
<1>3. GateOwned'
    BY <1>0 DEF GateInv, GateOwned, Mine
<1>4. ASSUME NEW m \in Roms PROVE RomOwned(m)'
    <2>1. RomOwned(m)
        BY DEF GateInv
    <2>2. CASE owner'[m] = owner[m] /\ owner[m] # r
        BY <2>1, <2>2 DEF RomOwned
    <2>3. CASE owner'[m] \in {r, Nobody}
        BY <2>3 DEF RomOwned, Mine
    <2>4. QED
        BY <1>0, <2>2, <2>3
<1>5. QED
    BY <1>1, <1>2, <1>3, <1>4 DEF GateInv

\* The same for the calls that hold a rom_lock alone.
LEMMA OtherFrame ==
    ASSUME GateInv, NEW o \in Others, StateTyped', UNCHANGED run,
           \A p \in Others : p # o => other'[p] = other[p],
           \A l \in Locks : \/ owner'[l] = owner[l]
                            \/ l # Gate /\ owner[l] \in {o, Nobody} /\ owner'[l] \in {o, Nobody},
           OtherHolds(o)',
           \A m \in Roms : owner'[m] = o => other'[o].pc = "held" /\ other'[o].rom = m
    PROVE  GateInv'
<1>. USE GateAssumption
<1>0. Gate \in Locks /\ Roms \subseteq Locks
    BY DEF Locks
<1>1. ASSUME NEW q \in Runs PROVE RunHolds(q)'
    <2>1. RunHolds(q) /\ \A l \in Locks : owner[l] = q => owner'[l] = q
        BY DEF GateInv
    <2>2. QED
        BY <1>0, <2>1 DEF RunHolds, Syncing, UnderGate
<1>2. ASSUME NEW p \in Others PROVE OtherHolds(p)'
    <2>1. CASE p = o
        BY <2>1
    <2>2. CASE p # o
        <3>1. other'[p] = other[p] /\ OtherHolds(p) /\ \A l \in Locks : owner[l] = p => owner'[l] = p
            BY <2>2 DEF GateInv
        <3>2. QED
            BY <1>0, <3>1 DEF OtherHolds
    <2>3. QED
        BY <2>1, <2>2
<1>3. GateOwned'
    BY <1>0 DEF GateInv, GateOwned
<1>4. ASSUME NEW m \in Roms PROVE RomOwned(m)'
    <2>1. RomOwned(m)
        BY DEF GateInv
    <2>2. CASE owner'[m] = owner[m] /\ owner[m] # o
        BY <2>1, <2>2 DEF RomOwned
    <2>3. CASE owner'[m] \in {o, Nobody}
        BY <2>3 DEF RomOwned
    <2>4. QED
        BY <1>0, <2>2, <2>3
<1>5. QED
    BY <1>1, <1>2, <1>3, <1>4 DEF GateInv

-----------------------------------------------------------------------------
\* How the operators of the locks move them.

\* A lock taken moves from nobody to the call.
LEMMA TakeMoves ==
    ASSUME StateTyped, NEW l \in Locks, NEW p \in Runs \cup Others, Take(l, p)
    PROVE  /\ owner' \in [Locks -> Runs \cup Others \cup {Nobody}]
           /\ owner[l] = Nobody /\ owner'[l] = p
           /\ \A k \in Locks : k # l => owner'[k] = owner[k]
    BY DEF StateTyped, Take

\* A call that lets go has no lock left, and no other call loses one.
LEMMA LetGoMoves ==
    ASSUME StateTyped, NEW p \in Runs \cup Others, LetGo(p)
    PROVE  /\ owner' \in [Locks -> Runs \cup Others \cup {Nobody}]
           /\ \A l \in Locks : owner'[l] = IF owner[l] = p THEN Nobody ELSE owner[l]
           /\ \A l \in Locks : owner'[l] # p
    BY GateAssumption DEF StateTyped, LetGo

\* A call that only changes its place stays well typed, at its game.
LEMMA PlaceTyped ==
    ASSUME StateTyped, NEW r \in Runs, NEW pc \in {"idle", "gate"} \cup UnderGate,
           run' = [run EXCEPT ![r].pc = pc]
    PROVE  /\ run' \in [Runs -> RunStates]
           /\ run'[r].pc = pc /\ run'[r].kind = run[r].kind /\ run'[r].rom = run[r].rom
           /\ \A q \in Runs : q # r => run'[q] = run[q]
    BY DEF StateTyped, RunStates, UnderGate

\* A set of naturals that is not empty has a least element.
LEMMA LeastOfNaturals ==
    ASSUME NEW S, S \subseteq Nat, S # {}
    PROVE  \E x \in S : \A y \in S : x <= y
<1>1. PICK x \in S : \A y \in S : ~(<<y, x>> \in OpToRel(<, Nat))
    BY WFMin, NatLessThanWellFounded, Zenon
<1>2. ASSUME NEW y \in S PROVE ~(y < x)
    <2>1. SUFFICES ASSUME y < x PROVE FALSE
        OBVIOUS
    <2>2. <<y, x>> \in Nat \X Nat /\ <<y, x>>[1] < <<y, x>>[2]
        BY <2>1
    <2>3. <<y, x>> \in OpToRel(<, Nat)
        BY <2>2, Zenon DEF OpToRel
    <2>4. QED
        BY <1>1, <2>3
<1>3. \A y \in S : x <= y
    BY <1>2
<1>4. QED
    BY <1>3

\* The game a sweep goes on with is one of those it has not reached.
LEMMA NextOfSweep ==
    ASSUME NEW left \in SUBSET Roms, left # {}
    PROVE  (CHOOSE m \in left : \A n \in left : m <= n) \in Roms
<1>1. left \subseteq Nat
    BY GateAssumption DEF Roms
<1>2. \E m \in left : \A n \in left : m <= n
    BY <1>1, LeastOfNaturals
<1>3. QED
    BY <1>2

\* A call that was answered is well typed and at no game.
LEMMA AnsweredTyped == Answered \in RunStates
    BY GateAssumption DEF Answered, RunStates, Kinds, GameStates, Roms

\* A sweep that goes on with a game stays well typed, and is at that game.
LEMMA SweepTyped ==
    ASSUME NEW c \in RunStates, NEW m \in Roms
    PROVE  LET d == [c EXCEPT !.pc = "rom", !.rom = m, !.left = @ \ {m}]
           IN d \in RunStates /\ d.pc = "rom" /\ d.kind = c.kind /\ d.rom = m
<1>. DEFINE left == c.left \ {m}
<1>1. left \in SUBSET Roms /\ m \in 0..LastRom
    BY GateAssumption DEF RunStates, Roms
<1>. HIDE DEF left
<1>2. LET d == [c EXCEPT !.pc = "rom", !.rom = m, !.left = left]
      IN d \in RunStates /\ d.pc = "rom" /\ d.kind = c.kind /\ d.rom = m
    BY <1>1 DEF RunStates
<1>3. QED
    BY <1>2 DEF left

\* A call that ends leaves the invariant as it was.
LEMMA EndKeeps ==
    ASSUME GateInv, NEW r \in Runs, UNCHANGED other,
           run' = [run EXCEPT ![r] = Answered], LetGo(r),
           game' \in [Roms -> [state : GameStates, anyway : BOOLEAN]]
    PROVE  GateInv'
<1>1. StateTyped
    BY DEF GateInv
<1>2. /\ owner' \in [Locks -> Runs \cup Others \cup {Nobody}]
      /\ \A l \in Locks : owner'[l] = IF owner[l] = r THEN Nobody ELSE owner[l]
      /\ \A l \in Locks : owner'[l] # r
    BY <1>1, LetGoMoves
<1>3. run' \in [Runs -> RunStates] /\ run'[r] = Answered /\ \A q \in Runs : q # r => run'[q] = run[q]
    BY <1>1, AnsweredTyped DEF StateTyped
<1>4. StateTyped'
    BY <1>1, <1>2, <1>3 DEF StateTyped
<1>5. RunHolds(r)'
    BY <1>3 DEF RunHolds, Answered, UnderGate, Syncing
<1>6. Mine(r)'
    BY <1>2 DEF Mine, Locks
<1>7. QED
    BY <1>2, <1>3, <1>4, <1>5, <1>6, RunFrame

\* What the end of a call does to its game keeps the game's type.
LEMMA EndTyped ==
    ASSUME StateTyped, NEW r \in Runs, End(r)
    PROVE  game' \in [Roms -> [state : GameStates, anyway : BOOLEAN]]
    BY DEF StateTyped, End, GameStates

\* A step of a call that moves no lock, where it stays among the places that
\* need the locks it has.
LEMMA MoveKeeps ==
    ASSUME GateInv, NEW r \in Runs, UNCHANGED <<other, owner>>,
           run' \in [Runs -> RunStates],
           \A q \in Runs : q # r => run'[q] = run[q],
           game' \in [Roms -> [state : GameStates, anyway : BOOLEAN]],
           run'[r].kind = run[r].kind,
           run[r].pc # "idle",
           run'[r].pc \in UnderGate <=> run[r].pc \in UnderGate,
           run'[r].pc \in Syncing <=> run[r].pc \in Syncing,
           run'[r].pc \in {"rom"} \cup Syncing => run'[r].rom \in Roms,
           run[r].pc \in Syncing => run'[r].rom = run[r].rom,
           run[r].kind # "syncAll" => run'[r].rom = run[r].rom
    PROVE  GateInv'
<1>1. StateTyped /\ RunHolds(r) /\ GateOwned /\ \A m \in Roms : RomOwned(m)
    BY DEF GateInv
<1>2. StateTyped'
    BY <1>1 DEF StateTyped
<1>3. RunHolds(r)'
    BY <1>1 DEF RunHolds
<1>4. Mine(r)'
    BY <1>1, GateAssumption DEF Mine, GateOwned, RomOwned
<1>5. QED
    BY <1>2, <1>3, <1>4, RunFrame

-----------------------------------------------------------------------------

\* A sweep that is through with a game, or a call that ends with its game.
LEMMA LeaveKeeps ==
    ASSUME GateInv, NEW r \in Runs, run[r].pc \in Syncing, LeaveRom(r), UNCHANGED other
    PROVE  GateInv'
<1>1. StateTyped /\ RunHolds(r) /\ GateOwned /\ \A m \in Roms : RomOwned(m)
    BY DEF GateInv
<1>2. CASE run[r].kind # "syncAll"
    <2>1. End(r)
        BY <1>2 DEF LeaveRom
    <2>2. run' = [run EXCEPT ![r] = Answered] /\ LetGo(r)
        BY <2>1 DEF End
    <2>3. QED
        BY <1>1, <2>1, <2>2, EndTyped, EndKeeps
<1>3. CASE run[r].kind = "syncAll"
    <2>1. /\ run' = [run EXCEPT ![r] = [Answered EXCEPT
                        !.pc = "held", !.kind = "syncAll", !.left = run[r].left]]
          /\ owner' = [owner EXCEPT ![run[r].rom] = Nobody]
          /\ game' = game
        BY <1>3 DEF LeaveRom
    <2>2. run[r].rom \in Roms /\ owner[run[r].rom] = r /\ owner[Gate] = r
        BY <1>1 DEF RunHolds, UnderGate
    <2>3. /\ run'[r].pc = "held" /\ run'[r].kind = "syncAll"
          /\ run' \in [Runs -> RunStates]
          /\ \A q \in Runs : q # r => run'[q] = run[q]
        BY <1>1, <2>1, AnsweredTyped DEF StateTyped, RunStates, Answered, Kinds
    <2>4. Gate \in Locks /\ Gate \notin Roms /\ Roms \subseteq Locks
        BY GateAssumption DEF Gate, Roms, Locks
    <2>5. /\ owner' \in [Locks -> Runs \cup Others \cup {Nobody}]
          /\ owner'[run[r].rom] = Nobody
          /\ \A l \in Locks : l # run[r].rom => owner'[l] = owner[l]
        BY <1>1, <2>1, <2>2, <2>4 DEF StateTyped
    <2>6. StateTyped'
        BY <1>1, <2>1, <2>3, <2>5 DEF StateTyped
    <2>7. RunHolds(r)'
        BY <2>2, <2>3, <2>4, <2>5 DEF RunHolds, UnderGate, Syncing
    <2>8. \A m \in Roms : owner'[m] # r
        BY <1>1, <2>2, <2>4, <2>5, GateAssumption DEF RomOwned
    <2>9. Mine(r)'
        BY <2>3, <2>8 DEF Mine, UnderGate
    <2>10. \A l \in Locks : \/ owner'[l] = owner[l]
                            \/ owner[l] \in {r, Nobody} /\ owner'[l] \in {r, Nobody}
        BY <2>2, <2>5
    <2>11. QED
        BY <2>3, <2>6, <2>7, <2>9, <2>10, RunFrame
<1>4. QED
    BY <1>2, <1>3

\* A step at work on a game's saves that only moves on, or leaves the game.
LEMMA GoesKeeps ==
    ASSUME GateInv, NEW r \in Runs, NEW pc \in Syncing,
           run[r].pc \in Syncing, Goes(r, pc), UNCHANGED other
    PROVE  GateInv'
<1>1. StateTyped /\ RunHolds(r)
    BY DEF GateInv
<1>2. /\ run' \in [Runs -> RunStates]
      /\ run'[r] = [run[r] EXCEPT !.pc = pc]
      /\ \A q \in Runs : q # r => run'[q] = run[q]
    BY <1>1 DEF Goes, StateTyped, RunStates, Syncing
<1>3. /\ run'[r].pc = pc /\ run'[r].kind = run[r].kind /\ run'[r].rom = run[r].rom
    BY <1>1, <1>2 DEF StateTyped, RunStates
<1>4. run[r].pc # "idle" /\ run[r].rom \in Roms
    BY <1>1 DEF RunHolds, Syncing
<1>5. QED
    BY <1>1, <1>2, <1>3, <1>4, MoveKeeps DEF Goes, StateTyped, UnderGate

-----------------------------------------------------------------------------
\* Each step of a call, in the order of its places.

\* A call that begins joins the queue of the gate and has nothing.
LEMMA CallKeeps ==
    ASSUME GateInv, NEW r \in Runs, NEW kind \in Kinds, NEW m \in Roms, Call(r, kind, m)
    PROVE  GateInv'
<1>1. StateTyped /\ GateOwned /\ \A n \in Roms : RomOwned(n)
    BY DEF GateInv
<1>2. /\ run[r].pc = "idle"
      /\ run' = [run EXCEPT ![r] = [Answered EXCEPT
                    !.pc = "gate", !.kind = kind,
                    !.rom = IF kind = "syncAll" THEN 0 ELSE m,
                    !.left = IF kind = "syncAll" THEN Roms ELSE {}]]
      /\ UNCHANGED <<other, owner, game>>
    BY DEF Call
<1>. DEFINE at == IF kind = "syncAll" THEN 0 ELSE m
            left == IF kind = "syncAll" THEN Roms ELSE {}
<1>a. at \in 0..LastRom /\ left \in SUBSET Roms /\ (kind # "syncAll" => at \in Roms)
    BY GateAssumption DEF Roms
<1>b. run' = [run EXCEPT ![r] = [Answered EXCEPT
                 !.pc = "gate", !.kind = kind, !.rom = at, !.left = left]]
    BY <1>2
<1>. HIDE DEF at, left
<1>. DEFINE c == [Answered EXCEPT !.pc = "gate", !.kind = kind, !.rom = at, !.left = left]
<1>c. c \in RunStates /\ c.pc = "gate" /\ c.kind = kind /\ c.rom = at
    BY <1>a, AnsweredTyped, GateAssumption DEF RunStates
<1>d. run' = [run EXCEPT ![r] = c]
    BY <1>b
<1>. HIDE DEF c
<1>3. /\ run' \in [Runs -> RunStates]
      /\ run'[r].pc = "gate" /\ run'[r].kind = kind /\ run'[r].rom = at
      /\ \A q \in Runs : q # r => run'[q] = run[q]
    BY <1>1, <1>c, <1>d DEF StateTyped
<1>4. StateTyped'
    BY <1>1, <1>2, <1>3 DEF StateTyped
<1>5. RunHolds(r)'
    BY <1>3, <1>a DEF RunHolds, UnderGate, Syncing
<1>6. Mine(r)'
    BY <1>1, <1>2, GateAssumption DEF Mine, GateOwned, RomOwned, UnderGate, Syncing
<1>7. QED
    BY <1>2, <1>3, <1>4, <1>5, <1>6, RunFrame

\* A call gets the gate as the first of its queue.
LEMMA TakeGateKeeps ==
    ASSUME GateInv, NEW r \in Runs, TakeGate(r)
    PROVE  GateInv'
<1>1. StateTyped /\ RunHolds(r) /\ GateOwned /\ \A n \in Roms : RomOwned(n)
    BY DEF GateInv
<1>2. /\ run[r].pc = "gate"
      /\ run' = [run EXCEPT ![r].pc = "won"]
      /\ Take(Gate, r)
      /\ UNCHANGED <<other, game>>
    BY DEF TakeGate
<1>3. Gate \in Locks /\ Gate \notin Roms /\ Roms \subseteq Locks
    BY GateAssumption DEF Gate, Roms, Locks
<1>4. /\ owner' \in [Locks -> Runs \cup Others \cup {Nobody}]
      /\ owner[Gate] = Nobody /\ owner'[Gate] = r
      /\ \A k \in Locks : k # Gate => owner'[k] = owner[k]
    BY <1>1, <1>2, <1>3, TakeMoves
<1>5. /\ run' \in [Runs -> RunStates]
      /\ run'[r].pc = "won" /\ run'[r].kind = run[r].kind /\ run'[r].rom = run[r].rom
      /\ \A q \in Runs : q # r => run'[q] = run[q]
    BY <1>1, <1>2, PlaceTyped DEF UnderGate
<1>6. StateTyped'
    BY <1>1, <1>2, <1>4, <1>5 DEF StateTyped
<1>7. RunHolds(r)'
    BY <1>1, <1>2, <1>4, <1>5 DEF RunHolds, UnderGate, Syncing
<1>8. \A m \in Roms : owner'[m] # r
    BY <1>1, <1>2, <1>3, <1>4, GateAssumption DEF RomOwned, Syncing
<1>9. Mine(r)'
    BY <1>5, <1>8 DEF Mine, UnderGate
<1>10. QED
    BY <1>2, <1>4, <1>5, <1>6, <1>7, <1>9, RunFrame

\* A call that got the gate goes on under it.
LEMMA EndWaitKeeps ==
    ASSUME GateInv, NEW r \in Runs, EndWait(r)
    PROVE  GateInv'
<1>1. StateTyped /\ RunHolds(r)
    BY DEF GateInv
<1>2. run[r].pc = "won" /\ run' = [run EXCEPT ![r].pc = "held"] /\ UNCHANGED <<other, owner, game>>
    BY DEF EndWait
<1>3. /\ run' \in [Runs -> RunStates]
      /\ run'[r].pc = "held" /\ run'[r].kind = run[r].kind /\ run'[r].rom = run[r].rom
      /\ \A q \in Runs : q # r => run'[q] = run[q]
    BY <1>1, <1>2 DEF StateTyped, RunStates
<1>4. QED
    BY <1>1, <1>2, <1>3, MoveKeeps DEF StateTyped, UnderGate, Syncing

\* However a call ends while it waits.
LEMMA GiveUpKeeps ==
    ASSUME GateInv, NEW r \in Runs, TimeOut(r) \/ StopWait(r)
    PROVE  GateInv'
<1>1. /\ run' = [run EXCEPT ![r] = Answered]
      /\ LetGo(r)
      /\ UNCHANGED <<other, game>>
    BY DEF TimeOut, StopWait
<1>2. QED
    BY <1>1, EndKeeps DEF GateInv, StateTyped

\* A call that ends, from wherever it is.
LEMMA FinishKeeps ==
    ASSUME GateInv, NEW r \in Runs, End(r), UNCHANGED other
    PROVE  GateInv'
<1>1. StateTyped /\ run' = [run EXCEPT ![r] = Answered] /\ LetGo(r)
    BY DEF GateInv, End
<1>2. QED
    BY <1>1, EndTyped, EndKeeps

\* A call for one game goes on to the lock of its game, or is stopped there.
LEMMA EnterRomKeeps ==
    ASSUME GateInv, NEW r \in Runs, EnterRom(r)
    PROVE  GateInv'
<1>1. StateTyped /\ RunHolds(r)
    BY DEF GateInv
<1>2. CASE run[r].kind = "preLaunch" /\ run[r].stop
    BY <1>2, FinishKeeps DEF EnterRom
<1>3. CASE ~(run[r].kind = "preLaunch" /\ run[r].stop)
    <2>1. /\ run[r].pc = "held" /\ run[r].kind # "syncAll"
          /\ run' = [run EXCEPT ![r].pc = "rom"]
          /\ UNCHANGED <<other, owner, game>>
        BY <1>3 DEF EnterRom
    <2>2. /\ run' \in [Runs -> RunStates]
          /\ run'[r].pc = "rom" /\ run'[r].kind = run[r].kind /\ run'[r].rom = run[r].rom
          /\ \A q \in Runs : q # r => run'[q] = run[q]
        BY <1>1, <2>1 DEF StateTyped, RunStates
    <2>3. run[r].rom \in Roms
        BY <1>1, <2>1 DEF RunHolds
    <2>4. QED
        BY <1>1, <2>1, <2>2, <2>3, MoveKeeps DEF StateTyped, UnderGate, Syncing
<1>4. QED
    BY <1>2, <1>3

\* A sweep that has games left goes on with one of them.
LEMMA NextRomKeeps ==
    ASSUME GateInv, NEW r \in Runs, NextRom(r)
    PROVE  GateInv'
<1>1. StateTyped /\ RunHolds(r)
    BY DEF GateInv
<1>. DEFINE m == CHOOSE m \in run[r].left : \A n \in run[r].left : m <= n
<1>2. CASE run[r].left = {}
    BY <1>2, FinishKeeps DEF NextRom
<1>3. CASE run[r].left # {}
    <2>1. /\ run[r].pc = "held" /\ run[r].kind = "syncAll"
          /\ run' = [run EXCEPT ![r] = [run[r] EXCEPT !.pc = "rom", !.rom = m, !.left = @ \ {m}]]
          /\ UNCHANGED <<other, owner, game>>
        BY <1>3 DEF NextRom
    <2>2. m \in Roms
        BY <1>1, <1>3, NextOfSweep DEF StateTyped, RunStates
    <2>. HIDE DEF m
    <2>3. /\ run' \in [Runs -> RunStates]
          /\ run'[r].pc = "rom" /\ run'[r].kind = run[r].kind /\ run'[r].rom = m
          /\ \A q \in Runs : q # r => run'[q] = run[q]
        BY <1>1, <2>1, <2>2, SweepTyped DEF StateTyped
    <2>4. QED
        BY <1>1, <2>1, <2>2, <2>3, MoveKeeps DEF StateTyped, UnderGate, Syncing
<1>4. QED
    BY <1>2, <1>3

\* A call that takes the lock of its game begins to work on it.
LEMMA TakeRomKeeps ==
    ASSUME GateInv, NEW r \in Runs, TakeRom(r)
    PROVE  GateInv'
<1>1. StateTyped /\ RunHolds(r) /\ GateOwned /\ \A n \in Roms : RomOwned(n)
    BY DEF GateInv
<1>. DEFINE m == run[r].rom
            pc == IF run[r].kind \in AsksSteam THEN "ask" ELSE "read"
<1>2. /\ run[r].pc = "rom"
      /\ run' = [run EXCEPT ![r].pc = pc, ![r].reached = game[m].state]
      /\ Take(m, r)
      /\ UNCHANGED <<other, game>>
    BY DEF TakeRom
<1>3. m \in Roms /\ owner[Gate] = r
    BY <1>1, <1>2 DEF RunHolds, UnderGate
<1>4. Gate \in Locks /\ Gate \notin Roms /\ Roms \subseteq Locks
    BY GateAssumption DEF Gate, Roms, Locks
<1>5. game[m].state \in GameStates /\ pc \in Syncing
    BY <1>1, <1>3 DEF StateTyped, Syncing
<1>. HIDE DEF pc
<1>. DEFINE c == [run[r] EXCEPT !.pc = pc, !.reached = game[m].state]
<1>a. c \in RunStates /\ c.pc = pc /\ c.kind = run[r].kind /\ c.rom = m
    BY <1>1, <1>5 DEF StateTyped, RunStates
<1>b. run' = [run EXCEPT ![r] = c]
    BY <1>1, <1>2 DEF StateTyped
<1>. HIDE DEF c
<1>6. /\ run' \in [Runs -> RunStates]
      /\ run'[r].pc = pc /\ run'[r].kind = run[r].kind /\ run'[r].rom = m
      /\ \A q \in Runs : q # r => run'[q] = run[q]
    BY <1>1, <1>a, <1>b DEF StateTyped
<1>. HIDE DEF m
<1>7. /\ owner' \in [Locks -> Runs \cup Others \cup {Nobody}]
      /\ owner[m] = Nobody /\ owner'[m] = r
      /\ \A l \in Locks : l # m => owner'[l] = owner[l]
    BY <1>1, <1>2, <1>3, <1>4, TakeMoves
<1>8. StateTyped'
    BY <1>1, <1>2, <1>6, <1>7 DEF StateTyped
<1>9. RunHolds(r)'
    BY <1>3, <1>4, <1>6, <1>7 DEF RunHolds
<1>10. \A n \in Roms : owner'[n] = r => n = m
    BY <1>1, <1>2, <1>4, <1>7, GateAssumption DEF RomOwned, Syncing
<1>11. Mine(r)'
    BY <1>5, <1>6, <1>10 DEF Mine, UnderGate
<1>12. \A l \in Locks : \/ owner'[l] = owner[l]
                        \/ owner[l] \in {r, Nobody} /\ owner'[l] \in {r, Nobody}
    BY <1>7
<1>13. QED
    BY <1>2, <1>6, <1>8, <1>9, <1>11, <1>12, RunFrame

\* A call at work on a game's saves that counts its files stays where it is.
LEMMA CountKeeps ==
    ASSUME GateInv, NEW r \in Runs, NEW pc \in Syncing, NEW n \in 0..MaxFiles,
           run[r].pc \in Syncing,
           run' = [run EXCEPT ![r].pc = pc, ![r].files = n],
           UNCHANGED <<other, owner, game>>
    PROVE  GateInv'
<1>1. StateTyped /\ RunHolds(r)
    BY DEF GateInv
<1>. DEFINE c == [run[r] EXCEPT !.pc = pc, !.files = n]
<1>a. c \in RunStates /\ c.pc = pc /\ c.kind = run[r].kind /\ c.rom = run[r].rom
    BY <1>1 DEF StateTyped, RunStates, Syncing
<1>b. run' = [run EXCEPT ![r] = c]
    BY <1>1 DEF StateTyped
<1>. HIDE DEF c
<1>2. /\ run' \in [Runs -> RunStates]
      /\ run'[r].pc = pc /\ run'[r].kind = run[r].kind /\ run'[r].rom = run[r].rom
      /\ \A q \in Runs : q # r => run'[q] = run[q]
    BY <1>1, <1>a, <1>b DEF StateTyped
<1>3. run[r].pc # "idle" /\ run[r].rom \in Roms
    BY <1>1 DEF RunHolds, Syncing
<1>4. QED
    BY <1>1, <1>2, <1>3, MoveKeeps DEF StateTyped, UnderGate

\* Every step at work on a game's saves.
LEMMA WorkKeeps ==
    ASSUME GateInv, NEW r \in Runs,
           AskSteam(r) \/ Follow(r) \/ BeginFile(r) \/ EndFetch(r) \/ Place(r)
    PROVE  GateInv'
<1>1. /\ "read" \in Syncing /\ "files" \in Syncing /\ "placing" \in Syncing
      /\ "ask" \in Syncing /\ "fetch" \in Syncing
    BY DEF Syncing
<1>2. CASE AskSteam(r)
    BY <1>1, <1>2, LeaveKeeps, GoesKeeps DEF AskSteam
<1>3. CASE Follow(r)
    <2>1. CASE LeaveRom(r)
        BY <1>1, <1>3, <2>1, LeaveKeeps DEF Follow
    <2>2. CASE ~LeaveRom(r)
        <3>1. /\ run[r].pc = "read"
              /\ run' = [run EXCEPT ![r].pc = "files", ![r].files = MaxFiles]
              /\ UNCHANGED <<other, owner, game>>
            BY <1>3, <2>2 DEF Follow
        <3>2. MaxFiles \in 0..MaxFiles
            BY GateAssumption
        <3>3. QED
            BY <1>1, <3>1, <3>2, CountKeeps
    <2>3. QED
        BY <2>1, <2>2
<1>4. CASE BeginFile(r)
    <2>1. CASE run[r].stop \/ run[r].files = 0
        BY <1>1, <1>4, <2>1, LeaveKeeps DEF BeginFile
    <2>2. CASE ~(run[r].stop \/ run[r].files = 0)
        <3>1. /\ run[r].pc = "files" /\ run[r].files # 0
              /\ run' = [run EXCEPT ![r].pc = "fetch", ![r].files = run[r].files - 1]
              /\ UNCHANGED <<other, owner, game>>
            BY <1>4, <2>2 DEF BeginFile
        <3>2. run[r].files \in 0..MaxFiles
            BY DEF GateInv, StateTyped, RunStates
        <3>3. run[r].files - 1 \in 0..MaxFiles
            BY <3>1, <3>2, GateAssumption
        <3>4. QED
            BY <1>1, <3>1, <3>3, CountKeeps
    <2>3. QED
        BY <2>1, <2>2
<1>5. CASE EndFetch(r)
    BY <1>1, <1>5, GoesKeeps DEF EndFetch
<1>6. CASE Place(r)
    BY <1>1, <1>6, GoesKeeps DEF Place
<1>7. QED
    BY <1>2, <1>3, <1>4, <1>5, <1>6

-----------------------------------------------------------------------------
\* The calls outside the gate, and the games.

\* A call outside the gate begins to wait for a rom_lock, or lets its lock go.
LEMMA OtherWaitsKeeps ==
    ASSUME GateInv, NEW o \in Others, (\E m \in Roms : CallOther(o, m)) \/ EndOther(o)
    PROVE  GateInv'
<1>1. StateTyped /\ OtherHolds(o) /\ GateOwned /\ \A m \in Roms : RomOwned(m)
    BY DEF GateInv
<1>2. CASE \E m \in Roms : CallOther(o, m)
    <2>1. PICK m \in Roms : /\ other[o].pc = "idle"
                            /\ other' = [other EXCEPT ![o] = [pc |-> "rom", rom |-> m]]
                            /\ UNCHANGED <<run, owner, game>>
        BY <1>2 DEF CallOther
    <2>2. /\ other' \in [Others -> [pc : {"idle", "rom", "held"}, rom : 0..LastRom]]
          /\ other'[o].pc = "rom" /\ other'[o].rom = m
          /\ \A p \in Others : p # o => other'[p] = other[p]
        BY <1>1, <2>1, GateAssumption DEF StateTyped, Roms
    <2>3. StateTyped' /\ OtherHolds(o)'
        BY <1>1, <2>1, <2>2 DEF StateTyped, OtherHolds
    <2>4. \A n \in Roms : owner'[n] # o
        BY <1>1, <2>1, GateAssumption DEF RomOwned
    <2>5. QED
        BY <2>1, <2>2, <2>3, <2>4, OtherFrame
<1>3. CASE EndOther(o)
    <2>1. /\ other' = [other EXCEPT ![o] = [pc |-> "idle", rom |-> 0]]
          /\ LetGo(o)
          /\ UNCHANGED <<run, game>>
        BY <1>3 DEF EndOther
    <2>2. /\ other' \in [Others -> [pc : {"idle", "rom", "held"}, rom : 0..LastRom]]
          /\ other'[o].pc = "idle"
          /\ \A p \in Others : p # o => other'[p] = other[p]
        BY <1>1, <2>1, GateAssumption DEF StateTyped
    <2>3. /\ owner' \in [Locks -> Runs \cup Others \cup {Nobody}]
          /\ \A l \in Locks : owner'[l] = IF owner[l] = o THEN Nobody ELSE owner[l]
          /\ \A l \in Locks : owner'[l] # o
        BY <1>1, <2>1, LetGoMoves
    <2>4. StateTyped' /\ OtherHolds(o)'
        BY <1>1, <2>1, <2>2, <2>3 DEF StateTyped, OtherHolds
    <2>5. owner[Gate] # o /\ Roms \subseteq Locks /\ Gate \in Locks
        BY <1>1, GateAssumption DEF GateOwned, Locks
    <2>6. \A l \in Locks : \/ owner'[l] = owner[l]
                           \/ l # Gate /\ owner[l] \in {o, Nobody} /\ owner'[l] \in {o, Nobody}
        BY <2>3, <2>5
    <2>7. QED
        BY <2>1, <2>2, <2>3, <2>4, <2>5, <2>6, OtherFrame
<1>4. QED
    BY <1>2, <1>3

\* A call outside the gate takes the rom_lock it waited for.
LEMMA OtherTakesKeeps ==
    ASSUME GateInv, NEW o \in Others, TakeOther(o)
    PROVE  GateInv'
<1>1. StateTyped /\ OtherHolds(o) /\ \A m \in Roms : RomOwned(m)
    BY DEF GateInv
<1>. DEFINE m == other[o].rom
<1>2. /\ other[o].pc = "rom"
      /\ other' = [other EXCEPT ![o].pc = "held"]
      /\ Take(m, o)
      /\ UNCHANGED <<run, game>>
    BY DEF TakeOther
<1>3. m \in Roms
    BY <1>1, <1>2 DEF OtherHolds
<1>4. Gate \in Locks /\ Gate \notin Roms /\ Roms \subseteq Locks
    BY GateAssumption DEF Gate, Roms, Locks
<1>5. /\ other' \in [Others -> [pc : {"idle", "rom", "held"}, rom : 0..LastRom]]
      /\ other'[o].pc = "held" /\ other'[o].rom = m
      /\ \A p \in Others : p # o => other'[p] = other[p]
    BY <1>1, <1>2 DEF StateTyped
<1>. HIDE DEF m
<1>6. /\ owner' \in [Locks -> Runs \cup Others \cup {Nobody}]
      /\ owner[m] = Nobody /\ owner'[m] = o
      /\ \A l \in Locks : l # m => owner'[l] = owner[l]
    BY <1>1, <1>2, <1>3, <1>4, TakeMoves
<1>7. StateTyped' /\ OtherHolds(o)'
    BY <1>1, <1>2, <1>3, <1>5, <1>6 DEF StateTyped, OtherHolds
<1>8. \A n \in Roms : owner'[n] = o => n = m
    BY <1>1, <1>2, <1>4, <1>6, GateAssumption DEF RomOwned
<1>9. \A l \in Locks : \/ owner'[l] = owner[l]
                       \/ l # Gate /\ owner[l] \in {o, Nobody} /\ owner'[l] \in {o, Nobody}
    BY <1>3, <1>4, <1>6
<1>10. QED
    BY <1>2, <1>5, <1>7, <1>8, <1>9, OtherFrame

\* A stop asked changes what no call holds and where none is.
LEMMA PlayAnywayKeeps ==
    ASSUME GateInv, NEW m \in Played, PlayAnyway(m)
    PROVE  GateInv'
<1>1. StateTyped
    BY DEF GateInv
<1>2. /\ run' \in [Runs -> RunStates]
      /\ \A q \in Runs : /\ run'[q].pc = run[q].pc
                         /\ run'[q].kind = run[q].kind
                         /\ run'[q].rom = run[q].rom
    <2>1. SUFFICES ASSUME NEW q \in Runs
                   PROVE  /\ run'[q] \in RunStates
                          /\ run'[q].pc = run[q].pc
                          /\ run'[q].kind = run[q].kind
                          /\ run'[q].rom = run[q].rom
        BY <1>1 DEF PlayAnyway, StateTyped
    <2>. DEFINE stop == run[q].stop \/ Tracked(q, m)
                asked == \/ run[q].asked
                         \/ run[q].pc # "idle" /\ run[q].rom = m /\ run[q].kind # "postExit"
    <2>2. run'[q] = [run[q] EXCEPT !.stop = stop, !.asked = asked]
        BY DEF PlayAnyway
    <2>3. stop \in BOOLEAN /\ asked \in BOOLEAN /\ run[q] \in RunStates
        BY <1>1 DEF StateTyped, RunStates, Tracked
    <2>. HIDE DEF stop, asked
    <2>4. QED
        BY <2>2, <2>3 DEF RunStates
<1>3. game' \in [Roms -> [state : GameStates, anyway : BOOLEAN]] /\ UNCHANGED <<other, owner>>
    BY <1>1 DEF PlayAnyway, StateTyped, GameStates
<1>4. StateTyped'
    BY <1>1, <1>2, <1>3 DEF StateTyped
<1>5. \A q \in Runs : RunHolds(q)'
    BY <1>2, <1>3 DEF GateInv, RunHolds
<1>6. GateOwned' /\ \A n \in Roms : RomOwned(n)'
    BY <1>2, <1>3 DEF GateInv, GateOwned, RomOwned
<1>7. \A o \in Others : OtherHolds(o)'
    BY <1>3 DEF GateInv, OtherHolds
<1>8. QED
    BY <1>4, <1>5, <1>6, <1>7 DEF GateInv

\* What a game does by itself moves no lock and no call.
LEMMA GameKeeps ==
    ASSUME GateInv, NEW m \in Played, StartGame(m) \/ ListGame(m) \/ ExitGame(m)
    PROVE  GateInv'
<1>1. UNCHANGED <<run, other, owner>>
    BY DEF StartGame, ListGame, ExitGame
<1>2. game \in [Roms -> [state : GameStates, anyway : BOOLEAN]]
    BY DEF GateInv, StateTyped
<1>3. game' \in [Roms -> [state : GameStates, anyway : BOOLEAN]]
    <2>1. CASE StartGame(m)
        BY <1>2, <2>1 DEF StartGame, GameStates
    <2>2. CASE ListGame(m)
        BY <1>2, <2>2 DEF ListGame, GameStates
    <2>3. CASE ExitGame(m)
        BY <1>2, <2>3 DEF ExitGame, GameStates
    <2>4. QED
        BY <2>1, <2>2, <2>3
<1>4. QED
    BY <1>1, <1>3 DEF GateInv, StateTyped, RunHolds, OtherHolds, GateOwned, RomOwned

-----------------------------------------------------------------------------
\* The invariant and what it says.

\* At every moment a call has exactly the gate and the rom_locks that its place
\* in the code needs: whatever times out, is stopped, fails or raises gives back
\* what it has, and takes nothing from another (bounded_run, PreLaunchRun.wait,
\* SyncEngine.rom_lock).
THEOREM GateInvariant == Spec => []GateInv
<1>1. Init => GateInv
    <2>. SUFFICES ASSUME Init PROVE GateInv
        OBVIOUS
    <2>1. \A l \in Locks : owner[l] = Nobody
        BY DEF Init
    <2>2. StateTyped
        BY AnsweredTyped, GateAssumption DEF Init, StateTyped, GameStates
    <2>3. \A r \in Runs : RunHolds(r)
        BY DEF Init, RunHolds, Answered, UnderGate, Syncing
    <2>4. \A o \in Others : OtherHolds(o)
        BY DEF Init, OtherHolds
    <2>5. GateOwned /\ \A m \in Roms : RomOwned(m)
        BY <2>1 DEF GateOwned, RomOwned, Locks
    <2>6. QED
        BY <2>2, <2>3, <2>4, <2>5 DEF GateInv
<1>2. GateInv /\ [Next]_vars => GateInv'
    <2>. SUFFICES ASSUME GateInv, [Next]_vars PROVE GateInv'
        OBVIOUS
    <2>1. ASSUME NEW r \in Runs, NEW kind \in Kinds, NEW m \in Roms, Call(r, kind, m)
          PROVE  GateInv'
        BY <2>1, CallKeeps
    <2>2. ASSUME NEW r \in Runs, Step(r)
          PROVE  GateInv'
        BY <2>2, TakeGateKeeps, EndWaitKeeps, GiveUpKeeps, EnterRomKeeps, NextRomKeeps,
           TakeRomKeeps, WorkKeeps DEF Step
    <2>3. ASSUME NEW r \in Runs, TimeOut(r) \/ Fail(r)
          PROVE  GateInv'
        BY <2>3, GiveUpKeeps, FinishKeeps DEF Fail
    <2>4. ASSUME NEW o \in Others,
                 TakeOther(o) \/ EndOther(o) \/ \E m \in Roms : CallOther(o, m)
          PROVE  GateInv'
        BY <2>4, OtherTakesKeeps, OtherWaitsKeeps
    <2>5. ASSUME NEW m \in Played, PlayAnyway(m) \/ StartGame(m) \/ ListGame(m) \/ ExitGame(m)
          PROVE  GateInv'
        BY <2>5, PlayAnywayKeeps, GameKeeps
    <2>6. CASE UNCHANGED vars
        BY <2>6 DEF vars, GateInv, StateTyped, RunHolds, OtherHolds, GateOwned, RomOwned
    <2>7. QED
        BY <2>1, <2>2, <2>3, <2>4, <2>5, <2>6 DEF Next
<1>3. QED
    BY <1>1, <1>2, PTL DEF Spec

-----------------------------------------------------------------------------
\* The queues: whoever waits in one is a call.

QueueTyped == queue \in [Locks -> Seq(Runs \cup Others)]

\* A queue stays one of calls when one of them leaves it, from wherever in it.
LEMMA RemoveFirstTyped ==
    ASSUME NEW S, NEW s \in Seq(S), NEW e
    PROVE  RemoveFirst(s, e) \in Seq(S)
<1>1. ASSUME NEW i \in 1..Len(s) PROVE RemoveAt(s, i) \in Seq(S)
    BY <1>1 DEF RemoveAt
<1>2. CASE \E i \in 1..Len(s) : s[i] = e
    <2>. DEFINE at == {i \in 1..Len(s) : s[i] = e}
    <2>1. at # {} /\ at \subseteq 1..Len(s) /\ at \subseteq Nat
        BY <1>2
    <2>2. Min(at) \in 1..Len(s)
        BY <2>1, LeastOfNaturals DEF Min
    <2>3. RemoveFirst(s, e) = RemoveAt(s, Min(at))
        BY <1>2, <2>1 DEF RemoveFirst, SelectInSeq
    <2>4. QED
        BY <1>1, <2>2, <2>3
<1>3. CASE ~\E i \in 1..Len(s) : s[i] = e
    BY <1>3 DEF RemoveFirst
<1>4. QED
    BY <1>2, <1>3

\* What the operators of the locks do to the queues.
LEMMA QueuesMove ==
    ASSUME QueueTyped, NEW p \in Runs \cup Others,
           \/ \E l \in Locks : Enqueued(l, p) \/ Take(l, p)
           \/ LetGo(p)
           \/ UNCHANGED queue
    PROVE  QueueTyped'
<1>1. ASSUME NEW l \in Locks, Enqueued(l, p) PROVE QueueTyped'
    BY <1>1 DEF Enqueued, QueueTyped
<1>2. ASSUME NEW l \in Locks, Take(l, p) PROVE QueueTyped'
    <2>1. queue[l] \in Seq(Runs \cup Others) /\ queue[l] # <<>>
        BY <1>2 DEF Take, QueueTyped
    <2>2. Tail(queue[l]) \in Seq(Runs \cup Others)
        BY <2>1
    <2>3. QED
        BY <1>2, <2>2 DEF Take, QueueTyped
<1>3. ASSUME LetGo(p) PROVE QueueTyped'
    <2>1. ASSUME NEW l \in Locks PROVE RemoveFirst(queue[l], p) \in Seq(Runs \cup Others)
        BY RemoveFirstTyped DEF QueueTyped
    <2>2. QED
        BY <1>3, <2>1 DEF LetGo, QueueTyped
<1>4. ASSUME UNCHANGED queue PROVE QueueTyped'
    BY <1>4 DEF QueueTyped
<1>5. QED
    BY <1>1, <1>2, <1>3, <1>4

\* A step of a call on its way to the lock of a game.
LEMMA WaitsQueue ==
    ASSUME GateInv, QueueTyped, NEW r \in Runs,
           \/ \E kind \in Kinds, m \in Roms : Call(r, kind, m)
           \/ TakeGate(r) \/ EndWait(r) \/ StopWait(r) \/ TimeOut(r)
           \/ EnterRom(r) \/ NextRom(r) \/ TakeRom(r)
    PROVE  QueueTyped'
<1>1. Gate \in Locks /\ Roms \subseteq Locks
    BY DEF Locks
<1>2. CASE TakeGate(r) \/ \E kind \in Kinds, m \in Roms : Call(r, kind, m)
    BY <1>1, <1>2, QueuesMove DEF Call, TakeGate
<1>3. CASE EndWait(r) \/ StopWait(r) \/ TimeOut(r)
    BY <1>3, QueuesMove DEF EndWait, StopWait, TimeOut
<1>4. CASE EnterRom(r)
    <2>1. run[r].rom \in Roms
        BY <1>4 DEF EnterRom, GateInv, RunHolds
    <2>2. QED
        BY <1>1, <1>4, <2>1, QueuesMove DEF EnterRom, End
<1>5. CASE NextRom(r)
    <2>. DEFINE m == CHOOSE m \in run[r].left : \A n \in run[r].left : m <= n
    <2>1. CASE run[r].left = {}
        BY <1>5, <2>1, QueuesMove DEF NextRom, End
    <2>2. CASE run[r].left # {}
        <3>1. m \in Roms
            BY <2>2, NextOfSweep DEF GateInv, StateTyped, RunStates
        <3>2. Enqueued(m, r)
            BY <1>5, <2>2 DEF NextRom
        <3>. HIDE DEF m
        <3>3. QED
            BY <1>1, <3>1, <3>2, QueuesMove
    <2>3. QED
        BY <2>1, <2>2
<1>6. CASE TakeRom(r)
    <2>1. run[r].rom \in Roms
        BY <1>6 DEF TakeRom, GateInv, RunHolds
    <2>2. QED
        BY <1>1, <1>6, <2>1, QueuesMove DEF TakeRom
<1>7. QED
    BY <1>2, <1>3, <1>4, <1>5, <1>6

\* A step of a sync at its game; it may end there.
LEMMA WorkQueue ==
    ASSUME QueueTyped, NEW r \in Runs,
           AskSteam(r) \/ Follow(r) \/ BeginFile(r) \/ EndFetch(r) \/ Place(r) \/ Fail(r)
    PROVE  QueueTyped'
<1>1. LeaveRom(r) => LetGo(r) \/ UNCHANGED queue
    BY DEF LeaveRom, End
<1>2. LetGo(r) \/ UNCHANGED queue
    BY <1>1 DEF AskSteam, Follow, BeginFile, EndFetch, Place, Fail, End, Goes
<1>3. QED
    BY <1>2, QueuesMove

\* Every variable of the gate keeps its type: a call is at one of its places and
\* at a game, each lock has one owner, and only calls wait for it.
THEOREM TypeCorrect == Spec => []TypeOK
<1>1. Init => QueueTyped
    BY DEF Init, QueueTyped
<1>2. QueueTyped /\ GateInv /\ [Next]_vars => QueueTyped'
    <2>. SUFFICES ASSUME QueueTyped, GateInv, [Next]_vars PROVE QueueTyped'
        OBVIOUS
    <2>0. Roms \subseteq Locks
        BY DEF Locks
    <2>1. ASSUME NEW r \in Runs,
                 Step(r) \/ TimeOut(r) \/ Fail(r) \/ \E kind \in Kinds, m \in Roms : Call(r, kind, m)
          PROVE  QueueTyped'
        BY <2>1, WaitsQueue, WorkQueue DEF Step
    <2>2. ASSUME NEW o \in Others, NEW m \in Roms, CallOther(o, m)
          PROVE  QueueTyped'
        BY <2>0, <2>2, QueuesMove DEF CallOther
    <2>3. ASSUME NEW o \in Others, TakeOther(o) \/ EndOther(o)
          PROVE  QueueTyped'
        <3>1. TakeOther(o) => other[o].rom \in Locks
            BY <2>0 DEF TakeOther, GateInv, OtherHolds
        <3>2. QED
            BY <2>3, <3>1, QueuesMove DEF TakeOther, EndOther
    <2>4. ASSUME NEW m \in Played, PlayAnyway(m) \/ StartGame(m) \/ ListGame(m) \/ ExitGame(m)
          PROVE  QueueTyped'
        BY <2>4 DEF PlayAnyway, StartGame, ListGame, ExitGame, QueueTyped
    <2>5. CASE UNCHANGED vars
        BY <2>5 DEF vars, QueueTyped
    <2>6. QED
        BY <2>1, <2>2, <2>3, <2>4, <2>5 DEF Next
<1>3. QueueTyped /\ GateInv => TypeOK
    BY DEF QueueTyped, GateInv, StateTyped, TypeOK
<1>4. QED
    BY <1>1, <1>2, <1>3, GateInvariant, PTL DEF Spec

\* No lock is left behind: whoever has one is a call at work under it
\* (_gate.py: the gate won just before a limit runs out is given back).
THEOREM NoLockIsLeaked == Spec => []LocksAreOwned
<1>1. GateInv => LocksAreOwned
    BY GateAssumption DEF GateInv, GateOwned, RomOwned, LocksAreOwned, UnderGate, Syncing
<1>2. QED
    BY <1>1, GateInvariant, PTL

\* No two syncs of this device are at any saves at once, and no two calls at the
\* saves of one game (the gate and rom_lock, together).
THEOREM SyncExclusion == Spec => []OneSyncPerDevice
<1>1. GateInv => OneSyncPerDevice
    <2>. SUFFICES ASSUME GateInv PROVE OneSyncPerDevice
        OBVIOUS
    <2>1. ASSUME NEW q \in Runs, NEW r \in Runs, run[q].pc \in Syncing, run[r].pc \in Syncing
          PROVE  q = r
        BY <2>1 DEF GateInv, RunHolds, UnderGate
    <2>2. ASSUME NEW r \in Runs, NEW o \in Others, run[r].pc \in Syncing, other[o].pc = "held"
          PROVE  run[r].rom # other[o].rom
        BY <2>2, GateAssumption DEF GateInv, RunHolds, OtherHolds
    <2>3. QED
        BY <2>1, <2>2 DEF OneSyncPerDevice
<1>2. QED
    BY <1>1, GateInvariant, PTL

-----------------------------------------------------------------------------
(* The stop of a start, for any number of calls. *)

\* A call that was asked to stop has its stop; a game that Steam has since a
\* Play Anyway is synced by presses and sweeps that were asked to stop, that
\* reached it after the press, or that have yet to ask Steam and will be told.
StopInv ==
    /\ \A r \in Runs : run[r].asked => run[r].stop
    /\ \A m \in Roms : game[m].anyway => game[m].state \in {"started", "listed"}
    /\ \A r \in Runs :
          run[r].pc \in Syncing /\ run[r].kind \in AsksSteam /\ game[run[r].rom].anyway =>
              \/ run[r].stop
              \/ run[r].reached = "started"
              \/ run[r].pc = "ask" /\ game[run[r].rom].state = "listed"

\* What a step does to the call that takes it: it is at no game's saves after
\* it, it begins with its game, or it goes on with it.
Rests(r) ==
    /\ run'[r].pc \notin Syncing
    /\ run'[r].asked => run[r].asked /\ run'[r].stop = run[r].stop

Begins(r) ==
    /\ run[r].pc = "rom"
    /\ run'[r] = [run[r] EXCEPT !.pc = IF run[r].kind \in AsksSteam THEN "ask" ELSE "read",
                                !.reached = game[run[r].rom].state]

Works(r) ==
    /\ run[r].pc \in Syncing /\ run'[r].pc \in Syncing \ {"ask"}
    /\ run[r].pc = "ask" => game[run[r].rom].state # "listed"
    /\ run'[r].kind = run[r].kind /\ run'[r].rom = run[r].rom /\ run'[r].reached = run[r].reached
    /\ run'[r].stop = run[r].stop /\ run'[r].asked = run[r].asked
    /\ BeginsWriting(r) => ~run[r].stop
    /\ BeginsPlacing(r) => run[r].pc = "fetch"

\* A sync before a start that is answered lets the start go on.
GameStays ==
    \/ game' = game
    \/ \E m \in Roms : game[m].state = "off" /\ game' = [game EXCEPT ![m].state = "checked"]

LEMMA EndRests ==
    ASSUME GateInv, NEW r \in Runs, run[r].pc # "idle", End(r)
    PROVE  Rests(r) /\ GameStays /\ \A q \in Runs : q # r => run'[q] = run[q]
<1>1. run \in [Runs -> RunStates]
    BY DEF GateInv, StateTyped
<1>2. run' = [run EXCEPT ![r] = Answered]
    BY DEF End
<1>3. run'[r] = Answered /\ \A q \in Runs : q # r => run'[q] = run[q]
    BY <1>1, <1>2
<1>4. Rests(r)
    BY <1>3 DEF Rests, Answered, Syncing
<1>5. run[r].kind # "syncAll" => run[r].rom \in Roms
    BY DEF GateInv, RunHolds
<1>6. GameStays
    BY <1>5 DEF End, GameStays
<1>7. QED
    BY <1>3, <1>4, <1>6

LEMMA LeaveRests ==
    ASSUME GateInv, NEW r \in Runs, run[r].pc # "idle", LeaveRom(r)
    PROVE  Rests(r) /\ GameStays /\ \A q \in Runs : q # r => run'[q] = run[q]
<1>1. CASE run[r].kind # "syncAll"
    BY <1>1, EndRests DEF LeaveRom
<1>2. CASE run[r].kind = "syncAll"
    <2>1. run \in [Runs -> RunStates]
        BY DEF GateInv, StateTyped
    <2>2. /\ run' = [run EXCEPT ![r] = [Answered EXCEPT
                        !.pc = "held", !.kind = "syncAll", !.left = run[r].left]]
          /\ game' = game
        BY <1>2 DEF LeaveRom
    <2>3. run'[r].pc = "held" /\ ~run'[r].asked /\ \A q \in Runs : q # r => run'[q] = run[q]
        BY <2>1, <2>2 DEF Answered
    <2>4. QED
        BY <2>2, <2>3 DEF Rests, GameStays, Syncing
<1>3. QED
    BY <1>1, <1>2

\* A step of a call, by what it does to the call and its game.
CallStep(r) ==
    \/ \E kind \in Kinds, m \in Roms : Call(r, kind, m)
    \/ Step(r) \/ TimeOut(r) \/ Fail(r)

LEMMA CallMoves ==
    ASSUME GateInv, NEW r \in Runs, CallStep(r)
    PROVE  /\ Rests(r) \/ Begins(r) \/ Works(r)
           /\ GameStays
           /\ \A q \in Runs : q # r => run'[q] = run[q]
<1>1. run \in [Runs -> RunStates] /\ run[r] \in RunStates
    BY DEF GateInv, StateTyped
<1>2. CASE \E kind \in Kinds, m \in Roms : Call(r, kind, m)
    <2>1. PICK kind \in Kinds, m \in Roms : Call(r, kind, m)
        BY <1>2
    <2>2. /\ run'[r].pc = "gate" /\ ~run'[r].asked
          /\ \A q \in Runs : q # r => run'[q] = run[q]
          /\ game' = game
        BY <1>1, <2>1 DEF Call, Answered
    <2>3. QED
        BY <2>2 DEF Rests, GameStays, Syncing
<1>3. CASE TakeGate(r) \/ EndWait(r)
    <2>1. PICK pc \in {"won", "held"} : run' = [run EXCEPT ![r].pc = pc] /\ game' = game
        BY <1>3 DEF TakeGate, EndWait
    <2>2. /\ run'[r].pc = pc /\ run'[r].asked = run[r].asked /\ run'[r].stop = run[r].stop
          /\ \A q \in Runs : q # r => run'[q] = run[q]
        BY <1>1, <2>1 DEF RunStates
    <2>3. QED
        BY <2>1, <2>2 DEF Rests, GameStays, Syncing
<1>4. CASE TimeOut(r) \/ StopWait(r)
    <2>1. run' = [run EXCEPT ![r] = Answered] /\ game' = game
        BY <1>4 DEF TimeOut, StopWait
    <2>2. run'[r] = Answered /\ \A q \in Runs : q # r => run'[q] = run[q]
        BY <1>1, <2>1
    <2>3. QED
        BY <2>1, <2>2 DEF Rests, GameStays, Answered, Syncing
<1>5. CASE Fail(r)
    BY <1>5, EndRests DEF Fail, Syncing
<1>6. CASE EnterRom(r) \/ NextRom(r)
    <2>1. CASE End(r)
        <3>1. run[r].pc # "idle"
            BY <1>6 DEF EnterRom, NextRom
        <3>2. QED
            BY <2>1, <3>1, EndRests
    <2>2. CASE /\ game' = game
               /\ \/ run' = [run EXCEPT ![r].pc = "rom"]
                  \/ \E m, left : run' = [run EXCEPT ![r] = [run[r] EXCEPT !.pc = "rom", !.rom = m, !.left = left]]
        <3>1. /\ run'[r].pc = "rom" /\ run'[r].asked = run[r].asked /\ run'[r].stop = run[r].stop
              /\ \A q \in Runs : q # r => run'[q] = run[q]
            BY <1>1, <2>2 DEF RunStates
        <3>2. QED
            BY <2>2, <3>1 DEF Rests, GameStays, Syncing
    <2>3. QED
        BY <1>6, <2>1, <2>2 DEF EnterRom, NextRom
<1>7. CASE TakeRom(r)
    <2>1. /\ run[r].pc = "rom" /\ game' = game
          /\ run' = [run EXCEPT ![r].pc = IF run[r].kind \in AsksSteam THEN "ask" ELSE "read",
                                ![r].reached = game[run[r].rom].state]
        BY <1>7 DEF TakeRom
    <2>2. /\ run'[r] = [run[r] EXCEPT !.pc = IF run[r].kind \in AsksSteam THEN "ask" ELSE "read",
                                      !.reached = game[run[r].rom].state]
          /\ \A q \in Runs : q # r => run'[q] = run[q]
        BY <1>1, <2>1
    <2>3. QED
        BY <2>1, <2>2 DEF Begins, GameStays
\* At work: a step that goes on with the game, by the place it goes to.
<1>8. ASSUME run[r].pc \in Syncing, NEW pc \in Syncing \ {"ask"}, game' = game,
             \/ run' = [run EXCEPT ![r].pc = pc]
             \/ \E n : run' = [run EXCEPT ![r].pc = pc, ![r].files = n],
             run[r].pc = "ask" => game[run[r].rom].state # "listed",
             \/ ~run[r].stop
             \/ pc = "read"
             \/ run[r].pc \in {"fetch", "placing"} /\ pc = "files",
             pc = "placing" => run[r].pc = "fetch"
      PROVE  Works(r) /\ GameStays /\ \A q \in Runs : q # r => run'[q] = run[q]
    <2>1. /\ run'[r].pc = pc /\ run'[r].kind = run[r].kind /\ run'[r].rom = run[r].rom
          /\ run'[r].reached = run[r].reached /\ run'[r].stop = run[r].stop
          /\ run'[r].asked = run[r].asked
          /\ \A q \in Runs : q # r => run'[q] = run[q]
        BY <1>1, <1>8 DEF RunStates
    <2>2. BeginsWriting(r) => ~run[r].stop
        BY <1>8, <2>1 DEF BeginsWriting, BeginsPlacing
    <2>3. BeginsPlacing(r) => run[r].pc = "fetch"
        BY <1>8, <2>1 DEF BeginsPlacing
    <2>4. QED
        BY <1>8, <2>1, <2>2, <2>3 DEF Works, GameStays
<1>9. CASE LeaveRom(r) /\ run[r].pc \in Syncing
    BY <1>9, LeaveRests DEF Syncing
<1>10. CASE AskSteam(r) \/ Follow(r) \/ BeginFile(r) \/ EndFetch(r) \/ Place(r)
    <2>1. run[r].pc \in Syncing /\ {"read", "files", "fetch", "placing"} \subseteq Syncing \ {"ask"}
        BY <1>10 DEF AskSteam, Follow, BeginFile, EndFetch, Place, Syncing
    <2>2. CASE AskSteam(r) /\ ~LeaveRom(r)
        BY <1>8, <2>1, <2>2 DEF AskSteam, Goes
    <2>3. CASE Follow(r) /\ ~LeaveRom(r)
        BY <1>8, <2>1, <2>3 DEF Follow
    <2>4. CASE BeginFile(r) /\ ~LeaveRom(r)
        <3>1. /\ run[r].pc = "files" /\ ~run[r].stop /\ game' = game
              /\ run' = [run EXCEPT ![r].pc = "fetch", ![r].files = run[r].files - 1]
            BY <2>4 DEF BeginFile
        <3>2. QED
            BY <1>8, <2>1, <3>1
    <2>5. CASE EndFetch(r)
        <3>1. /\ run[r].pc = "fetch" /\ game' = game
              /\ \/ run' = [run EXCEPT ![r].pc = "files"]
                 \/ run' = [run EXCEPT ![r].pc = "placing"] /\ ~run[r].stop
            BY <2>5 DEF EndFetch, Goes
        <3>2. QED
            BY <1>8, <2>1, <3>1
    <2>6. CASE Place(r)
        BY <1>8, <2>1, <2>6 DEF Place, Goes
    <2>7. QED
        BY <1>9, <1>10, <2>1, <2>2, <2>3, <2>4, <2>5, <2>6
<1>11. QED
    BY <1>2, <1>3, <1>4, <1>5, <1>6, <1>7, <1>10 DEF CallStep, Step

\* What is so of a call, given its game.
StopOf(r) ==
    run[r].pc \in Syncing /\ run[r].kind \in AsksSteam /\ game[run[r].rom].anyway =>
        \/ run[r].stop
        \/ run[r].reached = "started"
        \/ run[r].pc = "ask" /\ game[run[r].rom].state = "listed"

\* A step of a call keeps what is so of every call.
LEMMA CallKeepsStop ==
    ASSUME GateInv, StopInv, NEW r \in Runs, CallStep(r)
    PROVE  StopInv'
<1>1. /\ Rests(r) \/ Begins(r) \/ Works(r)
      /\ GameStays
      /\ \A q \in Runs : q # r => run'[q] = run[q]
    BY CallMoves
<1>2. run[r] \in RunStates /\ game \in [Roms -> [state : GameStates, anyway : BOOLEAN]]
    BY DEF GateInv, StateTyped
<1>3. /\ run[r].asked => run[r].stop
      /\ \A m \in Roms : game[m].anyway => game[m].state \in {"started", "listed"}
      /\ \A q \in Runs : StopOf(q)
    BY DEF StopInv, StopOf
<1>4. \A m \in Roms : game'[m].anyway => game[m].anyway /\ game'[m] = game[m]
    <2>1. CASE game' = game
        BY <2>1
    <2>2. CASE \E n \in Roms : game[n].state = "off" /\ game' = [game EXCEPT ![n].state = "checked"]
        <3>1. PICK n \in Roms : game[n].state = "off" /\ game' = [game EXCEPT ![n].state = "checked"]
            BY <2>2
        <3>2. ~game[n].anyway
            BY <1>3, <3>1
        <3>3. ~game'[n].anyway /\ \A m \in Roms : m # n => game'[m] = game[m]
            BY <1>2, <3>1, <3>2
        <3>4. QED
            BY <3>3
    <2>3. QED
        BY <1>1, <2>1, <2>2 DEF GameStays
<1>5. \A q \in Runs : run[q].pc \in Syncing \cup {"rom"} => run[q].rom \in Roms
    BY DEF GateInv, RunHolds
<1>6. ASSUME NEW q \in Runs, q # r PROVE StopOf(q)'
    BY <1>1, <1>3, <1>4, <1>5, <1>6 DEF StopOf
<1>7. (run'[r].asked => run'[r].stop) /\ StopOf(r)'
    <2>1. CASE Rests(r)
        BY <1>3, <2>1 DEF Rests, StopOf
    <2>2. CASE Begins(r)
        <3>1. /\ run'[r].kind = run[r].kind /\ run'[r].rom = run[r].rom /\ run'[r].stop = run[r].stop
              /\ run'[r].asked = run[r].asked /\ run'[r].reached = game[run[r].rom].state
              /\ run[r].kind \in AsksSteam => run'[r].pc = "ask"
            BY <1>2, <2>2 DEF Begins, RunStates
        <3>2. run[r].rom \in Roms
            BY <1>5, <2>2 DEF Begins
        <3>3. game'[run[r].rom].anyway =>
                  game'[run[r].rom] = game[run[r].rom] /\ game[run[r].rom].state \in {"started", "listed"}
            BY <1>3, <1>4, <3>2
        <3>4. QED
            BY <1>3, <3>1, <3>3 DEF StopOf
    <2>3. CASE Works(r)
        <3>1. run[r].rom \in Roms
            BY <1>5, <2>3 DEF Works
        <3>2. QED
            BY <1>3, <1>4, <2>3, <3>1 DEF Works, StopOf
    <2>4. QED
        BY <1>1, <2>1, <2>2, <2>3
<1>8. \A q \in Runs : run'[q].asked => run'[q].stop
    BY <1>1, <1>7 DEF StopInv
<1>9. \A m \in Roms : game'[m].anyway => game'[m].state \in {"started", "listed"}
    BY <1>3, <1>4
<1>10. \A q \in Runs : StopOf(q)'
    BY <1>6, <1>7
<1>11. QED
    BY <1>8, <1>9, <1>10 DEF StopInv, StopOf

\* A start past a sync asks all syncs of its game that it must reach.
LEMMA PlayAnywayKeepsStop ==
    ASSUME GateInv, StopInv, NEW m \in Played, PlayAnyway(m)
    PROVE  StopInv'
<1>1. /\ run \in [Runs -> RunStates] /\ game \in [Roms -> [state : GameStates, anyway : BOOLEAN]]
      /\ m \in Roms
    BY GateAssumption DEF GateInv, StateTyped, Roms
<1>2. /\ game'[m] = [state |-> "started", anyway |-> TRUE]
      /\ \A n \in Roms : n # m => game'[n] = game[n]
    BY <1>1 DEF PlayAnyway
<1>3. ASSUME NEW q \in Runs
      PROVE  /\ run'[q].pc = run[q].pc /\ run'[q].kind = run[q].kind /\ run'[q].rom = run[q].rom
             /\ run'[q].reached = run[q].reached
             /\ run[q].stop \/ Tracked(q, m) => run'[q].stop
             /\ run'[q].asked => run[q].asked \/ Tracked(q, m)
    <2>. DEFINE stop == run[q].stop \/ Tracked(q, m)
                asked == \/ run[q].asked
                         \/ run[q].pc # "idle" /\ run[q].rom = m /\ run[q].kind # "postExit"
    <2>1. run'[q] = [run[q] EXCEPT !.stop = stop, !.asked = asked]
        BY DEF PlayAnyway
    <2>2. run[q] \in RunStates /\ (asked => run[q].asked \/ Tracked(q, m))
        BY <1>1 DEF Tracked
    <2>3. stop = (run[q].stop \/ Tracked(q, m))
        OBVIOUS
    <2>. HIDE DEF stop, asked
    <2>4. /\ run'[q].pc = run[q].pc /\ run'[q].kind = run[q].kind /\ run'[q].rom = run[q].rom
          /\ run'[q].reached = run[q].reached /\ run'[q].stop = stop /\ run'[q].asked = asked
        BY <2>1, <2>2 DEF RunStates
    <2>5. QED
        BY <2>2, <2>3, <2>4
<1>4. \A q \in Runs : run'[q].asked => run'[q].stop
    BY <1>3 DEF StopInv
<1>5. \A n \in Roms : game'[n].anyway => game'[n].state \in {"started", "listed"}
    BY <1>2 DEF StopInv
<1>6. ASSUME NEW q \in Runs PROVE StopOf(q)'
    <2>1. StopOf(q) /\ (run[q].pc \in Syncing => run[q].rom \in Roms)
        BY DEF StopInv, StopOf, GateInv, RunHolds
    <2>2. CASE run[q].rom = m
        <3>1. run[q].pc \in Syncing /\ run[q].kind \in AsksSteam => Tracked(q, m)
            BY <2>2 DEF Tracked, Syncing, AsksSteam
        <3>2. QED
            BY <1>3, <3>1 DEF StopOf
    <2>3. CASE run[q].rom # m
        BY <1>2, <1>3, <2>1, <2>3 DEF StopOf
    <2>4. QED
        BY <2>2, <2>3
<1>7. QED
    BY <1>4, <1>5, <1>6 DEF StopInv, StopOf

\* A game that starts, is listed or ends leaves every call as it was.
LEMMA GameKeepsStop ==
    ASSUME GateInv, StopInv, NEW m \in Played, StartGame(m) \/ ListGame(m) \/ ExitGame(m)
    PROVE  StopInv'
<1>1. game \in [Roms -> [state : GameStates, anyway : BOOLEAN]] /\ m \in Roms
    BY GateAssumption DEF GateInv, StateTyped, Roms
<1>2. UNCHANGED run /\ \A n \in Roms : n # m => game'[n] = game[n]
    BY <1>1 DEF StartGame, ListGame, ExitGame
<1>3. \/ ~game'[m].anyway
      \/ game[m].state = "started" /\ game'[m].state = "listed" /\ game'[m].anyway = game[m].anyway
    BY <1>1 DEF StartGame, ListGame, ExitGame
<1>4. ASSUME NEW q \in Runs PROVE StopOf(q)'
    <2>1. StopOf(q) /\ (run[q].pc \in Syncing => run[q].rom \in Roms)
        BY DEF StopInv, StopOf, GateInv, RunHolds
    <2>2. QED
        BY <1>2, <1>3, <2>1 DEF StopOf
<1>5. \A n \in Roms : game'[n].anyway => game'[n].state \in {"started", "listed"}
    BY <1>2, <1>3 DEF StopInv
<1>6. QED
    BY <1>2, <1>4, <1>5 DEF StopInv, StopOf

\* The stops and what they are for, at every moment.
THEOREM StopInvariant == Spec => []StopInv
<1>1. Init => StopInv
    BY DEF Init, StopInv, Answered, Syncing
<1>2. GateInv /\ StopInv /\ [Next]_vars => StopInv'
    <2>. SUFFICES ASSUME GateInv, StopInv, [Next]_vars PROVE StopInv'
        OBVIOUS
    <2>1. ASSUME NEW r \in Runs, CallStep(r) PROVE StopInv'
        BY <2>1, CallKeepsStop
    <2>2. CASE UNCHANGED <<run, game>>
        BY <2>2 DEF StopInv
    <2>3. ASSUME NEW o \in Others,
                 TakeOther(o) \/ EndOther(o) \/ \E m \in Roms : CallOther(o, m)
          PROVE  StopInv'
        BY <2>2, <2>3 DEF TakeOther, EndOther, CallOther
    <2>4. ASSUME NEW m \in Played, PlayAnyway(m) \/ StartGame(m) \/ ListGame(m) \/ ExitGame(m)
          PROVE  StopInv'
        BY <2>4, PlayAnywayKeepsStop, GameKeepsStop
    <2>5. CASE UNCHANGED vars
        BY <2>2, <2>5 DEF vars
    <2>6. QED
        BY <2>1, <2>3, <2>4, <2>5 DEF Next, CallStep
<1>3. QED
    BY <1>1, <1>2, GateInvariant, PTL DEF Spec

\* No step begins to write at a game for two calls, and the one that does is a
\* step of work.
LEMMA OnlyWorkWrites ==
    ASSUME GateInv, [Next]_vars, NEW r \in Runs, BeginsWriting(r)
    PROVE  Works(r)
<1>1. run'[r].pc # run[r].pc /\ run'[r].pc \in Syncing /\ (run'[r].pc # "placing" => run[r].pc \in Syncing)
    BY DEF BeginsWriting, BeginsPlacing, Syncing
<1>2. ASSUME NEW q \in Runs, CallStep(q) PROVE Works(r)
    <2>1. q = r
        BY <1>1, <1>2, CallMoves
    <2>2. ~Rests(r)
        BY <1>1 DEF Rests
    <2>3. ~Begins(r)
        <3>1. run[r] \in RunStates
            BY DEF GateInv, StateTyped
        <3>2. Begins(r) => run'[r].pc \in {"ask", "read"} /\ run[r].pc = "rom"
            BY <3>1 DEF Begins, RunStates
        <3>3. QED
            BY <3>2 DEF BeginsWriting, BeginsPlacing
    <2>4. QED
        BY <1>2, <2>1, <2>2, <2>3, CallMoves
<1>3. ASSUME NEW o \in Others,
             TakeOther(o) \/ EndOther(o) \/ \E m \in Roms : CallOther(o, m)
      PROVE  FALSE
    BY <1>1, <1>3 DEF TakeOther, EndOther, CallOther
<1>4. ASSUME NEW m \in Played, PlayAnyway(m) \/ StartGame(m) \/ ListGame(m) \/ ExitGame(m)
      PROVE  FALSE
    <2>1. CASE PlayAnyway(m)
        <3>. DEFINE stop == run[r].stop \/ Tracked(r, m)
                    asked == \/ run[r].asked
                             \/ run[r].pc # "idle" /\ run[r].rom = m /\ run[r].kind # "postExit"
        <3>1. run'[r] = [run[r] EXCEPT !.stop = stop, !.asked = asked] /\ run[r] \in RunStates
            BY <2>1 DEF PlayAnyway, GateInv, StateTyped
        <3>. HIDE DEF stop, asked
        <3>2. run'[r].pc = run[r].pc
            BY <3>1 DEF RunStates
        <3>3. QED
            BY <1>1, <3>2
    <2>2. QED
        BY <1>1, <1>4, <2>1 DEF StartGame, ListGame, ExitGame
<1>5. ~UNCHANGED vars
    BY <1>1 DEF vars
<1>6. QED
    BY <1>2, <1>3, <1>4, <1>5 DEF Next, CallStep

\* A start's stop reaches the syncs of its game, however many there are and
\* wherever they wait (stop_pre_launch_sync, and the looks at the stop registry's _stops).
THEOREM StopsReach == Spec => StopReaches
<1>1. GateInv /\ StopInv /\ [Next]_vars => \A r \in Runs : BeginsWriting(r) => ~run[r].asked
    <2>. SUFFICES ASSUME GateInv, StopInv, [Next]_vars, NEW r \in Runs, BeginsWriting(r)
                  PROVE  ~run[r].asked
        OBVIOUS
    <2>1. ~run[r].stop
        BY OnlyWorkWrites DEF Works
    <2>2. QED
        BY <2>1 DEF StopInv
<1>2. QED
    BY <1>1, GateInvariant, StopInvariant, PTL DEF Spec, StopReaches

\* A game that runs past its sync keeps its saves from every press and sweep that
\* did not reach it in the moment between the press and Steam's listing.
THEOREM RunningKeepsItsSave == Spec => AnywayIsKept
<1>. DEFINE Kept ==
        \A r \in Runs :
            /\ BeginsPlacing(r)
            /\ run[r].kind \in AsksSteam
            /\ game[run[r].rom].state = "listed" /\ game[run[r].rom].anyway
            => run[r].reached = "started"
<1>1. GateInv /\ StopInv /\ [Next]_vars => Kept
    <2>. SUFFICES ASSUME GateInv, StopInv, [Next]_vars, NEW r \in Runs, BeginsPlacing(r),
                         run[r].kind \in AsksSteam, game[run[r].rom].anyway
                  PROVE  run[r].reached = "started"
        OBVIOUS
    <2>1. Works(r) /\ ~run[r].stop /\ run[r].pc = "fetch"
        BY OnlyWorkWrites DEF Works, BeginsWriting
    <2>2. QED
        BY <2>1 DEF StopInv, Syncing
<1>2. QED
    BY <1>1, GateInvariant, StopInvariant, PTL DEF Spec, AnywayIsKept

=============================================================================
