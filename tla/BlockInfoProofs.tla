-------------------------- MODULE BlockInfoProofs --------------------------
(***************************************************************************)
(* Proofs about BlockInfo, for any number of disks, positions, commands    *)
(* and hash kinds, and any plan of scrub: what is saved of the hashes and  *)
(* of the marks, and the choice of the blocks to scrub by their age.       *)
(***************************************************************************)
EXTENDS BlockInfo, FiniteSetTheorems, WellFoundedInduction, TLAPS

-----------------------------------------------------------------------------
(* The inductive invariant                                                 *)

Block == [st : {"EMPTY", "BLK", "CHG", "REP", "DELETED"}, kind : 0 .. MaxKind]

(* A state, in memory or saved.                                            *)
Memory == [info : [Positions -> Infos \cup {None}], hash : 1 .. MaxKind,
           prev : 0 .. MaxKind - 1, found : SUBSET Positions,
           blk : [Positions -> [Disks -> Block]]]

Commands == [op : {"none", "sync", "scrub"}, pos : 0 .. PosMax, todo : SUBSET Positions,
             error : BOOLEAN, limit : Nat]

TypeInv ==
    /\ now \in Nat /\ runs \in 0 .. MaxRuns
    /\ mem \in Memory /\ saved \in Memory
    /\ wrong \in [Positions -> {"no", "data", "parity"}]
    /\ cmd \in Commands

(* The hashes of the state m are of the kind the info says.                *)
KnownAt(m, p) ==
    /\ Rehashing(m, p) => m.prev # 0
    /\ \A d \in Disks :
         /\ m.blk[p][d].st = "BLK" => m.info[p] # None
         /\ m.blk[p][d].st = "BLK" => m.blk[p][d].kind = Expected(m, p)

Known(m) == \A p \in Positions : KnownAt(m, p)

(* The damages reported in the state m are marked in it.                   *)
Marked(m) == \A p \in m.found : wrong[p] # "no" => IsBad(m, p)

IInv ==
    /\ TypeInv
    /\ Known(mem) /\ Known(saved)
    /\ Marked(mem) /\ Marked(saved)
    /\ OldestFirst

-----------------------------------------------------------------------------
(* The state in memory                                                     *)

LEMMA ConstantTypes ==
    /\ PosMax \in Nat \ {0} /\ MaxKind \in Nat \ {0} /\ MaxRuns \in Nat
    /\ Positions \subseteq Nat /\ Disks # {}
<1>1. PosMax \in Nat \ {0} /\ MaxKind \in Nat \ {0} /\ MaxRuns \in Nat /\ DiskMax \in Nat \ {0}
  BY InfoAssumption
<1>2. Positions \subseteq Nat
  BY DEF Positions
<1>3. 1 \in Disks
  BY <1>1 DEF Disks
<1> QED BY <1>1, <1>2, <1>3

LEMMA InfoTypes ==
    ASSUME now \in Nat
    PROVE  /\ None \notin Infos
           /\ \A i \in Infos \cup {None} : SetBad(i) \in Infos /\ SetBad(i).bad
           /\ \A i \in Infos : SetBad(i).rehash = i.rehash
           /\ SetBad(None).rehash = FALSE
           /\ \A just \in BOOLEAN : Fresh(just) \in Infos /\ ~Fresh(just).rehash
<1>1. None \notin Infos
  BY InfoAssumption DEF Infos
<1>2. \A just \in BOOLEAN : Fresh(just) \in Infos /\ ~Fresh(just).rehash
  BY DEF Fresh, Infos
<1>3. SetBad(None) \in Infos /\ SetBad(None).bad /\ SetBad(None).rehash = FALSE
  BY DEF SetBad, Infos
<1>4. \A i \in Infos : SetBad(i) \in Infos /\ SetBad(i).bad /\ SetBad(i).rehash = i.rehash
  BY <1>1 DEF SetBad, Infos
<1> QED BY <1>1, <1>2, <1>3, <1>4

LEMMA MemoryType ==
    ASSUME NEW m \in Memory
    PROVE  /\ m.info \in [Positions -> Infos \cup {None}] /\ m.hash \in 1 .. MaxKind
           /\ m.prev \in 0 .. MaxKind - 1 /\ m.found \subseteq Positions
           /\ m.blk \in [Positions -> [Disks -> Block]]
           /\ \A p \in Positions : m.info[p] \in Infos \cup {None} /\ m.blk[p] \in [Disks -> Block]
           /\ \A p \in Positions, d \in Disks : m.blk[p][d] \in Block
BY DEF Memory

LEMMA EmptyType == Empty \in Block /\ ~HasFile(Empty) /\ Empty.st \notin {"BLK", "REP"}
BY ConstantTypes DEF Empty, Block, HasFile

(* What state_write does: an unused position is emptied, and no other one  *)
(* changes.                                                                *)
LEMMA WriteFacts ==
    ASSUME NEW m \in Memory, now \in Nat
    PROVE  /\ Write(m) \in Memory
           /\ Write(m).hash = m.hash
           /\ Write(m).prev = IF \E p \in Positions : Required(m, p) /\ Rehashing(m, p)
                              THEN m.prev ELSE 0
           /\ Write(m).found = {p \in m.found : Required(m, p)}
           /\ \A p \in Positions : Required(m, p) =>
                Write(m).info[p] = m.info[p] /\ Write(m).blk[p] = m.blk[p]
           /\ \A p \in Positions : ~Required(m, p) =>
                Write(m).info[p] = None /\ \A d \in Disks : Write(m).blk[p][d] = Empty
<1> DEFINE info == [p \in Positions |-> IF Required(m, p) THEN m.info[p] ELSE None]
           blk == [p \in Positions |-> IF Required(m, p) THEN m.blk[p] ELSE [d \in Disks |-> Empty]]
           prev == IF \E p \in Positions : Required(m, p) /\ Rehashing(m, p) THEN m.prev ELSE 0
           found == {p \in m.found : Required(m, p)}
<1>1. Write(m) = [m EXCEPT !.info = info, !.blk = blk, !.prev = prev, !.found = found]
  BY DEF Write
<1>2. info \in [Positions -> Infos \cup {None}] /\ blk \in [Positions -> [Disks -> Block]]
  BY MemoryType, EmptyType
<1>3. prev \in 0 .. MaxKind - 1 /\ found \subseteq Positions
  BY MemoryType, ConstantTypes
<1>4. \A p \in Positions :
        /\ Required(m, p) => info[p] = m.info[p] /\ blk[p] = m.blk[p]
        /\ ~Required(m, p) => info[p] = None /\ \A d \in Disks : blk[p][d] = Empty
  OBVIOUS
<1> HIDE DEF info, blk
<1>5. /\ Write(m) \in Memory /\ Write(m).info = info /\ Write(m).blk = blk
      /\ Write(m).prev = prev /\ Write(m).found = found /\ Write(m).hash = m.hash
  BY <1>1, <1>2, <1>3 DEF Memory
<1> QED BY <1>4, <1>5

LEMMA WriteKeeps ==
    ASSUME NEW m \in Memory, now \in Nat, Known(m), Marked(m)
    PROVE  Known(Write(m)) /\ Marked(Write(m))
<1>1. \A p \in Positions : Required(m, p) =>
        /\ Rehashing(Write(m), p) <=> Rehashing(m, p)
        /\ Expected(Write(m), p) = Expected(m, p)
        /\ Rehashing(m, p) => Write(m).prev = m.prev
        /\ IsBad(Write(m), p) <=> IsBad(m, p)
  BY WriteFacts DEF Rehashing, Expected, IsBad
<1>2. \A p \in Positions : ~Required(m, p) => ~Rehashing(Write(m), p)
  BY WriteFacts DEF Rehashing
<1>3. Known(Write(m))
  <2> SUFFICES ASSUME NEW p \in Positions PROVE KnownAt(Write(m), p)
    BY DEF Known
  <2>1. CASE Required(m, p)
    BY <1>1, <2>1, WriteFacts DEF Known, KnownAt
  <2>2. CASE ~Required(m, p)
    BY <1>2, <2>2, WriteFacts, EmptyType DEF KnownAt
  <2> QED BY <2>1, <2>2
<1>4. Marked(Write(m))
  BY <1>1, WriteFacts, MemoryType DEF Marked
<1> QED BY <1>3, <1>4

LEMMA InitIInv == Init => IInv
<1> SUFFICES ASSUME Init PROVE IInv
  OBVIOUS
<1>1. mem \in Memory
  BY ConstantTypes, EmptyType DEF Init, Memory
<1>2. TypeInv
  BY <1>1, ConstantTypes DEF Init, TypeInv, Commands, Idle
<1>3. Known(mem)
  BY EmptyType DEF Init, Known, KnownAt, Rehashing
<1>4. Marked(mem)
  BY DEF Init, Marked
<1> QED BY <1>2, <1>3, <1>4 DEF IInv, OldestFirst, Init, Idle

-----------------------------------------------------------------------------
(* The steps                                                               *)

LEMMA MemorySame == now' = now => Memory' = Memory /\ Infos' = Infos
BY DEF Memory, Infos, Block

(* A step that ends or begins nothing of a scrub says nothing of its plan. *)
LEMMA NotFresh ==
    ASSUME cmd'.op # "scrub" \/ cmd'.pos # 0
    PROVE  OldestFirst'
BY DEF OldestFirst

(* A step that repairs, or lets the time pass.                             *)
LEMMA QuietStep ==
    ASSUME IInv, UNCHANGED <<mem, saved>>, TypeInv', OldestFirst',
           \A p \in Positions : wrong'[p] \in {"no", wrong[p]}
    PROVE  IInv'
<1>1. Known(mem)' /\ Known(saved)'
  BY DEF IInv, Known, KnownAt, Rehashing, Expected
<1>2. Marked(mem)' /\ Marked(saved)'
  <2>1. mem.found \subseteq Positions /\ saved.found \subseteq Positions
    BY MemoryType DEF IInv, TypeInv
  <2> QED BY <2>1 DEF IInv, Marked, IsBad
<1> QED BY <1>1, <1>2 DEF IInv

LEMMA OutsideSteps == IInv /\ (Tick \/ Fix \/ Damage) => IInv'
<1> SUFFICES ASSUME IInv, Tick \/ Fix \/ Damage PROVE IInv'
  OBVIOUS
<1>1. OldestFirst'
  BY NotFresh DEF Tick, Fix, Damage, Outside
<1>2. TypeInv
  BY DEF IInv
<1>3. CASE Tick
  <2>1. Infos \subseteq Infos'
    <3>1. now \in Nat /\ now' = now + 1
      BY <1>2, <1>3 DEF TypeInv, Tick
    <3> QED BY <3>1 DEF Infos
  <2>2. mem \in Memory' /\ saved \in Memory'
    BY <1>2, <2>1 DEF TypeInv, Memory, Block
  <2>3. TypeInv'
    BY <1>2, <1>3, <2>2 DEF TypeInv, Tick, Commands
  <2> QED BY <1>1, <1>3, <2>3, QuietStep DEF Tick
<1>4. CASE Fix
  <2>1. wrong' \in [Positions -> {"no", "data", "parity"}] /\ \A p \in Positions : wrong'[p] = "no"
    BY <1>4 DEF Fix
  <2>2. TypeInv'
    BY <1>2, <1>4, <2>1, MemorySame DEF TypeInv, Fix, Commands
  <2> QED BY <1>1, <1>4, <2>1, <2>2, QuietStep DEF Fix
<1>5. CASE Damage
  <2>1. /\ mem' = [mem EXCEPT !.found = {}] /\ saved' = [saved EXCEPT !.found = {}]
        /\ wrong' \in [Positions -> {"no", "data", "parity"}] /\ UNCHANGED <<now, runs, cmd>>
    BY <1>2, <1>5 DEF Damage, TypeInv
  <2>2. /\ mem' \in Memory /\ mem'.found = {} /\ saved' \in Memory /\ saved'.found = {}
        /\ mem'.info = mem.info /\ mem'.blk = mem.blk
        /\ mem'.prev = mem.prev /\ mem'.hash = mem.hash
        /\ saved'.info = saved.info /\ saved'.blk = saved.blk
        /\ saved'.prev = saved.prev /\ saved'.hash = saved.hash
    BY <1>2, <2>1 DEF Memory, TypeInv
  <2>3. TypeInv'
    BY <1>2, <2>1, <2>2, MemorySame DEF TypeInv, Commands
  <2>4. Known(mem)' /\ Known(saved)'
    BY <2>2 DEF IInv, Known, KnownAt, Rehashing, Expected
  <2>5. Marked(mem)' /\ Marked(saved)'
    BY <2>2 DEF Marked
  <2> QED BY <1>1, <2>3, <2>4, <2>5 DEF IInv
<1> QED BY <1>3, <1>4, <1>5

(* A save of a good state, with no damage more.                            *)
LEMMA SaveStep ==
    ASSUME IInv, NEW m \in Memory, Known(m), Marked(m), Save(m), now' = now,
           runs' \in 0 .. MaxRuns, wrong' \in [Positions -> {"no", "data", "parity"}],
           \A p \in Positions : wrong'[p] \in {"no", wrong[p]},
           cmd' \in Commands, OldestFirst'
    PROVE  IInv'
<1>1. mem' = Write(m) /\ saved' = Write(m) /\ now \in Nat
  BY DEF Save, IInv, TypeInv
<1>2. Write(m) \in Memory /\ Known(Write(m)) /\ Marked(Write(m))
  BY <1>1, WriteFacts, WriteKeeps
<1>3. TypeInv'
  BY <1>1, <1>2, MemorySame DEF TypeInv, Commands
<1>4. Known(mem)' /\ Known(saved)'
  BY <1>1, <1>2
<1>5. Marked(mem)' /\ Marked(saved)'
  <2>1. Write(m).found \subseteq Positions
    BY <1>2, MemoryType
  <2> QED BY <1>1, <1>2, <2>1 DEF Marked, IsBad
<1> QED BY <1>3, <1>4, <1>5 DEF IInv

LEMMA EndSteps == IInv /\ (SyncEnd \/ ScrubEnd \/ Autosave \/ Crash) => IInv'
<1> SUFFICES ASSUME IInv, SyncEnd \/ ScrubEnd \/ Autosave \/ Crash PROVE IInv'
  OBVIOUS
<1>1. TypeInv /\ Idle \in Commands
  BY ConstantTypes DEF IInv, Idle, Commands
<1>2. OldestFirst'
  <2>1. CASE Autosave
    <3>1. cmd' = cmd /\ cmd.pos \in Nat /\ cmd.pos > 0
      BY <1>1, <2>1 DEF Autosave, TypeInv, Commands
    <3> QED BY <3>1, NotFresh
  <2>2. CASE ~Autosave
    BY <2>2, NotFresh DEF SyncEnd, ScrubEnd, Crash, Idle
  <2> QED BY <2>1, <2>2
<1>3. CASE Save(mem)
  <2>1. cmd' \in {cmd, Idle} /\ UNCHANGED <<now, runs, wrong>>
    BY DEF SyncEnd, ScrubEnd, Autosave, Crash
  <2> QED BY <1>1, <1>2, <1>3, <2>1, SaveStep DEF IInv, TypeInv
<1>4. CASE ~Save(mem)
  <2>1. mem' = saved /\ cmd' = Idle /\ UNCHANGED <<now, runs, wrong, saved>>
    BY <1>4 DEF SyncEnd, ScrubEnd, Autosave, Crash
  <2>2. TypeInv'
    BY <1>1, <2>1, MemorySame DEF TypeInv, Commands
  <2>3. Known(mem)' /\ Known(saved)'
    BY <2>1 DEF IInv
  <2>4. Marked(mem)' /\ Marked(saved)'
    BY <2>1 DEF IInv, Marked, IsBad
  <2> QED BY <1>2, <2>2, <2>3, <2>4 DEF IInv
<1> QED BY <1>3, <1>4

-----------------------------------------------------------------------------
(* The loops of sync and scrub                                             *)

LEMMA AdvanceFacts ==
    ASSUME TypeInv, NEW op \in {"sync", "scrub"}, NEW p \in Positions, NEW err \in BOOLEAN,
           At(op, p), Advance(op, err)
    PROVE  cmd' \in Commands /\ cmd'.pos # 0
<1>1. cmd \in Commands /\ cmd.pos \in Nat /\ cmd.pos < PosMax /\ PosMax \in Nat
  BY ConstantTypes DEF TypeInv, Commands, At
<1>2. cmd.error \in BOOLEAN /\ cmd.pos + 1 \in 0 .. PosMax /\ cmd.pos + 1 # 0
  BY <1>1 DEF Commands
<1>3. (cmd.error \/ err) \in BOOLEAN
  OBVIOUS
<1> QED BY <1>1, <1>2, <1>3 DEF Advance, Commands

(* A row of blocks, an info and the history of a position are replaced.    *)
SetRow(m, p, row, i, f) == [m EXCEPT !.blk[p] = row, !.info[p] = i, !.found = f]

LEMMA RowFacts ==
    ASSUME NEW m \in Memory, NEW p \in Positions, NEW row \in [Disks -> Block],
           NEW i \in Infos \cup {None}, NEW f \in SUBSET Positions, NEW n, n = SetRow(m, p, row, i, f)
    PROVE  /\ n \in Memory /\ n.hash = m.hash /\ n.prev = m.prev /\ n.found = f
           /\ n.blk[p] = row /\ n.info[p] = i
           /\ \A q \in Positions \ {p} : n.blk[q] = m.blk[q] /\ n.info[q] = m.info[q]
<1> DEFINE blk == [m.blk EXCEPT ![p] = row]
           info == [m.info EXCEPT ![p] = i]
<1>1. n = [m EXCEPT !.blk = blk, !.info = info, !.found = f]
  BY DEF SetRow
<1>2. /\ blk \in [Positions -> [Disks -> Block]] /\ info \in [Positions -> Infos \cup {None}]
      /\ blk[p] = row /\ info[p] = i
      /\ \A q \in Positions \ {p} : blk[q] = m.blk[q] /\ info[q] = m.info[q]
  BY MemoryType
<1> HIDE DEF blk, info
<1>3. /\ n.blk = blk /\ n.info = info /\ n.found = f /\ n.hash = m.hash /\ n.prev = m.prev
      /\ n \in Memory
  BY <1>1, <1>2 DEF Memory
<1> QED BY <1>2, <1>3

(* A step at a position p leaves the others alone.                         *)
LEMMA PositionStep ==
    ASSUME IInv, NEW p \in Positions, mem' \in Memory,
           mem'.hash = mem.hash, mem'.prev = mem.prev,
           \A q \in Positions \ {p} : mem'.blk[q] = mem.blk[q] /\ mem'.info[q] = mem.info[q],
           KnownAt(mem', p),
           mem'.found \subseteq mem.found \cup {p},
           p \in mem'.found /\ wrong'[p] # "no" => IsBad(mem', p),
           wrong' \in [Positions -> {"no", "data", "parity"}],
           \A q \in Positions : wrong'[q] \in {"no", wrong[q]},
           UNCHANGED <<now, runs, saved>>, cmd' \in Commands, cmd'.pos # 0
    PROVE  IInv'
<1>1. TypeInv'
  BY MemorySame DEF IInv, TypeInv, Commands
<1>2. Known(mem)' /\ Known(saved)'
  <2>1. \A q \in Positions \ {p} : KnownAt(mem', q)
    BY DEF IInv, Known, KnownAt, Rehashing, Expected
  <2>2. Known(mem')
    BY <2>1 DEF Known
  <2> QED BY <2>2 DEF IInv
<1>3. Marked(saved)'
  <2>1. saved.found \subseteq Positions
    BY MemoryType DEF IInv, TypeInv
  <2> QED BY <2>1 DEF IInv, Marked, IsBad
<1>4. Marked(mem)'
  <2> SUFFICES ASSUME NEW q \in mem'.found, wrong'[q] # "no" PROVE IsBad(mem', q)
    BY DEF Marked, IsBad
  <2>1. CASE q = p
    BY <2>1
  <2>2. CASE q # p
    <3>1. q \in mem.found /\ q \in Positions /\ wrong[q] # "no"
      BY <2>2, MemoryType DEF IInv, TypeInv
    <3> QED BY <2>2, <3>1 DEF IInv, Marked, IsBad
  <2> QED BY <2>1, <2>2
<1> QED BY <1>1, <1>2, <1>3, <1>4, NotFresh DEF IInv

LEMMA SkipStep == IInv /\ (\E p \in Positions : Skip(p)) => IInv'
<1> SUFFICES ASSUME IInv, NEW p \in Positions, Skip(p) PROVE IInv'
  OBVIOUS
<1>1. TypeInv
  BY DEF IInv
<1>2. At("sync", p) \/ At("scrub", p)
  BY DEF Skip
<1>3. cmd.op \in {"sync", "scrub"} /\ At(cmd.op, p) /\ Advance(cmd.op, FALSE)
  BY <1>2 DEF Skip, At
<1>4. cmd' \in Commands /\ cmd'.pos # 0
  BY <1>1, <1>3, AdvanceFacts
<1>5. UNCHANGED <<now, runs, mem, saved, wrong>>
  BY DEF Skip
<1>6. TypeInv'
  BY <1>1, <1>4, <1>5, MemorySame DEF TypeInv, Commands
<1> QED BY <1>4, <1>5, <1>6, NotFresh, QuietStep

(* A row whose info is only marked as bad keeps the kind of its hashes.    *)
LEMMA MarkKeeps ==
    ASSUME IInv, NEW p \in Positions, NEW i \in {mem.info[p], SetBad(mem.info[p])},
           mem'.info[p] = i, mem'.hash = mem.hash, mem'.prev = mem.prev
    PROVE  /\ Rehashing(mem', p) <=> Rehashing(mem, p)
           /\ Expected(mem', p) = Expected(mem, p)
           /\ mem.info[p] # None => mem'.info[p] # None
           /\ IsBad(mem, p) => IsBad(mem', p)
           /\ i = SetBad(mem.info[p]) => IsBad(mem', p)
<1>1. now \in Nat /\ mem.info[p] \in Infos \cup {None}
  BY MemoryType DEF IInv, TypeInv
<1>2. CASE i = mem.info[p] /\ i # SetBad(mem.info[p])
  BY <1>2 DEF Rehashing, Expected, IsBad
<1>3. CASE i = SetBad(mem.info[p])
  <2>1. i # None /\ i.bad /\ (i.rehash <=> Rehashing(mem, p))
    BY <1>1, <1>3, InfoTypes DEF Rehashing
  <2> QED BY <2>1 DEF Rehashing, Expected, IsBad
<1> QED BY <1>2, <1>3

LEMMA RowTypes ==
    ASSUME IInv, NEW p \in Positions
    PROVE  /\ mem.blk[p] \in [Disks -> Block] /\ Hashed(p) \in [Disks -> Block]
           /\ \A k \in 0 .. MaxKind : Processed(p, k) \in [Disks -> Block]
           /\ Expected(mem, p) \in 0 .. MaxKind /\ mem.hash \in 0 .. MaxKind
<1>1. mem \in Memory /\ mem.blk[p] \in [Disks -> Block]
  BY MemoryType DEF IInv, TypeInv
<1>2. Expected(mem, p) \in 0 .. MaxKind /\ mem.hash \in 0 .. MaxKind
  BY <1>1, MemoryType, ConstantTypes DEF Expected
<1>3. \A d \in Disks : mem.blk[p][d] \in Block
  BY <1>1
<1>4. Hashed(p) \in [Disks -> Block]
  <2>1. \A d \in Disks : IF mem.blk[p][d].st = "CHG" THEN [st |-> "CHG", kind |-> Expected(mem, p)] \in Block
                         ELSE mem.blk[p][d] \in Block
    BY <1>2, <1>3 DEF Block
  <2> QED BY <2>1 DEF Hashed
<1>5. ASSUME NEW k \in 0 .. MaxKind PROVE Processed(p, k) \in [Disks -> Block]
  <2>1. \A d \in Disks : mem.blk[p][d].kind \in 0 .. MaxKind
    BY <1>3 DEF Block
  <2> QED BY <2>1, EmptyType DEF Processed, Block
<1> QED BY <1>1, <1>2, <1>4, <1>5

LEMMA SyncSteps ==
    IInv /\ (\E p \in Positions : SyncError(p) \/ SyncSilent(p) \/ SyncDone(p)) => IInv'
<1> SUFFICES ASSUME IInv, NEW p \in Positions, SyncError(p) \/ SyncSilent(p) \/ SyncDone(p)
             PROVE  IInv'
  OBVIOUS
<1>1. TypeInv /\ Known(mem) /\ Marked(mem) /\ now \in Nat /\ mem \in Memory
  BY DEF IInv, TypeInv
<1>2. cmd' \in Commands /\ cmd'.pos # 0 /\ UNCHANGED <<now, runs, saved>>
  BY <1>1, AdvanceFacts DEF SyncError, SyncSilent, SyncDone
<1>3. mem.info[p] \in Infos \cup {None} /\ mem.found \subseteq Positions
  BY <1>1, MemoryType
<1>4. SetBad(mem.info[p]) \in Infos \cup {None}
  BY <1>1, <1>3, InfoTypes
<1>5. wrong \in [Positions -> {"no", "data", "parity"}]
  BY <1>1 DEF TypeInv
(* The hashes computed of the new blocks are of the kind expected.         *)
<1>6. \A row \in {mem.blk[p], Hashed(p)} : \A d \in Disks :
        /\ row[d].st = mem.blk[p][d].st
        /\ row[d].st = "BLK" => row[d] = mem.blk[p][d]
  BY DEF Hashed
(* A block taken as synced with the hash it had, has it of the kind        *)
(* expected: one of another kind does not compare.                         *)
<1>7. \A k, d : /\ d \in Disks /\ Processed(p, k)[d].st = "BLK"
                /\ ~Mismatch(p, "BLK") /\ ~Mismatch(p, "REP")
                => Processed(p, k)[d].kind = k
  BY EmptyType DEF Processed, HasFile, Mismatch
<1>8. CASE SyncError(p)
  <2>1. PICK hw \in BOOLEAN, row \in {mem.blk[p], Hashed(p)} :
          mem' = [mem EXCEPT !.blk[p] = row, !.info[p] = IF hw THEN SetBad(@) ELSE @]
    BY <1>8 DEF SyncError
  <2> DEFINE i == IF hw THEN SetBad(mem.info[p]) ELSE mem.info[p]
  <2>2. mem' = SetRow(mem, p, row, i, mem.found)
    BY <1>1, <2>1 DEF Memory, SetRow
  <2>3. i \in Infos \cup {None} /\ i \in {mem.info[p], SetBad(mem.info[p])}
    BY <1>3, <1>4
  <2> HIDE DEF i
  <2>4. row \in [Disks -> Block]
    BY RowTypes
  <2>5. /\ mem' \in Memory /\ mem'.hash = mem.hash /\ mem'.prev = mem.prev
        /\ mem'.found = mem.found /\ mem'.blk[p] = row /\ mem'.info[p] = i
        /\ \A q \in Positions \ {p} : mem'.blk[q] = mem.blk[q] /\ mem'.info[q] = mem.info[q]
    BY <1>1, <1>3, <2>2, <2>3, <2>4, RowFacts
  <2>6. KnownAt(mem', p)
    BY <1>1, <1>6, <2>3, <2>5, MarkKeeps DEF Known, KnownAt
  <2>7. p \in mem'.found /\ wrong'[p] # "no" => IsBad(mem', p)
    BY <1>1, <1>8, <2>3, <2>5, MarkKeeps DEF Marked, SyncError
  <2>8. wrong' = wrong
    BY <1>8 DEF SyncError
  <2> QED BY <1>2, <1>5, <2>5, <2>6, <2>7, <2>8, PositionStep
<1>9. CASE SyncSilent(p)
  <2> DEFINE Row(fixed) == IF fixed THEN Processed(p, Expected(mem, p)) ELSE Hashed(p)
  <2>1. PICK fixed \in BOOLEAN :
          /\ fixed => ~Mismatch(p, "BLK") /\ ~Mismatch(p, "REP")
          /\ mem' = [mem EXCEPT !.blk[p] = Row(fixed), !.info[p] = SetBad(@), !.found = @ \cup {p}]
    BY <1>9 DEF SyncSilent
  <2> DEFINE i == SetBad(mem.info[p])
             row == Row(fixed)
  <2>2. mem' = SetRow(mem, p, row, i, mem.found \cup {p})
    BY <2>1 DEF SetRow
  <2>3. row \in [Disks -> Block]
    BY RowTypes
  <2>4. \A d \in Disks : row[d].st = "BLK" => row[d].kind = Expected(mem, p)
    <3>1. CASE fixed
      BY <1>7, <2>1, <3>1
    <3>2. CASE ~fixed
      BY <1>1, <1>6, <3>2 DEF Known, KnownAt
    <3> QED BY <3>1, <3>2
  <2>5. i \in Infos
    BY <1>1, <1>3, InfoTypes
  <2> HIDE DEF row, i
  <2>6. /\ mem' \in Memory /\ mem'.hash = mem.hash /\ mem'.prev = mem.prev
        /\ mem'.found = mem.found \cup {p} /\ mem'.blk[p] = row /\ mem'.info[p] = i
        /\ \A q \in Positions \ {p} : mem'.blk[q] = mem.blk[q] /\ mem'.info[q] = mem.info[q]
    BY <1>1, <1>3, <2>2, <2>3, <2>5, RowFacts
  <2>7. i # None /\ i = SetBad(mem.info[p])
    BY <1>1, <2>5, InfoTypes DEF i
  <2>8. KnownAt(mem', p)
    BY <1>1, <2>4, <2>6, <2>7, MarkKeeps DEF Known, KnownAt
  <2>9. IsBad(mem', p)
    BY <2>6, <2>7, MarkKeeps
  <2>10. wrong' = wrong
    BY <1>9 DEF SyncSilent
  <2> QED BY <1>2, <1>5, <2>6, <2>8, <2>9, <2>10, PositionStep
<1>10. CASE SyncDone(p)
  <2> DEFINE i == Fresh(TRUE)
             row == Processed(p, mem.hash)
  <2>1. /\ mem' = [mem EXCEPT !.blk[p] = row, !.info[p] = i]
        /\ wrong' = [wrong EXCEPT ![p] = "no"]
    BY <1>10 DEF SyncDone
  <2>2. mem' = SetRow(mem, p, row, i, mem.found)
    BY <1>1, <2>1 DEF Memory, SetRow
  <2>3. row \in [Disks -> Block] /\ i \in Infos /\ ~i.rehash /\ i # None
    BY <1>1, RowTypes, InfoTypes
  <2>4. \A d \in Disks : row[d].st = "BLK" => row[d].kind = mem.hash
    BY <1>7, <1>10 DEF SyncDone, SilentError
  <2> HIDE DEF row, i
  <2>5. /\ mem' \in Memory /\ mem'.hash = mem.hash /\ mem'.prev = mem.prev
        /\ mem'.found = mem.found /\ mem'.blk[p] = row /\ mem'.info[p] = i
        /\ \A q \in Positions \ {p} : mem'.blk[q] = mem.blk[q] /\ mem'.info[q] = mem.info[q]
    BY <1>1, <1>3, <2>2, <2>3, RowFacts
  <2>6. KnownAt(mem', p)
    BY <2>3, <2>4, <2>5 DEF KnownAt, Rehashing, Expected
  <2> QED BY <1>2, <1>5, <2>1, <2>5, <2>6, PositionStep
<1> QED BY <1>8, <1>9, <1>10

(* An info and the history of a position are replaced.                     *)
SetInfo(m, p, i, f) == [m EXCEPT !.info[p] = i, !.found = f]

LEMMA InfoFacts ==
    ASSUME NEW m \in Memory, NEW p \in Positions, NEW i \in Infos \cup {None},
           NEW f \in SUBSET Positions, NEW n, n = SetInfo(m, p, i, f)
    PROVE  /\ n \in Memory /\ n.hash = m.hash /\ n.prev = m.prev /\ n.found = f
           /\ n.blk = m.blk /\ n.info[p] = i
           /\ \A q \in Positions \ {p} : n.info[q] = m.info[q]
<1> DEFINE info == [m.info EXCEPT ![p] = i]
<1>1. n = [m EXCEPT !.info = info, !.found = f]
  BY DEF SetInfo
<1>2. info \in [Positions -> Infos \cup {None}] /\ info[p] = i
      /\ \A q \in Positions \ {p} : info[q] = m.info[q]
  BY MemoryType
<1> HIDE DEF info
<1>3. /\ n.blk = m.blk /\ n.info = info /\ n.found = f /\ n.hash = m.hash /\ n.prev = m.prev
      /\ n \in Memory
  BY <1>1, <1>2 DEF Memory
<1> QED BY <1>2, <1>3

LEMMA ScrubSteps ==
    IInv /\ (\E p \in Positions : ScrubError(p) \/ ScrubSilent(p) \/ ScrubDone(p)) => IInv'
<1> SUFFICES ASSUME IInv, NEW p \in Positions, ScrubError(p) \/ ScrubSilent(p) \/ ScrubDone(p)
             PROVE  IInv'
  OBVIOUS
<1>1. TypeInv /\ Known(mem) /\ Marked(mem) /\ now \in Nat /\ mem \in Memory
  BY DEF IInv, TypeInv
<1>2. cmd' \in Commands /\ cmd'.pos # 0 /\ UNCHANGED <<now, runs, saved, wrong>>
  BY <1>1, AdvanceFacts DEF ScrubError, ScrubSilent, ScrubDone
<1>3. mem.info[p] \in Infos \cup {None} /\ mem.found \subseteq Positions
  BY <1>1, MemoryType
<1>4. SetBad(mem.info[p]) \in Infos \cup {None}
  BY <1>1, <1>3, InfoTypes
<1>5. wrong \in [Positions -> {"no", "data", "parity"}]
  BY <1>1 DEF TypeInv
<1>6. CASE ScrubError(p) \/ ScrubSilent(p)
  <2>1. \E f \in {mem.found, mem.found \cup {p}}, i \in {mem.info[p], SetBad(mem.info[p])} :
          /\ mem' = SetInfo(mem, p, i, f)
          /\ f # mem.found => i = SetBad(mem.info[p])
    <3>1. CASE mem' = mem
      <4>1. mem = SetInfo(mem, p, mem.info[p], mem.found)
        BY <1>1 DEF Memory, SetInfo
      <4> QED BY <3>1, <4>1
    <3>2. CASE mem' = [mem EXCEPT !.info[p] = SetBad(@)]
      <4>1. mem' = SetInfo(mem, p, SetBad(mem.info[p]), mem.found)
        BY <1>1, <3>2 DEF Memory, SetInfo
      <4> QED BY <4>1
    <3>3. CASE mem' = [mem EXCEPT !.info[p] = SetBad(@), !.found = @ \cup {p}]
      <4>1. mem' = SetInfo(mem, p, SetBad(mem.info[p]), mem.found \cup {p})
        BY <3>3 DEF SetInfo
      <4> QED BY <4>1
    <3> QED BY <1>6, <3>1, <3>2, <3>3 DEF ScrubError, ScrubSilent
  <2>2. PICK f \in {mem.found, mem.found \cup {p}}, i \in {mem.info[p], SetBad(mem.info[p])} :
          /\ mem' = SetInfo(mem, p, i, f)
          /\ f # mem.found => i = SetBad(mem.info[p])
    BY <2>1
  <2>3. f \in SUBSET Positions /\ i \in Infos \cup {None}
    BY <1>3, <1>4
  <2>4. /\ mem' \in Memory /\ mem'.hash = mem.hash /\ mem'.prev = mem.prev
        /\ mem'.found = f /\ mem'.blk = mem.blk /\ mem'.info[p] = i
        /\ \A q \in Positions \ {p} : mem'.info[q] = mem.info[q]
    BY <1>1, <2>2, <2>3, InfoFacts
  <2>5. KnownAt(mem', p)
    BY <1>1, <2>4, MarkKeeps DEF Known, KnownAt
  <2>6. p \in mem'.found /\ wrong'[p] # "no" => IsBad(mem', p)
    BY <1>1, <1>2, <2>2, <2>4, MarkKeeps DEF Marked
  <2> QED BY <1>2, <1>5, <2>4, <2>5, <2>6, PositionStep
<1>7. CASE ScrubDone(p)
  <2> DEFINE i == Fresh(FALSE)
             row == [d \in Disks |-> IF HasFile(mem.blk[p][d]) /\ Rehashing(mem, p)
                                     THEN [mem.blk[p][d] EXCEPT !.kind = mem.hash]
                                     ELSE mem.blk[p][d]]
  <2>1. mem' = [mem EXCEPT !.blk[p] = row, !.info[p] = i] /\ wrong[p] = "no"
    BY <1>7 DEF ScrubDone
  <2>2. mem' = SetRow(mem, p, row, i, mem.found)
    BY <1>1, <2>1 DEF Memory, SetRow
  <2>3. i \in Infos /\ ~i.rehash /\ i # None
    BY <1>1, InfoTypes
  <2>4. \A d \in Disks : mem.blk[p][d] \in Block /\ mem.hash \in 0 .. MaxKind
    BY <1>1, RowTypes, MemoryType
  <2>5. row \in [Disks -> Block]
    BY <2>4 DEF Block
  <2>6. \A d \in Disks : row[d].st = "BLK" => row[d].kind = mem.hash
    <3> SUFFICES ASSUME NEW d \in Disks, row[d].st = "BLK" PROVE row[d].kind = mem.hash
      OBVIOUS
    <3>1. mem.blk[p][d].st = "BLK" /\ HasFile(mem.blk[p][d])
      BY <2>4 DEF HasFile, Block
    <3>2. mem.blk[p][d].kind = Expected(mem, p)
      BY <1>1, <3>1 DEF Known, KnownAt
    <3> QED BY <2>4, <3>1, <3>2 DEF Expected, Block
  <2> HIDE DEF row, i
  <2>7. /\ mem' \in Memory /\ mem'.hash = mem.hash /\ mem'.prev = mem.prev
        /\ mem'.found = mem.found /\ mem'.blk[p] = row /\ mem'.info[p] = i
        /\ \A q \in Positions \ {p} : mem'.blk[q] = mem.blk[q] /\ mem'.info[q] = mem.info[q]
    BY <1>1, <1>3, <2>2, <2>3, <2>5, RowFacts
  <2>8. KnownAt(mem', p)
    BY <2>3, <2>6, <2>7 DEF KnownAt, Rehashing, Expected
  <2> QED BY <1>2, <1>5, <2>1, <2>7, <2>8, PositionStep
<1> QED BY <1>6, <1>7

-----------------------------------------------------------------------------
(* The commands start                                                      *)

LEMMA RehashStep == IInv /\ Rehash => IInv'
<1> SUFFICES ASSUME IInv, Rehash PROVE IInv'
  OBVIOUS
<1>1. /\ TypeInv /\ Known(saved) /\ Marked(saved) /\ now \in Nat /\ saved \in Memory
      /\ now' = now /\ runs' \in 0 .. MaxRuns /\ UNCHANGED <<wrong, cmd>> /\ cmd.op = "none"
  BY ConstantTypes DEF IInv, TypeInv, Rehash, Run, Outside
<1> DEFINE info == [p \in Positions |-> IF saved.info[p] = None THEN None
                                        ELSE [saved.info[p] EXCEPT !.rehash = TRUE]]
           m == [saved EXCEPT !.info = info, !.prev = saved.hash, !.hash = @ + 1]
<1>2. Save(m)
  BY DEF Rehash
<1>3. \A p \in Positions :
        /\ saved.info[p] = None => info[p] = None
        /\ saved.info[p] # None =>
             info[p] \in Infos /\ info[p].rehash /\ info[p].bad = saved.info[p].bad
  <2>1. \A p \in Positions : saved.info[p] \in Infos \cup {None}
    BY <1>1, MemoryType
  <2> QED BY <2>1 DEF Infos
<1>4. info \in [Positions -> Infos \cup {None}]
  BY <1>3
<1>5. saved.prev = 0 /\ saved.hash \in 1 .. MaxKind /\ saved.hash < MaxKind /\ MaxKind \in Nat
  BY <1>1, MemoryType, ConstantTypes DEF Rehash
<1> HIDE DEF info
<1>5a. saved.hash \in 0 .. MaxKind - 1 /\ saved.hash + 1 \in 1 .. MaxKind
  BY <1>5
<1>6. /\ m \in Memory /\ m.info = info /\ m.blk = saved.blk /\ m.found = saved.found
      /\ m.prev = saved.hash /\ m.hash = saved.hash + 1
  BY <1>1, <1>4, <1>5a DEF Memory
<1> HIDE DEF m
<1>7. None \notin Infos
  BY <1>1, InfoTypes
(* What was not marked before is of the kind that becomes the previous one.*)
<1>8. \A p \in Positions : ~Rehashing(saved, p) /\ Expected(saved, p) = saved.hash
  BY <1>1, <1>5 DEF Known, KnownAt, Expected
<1>9. Known(m)
  <2> SUFFICES ASSUME NEW p \in Positions PROVE KnownAt(m, p)
    BY DEF Known
  <2>1. CASE saved.info[p] = None
    <3>1. \A d \in Disks : saved.blk[p][d].st # "BLK"
      BY <1>1, <2>1 DEF Known, KnownAt
    <3> QED BY <1>3, <1>6, <2>1, <3>1 DEF KnownAt, Rehashing
  <2>2. CASE saved.info[p] # None
    <3>1. Rehashing(m, p) /\ Expected(m, p) = saved.hash /\ m.prev # 0 /\ m.info[p] # None
      BY <1>3, <1>5, <1>6, <1>7, <2>2 DEF Rehashing, Expected
    <3> QED BY <1>1, <1>6, <1>8, <3>1 DEF Known, KnownAt
  <2> QED BY <2>1, <2>2
<1>10. Marked(m)
  <2>1. \A p \in Positions : IsBad(saved, p) => IsBad(m, p)
    BY <1>3, <1>6, <1>7 DEF IsBad
  <2> QED BY <1>1, <1>6, <2>1, MemoryType DEF Marked
<1> QED BY <1>1, <1>2, <1>6, <1>9, <1>10, SaveStep, NotFresh DEF TypeInv

(* A block of a state is replaced.                                         *)
SetBlock(m, p, d, b) == [m EXCEPT !.blk[p][d] = b]

LEMMA BlockFacts ==
    ASSUME NEW m \in Memory, Known(m), Marked(m), NEW p \in Positions, NEW d \in Disks, NEW b \in Block,
           b.st # "BLK", NEW n, n = SetBlock(m, p, d, b)
    PROVE  n \in Memory /\ Known(n) /\ Marked(n)
<1> DEFINE blk == [m.blk EXCEPT ![p][d] = b]
<1>1. n = [m EXCEPT !.blk = blk]
  BY DEF SetBlock
<1>2. /\ blk \in [Positions -> [Disks -> Block]]
      /\ \A q \in Positions, e \in Disks : blk[q][e] = IF q = p /\ e = d THEN b ELSE m.blk[q][e]
  BY MemoryType
<1> HIDE DEF blk
<1>3. /\ n.blk = blk /\ n.info = m.info /\ n.found = m.found /\ n.hash = m.hash /\ n.prev = m.prev
      /\ n \in Memory
  BY <1>1, <1>2 DEF Memory
<1>4. \A q \in Positions : (Rehashing(n, q) <=> Rehashing(m, q)) /\ Expected(n, q) = Expected(m, q)
  BY <1>3 DEF Rehashing, Expected
<1>5. Known(n)
  <2> SUFFICES ASSUME NEW q \in Positions PROVE KnownAt(n, q)
    BY DEF Known
  <2> QED BY <1>2, <1>3, <1>4 DEF Known, KnownAt
<1>6. Marked(n)
  BY <1>3 DEF Marked, IsBad
<1> QED BY <1>3, <1>5, <1>6

LEMMA ScannedFacts ==
    ASSUME IInv, NEW m \in Scanned(saved)
    PROVE  m \in Memory /\ Known(m) /\ Marked(m)
<1>1. saved \in Memory /\ Known(saved) /\ Marked(saved)
  BY DEF IInv, TypeInv
<1>2. \A p \in Positions, d \in Disks :
        saved.blk[p][d] \in Block /\ saved.blk[p][d].st \in {"EMPTY", "BLK", "CHG", "REP", "DELETED"}
        /\ saved.blk[p][d].kind \in 0 .. MaxKind
  BY <1>1, MemoryType DEF Block
<1>3. 0 \in 0 .. MaxKind
  BY ConstantTypes
<1>4. CopyKinds(saved) \subseteq 0 .. MaxKind
  BY <1>2 DEF CopyKinds
<1>5. ASSUME NEW p \in Positions, NEW d \in Disks, m = Deleted(saved, p, d)
      PROVE  m \in Memory /\ Known(m) /\ Marked(m)
  <2> DEFINE b == [st |-> "DELETED",
                   kind |-> IF saved.blk[p][d].st = "REP" THEN 0 ELSE saved.blk[p][d].kind]
  <2>1. m = SetBlock(saved, p, d, b)
    BY <1>5 DEF Deleted, SetBlock
  <2>2. b \in Block /\ b.st = "DELETED"
    BY <1>2, <1>3 DEF Block
  <2> HIDE DEF b
  <2> QED BY <1>1, <2>1, <2>2, BlockFacts
<1>6. ASSUME NEW p \in Positions, NEW d \in Disks, NEW k \in CopyKinds(saved) \cup {0},
             m = Added(saved, p, d, k)
      PROVE  m \in Memory /\ Known(m) /\ Marked(m)
  <2> DEFINE b == IF k # 0 /\ ~Rehashing(saved, p) THEN [st |-> "REP", kind |-> k]
                  ELSE [st |-> "CHG", kind |-> saved.blk[p][d].kind]
  <2>1. m = SetBlock(saved, p, d, b)
    BY <1>6 DEF Added, SetBlock
  <2>2. b \in Block /\ b.st # "BLK"
    BY <1>2, <1>3, <1>4 DEF Block
  <2> HIDE DEF b
  <2> QED BY <1>1, <2>1, <2>2, BlockFacts
<1>7. \/ m = saved
      \/ \E p \in Positions, d \in Disks : m = Deleted(saved, p, d)
      \/ \E p \in Positions, d \in Disks, k \in CopyKinds(saved) \cup {0} : m = Added(saved, p, d, k)
  BY DEF Scanned
<1> QED BY <1>1, <1>5, <1>6, <1>7

LEMMA PrehashedFacts ==
    ASSUME NEW m \in Memory, Known(m), Marked(m)
    PROVE  Prehashed(m) \in Memory /\ Known(Prehashed(m)) /\ Marked(Prehashed(m))
<1> DEFINE blk == [p \in Positions |-> [d \in Disks |->
                     IF m.blk[p][d].st = "CHG" THEN [st |-> "REP", kind |-> Expected(m, p)]
                     ELSE m.blk[p][d]]]
           n == Prehashed(m)
<1>1. n = [m EXCEPT !.blk = blk]
  BY DEF Prehashed
<1>2. \A p \in Positions, d \in Disks :
        /\ blk[p][d] \in Block
        /\ blk[p][d].st = "BLK" => blk[p][d] = m.blk[p][d]
  <2>1. \A p \in Positions : Expected(m, p) \in 0 .. MaxKind
    BY MemoryType, ConstantTypes DEF Expected
  <2>2. \A p \in Positions, d \in Disks : m.blk[p][d] \in Block
    BY MemoryType
  <2> QED BY <2>1, <2>2 DEF Block
<1>3. blk \in [Positions -> [Disks -> Block]]
  BY <1>2
<1> HIDE DEF blk
<1>4. /\ n.blk = blk /\ n.info = m.info /\ n.found = m.found /\ n.hash = m.hash /\ n.prev = m.prev
      /\ n \in Memory
  BY <1>1, <1>3 DEF Memory
<1>5. \A q \in Positions : (Rehashing(n, q) <=> Rehashing(m, q)) /\ Expected(n, q) = Expected(m, q)
  BY <1>4 DEF Rehashing, Expected
<1>6. Known(n)
  <2> SUFFICES ASSUME NEW q \in Positions PROVE KnownAt(n, q)
    BY DEF Known
  <2> HIDE DEF n
  <2> QED BY <1>2, <1>4, <1>5 DEF Known, KnownAt
<1>7. Marked(n)
  BY <1>4 DEF Marked, IsBad
<1> QED BY <1>4, <1>6, <1>7

LEMMA SyncStartStep == IInv /\ SyncStart => IInv'
<1> SUFFICES ASSUME IInv, SyncStart PROVE IInv'
  OBVIOUS
<1>1. PICK n \in UNION {{m, Prehashed(m)} : m \in Scanned(saved)} : Save(n) /\ wrong' = Lasting(n)
  <2>1. PICK m \in Scanned(saved) :
          \E n \in {m} \cup (IF Refused(m) THEN {} ELSE {Prehashed(m)}) :
            Save(n) /\ wrong' = Lasting(n)
    BY DEF SyncStart
  <2>2. PICK n \in {m, Prehashed(m)} : Save(n) /\ wrong' = Lasting(n)
    BY <2>1
  <2> QED BY <2>2
<1>2. n \in Memory /\ Known(n) /\ Marked(n)
  BY ScannedFacts, PrehashedFacts
<1>3. /\ wrong' \in [Positions -> {"no", "data", "parity"}]
      /\ \A p \in Positions : wrong'[p] \in {"no", wrong[p]}
  BY <1>1 DEF Lasting, IInv, TypeInv
<1>4. now' = now /\ runs' \in 0 .. MaxRuns
  BY ConstantTypes DEF SyncStart, Run, IInv, TypeInv
<1>5. cmd' \in Commands /\ cmd'.op = "sync"
  <2>1. Idle \in Commands
    BY ConstantTypes DEF Idle, Commands
  <2> QED BY <2>1 DEF SyncStart, Commands
<1> QED BY <1>1, <1>2, <1>3, <1>4, <1>5, SaveStep, NotFresh

-----------------------------------------------------------------------------
(* The plan of scrub: the oldest blocks first                              *)

LEMMA Least ==
    ASSUME NEW S \in SUBSET Nat, S # {}
    PROVE  \E x \in S : \A y \in S : x <= y
<1>1. PICK x \in S : \A y \in S : <<y, x>> \notin OpToRel(<, Nat)
  BY NatLessThanWellFounded, WFMin
<1>2. \A y \in S : y < x => <<y, x>> \in OpToRel(<, Nat)
  BY DEF OpToRel
<1>3. \A y \in S : x \in Nat /\ y \in Nat /\ ~(y < x)
  BY <1>1, <1>2
<1> QED BY <1>3

LEMMA Greatest ==
    ASSUME NEW n \in Nat, NEW S \in SUBSET (0 .. n), S # {}
    PROVE  \E x \in S : \A y \in S : y <= x
<1> DEFINE R == {n - x : x \in S}
<1>1. R \in SUBSET Nat /\ R # {}
  <2>1. \A x \in S : x \in Nat /\ x <= n
    OBVIOUS
  <2>2. \A x \in S : n - x \in Nat
    BY <2>1
  <2> QED BY <2>2
<1> HIDE DEF R
<1>2. PICK r \in R : \A y \in R : r <= y
  BY <1>1, Least
<1>3. PICK x \in S : r = n - x
  BY <1>2 DEF R
<1>4. \A y \in S : n - x <= n - y
  BY <1>2, <1>3 DEF R
<1> QED BY <1>4

LEMMA MinFacts ==
    ASSUME NEW S \in SUBSET Nat, S # {}
    PROVE  Min(S) \in S /\ \A y \in S : Min(S) <= y
BY Least DEF Min

(* The first k of a set of positions are k, or all of them.                *)
First(S, k) == {p \in S : Cardinality({q \in S : q <= p}) <= k}

LEMMA FirstOf ==
    ASSUME NEW S \in SUBSET Positions, NEW k \in Nat
    PROVE  /\ First(S, k) \in SUBSET S /\ IsFiniteSet(First(S, k)) /\ Cardinality(First(S, k)) <= k
           /\ First(S, k) = S \/ Cardinality(First(S, k)) >= k
<1> DEFINE F == First(S, k)
<1>0. F \in SUBSET S /\ \A p \in S : p \in F <=> Cardinality({q \in S : q <= p}) <= k
  BY DEF First
<1> HIDE DEF F
<1>1. PosMax \in Nat /\ Positions = 1 .. PosMax /\ IsFiniteSet(Positions)
  BY ConstantTypes, FS_Interval DEF Positions
<1>2. IsFiniteSet(S) /\ \A T \in SUBSET S : IsFiniteSet(T) /\ Cardinality(T) \in Nat
  BY <1>1, FS_Subset, FS_CardinalityType
<1>3. F \in SUBSET S /\ IsFiniteSet(F) /\ Cardinality(F) \in Nat
  BY <1>0, <1>2
<1>4. Cardinality(F) <= k
  <2>1. CASE F = {}
    BY <2>1, FS_EmptySet
  <2>2. CASE F # {}
    <3>1. F \in SUBSET (0 .. PosMax)
      <4>1. \A x \in F : x \in 1 .. PosMax
        BY <1>1, <1>3
      <4> QED BY <1>1, <4>1
    <3>2. PICK g \in F : \A y \in F : y <= g
      BY <1>1, <2>2, <3>1, Greatest
    <3> DEFINE upto == {q \in S : q <= g}
    <3>3. F \subseteq upto /\ IsFiniteSet(upto) /\ Cardinality(upto) \in Nat
      BY <1>2, <1>3, <3>2
    <3>4. Cardinality(F) <= Cardinality(upto)
      BY <3>3, FS_Subset
    <3>5. Cardinality(upto) <= k
      BY <1>0
    <3> HIDE DEF upto
    <3> QED BY <1>3, <3>3, <3>4, <3>5
  <2> QED BY <2>1, <2>2
<1>5. ASSUME F # S PROVE Cardinality(F) >= k
  <2>1. (S \ F) \in SUBSET Nat /\ S \ F # {}
    BY <1>3, <1>5, ConstantTypes
  <2>2. PICK p \in S \ F : \A y \in S \ F : p <= y
    BY <2>1, Least
  <2> DEFINE upto == {q \in S : q <= p}
  <2>3. upto \subseteq F \cup {p}
    <3> SUFFICES ASSUME NEW q \in upto, q \notin F PROVE q = p
      OBVIOUS
    <3>1. q \in S \ F /\ q <= p /\ p <= q /\ q \in Nat /\ p \in Nat
      BY <2>1, <2>2
    <3> QED BY <3>1
  <2>4. IsFiniteSet(F \cup {p}) /\ Cardinality(F \cup {p}) = Cardinality(F) + 1
    BY <1>3, FS_AddElement
  <2>5. Cardinality(upto) <= Cardinality(F \cup {p}) /\ Cardinality(upto) \in Nat
    BY <1>2, <2>3, <2>4, FS_Subset
  <2>6. ~(Cardinality(upto) <= k)
    BY <1>0, <2>2
  <2> HIDE DEF upto
  <2> QED BY <1>3, <2>4, <2>5, <2>6
<1> QED BY <1>3, <1>4, <1>5 DEF F

Older(m, t) == {p \in Used(m) : m.info[p].time < t}

LEMMA UsedFacts ==
    ASSUME NEW m \in Memory, now \in Nat
    PROVE  /\ Used(m) \in SUBSET Positions /\ IsFiniteSet(Used(m))
           /\ \A p \in Used(m) : m.info[p].time \in 0 .. now
           /\ \A S \in SUBSET Used(m) : IsFiniteSet(S) /\ Cardinality(S) \in Nat
           /\ \A S, T \in SUBSET Used(m) : S \subseteq T => Cardinality(S) <= Cardinality(T)
<1>1. IsFiniteSet(Positions)
  BY ConstantTypes, FS_Interval DEF Positions
<1>2. Used(m) \in SUBSET Positions /\ IsFiniteSet(Used(m))
  BY <1>1, FS_Subset DEF Used
<1>3. \A p \in Used(m) : m.info[p].time \in 0 .. now
  <2>1. \A p \in Used(m) : m.info[p] \in Infos
    BY MemoryType DEF Used
  <2> QED BY <2>1 DEF Infos
<1>4. \A S \in SUBSET Used(m) : IsFiniteSet(S) /\ Cardinality(S) \in Nat
  BY <1>2, FS_Subset, FS_CardinalityType
<1>5. \A S, T \in SUBSET Used(m) : S \subseteq T => Cardinality(S) <= Cardinality(T)
  BY <1>4, FS_Subset
<1> QED BY <1>2, <1>3, <1>4, <1>5

(* The buckets before one that stops the walk fit all together.            *)
LEMMA Fitting ==
    ASSUME NEW m \in Memory, now \in Nat, NEW limit \in Nat, NEW t \in Nat,
           \A p \in Used(m) : m.info[p].time < t => Upto(m, m.info[p].time) <= limit
    PROVE  Cardinality(Older(m, t)) <= limit
<1>1. CASE Older(m, t) = {}
  BY <1>1, FS_EmptySet
<1>2. CASE Older(m, t) # {}
  <2> DEFINE times == {m.info[p].time : p \in Older(m, t)}
  <2>1. times \in SUBSET (0 .. now) /\ times # {}
    BY <1>2, UsedFacts DEF Older
  <2>2. \A p \in Older(m, t) : m.info[p].time \in times
    OBVIOUS
  <2>3. PICK x \in times : \A y \in times : y <= x
    BY <2>1, Greatest
  <2>4. PICK p \in Older(m, t) : x = m.info[p].time
    OBVIOUS
  <2>5. Upto(m, x) <= limit
    BY <2>4 DEF Older
  <2> DEFINE upto == {q \in Used(m) : m.info[q].time <= x}
  <2>6. Older(m, t) \subseteq upto
    BY <2>2, <2>3 DEF Older
  <2>7. Upto(m, x) = Cardinality(upto) /\ upto \in SUBSET Used(m) /\ Older(m, t) \in SUBSET Used(m)
    BY DEF Upto, Older
  <2> HIDE DEF upto, times
  <2>8. /\ Cardinality(Older(m, t)) <= Cardinality(upto)
        /\ Cardinality(upto) \in Nat /\ Cardinality(Older(m, t)) \in Nat
    BY <2>6, <2>7, UsedFacts
  <2> QED BY <2>5, <2>7, <2>8
<1> QED BY <1>1, <1>2


(* The limits that state_scrub computes.                                   *)
LEMMA LimitsFacts ==
    ASSUME NEW m \in Memory, now \in Nat, NEW limit \in Nat, NEW recent \in 0 .. now,
           NEW lim, lim = Limits(m, limit, recent)
    PROVE  /\ lim.time \in Nat /\ lim.last \in Nat
           /\ Cardinality(Older(m, lim.time)) + lim.last <= limit
           /\ \A p \in Older(m, lim.time) : m.info[p].time <= recent
           /\ lim.last > 0 => lim.time <= recent
           /\ \/ Older(m, recent) \subseteq Older(m, lim.time)
              \/ limit = 0
              \/ /\ lim.last = limit - Cardinality(Older(m, lim.time))
                 /\ Upto(m, lim.time) > limit
<1> DEFINE times == {m.info[p].time : p \in Used(m)}
           stops == {t \in times : t > recent \/ Upto(m, t) > limit}
           t == Min(stops)
           before == Cardinality(Older(m, t))
<1>1. /\ stops = {} => lim = [time |-> now, last |-> 0]
      /\ stops # {} /\ t > recent => lim = [time |-> IF before = 0 THEN 0 ELSE recent, last |-> 0]
      /\ stops # {} /\ ~(t > recent) /\ limit = 0 => lim = [time |-> 0, last |-> 0]
      /\ stops # {} /\ ~(t > recent) /\ limit # 0 => lim = [time |-> t, last |-> limit - before]
  BY DEF Limits, Older
<1>2. \A p \in Used(m) : m.info[p].time \in 0 .. now
  BY UsedFacts
<1>3. stops \in SUBSET Nat
  BY <1>2
<1>4. stops # {} => t \in stops /\ \A x \in stops : t <= x
  <2> HIDE DEF stops
  <2> QED BY <1>3, MinFacts
<1>5. \A s \in Nat : Cardinality(Older(m, s)) \in Nat
  BY UsedFacts DEF Older
<1>6. Older(m, 0) = {} /\ Cardinality(Older(m, 0)) = 0
  <2>1. Older(m, 0) = {}
    BY <1>2 DEF Older
  <2> QED BY <2>1, FS_EmptySet
<1>7. \A p \in Used(m) : m.info[p].time \notin stops =>
        m.info[p].time <= recent /\ Upto(m, m.info[p].time) <= limit
  <2>1. \A x \in Nat : Upto(m, x) \in Nat
    BY UsedFacts DEF Upto
  <2> QED BY <1>2, <2>1
<1>8. stops # {} => t \in Nat /\ (t > recent \/ Upto(m, t) > limit)
  BY <1>3, <1>4
<1> HIDE DEF stops, t
<1>9. CASE stops = {}
  <2>1. lim.time = now /\ lim.last = 0
    BY <1>1, <1>9
  <2>2. Cardinality(Older(m, now)) <= limit
    BY <1>7, <1>9, Fitting
  <2>3. Older(m, recent) \subseteq Older(m, now)
    BY <1>2 DEF Older
  <2>4. \A p \in Older(m, now) : m.info[p].time <= recent
    BY <1>7, <1>9 DEF Older
  <2> QED BY <1>5, <2>1, <2>2, <2>3, <2>4
<1>10. CASE stops # {}
  <2>1. t \in Nat /\ \A p \in Used(m) : m.info[p].time < t => m.info[p].time \notin stops
    BY <1>2, <1>4, <1>8, <1>10
  <2>2. CASE t > recent
    <3>1. lim.time = (IF before = 0 THEN 0 ELSE recent) /\ lim.last = 0
      BY <1>1, <1>10, <2>2
    <3>2. CASE before = 0
      <4>1. Older(m, t) = {}
        <5>1. Older(m, t) \in SUBSET Used(m)
          BY DEF Older
        <5> QED BY <3>2, <5>1, UsedFacts, FS_EmptySet
      <4>2. Older(m, recent) \subseteq Older(m, t)
        BY <1>2, <2>1, <2>2 DEF Older
      <4>3. lim.time = 0
        BY <3>1, <3>2
      <4> QED BY <1>6, <3>1, <4>1, <4>2, <4>3
    <3>3. CASE before # 0
      <4>1. lim.time = recent /\ recent \in Nat
        BY <3>1, <3>3
      <4>2. Cardinality(Older(m, recent)) <= limit
        <5>1. \A p \in Used(m) : m.info[p].time < recent => m.info[p].time < t
          BY <1>2, <2>1, <2>2
        <5> QED BY <1>7, <2>1, <4>1, <5>1, Fitting
      <4>3. \A p \in Older(m, recent) : m.info[p].time <= recent
        BY <1>2 DEF Older
      <4> QED BY <1>5, <3>1, <4>1, <4>2, <4>3
    <3> QED BY <3>2, <3>3
  <2>3. CASE ~(t > recent) /\ limit = 0
    <3>1. lim.time = 0 /\ lim.last = 0
      BY <1>1, <1>10, <2>3
    <3> QED BY <1>6, <2>3, <3>1
  <2>4. CASE ~(t > recent) /\ limit # 0
    <3>1. lim.time = t /\ lim.last = limit - before
      BY <1>1, <1>10, <2>4
    <3>2. before <= limit /\ before \in Nat
      BY <1>5, <1>7, <2>1, Fitting
    <3>3. Upto(m, t) > limit /\ t <= recent
      BY <1>8, <1>10, <2>1, <2>4
    <3>4. \A p \in Older(m, t) : m.info[p].time <= recent
      BY <1>2, <2>1, <3>3 DEF Older
    <3> QED BY <2>1, <3>1, <3>2, <3>3, <3>4
  <2> QED BY <2>2, <2>3, <2>4
<1> QED BY <1>9, <1>10


(* What OldestFirst says of a plan.                                        *)
Ordered(m, todo, limit, recent) ==
    LET auto == todo \ Bads(m)
        old == {p \in Used(m) : m.info[p].time < recent}
    IN
    /\ \A p \in auto : m.info[p].time <= recent
    /\ \A p \in auto, q \in Used(m) : m.info[q].time < m.info[p].time => q \in todo
    /\ Cardinality(auto) <= limit
    /\ Cardinality(todo) >= MinOf(limit, Cardinality(old))

LEMMA PlanFacts ==
    ASSUME NEW m \in Memory, now \in Nat, NEW limit \in Nat, NEW recent \in 0 .. now
    PROVE  /\ AutoPlan(m, limit, recent) \in SUBSET Used(m)
           /\ Ordered(m, AutoPlan(m, limit, recent), limit, recent)
<1> DEFINE lim == Limits(m, limit, recent)
           at == {p \in Used(m) \ Bads(m) : m.info[p].time = lim.time}
           older == Older(m, lim.time)
           first == First(at, lim.last)
           todo == AutoPlan(m, limit, recent)
           auto == todo \ Bads(m)
<1>1. todo = Bads(m) \cup older \cup first
  BY DEF AutoPlan, Older, First
<1>2. /\ lim.time \in Nat /\ lim.last \in Nat
      /\ Cardinality(older) + lim.last <= limit
      /\ \A p \in older : m.info[p].time <= recent
      /\ lim.last > 0 => lim.time <= recent
      /\ \/ Older(m, recent) \subseteq older
         \/ limit = 0
         \/ lim.last = limit - Cardinality(older) /\ Upto(m, lim.time) > limit
  BY LimitsFacts
<1>3. at \in SUBSET Positions /\ at \in SUBSET Used(m) /\ Bads(m) \in SUBSET Used(m) /\ older \in SUBSET Used(m)
  BY UsedFacts DEF Bads, Older
<1>4. \A p \in at : m.info[p].time = lim.time /\ p \notin Bads(m)
  OBVIOUS
<1>5. \A p \in older : m.info[p].time < lim.time
  BY DEF Older
<1>6. \A p \in Used(m) : m.info[p].time \in Nat /\ (m.info[p].time < lim.time => p \in older)
  BY UsedFacts DEF Older
<1>7. \A p \in Used(m) : m.info[p].time = lim.time => p \in at \cup Bads(m)
  OBVIOUS
<1> HIDE DEF lim, at, older
<1>8. /\ first \in SUBSET at /\ IsFiniteSet(first) /\ Cardinality(first) <= lim.last
      /\ first = at \/ Cardinality(first) >= lim.last
  BY <1>2, <1>3, FirstOf
<1> HIDE DEF todo, first
<1>9. todo \in SUBSET Used(m) /\ auto \in SUBSET (older \cup first)
  BY <1>1, <1>3, <1>8
<1>10. \A S \in SUBSET Used(m) : IsFiniteSet(S) /\ Cardinality(S) \in Nat
  BY UsedFacts
<1>11. first # {} => lim.last > 0
  <2>1. Cardinality(first) = 0 <=> first = {}
    BY <1>8, FS_EmptySet
  <2>2. Cardinality(first) \in Nat
    BY <1>8, FS_CardinalityType
  <2> QED BY <1>2, <1>8, <2>1, <2>2
<1>12. Cardinality(older \cup first) = Cardinality(older) + Cardinality(first)
  <2>1. older \cap first = {}
    BY <1>2, <1>3, <1>4, <1>5, <1>6, <1>8
  <2>2. Cardinality(older \cup first) = Cardinality(older) + Cardinality(first) - Cardinality(older \cap first)
    BY <1>3, <1>8, <1>10, FS_Union
  <2>3. Cardinality(older) \in Nat /\ Cardinality(first) \in Nat
    BY <1>3, <1>8, <1>10, FS_CardinalityType
  <2>4. Cardinality(older \cap first) = 0
    BY <2>1, FS_EmptySet
  <2> QED BY <2>2, <2>3, <2>4
<1>13. \A p \in auto : m.info[p].time <= recent
  BY <1>2, <1>4, <1>8, <1>9, <1>11
<1>14. \A p \in auto, q \in Used(m) : m.info[q].time < m.info[p].time => q \in todo
  <2> SUFFICES ASSUME NEW p \in auto, NEW q \in Used(m), m.info[q].time < m.info[p].time
               PROVE  q \in older
    BY <1>1
  <2>1. m.info[p].time <= lim.time /\ p \in Used(m)
    BY <1>2, <1>4, <1>5, <1>6, <1>8, <1>9
  <2>2. m.info[q].time \in Nat /\ m.info[p].time \in Nat
    BY <1>6, <2>1
  <2>3. m.info[q].time < lim.time
    BY <1>2, <2>1, <2>2
  <2> QED BY <1>6, <2>3
<1>15. Cardinality(auto) <= limit
  <2>1. older \cup first \in SUBSET Used(m) /\ auto \in SUBSET Used(m)
    BY <1>3, <1>8, <1>9
  <2>2. Cardinality(auto) <= Cardinality(older \cup first)
    BY <1>9, <2>1, UsedFacts
  <2>3. Cardinality(auto) \in Nat /\ Cardinality(older) \in Nat /\ Cardinality(first) \in Nat
    BY <1>3, <1>8, <1>10, <2>1, FS_CardinalityType
  <2> QED BY <1>2, <1>8, <1>12, <2>2, <2>3
<1>16. Cardinality(todo) >= MinOf(limit, Cardinality(Older(m, recent)))
  <2>1. Cardinality(todo) \in Nat /\ Older(m, recent) \in SUBSET Used(m)
        /\ Cardinality(Older(m, recent)) \in Nat
    BY <1>9, <1>10 DEF Older
  <2>2. CASE Older(m, recent) \subseteq older
    <3>1. Older(m, recent) \subseteq todo
      BY <1>1, <2>2
    <3>2. Cardinality(Older(m, recent)) <= Cardinality(todo)
      BY <1>9, <2>1, <3>1, UsedFacts
    <3> QED BY <2>1, <3>2 DEF MinOf
  <2>3. CASE limit = 0
    BY <2>1, <2>3 DEF MinOf
  <2>4. CASE lim.last = limit - Cardinality(older) /\ Upto(m, lim.time) > limit
    <3>1. CASE first = at
      <4> DEFINE upto == {p \in Used(m) : m.info[p].time <= lim.time}
      <4>1. upto \subseteq todo
        <5> SUFFICES ASSUME NEW p \in upto PROVE p \in todo
          OBVIOUS
        <5>1. m.info[p].time < lim.time \/ m.info[p].time = lim.time
          BY <1>2, <1>6
        <5> QED BY <1>1, <1>6, <1>7, <3>1, <5>1
      <4>2. Upto(m, lim.time) = Cardinality(upto) /\ upto \in SUBSET Used(m)
        BY DEF Upto
      <4> HIDE DEF upto
      <4>3. Cardinality(upto) <= Cardinality(todo) /\ Cardinality(upto) \in Nat
        BY <1>9, <1>10, <4>1, <4>2, UsedFacts
      <4>4. Cardinality(todo) >= limit
        BY <2>1, <2>4, <4>2, <4>3
      <4> QED BY <2>1, <4>4 DEF MinOf
    <3>2. CASE Cardinality(first) >= lim.last
      <4>1. older \cup first \in SUBSET Used(m) /\ older \cup first \subseteq todo
        BY <1>1, <1>3, <1>8
      <4>2. Cardinality(older \cup first) <= Cardinality(todo)
        BY <1>9, <4>1, UsedFacts
      <4>3. Cardinality(older) \in Nat /\ Cardinality(first) \in Nat
        BY <1>3, <1>8, <1>10, FS_CardinalityType
      <4>4. Cardinality(todo) >= limit
        BY <1>2, <1>12, <2>1, <2>4, <3>2, <4>2, <4>3
      <4> QED BY <2>1, <4>4 DEF MinOf
    <3> QED BY <1>8, <3>1, <3>2
  <2> QED BY <1>2, <2>2, <2>3, <2>4
<1> QED BY <1>9, <1>13, <1>14, <1>15, <1>16 DEF Ordered, Older, todo

LEMMA ScrubStartStep == IInv /\ ScrubStart => IInv'
<1> SUFFICES ASSUME IInv, ScrubStart PROVE IInv'
  OBVIOUS
<1>1. /\ TypeInv /\ saved \in Memory /\ now \in Nat /\ now' = now /\ runs' \in 0 .. MaxRuns
      /\ mem' = saved /\ UNCHANGED <<saved, wrong>>
  <2>1. Run /\ mem' = saved /\ UNCHANGED <<saved, wrong>>
    BY DEF ScrubStart
  <2> QED BY <2>1, ConstantTypes DEF IInv, TypeInv, Run
<1>2. RecentLimit \in 0 .. now
  BY <1>1, InfoAssumption DEF RecentLimit
<1>3. Idle \in Commands /\ Idle.limit = 0
  BY ConstantTypes DEF Idle, Commands
<1>4. Used(saved) \in SUBSET Positions /\ Cardinality(Used(saved)) \in Nat
  BY <1>1, UsedFacts
<1>5. cmd' \in Commands /\ OldestFirst'
  <2>1. CASE \E todo \in FixedPlans(saved) : cmd' = [Idle EXCEPT !.op = "scrub", !.todo = todo]
    <3>1. PICK todo \in FixedPlans(saved) : cmd' = [Idle EXCEPT !.op = "scrub", !.todo = todo]
      BY <2>1
    <3>2. todo \in SUBSET Positions
      BY <1>4 DEF FixedPlans, Bads
    <3>3. cmd' \in Commands /\ cmd'.limit = 0
      BY <1>3, <3>1, <3>2 DEF Commands
    <3> QED BY <3>3 DEF OldestFirst
  <2>2. ASSUME NEW c \in Percents, NEW limit,
               limit = CountLimit(saved, c),
               cmd' = [Idle EXCEPT !.op = "scrub", !.limit = limit + 1,
                                   !.todo = AutoPlan(saved, limit, RecentLimit)]
        PROVE  cmd' \in Commands /\ OldestFirst'
    <3>1. MulDiv(PosMax, c, 10000) \in Nat
      <4>1. PosMax \in Nat /\ c \in Nat
        BY InfoAssumption, SMTT(30)
      <4>2. PosMax * c \in Nat
        BY <4>1
      <4> DEFINE a == PosMax * c
      <4>3. (a + 10000 - 1) \div 10000 \in Nat
        <5> HIDE DEF a
        <5> QED BY <4>2 DEF a
      <4> QED BY <4>3 DEF MulDiv
    <3>2. limit \in Nat
      BY <1>4, <2>2, <3>1 DEF MinOf, CountLimit
    <3> DEFINE todo == AutoPlan(saved, limit, RecentLimit)
    <3>3. todo \in SUBSET Used(saved) /\ Ordered(saved, todo, limit, RecentLimit)
      BY <1>1, <1>2, <3>2, PlanFacts
    <3>4. cmd' = [Idle EXCEPT !.op = "scrub", !.limit = limit + 1, !.todo = todo]
      BY <2>2
    <3> HIDE DEF todo
    <3>5. cmd' \in Commands /\ cmd'.limit = limit + 1 /\ cmd'.todo = todo
      <4>1. todo \in SUBSET Positions /\ limit + 1 \in Nat
        BY <1>4, <3>2, <3>3
      <4>2. cmd'.limit = limit + 1 /\ cmd'.todo = todo
        BY <1>3, <3>4 DEF Commands
      <4>3. cmd' \in Commands
        BY <1>3, <3>4, <4>1 DEF Commands
      <4> QED BY <4>2, <4>3
    <3>6. cmd'.limit - 1 = limit
      BY <3>2, <3>5
    <3>7. RecentLimit' = RecentLimit
      BY <1>1 DEF RecentLimit
    <3>8. Ordered(mem', cmd'.todo, cmd'.limit - 1, RecentLimit')
      BY <1>1, <3>3, <3>5, <3>6, <3>7
    <3>9. OldestFirst'
      BY <3>8 DEF OldestFirst, Ordered, Bads, Used, MinOf
    <3> QED BY <3>5, <3>9
  <2> QED BY <2>1, <2>2 DEF ScrubStart
<1>6. TypeInv'
  BY <1>1, <1>5, MemorySame DEF TypeInv, Commands
<1>7. Known(mem)' /\ Known(saved)'
  BY <1>1 DEF IInv
<1>8. Marked(mem)' /\ Marked(saved)'
  BY <1>1 DEF IInv, Marked, IsBad
<1> QED BY <1>5, <1>6, <1>7, <1>8 DEF IInv

-----------------------------------------------------------------------------
(* The theorems                                                            *)

LEMMA StepIInv == IInv /\ [Next]_vars => IInv'
<1> SUFFICES ASSUME IInv, [Next]_vars PROVE IInv'
  OBVIOUS
<1>1. CASE Next
  BY <1>1, OutsideSteps, RehashStep, SyncStartStep, EndSteps, ScrubStartStep, SkipStep, SyncSteps,
     ScrubSteps DEF Next
<1>2. CASE UNCHANGED vars
  <2>1. TypeInv'
    BY <1>2, MemorySame DEF IInv, TypeInv, vars, Commands
  <2>2. OldestFirst'
    BY <1>2 DEF IInv, OldestFirst, vars, RecentLimit, Bads, Used
  <2>3. wrong \in [Positions -> {"no", "data", "parity"}]
    BY DEF IInv, TypeInv
  <2> QED BY <1>2, <2>1, <2>2, <2>3, QuietStep DEF vars
<1> QED BY <1>1, <1>2

LEMMA Invariant == Spec => []IInv
BY InitIInv, StepIInv, PTL DEF Spec

(* The types: the times are never in the future, the hash kinds are in the *)
(* range of the commands given.                                            *)
THEOREM InfoTypeCorrect == Spec => []TypeOK
<1>1. IInv => TypeOK
  BY DEF IInv, TypeInv, TypeOK, Memory, Block, Commands
<1> QED BY <1>1, Invariant, PTL

(* A hash migration interrupted at any point, by any mix of syncs, scrubs, *)
(* errors and crashes, leaves in the content file hashes of the synced     *)
(* blocks of the kind that its info says, so no good synced block ever     *)
(* looks damaged.  It holds with the blocks not yet synced having hashes   *)
(* of any kind, as the rehash command leaves them.                         *)
THEOREM HashesStayKnown == Spec => []SavedHashesKnown
<1>1. IInv => SavedHashesKnown
  BY DEF IInv, Known, KnownAt, SavedHashesKnown
<1> QED BY <1>1, Invariant, PTL

(* A damage that was reported stays marked as bad until it is repaired.    *)
THEOREM MarksStay == Spec => []BadUntilRepaired
<1>1. IInv => BadUntilRepaired
  BY DEF IInv, Marked, BadUntilRepaired
<1> QED BY <1>1, Invariant, PTL

(* The buckets of state_scrub choose the oldest blocks, no more than the   *)
(* percentage asked, none newer than the age asked, and no fewer than      *)
(* there are, whatever times the blocks have.                              *)
THEOREM OldestAreFirst == Spec => []OldestFirst
<1>1. IInv => OldestFirst
  BY DEF IInv
<1> QED BY <1>1, Invariant, PTL

=============================================================================
