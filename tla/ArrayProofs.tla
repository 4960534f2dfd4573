---------------------------- MODULE ArrayProofs -----------------------------
(***************************************************************************)
(* Proofs about SyncArray and about Recovery, which starts from what it    *)
(* leaves, for any number of disks, levels, positions, files, user changes *)
(* and crashes.                                                            *)
(*                                                                         *)
(* SyncArray: a position not processed since the last save is as it was    *)
(* saved; the vector queued for the parity of a position processed fits    *)
(* both what is saved and what is in memory; and nothing is saved before a *)
(* barrier wrote what is queued.                                           *)
(*                                                                         *)
(* Recovery: what repair_step accepts is a parity block that was there     *)
(* when fix began, as a wrong recovery fails a hash or a spare parity; a   *)
(* file has one position, so what a step of fix writes no later one        *)
(* touches.                                                                *)
(***************************************************************************)
EXTENDS Recovery, FiniteSetTheorems, WellFoundedInduction, TLAPS

-----------------------------------------------------------------------------
(* The inductive invariant                                                 *)

(* What is always true of a state m, in memory or saved: the hashes are    *)
(* data where they are used, a file has one block, a stamp, and an info.   *)
Sound(b) ==
    /\ HasFile(b) <=> b.file # NoName
    /\ HasUpdatedHash(b) => b.hash \in Data

Listed(m) == \A d \in Disks, p \in Positions :
    HasFile(m.blk[d][p]) => m.stamp[d][m.blk[d][p].file] # 0

OneBlock(m) == \A d \in Disks, p, q \in Positions :
    HasFile(m.blk[d][p]) /\ m.blk[d][q].file = m.blk[d][p].file => q = p

InfoSet(m) == \A p \in Positions :
    (\E d \in Disks : m.blk[d][p].st = "BLK") => m.info[p] # "none"

ArrayOk(m) ==
    /\ \A d \in Disks, p \in Positions : Sound(m.blk[d][p])
    /\ Listed(m) /\ OneBlock(m) /\ InfoSet(m)

(* The parity block v is one that the state m promises at position p.      *)
Fits(m, p, v) ==
    (\E d \in Disks : m.blk[d][p].st = "BLK") =>
        /\ v # NoParity
        /\ \A d \in Disks :
             /\ m.blk[d][p].st = "BLK" => v[d] = m.blk[d][p].hash
             /\ m.blk[d][p].st = "EMPTY" => v[d] = Zero

Queued(l, p) == \E i \in 1 .. Len(pending[l]) : pending[l][i].at = p

(* The positions still to process.                                         *)
Ahead == IF pc = "reading" THEN todo \cup {pos} ELSE todo

Idle == {"off", "loaded", "scanned", "opened", "ready", "exit"}
Scanning == {"loaded", "scanned", "opened"}
Syncing == {"reading", "progress", "auto", "autosave", "saved", "final", "finish"}

IdleInv == pc \in Idle =>
    /\ \A l \in Levels : pending[l] = <<>>
    /\ ~werr /\ ~errs /\ ~alert /\ todo = {}

(* Nothing to write means that nothing changed.                            *)
WriteInv ==
    /\ ~needWrite => mem.blk = saved.blk
    /\ pc = "loaded" => mem = saved
    /\ pc \in {"loaded", "ready"} => ~needWrite

(* unsynced_blocks, when it is used, counts the positions to sync.         *)
CountInv == pc \in Scanning \cup {"ready"} /\ ~needWrite => unsynced = Unsynced(mem)

(* The scan makes no block synced or empty.                                *)
ScanInv == pc \in Scanning => \A d \in Disks, p \in Positions :
    mem.blk[d][p].st \in {"BLK", "EMPTY"} => mem.blk[d][p] = saved.blk[d][p]

(* A synced block whose file keeps its stamp stays so in memory.           *)
KeepInv == \A d \in Disks, n \in Names, p \in Positions :
    /\ saved.blk[d][p].st = "BLK" /\ saved.blk[d][p].file = n /\ mem.blk[d][p].file = n
    /\ mem.stamp[d][n] = saved.stamp[d][n]
    => mem.blk[d][p].st = "BLK" /\ mem.blk[d][p].hash = saved.blk[d][p].hash

SavedInv == \A p \in Positions \ cut, l \in Levels :
    Fits(saved, p, parity[l][p]) /\ Fits(saved, p, durable[l][p])

QueueInv == \A l \in Levels : \A i \in 1 .. Len(pending[l]) :
    LET w == pending[l][i] IN Fits(saved, w.at, w.data) /\ Fits(mem, w.at, w.data)

(* Unless a write failed, what memory promises is written or queued.       *)
MemInv == ~werr => \A p \in Positions \ cut, l \in Levels :
    Fits(mem, p, parity[l][p]) \/ Queued(l, p)

ReadInv == pc = "reading" =>
    \A d \in Disks \ toRead : ~HasFile(mem.blk[d][pos]) => buf[d] = Zero /\ res[d] = "ok"

AheadInv ==
    /\ pc = "reading" => pos \notin todo
    /\ \A p \in Ahead :
         /\ \E d \in Disks : HasFile(mem.blk[d][p])
         /\ ForceFull \/ \E d \in Disks : HasInvalidParity(mem.blk[d][p])
         /\ \A d \in Disks : mem.blk[d][p] = saved.blk[d][p]
         /\ \A l \in Levels : ~Queued(l, p)
    /\ Ahead # {} => ForceFull \/ unsynced # 0

(* What is not synced is still to process, unless something went wrong.    *)
EndInv ==
    /\ pc \in Syncing => \A p \in Positions : IsUnsynced(mem, p) => p \in Ahead \/ errs \/ alert
    /\ pc \in {"final", "finish"} => alert \/ todo = {}
    /\ SuccessMeansSynced

Settled == ~werr /\ \A l \in Levels : pending[l] = <<>>

(* The state is saved after a barrier, or when it has no files.            *)
BarrierInv ==
    /\ pc = "autosave" => Settled /\ durable = parity
    /\ pc = "finish" =>
         /\ Settled
         /\ durable = parity \/ \A d \in Disks, p \in Positions : ~HasFile(mem.blk[d][p])

IInv ==
    /\ TypeOK /\ ArrayOk(saved) /\ ArrayOk(mem)
    /\ IdleInv /\ WriteInv /\ CountInv /\ ScanInv /\ KeepInv
    /\ SavedInv /\ QueueInv /\ MemInv
    /\ ReadInv /\ AheadInv /\ EndInv /\ BarrierInv

-----------------------------------------------------------------------------
(* Numbers and positions                                                   *)

LEMMA IndexTypes ==
    /\ Disks # {} /\ 0 \in Positions /\ 0 \in Stamps /\ 1 \in Stamps
    /\ Positions \subseteq Nat /\ Disks \subseteq Nat /\ Levels \subseteq Nat /\ Stamps \subseteq Nat
    /\ 1 \in Disks
BY ArrayAssumption DEF Disks, Positions, Levels, Stamps

LEMMA Least ==
    ASSUME NEW S \in SUBSET Nat, S # {}
    PROVE  \E x \in S : \A y \in S : x <= y
<1>1. PICK x \in S : \A y \in S : <<y, x>> \notin OpToRel(<, Nat)
  BY NatLessThanWellFounded, WFMin
<1>2. \A y \in S : y < x => <<y, x>> \in OpToRel(<, Nat)
  BY DEF OpToRel
<1>3. \A y \in S : x \in Nat /\ y \in Nat /\ ~(y < x)
  BY <1>1, <1>2
<1>4. \A y \in S : x <= y
  BY <1>3
<1> QED BY <1>4

LEMMA Greatest ==
    ASSUME NEW S \in SUBSET Positions, S # {}
    PROVE  \E x \in S : \A y \in S : y <= x
<1> DEFINE R == {PosMax - x : x \in S}
<1>0. PosMax \in Nat /\ \A x \in S : x \in Nat /\ x < PosMax
  BY ArrayAssumption DEF Positions
<1>1. R \in SUBSET Nat /\ R # {}
  BY <1>0
<1> HIDE DEF R
<1>2. PICK r \in R : \A y \in R : r <= y
  BY <1>1, Least
<1>3. PICK x \in S : r = PosMax - x
  BY <1>2 DEF R
<1>4. \A y \in S : PosMax - x <= PosMax - y
  BY <1>2, <1>3 DEF R
<1>5. \A y \in S : y <= x
  BY <1>0, <1>4
<1> QED BY <1>5

(* parity_allocated_size and the like: one more than the last position.    *)
LEMMA BlocksBound ==
    ASSUME NEW P \in SUBSET Positions
    PROVE  /\ Blocks(P) \in 0 .. PosMax
           /\ \A p \in P : p < Blocks(P)
           /\ Blocks(P) = 0 => P = {}
<1>1. CASE P = {}
  BY <1>1, ArrayAssumption DEF Blocks
<1>2. CASE P # {}
  <2> DEFINE m == CHOOSE x \in P : \A y \in P : y <= x
  <2>1. m \in P /\ \A y \in P : y <= m
    BY <1>2, Greatest
  <2>2. Blocks(P) = 1 + m
    BY <1>2 DEF Blocks
  <2> HIDE DEF m
  <2>3. PosMax \in Nat /\ \A x \in P : x \in Nat /\ x < PosMax
    BY ArrayAssumption DEF Positions
  <2> QED BY <2>1, <2>2, <2>3
<1> QED BY <1>1, <1>2

-----------------------------------------------------------------------------
(* The states of the blocks                                                *)

LEMMA StateType ==
    ASSUME NEW m \in State, NEW d \in Disks, NEW p \in Positions
    PROVE  /\ m.blk[d][p] \in Block /\ m.blk[d][p].st \in States
           /\ m.blk[d][p].hash \in Data \cup {Invalid} /\ m.blk[d][p].file \in Names \cup {NoName}
           /\ \A n \in Names : m.stamp[d][n] \in Stamps
           /\ m.info[p] \in {"none", "good", "bad"}
BY DEF State, Block

LEMMA EmptyType == EmptyBlock \in Block /\ Sound(EmptyBlock) /\ ~HasFile(EmptyBlock)
BY DEF EmptyBlock, Block, States, Data, Sound, HasFile, HasUpdatedHash

(* The count of state_read and state_write is zero when all is synced.     *)
LEMMA UnsyncedCount ==
    ASSUME NEW m
    PROVE  /\ Unsynced(m) \in 0 .. PosMax
           /\ Unsynced(m) = 0 <=> \A p \in Positions : ~IsUnsynced(m, p)
<1> DEFINE S == {p \in Positions : IsUnsynced(m, p)}
<1>1. PosMax \in Nat /\ 0 \in Int /\ PosMax - 1 \in Int
  BY ArrayAssumption
<1>2. IsFiniteSet(Positions) /\ Cardinality(Positions) = PosMax
  <2>1. IsFiniteSet(0 .. PosMax - 1)
        /\ Cardinality(0 .. PosMax - 1) = (IF 0 > PosMax - 1 THEN 0 ELSE (PosMax - 1) - 0 + 1)
    BY <1>1, FS_Interval
  <2> QED BY <1>1, <2>1 DEF Positions
<1>3. S \subseteq Positions
  OBVIOUS
<1>4. IsFiniteSet(S) /\ Cardinality(S) <= PosMax
  BY <1>2, <1>3, FS_Subset
<1>5. Cardinality(S) \in Nat /\ (Cardinality(S) = 0 <=> S = {})
  BY <1>4, FS_EmptySet, FS_CardinalityType
<1>6. Unsynced(m) = Cardinality(S)
  BY DEF Unsynced
<1>7. S = {} <=> \A p \in Positions : ~IsUnsynced(m, p)
  OBVIOUS
<1> HIDE DEF S
<1> QED BY <1>1, <1>4, <1>5, <1>6, <1>7

LEMMA UnsyncedSame ==
    ASSUME NEW m, NEW k, m.blk = k.blk
    PROVE  Unsynced(m) = Unsynced(k)
BY DEF Unsynced, IsUnsynced

(* What state_write_content leaves is a sound state, with the same blocks  *)
(* to sync, that asks nothing more of the parity.                          *)
LEMMA CleanedBlocks ==
    ASSUME NEW m \in State
    PROVE  /\ Cleaned(m) \in State
           /\ Cleaned(m).stamp = m.stamp
           /\ \A d \in Disks, p \in Positions :
                Cleaned(m).blk[d][p] =
                  IF m.blk[d][p].st = "DELETED" /\ ~\E e \in Disks : HasFile(m.blk[e][p])
                  THEN EmptyBlock ELSE m.blk[d][p]
           /\ \A p \in Positions :
                (\E e \in Disks : HasFile(m.blk[e][p])) => Cleaned(m).info[p] = m.info[p]
<1> DEFINE required(p) == \E d \in Disks : HasFile(m.blk[d][p])
           blk == [d \in Disks |-> [p \in Positions |->
                     IF m.blk[d][p].st = "DELETED" /\ ~required(p)
                     THEN EmptyBlock ELSE m.blk[d][p]]]
           info == [p \in Positions |-> IF required(p) THEN m.info[p] ELSE "none"]
<1>1. Cleaned(m) = [m EXCEPT !.blk = blk, !.info = info]
  BY DEF Cleaned
<1>2. \A d \in Disks, p \in Positions : blk[d][p] \in Block
  BY StateType, EmptyType
<1>3. \A p \in Positions : info[p] \in {"none", "good", "bad"}
  <2> SUFFICES ASSUME NEW p \in Positions PROVE info[p] \in {"none", "good", "bad"}
    OBVIOUS
  <2>1. m.info[p] \in {"none", "good", "bad"}
    BY DEF State
  <2> QED BY <2>1
<1>4. blk \in [Disks -> [Positions -> Block]] /\ info \in [Positions -> {"none", "good", "bad"}]
  BY <1>2, <1>3
<1> HIDE DEF required, blk, info
<1>5. /\ Cleaned(m).blk = blk /\ Cleaned(m).stamp = m.stamp /\ Cleaned(m).info = info
      /\ Cleaned(m) \in State
  BY <1>1, <1>4 DEF State
<1>6. \A p \in Positions : required(p) => Cleaned(m).info[p] = m.info[p]
  BY <1>5 DEF info
<1>7. \A d \in Disks, p \in Positions :
        Cleaned(m).blk[d][p] = IF m.blk[d][p].st = "DELETED" /\ ~required(p)
                               THEN EmptyBlock ELSE m.blk[d][p]
  BY <1>5 DEF blk
<1> QED BY <1>5, <1>6, <1>7 DEF required

LEMMA CleanedOk ==
    ASSUME NEW m \in State, ArrayOk(m)
    PROVE  /\ ArrayOk(Cleaned(m))
           /\ Unsynced(Cleaned(m)) = Unsynced(m)
           /\ \A p \in Positions : IsUnsynced(Cleaned(m), p) <=> IsUnsynced(m, p)
           /\ \A p \in Positions : \A v : Fits(Cleaned(m), p, v) <=> Fits(m, p, v)
           /\ \A d \in Disks, p \in Positions :
                HasFile(Cleaned(m).blk[d][p]) <=> HasFile(m.blk[d][p])
<1> DEFINE k == Cleaned(m)
<1>1. /\ k \in State /\ k.stamp = m.stamp
      /\ \A d \in Disks, p \in Positions :
           \/ k.blk[d][p] = m.blk[d][p]
           \/ /\ k.blk[d][p] = EmptyBlock /\ m.blk[d][p].st = "DELETED"
              /\ \A e \in Disks : ~HasFile(m.blk[e][p])
      /\ \A p \in Positions :
           (\E e \in Disks : HasFile(m.blk[e][p])) => k.info[p] = m.info[p]
  BY CleanedBlocks
<1> HIDE DEF k
<1>2. \A d \in Disks, p \in Positions : HasFile(k.blk[d][p]) <=> HasFile(m.blk[d][p])
  BY <1>1, EmptyType DEF HasFile
<1>3. \A d \in Disks, p \in Positions : HasFile(k.blk[d][p]) => k.blk[d][p] = m.blk[d][p]
  BY <1>1, EmptyType
<1>4. \A d \in Disks, p \in Positions : k.blk[d][p].st = "BLK" <=> m.blk[d][p].st = "BLK"
  BY <1>2, <1>3 DEF HasFile
<1>5. \A d \in Disks, p \in Positions : Sound(k.blk[d][p])
  BY <1>1, EmptyType DEF ArrayOk
<1>6. Listed(k)
  BY <1>1, <1>2, <1>3 DEF ArrayOk, Listed
<1>7. OneBlock(k)
  <2> SUFFICES ASSUME NEW d \in Disks, NEW p \in Positions, NEW q \in Positions,
                      HasFile(k.blk[d][p]), k.blk[d][q].file = k.blk[d][p].file
               PROVE  q = p
    BY DEF OneBlock
  <2>1. k.blk[d][p].file # NoName
    BY <1>5 DEF Sound
  <2>2. HasFile(k.blk[d][q])
    BY <1>5, <2>1 DEF Sound
  <2>3. k.blk[d][p] = m.blk[d][p] /\ k.blk[d][q] = m.blk[d][q] /\ HasFile(m.blk[d][p])
    BY <1>2, <1>3, <2>2
  <2> QED BY <2>3 DEF ArrayOk, OneBlock
<1>8. InfoSet(k)
  BY <1>1, <1>4 DEF ArrayOk, InfoSet, HasFile
<1>9. \A p \in Positions : IsUnsynced(k, p) <=> IsUnsynced(m, p)
  BY <1>1, <1>2 DEF IsUnsynced
<1>10. {p \in Positions : IsUnsynced(k, p)} = {p \in Positions : IsUnsynced(m, p)}
  BY <1>9
<1>11. \A p \in Positions : \A v : Fits(k, p, v) <=> Fits(m, p, v)
  <2> SUFFICES ASSUME NEW p \in Positions, NEW v PROVE Fits(k, p, v) <=> Fits(m, p, v)
    OBVIOUS
  <2>1. CASE \E d \in Disks : m.blk[d][p].st = "BLK"
    <3>1. \A d \in Disks : k.blk[d][p] = m.blk[d][p]
      BY <1>1, <2>1 DEF HasFile
    <3> QED BY <3>1 DEF Fits
  <2>2. CASE ~\E d \in Disks : m.blk[d][p].st = "BLK"
    BY <1>4, <2>2 DEF Fits
  <2> QED BY <2>1, <2>2
<1> QED BY <1>2, <1>5, <1>6, <1>7, <1>8, <1>9, <1>10, <1>11 DEF ArrayOk, Unsynced, k

-----------------------------------------------------------------------------
(* The initial states, and the end of a process                            *)

LEMMA InitIInv == Init => IInv
<1> SUFFICES ASSUME Init PROVE IInv
  OBVIOUS
<1> DEFINE at(D, d, p) == d \in D /\ p = 0
           vector(D, v, p) == IF p = 0 /\ D # {} THEN [d \in Disks |-> IF d \in D THEN v ELSE Zero]
                              ELSE NoParity
<1>1. PICK n \in Names, v \in Values, D \in SUBSET Disks :
        /\ live = [d \in Disks |-> [m \in Names |->
                     IF m = n /\ d \in D THEN [data |-> v, stamp |-> 1] ELSE NoFile]]
        /\ saved = [blk |-> [d \in Disks |-> [p \in Positions |->
                      IF at(D, d, p) THEN [st |-> "BLK", hash |-> v, file |-> n] ELSE EmptyBlock]],
                    stamp |-> [d \in Disks |-> [m \in Names |->
                      IF m = n /\ d \in D THEN 1 ELSE 0]],
                    info |-> [p \in Positions |-> IF p = 0 /\ D # {} THEN "good" ELSE "none"]]
        /\ parity = [l \in Levels |-> [p \in Positions |-> vector(D, v, p)]]
        /\ durable = parity /\ cut = {}
        /\ ops = 0 /\ crashes = 0
        /\ pc = "off" /\ mem = saved /\ needWrite = FALSE /\ unsynced = 0
        /\ todo = {} /\ pos = 0 /\ toRead = {}
        /\ buf = [d \in Disks |-> Zero] /\ res = [d \in Disks |-> "ok"]
        /\ pending = [l \in Levels |-> <<>>]
        /\ werr = FALSE /\ errs = FALSE /\ alert = FALSE /\ found = {}
  BY DEF Init
<1>2. \A d \in Disks, p \in Positions :
        /\ saved.blk[d][p] = IF d \in D /\ p = 0 THEN [st |-> "BLK", hash |-> v, file |-> n]
                             ELSE EmptyBlock
        /\ saved.info[p] = IF p = 0 /\ D # {} THEN "good" ELSE "none"
        /\ \A m \in Names : saved.stamp[d][m] = IF m = n /\ d \in D THEN 1 ELSE 0
  BY <1>1
<1>3. [st |-> "BLK", hash |-> v, file |-> n] \in Block /\ n # NoName /\ v \in Data
  BY ArrayAssumption DEF Block, States, Data
<1>4. saved \in State
  <2>1. saved.blk \in [Disks -> [Positions -> Block]]
    BY <1>1, <1>3, EmptyType
  <2>2. saved.stamp \in [Disks -> [Names -> Stamps]]
    BY <1>1, IndexTypes
  <2>3. saved.info \in [Positions -> {"none", "good", "bad"}]
    BY <1>1
  <2> QED BY <1>1, <2>1, <2>2, <2>3 DEF State
<1>5. \A l \in Levels, p \in Positions : parity[l][p] = vector(D, v, p)
  BY <1>1
<1>6. parity \in [Levels -> ParityFile]
  <2>1. \A p \in Positions : vector(D, v, p) \in Vectors \cup {NoParity}
    BY <1>3 DEF Vectors, Data
  <2>2. [p \in Positions |-> vector(D, v, p)] \in ParityFile
    BY <2>1 DEF ParityFile
  <2> QED BY <1>1, <2>2
<1>7. TypeOK
  <2>1. live \in [Disks -> [Names -> [data : Data, stamp : Stamps]]]
    BY <1>1, <1>3, IndexTypes DEF NoFile, Data
  <2>2. ops \in 0 .. MaxOps /\ crashes \in 0 .. MaxCrash /\ unsynced \in 0 .. PosMax
    BY <1>1, ArrayAssumption
  <2>3. buf \in [Disks -> Data] /\ res \in [Disks -> {"ok", "changed", "io"}]
    BY <1>1 DEF Data
  <2>4. pending \in [Levels -> Seq([at : Positions, data : Vectors])]
    BY <1>1
  <2> QED BY <1>1, <1>4, <1>6, <2>1, <2>2, <2>3, <2>4, IndexTypes DEF TypeOK, Pcs
<1>8. ArrayOk(saved)
  <2>1. \A d \in Disks, p \in Positions : Sound(saved.blk[d][p])
    BY <1>2, <1>3, EmptyType DEF Sound, HasFile, HasUpdatedHash
  <2>2. \A d \in Disks, p \in Positions :
          /\ HasFile(saved.blk[d][p]) <=> (d \in D /\ p = 0)
          /\ saved.blk[d][p].file = IF d \in D /\ p = 0 THEN n ELSE NoName
    BY <1>2 DEF HasFile, EmptyBlock
  <2>3. Listed(saved) /\ OneBlock(saved)
    BY <1>2, <1>3, <2>2 DEF Listed, OneBlock
  <2>4. InfoSet(saved)
    BY <1>2, <2>2 DEF InfoSet, HasFile
  <2> QED BY <2>1, <2>3, <2>4 DEF ArrayOk
<1>9. SavedInv
  <2> SUFFICES ASSUME NEW p \in Positions, NEW l \in Levels PROVE Fits(saved, p, parity[l][p])
    BY <1>1 DEF SavedInv
  <2>1. CASE p = 0 /\ D # {}
    <3>1. parity[l][p] = [d \in Disks |-> IF d \in D THEN v ELSE Zero]
      BY <1>5, <2>1
    <3>2. parity[l][p] \in Vectors
      BY <1>3, <3>1 DEF Vectors, Data
    <3> QED BY <1>2, <2>1, <3>1, <3>2, ArrayAssumption DEF Fits, EmptyBlock
  <2>2. CASE ~(p = 0 /\ D # {})
    BY <1>2, <2>2 DEF Fits, EmptyBlock
  <2> QED BY <2>1, <2>2
<1>10. IdleInv /\ WriteInv /\ CountInv /\ ScanInv /\ KeepInv
  BY <1>1 DEF IdleInv, WriteInv, CountInv, Scanning, ScanInv, KeepInv
<1>11. QueueInv /\ MemInv /\ ReadInv
  <2>1. MemInv
    BY <1>1, <1>9 DEF MemInv, SavedInv
  <2>2. \A l \in Levels : Len(pending[l]) = 0
    BY <1>1
  <2>3. QueueInv
    BY <2>2 DEF QueueInv
  <2> QED BY <1>1, <2>1, <2>3 DEF ReadInv
<1>12. AheadInv /\ EndInv /\ BarrierInv
  BY <1>1 DEF AheadInv, Ahead, EndInv, Syncing, SuccessMeansSynced, BarrierInv
<1> QED BY <1>1, <1>7, <1>8, <1>9, <1>10, <1>11, <1>12 DEF IInv

LEMMA GoneIInv ==
    ASSUME IInv, Gone, UNCHANGED <<userVars, savedVars>>, crashes' \in 0 .. MaxCrash,
           parity' \in [Levels -> ParityFile], durable' \in [Levels -> ParityFile],
           SavedInv'
    PROVE  IInv'
<1>1. /\ pc' = "off" /\ mem' = saved /\ saved' = saved /\ cut' = cut
      /\ needWrite' = FALSE /\ unsynced' = 0
      /\ todo' = {} /\ pos' = 0 /\ toRead' = {}
      /\ pending' = [l \in Levels |-> <<>>]
      /\ werr' = FALSE /\ errs' = FALSE /\ alert' = FALSE /\ found' = {}
  BY DEF Gone, savedVars
<1>2. TypeOK'
  <2>1. buf' \in [Disks -> Data] /\ res' \in [Disks -> {"ok", "changed", "io"}]
    BY DEF Gone, Data
  <2>2. pending' \in [Levels -> Seq([at : Positions, data : Vectors])]
    BY <1>1
  <2>3. unsynced' \in 0 .. PosMax /\ pos' \in Positions
    BY <1>1, ArrayAssumption, IndexTypes
  <2> QED BY <1>1, <2>1, <2>2, <2>3 DEF IInv, TypeOK, userVars, Pcs
<1>3. ArrayOk(saved)' /\ ArrayOk(mem)'
  BY <1>1 DEF IInv, ArrayOk, Listed, OneBlock, InfoSet
<1>4. IdleInv' /\ WriteInv' /\ CountInv' /\ ScanInv' /\ KeepInv'
  BY <1>1 DEF IdleInv, WriteInv, CountInv, Scanning, ScanInv, KeepInv
<1>5. QueueInv' /\ MemInv' /\ ReadInv'
  <2>1. MemInv'
    BY <1>1 DEF MemInv, SavedInv, Fits
  <2> QED BY <1>1, <2>1 DEF QueueInv, ReadInv
<1>6. AheadInv' /\ EndInv' /\ BarrierInv'
  BY <1>1 DEF AheadInv, Ahead, EndInv, Syncing, SuccessMeansSynced, BarrierInv
<1> QED BY <1>2, <1>3, <1>4, <1>5, <1>6 DEF IInv

LEMMA ExitStep == IInv /\ (Exit \/ Kill) => IInv'
<1> SUFFICES ASSUME IInv, Exit \/ Kill PROVE IInv'
  OBVIOUS
<1>1. Gone /\ UNCHANGED <<userVars, savedVars, parity, durable>>
  BY DEF Exit, Kill
<1>2. crashes' \in 0 .. MaxCrash
  BY ArrayAssumption DEF Exit, Kill, IInv, TypeOK
<1>3. SavedInv'
  BY <1>1 DEF IInv, SavedInv, savedVars, Fits
<1> QED BY <1>1, <1>2, <1>3, GoneIInv DEF IInv, TypeOK

(* Each block of the parity is the one before the power loss or the one    *)
(* durable then, and both fit what is saved.                               *)
LEMMA PowerLossStep == IInv /\ PowerLoss => IInv'
<1> SUFFICES ASSUME IInv, PowerLoss PROVE IInv'
  OBVIOUS
<1>1. PICK kept \in SUBSET (Levels \X Positions) :
        parity' = [l \in Levels |-> [p \in Positions |->
                     IF <<l, p>> \in kept THEN parity[l][p] ELSE durable[l][p]]]
  BY DEF PowerLoss
<1>2. Gone /\ UNCHANGED <<userVars, savedVars>> /\ durable' = parity' /\ crashes' \in 0 .. MaxCrash
  BY ArrayAssumption DEF PowerLoss, IInv, TypeOK
<1>3. \A l \in Levels, p \in Positions :
        parity'[l][p] = parity[l][p] \/ parity'[l][p] = durable[l][p]
  BY <1>1
<1>4. parity' \in [Levels -> ParityFile]
  <2>1. \A l \in Levels, p \in Positions :
          parity[l][p] \in Vectors \cup {NoParity} /\ durable[l][p] \in Vectors \cup {NoParity}
    BY DEF IInv, TypeOK, ParityFile
  <2> QED BY <1>1, <2>1 DEF ParityFile
<1>5. SavedInv'
  <2>1. \A p \in Positions \ cut, l \in Levels : Fits(saved, p, parity'[l][p])
    <3> SUFFICES ASSUME NEW p \in Positions \ cut, NEW l \in Levels
                 PROVE  Fits(saved, p, parity'[l][p])
      OBVIOUS
    <3>1. Fits(saved, p, parity[l][p]) /\ Fits(saved, p, durable[l][p])
      BY DEF IInv, SavedInv
    <3>2. parity'[l][p] = parity[l][p] \/ parity'[l][p] = durable[l][p]
      BY <1>3
    <3> QED BY <3>1, <3>2
  <2> QED BY <1>2, <2>1 DEF SavedInv, savedVars, Fits
<1> QED BY <1>2, <1>4, <1>5, GoneIInv

-----------------------------------------------------------------------------
(* The steps that leave the blocks alone                                   *)

LEMMA QueueFrame ==
    ASSUME QueueInv, UNCHANGED <<saved, mem, pending>>
    PROVE  QueueInv'
<1> SUFFICES ASSUME NEW l \in Levels, NEW i \in 1 .. Len(pending[l])
             PROVE  /\ Fits(saved, pending[l][i].at, pending[l][i].data)'
                    /\ Fits(mem, pending[l][i].at, pending[l][i].data)'
  BY DEF QueueInv
<1>1. /\ Fits(saved, pending[l][i].at, pending[l][i].data)
      /\ Fits(mem, pending[l][i].at, pending[l][i].data)
  BY DEF QueueInv
<1> QED BY <1>1 DEF Fits

(* The invariant but for the types is not about the files of the user.     *)
LEMMA FrameIInv ==
    ASSUME IInv, TypeOK',
           UNCHANGED <<diskVars, pc, memVars, todo, readVars, pending, errorVars>>
    PROVE  IInv'
<1> USE DEF diskVars, savedVars, memVars, readVars, errorVars
<1>1. ArrayOk(saved)' /\ ArrayOk(mem)'
  BY DEF IInv, ArrayOk, Listed, OneBlock, InfoSet
<1>2. IdleInv' /\ WriteInv' /\ ScanInv' /\ KeepInv'
  BY DEF IInv, IdleInv, WriteInv, ScanInv, KeepInv
<1>3. CountInv'
  BY DEF IInv, CountInv
<1>4. SavedInv' /\ QueueInv'
  <2>1. SavedInv'
    BY DEF IInv, SavedInv, Fits
  <2>2. QueueInv'
    BY QueueFrame DEF IInv
  <2> QED BY <2>1, <2>2
<1>5. MemInv'
  BY DEF IInv, MemInv, Queued, Fits
<1>6. ReadInv' /\ AheadInv'
  BY DEF IInv, ReadInv, AheadInv, Ahead, Queued
<1>7. EndInv' /\ BarrierInv'
  BY DEF IInv, EndInv, Ahead, SuccessMeansSynced, BarrierInv, Settled
<1> QED BY <1>1, <1>2, <1>3, <1>4, <1>5, <1>6, <1>7 DEF IInv

LEMMA UserTypes ==
    ASSUME IInv, NEW d \in Disks, NEW n \in Names, NEW file \in [data : Data, stamp : Stamps],
           UserStep(d, n, file)
    PROVE  IInv'
<1>1. live' \in [Disks -> [Names -> [data : Data, stamp : Stamps]]]
  BY DEF UserStep, IInv, TypeOK
<1>2. ops' \in 0 .. MaxOps
  BY ArrayAssumption DEF UserStep, IInv, TypeOK
<1>3. TypeOK'
  BY <1>1, <1>2 DEF UserStep, IInv, TypeOK, diskVars, savedVars, memVars, readVars, errorVars
<1> QED BY <1>3, FrameIInv DEF UserStep

LEMMA UserSteps == IInv /\ User => IInv'
<1> SUFFICES ASSUME IInv, NEW d \in Disks, NEW n \in Names,
                    UserWrite(d, n) \/ UserDelete(d, n) \/ UserCopy(d, n) \/ SilentError(d, n)
             PROVE  IInv'
  BY DEF User
<1>1. ops \in Nat /\ MaxOps \in Nat
  BY ArrayAssumption DEF IInv, TypeOK
<1>2. \A v \in Values, s \in Stamps :
        [data |-> v, stamp |-> s] \in [data : Data, stamp : Stamps]
  BY DEF Data
<1>3. \A e \in Disks, m \in Names : live[e][m].stamp \in Stamps
  BY DEF IInv, TypeOK
<1>4. CASE UserWrite(d, n)
  <2>1. PICK v \in Values : UserStep(d, n, [data |-> v, stamp |-> ops + 2])
    BY <1>4 DEF UserWrite
  <2>2. ops + 2 \in Stamps
    BY <1>1, <2>1 DEF UserStep, Stamps
  <2> QED BY <1>2, <2>1, <2>2, UserTypes
<1>5. CASE UserDelete(d, n)
  <2>1. NoFile \in [data : Data, stamp : Stamps]
    BY IndexTypes DEF NoFile, Data
  <2> QED BY <1>5, <2>1, UserTypes DEF UserDelete
<1>6. CASE UserCopy(d, n)
  <2>1. PICK e \in Disks, v \in Values :
          UserStep(d, n, [data |-> v, stamp |-> live[e][n].stamp])
    BY <1>6 DEF UserCopy
  <2> QED BY <1>2, <1>3, <2>1, UserTypes
<1>7. CASE SilentError(d, n)
  <2>1. PICK v \in Values : UserStep(d, n, [data |-> v, stamp |-> live[d][n].stamp])
    BY <1>7 DEF SilentError
  <2> QED BY <1>2, <1>3, <2>1, UserTypes
<1> QED BY <1>4, <1>5, <1>6, <1>7

LEMMA LoadStep == IInv /\ Load => IInv'
<1> SUFFICES ASSUME IInv, Load PROVE IInv'
  OBVIOUS
<1> USE DEF diskVars, savedVars, readVars, errorVars
<1>1. /\ pc = "off" /\ pc' = "loaded" /\ mem' = saved /\ saved' = saved /\ cut' = cut
      /\ needWrite' = FALSE /\ unsynced' = Unsynced(saved) /\ todo' = todo
      /\ parity' = parity /\ durable' = durable /\ pending' = pending /\ werr' = werr
  BY DEF Load
<1>2. TypeOK'
  BY <1>1, UnsyncedCount DEF Load, IInv, TypeOK, Pcs, userVars
<1>3. ArrayOk(saved)' /\ ArrayOk(mem)'
  BY <1>1 DEF IInv, ArrayOk, Listed, OneBlock, InfoSet
<1>4. (\A l \in Levels : pending[l] = <<>>) /\ todo = {} /\ ~werr /\ ~errs /\ ~alert
  BY <1>1 DEF IInv, IdleInv, Idle
<1>5. IdleInv' /\ WriteInv' /\ CountInv' /\ ScanInv' /\ KeepInv'
  BY <1>1, <1>4 DEF Load, IdleInv, WriteInv, CountInv, ScanInv, KeepInv
<1>6. SavedInv'
  BY <1>1 DEF IInv, SavedInv, Fits
<1>7. MemInv'
  BY <1>1 DEF IInv, SavedInv, MemInv, Fits
<1>8. QueueInv' /\ ReadInv'
  <2>1. \A l \in Levels : Len(pending'[l]) = 0
    BY <1>1, <1>4
  <2>2. QueueInv'
    BY <2>1 DEF QueueInv
  <2> QED BY <1>1, <2>2 DEF ReadInv
<1>9. AheadInv' /\ EndInv' /\ BarrierInv'
  BY <1>1, <1>4 DEF AheadInv, Ahead, EndInv, Syncing, SuccessMeansSynced, BarrierInv
<1> QED BY <1>2, <1>3, <1>5, <1>6, <1>7, <1>8, <1>9 DEF IInv

(* A step that only changes the phase, to one that is not checked.         *)
LEMMA PhaseIInv ==
    ASSUME IInv, TypeOK', UNCHANGED <<diskVars, memVars, todo, readVars, pending>>,
           werr' = werr, pc = "reading" => toRead = {},
           \/ pc' \in {"bail", "failed"}
           \/ /\ pc \in {"loaded", "scanned"} /\ pc' \in {"opened", "exit"}
              /\ errs' = errs /\ alert' = alert
    PROVE  IInv'
<1> USE DEF diskVars, savedVars, memVars, readVars
<1>1. ArrayOk(saved)' /\ ArrayOk(mem)'
  BY DEF IInv, ArrayOk, Listed, OneBlock, InfoSet
<1>2. IdleInv' /\ WriteInv' /\ ScanInv' /\ KeepInv'
  BY DEF IInv, IdleInv, Idle, WriteInv, ScanInv, Scanning, KeepInv
<1>3. CountInv'
  BY DEF IInv, CountInv, Scanning
<1>4. SavedInv' /\ QueueInv'
  <2>1. SavedInv'
    BY DEF IInv, SavedInv, Fits
  <2>2. QueueInv'
    BY QueueFrame DEF IInv
  <2> QED BY <2>1, <2>2
<1>5. MemInv'
  BY DEF IInv, MemInv, Queued, Fits
<1>6. ReadInv' /\ AheadInv'
  BY DEF IInv, ReadInv, AheadInv, Ahead, Queued
<1>7. EndInv' /\ BarrierInv'
  BY DEF IInv, EndInv, Syncing, SuccessMeansSynced, BarrierInv
<1> QED BY <1>1, <1>2, <1>3, <1>4, <1>5, <1>6, <1>7 DEF IInv

LEMMA PhaseSteps == IInv /\ (OpenParity \/ GiveUp \/ Bail) => IInv'
<1> SUFFICES ASSUME IInv, OpenParity \/ GiveUp \/ Bail PROVE IInv'
  OBVIOUS
<1>1. TypeOK'
  BY DEF OpenParity, GiveUp, Bail, IInv, TypeOK, Pcs, userVars, diskVars, savedVars, memVars,
         readVars, errorVars
<1>2. UNCHANGED <<diskVars, memVars, todo, readVars, pending>> /\ werr' = werr
  BY DEF OpenParity, GiveUp, Bail, errorVars
<1>3. pc = "reading" => toRead = {}
  BY DEF OpenParity, GiveUp, Bail
<1>4. \/ pc' \in {"bail", "failed"}
      \/ pc = "scanned" /\ pc' \in {"opened", "exit"} /\ errs' = errs /\ alert' = alert
  BY DEF OpenParity, GiveUp, Bail, errorVars
<1> QED BY <1>1, <1>2, <1>3, <1>4, PhaseIInv

-----------------------------------------------------------------------------
(* The size of the parity                                                  *)

LEMMA FitsAny ==
    ASSUME NEW m, NEW p, NEW v, Fits(m, p, NoParity)
    PROVE  Fits(m, p, v)
BY DEF Fits

(* Out of what is cut a level changes only where it had no block, and then *)
(* nothing was promised there.                                             *)
LEMMA ResizeStep == IInv /\ (\E l \in Levels : Resize(l)) => IInv'
<1> SUFFICES ASSUME IInv, NEW l \in Levels, Resize(l) PROVE IInv'
  OBVIOUS
<1> USE DEF readVars, errorVars
<1>1. /\ pc = "opened" /\ pc' = pc /\ mem' = mem /\ saved' = saved /\ durable' = durable
      /\ needWrite' = TRUE /\ pending' = pending /\ todo' = todo /\ werr' = werr
      /\ cut' = cut \cup {p \in Positions : p >= AllocatedSize /\ parity[l][p] # NoParity}
      /\ parity' = [parity EXCEPT ![l] = [p \in Positions |->
                      IF p >= AllocatedSize THEN NoParity
                      ELSE IF @[p] = NoParity THEN [d \in Disks |-> Zero] ELSE @[p]]]
  BY DEF Resize
<1>2. TypeOK /\ SavedInv /\ MemInv
  BY DEF IInv
<1>3. \A k \in Levels, p \in Positions :
        parity'[k][p] = IF k # l THEN parity[k][p]
                        ELSE IF p >= AllocatedSize THEN NoParity
                        ELSE IF parity[l][p] = NoParity THEN [d \in Disks |-> Zero]
                        ELSE parity[l][p]
  BY <1>1, <1>2 DEF TypeOK, ParityFile
<1>4. parity' \in [Levels -> ParityFile]
  <2>1. [d \in Disks |-> Zero] \in Vectors
    BY DEF Vectors, Data
  <2>2. \A p \in Positions : parity[l][p] \in Vectors \cup {NoParity}
    BY <1>2 DEF TypeOK, ParityFile
  <2>3. [p \in Positions |-> IF p >= AllocatedSize THEN NoParity
           ELSE IF parity[l][p] = NoParity THEN [d \in Disks |-> Zero] ELSE parity[l][p]]
        \in ParityFile
    BY <2>1, <2>2 DEF ParityFile
  <2> QED BY <1>1, <1>2, <2>3 DEF TypeOK
<1>5. TypeOK'
  BY <1>1, <1>2, <1>4 DEF Resize, TypeOK, userVars
<1>6. \A k \in Levels, p \in Positions \ cut' :
        p \in Positions \ cut /\ (parity'[k][p] = parity[k][p] \/ parity[k][p] = NoParity)
  BY <1>1, <1>3
<1>7. SavedInv'
  <2> SUFFICES ASSUME NEW p \in Positions \ cut', NEW k \in Levels
               PROVE  Fits(saved, p, parity'[k][p]) /\ Fits(saved, p, durable[k][p])
    BY <1>1 DEF SavedInv, Fits
  <2>1. Fits(saved, p, parity[k][p]) /\ Fits(saved, p, durable[k][p])
    BY <1>2, <1>6 DEF SavedInv
  <2> QED BY <1>6, <2>1, FitsAny
<1>8. (\A k \in Levels : pending[k] = <<>>) /\ todo = {} /\ ~werr /\ ~errs /\ ~alert
  BY <1>1 DEF IInv, IdleInv, Idle
<1>9. MemInv'
  <2> SUFFICES ASSUME NEW p \in Positions \ cut', NEW k \in Levels
               PROVE  Fits(mem, p, parity'[k][p])
    BY <1>1 DEF MemInv, Fits
  <2>1. ~Queued(k, p)
    BY <1>8 DEF Queued
  <2>2. Fits(mem, p, parity[k][p])
    BY <1>2, <1>6, <1>8, <2>1 DEF MemInv
  <2> QED BY <1>6, <2>2, FitsAny
<1>10. ArrayOk(saved)' /\ ArrayOk(mem)'
  BY <1>1 DEF IInv, ArrayOk, Listed, OneBlock, InfoSet
<1>11. IdleInv' /\ WriteInv' /\ CountInv' /\ ScanInv' /\ KeepInv'
  BY <1>1, <1>8 DEF Resize, IInv, IdleInv, WriteInv, CountInv, ScanInv, KeepInv
<1>12. QueueInv' /\ ReadInv'
  BY <1>1, <1>8 DEF QueueInv, ReadInv
<1>13. AheadInv' /\ EndInv' /\ BarrierInv'
  BY <1>1, <1>8 DEF AheadInv, Ahead, EndInv, Syncing, SuccessMeansSynced, BarrierInv
<1> QED BY <1>5, <1>7, <1>9, <1>10, <1>11, <1>12, <1>13 DEF IInv

-----------------------------------------------------------------------------
(* Saving                                                                  *)

LEMMA SettledMem ==
    ASSUME IInv, Settled, NEW p \in Positions \ cut, NEW l \in Levels
    PROVE  Fits(mem, p, parity[l][p])
<1>1. ~Queued(l, p)
  BY DEF Settled, Queued
<1> QED BY <1>1 DEF IInv, MemInv, Settled

(* The scan asks nothing more of the parity.                               *)
LEMMA ScanFits ==
    ASSUME IInv, pc \in Scanning, NEW p \in Positions, NEW v, Fits(saved, p, v)
    PROVE  Fits(mem, p, v)
BY DEF IInv, ScanInv, Fits

(* What is saved is in memory, and fits a parity that memory fits.         *)
LEMMA SaveParts ==
    ASSUME IInv, StateWrite, Settled, UNCHANGED <<parity, durable, pending, werr, todo>>,
           pc' # "loaded",
           \A p \in Positions \ cut, l \in Levels : Fits(mem, p, durable[l][p])
    PROVE  /\ saved' = mem' /\ mem' \in State /\ needWrite' = FALSE /\ cut' \subseteq Positions
           /\ unsynced' \in 0 .. PosMax /\ unsynced' = Unsynced(mem)'
           /\ ArrayOk(saved)' /\ ArrayOk(mem)' /\ WriteInv' /\ CountInv' /\ ScanInv' /\ KeepInv'
           /\ SavedInv' /\ QueueInv' /\ MemInv'
<1>1. mem \in State /\ ArrayOk(mem) /\ cut \subseteq Positions
  BY DEF IInv, TypeOK
<1>2. /\ saved' = mem' /\ mem' = Cleaned(mem) /\ unsynced' = Unsynced(mem) /\ needWrite' = FALSE
      /\ cut' = {p \in cut : \E d \in Disks : mem.blk[d][p].st = "BLK"}
  BY DEF StateWrite
<1>3. /\ mem' \in State /\ ArrayOk(mem') /\ Unsynced(mem') = Unsynced(mem)
      /\ \A p \in Positions : \A v : Fits(mem', p, v) <=> Fits(mem, p, v)
  BY <1>1, <1>2, CleanedBlocks, CleanedOk
<1>4. unsynced' \in 0 .. PosMax
  BY <1>2, UnsyncedCount
<1>5. ArrayOk(saved)' /\ ArrayOk(mem)'
  BY <1>2, <1>3 DEF ArrayOk, Listed, OneBlock, InfoSet
<1>6. WriteInv' /\ ScanInv' /\ KeepInv'
  BY <1>2 DEF WriteInv, ScanInv, KeepInv, IInv
<1>7. unsynced' = Unsynced(mem)' /\ CountInv'
  BY <1>2, <1>3 DEF CountInv
<1>8. \A p \in Positions \ cut', l \in Levels :
        Fits(mem, p, parity[l][p]) /\ Fits(mem, p, durable[l][p])
  <2> SUFFICES ASSUME NEW p \in Positions \ cut', NEW l \in Levels
               PROVE  Fits(mem, p, parity[l][p]) /\ Fits(mem, p, durable[l][p])
    OBVIOUS
  <2>1. CASE p \in cut
    BY <1>2, <2>1 DEF Fits
  <2>2. CASE p \notin cut
    BY <2>2, SettledMem
  <2> QED BY <2>1, <2>2
<1>9. \A p \in Positions \ cut', l \in Levels :
        Fits(mem', p, parity'[l][p]) /\ Fits(mem', p, durable'[l][p])
  BY <1>3, <1>8
<1>10. SavedInv' /\ MemInv'
  BY <1>2, <1>9 DEF SavedInv, MemInv, Fits
<1>11. QueueInv'
  <2>1. \A l \in Levels : Len(pending'[l]) = 0
    BY DEF Settled
  <2> QED BY <2>1 DEF QueueInv
<1> QED BY <1>1, <1>2, <1>3, <1>4, <1>5, <1>6, <1>7, <1>10, <1>11

(* A save keeps what is still to process.                                  *)
LEMMA SaveAhead ==
    ASSUME IInv, StateWrite, UNCHANGED <<pending, todo>>, pc # "reading", pc' # "reading"
    PROVE  AheadInv' /\ \A p \in Positions : IsUnsynced(mem, p)' <=> IsUnsynced(mem, p)
<1>1. mem \in State /\ ArrayOk(mem) /\ todo \subseteq Positions
  BY DEF IInv, TypeOK
<1>2. saved' = mem' /\ mem' = Cleaned(mem) /\ unsynced' = Unsynced(mem)
  BY DEF StateWrite
<1>3. \A p \in Positions : IsUnsynced(mem, p)' <=> IsUnsynced(mem, p)
  BY <1>1, <1>2, CleanedOk DEF IsUnsynced
<1>4. \A p \in todo :
        /\ \E d \in Disks : HasFile(mem.blk[d][p])
        /\ ForceFull \/ \E d \in Disks : HasInvalidParity(mem.blk[d][p])
        /\ \A l \in Levels : ~Queued(l, p)
  BY DEF IInv, AheadInv, Ahead
<1>5. \A p \in todo, d \in Disks : mem'.blk[d][p] = mem.blk[d][p]
  BY <1>1, <1>2, <1>4, CleanedBlocks
<1>6. todo # {} => ForceFull \/ unsynced' # 0
  BY <1>1, <1>2, <1>4, UnsyncedCount DEF IsUnsynced
<1>7. AheadInv'
  BY <1>2, <1>4, <1>5, <1>6 DEF AheadInv, Ahead, Queued
<1> QED BY <1>3, <1>7

(* The state scanned is saved before the parity is touched.                *)
LEMMA PreWriteStep == IInv /\ PreWrite => IInv'
<1> SUFFICES ASSUME IInv, PreWrite PROVE IInv'
  OBVIOUS
<1> USE DEF readVars, errorVars
<1>1. /\ pc = "opened" /\ pc' \in {"ready", "failed"}
      /\ parity' = parity /\ durable' = durable /\ pending' = pending /\ todo' = todo
      /\ werr' = werr /\ errs' = errs /\ alert' = alert
  BY DEF PreWrite
<1>2. (\A l \in Levels : pending[l] = <<>>) /\ todo = {} /\ ~werr /\ ~errs /\ ~alert /\ Settled
  BY <1>1 DEF IInv, IdleInv, Idle, Settled
<1>3. /\ saved' \in State /\ mem' \in State /\ cut' \subseteq Positions
      /\ needWrite' \in BOOLEAN /\ unsynced' \in 0 .. PosMax
      /\ ArrayOk(saved)' /\ ArrayOk(mem)' /\ WriteInv' /\ CountInv' /\ ScanInv' /\ KeepInv'
      /\ SavedInv' /\ QueueInv' /\ MemInv'
  <2>1. CASE needWrite
    <3>1. \A p \in Positions \ cut, l \in Levels : Fits(mem, p, durable[l][p])
      BY <1>1, ScanFits DEF IInv, SavedInv, Scanning
    <3>2. StateWrite
      BY <2>1 DEF PreWrite
    <3> QED BY <1>1, <1>2, <3>1, <3>2, SaveParts
  <2>2. CASE ~needWrite
    <3>1. saved' = saved /\ cut' = cut /\ mem' = mem /\ needWrite' = needWrite /\ unsynced' = unsynced
      BY <2>2 DEF PreWrite, savedVars, memVars
    <3>2. ArrayOk(saved)' /\ ArrayOk(mem)'
      BY <3>1 DEF IInv, ArrayOk, Listed, OneBlock, InfoSet
    <3>3. WriteInv' /\ CountInv' /\ ScanInv' /\ KeepInv'
      BY <1>1, <2>2, <3>1 DEF IInv, WriteInv, CountInv, Scanning, ScanInv, KeepInv
    <3>4. SavedInv' /\ MemInv'
      BY <1>1, <1>2, <3>1, SettledMem DEF IInv, SavedInv, MemInv, Fits
    <3>5. QueueInv'
      BY <1>1, <1>2 DEF QueueInv
    <3> QED BY <3>1, <3>2, <3>3, <3>4, <3>5 DEF IInv, TypeOK
  <2> QED BY <2>1, <2>2
<1>4. TypeOK'
  BY <1>1, <1>3 DEF PreWrite, IInv, TypeOK, Pcs, userVars
<1>5. IdleInv' /\ ReadInv' /\ AheadInv' /\ EndInv' /\ BarrierInv'
  BY <1>1, <1>2 DEF IdleInv, ReadInv, AheadInv, Ahead, EndInv, Syncing, SuccessMeansSynced,
     BarrierInv
<1> QED BY <1>3, <1>4, <1>5 DEF IInv

LEMMA AutoSaveStep == IInv /\ AutoSave => IInv'
<1> SUFFICES ASSUME IInv, AutoSave PROVE IInv'
  OBVIOUS
<1> USE DEF readVars, errorVars
<1>1. /\ pc = "autosave" /\ pc' = "saved"
      /\ parity' = parity /\ durable' = durable /\ pending' = pending /\ todo' = todo
      /\ werr' = werr /\ errs' = errs /\ alert' = alert
  BY DEF AutoSave
<1>2. Settled /\ durable = parity
  BY <1>1 DEF IInv, BarrierInv
<1>3. CASE StateWrite
  <2>1. \A p \in Positions \ cut, l \in Levels : Fits(mem, p, durable[l][p])
    BY <1>2, SettledMem
  <2>2. /\ saved' \in State /\ mem' \in State /\ cut' \subseteq Positions
        /\ needWrite' \in BOOLEAN /\ unsynced' \in 0 .. PosMax
        /\ ArrayOk(saved)' /\ ArrayOk(mem)' /\ WriteInv' /\ CountInv' /\ ScanInv' /\ KeepInv'
        /\ SavedInv' /\ QueueInv' /\ MemInv'
    BY <1>1, <1>2, <1>3, <2>1, SaveParts
  <2>3. TypeOK'
    BY <1>1, <2>2 DEF AutoSave, IInv, TypeOK, Pcs, userVars
  <2>4. AheadInv' /\ \A p \in Positions : IsUnsynced(mem, p)' <=> IsUnsynced(mem, p)
    BY <1>1, <1>3, SaveAhead
  <2>5. IdleInv' /\ ReadInv' /\ BarrierInv'
    BY <1>1 DEF IdleInv, Idle, ReadInv, BarrierInv
  <2>6. EndInv'
    BY <1>1, <2>4 DEF IInv, EndInv, Syncing, Ahead, SuccessMeansSynced
  <2> QED BY <2>2, <2>3, <2>4, <2>5, <2>6 DEF IInv
<1>4. CASE UNCHANGED <<savedVars, memVars>>
  <2> USE <1>4 DEF savedVars, memVars
  <2>1. TypeOK'
    BY <1>1 DEF AutoSave, IInv, TypeOK, Pcs, userVars
  <2>2. ArrayOk(saved)' /\ ArrayOk(mem)'
    BY DEF IInv, ArrayOk, Listed, OneBlock, InfoSet
  <2>3. IdleInv' /\ WriteInv' /\ CountInv' /\ ScanInv' /\ KeepInv'
    BY <1>1 DEF IInv, IdleInv, Idle, WriteInv, CountInv, Scanning, ScanInv, KeepInv
  <2>4. SavedInv' /\ MemInv'
    BY <1>1, <1>2, SettledMem DEF IInv, SavedInv, MemInv, Fits
  <2>5. QueueInv'
    BY <1>1, QueueFrame DEF IInv
  <2>6. ReadInv' /\ AheadInv' /\ BarrierInv'
    BY <1>1 DEF IInv, ReadInv, AheadInv, Ahead, Queued, BarrierInv
  <2>7. EndInv'
    BY <1>1 DEF IInv, EndInv, Syncing, Ahead, SuccessMeansSynced
  <2> QED BY <2>1, <2>2, <2>3, <2>4, <2>5, <2>6, <2>7 DEF IInv
<1> QED BY <1>3, <1>4 DEF AutoSave

LEMMA FinishStep == IInv /\ Finish => IInv'
<1> SUFFICES ASSUME IInv, Finish PROVE IInv'
  OBVIOUS
<1> USE DEF readVars, errorVars
<1>1. /\ pc = "finish" /\ pc' \in {"failed", "done"}
      /\ parity' = parity /\ durable' = durable /\ pending' = pending /\ todo' = todo
      /\ werr' = werr /\ errs' = errs /\ alert' = alert
      /\ pc' = "done" => ~errs /\ ~alert
  BY DEF Finish
<1>2. Settled
  BY <1>1 DEF IInv, BarrierInv
<1>3. pc' = "done" => \A p \in Positions : ~IsUnsynced(mem, p)
  BY <1>1 DEF IInv, EndInv, Syncing, Ahead
<1>4. CASE StateWrite
  <2>1. \A p \in Positions \ cut, l \in Levels : Fits(mem, p, durable[l][p])
    <3>1. CASE durable = parity
      BY <1>2, <3>1, SettledMem
    <3>2. CASE \A d \in Disks, p \in Positions : ~HasFile(mem.blk[d][p])
      BY <3>2 DEF Fits, HasFile
    <3> QED BY <1>1, <3>1, <3>2 DEF IInv, BarrierInv
  <2>2. /\ saved' = mem' /\ saved' \in State /\ mem' \in State /\ cut' \subseteq Positions
        /\ needWrite' \in BOOLEAN /\ unsynced' \in 0 .. PosMax
        /\ ArrayOk(saved)' /\ ArrayOk(mem)' /\ WriteInv' /\ CountInv' /\ ScanInv' /\ KeepInv'
        /\ SavedInv' /\ QueueInv' /\ MemInv'
    BY <1>1, <1>2, <1>4, <2>1, SaveParts
  <2>3. TypeOK'
    BY <1>1, <2>2 DEF Finish, IInv, TypeOK, Pcs, userVars
  <2>4. AheadInv' /\ \A p \in Positions : IsUnsynced(mem, p)' <=> IsUnsynced(mem, p)
    BY <1>1, <1>4, SaveAhead
  <2>5. IdleInv' /\ ReadInv' /\ BarrierInv'
    BY <1>1 DEF IdleInv, Idle, ReadInv, BarrierInv
  <2>6. SuccessMeansSynced'
    <3>1. pc' = "done" => \A p \in Positions : ~IsUnsynced(saved', p)
      BY <1>3, <2>2, <2>4 DEF IsUnsynced
    <3> QED BY <3>1, UnsyncedCount DEF SuccessMeansSynced
  <2>7. EndInv'
    BY <1>1, <2>6 DEF EndInv, Syncing
  <2> QED BY <2>2, <2>3, <2>4, <2>5, <2>7 DEF IInv
<1>5. CASE UNCHANGED <<savedVars, memVars>> /\ (pc' = "done" => ~needWrite)
  <2> USE <1>5 DEF savedVars, memVars
  <2>1. TypeOK'
    BY <1>1 DEF Finish, IInv, TypeOK, Pcs, userVars
  <2>2. ArrayOk(saved)' /\ ArrayOk(mem)'
    BY DEF IInv, ArrayOk, Listed, OneBlock, InfoSet
  <2>3. IdleInv' /\ WriteInv' /\ CountInv' /\ ScanInv' /\ KeepInv'
    BY <1>1 DEF IInv, IdleInv, Idle, WriteInv, CountInv, Scanning, ScanInv, KeepInv
  <2>4. SavedInv' /\ MemInv'
    BY <1>1, <1>2, SettledMem DEF IInv, SavedInv, MemInv, Fits
  <2>5. QueueInv'
    BY <1>1, QueueFrame DEF IInv
  <2>6. ReadInv' /\ AheadInv' /\ BarrierInv'
    BY <1>1 DEF IInv, ReadInv, AheadInv, Ahead, Queued, BarrierInv
  <2>7. SuccessMeansSynced'
    <3>1. pc' = "done" => Unsynced(mem) = 0 /\ mem.blk = saved.blk
      BY <1>3, UnsyncedCount DEF IInv, WriteInv
    <3> QED BY <3>1, UnsyncedSame DEF SuccessMeansSynced
  <2>8. EndInv'
    BY <1>1, <2>7 DEF EndInv, Syncing
  <2> QED BY <2>1, <2>2, <2>3, <2>4, <2>5, <2>6, <2>8 DEF IInv
<1> QED BY <1>4, <1>5 DEF Finish

-----------------------------------------------------------------------------
(* The walk over the positions                                             *)

LEMMA NextBlockAhead ==
    ASSUME NEW rest \in SUBSET Positions, NextBlock(rest), pos \in Positions, toRead \subseteq Disks
    PROVE  /\ Ahead' = rest /\ todo' \subseteq rest /\ pos' \in Positions /\ toRead' \subseteq Disks
           /\ \/ pc' = "final" /\ todo' = {} /\ rest = {}
              \/ pc' = "reading" /\ pos' \notin todo' /\ toRead' = Disks
<1>1. CASE rest = {}
  BY <1>1 DEF NextBlock, Ahead
<1>2. CASE rest # {}
  <2> DEFINE x == CHOOSE y \in rest : \A z \in rest : y <= z
  <2>1. x \in rest
    <3>1. rest \in SUBSET Nat
      BY IndexTypes
    <3>2. \E y \in rest : \A z \in rest : y <= z
      BY <1>2, <3>1, Least
    <3> QED BY <3>2
  <2>2. pc' = "reading" /\ pos' = x /\ todo' = rest \ {x} /\ toRead' = Disks
    BY <1>2 DEF NextBlock
  <2> HIDE DEF x
  <2> QED BY <2>1, <2>2 DEF Ahead
<1> QED BY <1>1, <1>2

(* A move to another position or to the end does not touch the blocks.     *)
LEMMA MoveIInv ==
    ASSUME IInv, pc \in {"ready", "progress", "saved"}, pc' \in Syncing \cup {"bail"},
           UNCHANGED <<userVars, crashes, diskVars, memVars, buf, res, pending, werr, errs, found>>,
           alert' \in BOOLEAN, todo' \subseteq Positions, pos' \in Positions, toRead' \subseteq Disks,
           ReadInv', AheadInv', EndInv', BarrierInv'
    PROVE  IInv'
<1> USE DEF userVars, diskVars, savedVars, memVars
<1>1. TypeOK'
  BY DEF IInv, TypeOK, Pcs, Syncing
<1>2. ArrayOk(saved)' /\ ArrayOk(mem)'
  BY DEF IInv, ArrayOk, Listed, OneBlock, InfoSet
<1>3. IdleInv' /\ WriteInv' /\ ScanInv' /\ KeepInv'
  BY DEF IInv, IdleInv, Idle, WriteInv, ScanInv, Scanning, KeepInv, Syncing
<1>4. CountInv'
  BY DEF CountInv, Scanning, Syncing
<1>5. SavedInv'
  BY DEF IInv, SavedInv, Fits
<1>6. QueueInv'
  BY QueueFrame DEF IInv
<1>7. MemInv'
  BY DEF IInv, MemInv, Queued, Fits
<1> QED BY <1>1, <1>2, <1>3, <1>4, <1>5, <1>6, <1>7 DEF IInv

(* The positions to sync all have something to do, so that an array with   *)
(* all its positions synced has none, and the count is not zero otherwise. *)
LEMMA BeginStep == IInv /\ Begin => IInv'
<1> SUFFICES ASSUME IInv, Begin PROVE IInv'
  OBVIOUS
<1>1. /\ pc = "ready" /\ UNCHANGED <<userVars, crashes, diskVars, memVars, buf, res, pending,
                                     werr, errs, found>>
      /\ saved' = saved /\ mem' = mem /\ parity' = parity /\ durable' = durable
      /\ unsynced' = unsynced
  BY DEF Begin, diskVars, savedVars, memVars
<1>2. /\ \A l \in Levels : pending[l] = <<>>
      /\ todo = {} /\ ~werr /\ ~errs /\ ~alert
      /\ ~needWrite /\ mem.blk = saved.blk /\ unsynced = Unsynced(mem)
  BY <1>1 DEF IInv, IdleInv, Idle, WriteInv, CountInv
<1>3. pos \in Positions /\ toRead \subseteq Disks /\ alert \in BOOLEAN
  BY DEF IInv, TypeOK
<1>4. CASE AllocatedSize = 0
  <2>1. pc' = "finish" /\ todo' = todo /\ pos' = pos /\ toRead' = toRead /\ alert' = alert
    BY <1>4 DEF Begin
  <2>2. \A d \in Disks, p \in Positions : ~HasFile(mem.blk[d][p])
    <3> DEFINE P == {p \in Positions : \E d \in Disks : HasFile(mem.blk[d][p])}
    <3>1. P = {}
      BY <1>4, BlocksBound DEF AllocatedSize
    <3> QED BY <3>1
  <2>3. ReadInv' /\ AheadInv' /\ EndInv'
    BY <1>1, <1>2, <2>1, <2>2 DEF ReadInv, AheadInv, Ahead, EndInv, IsUnsynced, SuccessMeansSynced
  <2>4. BarrierInv'
    BY <1>1, <1>2, <2>1, <2>2 DEF BarrierInv, Settled
  <2> QED BY <1>1, <1>2, <1>3, <2>1, <2>3, <2>4, MoveIInv DEF Syncing
<1>5. CASE /\ NextBlock({p \in Positions : Enabled(p)}) /\ UNCHANGED alert
  <2> DEFINE E == {p \in Positions : Enabled(p)}
  <2>1. /\ Ahead' = E /\ todo' \subseteq E /\ pos' \in Positions /\ toRead' \subseteq Disks
        /\ \/ pc' = "final" /\ todo' = {} /\ E = {}
           \/ pc' = "reading" /\ pos' \notin todo' /\ toRead' = Disks
    BY <1>3, <1>5, NextBlockAhead
  <2>2. \A p \in Positions : IsUnsynced(mem, p) => p \in E
    BY DEF IsUnsynced, Enabled
  <2>3. \A p \in E : p \in Positions /\ (ForceFull \/ IsUnsynced(mem, p))
    BY DEF IsUnsynced, Enabled
  <2>4. E # {} => ForceFull \/ unsynced # 0
    BY <1>2, <2>3, UnsyncedCount
  <2>5. \A p \in E :
          /\ \E d \in Disks : HasFile(mem.blk[d][p])
          /\ ForceFull \/ \E d \in Disks : HasInvalidParity(mem.blk[d][p])
          /\ \A d \in Disks : mem.blk[d][p] = saved.blk[d][p]
          /\ \A l \in Levels : ~Queued(l, p)
    BY <1>2 DEF Enabled, Queued
  <2> HIDE DEF E
  <2>6. AheadInv'
    BY <1>1, <2>1, <2>4, <2>5 DEF AheadInv, Queued
  <2>7. ReadInv' /\ BarrierInv'
    BY <2>1 DEF ReadInv, BarrierInv
  <2>8. EndInv'
    BY <1>1, <2>1, <2>2 DEF EndInv, SuccessMeansSynced, IsUnsynced
  <2>9. todo' \subseteq Positions /\ alert' \in BOOLEAN
    BY <1>3, <1>5, <2>1 DEF E
  <2> QED BY <1>1, <2>1, <2>6, <2>7, <2>8, <2>9, MoveIInv DEF Syncing
<1>6. CASE pc' \in {"final", "bail"} /\ alert' = TRUE /\ UNCHANGED <<todo, pos, toRead>>
  <2>1. ReadInv' /\ AheadInv' /\ EndInv' /\ BarrierInv'
    BY <1>2, <1>6 DEF ReadInv, AheadInv, Ahead, EndInv, BarrierInv, SuccessMeansSynced
  <2> QED BY <1>1, <1>2, <1>3, <1>6, <2>1, MoveIInv DEF Syncing
<1> QED BY <1>4, <1>5, <1>6 DEF Begin

(* Between two positions the ones still to process stay the same.          *)
LEMMA WalkSteps == IInv /\ (Progress \/ Resume) => IInv'
<1> SUFFICES ASSUME IInv, Progress \/ Resume PROVE IInv'
  OBVIOUS
<1>1. /\ pc \in {"progress", "saved"}
      /\ UNCHANGED <<userVars, crashes, diskVars, memVars, buf, res, pending, werr, errs, found>>
      /\ saved' = saved /\ mem' = mem /\ unsynced' = unsynced /\ pending' = pending /\ errs' = errs
      /\ \/ NextBlock(todo) /\ alert' = alert
         \/ pc' = "auto" /\ UNCHANGED <<todo, pos, toRead, alert>>
         \/ pc' = "final" /\ alert' = TRUE /\ UNCHANGED <<todo, pos, toRead>>
  BY DEF Progress, Resume, diskVars, savedVars, memVars, errorVars
<1>2. pos \in Positions /\ toRead \subseteq Disks /\ alert \in BOOLEAN /\ todo \subseteq Positions
  BY DEF IInv, TypeOK
<1>3. Ahead = todo
  BY <1>1 DEF Ahead
<1>4. /\ Ahead' = todo /\ todo' \subseteq Positions /\ pos' \in Positions /\ toRead' \subseteq Disks
      /\ alert' \in BOOLEAN
      /\ \/ pc' = "final" /\ (alert' \/ todo' = {}) /\ (alert => alert')
         \/ pc' = "reading" /\ pos' \notin todo' /\ toRead' = Disks /\ alert' = alert
         \/ pc' = "auto" /\ alert' = alert
  <2>1. CASE NextBlock(todo) /\ alert' = alert
    BY <1>2, <2>1, NextBlockAhead
  <2>2. CASE /\ pc' \in {"auto", "final"} /\ UNCHANGED <<todo, pos, toRead>>
             /\ alert' = (IF pc' = "auto" THEN alert ELSE TRUE)
    BY <1>2, <2>2 DEF Ahead
  <2> QED BY <1>1, <2>1, <2>2
<1>5. AheadInv'
  BY <1>1, <1>3, <1>4 DEF IInv, AheadInv, Queued
<1>6. ReadInv' /\ BarrierInv'
  BY <1>4 DEF ReadInv, BarrierInv
<1>7. EndInv'
  <2>1. \A p \in Positions : IsUnsynced(mem, p)' => p \in Ahead' \/ errs' \/ alert'
    <3>1. \A p \in Positions : IsUnsynced(mem, p) => p \in Ahead \/ errs \/ alert
      BY <1>1 DEF IInv, EndInv, Syncing
    <3> QED BY <1>1, <1>3, <1>4, <3>1 DEF IsUnsynced
  <2> QED BY <1>4, <2>1 DEF EndInv, SuccessMeansSynced
<1>8. pc' \in Syncing
  BY <1>4 DEF Syncing
<1> QED BY <1>1, <1>4, <1>5, <1>6, <1>7, <1>8, MoveIInv

(* After a barrier the parity that the system sees is the durable one.     *)
LEMMA BarrierStep == IInv /\ Barrier => IInv'
<1> SUFFICES ASSUME IInv, Barrier PROVE IInv'
  OBVIOUS
<1> USE DEF savedVars, memVars, readVars, errorVars
<1>1. CASE pc' = "bail"
  <2>1. TypeOK'
    BY <1>1 DEF Barrier, IInv, TypeOK, Pcs, userVars
  <2>2. UNCHANGED <<diskVars, memVars, todo, readVars, pending>> /\ werr' = werr /\ pc # "reading"
    BY <1>1 DEF Barrier, diskVars
  <2> QED BY <1>1, <2>1, <2>2, PhaseIInv
<1>2. CASE pc' # "bail"
  <2>1. /\ pc \in {"auto", "final"} /\ Settled /\ durable' = parity
        /\ pc' = IF pc = "auto" THEN "autosave" ELSE "finish"
        /\ UNCHANGED <<userVars, crashes, savedVars, parity, memVars, todo, readVars, pending,
                       errorVars>>
    BY <1>2 DEF Barrier, Settled
  <2>2. TypeOK'
    BY <2>1 DEF IInv, TypeOK, Pcs, userVars
  <2>3. ArrayOk(saved)' /\ ArrayOk(mem)'
    BY <2>1 DEF IInv, ArrayOk, Listed, OneBlock, InfoSet
  <2>4. IdleInv' /\ WriteInv' /\ ScanInv' /\ KeepInv' /\ ReadInv'
    BY <2>1 DEF IInv, IdleInv, Idle, WriteInv, ScanInv, Scanning, KeepInv, ReadInv
  <2>5. CountInv'
    BY <2>1 DEF CountInv, Scanning
  <2>6. SavedInv'
    BY <2>1 DEF IInv, SavedInv, Fits
  <2>7. QueueInv'
    BY <2>1, QueueFrame DEF IInv
  <2>8. MemInv'
    BY <2>1 DEF IInv, MemInv, Queued, Fits
  <2>9. AheadInv'
    BY <2>1 DEF IInv, AheadInv, Ahead, Queued
  <2>10. EndInv' /\ BarrierInv'
    BY <2>1 DEF IInv, EndInv, Syncing, Ahead, SuccessMeansSynced, BarrierInv, Settled
  <2> QED BY <2>2, <2>3, <2>4, <2>5, <2>6, <2>7, <2>8, <2>9, <2>10 DEF IInv
<1> QED BY <1>1, <1>2

LEMMA ReadStep == IInv /\ (\E d \in Disks : ReadDisk(d)) => IInv'
<1> SUFFICES ASSUME IInv, NEW d \in Disks, ReadDisk(d) PROVE IInv'
  OBVIOUS
<1> USE DEF diskVars, savedVars, memVars, errorVars
<1>1. /\ pc = "reading" /\ pc' = pc /\ toRead' = toRead \ {d} /\ pos' = pos
      /\ UNCHANGED <<userVars, crashes, diskVars, memVars, todo, pending, errorVars>>
  BY DEF ReadDisk
<1>2. mem \in State /\ pos \in Positions /\ mem.blk[d][pos] \in Block /\ Sound(mem.blk[d][pos])
  BY DEF IInv, TypeOK, State, ArrayOk
<1>3. /\ buf \in [Disks -> Data] /\ res \in [Disks -> {"ok", "changed", "io"}]
      /\ \A n \in Names : live[d][n].data \in Data
  BY DEF IInv, TypeOK
<1>4. HasFile(mem.blk[d][pos]) => mem.blk[d][pos].file \in Names
  BY <1>2 DEF Sound, Block
<1>5. /\ buf' \in [Disks -> Data] /\ res' \in [Disks -> {"ok", "changed", "io"}]
      /\ \A e \in Disks \ {d} : buf'[e] = buf[e] /\ res'[e] = res[e]
      /\ ~HasFile(mem.blk[d][pos]) => buf'[d] = Zero /\ res'[d] = "ok"
  <2>1. CASE ~HasFile(mem.blk[d][pos])
    BY <1>3, <2>1 DEF ReadDisk, Data
  <2>2. CASE HasFile(mem.blk[d][pos])
    BY <1>3, <1>4, <2>2 DEF ReadDisk
  <2> QED BY <2>1, <2>2
<1>6. TypeOK'
  BY <1>1, <1>5 DEF IInv, TypeOK, userVars
<1>7. ReadInv'
  BY <1>1, <1>5 DEF IInv, ReadInv
<1>8. ArrayOk(saved)' /\ ArrayOk(mem)'
  BY <1>1 DEF IInv, ArrayOk, Listed, OneBlock, InfoSet
<1>9. IdleInv' /\ WriteInv' /\ ScanInv' /\ KeepInv'
  BY <1>1 DEF IInv, IdleInv, Idle, WriteInv, ScanInv, Scanning, KeepInv
<1>10. CountInv' /\ BarrierInv'
  BY <1>1 DEF CountInv, Scanning, BarrierInv
<1>11. SavedInv'
  BY <1>1 DEF IInv, SavedInv, Fits
<1>12. QueueInv'
  BY <1>1, QueueFrame DEF IInv
<1>13. MemInv'
  BY <1>1 DEF IInv, MemInv, Queued, Fits
<1>14. AheadInv'
  BY <1>1 DEF IInv, AheadInv, Ahead, Queued
<1>15. EndInv'
  BY <1>1 DEF IInv, EndInv, Ahead, SuccessMeansSynced
<1> QED BY <1>6, <1>7, <1>8, <1>9, <1>10, <1>11, <1>12, <1>13, <1>14, <1>15 DEF IInv

-----------------------------------------------------------------------------
(* The writers of the parity                                               *)

LEMMA QueueFacts ==
    ASSUME NEW S, NEW s \in Seq(S)
    PROVE  /\ s # <<>> =>
                /\ 1 \in 1 .. Len(s) /\ Head(s) = s[1] /\ Tail(s) \in Seq(S)
                /\ \A i \in 1 .. Len(Tail(s)) : i + 1 \in 1 .. Len(s) /\ Tail(s)[i] = s[i + 1]
                /\ \A i \in 1 .. Len(s) : i # 1 => i - 1 \in 1 .. Len(Tail(s))
           /\ \A i \in 1 .. Len(s) : s[i] \in S
           /\ \A e \in S :
                /\ Append(s, e) \in Seq(S) /\ Len(Append(s, e)) = Len(s) + 1 /\ Len(s) \in Nat
                /\ Append(s, e)[Len(s) + 1] = e
                /\ \A i \in 1 .. Len(s) : Append(s, e)[i] = s[i]
OBVIOUS

(* The vector written fits what is saved and what is in memory.            *)
LEMMA WriteStep == IInv /\ (\E l \in Levels : WriteParity(l)) => IInv'
<1> SUFFICES ASSUME IInv, NEW l \in Levels, WriteParity(l) PROVE IInv'
  OBVIOUS
<1> USE DEF savedVars, memVars, readVars
<1> DEFINE w == Head(pending[l])
<1>1. /\ pending[l] # <<>> /\ pending' = [pending EXCEPT ![l] = Tail(pending[l])]
      /\ \/ parity' = [parity EXCEPT ![l][w.at] = w.data] /\ werr' = werr
         \/ werr' = TRUE /\ parity' = parity
      /\ UNCHANGED <<userVars, crashes, savedVars, durable, pc, memVars, todo, readVars,
                     errs, alert, found>>
  BY DEF WriteParity
<1>2. /\ pending \in [Levels -> Seq([at : Positions, data : Vectors])]
      /\ parity \in [Levels -> ParityFile]
  BY DEF IInv, TypeOK
<1>3. /\ w \in [at : Positions, data : Vectors] /\ w = pending[l][1] /\ 1 \in 1 .. Len(pending[l])
      /\ Tail(pending[l]) \in Seq([at : Positions, data : Vectors])
  <2> DEFINE W == [at : Positions, data : Vectors]
  <2>1. pending[l] \in Seq(W)
    BY <1>2
  <2> HIDE DEF W
  <2>2. /\ 1 \in 1 .. Len(pending[l]) /\ w = pending[l][1] /\ Tail(pending[l]) \in Seq(W)
        /\ w \in W
    BY <1>1, <2>1, QueueFacts
  <2> QED BY <2>2 DEF W
<1>4. \A k \in Levels : pending'[k] = IF k = l THEN Tail(pending[l]) ELSE pending[k]
  BY <1>1, <1>2
<1>5. Fits(saved, w.at, w.data) /\ Fits(mem, w.at, w.data)
  BY <1>3 DEF IInv, QueueInv
<1> HIDE DEF w
<1>6. /\ w.at \in Positions /\ w.data \in Vectors
      /\ \A k \in Levels, p \in Positions :
           /\ \/ parity'[k][p] = parity[k][p]
              \/ k = l /\ p = w.at /\ parity'[k][p] = w.data
           /\ ~werr' => parity'[l][w.at] = w.data
  BY <1>1, <1>2, <1>3 DEF ParityFile, IInv, TypeOK
<1>7. TypeOK'
  <2>1. parity' \in [Levels -> ParityFile]
    <3>1. parity[l] \in [Positions -> Vectors \cup {NoParity}]
      BY <1>2 DEF ParityFile
    <3>2. [parity[l] EXCEPT ![w.at] = w.data] \in ParityFile
      BY <1>6, <3>1 DEF ParityFile
    <3>3. \/ parity' = [parity EXCEPT ![l] = [parity[l] EXCEPT ![w.at] = w.data]]
          \/ parity' = parity
      BY <1>1, <1>2
    <3> QED BY <1>2, <3>2, <3>3
  <2>2. pending' \in [Levels -> Seq([at : Positions, data : Vectors])]
    BY <1>1, <1>2, <1>3
  <2>3. werr' \in BOOLEAN
    BY <1>1 DEF IInv, TypeOK
  <2> QED BY <1>1, <2>1, <2>2, <2>3 DEF IInv, TypeOK, userVars
<1>8. SavedInv'
  <2> SUFFICES ASSUME NEW p \in Positions \ cut, NEW k \in Levels
               PROVE  Fits(saved, p, parity'[k][p]) /\ Fits(saved, p, durable[k][p])
    BY <1>1 DEF SavedInv, Fits
  <2>1. Fits(saved, p, parity[k][p]) /\ Fits(saved, p, durable[k][p])
    BY DEF IInv, SavedInv
  <2> QED BY <1>5, <1>6, <2>1
<1>9. QueueInv'
  <2> SUFFICES ASSUME NEW k \in Levels, NEW i \in 1 .. Len(pending'[k])
               PROVE  /\ Fits(saved, pending[k][i].at, pending[k][i].data)'
                      /\ Fits(mem, pending[k][i].at, pending[k][i].data)'
    BY DEF QueueInv
  <2>1. PICK j \in 1 .. Len(pending[k]) : pending'[k][i] = pending[k][j]
    <3>1. CASE k = l
      BY <1>1, <1>2, <1>4, <3>1, QueueFacts
    <3>2. CASE k # l
      BY <1>4, <3>2
    <3> QED BY <3>1, <3>2
  <2>2. /\ Fits(saved, pending[k][j].at, pending[k][j].data)
        /\ Fits(mem, pending[k][j].at, pending[k][j].data)
    BY DEF IInv, QueueInv
  <2> QED BY <1>1, <2>1, <2>2, ZenonT(60) DEF Fits
<1>10. MemInv'
  <2> SUFFICES ASSUME ~werr', NEW p \in Positions \ cut, NEW k \in Levels
               PROVE  Fits(mem, p, parity'[k][p]) \/ Queued(k, p)'
    BY <1>1 DEF MemInv, Fits
  <2>1. Fits(mem, p, parity[k][p]) \/ Queued(k, p)
    BY <1>1 DEF IInv, MemInv
  <2>2. CASE Fits(mem, p, parity[k][p])
    BY <1>5, <1>6, <2>2
  <2>3. CASE Queued(k, p)
    <3>1. PICK i \in 1 .. Len(pending[k]) : pending[k][i].at = p
      BY <2>3 DEF Queued
    <3>2. CASE k # l
      BY <1>4, <2>3, <3>2 DEF Queued
    <3>3. CASE k = l /\ i = 1
      BY <1>3, <1>5, <1>6, <3>1, <3>3
    <3>4. CASE k = l /\ i # 1
      <4>1. i - 1 \in 1 .. Len(Tail(pending[l])) /\ Tail(pending[l])[i - 1] = pending[l][i]
        <5>1. i - 1 \in 1 .. Len(Tail(pending[l]))
          BY <1>1, <1>2, <3>4, QueueFacts
        <5>2. Tail(pending[l])[i - 1] = pending[l][i - 1 + 1]
          BY <1>1, <1>2, <5>1, QueueFacts
        <5> QED BY <5>1, <5>2
      <4> QED BY <1>4, <3>1, <3>4, <4>1 DEF Queued
    <3> QED BY <3>2, <3>3, <3>4
  <2> QED BY <2>1, <2>2, <2>3
<1>11. \A k \in Levels, p \in Positions : Queued(k, p)' => Queued(k, p)
  <2> SUFFICES ASSUME NEW k \in Levels, NEW p \in Positions, Queued(k, p)' PROVE Queued(k, p)
    OBVIOUS
  <2>1. CASE k = l
    BY <1>1, <1>2, <1>4, <2>1, QueueFacts DEF Queued
  <2>2. CASE k # l
    BY <1>4, <2>2 DEF Queued
  <2> QED BY <2>1, <2>2
<1>12. AheadInv'
  <2>1. Ahead' = Ahead /\ Ahead \subseteq Positions
    BY <1>1 DEF Ahead, IInv, TypeOK
  <2> QED BY <1>1, <1>11, <2>1 DEF IInv, AheadInv
<1>13. ArrayOk(saved)' /\ ArrayOk(mem)'
  BY <1>1 DEF IInv, ArrayOk, Listed, OneBlock, InfoSet
<1>14. IdleInv' /\ BarrierInv'
  <2>1. pc \notin Idle /\ pc # "autosave" /\ pc # "finish"
    BY <1>1 DEF IInv, IdleInv, BarrierInv, Settled
  <2> QED BY <1>1, <2>1 DEF IdleInv, BarrierInv
<1>15. WriteInv' /\ ScanInv' /\ KeepInv' /\ ReadInv'
  BY <1>1 DEF IInv, WriteInv, ScanInv, KeepInv, ReadInv
<1>16. CountInv' /\ EndInv'
  BY <1>1 DEF IInv, CountInv, EndInv, Ahead, SuccessMeansSynced
<1> QED BY <1>7, <1>8, <1>9, <1>10, <1>12, <1>13, <1>14, <1>15, <1>16 DEF IInv

-----------------------------------------------------------------------------
(* A position processed                                                    *)

LEMMA ReadFacts ==
    ASSUME IInv, pc = "reading", toRead = {}, NEW d \in Disks
    PROVE  /\ At(d) \in Block /\ At(d).st \in States /\ Sound(At(d)) /\ saved.blk[d][pos] = At(d)
           /\ buf[d] \in Data /\ res[d] \in {"ok", "changed", "io"}
           /\ ~HasFile(At(d)) => buf[d] = Zero /\ res[d] = "ok"
           /\ HashNow(d) = IF At(d).st = "CHG" /\ res[d] = "ok" THEN buf[d] ELSE At(d).hash
           /\ HashNow(d) \in Data \cup {Invalid}
<1>1. mem \in State /\ pos \in Positions /\ ArrayOk(mem)
  BY DEF IInv, TypeOK
<1>2. At(d) \in Block /\ At(d).st \in States /\ Sound(At(d)) /\ At(d).hash \in Data \cup {Invalid}
  BY <1>1, StateType DEF At, ArrayOk
<1>3. saved.blk[d][pos] = At(d)
  BY DEF IInv, AheadInv, Ahead, At
<1>4. buf[d] \in Data /\ res[d] \in {"ok", "changed", "io"}
  BY DEF IInv, TypeOK
<1>5. ~HasFile(At(d)) => buf[d] = Zero /\ res[d] = "ok"
  BY DEF IInv, ReadInv, At
<1>6. d \in ChgRead <=> At(d).st = "CHG" /\ res[d] = "ok"
  BY DEF ChgRead, ReadOk, Files, HasFile
<1>7. HashNow(d) = IF At(d).st = "CHG" /\ res[d] = "ok" THEN buf[d] ELSE At(d).hash
  BY <1>6 DEF HashNow
<1> QED BY <1>2, <1>3, <1>4, <1>5, <1>7

(* raid_gen gets the right data of every disk.                             *)
LEMMA CompleteFacts ==
    ASSUME IInv, pc = "reading", toRead = {}, NEW fixed, Complete(fixed), NEW d \in Disks
    PROVE  /\ HasFile(At(d)) => res[d] = "ok" /\ HashNow(d) \in Data /\ NewVector[d] = HashNow(d)
           /\ ~HasFile(At(d)) => NewVector[d] = Zero
<1>1. NewVector[d] = IF d \in Silent THEN At(d).hash ELSE buf[d]
  BY DEF NewVector
<1>2. CASE ~HasFile(At(d))
  BY <1>1, <1>2, ReadFacts DEF Silent, ReadOk, Files
<1>3. CASE HasFile(At(d))
  <2>1. res[d] = "ok"
    BY <1>3, ReadFacts DEF Complete, Soft, Io, Files
  <2>2. At(d).st = "REP" => buf[d] = At(d).hash
    BY <1>3, <2>1 DEF Complete, Soft, ReadOk, Files
  <2>3. At(d).st = "BLK" => d \in Silent \/ buf[d] = At(d).hash
    BY <1>3, <2>1 DEF Silent, ReadOk, Files
  <2>4. At(d).st # "BLK" => d \notin Silent
    BY DEF Silent
  <2>5. At(d).st \in {"BLK", "CHG", "REP"}
    BY <1>3 DEF HasFile
  <2>6. At(d).st \in {"BLK", "REP"} => At(d).hash \in Data
    BY ReadFacts DEF Sound, HasUpdatedHash
  <2> QED BY <1>1, <1>3, <2>1, <2>2, <2>3, <2>4, <2>5, <2>6, ReadFacts
<1> QED BY <1>2, <1>3

LEMMA NewBlockFacts ==
    ASSUME IInv, pc = "reading", toRead = {}, NEW fixed, NEW d \in Disks
    PROVE  LET k == NewBlock(d, fixed) IN
           /\ k \in Block /\ Sound(k) /\ k.file = At(d).file
           /\ HasFile(k) <=> HasFile(At(d))
           /\ At(d).st = "BLK" => k.st = "BLK" /\ k.hash = At(d).hash
           /\ ~Complete(fixed) => k.st = At(d).st /\ (At(d).st = "EMPTY" => k.hash = At(d).hash)
           /\ Complete(fixed) =>
                /\ ~HasInvalidParity(k)
                /\ k.st = "BLK" => k.hash = NewVector[d]
                /\ k.st = "EMPTY" => NewVector[d] = Zero
<1> DEFINE k == NewBlock(d, fixed)
<1>1. /\ At(d) \in Block /\ At(d).st \in States /\ Sound(At(d)) /\ HashNow(d) \in Data \cup {Invalid}
      /\ At(d).st # "CHG" => HashNow(d) = At(d).hash
  BY ReadFacts
<1>2. CASE Complete(fixed) /\ At(d).st = "DELETED"
  <2>1. k = EmptyBlock
    BY <1>2 DEF NewBlock, HasFile
  <2>2. ~HasFile(At(d)) /\ At(d).file = NoName
    BY <1>1, <1>2 DEF HasFile, Sound
  <2>3. NewVector[d] = Zero
    BY <1>2, <2>2, CompleteFacts
  <2> HIDE DEF k
  <2>4. k.file = At(d).file /\ k.st = "EMPTY"
    BY <2>1, <2>2 DEF EmptyBlock
  <2>5. k \in Block /\ Sound(k) /\ ~HasFile(k) /\ ~HasInvalidParity(k)
    BY <2>1, <2>4, EmptyType DEF HasInvalidParity
  <2> QED BY <1>2, <2>2, <2>3, <2>4, <2>5 DEF k
<1>3. CASE Complete(fixed) /\ HasFile(At(d))
  <2>1. k = [At(d) EXCEPT !.st = "BLK", !.hash = HashNow(d)]
    BY <1>3 DEF NewBlock, HasFile
  <2>2. HashNow(d) \in Data /\ NewVector[d] = HashNow(d)
    BY <1>3, CompleteFacts
  <2> HIDE DEF k
  <2>3. k \in Block /\ k.st = "BLK" /\ k.hash = HashNow(d) /\ k.file = At(d).file
    BY <1>1, <2>1, <2>2 DEF Block, States
  <2>4. HasFile(k) /\ ~HasInvalidParity(k)
    BY <2>3 DEF HasFile, HasInvalidParity
  <2>5. Sound(k)
    BY <1>1, <1>3, <2>2, <2>3, <2>4 DEF Sound
  <2> QED BY <1>1, <1>3, <2>2, <2>3, <2>4, <2>5 DEF k
<1>4. CASE ~(Complete(fixed) /\ (At(d).st = "DELETED" \/ HasFile(At(d))))
  <2>1. k = [At(d) EXCEPT !.hash = HashNow(d)]
    BY <1>4 DEF NewBlock
  <2> HIDE DEF k
  <2>2. k \in Block /\ k.st = At(d).st /\ k.hash = HashNow(d) /\ k.file = At(d).file
    BY <1>1, <2>1 DEF Block
  <2>3. HasFile(k) <=> HasFile(At(d))
    BY <2>2 DEF HasFile
  <2>4. Sound(k)
    BY <1>1, <2>2, <2>3 DEF Sound, HasUpdatedHash
  <2>5. Complete(fixed) => k.st = "EMPTY" /\ NewVector[d] = Zero /\ ~HasInvalidParity(k)
    BY <1>1, <1>4, <2>2, CompleteFacts DEF HasFile, HasInvalidParity, States
  <2> QED BY <1>1, <2>2, <2>3, <2>4, <2>5 DEF k
<1> QED BY <1>2, <1>3, <1>4

(* The parity of a position processed in full is never left as it was: the *)
(* optimization for the blocks with the same hash needs an array with no   *)
(* position to sync.                                                       *)
LEMMA CompleteUpdates ==
    ASSUME IInv, pc = "reading", toRead = {}, NEW fixed, Complete(fixed)
    PROVE  NeedsUpdate
<1>1. ForceFull \/ ((\E d \in Disks : HasInvalidParity(At(d))) /\ unsynced # 0)
  BY DEF IInv, AheadInv, Ahead, At
<1>2. CASE ForceFull
  BY <1>2 DEF NeedsUpdate
<1>3. ASSUME NEW d \in Disks, HasInvalidParity(At(d)), unsynced # 0 PROVE NeedsUpdate
  <2>1. CASE At(d).st # "CHG"
    BY <1>3, <2>1 DEF NeedsUpdate, InvalidParity
  <2>2. CASE At(d).st = "CHG"
    <3>1. HasFile(At(d))
      BY <2>2 DEF HasFile
    <3>2. d \in ChgRead
      BY <2>2, <3>1, CompleteFacts DEF ChgRead, ReadOk, Files
    <3> QED BY <1>3, <3>2 DEF NeedsUpdate
  <2> QED BY <2>1, <2>2
<1> QED BY <1>1, <1>2, <1>3

LEMMA FitsLocal ==
    ASSUME NEW m, NEW k, NEW p, NEW v, \A d \in Disks : m.blk[d][p] = k.blk[d][p]
    PROVE  Fits(m, p, v) <=> Fits(k, p, v)
BY DEF Fits

LEMMA ProcessStep == IInv /\ Process => IInv'
<1> SUFFICES ASSUME IInv, Process PROVE IInv'
  OBVIOUS
<1> USE DEF diskVars, savedVars
<1>1. PICK fixed \in IF IoErrors THEN {FALSE, Fixed} ELSE {Fixed} :
        /\ mem' = [mem EXCEPT
              !.blk = [d \in Disks |-> [mem.blk[d] EXCEPT ![pos] = NewBlock(d, fixed)]],
              !.info[pos] = NewInfo(fixed)]
        /\ pending' = IF Complete(fixed) /\ NeedsUpdate
                      THEN [l \in Levels |-> Append(pending[l], [at |-> pos, data |-> NewVector])]
                      ELSE pending
  BY DEF Process
<1>2. /\ pc = "reading" /\ toRead = {} /\ pc' \in {"bail", "progress"}
      /\ errs' = (errs \/ Soft \cup Io \cup Silent # {})
      /\ found' = IF Silent \cup Io # {} THEN found \cup {pos} ELSE found
      /\ needWrite' = TRUE
      /\ buf' = [d \in Disks |-> Zero] /\ res' = [d \in Disks |-> "ok"]
      /\ UNCHANGED <<userVars, crashes, diskVars, unsynced, todo, pos, toRead, werr, alert>>
  BY DEF Process
<1>3. mem \in State /\ pos \in Positions /\ pos \notin todo /\ todo \subseteq Positions
  BY <1>2 DEF IInv, TypeOK, AheadInv
(* What the step makes of the blocks.                                      *)
<1>4. \A d \in Disks :
        /\ NewBlock(d, fixed) \in Block /\ Sound(NewBlock(d, fixed))
        /\ NewBlock(d, fixed).file = At(d).file
        /\ HasFile(NewBlock(d, fixed)) <=> HasFile(At(d))
        /\ At(d).st = "BLK" => NewBlock(d, fixed).st = "BLK" /\ NewBlock(d, fixed).hash = At(d).hash
        /\ ~Complete(fixed) =>
             /\ NewBlock(d, fixed).st = At(d).st
             /\ At(d).st = "EMPTY" => NewBlock(d, fixed).hash = At(d).hash
        /\ Complete(fixed) =>
             /\ ~HasInvalidParity(NewBlock(d, fixed))
             /\ NewBlock(d, fixed).st = "BLK" => NewBlock(d, fixed).hash = NewVector[d]
             /\ NewBlock(d, fixed).st = "EMPTY" => NewVector[d] = Zero
  BY <1>2, NewBlockFacts
<1>5. Complete(fixed) => NeedsUpdate
  BY <1>2, CompleteUpdates
<1>6. NewInfo(fixed) \in {"none", "good", "bad"}
      /\ (Complete(fixed) => NewInfo(fixed) # "none")
      /\ (mem.info[pos] # "none" => NewInfo(fixed) # "none")
  <2>1. mem.info[pos] \in {"none", "good", "bad"}
    BY <1>3, StateType, IndexTypes
  <2> QED BY <1>5, <2>1 DEF NewInfo
<1>7. /\ mem' \in State /\ mem'.stamp = mem.stamp
      /\ \A d \in Disks, p \in Positions :
           mem'.blk[d][p] = IF p = pos THEN NewBlock(d, fixed) ELSE mem.blk[d][p]
      /\ \A p \in Positions : mem'.info[p] = IF p = pos THEN NewInfo(fixed) ELSE mem.info[p]
  <2> DEFINE blk == [d \in Disks |-> [mem.blk[d] EXCEPT ![pos] = NewBlock(d, fixed)]]
             info == [mem.info EXCEPT ![pos] = NewInfo(fixed)]
  <2>1. mem.blk \in [Disks -> [Positions -> Block]] /\ mem.info \in [Positions -> {"none", "good", "bad"}]
    BY <1>3 DEF State
  <2>2. blk \in [Disks -> [Positions -> Block]]
    BY <1>4, <2>1
  <2>3. info \in [Positions -> {"none", "good", "bad"}]
    BY <1>6, <2>1
  <2>4. /\ \A d \in Disks, p \in Positions :
             blk[d][p] = IF p = pos THEN NewBlock(d, fixed) ELSE mem.blk[d][p]
        /\ \A p \in Positions : info[p] = IF p = pos THEN NewInfo(fixed) ELSE mem.info[p]
    BY <2>1
  <2>5. mem' = [mem EXCEPT !.blk = blk, !.info = info]
    BY <1>1, <1>3 DEF State
  <2> HIDE DEF blk, info
  <2>6. mem' \in State /\ mem'.stamp = mem.stamp /\ mem'.blk = blk /\ mem'.info = info
    BY <1>3, <2>2, <2>3, <2>5 DEF State
  <2> QED BY <2>4, <2>6
<1>8. \A d \in Disks : mem.blk[d][pos] = At(d) /\ saved.blk[d][pos] = At(d)
  BY <1>2, ReadFacts DEF At
<1>9. \A d \in Disks, p \in Positions :
        /\ mem'.blk[d][p].file = mem.blk[d][p].file
        /\ HasFile(mem'.blk[d][p]) <=> HasFile(mem.blk[d][p])
        /\ mem.blk[d][p].st = "BLK" =>
             mem'.blk[d][p].st = "BLK" /\ mem'.blk[d][p].hash = mem.blk[d][p].hash
  BY <1>4, <1>7, <1>8
(* What it does to the queues.                                             *)
<1>10. pending \in [Levels -> Seq([at : Positions, data : Vectors])]
  BY DEF IInv, TypeOK
<1>11. Complete(fixed) => [at |-> pos, data |-> NewVector] \in [at : Positions, data : Vectors]
  <2> SUFFICES ASSUME Complete(fixed) PROVE NewVector \in Vectors
    BY <1>3
  <2>1. \A d \in Disks : NewVector[d] \in Data
    BY <1>2, CompleteFacts DEF Data
  <2>2. NewVector = [d \in Disks |-> NewVector[d]]
    BY DEF NewVector
  <2> QED BY <2>1, <2>2 DEF Vectors
<1>12. /\ pending' \in [Levels -> Seq([at : Positions, data : Vectors])]
       /\ \A l \in Levels : \A i \in 1 .. Len(pending'[l]) :
            \/ i \in 1 .. Len(pending[l]) /\ pending'[l][i] = pending[l][i]
            \/ Complete(fixed) /\ pending'[l][i] = [at |-> pos, data |-> NewVector]
       /\ \A l \in Levels : \A i \in 1 .. Len(pending[l]) :
            i \in 1 .. Len(pending'[l]) /\ pending'[l][i] = pending[l][i]
       /\ Complete(fixed) => \A l \in Levels : \E i \in 1 .. Len(pending'[l]) : pending'[l][i].at = pos
  <2>1. CASE Complete(fixed)
    <3> DEFINE W == [at : Positions, data : Vectors]
               e == [at |-> pos, data |-> NewVector]
    <3>1. pending' = [l \in Levels |-> Append(pending[l], e)] /\ e.at = pos
      BY <1>1, <1>5, <2>1
    <3>2. e \in W /\ pending \in [Levels -> Seq(W)]
      BY <1>10, <1>11, <2>1
    <3> HIDE DEF W, e
    <3>3. \A l \in Levels :
            /\ pending'[l] = Append(pending[l], e) /\ pending'[l] \in Seq(W)
            /\ Len(pending[l]) \in Nat /\ Len(pending'[l]) = Len(pending[l]) + 1
            /\ pending'[l][Len(pending[l]) + 1] = e
            /\ \A i \in 1 .. Len(pending[l]) : pending'[l][i] = pending[l][i]
      BY <3>1, <3>2, QueueFacts
    <3>4. pending' \in [Levels -> Seq(W)]
      BY <3>1, <3>3
    <3>5. \A l \in Levels : \A i \in 1 .. Len(pending'[l]) :
            i \in 1 .. Len(pending[l]) \/ i = Len(pending[l]) + 1
      BY <3>3
    <3>6. \A l \in Levels : Len(pending[l]) + 1 \in 1 .. Len(pending'[l])
                            /\ \A i \in 1 .. Len(pending[l]) : i \in 1 .. Len(pending'[l])
      BY <3>3
    <3>7. \A l \in Levels : \A i \in 1 .. Len(pending'[l]) :
            \/ i \in 1 .. Len(pending[l]) /\ pending'[l][i] = pending[l][i]
            \/ pending'[l][i] = e
      BY <3>3, <3>5
    <3>8. \A l \in Levels : \E i \in 1 .. Len(pending'[l]) : pending'[l][i].at = pos
      BY <3>1, <3>3, <3>6
    <3>9. \A l \in Levels : \A i \in 1 .. Len(pending[l]) :
            i \in 1 .. Len(pending'[l]) /\ pending'[l][i] = pending[l][i]
      BY <3>3, <3>6
    <3> QED BY <2>1, <3>4, <3>7, <3>8, <3>9 DEF W, e
  <2>2. CASE ~Complete(fixed)
    BY <1>1, <1>10, <2>2
  <2> QED BY <2>1, <2>2
<1>13. \A l \in Levels, p \in Positions :
         /\ Queued(l, p) => Queued(l, p)'
         /\ Queued(l, p)' => Queued(l, p) \/ p = pos
  BY <1>2, <1>12 DEF Queued
<1>14. \A p \in Positions : \A v :
         /\ p # pos => (Fits(mem', p, v) <=> Fits(mem, p, v))
         /\ ~Complete(fixed) /\ Fits(mem, p, v) => Fits(mem', p, v)
  <2>1. \A p \in Positions : \A v : p # pos => (Fits(mem', p, v) <=> Fits(mem, p, v))
    BY <1>7, FitsLocal
  <2>2. ASSUME ~Complete(fixed), NEW v, Fits(mem, pos, v) PROVE Fits(mem', pos, v)
    BY <1>3, <1>4, <1>7, <1>8, <1>9, <2>2 DEF Fits
  <2> QED BY <2>1, <2>2
<1>15. Complete(fixed) => Fits(saved, pos, NewVector) /\ Fits(mem', pos, NewVector)
  <2> SUFFICES ASSUME Complete(fixed)
               PROVE  Fits(saved, pos, NewVector) /\ Fits(mem', pos, NewVector)
    OBVIOUS
  <2>1. NewVector # NoParity
    BY <1>11, ArrayAssumption
  <2>2. Fits(mem', pos, NewVector)
    BY <1>3, <1>4, <1>7, <2>1 DEF Fits
  <2>3. \A d \in Disks : saved.blk[d][pos].st \in {"BLK", "EMPTY"} =>
          NewVector[d] = IF saved.blk[d][pos].st = "BLK" THEN saved.blk[d][pos].hash ELSE Zero
    <3> SUFFICES ASSUME NEW d \in Disks, At(d).st \in {"BLK", "EMPTY"}
                 PROVE  NewVector[d] = IF At(d).st = "BLK" THEN At(d).hash ELSE Zero
      BY <1>8
    <3>1. CASE At(d).st = "BLK"
      BY <1>2, <3>1, CompleteFacts, ReadFacts DEF HasFile
    <3>2. CASE At(d).st = "EMPTY"
      BY <1>2, <3>2, CompleteFacts DEF HasFile
    <3> QED BY <3>1, <3>2
  <2> QED BY <2>1, <2>2, <2>3 DEF Fits
(* The invariant.                                                          *)
<1>16. TypeOK'
  <2>1. buf' \in [Disks -> Data] /\ res' \in [Disks -> {"ok", "changed", "io"}]
    BY <1>2 DEF Data
  <2>2. errs' \in BOOLEAN /\ found' \subseteq Positions
    BY <1>2, <1>3 DEF IInv, TypeOK
  <2> QED BY <1>2, <1>7, <1>12, <2>1, <2>2 DEF IInv, TypeOK, Pcs, userVars
<1>17. ArrayOk(saved)'
  BY <1>2 DEF IInv, ArrayOk, Listed, OneBlock, InfoSet
<1>18. ArrayOk(mem)'
  <2>1. ArrayOk(mem)
    BY DEF IInv
  <2>2. \A d \in Disks, p \in Positions : Sound(mem'.blk[d][p])
    BY <1>4, <1>7, <2>1 DEF ArrayOk
  <2>3. Listed(mem') /\ OneBlock(mem')
    BY <1>7, <1>9, <2>1 DEF ArrayOk, Listed, OneBlock
  <2>4. InfoSet(mem')
    <3> SUFFICES ASSUME NEW p \in Positions, NEW d \in Disks, mem'.blk[d][p].st = "BLK"
                 PROVE  mem'.info[p] # "none"
      BY DEF InfoSet
    <3>1. CASE p = pos /\ Complete(fixed)
      BY <1>6, <1>7, <3>1
    <3>2. CASE ~(p = pos /\ Complete(fixed))
      <4>1. mem.blk[d][p].st = "BLK"
        BY <1>4, <1>7, <1>8, <3>2
      <4>2. mem.info[p] # "none"
        BY <2>1, <4>1 DEF ArrayOk, InfoSet
      <4> QED BY <1>6, <1>7, <4>2
    <3> QED BY <3>1, <3>2
  <2> QED BY <2>2, <2>3, <2>4 DEF ArrayOk, Listed, OneBlock, InfoSet
<1>19. IdleInv' /\ WriteInv' /\ CountInv' /\ ScanInv' /\ ReadInv' /\ BarrierInv'
  BY <1>2 DEF IdleInv, Idle, WriteInv, CountInv, Scanning, ScanInv, ReadInv, BarrierInv
<1>20. KeepInv'
  <2> SUFFICES ASSUME NEW d \in Disks, NEW n \in Names, NEW p \in Positions,
                      saved.blk[d][p].st = "BLK", saved.blk[d][p].file = n,
                      mem'.blk[d][p].file = n, mem'.stamp[d][n] = saved.stamp[d][n]
               PROVE  mem'.blk[d][p].st = "BLK" /\ mem'.blk[d][p].hash = saved.blk[d][p].hash
    BY <1>2 DEF KeepInv
  <2>1. mem.blk[d][p].st = "BLK" /\ mem.blk[d][p].hash = saved.blk[d][p].hash
    BY <1>7, <1>9 DEF IInv, KeepInv
  <2> QED BY <1>9, <2>1
<1>21. SavedInv'
  BY <1>2 DEF IInv, SavedInv, Fits
<1>22. QueueInv'
  <2> SUFFICES ASSUME NEW l \in Levels, NEW i \in 1 .. Len(pending'[l])
               PROVE  /\ Fits(saved, pending[l][i].at, pending[l][i].data)'
                      /\ Fits(mem, pending[l][i].at, pending[l][i].data)'
    BY DEF QueueInv
  <2>1. CASE i \in 1 .. Len(pending[l]) /\ pending'[l][i] = pending[l][i]
    <3>1. /\ Fits(saved, pending[l][i].at, pending[l][i].data)
          /\ Fits(mem, pending[l][i].at, pending[l][i].data)
      BY <2>1 DEF IInv, QueueInv
    <3>2. pending[l][i] \in [at : Positions, data : Vectors]
      BY <1>10, <2>1, QueueFacts
    <3>3. pending[l][i].at # pos
      BY <1>2, <2>1 DEF IInv, AheadInv, Ahead, Queued
    <3>4. Fits(mem', pending[l][i].at, pending[l][i].data)
      BY <1>14, <3>1, <3>2, <3>3
    <3> QED BY <1>2, <2>1, <3>1, <3>4, ZenonT(60) DEF Fits
  <2>2. CASE Complete(fixed) /\ pending'[l][i] = [at |-> pos, data |-> NewVector]
    <3>1. pending'[l][i].at = pos /\ pending'[l][i].data = NewVector
      BY <2>2
    <3> QED BY <1>2, <1>15, <2>2, <3>1 DEF Fits
  <2> QED BY <1>12, <2>1, <2>2
<1>23. MemInv'
  <2> SUFFICES ASSUME ~werr, NEW p \in Positions \ cut, NEW l \in Levels
               PROVE  Fits(mem', p, parity[l][p]) \/ Queued(l, p)'
    BY <1>2 DEF MemInv, Fits
  <2>1. Fits(mem, p, parity[l][p]) \/ Queued(l, p)
    BY DEF IInv, MemInv
  <2>2. CASE p = pos /\ Complete(fixed)
    BY <1>12, <2>2 DEF Queued
  <2>3. CASE ~(p = pos /\ Complete(fixed))
    BY <1>13, <1>14, <2>1, <2>3
  <2> QED BY <2>2, <2>3
<1>24. Ahead = todo \cup {pos} /\ Ahead' = todo
  BY <1>2 DEF Ahead
<1>25. AheadInv'
  <2>1. \A p \in todo :
          /\ \E d \in Disks : HasFile(mem.blk[d][p])
          /\ ForceFull \/ \E d \in Disks : HasInvalidParity(mem.blk[d][p])
          /\ \A d \in Disks : mem.blk[d][p] = saved.blk[d][p]
          /\ \A l \in Levels : ~Queued(l, p)
    BY <1>24 DEF IInv, AheadInv
  <2>2. \A p \in todo, d \in Disks : mem'.blk[d][p] = mem.blk[d][p]
    BY <1>3, <1>7
  <2>3. \A p \in todo, l \in Levels : ~Queued(l, p)'
    BY <1>3, <1>13, <2>1
  <2>4. todo # {} => ForceFull \/ unsynced' # 0
    BY <1>2, <1>24 DEF IInv, AheadInv
  <2> QED BY <1>2, <1>24, <2>1, <2>2, <2>3, <2>4 DEF AheadInv
<1>26. EndInv'
  <2>1. ASSUME NEW p \in Positions, IsUnsynced(mem, p)' PROVE p \in todo \/ errs' \/ alert'
    <3>1. CASE p = pos /\ Complete(fixed)
      BY <1>4, <1>7, <2>1, <3>1 DEF IsUnsynced
    <3>2. CASE p = pos /\ ~Complete(fixed)
      BY <1>2, <3>2 DEF Complete
    <3>3. CASE p # pos
      <4>1. IsUnsynced(mem, p)
        BY <1>7, <2>1, <3>3 DEF IsUnsynced
      <4>2. p \in Ahead \/ errs \/ alert
        BY <1>2, <4>1 DEF IInv, EndInv, Syncing
      <4> QED BY <1>2, <1>24, <3>3, <4>2 DEF errorVars
    <3> QED BY <3>1, <3>2, <3>3
  <2> QED BY <1>2, <1>24, <2>1 DEF EndInv, SuccessMeansSynced
<1> QED BY <1>16, <1>17, <1>18, <1>19, <1>20, <1>21, <1>22, <1>23, <1>25, <1>26 DEF IInv

-----------------------------------------------------------------------------
(* The scan                                                                *)

LEMMA StateOfFacts ==
    ASSUME mem \in State, NEW d \in Disks, NEW n \in Names
    PROVE  /\ StateOf(d, n) \in Block
           /\ ArrayOk(mem) => \A p \in Positions :
                mem.blk[d][p].file = n => StateOf(d, n) = mem.blk[d][p]
<1> DEFINE ps == {p \in Positions : mem.blk[d][p].file = n /\ HasFile(mem.blk[d][p])}
<1>1. StateOf(d, n) = IF ps = {} THEN EmptyBlock ELSE mem.blk[d][CHOOSE p \in ps : TRUE]
  BY DEF StateOf
<1>2. ps # {} => (CHOOSE p \in ps : TRUE) \in ps
  OBVIOUS
<1>3. StateOf(d, n) \in Block
  BY <1>1, <1>2, StateType, EmptyType
<1>4. ASSUME ArrayOk(mem), NEW p \in Positions, mem.blk[d][p].file = n
      PROVE  StateOf(d, n) = mem.blk[d][p]
  <2>1. HasFile(mem.blk[d][p])
    BY <1>4, ArrayAssumption DEF ArrayOk, Sound
  <2>2. \A q \in ps : q = p
    BY <1>4, <2>1 DEF ArrayOk, OneBlock
  <2>3. p \in ps
    BY <1>4, <2>1
  <2> HIDE DEF ps
  <2> QED BY <1>1, <1>2, <2>2, <2>3
<1> QED BY <1>3, <1>4

LEMMA ReusedType ==
    ASSUME mem \in State, NEW d \in Disks, NEW n \in Names
    PROVE  ReusedHash(d, n) \in Data \cup {Invalid}
<1>1. CopySources(d, n) # {} => Source(d, n) \in Disks
  <2> SUFFICES ASSUME CopySources(d, n) # {} PROVE Source(d, n) \in Disks
    OBVIOUS
  <2>1. CopySources(d, n) \in SUBSET Nat /\ CopySources(d, n) \subseteq Disks
    BY IndexTypes DEF CopySources
  <2>2. \E e \in CopySources(d, n) : \A f \in CopySources(d, n) : e <= f
    BY <2>1, Least
  <2> QED BY <2>1, <2>2 DEF Source
<1>2. \A e \in Disks : StateOf(e, n).hash \in Data \cup {Invalid}
  BY StateOfFacts DEF Block
<1> QED BY <1>1, <1>2 DEF ReusedHash

(* A disk after the scan: the blocks of the files kept are as they were,   *)
(* and each new file has one block, not synced, where there was no file.   *)
LEMMA ScanBlock ==
    ASSUME mem \in State, ArrayOk(mem), NEW d \in Disks, NEW p \in Positions,
           NEW f \in Allocations(d), NEW k,
           k = IF f[p] = NoName THEN AfterRemovals(d)[p]
               ELSE Allocated(f[p], AfterRemovals(d)[p], ReusedHash(d, f[p]))
    PROVE  /\ k \in Block /\ Sound(k)
           /\ \/ /\ k = mem.blk[d][p] /\ f[p] = NoName
                 /\ HasFile(k) => k.file \notin Freed(d)
              \/ k.st = "DELETED" /\ f[p] = NoName
              \/ k.st \in {"CHG", "REP"} /\ f[p] \in New(d) /\ k.file = f[p] /\ f[p] \in Names
           /\ Freed(d) = {} /\ New(d) = {} => k = mem.blk[d][p]
<1> DEFINE b == mem.blk[d][p]
           a == AfterRemovals(d)[p]
<1>1. b \in Block /\ Sound(b) /\ b.hash \in Data \cup {Invalid}
  BY StateType DEF ArrayOk
<1>2. a = IF HasFile(b) /\ b.file \in Freed(d)
          THEN [st |-> "DELETED", file |-> NoName,
                hash |-> IF b.st = "REP" THEN Invalid ELSE b.hash]
          ELSE b
  BY DEF AfterRemovals
<1>3. New(d) \subseteq Names
  BY DEF New, Inserted, Modified, Realloc, Kept, Known, Present
<1>4. f[p] \in New(d) \cup {NoName}
  BY DEF Allocations
<1>5. Freed(d) = {} /\ New(d) = {} => k = b
  BY <1>2, <1>4
<1> HIDE DEF b, a
<1>6. CASE f[p] = NoName
  <2>1. k = a
    BY <1>6 DEF a
  <2>2. CASE HasFile(b) /\ b.file \in Freed(d)
    <3>1. a \in Block /\ a.st = "DELETED" /\ a.file = NoName
      BY <1>1, <1>2, <2>2 DEF Block, States
    <3>2. Sound(a)
      BY <3>1 DEF Sound, HasFile, HasUpdatedHash
    <3> QED BY <1>5, <1>6, <2>1, <3>1, <3>2 DEF b
  <2>3. CASE ~(HasFile(b) /\ b.file \in Freed(d))
    BY <1>1, <1>2, <1>6, <2>1, <2>3 DEF b
  <2> QED BY <2>2, <2>3
<1>7. CASE f[p] # NoName
  <2>1. f[p] \in New(d) /\ f[p] \in Names
    BY <1>3, <1>4, <1>7
  <2>2. a.hash \in Data \cup {Invalid}
    BY <1>1, <1>2
  <2>3. ReusedHash(d, f[p]) \in Data \cup {Invalid}
    BY <2>1, ReusedType
  <2>4. k = Allocated(f[p], a, ReusedHash(d, f[p]))
    BY <1>7 DEF a
  <2>5. k \in Block /\ k.st \in {"CHG", "REP"} /\ k.file = f[p]
        /\ (k.st = "REP" => k.hash \in Data)
    BY <2>1, <2>2, <2>3, <2>4 DEF Allocated, Block, States, Data
  <2>6. Sound(k)
    BY <2>1, <2>5, ArrayAssumption DEF Sound, HasFile, HasUpdatedHash
  <2> QED BY <1>5, <2>1, <2>5, <2>6 DEF b
<1> QED BY <1>6, <1>7

LEMMA ScanSets ==
    ASSUME NEW d \in Disks, NEW n \in Names
    PROVE  /\ n \in New(d) => live[d][n].stamp # 0 /\ (n \in Freed(d) \/ mem.stamp[d][n] = 0)
           /\ n \notin Freed(d) /\ mem.stamp[d][n] # 0 => live[d][n].stamp # 0
           /\ live[d][n].stamp = mem.stamp[d][n] /\ mem.stamp[d][n] # 0 =>
                \/ n \notin Freed(d) /\ n \notin New(d)
                \/ HasInvalidParity(StateOf(d, n))
BY DEF New, Freed, Inserted, Modified, Removed, Realloc, Kept, Known, Present

LEMMA ScanStep == IInv /\ Scan => IInv'
<1> SUFFICES ASSUME IInv, Scan PROVE IInv'
  OBVIOUS
<1> USE DEF diskVars, savedVars, readVars, errorVars
<1>1. /\ pc = "loaded"
      /\ UNCHANGED <<userVars, crashes, diskVars, unsynced, todo, readVars, pending, errorVars>>
  BY DEF Scan
<1>2. /\ mem = saved /\ ~needWrite /\ unsynced = Unsynced(mem)
      /\ \A l \in Levels : pending[l] = <<>>
      /\ todo = {} /\ ~werr /\ ~errs /\ ~alert
      /\ mem \in State /\ ArrayOk(mem)
  BY <1>1 DEF IInv, TypeOK, WriteInv, CountInv, Scanning, IdleInv, Idle
<1>3. CASE pc' = "exit" /\ UNCHANGED <<mem, needWrite>>
  <2>1. TypeOK'
    BY <1>1, <1>3 DEF IInv, TypeOK, Pcs, userVars
  <2> QED BY <1>1, <1>3, <2>1, PhaseIInv DEF memVars
<1>4. ASSUME NEW alloc \in [Disks -> [Positions -> Names \cup {NoName}]],
             \A d \in Disks : alloc[d] \in Allocations(d),
             mem' = [mem EXCEPT
               !.blk = [d \in Disks |-> [p \in Positions |->
                  IF alloc[d][p] = NoName THEN AfterRemovals(d)[p]
                  ELSE Allocated(alloc[d][p], AfterRemovals(d)[p], ReusedHash(d, alloc[d][p]))]],
               !.stamp = [d \in Disks |-> [n \in Names |-> live[d][n].stamp]]],
             needWrite' = (\E d \in Disks : Freed(d) \cup New(d) # {}),
             pc' = "scanned"
      PROVE  IInv'
  <2> DEFINE blk == [d \in Disks |-> [p \in Positions |->
                  IF alloc[d][p] = NoName THEN AfterRemovals(d)[p]
                  ELSE Allocated(alloc[d][p], AfterRemovals(d)[p], ReusedHash(d, alloc[d][p]))]]
             stamp == [d \in Disks |-> [n \in Names |-> live[d][n].stamp]]
  <2>1. \A d \in Disks, p \in Positions :
          blk[d][p] = IF alloc[d][p] = NoName THEN AfterRemovals(d)[p]
                      ELSE Allocated(alloc[d][p], AfterRemovals(d)[p], ReusedHash(d, alloc[d][p]))
    OBVIOUS
  <2>2. \A d \in Disks, p \in Positions :
          /\ blk[d][p] \in Block /\ Sound(blk[d][p])
          /\ \/ /\ blk[d][p] = mem.blk[d][p] /\ alloc[d][p] = NoName
                /\ HasFile(blk[d][p]) => blk[d][p].file \notin Freed(d)
             \/ blk[d][p].st = "DELETED" /\ alloc[d][p] = NoName
             \/ /\ blk[d][p].st \in {"CHG", "REP"} /\ blk[d][p].file = alloc[d][p]
                /\ alloc[d][p] \in New(d) /\ alloc[d][p] \in Names
          /\ Freed(d) = {} /\ New(d) = {} => blk[d][p] = mem.blk[d][p]
    BY <1>2, <1>4, <2>1, ScanBlock
  <2>3. stamp \in [Disks -> [Names -> Stamps]] /\ \A d \in Disks, n \in Names : stamp[d][n] = live[d][n].stamp
    BY DEF IInv, TypeOK
  <2>4. blk \in [Disks -> [Positions -> Block]]
    BY <2>2
  <2>5. mem' = [mem EXCEPT !.blk = blk, !.stamp = stamp]
    BY <1>4
  <2> HIDE DEF blk, stamp
  <2>6. mem' \in State /\ mem'.blk = blk /\ mem'.stamp = stamp /\ mem'.info = mem.info
    BY <1>2, <2>3, <2>4, <2>5 DEF State
  <2>7. TypeOK'
    BY <1>1, <1>4, <2>6 DEF IInv, TypeOK, Pcs, userVars
  (* A block synced or empty is as it was.                                 *)
  <2>8. \A d \in Disks, p \in Positions :
          mem'.blk[d][p].st \in {"BLK", "EMPTY"} => mem'.blk[d][p] = mem.blk[d][p]
    BY <2>2, <2>6
  <2>9. ~needWrite' => mem'.blk = mem.blk
    <3> SUFFICES ASSUME ~needWrite' PROVE blk = mem.blk
      BY <2>6
    <3>1. \A d \in Disks : Freed(d) = {} /\ New(d) = {}
      BY <1>4
    <3>2. \A d \in Disks, p \in Positions : blk[d][p] = mem.blk[d][p]
      BY <2>2, <3>1
    <3>3. mem.blk \in [Disks -> [Positions -> Block]]
      BY <1>2 DEF State
    <3> QED BY <2>4, <3>2, <3>3
  <2>10. ArrayOk(mem)'
    <3>1. \A d \in Disks, p \in Positions : Sound(mem'.blk[d][p])
      BY <2>2, <2>6
    <3>2. Listed(mem')
      <4> SUFFICES ASSUME NEW d \in Disks, NEW p \in Positions, HasFile(blk[d][p])
                   PROVE  stamp[d][blk[d][p].file] # 0
        BY <2>6 DEF Listed
      <4>1. CASE alloc[d][p] = NoName
        <5>1. blk[d][p] = mem.blk[d][p] /\ blk[d][p].file \notin Freed(d)
          <6>1. blk[d][p].st # "DELETED"
            BY DEF HasFile
          <6> QED BY <2>2, <4>1, <6>1, ArrayAssumption
        <5>2. blk[d][p].file \in Names /\ mem.stamp[d][blk[d][p].file] # 0
          BY <1>2, <2>2, <5>1, StateType DEF ArrayOk, Listed, Sound
        <5> QED BY <2>3, <5>1, <5>2, ScanSets
      <4>2. CASE alloc[d][p] # NoName
        BY <2>2, <2>3, <4>2, ScanSets
      <4> QED BY <4>1, <4>2
    <3>3. OneBlock(mem')
      <4> SUFFICES ASSUME NEW d \in Disks, NEW p \in Positions, NEW q \in Positions,
                          HasFile(blk[d][p]), blk[d][q].file = blk[d][p].file
                   PROVE  q = p
        BY <2>6 DEF OneBlock
      <4> DEFINE n == blk[d][p].file
      <4>1. HasFile(blk[d][q]) /\ n # NoName /\ n \in Names
        BY <2>2 DEF Sound, Block
      <4>2. \A r \in {p, q} : alloc[d][r] = NoName =>
              n \notin Freed(d) /\ mem.stamp[d][n] # 0 /\ mem.blk[d][r] = blk[d][r]
        <5> SUFFICES ASSUME NEW r \in {p, q}, alloc[d][r] = NoName
                     PROVE  n \notin Freed(d) /\ mem.stamp[d][n] # 0 /\ mem.blk[d][r] = blk[d][r]
          OBVIOUS
        <5>1. r \in Positions /\ HasFile(blk[d][r]) /\ blk[d][r].file = n
          BY <4>1
        <5>2. mem.blk[d][r] = blk[d][r] /\ n \notin Freed(d)
          <6>1. blk[d][r].st # "DELETED"
            BY <5>1 DEF HasFile
          <6> QED BY <2>2, <5>1, <6>1, ArrayAssumption
        <5> QED BY <1>2, <5>1, <5>2 DEF ArrayOk, Listed
      <4>3. \A r \in {p, q} : alloc[d][r] # NoName => n \in New(d) /\ alloc[d][r] = n
        BY <2>2
      <4>4. CASE alloc[d][p] = NoName /\ alloc[d][q] = NoName
        BY <1>2, <4>2, <4>4 DEF ArrayOk, OneBlock
      <4>5. CASE alloc[d][p] # NoName /\ alloc[d][q] # NoName
        <5>1. \E x \in Positions : \A y \in Positions : alloc[d][y] = n <=> y = x
          BY <1>4, <4>3, <4>5 DEF Allocations
        <5> QED BY <4>3, <4>5, <5>1
      <4>6. CASE alloc[d][p] = NoName <=> alloc[d][q] # NoName
        BY <4>1, <4>2, <4>3, <4>6, ScanSets
      <4> QED BY <4>4, <4>5, <4>6
    <3>4. InfoSet(mem')
      BY <1>2, <2>6, <2>8 DEF ArrayOk, InfoSet
    <3> QED BY <3>1, <3>2, <3>3, <3>4 DEF ArrayOk, Listed, OneBlock, InfoSet
  <2>11. KeepInv'
    <3> SUFFICES ASSUME NEW d \in Disks, NEW n \in Names, NEW p \in Positions,
                        mem.blk[d][p].st = "BLK", mem.blk[d][p].file = n,
                        blk[d][p].file = n, stamp[d][n] = mem.stamp[d][n]
                 PROVE  blk[d][p] = mem.blk[d][p]
      BY <1>1, <1>2, <2>6 DEF KeepInv
    <3>1. HasFile(mem.blk[d][p]) /\ mem.stamp[d][n] # 0
      BY <1>2 DEF HasFile, ArrayOk, Listed
    <3>2. ~HasInvalidParity(StateOf(d, n))
      BY <1>2, StateOfFacts DEF HasInvalidParity
    <3>3. n \notin Freed(d) /\ n \notin New(d)
      BY <2>3, <3>1, <3>2, ScanSets
    <3>4. blk[d][p].st # "DELETED"
      BY <2>2, ArrayAssumption DEF Sound, HasFile
    <3> QED BY <2>2, <3>3, <3>4
  <2>12. SavedInv'
    BY <1>1 DEF IInv, SavedInv, Fits
  <2>13. MemInv'
    <3> SUFFICES ASSUME NEW p \in Positions \ cut, NEW l \in Levels
                 PROVE  Fits(mem', p, parity[l][p])
      BY <1>1 DEF MemInv, Fits
    <3>1. Fits(mem, p, parity[l][p])
      BY <1>2 DEF IInv, SavedInv
    <3> QED BY <2>8, <3>1 DEF Fits
  <2>14. QueueInv'
    BY <1>1, <1>2 DEF QueueInv
  <2>15. ArrayOk(saved)'
    BY <1>1 DEF IInv, ArrayOk, Listed, OneBlock, InfoSet
  <2>16. ScanInv'
    BY <1>1, <1>2, <2>8 DEF ScanInv
  <2>17. WriteInv'
    BY <1>1, <1>2, <1>4, <2>9 DEF WriteInv
  <2>18. CountInv'
    BY <1>1, <1>2, <2>9, UnsyncedSame DEF CountInv
  <2>19. IdleInv' /\ ReadInv' /\ AheadInv' /\ EndInv' /\ BarrierInv'
    BY <1>1, <1>2, <1>4 DEF IdleInv, ReadInv, AheadInv, Ahead, EndInv, Syncing,
       SuccessMeansSynced, BarrierInv
  <2> QED BY <2>7, <2>10, <2>11, <2>12, <2>13, <2>14, <2>15, <2>16, <2>17, <2>18, <2>19 DEF IInv
<1> QED BY <1>1, <1>3, <1>4 DEF Scan

-----------------------------------------------------------------------------
(* The theorems                                                            *)

LEMMA StepIInv == IInv /\ [Next]_vars => IInv'
<1> SUFFICES ASSUME IInv, [Next]_vars PROVE IInv'
  OBVIOUS
<1>1. CASE Next
  <2>1. CASE Main
    BY <2>1, ScanStep, PhaseSteps, ResizeStep, PreWriteStep, BeginStep, ReadStep, ProcessStep,
       WalkSteps, BarrierStep, AutoSaveStep, FinishStep, ExitStep DEF Main
  <2> QED
    BY <1>1, <2>1, UserSteps, LoadStep, WriteStep, ExitStep, PowerLossStep DEF Next
<1>2. CASE UNCHANGED vars
  <2>1. UNCHANGED <<diskVars, pc, memVars, todo, readVars, pending, errorVars>>
    BY <1>2 DEF vars
  <2>2. TypeOK'
    BY <1>2 DEF IInv, TypeOK, vars, userVars, diskVars, savedVars, memVars, readVars, errorVars
  <2> QED BY <2>1, <2>2, FrameIInv
<1> QED BY <1>1, <1>2

LEMMA Invariant == Spec => []IInv
BY InitIInv, StepIInv, PTL DEF Spec

(* Every variable has its type: in particular the blocks, the positions to *)
(* process and the writes queued stay within the array.                    *)
THEOREM ArrayTypeCorrect == Spec => []TypeOK
<1>1. IInv => TypeOK
  BY DEF IInv
<1> QED BY <1>1, Invariant, PTL

(* Whatever is interrupted, killed or lost, the content file read by the   *)
(* next run has an info at every position with a synced block, and         *)
(* state_read_content does not refuse it.                                  *)
THEOREM InfoIsComplete == Spec => []SavedInfoComplete
<1>1. IInv => SavedInfoComplete
  BY DEF IInv, ArrayOk, InfoSet, SavedInfoComplete
<1> QED BY <1>1, Invariant, PTL

(* The content file never promises more than every level of the parity     *)
(* holds, on the disks and after a power loss, at any point of a sync;     *)
(* but where the sync truncated the parity before it saved.                *)
THEOREM PromiseHolds == Spec => []SavedParityHolds
<1>1. IInv => SavedParityHolds
  <2> SUFFICES ASSUME IInv, NEW p \in Positions \ cut
               PROVE  HoldsAt(p, parity) /\ HoldsAt(p, durable)
    BY DEF SavedParityHolds
  <2>1. \A l \in Levels : Fits(saved, p, parity[l][p]) /\ Fits(saved, p, durable[l][p])
    BY DEF IInv, SavedInv
  <2> QED BY <2>1 DEF HoldsAt, Fits
<1> QED BY <1>1, Invariant, PTL

(* A sync that returns success left nothing unsynced: what was skipped for *)
(* an error or an interruption makes it fail, and nothing else is skipped. *)
THEOREM SuccessIsSynced == Spec => []SuccessMeansSynced
<1>1. IInv => SuccessMeansSynced
  BY DEF IInv, EndInv
<1> QED BY <1>1, Invariant, PTL

(* What is saved is what it was or what is in memory.                      *)
LEMMA SavedSteps ==
    ASSUME [Next]_vars
    PROVE  saved' = saved \/ saved' = Cleaned(mem)
BY DEF Next, Main, User, UserWrite, UserDelete, UserCopy, SilentError, UserStep, Load, Scan,
   OpenParity, Resize, PreWrite, Begin, ReadDisk, Process, GiveUp, WriteParity, Progress, Barrier,
   AutoSave, Resume, Finish, Bail, Exit, Kill, PowerLoss, StateWrite, vars, diskVars, savedVars

(* The hash recorded for a synced block changes only with the stamp of the *)
(* file: neither the fix on the fly nor a rescan makes a silent error good.*)
THEOREM NothingLaundered == Spec => NoLaundering
<1> DEFINE Same(d, n, p) ==
      saved.blk[d][p].st = "BLK" /\ saved.blk[d][p].file = n /\ saved'.blk[d][p].file = n
      /\ saved'.stamp[d][n] = saved.stamp[d][n]
      => saved'.blk[d][p].st = "BLK" /\ saved'.blk[d][p].hash = saved.blk[d][p].hash
<1>1. IInv /\ [Next]_vars => \A d \in Disks, n \in Names, p \in Positions : Same(d, n, p)
  <2> SUFFICES ASSUME IInv, [Next]_vars, NEW d \in Disks, NEW n \in Names, NEW p \in Positions
               PROVE  Same(d, n, p)
    OBVIOUS
  <2>1. CASE saved' = saved
    BY <2>1
  <2>2. CASE saved' = Cleaned(mem)
    <3>1. mem \in State /\ saved' = Cleaned(mem)
      BY <2>2 DEF IInv, TypeOK
    <3>2. /\ saved'.stamp = mem.stamp
          /\ saved'.blk[d][p] = mem.blk[d][p] \/ saved'.blk[d][p] = EmptyBlock
      BY <3>1, CleanedBlocks
    <3>3. EmptyBlock.file # n
      BY ArrayAssumption DEF EmptyBlock
    <3>4. saved'.blk[d][p].file = n => saved'.blk[d][p] = mem.blk[d][p]
      BY <3>2, <3>3
    <3> QED BY <3>2, <3>4 DEF IInv, KeepInv
  <2> QED BY <2>1, <2>2, SavedSteps
<1>2. IInv /\ [Next]_vars =>
        [\A d \in Disks, n \in Names, p \in Positions :
           LET old == saved.blk[d][p]
               new == saved'.blk[d][p]
           IN old.st = "BLK" /\ old.file = n /\ new.file = n
              /\ saved'.stamp[d][n] = saved.stamp[d][n]
              => new.st = "BLK" /\ new.hash = old.hash]_vars
  BY <1>1
<1> QED BY <1>2, Invariant, PTL DEF Spec, NoLaundering

-----------------------------------------------------------------------------
(* Recovery: the inductive invariant                                       *)

OnDisk == [data : Data \cup {Garbage}, stamp : Stamps]

(* What the steps of fix rely on.                                          *)
FixTypes ==
    /\ RecoveryTypeOK
    /\ durable \in [Levels -> ParityFile]
    /\ ArrayOk(saved)
    /\ fixes # 0 => pc \in {"off", "fixing", "fixed"}

(* What is left of the parity fits what is saved, but where it was         *)
(* truncated.                                                              *)
ParityFits == \A p \in Positions \ cut, l \in Levels :
    /\ parity[l][p] # NoParity => Fits(saved, p, parity[l][p])
    /\ durable[l][p] # NoParity => Fits(saved, p, durable[l][p])

(* The positions still to process are as they were when fix began.         *)
FixTodo == pc \in {"fixing", "fixed"} =>
    /\ todo \subseteq FixRange
    /\ pc = "fixed" => todo = {}
    /\ \A p \in todo : bads[p] = {} /\ \A l \in Levels : parity[l][p] = durable[l][p]

(* The two results of a position processed.                                *)
RestoredAt(p) ==
    /\ InvalidAt(p) = {}
    /\ \A d \in FilesAt(p) : outcome[d][Rec(d, p).file] # "unrecoverable"
    => HoldsAt(p, parity)

NowAt(p, w, bad) == \A d \in InvalidAt(p) :
    IF d \notin bad THEN w[d] = Read(d, p)
    ELSE Rec(d, p).st = "REP" => w[d] = Rec(d, p).hash

PastAt(p, w) == \A d \in InvalidAt(p) :
    Rec(d, p).st # "REP" /\ Rec(d, p).hash # Invalid => w[d] = Rec(d, p).hash

EnoughAt(p, w, bad) ==
    /\ w # NoParity /\ \A l \in Levels : durable[l][p] = w
    /\ Cardinality(bad \cup InvalidAt(p)) <= LevelMax
    /\ NowAt(p, w, bad) \/ PastAt(p, w)

SureAt(p) ==
    EnoughAt(p, durable[0][p], bads[p]) =>
        \A d \in bads[p] : Rec(d, p).st = "BLK" => outcome[d][Rec(d, p).file] = "recovered"

FixDone == pc \in {"fixing", "fixed"} => \A p \in Positions \ todo :
    RestoredAt(p) /\ (p \notin cut => SureAt(p))

RInv ==
    /\ FixTypes
    /\ fixes = 0 => IInv /\ bads = [p \in Positions |-> {}]
    /\ \A p \in Positions : bads[p] \subseteq FilesAt(p)
    /\ ParityFits /\ FixTodo /\ FixDone
    /\ RecoveredIsGenuine

-----------------------------------------------------------------------------
(* The blocks of a position                                                *)

LEMMA RecType ==
    ASSUME FixTypes, NEW p \in Positions, NEW d \in Disks
    PROVE  /\ Rec(d, p).st \in States /\ Rec(d, p).hash \in Data \cup {Invalid}
           /\ Rec(d, p).file \in Names \cup {NoName} /\ Sound(Rec(d, p))
           /\ d \in FilesAt(p) <=> Rec(d, p).file \in Names
           /\ d \in FilesAt(p) <=> HasFile(Rec(d, p))
           /\ d \in FilesAt(p) => saved.stamp[d][Rec(d, p).file] \in Stamps \ {0}
<1>1. saved \in State /\ Sound(Rec(d, p))
      /\ (HasFile(Rec(d, p)) => saved.stamp[d][Rec(d, p).file] # 0)
  BY DEF FixTypes, RecoveryTypeOK, ArrayOk, Listed, Rec
<1>2. /\ Rec(d, p).st \in States /\ Rec(d, p).hash \in Data \cup {Invalid}
      /\ Rec(d, p).file \in Names \cup {NoName}
  BY <1>1, StateType DEF Rec
<1>3. d \in FilesAt(p) <=> HasFile(Rec(d, p))
  BY DEF FilesAt
<1>4. d \in FilesAt(p) <=> Rec(d, p).file \in Names
  BY <1>1, <1>2, <1>3, ArrayAssumption DEF Sound
<1>5. d \in FilesAt(p) => saved.stamp[d][Rec(d, p).file] \in Stamps \ {0}
  BY <1>1, <1>3, <1>4, StateType
<1> QED BY <1>1, <1>2, <1>3, <1>4, <1>5

(* A file has one position.                                                *)
LEMMA OnePosition ==
    ASSUME FixTypes, NEW p \in Positions, NEW q \in Positions, NEW d \in Disks,
           d \in FilesAt(p), Rec(d, q).file = Rec(d, p).file
    PROVE  q = p
BY DEF FixTypes, ArrayOk, OneBlock, FilesAt, Rec

LEMMA ReadType ==
    ASSUME FixTypes, NEW p \in Positions, NEW d \in Disks
    PROVE  /\ Read(d, p) \in Data \cup {Garbage}
           /\ d \in FilesAt(p) => Held(d, p) \in OnDisk
<1>1. d \in FilesAt(p) => Held(d, p) \in OnDisk
  BY RecType DEF FixTypes, RecoveryTypeOK, Held, OnDisk
<1>2. Read(d, p) \in Data \cup {Garbage}
  BY <1>1 DEF Read, Readable, OnDisk, Data
<1> QED BY <1>1, <1>2

LEMMA BadFacts ==
    ASSUME FixTypes, NEW p \in Positions, NEW d \in Disks
    PROVE  /\ Bad(p) \subseteq FilesAt(p) /\ Bad(p) \subseteq Disks /\ InvalidAt(p) \subseteq Disks
           /\ d \notin Bad(p) /\ HasUpdatedHash(Rec(d, p)) => Read(d, p) = Rec(d, p).hash
           /\ d \notin FilesAt(p) => Read(d, p) = Zero
           /\ d \in InvalidAt(p) <=> HasInvalidParity(Rec(d, p))
           /\ d \in FilesAt(p) \ InvalidAt(p) => Rec(d, p).st = "BLK"
           /\ d \notin FilesAt(p) \cup InvalidAt(p) => Rec(d, p).st = "EMPTY"
<1>1. d \in FilesAt(p) <=> HasFile(Rec(d, p))
  BY DEF FilesAt
<1>2. Rec(d, p).st \in States
  BY RecType
<1>3. d \in InvalidAt(p) <=> HasInvalidParity(Rec(d, p))
  BY DEF InvalidAt
<1>4. HasUpdatedHash(Rec(d, p)) => HasFile(Rec(d, p))
  BY DEF HasFile, HasUpdatedHash
<1> QED BY <1>1, <1>2, <1>3, <1>4 DEF Bad, FilesAt, InvalidAt, Read, Readable, HasFile,
           HasInvalidParity, States

LEMMA SomeFinite ==
    /\ IsFiniteSet(Disks) /\ IsFiniteSet(Levels) /\ Cardinality(Levels) = LevelMax
    /\ LevelMax \in Nat \ {0} /\ 0 \in Levels
<1>1. /\ DiskMax \in Int /\ LevelMax \in Nat \ {0} /\ LevelMax - 1 \in Int
      /\ 0 \in Int /\ 1 \in Int
  BY ArrayAssumption
<1>2. IsFiniteSet(1 .. DiskMax)
  BY <1>1, FS_Interval
<1>3. IsFiniteSet(0 .. LevelMax - 1)
      /\ Cardinality(0 .. LevelMax - 1) =
           (IF 0 > LevelMax - 1 THEN 0 ELSE (LevelMax - 1) - 0 + 1)
  BY <1>1, FS_Interval
<1>4. Cardinality(Levels) = LevelMax /\ 0 \in Levels
  BY <1>1, <1>3 DEF Levels
<1> QED BY <1>1, <1>2, <1>3, <1>4 DEF Disks, Levels

-----------------------------------------------------------------------------
(* What is recovered                                                       *)

LEMMA UsableType ==
    ASSUME FixTypes, NEW p \in Positions, NEW l \in UsableAt(p)
    PROVE  l \in Levels /\ parity[l][p] \in Vectors
BY DEF FixTypes, RecoveryTypeOK, ParityFile, UsableAt

(* The blocks w are those of base but for the ones of F; and they are what *)
(* a level of the parity holds.                                            *)
Keeps(w, base, F) == \A d \in Disks \ F : w[d] = base[d]
InParity(w, p) == \E l \in UsableAt(p) : w = parity[l][p]

(* The blocks to recover, and the data of the others.                      *)
ToSolve(F, base) == F # {} /\ F \subseteq Disks /\ base \in Vectors

(* A solution keeps the blocks that are not recovered, and is the parity   *)
(* of a level unless it is garbage in all the recovered ones.              *)
LEMMA SolutionFacts ==
    ASSUME FixTypes, NEW p \in Positions, NEW F, NEW base, ToSolve(F, base),
           NEW x \in Solutions(p, F, base)
    PROVE  /\ x[2] \in Vectors /\ x[1] \subseteq UsableAt(p)
           /\ Keeps(x[2], base, F)
           /\ InParity(x[2], p) \/ \A d \in F : x[2][d] = Garbage
<1>0. F # {} /\ F \in SUBSET Disks /\ base \in Vectors
  BY DEF ToSolve
<1>1. PICK R \in SUBSET UsableAt(p) :
        Cardinality(R) = Cardinality(F) /\ x = <<R, Solve(p, F, base, R)>>
  BY DEF Solutions
<1>2. IsFiniteSet(F) /\ IsFiniteSet(R)
  <2>1. R \in SUBSET Levels
    BY DEF UsableAt
  <2> QED BY <1>0, <2>1, SomeFinite, FS_Subset
<1>3. R # {}
  BY <1>0, <1>1, <1>2, FS_EmptySet
<1> DEFINE l == CHOOSE k \in R : TRUE
           w == parity[l][p]
           g == [d \in Disks |-> IF d \in F THEN Garbage ELSE base[d]]
<1>4. l \in UsableAt(p) /\ w \in Vectors
  <2>1. l \in R
    BY <1>3
  <2> QED BY <2>1, UsableType
<1>5. x[1] = R /\ x[2] = Solve(p, F, base, R)
  BY <1>1
<1>6. g \in Vectors /\ \A d \in Disks : g[d] = IF d \in F THEN Garbage ELSE base[d]
  BY <1>0 DEF Vectors
<1>7. \/ x[2] = w /\ \A d \in Disks \ F : w[d] = base[d]
      \/ x[2] = g
  BY <1>5 DEF Solve
<1> HIDE DEF l, w, g
<1>8. CASE x[2] = w /\ \A d \in Disks \ F : w[d] = base[d]
  <2>1. InParity(x[2], p)
    BY <1>4, <1>8 DEF w, InParity
  <2>2. Keeps(x[2], base, F)
    BY <1>8 DEF Keeps
  <2>3. x[1] \subseteq UsableAt(p) /\ x[2] \in Vectors
    BY <1>4, <1>5, <1>8
  <2> QED BY <2>1, <2>2, <2>3
<1>9. CASE x[2] = g
  <2>1. Keeps(x[2], base, F) /\ \A d \in F : x[2][d] = Garbage
    BY <1>0, <1>6, <1>9 DEF Keeps
  <2>2. x[1] \subseteq UsableAt(p) /\ x[2] \in Vectors
    BY <1>5, <1>6, <1>9
  <2> QED BY <2>1, <2>2
<1> QED BY <1>7, <1>8, <1>9

(* repair_step accepts only what a level holds: garbage has no hash that   *)
(* matches, and no spare parity agrees with it.                            *)
LEMMA RepairFacts ==
    ASSUME FixTypes, NEW p \in Positions, NEW F, NEW base, ToSolve(F, base), NEW outdated,
           NEW w \in RepairStep(p, F, base, outdated)
    PROVE  /\ w \in Vectors /\ Keeps(w, base, F) /\ InParity(w, p)
           /\ \A d \in Hashed(p, F, outdated) : w[d] = Rec(d, p).hash
<1> DEFINE hashed == Hashed(p, F, outdated)
<1>1. PICK x \in Solutions(p, F, base) :
        /\ w = x[2]
        /\ IF hashed # {} THEN \A d \in hashed : x[2][d] = Rec(d, p).hash
           ELSE \E l \in UsableAt(p) \ x[1] : parity[l][p] = x[2]
  BY DEF RepairStep
<1>2. \A d \in hashed : d \in F /\ d \in Disks /\ Rec(d, p).hash \in Data
  BY RecType DEF Hashed, Sound, ToSolve
<1>3. Garbage \notin Data
  BY ArrayAssumption DEF Data
<1>4. /\ x[2] \in Vectors /\ Keeps(x[2], base, F)
      /\ InParity(x[2], p) \/ \A d \in F : x[2][d] = Garbage
  BY <1>1, SolutionFacts
<1> HIDE DEF hashed
<1>5. CASE hashed # {}
  BY <1>1, <1>2, <1>3, <1>4, <1>5 DEF hashed
<1>6. CASE hashed = {}
  BY <1>1, <1>4, <1>6 DEF hashed, InParity
<1> QED BY <1>5, <1>6

LEMMA WithType ==
    ASSUME FixTypes, NEW p \in Positions, NEW D,
           \A d \in D \cap Disks : Rec(d, p).hash \in Data
    PROVE  /\ With([d \in Disks |-> Read(d, p)], p, D) \in Vectors
           /\ \A d \in Disks : With([e \in Disks |-> Read(e, p)], p, D)[d] =
                IF d \in D THEN Rec(d, p).hash ELSE Read(d, p)
BY ReadType DEF With, Vectors

LEMMA FetchedFacts ==
    ASSUME FixTypes, NEW p \in Positions, NEW D \in SUBSET Disks, NEW known
    PROVE  /\ Fetched(p, D, known) \subseteq D
           /\ \A d \in Fetched(p, D, known) : Rec(d, p).hash \in Data /\ IsUnique(Rec(d, p).hash)
BY RecType DEF Fetched, IsUnique

(* The parity taken as updated: the good blocks are kept, a bad one with a *)
(* hash matches it, and one without comes from the parity.                 *)
LEMMA IfUpdatedFacts ==
    ASSUME FixTypes, NEW p \in Positions, NEW known, NEW x \in IfUpdated(p, known)
    PROVE  /\ x.data \in Vectors
           /\ \A d \in Disks \ Bad(p) : x.data[d] = Read(d, p)
           /\ \A d \in Bad(p) : HasUpdatedHash(Rec(d, p)) => x.data[d] = Rec(d, p).hash
           /\ \A d \in Bad(p) : ~HasUpdatedHash(Rec(d, p)) =>
                /\ d \in x.old <=> MaybeOld(Rec(d, p), x.data[d])
                /\ InParity(x.data, p)
           /\ \A d \in x.old : d \in Bad(p) /\ Rec(d, p).st = "CHG"
<1> DEFINE D == {d \in Bad(p) : HasUpdatedHash(Rec(d, p))}
           fetched == Fetched(p, D, known)
           base == With([d \in Disks |-> Read(d, p)], p, fetched)
           F == Bad(p) \ fetched
           solved == IF F = {} THEN {base} ELSE RepairStep(p, F, base, {})
<1>1. PICK w \in solved :
        x = [data |-> w, old |-> {d \in Bad(p) \ fetched : MaybeOld(Rec(d, p), w[d])}]
  BY DEF IfUpdated
<1>2. x.data = w /\ x.old = {d \in F : MaybeOld(Rec(d, p), w[d])}
  BY <1>1
<1>3. Bad(p) \subseteq Disks /\ F \subseteq Disks /\ D \in SUBSET Disks
  BY BadFacts DEF Bad, FilesAt
<1>4. fetched \subseteq D /\ \A d \in fetched : Rec(d, p).hash \in Data
  BY <1>3, FetchedFacts
<1>5. /\ base \in Vectors
      /\ \A d \in Disks : base[d] = IF d \in fetched THEN Rec(d, p).hash ELSE Read(d, p)
  BY <1>4, WithType
<1>7. F = {} => w = base
  BY <1>1
<1>16. F # {} => w \in RepairStep(p, F, base, {})
  BY <1>1
<1>8. \A d \in F : HasUpdatedHash(Rec(d, p)) => d \in Hashed(p, F, {})
  BY DEF Hashed
<1>9. \A d \in Bad(p) : ~HasUpdatedHash(Rec(d, p)) => d \in F
  BY <1>4
<1>10. \A d \in fetched : HasUpdatedHash(Rec(d, p)) /\ d \in Disks
  BY <1>3, <1>4
<1> HIDE DEF D, fetched, base, F, solved
<1>6. F # {} => /\ w \in Vectors /\ Keeps(w, base, F) /\ InParity(w, p)
                /\ \A d \in Hashed(p, F, {}) : w[d] = Rec(d, p).hash
  <2>1. F # {} => ToSolve(F, base)
    BY <1>3, <1>5 DEF ToSolve
  <2> QED BY <2>1, <1>16, RepairFacts
<1>11. w \in Vectors /\ \A d \in Disks \ F : w[d] = base[d]
  BY <1>5, <1>6, <1>7 DEF Keeps
<1>12. \A d \in Disks : d \in Bad(p) <=> d \in F \cup fetched
  BY <1>3, <1>4 DEF F, D
<1>13. \A d \in Disks \ Bad(p) : w[d] = Read(d, p)
  BY <1>5, <1>11, <1>12
<1>14. \A d \in Bad(p) : HasUpdatedHash(Rec(d, p)) => w[d] = Rec(d, p).hash
  <2> SUFFICES ASSUME NEW d \in Bad(p), HasUpdatedHash(Rec(d, p)) PROVE w[d] = Rec(d, p).hash
    OBVIOUS
  <2>1. CASE d \in F
    BY <2>1, <1>6, <1>8
  <2>2. CASE d \notin F
    BY <2>2, <1>3, <1>5, <1>11, <1>12
  <2> QED BY <2>1, <2>2
<1>15. \A d \in Bad(p) : ~HasUpdatedHash(Rec(d, p)) =>
         /\ d \in x.old <=> MaybeOld(Rec(d, p), w[d])
         /\ InParity(w, p)
  BY <1>2, <1>6, <1>9
<1>17. \A d \in x.old : d \in Bad(p) /\ Rec(d, p).st = "CHG"
  BY <1>2, <1>3, <1>12 DEF MaybeOld
<1>18. x.data = w
  BY <1>2
<1>19. x.data \in Vectors /\ \A d \in Disks \ Bad(p) : x.data[d] = Read(d, p)
  BY <1>11, <1>13, <1>18
<1>20. \A d \in Bad(p) : HasUpdatedHash(Rec(d, p)) => x.data[d] = Rec(d, p).hash
  BY <1>14, <1>18
<1>21. \A d \in Bad(p) : ~HasUpdatedHash(Rec(d, p)) =>
         /\ d \in x.old <=> MaybeOld(Rec(d, p), x.data[d])
         /\ InParity(x.data, p)
  BY <1>15, <1>18, Zenon
<1> QED BY <1>17, <1>19, <1>20, <1>21, Zenon

(* The parity taken as not updated: only the synced blocks are of          *)
(* interest, and the bad ones match their hash.                            *)
LEMMA IfOutdatedFacts ==
    ASSUME FixTypes, NEW p \in Positions, NEW known, NEW x \in IfOutdated(p, known)
    PROVE  /\ x.data \in Vectors /\ InvalidAt(p) # {}
           /\ \A d \in Bad(p) \ InvalidAt(p) : x.data[d] = Rec(d, p).hash
           /\ x.old = Bad(p) \cap InvalidAt(p)
<1> DEFINE invalid == InvalidAt(p)
           zeroed == {d \in invalid : Rec(d, p).st = "CHG" /\ Rec(d, p).hash = Zero}
           fetched == Fetched(p, {d \in invalid : Rec(d, p).st # "REP"}, known)
           base == With([d \in Disks |-> Read(d, p)], p, zeroed \cup fetched)
           blks == Bad(p) \ invalid
           F == (invalid \ (zeroed \cup fetched)) \cup blks
<1>1. PICK w \in IF blks # {} /\ invalid # {} THEN RepairStep(p, F, base, invalid) ELSE {} :
        x = [data |-> w, old |-> Bad(p) \cap invalid]
  BY DEF IfOutdated
<1>2. x.data = w /\ x.old = Bad(p) \cap InvalidAt(p)
  BY <1>1
<1>3. blks # {} /\ invalid # {} /\ w \in RepairStep(p, F, base, invalid)
  BY <1>1
<1>4. F # {} /\ F \in SUBSET Disks /\ blks \subseteq F /\ invalid \in SUBSET Disks
  BY <1>3, BadFacts DEF Bad, FilesAt, InvalidAt
<1>5. \A d \in zeroed \cup fetched : Rec(d, p).hash \in Data
  BY <1>4, FetchedFacts DEF Data
<1>6. base \in Vectors
  BY <1>5, WithType, ZenonT(60)
<1>8. \A d \in blks : d \in Hashed(p, F, invalid)
  <2> SUFFICES ASSUME NEW d \in blks PROVE d \in Hashed(p, F, invalid)
    OBVIOUS
  <2>1. d \in Disks /\ d \in FilesAt(p) \ InvalidAt(p)
    BY BadFacts DEF Bad, FilesAt
  <2>2. HasUpdatedHash(Rec(d, p))
    BY <2>1, BadFacts DEF HasUpdatedHash
  <2> QED BY <2>1, <2>2, <1>4 DEF Hashed
<1>9. blks = Bad(p) \ InvalidAt(p) /\ invalid = InvalidAt(p)
  OBVIOUS
<1> HIDE DEF invalid, zeroed, fetched, base, blks, F
<1>7. w \in Vectors /\ \A d \in Hashed(p, F, invalid) : w[d] = Rec(d, p).hash
  <2>1. ToSolve(F, base)
    BY <1>3, <1>4, <1>6 DEF ToSolve
  <2> QED BY <2>1, <1>3, RepairFacts
<1> QED BY <1>2, <1>3, <1>7, <1>8, <1>9

(* What any repair returns at a position.                                  *)
LEMMA RepairsFacts ==
    ASSUME FixTypes, NEW p \in Positions, NEW known, NEW x \in Repairs(p, known)
    PROVE  /\ x.data \in Vectors
           /\ \A d \in Bad(p) \ x.old :
                /\ HasUpdatedHash(Rec(d, p)) => x.data[d] = Rec(d, p).hash
                /\ Rec(d, p).st = "CHG" =>
                     ~MaybeOld(Rec(d, p), x.data[d]) /\ InParity(x.data, p)
           /\ \A d \in Bad(p) : Rec(d, p).st = "BLK" => d \notin x.old
           /\ InvalidAt(p) = {} => x \in IfUpdated(p, known)
<1>1. CASE x \in IfUpdated(p, known)
  <2>1. \A d \in Bad(p) : Rec(d, p).st = "CHG" => ~HasUpdatedHash(Rec(d, p))
    BY DEF HasUpdatedHash
  <2> QED BY <1>1, <2>1, IfUpdatedFacts
<1>2. CASE x \in IfOutdated(p, known)
  <2>1. /\ x.data \in Vectors /\ InvalidAt(p) # {}
        /\ \A d \in Bad(p) \ InvalidAt(p) : x.data[d] = Rec(d, p).hash
        /\ x.old = Bad(p) \cap InvalidAt(p)
    BY <1>2, IfOutdatedFacts
  <2>2. \A d \in Bad(p) : d \in Disks
    BY DEF Bad, FilesAt
  <2>3. \A d \in Bad(p) \ InvalidAt(p) : Rec(d, p).st # "CHG"
    BY <2>2, BadFacts DEF HasInvalidParity
  <2>4. \A d \in Bad(p) : Rec(d, p).st = "BLK" => d \notin InvalidAt(p)
    BY <2>2, BadFacts DEF HasInvalidParity
  <2> QED BY <2>1, <2>3, <2>4
<1> QED BY <1>1, <1>2 DEF Repairs

(* A position where all is read needs no parity.                           *)
LEMMA GoodRepairs ==
    ASSUME FixTypes, NEW p \in Positions, NEW known, Bad(p) = {}
    PROVE  Repairs(p, known) # {}
<1>1. Fetched(p, {d \in Bad(p) : HasUpdatedHash(Rec(d, p))}, known) = {}
  BY DEF Fetched
<1>2. IfUpdated(p, known) # {}
  BY <1>1 DEF IfUpdated
<1> QED BY <1>2 DEF Repairs

-----------------------------------------------------------------------------
(* Enough parity recovers                                                  *)

(* With w in every level, as many levels as blocks to recover, and w right *)
(* for all the others, the only solution is w, and it is found.            *)
LEMMA SolvedByParity ==
    ASSUME FixTypes, NEW p \in Positions, NEW F, NEW base, ToSolve(F, base), NEW w,
           w # NoParity, \A l \in Levels : parity[l][p] = w,
           Cardinality(F) <= LevelMax, Keeps(w, base, F)
    PROVE  LET R == 0 .. Cardinality(F) - 1 IN
           /\ <<R, w>> \in Solutions(p, F, base) /\ UsableAt(p) = Levels /\ R \subseteq Levels
           /\ Cardinality(F) < LevelMax => \E l \in Levels : l \notin R
<1>1. UsableAt(p) = Levels
  BY DEF UsableAt
<1>2. /\ IsFiniteSet(F) /\ Cardinality(F) \in Nat \ {0}
  <2>1. IsFiniteSet(F) /\ F # {}
    BY SomeFinite, FS_Subset DEF ToSolve
  <2> QED BY <2>1, FS_EmptySet, FS_CardinalityType
<1> DEFINE k == Cardinality(F)
           R == 0 .. k - 1
<1>3. k \in Nat \ {0} /\ LevelMax \in Nat /\ k <= LevelMax
  BY <1>2, SomeFinite
<1> HIDE DEF k
<1>4. R \subseteq Levels /\ R # {} /\ (k < LevelMax => k \in Levels /\ k \notin R)
  BY <1>3 DEF Levels
<1>5. Cardinality(R) = k
  <2>1. 0 \in Int /\ k - 1 \in Int /\ ~(0 > k - 1) /\ (k - 1) - 0 + 1 = k
    BY <1>3
  <2> QED BY <2>1, FS_Interval
<1> HIDE DEF R
<1>6. Solve(p, F, base, R) = w
  <2> DEFINE c == CHOOSE l \in R : TRUE
  <2>1. c \in R
    BY <1>4
  <2>2. parity[c][p] = w /\ \A l \in R : parity[l][p] = w
    BY <1>4, <2>1
  <2> HIDE DEF c
  <2>3. Solve(p, F, base, R) =
          IF (\A l \in R : parity[l][p] = parity[c][p]) /\ (\A d \in Disks \ F : parity[c][p][d] = base[d])
          THEN parity[c][p] ELSE [d \in Disks |-> IF d \in F THEN Garbage ELSE base[d]]
    BY DEF Solve, c
  <2>4. (\A l \in R : parity[l][p] = parity[c][p]) /\ (\A d \in Disks \ F : parity[c][p][d] = base[d])
    BY <2>2 DEF Keeps
  <2> QED BY <2>2, <2>3, <2>4
<1>7. <<R, w>> \in Solutions(p, F, base)
  BY <1>1, <1>4, <1>5, <1>6 DEF Solutions, k
<1> QED BY <1>1, <1>3, <1>4, <1>7 DEF k, R

(* The parity w is in every level, fits what is saved, and a synced block  *)
(* is bad.                                                                 *)
Rescue(p, w) ==
    /\ w # NoParity /\ \A l \in Levels : parity[l][p] = w
    /\ Fits(saved, p, w)
    /\ Cardinality(Bad(p) \cup InvalidAt(p)) <= LevelMax
    /\ \E d \in Bad(p) : Rec(d, p).st = "BLK"

LEMMA RescueFits ==
    ASSUME FixTypes, NEW p \in Positions, NEW w, Rescue(p, w), NEW d \in Disks
    PROVE  /\ Rec(d, p).st = "BLK" => w[d] = Rec(d, p).hash
           /\ Rec(d, p).st = "EMPTY" => w[d] = Zero
           /\ d \notin Bad(p) \cup InvalidAt(p) => w[d] = Read(d, p)
<1>1. \E e \in Disks : saved.blk[e][p].st = "BLK"
  BY DEF Rescue, Bad, FilesAt, Rec
<1>2. /\ Rec(d, p).st = "BLK" => w[d] = Rec(d, p).hash
      /\ Rec(d, p).st = "EMPTY" => w[d] = Zero
  BY <1>1 DEF Rescue, Fits, Rec
<1>3. ASSUME d \notin Bad(p) \cup InvalidAt(p) PROVE w[d] = Read(d, p)
  <2>1. CASE d \in FilesAt(p)
    <3>1. Rec(d, p).st = "BLK"
      BY <1>3, <2>1, BadFacts
    <3>2. HasUpdatedHash(Rec(d, p))
      BY <3>1 DEF HasUpdatedHash
    <3> QED BY <1>2, <1>3, <3>1, <3>2, BadFacts
  <2>2. CASE d \notin FilesAt(p)
    BY <1>2, <1>3, <2>2, BadFacts
  <2> QED BY <2>1, <2>2
<1> QED BY <1>2, <1>3

LEMMA RescueCount ==
    ASSUME FixTypes, NEW p \in Positions, NEW w, Rescue(p, w),
           NEW F \in SUBSET (Bad(p) \cup InvalidAt(p))
    PROVE  /\ Cardinality(F) <= LevelMax
           /\ F # Bad(p) \cup InvalidAt(p) => Cardinality(F) < LevelMax
<1> DEFINE S == Bad(p) \cup InvalidAt(p)
<1>1. S \in SUBSET Disks
  BY DEF Bad, FilesAt, InvalidAt
<1> HIDE DEF S
<1>2. IsFiniteSet(S) /\ Cardinality(S) \in Nat
  BY <1>1, SomeFinite, FS_Subset, FS_CardinalityType
<1>3. F \in SUBSET S
  BY DEF S
<1>4. IsFiniteSet(F) /\ Cardinality(F) <= Cardinality(S) /\ (Cardinality(S) = Cardinality(F) => S = F)
  BY <1>2, <1>3, FS_Subset
<1>5. Cardinality(F) \in Nat
  BY <1>4, FS_CardinalityType
<1>6. Cardinality(S) <= LevelMax /\ LevelMax \in Nat
  BY SomeFinite DEF Rescue, S
<1> QED BY <1>2, <1>4, <1>5, <1>6 DEF S

(* With the parity of what is there now the first strategy succeeds.       *)
LEMMA NowRescues ==
    ASSUME FixTypes, NEW p \in Positions, NEW known, NEW w, Rescue(p, w), NowAt(p, w, Bad(p))
    PROVE  IfUpdated(p, known) # {}
<1> DEFINE D == {d \in Bad(p) : HasUpdatedHash(Rec(d, p))}
           fetched == Fetched(p, D, known)
           base == With([d \in Disks |-> Read(d, p)], p, fetched)
           F == Bad(p) \ fetched
           solved == IF F = {} THEN {base} ELSE RepairStep(p, F, base, {})
           hashed == Hashed(p, F, {})
<1>1. solved # {} => IfUpdated(p, known) # {}
  BY DEF IfUpdated
<1>2. F = {} => solved # {}
  OBVIOUS
<1>3. F # {} => solved = RepairStep(p, F, base, {})
  OBVIOUS
<1>4. Bad(p) \subseteq Disks /\ F \subseteq Bad(p) /\ F \subseteq Disks /\ D \in SUBSET Disks
  BY DEF Bad, FilesAt
<1>5. fetched \subseteq D /\ \A d \in fetched : Rec(d, p).hash \in Data
  BY <1>4, FetchedFacts
<1>6. /\ base \in Vectors
      /\ \A d \in Disks : base[d] = IF d \in fetched THEN Rec(d, p).hash ELSE Read(d, p)
  BY <1>5, WithType
<1>7. \A d \in Bad(p) : d \in F \/ d \in fetched
  OBVIOUS
<1>8. \A d \in Bad(p) : HasUpdatedHash(Rec(d, p)) => w[d] = Rec(d, p).hash
  <2> SUFFICES ASSUME NEW d \in Bad(p), HasUpdatedHash(Rec(d, p)) PROVE w[d] = Rec(d, p).hash
    OBVIOUS
  <2>1. CASE Rec(d, p).st = "BLK"
    BY <1>4, <2>1, RescueFits
  <2>2. CASE Rec(d, p).st = "REP"
    <3>1. d \in InvalidAt(p)
      BY <1>4, <2>2, BadFacts DEF HasInvalidParity
    <3> QED BY <2>2, <3>1 DEF NowAt
  <2> QED BY <2>1, <2>2 DEF HasUpdatedHash
<1>9. \A d \in D : HasUpdatedHash(Rec(d, p)) /\ d \in Bad(p)
  OBVIOUS
<1>10. \A d \in F : d \in hashed <=> HasUpdatedHash(Rec(d, p))
  BY DEF Hashed
<1>11. hashed \subseteq F
  BY DEF Hashed
<1> HIDE DEF D, fetched, base, F, solved, hashed
<1>12. Keeps(w, base, F)
  <2> SUFFICES ASSUME NEW d \in Disks \ F PROVE w[d] = base[d]
    BY DEF Keeps
  <2>1. CASE d \in fetched
    BY <2>1, <1>5, <1>6, <1>8, <1>9
  <2>2. CASE d \notin fetched
    <3>1. d \notin Bad(p) /\ base[d] = Read(d, p)
      BY <2>2, <1>6, <1>7
    <3>2. d \in InvalidAt(p) => w[d] = Read(d, p)
      BY <3>1 DEF NowAt
    <3>3. d \notin InvalidAt(p) => w[d] = Read(d, p)
      BY <3>1, RescueFits
    <3> QED BY <3>1, <3>2, <3>3
  <2> QED BY <2>1, <2>2
<1>13. ASSUME F # {} PROVE w \in RepairStep(p, F, base, {})
  <2>1. ToSolve(F, base)
    BY <1>4, <1>6, <1>13 DEF ToSolve
  <2>2. w # NoParity /\ \A l \in Levels : parity[l][p] = w
    BY DEF Rescue
  <2>3. F \in SUBSET (Bad(p) \cup InvalidAt(p))
    BY <1>4
  <2>4. Cardinality(F) <= LevelMax
        /\ (F # Bad(p) \cup InvalidAt(p) => Cardinality(F) < LevelMax)
    BY <2>3, RescueCount
  <2>5. PICK R : /\ <<R, w>> \in Solutions(p, F, base) /\ UsableAt(p) = Levels
                 /\ Cardinality(F) < LevelMax => \E l \in Levels : l \notin R
    BY <2>1, <2>2, <2>4, <1>12, SolvedByParity
  <2>6. \A d \in hashed : w[d] = Rec(d, p).hash
    BY <1>4, <1>8, <1>10, <1>11
  <2>7. hashed = {} => \E l \in UsableAt(p) \ R : parity[l][p] = w
    <3> SUFFICES ASSUME hashed = {} PROVE \E l \in UsableAt(p) \ R : parity[l][p] = w
      OBVIOUS
    <3>1. PICK d \in Bad(p) : Rec(d, p).st = "BLK"
      BY DEF Rescue
    <3>2. d \notin F
      BY <1>10, <3>1 DEF HasUpdatedHash
    <3>3. F # Bad(p) \cup InvalidAt(p)
      BY <3>1, <3>2
    <3> QED BY <2>2, <2>4, <2>5, <3>3
  <2> DEFINE x == <<R, w>>
  <2>8. x \in Solutions(p, F, base) /\ x[1] = R /\ x[2] = w
    BY <2>5
  <2> HIDE DEF x
  <2>9. IF hashed # {} THEN \A d \in hashed : x[2][d] = Rec(d, p).hash
        ELSE \E l \in UsableAt(p) \ x[1] : parity[l][p] = x[2]
    BY <2>6, <2>7, <2>8
  <2>10. x[2] \in RepairStep(p, F, base, {})
    BY <2>8, <2>9 DEF RepairStep, hashed
  <2> QED BY <2>8, <2>10
<1> QED BY <1>1, <1>2, <1>3, <1>13

(* With the parity of what was there before the second strategy succeeds.  *)
LEMMA PastRescues ==
    ASSUME FixTypes, NEW p \in Positions, NEW known, NEW w, Rescue(p, w), PastAt(p, w),
           InvalidAt(p) # {}
    PROVE  IfOutdated(p, known) # {}
<1> DEFINE invalid == InvalidAt(p)
           zeroed == {d \in invalid : Rec(d, p).st = "CHG" /\ Rec(d, p).hash = Zero}
           fetched == Fetched(p, {d \in invalid : Rec(d, p).st # "REP"}, known)
           base == With([d \in Disks |-> Read(d, p)], p, zeroed \cup fetched)
           blks == Bad(p) \ invalid
           F == (invalid \ (zeroed \cup fetched)) \cup blks
           hashed == Hashed(p, F, invalid)
<1>1. PICK e \in Bad(p) : Rec(e, p).st = "BLK"
  BY DEF Rescue
<1>2. e \in Disks /\ e \notin invalid
  BY <1>1 DEF Bad, FilesAt, InvalidAt, HasInvalidParity
<1>3. blks # {} /\ invalid # {}
  BY <1>1, <1>2
<1>4. RepairStep(p, F, base, invalid) # {} => IfOutdated(p, known) # {}
  BY <1>3 DEF IfOutdated
<1>5. /\ F # {} /\ F \in SUBSET Disks /\ invalid \in SUBSET Disks
      /\ F \in SUBSET (Bad(p) \cup InvalidAt(p))
  BY <1>3 DEF Bad, FilesAt, InvalidAt
<1>6. \A d \in fetched : /\ Rec(d, p).hash \in Data /\ IsUnique(Rec(d, p).hash)
                         /\ d \in invalid /\ Rec(d, p).st # "REP"
  BY <1>5, FetchedFacts
<1>7. \A d \in zeroed : Rec(d, p).hash = Zero /\ d \in invalid /\ Rec(d, p).st = "CHG"
  OBVIOUS
<1>8. \A d \in zeroed \cup fetched : Rec(d, p).hash \in Data
  BY <1>6, <1>7 DEF Data
<1>9. /\ base \in Vectors
      /\ \A d \in Disks : base[d] = IF d \in zeroed \cup fetched THEN Rec(d, p).hash ELSE Read(d, p)
  BY <1>8, WithType
<1>10. \A d \in Disks \ F : d \in zeroed \cup fetched \/ d \notin Bad(p) \cup InvalidAt(p)
  OBVIOUS
<1>11. e \in hashed
  BY <1>1, <1>2 DEF Hashed, HasUpdatedHash
<1>12. \A d \in hashed : d \in Bad(p) \ InvalidAt(p)
  BY DEF Hashed
<1>13. invalid = InvalidAt(p)
  OBVIOUS
<1> HIDE DEF invalid, zeroed, fetched, base, blks, F, hashed
<1>14. Keeps(w, base, F)
  <2> SUFFICES ASSUME NEW d \in Disks \ F PROVE w[d] = base[d]
    BY DEF Keeps
  <2>1. CASE d \in zeroed \cup fetched
    <3>1. d \in InvalidAt(p) /\ Rec(d, p).st # "REP" /\ Rec(d, p).hash # Invalid
      BY <2>1, <1>6, <1>7, <1>13, ArrayAssumption DEF IsUnique
    <3> QED BY <2>1, <3>1, <1>9 DEF PastAt
  <2>2. CASE d \notin zeroed \cup fetched
    BY <2>2, <1>9, <1>10, RescueFits
  <2> QED BY <2>1, <2>2
<1>15. \A d \in hashed : w[d] = Rec(d, p).hash
  <2> SUFFICES ASSUME NEW d \in hashed PROVE w[d] = Rec(d, p).hash
    OBVIOUS
  <2>1. d \in Disks /\ d \in FilesAt(p) \ InvalidAt(p)
    BY <1>12 DEF Bad, FilesAt
  <2>2. Rec(d, p).st = "BLK"
    BY <2>1, BadFacts
  <2> QED BY <2>1, <2>2, RescueFits
<1>16. ToSolve(F, base)
  BY <1>5, <1>9 DEF ToSolve
<1>17. w # NoParity /\ \A l \in Levels : parity[l][p] = w
  BY DEF Rescue
<1>18. Cardinality(F) <= LevelMax
  BY <1>5, RescueCount
<1>19. PICK R : <<R, w>> \in Solutions(p, F, base)
  BY <1>14, <1>16, <1>17, <1>18, SolvedByParity
<1> DEFINE x == <<R, w>>
<1>20. x \in Solutions(p, F, base) /\ x[2] = w
  BY <1>19
<1> HIDE DEF x
<1>21. x[2] \in RepairStep(p, F, base, invalid)
  <2>1. hashed # {} /\ \A d \in hashed : x[2][d] = Rec(d, p).hash
    BY <1>11, <1>15, <1>20
  <2> QED BY <1>20, <2>1 DEF RepairStep, hashed
<1> QED BY <1>4, <1>21

(* One of the strategies recovers what the parity promises.                *)
LEMMA EnoughRescues ==
    ASSUME FixTypes, NEW p \in Positions, NEW known, NEW w, Rescue(p, w),
           NowAt(p, w, Bad(p)) \/ PastAt(p, w)
    PROVE  Repairs(p, known) # {}
<1>1. CASE NowAt(p, w, Bad(p))
  BY <1>1, NowRescues DEF Repairs
<1>2. CASE InvalidAt(p) = {}
  <2>1. NowAt(p, w, Bad(p))
    BY <1>2 DEF NowAt
  <2> QED BY <2>1, NowRescues DEF Repairs
<1>3. CASE PastAt(p, w) /\ InvalidAt(p) # {}
  BY <1>3, PastRescues DEF Repairs
<1> QED BY <1>1, <1>2, <1>3

-----------------------------------------------------------------------------
(* What a position writes                                                  *)

(* r is what repair() returned at position p, {} if nothing.               *)
RepairOf(p, r) == \E known :
    IF Repairs(p, known) = {} THEN r = {} ELSE \E x \in Repairs(p, known) : r = {x}

LEMMA RepairOfFacts ==
    ASSUME FixTypes, NEW p \in Positions, NEW r, RepairOf(p, r), r # {}
    PROVE  \E known : \E x \in Repairs(p, known) :
             /\ r = {x} /\ (CHOOSE y \in r : TRUE) = x
             /\ \A d : (\E y \in r : d \in y.old) <=> d \in x.old
<1>1. PICK known : \E x \in Repairs(p, known) : r = {x}
  BY DEF RepairOf
<1>4. PICK x \in Repairs(p, known) : r = {x}
  BY <1>1
<1>2. (CHOOSE y \in r : TRUE) = x
  BY <1>4
<1>3. \A d : (\E y \in r : d \in y.old) <=> d \in x.old
  BY <1>4
<1> QED BY <1>2, <1>3, <1>4

LEMMA WrittenType ==
    ASSUME FixTypes, NEW p \in Positions, NEW r, RepairOf(p, r), NEW d \in FilesAt(p)
    PROVE  Written(p, r, d) \in OnDisk
<1>1. d \in Disks
  BY DEF FilesAt
<1>2. saved.stamp[d][Rec(d, p).file] \in Stamps /\ Held(d, p) \in OnDisk
  BY <1>1, RecType, ReadType
<1>3. CASE d \in Bad(p) /\ r # {}
  <2>4. PICK known : \E x \in Repairs(p, known) : (CHOOSE y \in r : TRUE) = x
    BY <1>3, RepairOfFacts
  <2>1. PICK x \in Repairs(p, known) : (CHOOSE y \in r : TRUE) = x
    BY <2>4
  <2>2. x.data \in Vectors
    BY <2>1, RepairsFacts
  <2>3. x.data[d] \in Data \cup {Garbage}
    BY <1>1, <2>2 DEF Vectors
  <2> QED BY <1>2, <1>3, <2>1, <2>3 DEF Written, OnDisk
<1>4. CASE ~(d \in Bad(p) /\ r # {})
  <2>1. Written(p, r, d) = [Held(d, p) EXCEPT !.stamp = IF @ = 0 THEN 0 ELSE saved.stamp[d][Rec(d, p).file]]
    BY <1>4 DEF Written
  <2>2. 0 \in Stamps
    BY IndexTypes
  <2> QED BY <1>2, <2>1, <2>2 DEF OnDisk
<1> QED BY <1>3, <1>4

(* file_post touches only the files of the position.                       *)
LEMMA PostOthers ==
    ASSUME FixTypes, NEW p \in Positions, NEW r, FilePost(p, r), NEW d \in Disks, NEW m \in Names,
           d \notin FilesAt(p) \/ Rec(d, p).file # m
    PROVE  /\ live'[d][m] = live[d][m] /\ quarantined'[d][m] = quarantined[d][m]
           /\ outcome'[d][m] = outcome[d][m]
<1>1. /\ live \in [Disks -> [Names -> OnDisk]] /\ quarantined \in [Disks -> [Names -> OnDisk]]
      /\ outcome \in [Disks -> [Names -> {"none", "recovered", "unrecoverable"}]]
  BY DEF FixTypes, RecoveryTypeOK, OnDisk
<1>2. live'[d][m] = live[d][m]
  BY <1>1 DEF FilePost
<1>3. quarantined'[d][m] = quarantined[d][m]
  BY <1>1 DEF FilePost
<1>4. outcome'[d][m] = outcome[d][m]
  BY <1>1 DEF FilePost
<1> QED BY <1>2, <1>3, <1>4

LEMMA PostFacts ==
    ASSUME FixTypes, NEW p \in Positions, NEW r, FilePost(p, r), NEW d \in FilesAt(p)
    PROVE  LET n == Rec(d, p).file
               back == FixedAt(p, r, d) \/ Promoted(p, d)
           IN
           /\ live'[d][n] = IF Damaged(p, r, d) THEN NoFile
                            ELSE IF back THEN Written(p, r, d) ELSE live[d][n]
           /\ quarantined'[d][n] = IF Damaged(p, r, d) THEN Written(p, r, d)
                                   ELSE IF back THEN NoFile ELSE quarantined[d][n]
           /\ outcome'[d][n] = IF Damaged(p, r, d) THEN "unrecoverable"
                               ELSE IF back THEN "recovered" ELSE outcome[d][n]
<1>1. /\ live \in [Disks -> [Names -> OnDisk]] /\ quarantined \in [Disks -> [Names -> OnDisk]]
      /\ outcome \in [Disks -> [Names -> {"none", "recovered", "unrecoverable"}]]
  BY DEF FixTypes, RecoveryTypeOK, OnDisk
<1>2. d \in Disks /\ Rec(d, p).file \in Names
  BY RecType DEF FilesAt
<1> DEFINE n == Rec(d, p).file
           back == FixedAt(p, r, d) \/ Promoted(p, d)
<1>3. live'[d][n] = IF Damaged(p, r, d) THEN NoFile
                    ELSE IF back THEN Written(p, r, d) ELSE live[d][n]
  BY <1>1, <1>2 DEF FilePost
<1>4. quarantined'[d][n] = IF Damaged(p, r, d) THEN Written(p, r, d)
                           ELSE IF back THEN NoFile ELSE quarantined[d][n]
  BY <1>1, <1>2 DEF FilePost
<1>5. outcome'[d][n] = IF Damaged(p, r, d) THEN "unrecoverable"
                       ELSE IF back THEN "recovered" ELSE outcome[d][n]
  BY <1>1, <1>2 DEF FilePost
<1> QED BY <1>3, <1>4, <1>5

(* file_post leaves functions on the disks and the names.                  *)
LEMMA PostTypes ==
    ASSUME FixTypes, NEW p \in Positions, NEW r, RepairOf(p, r), FilePost(p, r)
    PROVE  /\ live' \in [Disks -> [Names -> OnDisk]] /\ quarantined' \in [Disks -> [Names -> OnDisk]]
           /\ outcome' \in [Disks -> [Names -> {"none", "recovered", "unrecoverable"}]]
<1>1. /\ live \in [Disks -> [Names -> OnDisk]] /\ quarantined \in [Disks -> [Names -> OnDisk]]
      /\ outcome \in [Disks -> [Names -> {"none", "recovered", "unrecoverable"}]]
  BY DEF FixTypes, RecoveryTypeOK, OnDisk
<1>2. NoFile \in OnDisk
  BY IndexTypes DEF NoFile, OnDisk, Data
<1>3. \A d \in FilesAt(p) : d \in Disks /\ Rec(d, p).file \in Names /\ Written(p, r, d) \in OnDisk
  BY RecType, WrittenType DEF FilesAt
<1>4. live' \in [Disks -> [Names -> OnDisk]]
  BY <1>1, <1>2, <1>3 DEF FilePost
<1>5. quarantined' \in [Disks -> [Names -> OnDisk]]
  BY <1>1, <1>2, <1>3 DEF FilePost
<1>6. outcome' \in [Disks -> [Names -> {"none", "recovered", "unrecoverable"}]]
  BY <1>1, <1>3 DEF FilePost
<1> QED BY <1>4, <1>5, <1>6

(* What a good block holds, and every block of another position, is read   *)
(* as before.                                                              *)
LEMMA ReadStable ==
    ASSUME FixTypes, NEW p \in Positions, NEW r, FilePost(p, r), saved' = saved,
           NEW q \in Positions, NEW d \in Disks, q # p \/ d \notin Bad(p)
    PROVE  Read(d, q)' = Read(d, q)
<1> DEFINE n == Rec(d, q).file
<1>1. Rec(d, q)' = Rec(d, q) /\ (d \in FilesAt(q)' <=> d \in FilesAt(q))
  BY DEF Rec, FilesAt
<1>2. CASE d \notin FilesAt(q)
  BY <1>1, <1>2 DEF Read, Readable
<1>3. CASE d \in FilesAt(q) /\ q # p
  <2>1. n \in Names
    BY <1>3, RecType
  <2>2. d \notin FilesAt(p) \/ Rec(d, p).file # n
    BY <1>3, OnePosition
  <2>3. live'[d][n] = live[d][n] /\ quarantined'[d][n] = quarantined[d][n]
    BY <2>1, <2>2, PostOthers
  <2>4. Held(d, q)' = Held(d, q)
    BY <1>1, <2>3 DEF Held
  <2> QED BY <1>1, <1>3, <2>4 DEF Read, Readable
<1>4. CASE d \in FilesAt(q) /\ q = p /\ d \notin Bad(p)
  <2>1. ~Damaged(p, r, d) /\ ~FixedAt(p, r, d) /\ d \in Readable(p)
    BY <1>4 DEF Damaged, FixedAt, Bad
  <2>2. /\ live'[d][n] = IF Promoted(p, d) THEN Written(p, r, d) ELSE live[d][n]
        /\ quarantined'[d][n] = IF Promoted(p, d) THEN NoFile ELSE quarantined[d][n]
    BY <1>4, <2>1, PostFacts
  <2>3. CASE Promoted(p, d)
    <3> DEFINE s == IF Held(d, p).stamp = 0 THEN 0 ELSE saved.stamp[d][n]
    <3>1. Held(d, p) \in OnDisk /\ Held(d, p) # NoFile
      BY <1>4, <2>1, ReadType DEF Readable
    <3>2. saved.stamp[d][n] # 0
      BY <1>4, RecType
    <3>3. live'[d][n] = [Held(d, p) EXCEPT !.stamp = s]
      BY <1>4, <2>2, <2>3 DEF Written
    <3>4. live'[d][n].data = Held(d, p).data /\ live'[d][n].stamp = s
      BY <3>1, <3>3 DEF OnDisk
    <3>5. live'[d][n] # NoFile
      BY <3>1, <3>2, <3>4 DEF OnDisk, NoFile
    <3>6. Held(d, q)' = live'[d][n]
      BY <1>1, <3>5 DEF Held
    <3>7. d \in Readable(q) /\ d \in Readable(q)'
      BY <1>1, <1>4, <2>1, <3>5, <3>6 DEF Readable
    <3> QED BY <1>4, <3>4, <3>6, <3>7 DEF Read
  <2>4. CASE ~Promoted(p, d)
    <3>1. Held(d, q)' = Held(d, q)
      BY <1>1, <2>2, <2>4 DEF Held
    <3> QED BY <1>1, <1>4, <3>1 DEF Read, Readable
  <2> QED BY <2>3, <2>4
<1> QED BY <1>2, <1>3, <1>4

(* A step of fix is at the first position to process.                      *)
FixAt(p, r) ==
    /\ p \in todo /\ pc = "fixing" /\ RepairOf(p, r)
    /\ FilePost(p, r) /\ ParityPost(p, r)
    /\ todo' = todo \ {p} /\ bads' = [bads EXCEPT ![p] = Bad(p)]
    /\ UNCHANGED <<saved, cut, durable, pc, fixes, had>>

LEMMA FixBlockAt ==
    ASSUME FixTypes, FixBlock
    PROVE  \E p \in Positions : \E r : FixAt(p, r)
<1> DEFINE p == CHOOSE x \in todo : \A y \in todo : x <= y
<1>1. todo \subseteq Positions /\ todo # {}
  BY DEF FixTypes, RecoveryTypeOK, FixBlock
<1>2. todo \in SUBSET Nat
  BY <1>1, IndexTypes
<1>3. \E x \in todo : \A y \in todo : x <= y
  BY <1>1, <1>2, Least
<1>4. p \in todo /\ p \in Positions
  BY <1>1, <1>3
<1>5. /\ todo' = todo \ {p} /\ bads' = [bads EXCEPT ![p] = Bad(p)] /\ pc = "fixing"
      /\ UNCHANGED <<saved, cut, durable, pc, fixes, had>>
      /\ \E known \in SUBSET Values :
           \E r \in IF Repairs(p, known) = {} THEN {{}} ELSE {{x} : x \in Repairs(p, known)} :
              FilePost(p, r) /\ ParityPost(p, r)
  BY DEF FixBlock, savedVars
<1> HIDE DEF p
<1>6. PICK known \in SUBSET Values :
        \E r \in IF Repairs(p, known) = {} THEN {{}} ELSE {{x} : x \in Repairs(p, known)} :
           FilePost(p, r) /\ ParityPost(p, r)
  BY <1>5
<1>7. PICK r \in IF Repairs(p, known) = {} THEN {{}} ELSE {{x} : x \in Repairs(p, known)} :
        FilePost(p, r) /\ ParityPost(p, r)
  BY <1>6
<1>8. IF Repairs(p, known) = {} THEN r = {} ELSE \E x \in Repairs(p, known) : r = {x}
  BY <1>7
<1>9. RepairOf(p, r)
  BY <1>8 DEF RepairOf
<1>10. FixAt(p, r)
  BY <1>4, <1>5, <1>7, <1>9 DEF FixAt
<1> QED BY <1>4, <1>10

LEMMA FixAtTypes ==
    ASSUME RInv, NEW p \in Positions, NEW r, FixAt(p, r)
    PROVE  /\ FixTypes' /\ pc' = "fixing" /\ fixes # 0
           /\ \A l \in Levels, q \in Positions : parity'[l][q] =
                IF q = p /\ r # {} /\ FilesAt(p) # {} /\ InvalidAt(p) = {}
                THEN (CHOOSE x \in r : TRUE).data ELSE parity[l][q]
<1>1. FixTypes /\ RepairOf(p, r) /\ FilePost(p, r) /\ pc = "fixing" /\ pc' = pc
  BY DEF RInv, FixAt
<1>2. fixes # 0
  <2>1. fixes = 0 => pc \in Pcs
    BY DEF RInv, IInv, TypeOK
  <2> QED BY <1>1, <2>1 DEF Pcs
<1>3. /\ live' \in [Disks -> [Names -> OnDisk]] /\ quarantined' \in [Disks -> [Names -> OnDisk]]
      /\ outcome' \in [Disks -> [Names -> {"none", "recovered", "unrecoverable"}]]
  BY <1>1, PostTypes
<1>4. r # {} => (CHOOSE x \in r : TRUE).data \in Vectors
  <2> SUFFICES ASSUME r # {} PROVE (CHOOSE x \in r : TRUE).data \in Vectors
    OBVIOUS
  <2>1. PICK known : \E x \in Repairs(p, known) : (CHOOSE y \in r : TRUE) = x
    BY <1>1, RepairOfFacts
  <2>2. PICK x \in Repairs(p, known) : (CHOOSE y \in r : TRUE) = x
    BY <2>1
  <2> QED BY <1>1, <2>2, RepairsFacts
<1>5. parity \in [Levels -> ParityFile]
  BY <1>1 DEF FixTypes, RecoveryTypeOK
<1>6. /\ parity' \in [Levels -> ParityFile]
      /\ \A l \in Levels, q \in Positions : parity'[l][q] =
                IF q = p /\ r # {} /\ FilesAt(p) # {} /\ InvalidAt(p) = {}
                THEN (CHOOSE x \in r : TRUE).data ELSE parity[l][q]
  <2>1. parity' = [l \in Levels |-> [parity[l] EXCEPT ![p] =
                     IF r # {} /\ FilesAt(p) # {} /\ InvalidAt(p) = {}
                     THEN (CHOOSE x \in r : TRUE).data ELSE @]]
    BY DEF FixAt, ParityPost
  <2> DEFINE v == (CHOOSE x \in r : TRUE).data
             g == FilesAt(p) # {} /\ InvalidAt(p) = {}
  <2>2. parity' = [l \in Levels |-> [parity[l] EXCEPT ![p] = IF r # {} /\ g THEN v ELSE @]]
    BY <2>1
  <2>3. r # {} => v \in Vectors
    BY <1>4
  <2>4. \A l \in Levels, q \in Positions : parity'[l][q] =
          IF q = p /\ r # {} /\ g THEN v ELSE parity[l][q]
    <3> HIDE DEF v, g
    <3> QED BY <1>5, <2>2, <2>3 DEF ParityFile
  <2>5. parity' \in [Levels -> ParityFile]
    <3> HIDE DEF v, g
    <3> QED BY <1>5, <2>2, <2>3 DEF ParityFile
  <2> QED BY <2>4, <2>5
<1>7. bads' \in [Positions -> SUBSET Disks] /\ todo' \subseteq Positions
  <2>1. Bad(p) \subseteq Disks
    BY DEF Bad, FilesAt
  <2> QED BY <1>1, <2>1 DEF FixTypes, RecoveryTypeOK, FixAt
<1>8. UNCHANGED <<saved, durable, fixes>>
  BY DEF FixAt
<1>9. RecoveryTypeOK'
  BY <1>1, <1>3, <1>6, <1>7, <1>8 DEF FixTypes, RecoveryTypeOK, OnDisk
<1>10. ArrayOk(saved)'
  BY <1>1, <1>8 DEF FixTypes, ArrayOk, Listed, OneBlock, InfoSet
<1>11. FixTypes'
  BY <1>1, <1>8, <1>9, <1>10 DEF FixTypes
<1> QED BY <1>1, <1>2, <1>6, <1>11

(* What the step says of a bad block, and what it writes there.            *)
LEMMA BadBlock ==
    ASSUME RInv, NEW p \in Positions, NEW r, FixAt(p, r), NEW d \in Bad(p)
    PROVE  LET n == Rec(d, p).file
               w == (CHOOSE x \in r : TRUE).data
           IN
           /\ r = {} => outcome'[d][n] = "unrecoverable"
           /\ outcome'[d][n] = "recovered" =>
                /\ live'[d][n] = [data |-> w[d], stamp |-> saved.stamp[d][n]]
                /\ HasUpdatedHash(Rec(d, p)) => w[d] = Rec(d, p).hash
                /\ Rec(d, p).st = "CHG" => ~MaybeOld(Rec(d, p), w[d]) /\ InParity(w, p)
           /\ r # {} /\ Rec(d, p).st = "BLK" => outcome'[d][n] = "recovered"
<1> DEFINE n == Rec(d, p).file
           w == (CHOOSE x \in r : TRUE).data
<1>1. FixTypes /\ RepairOf(p, r) /\ FilePost(p, r)
  BY DEF RInv, FixAt
<1>2. d \in FilesAt(p) /\ d \in Disks
  BY DEF Bad, FilesAt
<1>3. /\ live'[d][n] = IF Damaged(p, r, d) THEN NoFile
                       ELSE IF FixedAt(p, r, d) \/ Promoted(p, d) THEN Written(p, r, d) ELSE live[d][n]
      /\ outcome'[d][n] = IF Damaged(p, r, d) THEN "unrecoverable"
                          ELSE IF FixedAt(p, r, d) \/ Promoted(p, d) THEN "recovered" ELSE outcome[d][n]
  BY <1>1, <1>2, PostFacts
<1>4. FixedAt(p, r, d) <=> ~Damaged(p, r, d)
  BY DEF FixedAt
<1>5. CASE r = {}
  <2>1. Damaged(p, r, d)
    BY <1>5 DEF Damaged
  <2> QED BY <1>3, <1>5, <2>1
<1>6. CASE r # {}
  <2>1. PICK known : \E x \in Repairs(p, known) :
           /\ (CHOOSE y \in r : TRUE) = x
           /\ \A e : (\E y \in r : e \in y.old) <=> e \in x.old
    BY <1>1, <1>6, RepairOfFacts
  <2>2. PICK x \in Repairs(p, known) :
           /\ (CHOOSE y \in r : TRUE) = x
           /\ \A e : (\E y \in r : e \in y.old) <=> e \in x.old
    BY <2>1
  <2>3. Damaged(p, r, d) <=> d \in x.old
    BY <1>6, <2>2 DEF Damaged
  <2>4. Rec(d, p).st = "BLK" => d \notin x.old
    BY <1>1, <2>2, RepairsFacts
  <2>5. w = x.data
    BY <2>2
  <2>6. d \notin x.old =>
           /\ HasUpdatedHash(Rec(d, p)) => w[d] = Rec(d, p).hash
           /\ Rec(d, p).st = "CHG" => ~MaybeOld(Rec(d, p), w[d]) /\ InParity(w, p)
    BY <1>1, <2>2, <2>5, RepairsFacts
  <2>7. Written(p, r, d) = [data |-> w[d], stamp |-> saved.stamp[d][n]]
    BY <1>6 DEF Written
  <2> HIDE DEF w
  <2>8. outcome'[d][n] = "recovered" => d \notin x.old /\ live'[d][n] = Written(p, r, d)
    BY <1>3, <1>4, <2>3
  <2>9. Rec(d, p).st = "BLK" => outcome'[d][n] = "recovered"
    BY <1>3, <1>4, <2>3, <2>4
  <2> QED BY <1>6, <2>6, <2>7, <2>8, <2>9 DEF w
<1> QED BY <1>5, <1>6

(* A file of another position is left alone by the step.                   *)
LEMMA OtherFiles ==
    ASSUME RInv, NEW p \in Positions, NEW r, FixAt(p, r), NEW q \in Positions \ {p},
           NEW d \in FilesAt(q)
    PROVE  LET n == Rec(d, q).file IN
           live'[d][n] = live[d][n] /\ outcome'[d][n] = outcome[d][n]
<1>1. FixTypes /\ FilePost(p, r) /\ d \in Disks
  BY DEF RInv, FixAt, FilesAt
<1>2. Rec(d, q).file \in Names /\ (d \notin FilesAt(p) \/ Rec(d, p).file # Rec(d, q).file)
  BY <1>1, RecType, OnePosition
<1> QED BY <1>1, <1>2, PostOthers

LEMMA SavedFrame ==
    ASSUME saved' = saved
    PROVE  /\ \A d, p : Rec(d, p)' = Rec(d, p)
           /\ \A p : FilesAt(p)' = FilesAt(p) /\ InvalidAt(p)' = InvalidAt(p)
           /\ FixRange' = FixRange
<1>1. \A d, p : Rec(d, p)' = Rec(d, p)
  BY DEF Rec
<1>2. \A p : FilesAt(p)' = FilesAt(p) /\ InvalidAt(p)' = InvalidAt(p)
  BY DEF FilesAt, InvalidAt, Rec
<1>3. FixRange' = FixRange
  BY DEF FixRange, FilesAt, Rec
<1> QED BY <1>1, <1>2, <1>3

(* The files recovered by the step are genuine.                            *)
LEMMA GenuineStep ==
    ASSUME RInv, NEW p \in Positions, NEW r, FixAt(p, r)
    PROVE  RecoveredIsGenuine'
<1>1. saved' = saved /\ durable' = durable /\ had' = had /\ FixTypes
  BY DEF FixAt, RInv
<1>2. bads \in [Positions -> SUBSET Disks] /\ bads' = [bads EXCEPT ![p] = Bad(p)]
  BY <1>1 DEF FixTypes, RecoveryTypeOK, FixAt
<1> SUFFICES ASSUME NEW d \in Disks, NEW q \in Positions, d \in bads'[q],
                    outcome'[d][Rec(d, q).file] = "recovered", PastKnown(d, q)'
             PROVE  Genuine(d, Rec(d, q).file)'
  BY <1>1, SavedFrame DEF RecoveredIsGenuine
<1> DEFINE n == Rec(d, q).file
<1>3. PastKnown(d, q)
  BY <1>1 DEF PastKnown, Rec
<1>4. CASE q # p
  <2>1. d \in bads[q] /\ d \in FilesAt(q)
    BY <1>2, <1>4 DEF RInv
  <2>2. live'[d][n] = live[d][n] /\ outcome'[d][n] = outcome[d][n]
    BY <1>4, <2>1, OtherFiles
  <2>3. Genuine(d, n)
    BY <1>3, <2>1, <2>2 DEF RInv, RecoveredIsGenuine
  <2>4. Genuine(d, n)' = Genuine(d, n)
    BY <1>1, <2>2 DEF Genuine, Rec
  <2> QED BY <2>3, <2>4 DEF Genuine, Rec
<1>5. CASE q = p
  <2> DEFINE w == (CHOOSE x \in r : TRUE).data
  <2>1. d \in Bad(p)
    BY <1>2, <1>5
  <2>2. /\ live'[d][n] = [data |-> w[d], stamp |-> saved.stamp[d][n]]
        /\ HasUpdatedHash(Rec(d, p)) => w[d] = Rec(d, p).hash
        /\ Rec(d, p).st = "CHG" => ~MaybeOld(Rec(d, p), w[d]) /\ InParity(w, p)
    BY <1>5, <2>1, BadBlock
  <2> HIDE DEF w
  <2>3. CASE HasUpdatedHash(Rec(d, p))
    BY <1>1, <1>5, <2>2, <2>3 DEF Genuine, Rec
  <2>4. CASE ~HasUpdatedHash(Rec(d, p))
    <3>1. d \in FilesAt(p)
      BY <2>1 DEF Bad
    <3>2. Rec(d, p).st = "CHG"
      BY <2>4, <3>1 DEF FilesAt, HasFile, HasUpdatedHash
    <3>3. PICK l \in UsableAt(p) : w = parity[l][p]
      BY <2>2, <3>2 DEF InParity
    <3>4. l \in Levels /\ parity[l][p] # NoParity
      BY <3>3 DEF UsableAt
    <3>5. durable[l][p] = parity[l][p]
      BY <3>4 DEF RInv, FixTodo, FixAt
    <3>6. Rec(d, p).hash # Invalid /\ w[d] # Rec(d, p).hash
      BY <2>2, <3>2 DEF MaybeOld
    <3>7. <<d, n, [data |-> w[d], stamp |-> saved.stamp[d][n]]>> \in had
      BY <1>3, <1>5, <3>3, <3>4, <3>5, <3>6 DEF PastKnown
    <3>8. <<d, n, live'[d][n]>> \in had'
      BY <1>1, <2>2, <3>7
    <3> QED BY <1>1, <3>8 DEF Genuine, Rec
  <2> QED BY <2>3, <2>4
<1> QED BY <1>4, <1>5

(* What is written in the parity is what the synced blocks are.            *)
LEMMA RepairFits ==
    ASSUME FixTypes, NEW p \in Positions, NEW r, RepairOf(p, r), r # {}, InvalidAt(p) = {}
    PROVE  LET w == (CHOOSE x \in r : TRUE).data IN
           /\ w # NoParity
           /\ \A d \in Disks : /\ saved.blk[d][p].st = "BLK" => w[d] = saved.blk[d][p].hash
                               /\ saved.blk[d][p].st = "EMPTY" => w[d] = Zero
<1> DEFINE w == (CHOOSE x \in r : TRUE).data
<1>1. PICK known : \E x \in Repairs(p, known) : (CHOOSE y \in r : TRUE) = x
  BY RepairOfFacts
<1>2. PICK x \in Repairs(p, known) : (CHOOSE y \in r : TRUE) = x
  BY <1>1
<1>3. x \in IfUpdated(p, known) /\ w = x.data
  BY <1>2, RepairsFacts
<1> HIDE DEF w
<1>4. /\ w \in Vectors
      /\ \A d \in Disks \ Bad(p) : w[d] = Read(d, p)
      /\ \A d \in Bad(p) : HasUpdatedHash(Rec(d, p)) => w[d] = Rec(d, p).hash
  BY <1>3, IfUpdatedFacts
<1>5. w # NoParity
  BY <1>4, ArrayAssumption
<1>6. ASSUME NEW d \in Disks, Rec(d, p).st = "BLK" PROVE w[d] = Rec(d, p).hash
  <2>1. HasUpdatedHash(Rec(d, p))
    BY <1>6 DEF HasUpdatedHash
  <2> QED BY <1>4, <1>6, <2>1, BadFacts
<1>7. ASSUME NEW d \in Disks, Rec(d, p).st = "EMPTY" PROVE w[d] = Zero
  <2>1. d \notin FilesAt(p)
    BY <1>7 DEF FilesAt, HasFile
  <2>2. d \notin Bad(p) /\ Read(d, p) = Zero
    BY <2>1, BadFacts
  <2> QED BY <1>4, <2>2
<1> QED BY <1>5, <1>6, <1>7 DEF w, Rec

LEMMA ParityFitsStep ==
    ASSUME RInv, NEW p \in Positions, NEW r, FixAt(p, r)
    PROVE  ParityFits'
<1>1. saved' = saved /\ durable' = durable /\ cut' = cut /\ FixTypes /\ RepairOf(p, r)
  BY DEF FixAt, RInv
<1> DEFINE w == (CHOOSE x \in r : TRUE).data
<1>2. \A l \in Levels, q \in Positions :
        \/ parity'[l][q] = parity[l][q]
        \/ q = p /\ r # {} /\ InvalidAt(p) = {} /\ parity'[l][q] = w
  BY FixAtTypes
<1>3. r # {} /\ InvalidAt(p) = {} => Fits(saved, p, w)
  BY <1>1, RepairFits DEF Fits
<1> HIDE DEF w
<1>4. \A q \in Positions \ cut, l \in Levels :
        /\ parity'[l][q] # NoParity => Fits(saved, q, parity'[l][q])
        /\ durable[l][q] # NoParity => Fits(saved, q, durable[l][q])
  BY <1>2, <1>3 DEF RInv, ParityFits
<1> QED BY <1>1, <1>4 DEF ParityFits, Fits

(* After the step the parity of the position is right if nothing is lost.  *)
LEMMA RestoredHere ==
    ASSUME RInv, NEW p \in Positions, NEW r, FixAt(p, r)
    PROVE  RestoredAt(p)'
<1>1. saved' = saved /\ FixTypes /\ RepairOf(p, r)
  BY DEF FixAt, RInv
<1> SUFFICES ASSUME InvalidAt(p) = {},
                    \A d \in FilesAt(p) : outcome'[d][Rec(d, p).file] # "unrecoverable",
                    \E d \in Disks : saved.blk[d][p].st = "BLK"
             PROVE  \A l \in Levels :
                      /\ parity'[l][p] # NoParity
                      /\ \A d \in Disks :
                           /\ saved.blk[d][p].st = "BLK" => parity'[l][p][d] = saved.blk[d][p].hash
                           /\ saved.blk[d][p].st = "EMPTY" => parity'[l][p][d] = Zero
  BY <1>1, SavedFrame DEF RestoredAt, HoldsAt
<1>2. FilesAt(p) # {}
  BY DEF FilesAt, HasFile, Rec
<1>3. r # {}
  <2> SUFFICES ASSUME r = {} PROVE FALSE
    OBVIOUS
  <2>1. Bad(p) # {}
    <3>1. PICK known : Repairs(p, known) = {}
      BY <1>1 DEF RepairOf
    <3> QED BY <1>1, <3>1, GoodRepairs
  <2>2. PICK d \in Bad(p) : TRUE
    BY <2>1
  <2>3. outcome'[d][Rec(d, p).file] = "unrecoverable"
    BY <2>2, BadBlock
  <2> QED BY <2>2, <2>3 DEF Bad
<1>4. \A l \in Levels : parity'[l][p] = (CHOOSE x \in r : TRUE).data
  BY <1>2, <1>3, FixAtTypes
<1> DEFINE w == (CHOOSE x \in r : TRUE).data
<1>5. /\ w # NoParity
      /\ \A d \in Disks : /\ saved.blk[d][p].st = "BLK" => w[d] = saved.blk[d][p].hash
                          /\ saved.blk[d][p].st = "EMPTY" => w[d] = Zero
  BY <1>1, <1>3, RepairFits
<1>6. \A l \in Levels : parity'[l][p] = w
  BY <1>4
<1> HIDE DEF w
<1> QED BY <1>5, <1>6

(* After the step the synced blocks that were promised are recovered.      *)
LEMMA SureHere ==
    ASSUME RInv, NEW p \in Positions \ cut, NEW r, FixAt(p, r)
    PROVE  SureAt(p)'
<1>1. /\ saved' = saved /\ durable' = durable /\ FixTypes /\ RepairOf(p, r) /\ FilePost(p, r)
      /\ p \in todo /\ pc = "fixing"
  BY DEF FixAt, RInv
<1>2. bads'[p] = Bad(p)
  BY <1>1 DEF FixTypes, RecoveryTypeOK, FixAt
<1> DEFINE w == durable[0][p]
<1>3. SUFFICES ASSUME EnoughAt(p, durable[0][p], bads[p])', NEW d \in Bad(p), Rec(d, p).st = "BLK"
               PROVE  outcome'[d][Rec(d, p).file] = "recovered"
  BY <1>1, <1>2, SavedFrame DEF SureAt
<1>4. /\ w # NoParity /\ \A l \in Levels : durable[l][p] = w
      /\ Cardinality(Bad(p) \cup InvalidAt(p)) <= LevelMax
      /\ NowAt(p, w, bads[p])' \/ PastAt(p, w)'
  BY <1>1, <1>2, <1>3, SavedFrame DEF EnoughAt
<1>5. NowAt(p, w, Bad(p)) \/ PastAt(p, w)
  <2>1. CASE PastAt(p, w)'
    BY <1>1, <2>1, SavedFrame DEF PastAt
  <2>2. CASE NowAt(p, w, bads[p])'
    <3>1. \A e \in InvalidAt(p) : IF e \notin Bad(p) THEN w[e] = Read(e, p)'
                                  ELSE Rec(e, p).st = "REP" => w[e] = Rec(e, p).hash
      BY <1>1, <1>2, <2>2, SavedFrame DEF NowAt
    <3>2. \A e \in InvalidAt(p) \ Bad(p) : Read(e, p)' = Read(e, p)
      BY <1>1, ReadStable DEF InvalidAt
    <3> QED BY <3>1, <3>2 DEF NowAt
  <2> QED BY <1>4, <2>1, <2>2
<1>6. \A l \in Levels : parity[l][p] = w
  BY <1>1, <1>4 DEF RInv, FixTodo
<1> HIDE DEF w
<1>7. Fits(saved, p, w)
  BY <1>4, <1>6, SomeFinite DEF RInv, ParityFits
<1>8. Rescue(p, w)
  BY <1>3, <1>4, <1>6, <1>7 DEF Rescue
<1>9. \A known : Repairs(p, known) # {}
  BY <1>1, <1>5, <1>8, EnoughRescues
<1>10. r # {}
  BY <1>1, <1>9 DEF RepairOf
<1> QED BY <1>3, <1>10, BadBlock

(* The results of the other positions stay.                                *)
LEMMA DoneElsewhere ==
    ASSUME RInv, NEW p \in Positions, NEW r, FixAt(p, r), NEW q \in Positions \ {p}
    PROVE  /\ RestoredAt(q) => RestoredAt(q)'
           /\ SureAt(q) => SureAt(q)'
<1>1. saved' = saved /\ durable' = durable /\ FixTypes /\ FilePost(p, r)
  BY DEF FixAt, RInv
<1>2. \A d \in FilesAt(q) : outcome'[d][Rec(d, q).file] = outcome[d][Rec(d, q).file]
  BY OtherFiles
<1>3. \A l \in Levels : parity'[l][q] = parity[l][q]
  BY FixAtTypes
<1>4. bads'[q] = bads[q] /\ bads[q] \subseteq FilesAt(q)
  BY <1>1 DEF FixTypes, RecoveryTypeOK, FixAt, RInv
<1>5. \A d \in Disks : Read(d, q)' = Read(d, q)
  BY <1>1, ReadStable
<1>6. RestoredAt(q) => RestoredAt(q)'
  <2>1. HoldsAt(q, parity) => HoldsAt(q, parity)'
    BY <1>1, <1>3 DEF HoldsAt
  <2> QED BY <1>1, <1>2, <2>1, SavedFrame DEF RestoredAt
<1>7. SureAt(q) => SureAt(q)'
  <2>1. NowAt(q, durable[0][q], bads[q])' => NowAt(q, durable[0][q], bads[q])
    <3>1. \A e \in InvalidAt(q) : e \in Disks
      BY DEF InvalidAt
    <3> QED BY <1>1, <1>4, <1>5, <3>1, SavedFrame DEF NowAt
  <2>2. PastAt(q, durable[0][q])' => PastAt(q, durable[0][q])
    BY <1>1, SavedFrame DEF PastAt
  <2>3. EnoughAt(q, durable[0][q], bads[q])' => EnoughAt(q, durable[0][q], bads[q])
    BY <1>1, <1>4, <2>1, <2>2, SavedFrame DEF EnoughAt
  <2> QED BY <1>1, <1>2, <1>4, <2>3, SavedFrame DEF SureAt
<1> QED BY <1>6, <1>7

-----------------------------------------------------------------------------
(* The steps                                                               *)

LEMMA FixBlockStep == RInv /\ FixBlock => RInv'
<1> SUFFICES ASSUME RInv, FixBlock PROVE RInv'
  OBVIOUS
<1>1. FixTypes
  BY DEF RInv
<1>2. PICK p \in Positions : \E r : FixAt(p, r)
  BY <1>1, FixBlockAt
<1>3. PICK r : FixAt(p, r)
  BY <1>2
<1>4. /\ UNCHANGED <<saved, cut, durable, pc, fixes, had>> /\ pc = "fixing" /\ p \in todo
      /\ todo' = todo \ {p} /\ bads' = [bads EXCEPT ![p] = Bad(p)]
  BY <1>3 DEF FixAt
<1>5. FixTypes' /\ fixes # 0
  BY <1>3, FixAtTypes
<1>6. bads \in [Positions -> SUBSET Disks] /\ \A q \in Positions : bads[q] \subseteq FilesAt(q)
  BY DEF RInv, FixTypes, RecoveryTypeOK
<1>7. \A q \in Positions : bads'[q] = IF q = p THEN Bad(p) ELSE bads[q]
  BY <1>4, <1>6
<1>8. \A q \in Positions : bads'[q] \subseteq FilesAt(q)'
  BY <1>4, <1>6, <1>7, SavedFrame DEF Bad
<1>9. FixTodo'
  <2>1. todo \subseteq FixRange /\ todo \subseteq Positions
    BY <1>1, <1>4 DEF RInv, FixTodo, FixTypes, RecoveryTypeOK
  <2>2. \A q \in todo' : bads'[q] = {} /\ \A l \in Levels : parity'[l][q] = durable'[l][q]
    <3> SUFFICES ASSUME NEW q \in todo', NEW l \in Levels
                 PROVE  bads'[q] = {} /\ parity'[l][q] = durable'[l][q]
      BY SomeFinite
    <3>1. q \in todo /\ q # p /\ q \in Positions
      BY <1>4, <2>1
    <3>2. parity'[l][q] = parity[l][q]
      BY <1>3, <3>1, FixAtTypes
    <3> QED BY <1>4, <1>7, <3>1, <3>2 DEF RInv, FixTodo
  <2> QED BY <1>4, <2>1, <2>2, SavedFrame DEF FixTodo
<1>10. FixDone'
  <2> SUFFICES ASSUME NEW q \in Positions \ todo'
               PROVE  RestoredAt(q)' /\ (q \notin cut => SureAt(q)')
    BY <1>4 DEF FixDone
  <2>1. CASE q = p
    BY <1>3, <2>1, RestoredHere, SureHere
  <2>2. CASE q # p
    <3>1. q \notin todo
      BY <1>4, <2>2
    <3>2. RestoredAt(q) /\ (q \notin cut => SureAt(q))
      BY <1>4, <3>1 DEF RInv, FixDone
    <3> QED BY <1>3, <2>2, <3>2, DoneElsewhere
  <2> QED BY <2>1, <2>2
<1>11. ParityFits' /\ RecoveredIsGenuine'
  BY <1>3, ParityFitsStep, GenuineStep
<1> QED BY <1>4, <1>5, <1>8, <1>9, <1>10, <1>11 DEF RInv

LEMMA FixRangeType == FixRange \subseteq Positions /\ \A p \in Positions : FilesAt(p) # {} => p \in FixRange
<1> DEFINE P == {p \in Positions : FilesAt(p) # {}}
<1>1. /\ Blocks(P) \in 0 .. PosMax
      /\ \A p \in P : p < Blocks(P)
  BY BlocksBound
<1>2. FixRange = 0 .. Blocks(P) - 1
  BY DEF FixRange
<1> HIDE DEF P
<1>3. PosMax \in Nat /\ Positions = 0 .. PosMax - 1
  BY ArrayAssumption DEF Positions
<1>4. FixRange \subseteq Positions /\ \A p \in P : p \in Nat /\ p < Blocks(P) => p \in FixRange
  BY <1>1, <1>2, <1>3
<1>5. \A p \in Positions : p \in Nat
  BY <1>3
<1> QED BY <1>1, <1>4, <1>5 DEF P

(* What a sync leaves is what fix relies on.                               *)
SyncLeft ==
    /\ saved \in State /\ ArrayOk(saved) /\ live \in [Disks -> [Names -> OnDisk]]
    /\ parity \in [Levels -> ParityFile] /\ durable \in [Levels -> ParityFile]
    /\ todo \subseteq Positions /\ pc \in Pcs /\ ParityFits

LEMMA SyncFacts == IInv => SyncLeft
<1> SUFFICES ASSUME IInv PROVE SyncLeft
  OBVIOUS
<1>1. live \in [Disks -> [Names -> OnDisk]]
  BY DEF IInv, TypeOK, OnDisk
<1>2. ParityFits
  BY DEF IInv, SavedInv, ParityFits
<1> QED BY <1>1, <1>2 DEF IInv, TypeOK, SyncLeft

LEMMA SyncFactsNext == IInv' => SyncLeft'
BY SyncFacts, PTL

LEMMA SyncStep ==
    RInv /\ fixes = 0 /\ Next /\ UNCHANGED fixVars /\ had' = had \cup History(live') => RInv'
<1> SUFFICES ASSUME RInv, fixes = 0, Next, UNCHANGED fixVars PROVE RInv'
  OBVIOUS
<1>1. IInv' /\ UNCHANGED <<quarantined, outcome, bads, fixes>> /\ bads = [p \in Positions |-> {}]
  BY StepIInv DEF RInv, fixVars
<1>2. /\ saved' \in State /\ ArrayOk(saved)' /\ live' \in [Disks -> [Names -> OnDisk]]
      /\ parity' \in [Levels -> ParityFile] /\ durable' \in [Levels -> ParityFile]
      /\ todo' \subseteq Positions /\ pc' \in Pcs /\ ParityFits'
  BY <1>1, SyncFactsNext DEF SyncLeft
<1>3. RecoveryTypeOK'
  BY <1>1, <1>2 DEF RInv, FixTypes, RecoveryTypeOK, OnDisk
<1>4. FixTypes'
  BY <1>1, <1>2, <1>3 DEF FixTypes
<1>5. FixTodo' /\ FixDone'
  BY <1>2 DEF FixTodo, FixDone, Pcs
<1>6. RecoveredIsGenuine' /\ \A p \in Positions : bads'[p] \subseteq FilesAt(p)'
  BY <1>1 DEF RecoveredIsGenuine
<1> QED BY <1>1, <1>2, <1>4, <1>5, <1>6 DEF RInv

LEMMA StartFixStep == RInv /\ (\E D \in SUBSET Disks, L \in SUBSET Levels : StartFix(D, L)) => RInv'
<1> SUFFICES ASSUME RInv, NEW D \in SUBSET Disks, NEW L \in SUBSET Levels, StartFix(D, L)
             PROVE  RInv'
  OBVIOUS
<1>1. /\ fixes' = fixes + 1 /\ fixes < MaxFix /\ pc' = "fixing" /\ todo' = FixRange
      /\ live' = [d \in Disks |-> [n \in Names |-> IF d \in D THEN NoFile ELSE live[d][n]]]
      /\ parity' = [l \in Levels |-> [p \in Positions |->
                      IF l \in L THEN NoParity ELSE parity[l][p]]]
      /\ durable' = parity'
      /\ outcome' = [d \in Disks |-> [n \in Names |-> "none"]]
      /\ bads' = [p \in Positions |-> {}]
      /\ UNCHANGED <<saved, cut, quarantined, had>>
  BY DEF StartFix, savedVars
<1>2. FixTypes /\ fixes \in 0 .. MaxFix /\ saved \in State
  BY DEF RInv, FixTypes, RecoveryTypeOK
<1>3. fixes' \in 0 .. MaxFix /\ fixes' # 0
  BY <1>1, <1>2, RecoveryAssumption
<1>4. NoFile \in OnDisk
  BY IndexTypes DEF NoFile, OnDisk, Data
<1>5. live' \in [Disks -> [Names -> OnDisk]]
  BY <1>1, <1>2, <1>4 DEF FixTypes, RecoveryTypeOK, OnDisk
<1>6. parity' \in [Levels -> ParityFile]
  BY <1>1, <1>2 DEF FixTypes, RecoveryTypeOK, ParityFile
<1>7. RecoveryTypeOK'
  <2>1. {live', quarantined'} \subseteq [Disks -> [Names -> OnDisk]]
    BY <1>1, <1>2, <1>5 DEF FixTypes, RecoveryTypeOK, OnDisk
  <2>2. todo' \subseteq Positions /\ saved' \in State
    BY <1>1, <1>2, FixRangeType
  <2>3. outcome' \in [Disks -> [Names -> {"none", "recovered", "unrecoverable"}]]
    BY <1>1
  <2>4. bads' \in [Positions -> SUBSET Disks] /\ pc' \in Pcs \cup {"fixing", "fixed"}
    BY <1>1
  <2> QED BY <1>3, <1>6, <2>1, <2>2, <2>3, <2>4 DEF RecoveryTypeOK, OnDisk
<1>8. FixTypes'
  <2>1. ArrayOk(saved)'
    BY <1>1, <1>2 DEF FixTypes, ArrayOk, Listed, OneBlock, InfoSet
  <2> QED BY <1>1, <1>6, <1>7, <2>1 DEF FixTypes
<1>9. ParityFits'
  <2>1. \A l \in Levels, p \in Positions : parity'[l][p] = IF l \in L THEN NoParity ELSE parity[l][p]
    BY <1>1
  <2>2. \A p \in Positions \ cut, l \in Levels : parity'[l][p] # NoParity => Fits(saved, p, parity'[l][p])
    BY <2>1 DEF RInv, ParityFits
  <2> QED BY <1>1, <2>2 DEF ParityFits, Fits
<1>10. FixTodo'
  <2>1. \A p \in todo' : p \in Positions
    BY <1>1, FixRangeType
  <2> QED BY <1>1, <2>1, SavedFrame DEF FixTodo
<1>11. FixDone'
  <2> SUFFICES ASSUME NEW p \in Positions \ todo' PROVE RestoredAt(p)' /\ SureAt(p)'
    BY DEF FixDone
  <2>1. FilesAt(p) = {} /\ bads'[p] = {}
    BY <1>1, FixRangeType
  <2>2. ~\E d \in Disks : saved.blk[d][p].st = "BLK"
    BY <2>1 DEF FilesAt, HasFile, Rec
  <2>3. RestoredAt(p)'
    BY <1>1, <2>2 DEF RestoredAt, HoldsAt
  <2>4. SureAt(p)'
    BY <2>1 DEF SureAt
  <2> QED BY <2>3, <2>4
<1>12. RecoveredIsGenuine' /\ \A p \in Positions : bads'[p] \subseteq FilesAt(p)'
  BY <1>1 DEF RecoveredIsGenuine
<1> QED BY <1>3, <1>8, <1>9, <1>10, <1>11, <1>12 DEF RInv

(* The results are about the files, the parity and what fix said of them.  *)
LEMMA DoneFrame ==
    ASSUME UNCHANGED <<live, saved, parity, durable, quarantined, outcome, bads>>, NEW p
    PROVE  /\ RestoredAt(p) => RestoredAt(p)'
           /\ SureAt(p) => SureAt(p)'
<1>1. \A d : Read(d, p)' = Read(d, p)
  BY DEF Read, Readable, Held, FilesAt, Rec
<1>2. \A w, bad : PastAt(p, w)' = PastAt(p, w) /\ NowAt(p, w, bad)' = NowAt(p, w, bad)
  BY <1>1, SavedFrame DEF PastAt, NowAt
<1>3. \A w, bad : EnoughAt(p, w, bad)' = EnoughAt(p, w, bad)
  BY <1>2, SavedFrame DEF EnoughAt
<1>4. RestoredAt(p) => RestoredAt(p)'
  BY SavedFrame DEF RestoredAt, HoldsAt
<1> QED BY <1>3, <1>4, SavedFrame DEF SureAt

(* The end of fix, and the exit, change no file and no parity.             *)
LEMMA FixFrame ==
    ASSUME RInv, fixes # 0, todo' \subseteq Positions,
           UNCHANGED <<live, saved, cut, parity, durable, quarantined, outcome, bads, fixes, had>>,
           pc' = "off" \/ (pc = "fixing" /\ todo = {} /\ todo' = {} /\ pc' = "fixed")
    PROVE  RInv'
<1>1. FixTypes'
  <2>1. RecoveryTypeOK'
    BY DEF RInv, FixTypes, RecoveryTypeOK, Pcs
  <2>2. ArrayOk(saved)'
    BY DEF RInv, FixTypes, ArrayOk, Listed, OneBlock, InfoSet
  <2> QED BY <2>1, <2>2 DEF RInv, FixTypes
<1>2. ParityFits' /\ RecoveredIsGenuine'
  <2>1. ParityFits'
    BY DEF RInv, ParityFits, Fits
  <2>2. RecoveredIsGenuine'
    BY ZenonT(60) DEF RInv, RecoveredIsGenuine, PastKnown, Genuine, Rec
  <2> QED BY <2>1, <2>2
<1>3. \A p \in Positions : bads'[p] \subseteq FilesAt(p)'
  BY SavedFrame DEF RInv
<1>4. FixTodo'
  BY SavedFrame DEF RInv, FixTodo
<1>5. FixDone'
  <2>1. CASE pc' = "off"
    BY <2>1 DEF FixDone
  <2>2. CASE pc = "fixing" /\ todo = {} /\ todo' = {} /\ pc' = "fixed"
    <3>1. \A p \in Positions : RestoredAt(p) /\ (p \notin cut => SureAt(p))
      BY <2>2 DEF RInv, FixDone
    <3> QED BY <3>1, DoneFrame DEF FixDone
  <2> QED BY <2>1, <2>2
<1> QED BY <1>1, <1>2, <1>3, <1>4, <1>5 DEF RInv

LEMMA FixEndStep == RInv /\ (FixEnd \/ FixExit) => RInv'
<1> SUFFICES ASSUME RInv, FixEnd \/ FixExit PROVE RInv'
  OBVIOUS
<1>1. fixes # 0
  <2>1. fixes = 0 => pc \in Pcs
    BY DEF RInv, IInv, TypeOK
  <2>2. pc \in {"fixing", "fixed"}
    BY DEF FixEnd, FixExit
  <2> QED BY <2>1, <2>2 DEF Pcs
<1>2. UNCHANGED <<live, saved, cut, parity, durable, quarantined, outcome, bads, fixes, had>>
  BY DEF FixEnd, FixExit, userVars, diskVars, savedVars, fixVars
<1>3. /\ todo' \subseteq Positions
      /\ pc' = "off" \/ (pc = "fixing" /\ todo = {} /\ todo' = {} /\ pc' = "fixed")
  BY DEF FixEnd, FixExit, Gone
<1> QED BY <1>1, <1>2, <1>3, FixFrame

LEMMA InitRInv == InitRecovery => RInv
<1> SUFFICES ASSUME InitRecovery PROVE RInv
  OBVIOUS
<1>1. IInv /\ SyncLeft
  BY InitIInv, SyncFacts DEF InitRecovery
<1>2. /\ quarantined = [d \in Disks |-> [n \in Names |-> NoFile]]
      /\ outcome = [d \in Disks |-> [n \in Names |-> "none"]]
      /\ bads = [p \in Positions |-> {}] /\ fixes = 0
  BY DEF InitRecovery
<1>3. NoFile \in OnDisk /\ fixes \in 0 .. MaxFix
  BY <1>2, IndexTypes, RecoveryAssumption DEF NoFile, OnDisk, Data
<1>4. RecoveryTypeOK
  <2>1. /\ quarantined \in [Disks -> [Names -> OnDisk]]
        /\ outcome \in [Disks -> [Names -> {"none", "recovered", "unrecoverable"}]]
        /\ bads \in [Positions -> SUBSET Disks]
    BY <1>2, <1>3
  <2> QED BY <1>1, <1>3, <2>1 DEF SyncLeft, RecoveryTypeOK, OnDisk
<1>5. FixTypes
  BY <1>1, <1>2, <1>4 DEF FixTypes, SyncLeft
<1>6. FixTodo /\ FixDone
  BY <1>1 DEF SyncLeft, FixTodo, FixDone, Pcs
<1>7. RecoveredIsGenuine /\ \A p \in Positions : bads[p] \subseteq FilesAt(p)
  BY <1>2 DEF RecoveredIsGenuine
<1> QED BY <1>1, <1>2, <1>5, <1>6, <1>7 DEF RInv, SyncLeft

LEMMA StepRInv == RInv /\ [NextRecovery]_allVars => RInv'
<1>1. RInv /\ UNCHANGED allVars => RInv'
  <2> SUFFICES ASSUME RInv, UNCHANGED allVars PROVE RInv'
    OBVIOUS
  <2>1. UNCHANGED vars /\ UNCHANGED <<fixVars, had>>
    BY DEF allVars
  <2>2. UNCHANGED <<live, saved, cut, parity, durable, pc, todo, quarantined, outcome, bads, fixes, had>>
    BY <2>1 DEF vars, userVars, diskVars, savedVars, fixVars
  <2>3. fixes = 0 => IInv'
    BY <2>1, StepIInv DEF RInv
  <2>4. CASE fixes = 0
    <3>1. bads' = [p \in Positions |-> {}] /\ IInv' /\ SyncLeft'
      BY <2>2, <2>3, <2>4, SyncFactsNext DEF RInv
    <3>2. RecoveryTypeOK'
      BY <2>2 DEF RInv, FixTypes, RecoveryTypeOK
    <3>3. FixTypes'
      BY <2>2, <3>1, <3>2 DEF RInv, FixTypes, SyncLeft
    <3>4. FixTodo' /\ FixDone'
      BY <3>1 DEF SyncLeft, FixTodo, FixDone, Pcs
    <3>5. RecoveredIsGenuine' /\ \A p \in Positions : bads'[p] \subseteq FilesAt(p)'
      BY <3>1 DEF RecoveredIsGenuine
    <3> QED BY <3>1, <3>3, <3>4, <3>5 DEF RInv, SyncLeft
  <2>5. CASE fixes # 0
    <3>1. FixTypes' /\ ParityFits'
      <4>1. RecoveryTypeOK'
        BY <2>2 DEF RInv, FixTypes, RecoveryTypeOK
      <4>2. ArrayOk(saved)'
        BY <2>2 DEF RInv, FixTypes, ArrayOk, Listed, OneBlock, InfoSet
      <4>3. ParityFits'
        BY <2>2 DEF RInv, ParityFits, Fits
      <4> QED BY <2>2, <4>1, <4>2, <4>3 DEF RInv, FixTypes
    <3>2. FixTodo' /\ \A p \in Positions : bads'[p] \subseteq FilesAt(p)'
      BY <2>2, SavedFrame DEF RInv, FixTodo
    <3>3. RecoveredIsGenuine'
      BY <2>2, ZenonT(60) DEF RInv, RecoveredIsGenuine, PastKnown, Genuine, Rec
    <3>4. FixDone'
      BY <2>2, DoneFrame DEF RInv, FixDone
    <3> QED BY <2>2, <2>5, <3>1, <3>2, <3>3, <3>4 DEF RInv
  <2> QED BY <2>4, <2>5
<1>2. RInv /\ NextRecovery => RInv'
  BY SyncStep, StartFixStep, FixBlockStep, FixEndStep DEF NextRecovery, Fix
<1> QED BY <1>1, <1>2

LEMMA RecoveryInvariant == SpecRecovery => []RInv
BY InitRInv, StepRInv, PTL DEF SpecRecovery

-----------------------------------------------------------------------------
(* The results                                                             *)

(* Fix keeps every variable in its type: what it writes in the files and   *)
(* in the parity is data or the garbage of a failed recovery, never the    *)
(* special hashes, and the positions it processes are in the array.        *)
THEOREM RecoveryTypeCorrect == SpecRecovery => []RecoveryTypeOK
<1>1. RInv => RecoveryTypeOK
  BY DEF RInv, FixTypes
<1> QED BY <1>1, RecoveryInvariant, PTL

(* What fix gives back under its name and its time is data that the file   *)
(* had or the data of its hash, with any combination of the levels and     *)
(* whatever sync was interrupted before, as long as the past hash of the   *)
(* block is the one in the parity or unknown.                              *)
THEOREM RecoveredFilesGenuine == SpecRecovery => []RecoveredIsGenuine
<1>1. RInv => RecoveredIsGenuine
  BY DEF RInv
<1> QED BY <1>1, RecoveryInvariant, PTL

(* The synced blocks are recovered, by one of the two strategies, when the *)
(* levels hold the same parity, of now or of the past, and are not fewer   *)
(* than the blocks bad or unsynced.                                        *)
THEOREM SyncedAreRecovered == SpecRecovery => []SyncedBlocksRecovered
<1>1. RInv => SyncedBlocksRecovered
  <2> SUFFICES ASSUME RInv, pc = "fixed" PROVE \A p \in Positions \ cut : SureAt(p)
    BY DEF SyncedBlocksRecovered, SureAt, EnoughAt, NowAt, PastAt
  <2> QED BY DEF RInv, FixDone, FixTodo
<1> QED BY <1>1, RecoveryInvariant, PTL

(* When fix lost nothing, every level of the parity is again what the      *)
(* content file promises, the levels that were lost included.              *)
THEOREM ParityIsRestored == SpecRecovery => []FixRestoresParity
<1>1. RInv => FixRestoresParity
  <2> SUFFICES ASSUME RInv, pc = "fixed" PROVE \A p \in Positions : RestoredAt(p)
    BY DEF FixRestoresParity, RestoredAt
  <2> QED BY DEF RInv, FixDone, FixTodo
<1> QED BY <1>1, RecoveryInvariant, PTL

=============================================================================
