--------------------------- MODULE SnapshotProofs ---------------------------
(***************************************************************************)
(* The invariants of Snapshot, for any number of disks, files, changes and *)
(* syncs.  The proof follows what each phase of a sync knows: what is in   *)
(* the scan snapshots when the state is saved, in the pending ones when    *)
(* the parity is computed, and in the stable ones after a complete sync.   *)
(***************************************************************************)
EXTENDS Snapshot, TLAPS

Files == [Names -> 0 .. MaxOps]
Block == [st : {"EMPTY", "BLK", "CHG", "DELETED"}, file : 0 .. MaxOps, past : 0 .. MaxOps]
State == [blk : [Disks -> [Names -> Block]],
          dealloc : [Disks -> SUBSET (Names \X (0 .. MaxOps))]]

Pending == {"delpending", "renscan", "process"}
Commit == {"delstable", "renpending", "end"}

(* The types, and what the place in the sync says of the counters.         *)
TypeInv ==
    /\ TypeOK
    /\ needWrite \in BOOLEAN /\ failed \in BOOLEAN /\ todo \in SUBSET Names
    /\ ops \in 0 .. MaxOps
    /\ pc \in {"scan", "scanned", "write"} => begun < MaxBegun
    /\ pc \in Pending \cup {"sync"} \cup Commit => begun >= 1
    /\ pc \in {"off", "scanned", "write", "process", "sync", "end"} => disk = 1

Synced(m, d, n) == m.blk[d][n].st = "BLK"
WithSynced(m, n) == \E d \in Disks : Synced(m, d, n)
WithFile(m, n) == \E d \in Disks : HasFile(m.blk[d][n])
Unsynced(m, n) == \E d \in Disks : Invalid(m.blk[d][n])
InParity(m, n) == \A d \in Disks : parity[n][d] = m.blk[d][n].file

(* A snapshot that has the files of the state m.                           *)
Holds(d, k, m) == vol[d][k] # None /\ \A n \in Names : vol[d][k][n] = m.blk[d][n].file

BlockOk(b) == (~HasFile(b) => b.file = 0) /\ (b.st = "EMPTY" => b.past = 0)
BlocksOk(m) == \A d \in Disks, n \in Names : BlockOk(m.blk[d][n])

(* From the scan to the rename, the scan snapshots are what was scanned.   *)
ScanInv ==
    /\ pc = "scan" => \A d \in Disks : d < disk => vol[d]["scan"] # None
    /\ pc = "scanned" => \A d \in Disks : vol[d]["scan"] # None
    /\ pc \in {"write", "delpending", "renscan"} =>
           \A d \in Disks : d >= disk => Holds(d, "scan", mem)

(* The state in memory, and the one saved.                                 *)
MemInv ==
    /\ pc \in {"off", "scan", "scanned"} => mem = saved
    /\ pc = "write" =>
           \A d \in Disks :
               /\ \A n \in Names :
                      mem.blk[d][n] = Scanned(saved.blk[d][n], vol[d]["scan"][n])
               /\ mem.dealloc[d] = saved.dealloc[d] \cup
                      {<<n, saved.blk[d][n].file>> : n \in
                          {n \in Names : /\ Synced(saved, d, n)
                                         /\ vol[d]["scan"][n] # saved.blk[d][n].file}}
    /\ pc \in {"write", "sync"} /\ ~needWrite => mem.blk = saved.blk
    /\ pc \in Pending => mem.blk = saved.blk
    /\ pc \in Pending \cup {"sync"} => \A d \in Disks : saved.dealloc[d] \subseteq mem.dealloc[d]

(* The parity is computed only with the pending snapshots of all the disks.*)
PendingInv ==
    /\ pc \in {"delpending", "renscan"} /\ ~failed =>
           \A d \in Disks : d < disk => Holds(d, "pending", mem)
    /\ (pc = "process" /\ ~failed) \/ pc = "sync" => \A d \in Disks : Holds(d, "pending", mem)

(* A position left is unsynced as it was saved; one done has no block left *)
(* to sync.                                                                *)
TodoInv ==
    pc = "sync" =>
        /\ \A n \in todo : /\ WithFile(mem, n) /\ Unsynced(mem, n)
                           /\ \A d \in Disks : saved.blk[d][n] = mem.blk[d][n]
        /\ \A n \in Names \ todo : WithFile(mem, n) => ~Unsynced(mem, n)

(* After the sync all is in the parity, and in the pending snapshots or in *)
(* the stable ones that took their place.                                  *)
CommitInv ==
    pc \in Commit =>
        /\ \A n \in Names : WithFile(saved, n) => ~Unsynced(saved, n) /\ InParity(saved, n)
        /\ \A d \in Disks : \/ Holds(d, "pending", saved)
                            \/ vol[d]["pending"] = None /\ Holds(d, "stable", saved)
        /\ pc # "end" => \A d \in Disks : d >= disk => Holds(d, "pending", saved)
        /\ ~failed => \A d \in Disks : pc = "end" \/ d < disk => vol[d]["pending"] = None

(* What is synced is in the parity.                                        *)
ParityHas(m) ==
    \A n \in Names :
        /\ \A d \in Disks : Synced(m, d, n) => parity[n][d] = m.blk[d][n].file
        /\ WithFile(m, n) /\ ~Unsynced(m, n) => InParity(m, n)

FrozenInv ==
    \A d \in Disks : vol[d]["pending"] # None =>
        \A n \in Names : Synced(saved, d, n) => vol[d]["pending"][n] = saved.blk[d][n].file

StableHas(d, n, v) == vol[d]["stable"] # None /\ vol[d]["stable"][n] = v

(* Since the last complete sync.                                           *)
CleanInv ==
    begun = 0 =>
        /\ \A d \in Disks : vol[d]["pending"] = None
        /\ \A n \in Names : WithFile(saved, n) =>
               /\ ~Unsynced(saved, n) /\ InParity(saved, n)
               /\ \A d \in Disks : StableHas(d, n, saved.blk[d][n].file)

(* A block as it was before the sync, in the parity and in stable, and one *)
(* as it is after.                                                         *)
Old(b) == IF b.st = "BLK" THEN b.file ELSE IF Invalid(b) THEN b.past ELSE 0

OldBlock(d, n) ==
    LET b == saved.blk[d][n] IN
    /\ parity[n][d] = Old(b)
    /\ StableHas(d, n, Old(b))
    /\ Invalid(b) /\ b.past # 0 => <<n, b.past>> \in saved.dealloc[d]
    /\ b.st = "DELETED" => b.past # 0

NewBlock(d, n) ==
    /\ parity[n][d] = saved.blk[d][n].file
    /\ vol[d]["pending"] # None \/ StableHas(d, n, saved.blk[d][n].file)

(* Until a second sync begins, each position with a synced block is either *)
(* all as before the sync, or all as after it.                             *)
RebuildInv ==
    /\ begun = 1 /\ pc \in Pending =>
           \A n \in Names : WithSynced(saved, n) => \A d \in Disks : OldBlock(d, n)
    /\ begun <= 1 =>
           /\ \A d \in Disks : vol[d]["pending"] # None => Holds(d, "pending", saved)
           /\ \A n \in Names : WithSynced(saved, n) =>
                  \/ \A d \in Disks : OldBlock(d, n)
                  \/ \A d \in Disks : NewBlock(d, n)

IInv ==
    /\ TypeInv /\ BlocksOk(saved) /\ BlocksOk(mem)
    /\ ScanInv /\ MemInv /\ PendingInv /\ TodoInv /\ CommitInv
    /\ ParityHas(saved) /\ ParityHas(mem)
    /\ FrozenInv /\ CleanInv /\ RebuildInv

-----------------------------------------------------------------------------
(* The constants, and the blocks.                                          *)
LEMMA ConstantFacts ==
    /\ 1 \in Disks /\ DiskMax \in Disks /\ Disks \subseteq Nat
    /\ None \notin Files /\ NoFiles \in Files
    /\ Empty \in Block /\ BlockOk(Empty) /\ ~HasFile(Empty) /\ ~Invalid(Empty)
<1>1. Files \subseteq [Names -> Nat]
  BY SnapshotAssumption DEF Files
<1>2. 0 \in 0 .. MaxOps
  BY SnapshotAssumption
<1> QED
  BY <1>1, <1>2, SnapshotAssumption
  DEF Disks, NoFiles, Files, Empty, Block, BlockOk, HasFile, Invalid

LEMMA TypeFacts ==
    ASSUME TypeInv
    PROVE  /\ saved \in State /\ mem \in State
           /\ live \in [Disks -> Files] /\ vol \in [Disks -> [Kinds -> Files \cup {None}]]
           /\ parity \in [Names -> [Disks -> 0 .. MaxOps]]
           /\ \A d \in Disks, n \in Names : saved.blk[d][n] \in Block /\ mem.blk[d][n] \in Block
BY DEF TypeInv, TypeOK, State, Block, Files

(* What the scan makes of a block: its file is the version found, and what *)
(* the parity may have of it is remembered.                                *)
LEMMA ScannedFacts ==
    ASSUME NEW b \in Block, BlockOk(b), NEW v \in 0 .. MaxOps
    PROVE  /\ Scanned(b, v) \in Block /\ BlockOk(Scanned(b, v))
           /\ Scanned(b, v).file = v
           /\ Old(Scanned(b, v)) = Old(b)
           /\ ~Invalid(Scanned(b, v)) => Scanned(b, v) = b
           /\ Invalid(Scanned(b, v)) => \/ Scanned(b, v).past = 0 \/ Invalid(b)
                                        \/ b.st = "BLK" /\ b.file # v /\ Scanned(b, v).past = b.file
           /\ ~Invalid(b) /\ Scanned(b, v).st = "DELETED" => Scanned(b, v).past # 0
<1> DEFINE past == IF b.st = "BLK" THEN b.file ELSE b.past
<1>1. CASE v = b.file
  <2>1. Scanned(b, v) = b
    BY <1>1 DEF Scanned
  <2> QED
    BY <1>1, <2>1 DEF Invalid
<1>2. CASE v # b.file /\ v = 0
  <2>1. Scanned(b, v) = [st |-> "DELETED", file |-> 0, past |-> past]
    BY <1>2 DEF Scanned
  <2>2. b.st # "EMPTY"
    BY <1>2 DEF BlockOk, HasFile
  <2> QED
    BY <1>2, <2>1, <2>2 DEF Block, BlockOk, HasFile, Invalid, Old
<1>3. CASE v # b.file /\ v # 0
  <2>1. Scanned(b, v) = [st |-> "CHG", file |-> v, past |-> past]
    BY <1>3 DEF Scanned
  <2> QED
    BY <1>3, <2>1 DEF Block, BlockOk, HasFile, Invalid, Old
<1> QED
  BY <1>1, <1>2, <1>3

(* Cleaning forgets only deleted blocks, at the positions without files.   *)
LEMMA CleanedFacts ==
    ASSUME NEW m \in State, BlocksOk(m)
    PROVE  /\ Cleaned(m) \in State /\ BlocksOk(Cleaned(m))
           /\ Cleaned(m).dealloc = m.dealloc
           /\ \A d \in Disks, n \in Names :
                  /\ WithFile(m, n) => Cleaned(m).blk[d][n] = m.blk[d][n]
                  /\ ~WithFile(m, n) => Cleaned(m).blk[d][n] = Empty
                  /\ Cleaned(m).blk[d][n].file = m.blk[d][n].file
                  /\ Synced(Cleaned(m), d, n) <=> Synced(m, d, n)
           /\ \A n \in Names : WithFile(Cleaned(m), n) <=> WithFile(m, n)
<1> DEFINE blk == [d \in Disks |-> [n \in Names |->
                      IF WithFile(m, n) THEN m.blk[d][n] ELSE Empty]]
<1>1. Cleaned(m) = [m EXCEPT !.blk = blk]
  BY DEF Cleaned, WithFile
<1>2. Cleaned(m).blk = blk /\ Cleaned(m).dealloc = m.dealloc
  BY <1>1 DEF State
<1>3. blk \in [Disks -> [Names -> Block]]
  BY ConstantFacts DEF State
<1>4. Cleaned(m) \in State
  BY <1>1, <1>3 DEF State
<1>5. ASSUME NEW d \in Disks, NEW n \in Names
      PROVE  /\ WithFile(m, n) => Cleaned(m).blk[d][n] = m.blk[d][n]
             /\ ~WithFile(m, n) => Cleaned(m).blk[d][n] = Empty
             /\ Cleaned(m).blk[d][n].file = m.blk[d][n].file
             /\ Synced(Cleaned(m), d, n) <=> Synced(m, d, n)
             /\ BlockOk(Cleaned(m).blk[d][n])
  <2>1. Cleaned(m).blk[d][n] = IF WithFile(m, n) THEN m.blk[d][n] ELSE Empty
    BY <1>2
  <2>2. CASE WithFile(m, n)
    BY <2>1, <2>2 DEF Synced, BlocksOk
  <2>3. CASE ~WithFile(m, n)
    <3>1. ~HasFile(m.blk[d][n]) /\ m.blk[d][n].file = 0
      BY <2>3 DEF WithFile, BlocksOk, BlockOk
    <3>2. ~Synced(m, d, n)
      BY <3>1 DEF HasFile, Synced
    <3> QED
      BY <2>1, <2>3, <3>1, <3>2, ConstantFacts DEF Empty, Synced
  <2> QED
    BY <2>2, <2>3
<1>6. ASSUME NEW n \in Names PROVE WithFile(Cleaned(m), n) <=> WithFile(m, n)
  <2>1. CASE WithFile(m, n)
    BY <1>5, <2>1 DEF WithFile
  <2>2. CASE ~WithFile(m, n)
    <3>1. \A d \in Disks : Cleaned(m).blk[d][n] = Empty
      BY <1>5, <2>2
    <3> QED
      BY <2>2, <3>1, ConstantFacts DEF WithFile
  <2> QED
    BY <2>1, <2>2
<1>7. BlocksOk(Cleaned(m))
  BY <1>5 DEF BlocksOk
<1> QED
  BY <1>2, <1>4, <1>5, <1>6, <1>7

(* Cleaning keeps what the parity has.                                     *)
LEMMA CleanedParity ==
    ASSUME NEW m \in State, BlocksOk(m), ParityHas(m)
    PROVE  ParityHas(Cleaned(m))
<1> SUFFICES ASSUME NEW n \in Names
             PROVE  /\ \A d \in Disks : Synced(Cleaned(m), d, n) =>
                           parity[n][d] = Cleaned(m).blk[d][n].file
                    /\ WithFile(Cleaned(m), n) /\ ~Unsynced(Cleaned(m), n) =>
                           InParity(Cleaned(m), n)
  BY DEF ParityHas
<1>1. \A d \in Disks : /\ Cleaned(m).blk[d][n].file = m.blk[d][n].file
                       /\ Synced(Cleaned(m), d, n) <=> Synced(m, d, n)
  BY CleanedFacts
<1>2. WithFile(m, n) => \A d \in Disks : Cleaned(m).blk[d][n] = m.blk[d][n]
  BY CleanedFacts
<1>3. WithFile(Cleaned(m), n) <=> WithFile(m, n)
  BY CleanedFacts
<1>4. WithFile(m, n) /\ ~Unsynced(Cleaned(m), n) => ~Unsynced(m, n)
  BY <1>2 DEF Unsynced
<1> QED
  BY <1>1, <1>3, <1>4 DEF ParityHas, InParity

-----------------------------------------------------------------------------
LEMMA InitIInv == Init => IInv
<1> SUFFICES ASSUME Init PROVE IInv
  OBVIOUS
<1>1. saved \in State /\ mem = saved
      /\ \A d \in Disks, n \in Names : saved.blk[d][n] = Empty
  BY ConstantFacts DEF Init, State
<1>2. TypeOK
  BY <1>1, ConstantFacts, SnapshotAssumption DEF Init, TypeOK, State, Block, Files, Kinds
<1>3. TypeInv
  <2>1. ops \in 0 .. MaxOps
    BY SnapshotAssumption DEF Init
  <2>2. needWrite = FALSE /\ failed = FALSE /\ todo = {} /\ disk = 1 /\ pc = "off"
    BY DEF Init
  <2> QED
    BY <1>2, <2>1, <2>2 DEF TypeInv, Pending, Commit
<1>4. BlocksOk(saved) /\ \A n \in Names : ~WithFile(saved, n) /\ ~WithSynced(saved, n)
  BY <1>1, ConstantFacts DEF BlocksOk, WithFile, WithSynced, Synced, Empty
<1>5. \A d \in Disks, n \in Names : ~Synced(saved, d, n)
  BY <1>4 DEF WithSynced
<1>6. \A d \in Disks : vol[d]["pending"] = None
  BY DEF Init, Kinds
<1>7. ParityHas(saved)
  BY <1>4, <1>5 DEF ParityHas
<1> QED
  BY <1>1, <1>3, <1>4, <1>5, <1>6, <1>7
  DEF Init, IInv, ScanInv, MemInv, PendingInv, TodoInv, CommitInv, FrozenInv, CleanInv,
      RebuildInv, Pending, Commit

(* The parts about what is saved, the parity and the snapshots it was      *)
(* computed from.                                                          *)
Kept == /\ BlocksOk(saved) /\ ParityHas(saved)
        /\ FrozenInv /\ CleanInv /\ RebuildInv

LEMMA KeptSteps ==
    ASSUME IInv, saved' = saved, parity' = parity, begun' = begun,
           pc' \in Pending => pc \in Pending,
           \A d \in Disks : /\ vol'[d]["pending"] = vol[d]["pending"]
                            /\ vol'[d]["stable"] = vol[d]["stable"]
    PROVE  Kept'
<1>1. \A d \in Disks, n \in Names : OldBlock(d, n)' = OldBlock(d, n)
  BY DEF OldBlock, StableHas
<1>2. \A d \in Disks, n \in Names : NewBlock(d, n)' = NewBlock(d, n)
  BY DEF NewBlock, StableHas
<1>3. BlocksOk(saved)' /\ ParityHas(saved)'
  BY DEF IInv, BlocksOk, ParityHas, Synced, WithFile, Unsynced, InParity
<1>4. FrozenInv'
  BY DEF IInv, FrozenInv, Synced
<1>5. CleanInv'
  BY DEF IInv, CleanInv, WithFile, Unsynced, InParity, StableHas
<1>6. RebuildInv'
  BY <1>1, <1>2 DEF IInv, RebuildInv, WithSynced, Synced, Holds
<1> QED
  BY <1>3, <1>4, <1>5, <1>6 DEF Kept

(* A process that ends leaves nothing but what is saved.                   *)
LEMMA ExitFacts ==
    ASSUME IInv, Exit, Kept'
    PROVE  /\ BlocksOk(mem)' /\ ParityHas(mem)'
           /\ ScanInv' /\ MemInv' /\ PendingInv' /\ TodoInv' /\ CommitInv'
<1>1. pc' = "off" /\ mem' = saved'
  BY DEF Exit
<1>2. BlocksOk(mem)' /\ ParityHas(mem)'
  BY <1>1 DEF Kept, BlocksOk, ParityHas, Synced, WithFile, Unsynced, InParity
<1> QED
  BY <1>1, <1>2
  DEF ScanInv, MemInv, PendingInv, TodoInv, CommitInv, Pending, Commit

LEMMA Collect ==
    ASSUME TypeInv', Kept', BlocksOk(mem)', ParityHas(mem)',
           ScanInv', MemInv', PendingInv', TodoInv', CommitInv'
    PROVE  IInv'
BY DEF IInv, Kept

(* A change of a variable that only the types are about.                   *)
LEMMA SameSteps ==
    ASSUME IInv, UNCHANGED <<diskVars, pc, disk, mem, needWrite, todo, failed, begun>>,
           live' \in [Disks -> Files], ops' \in 0 .. MaxOps
    PROVE  IInv'
<1> USE DEF diskVars
<1>1. TypeInv'
  BY DEF IInv, TypeInv, TypeOK, Files
<1>2. Kept'
  BY KeptSteps
<1>3. BlocksOk(mem)' /\ ParityHas(mem)'
  BY DEF IInv, BlocksOk, ParityHas, Synced, WithFile, Unsynced, InParity
<1>4. ScanInv' /\ PendingInv' /\ TodoInv'
  BY DEF IInv, ScanInv, PendingInv, TodoInv, Holds, Unsynced, WithFile
<1>5. MemInv'
  BY DEF IInv, MemInv, Synced
<1>6. CommitInv'
  BY DEF IInv, CommitInv, Holds, Unsynced, WithFile, InParity
<1> QED
  BY <1>1, <1>2, <1>3, <1>4, <1>5, <1>6, Collect

LEMMA ChangeStep == IInv /\ (\E d \in Disks, n \in Names : Change(d, n)) => IInv'
<1> SUFFICES ASSUME IInv, NEW d \in Disks, NEW n \in Names, Change(d, n) PROVE IInv'
  OBVIOUS
<1>1. ops \in 0 .. MaxOps /\ ops' = ops + 1 /\ ops < MaxOps
  BY DEF IInv, TypeInv, Change
<1>2. ops' \in 0 .. MaxOps /\ MaxOps \in Nat
  BY <1>1, SnapshotAssumption
<1>3. PICK v \in {0, ops + 1} : live' = [live EXCEPT ![d][n] = v]
  BY DEF Change
<1>4. v \in 0 .. MaxOps
  BY <1>1, <1>2
<1>5. live' \in [Disks -> Files]
  BY <1>3, <1>4, TypeFacts DEF IInv, Files
<1> QED
  BY <1>2, <1>5, SameSteps DEF Change

LEMMA ExitSteps == IInv /\ (Interrupt \/ SyncExit) => IInv'
<1> SUFFICES ASSUME IInv, Interrupt \/ SyncExit PROVE IInv'
  OBVIOUS
<1> USE DEF diskVars
<1>1. /\ Exit /\ UNCHANGED <<live, vol, saved, parity, ops, syncs>>
      /\ begun' = begun \/ (begun' = 0 /\ pc = "end" /\ ~failed)
  BY DEF Interrupt, SyncExit
<1>2. TypeInv'
  <2>1. begun' \in 0 .. MaxBegun
    BY <1>1, SnapshotAssumption DEF IInv, TypeInv, TypeOK
  <2> QED
    BY <1>1, <2>1, ConstantFacts DEF IInv, Exit, TypeInv, TypeOK, Pending, Commit
<1>3. Kept'
  <2>1. CASE begun' = begun
    BY <1>1, <2>1, KeptSteps DEF Exit, Pending
  <2>2. CASE begun' = 0 /\ pc = "end" /\ ~failed
    <3>1. /\ \A d \in Disks : vol[d]["pending"] = None /\ Holds(d, "stable", saved)
          /\ \A n \in Names : WithFile(saved, n) => ~Unsynced(saved, n) /\ InParity(saved, n)
      <4>1. \A d \in Disks : vol[d]["pending"] = None
        BY <2>2 DEF IInv, CommitInv, Commit
      <4> QED
        BY <2>2, <4>1 DEF IInv, CommitInv, Commit, Holds
    <3>2. BlocksOk(saved)' /\ ParityHas(saved)'
      BY <1>1 DEF IInv, BlocksOk, ParityHas, Synced, WithFile, Unsynced, InParity
    <3>3. FrozenInv'
      BY <1>1, <3>1 DEF FrozenInv
    <3>4. CleanInv'
      BY <1>1, <3>1 DEF CleanInv, StableHas, Holds, WithFile, Unsynced, InParity
    <3>5. RebuildInv'
      <4>1. \A n \in Names : WithSynced(saved, n) => \A d \in Disks : NewBlock(d, n)'
        BY <1>1, <3>1
        DEF WithSynced, Synced, WithFile, HasFile, InParity, NewBlock, StableHas, Holds
      <4>2. \A n \in Names : WithSynced(saved, n)' = WithSynced(saved, n)
        BY <1>1 DEF WithSynced, Synced
      <4> QED
        BY <1>1, <2>2, <3>1, <4>1, <4>2 DEF RebuildInv
    <3> QED
      BY <3>2, <3>3, <3>4, <3>5 DEF Kept
  <2> QED
    BY <1>1, <2>1, <2>2
<1> QED
  BY <1>1, <1>2, <1>3, ExitFacts, Collect

(* One snapshot of one disk.                                               *)
LEMMA VolFacts ==
    ASSUME TypeInv, NEW e \in Disks, NEW k \in Kinds, NEW v \in Files \cup {None},
           vol' = [vol EXCEPT ![e][k] = v]
    PROVE  /\ vol' \in [Disks -> [Kinds -> Files \cup {None}]]
           /\ \A d \in Disks, j \in Kinds :
                  vol'[d][j] = IF d = e /\ j = k THEN v ELSE vol[d][j]
BY TypeFacts

LEMMA NextDiskFacts ==
    ASSUME TypeInv, NEW p, NextDisk(p)
    PROVE  /\ disk' \in Disks
           /\ \/ disk = DiskMax /\ disk' = 1 /\ pc' = p
              \/ disk < DiskMax /\ disk' = disk + 1 /\ pc' = pc
<1>1. disk \in 1 .. DiskMax /\ DiskMax \in Nat \ {0}
  BY SnapshotAssumption DEF TypeInv, TypeOK, Disks
<1> QED
  BY <1>1 DEF NextDisk, Disks

LEMMA StartSyncStep == IInv /\ StartSync => IInv'
<1> SUFFICES ASSUME IInv, StartSync PROVE IInv'
  OBVIOUS
<1> USE DEF diskVars
<1>1. /\ UNCHANGED <<live, vol, saved, parity, ops, disk, mem, needWrite, todo, failed, begun>>
      /\ pc = "off" /\ pc' = "scan" /\ begun < MaxBegun
  BY DEF StartSync
<1>2. TypeInv'
  BY <1>1 DEF IInv, TypeInv, TypeOK, Pending, Commit
<1>3. Kept'
  BY <1>1, KeptSteps DEF Pending
<1>4. BlocksOk(mem)' /\ ParityHas(mem)'
  BY <1>1 DEF IInv, BlocksOk, ParityHas, Synced, WithFile, Unsynced, InParity
<1>5. disk = 1
  BY <1>1 DEF IInv, TypeInv
<1>6. ScanInv' /\ MemInv' /\ PendingInv' /\ TodoInv' /\ CommitInv'
  BY <1>1, <1>5
  DEF IInv, ScanInv, MemInv, PendingInv, TodoInv, CommitInv, Pending, Commit, Disks
<1> QED
  BY <1>2, <1>3, <1>4, <1>6, Collect

LEMMA SnapshotScanStep == IInv /\ SnapshotScan => IInv'
<1> SUFFICES ASSUME IInv, SnapshotScan PROVE IInv'
  OBVIOUS
<1>1. pc = "scan" /\ UNCHANGED <<live, saved, parity, ops, syncs, begun>> /\ disk \in Disks
  BY DEF IInv, SnapshotScan, TypeInv, TypeOK
<1>2. "scan" \in Kinds /\ "pending" \in Kinds /\ "stable" \in Kinds
  BY DEF Kinds
<1>3. CASE /\ vol' = [vol EXCEPT ![disk]["scan"] = live[disk]]
           /\ NextDisk("scanned") /\ UNCHANGED <<mem, needWrite, todo, failed>>
  <2>1. live[disk] \in Files
    BY <1>1, TypeFacts DEF IInv
  <2>2. /\ vol' \in [Disks -> [Kinds -> Files \cup {None}]]
        /\ \A d \in Disks, j \in Kinds :
               vol'[d][j] = IF d = disk /\ j = "scan" THEN live[disk] ELSE vol[d][j]
    BY <1>1, <1>2, <1>3, <2>1, VolFacts DEF IInv
  <2>3. /\ disk' \in Disks
        /\ \/ disk = DiskMax /\ disk' = 1 /\ pc' = "scanned"
           \/ disk < DiskMax /\ disk' = disk + 1 /\ pc' = "scan"
    BY <1>1, <1>3, NextDiskFacts DEF IInv
  <2>4. TypeInv'
    BY <1>1, <1>3, <2>2, <2>3 DEF IInv, TypeInv, TypeOK, Files, Pending, Commit
  <2>5. Kept'
    BY <1>1, <1>2, <2>2, <2>3, KeptSteps DEF Pending
  <2>6. BlocksOk(mem)' /\ ParityHas(mem)'
    BY <1>1, <1>3 DEF IInv, BlocksOk, ParityHas, Synced, WithFile, Unsynced, InParity
  <2>7. \A d \in Disks : d <= disk => vol'[d]["scan"] # None
    <3>1. \A d \in Disks : d <= disk => d < disk \/ d = disk
      BY <1>1 DEF Disks
    <3> QED
      BY <1>1, <1>2, <2>1, <2>2, <3>1, ConstantFacts DEF IInv, ScanInv
  <2>8. ScanInv'
    BY <2>3, <2>7, <1>1 DEF ScanInv, Disks
  <2>9. MemInv' /\ PendingInv' /\ TodoInv' /\ CommitInv'
    BY <1>1, <1>3, <2>3 DEF IInv, MemInv, PendingInv, TodoInv, CommitInv, Pending, Commit
  <2> QED
    BY <2>4, <2>5, <2>6, <2>8, <2>9, Collect
<1>4. CASE vol' = [vol EXCEPT ![disk]["scan"] = None] /\ Exit
  <2>1. /\ vol' \in [Disks -> [Kinds -> Files \cup {None}]]
        /\ \A d \in Disks, j \in Kinds :
               vol'[d][j] = IF d = disk /\ j = "scan" THEN None ELSE vol[d][j]
    BY <1>1, <1>2, <1>4, VolFacts DEF IInv
  <2>2. TypeInv'
    BY <1>1, <1>4, <2>1, ConstantFacts DEF IInv, TypeInv, TypeOK, Files, Exit, Pending, Commit
  <2>3. Kept'
    BY <1>1, <1>2, <1>4, <2>1, KeptSteps DEF Exit, Pending
  <2> QED
    BY <1>4, <2>2, <2>3, ExitFacts, Collect
<1> QED
  BY <1>3, <1>4 DEF SnapshotScan

LEMMA ScanStep == IInv /\ Scan => IInv'
<1> SUFFICES ASSUME IInv, Scan PROVE IInv'
  OBVIOUS
<1> USE DEF diskVars
<1>1. /\ UNCHANGED <<live, vol, saved, parity, ops, syncs, disk, todo, failed, begun>>
      /\ pc = "scanned" /\ pc' = "write" /\ mem = saved /\ disk = 1
      /\ \A d \in Disks : vol[d]["scan"] # None
  BY DEF IInv, Scan, TypeInv, ScanInv, MemInv
<1>2. /\ mem'.blk = [d \in Disks |-> [n \in Names |->
                        Scanned(saved.blk[d][n], vol[d]["scan"][n])]]
      /\ mem'.dealloc = [d \in Disks |-> saved.dealloc[d] \cup Deallocated(d)]
      /\ mem' = [blk |-> mem'.blk, dealloc |-> mem'.dealloc]
  BY <1>1 DEF Scan
<1>3. \A d \in Disks, n \in Names :
          vol[d]["scan"][n] \in 0 .. MaxOps /\ saved.blk[d][n] \in Block /\ BlockOk(saved.blk[d][n])
  <2>1. \A d \in Disks : vol[d]["scan"] \in Files
    BY <1>1, TypeFacts DEF IInv, Kinds
  <2> QED
    BY <2>1, TypeFacts DEF IInv, Files, BlocksOk
<1>4. \A d \in Disks, n \in Names :
          /\ mem'.blk[d][n] = Scanned(saved.blk[d][n], vol[d]["scan"][n])
          /\ mem'.blk[d][n] \in Block /\ BlockOk(mem'.blk[d][n])
          /\ mem'.blk[d][n].file = vol[d]["scan"][n]
          /\ ~Invalid(mem'.blk[d][n]) => mem'.blk[d][n] = saved.blk[d][n]
  BY <1>2, <1>3, ScannedFacts
<1>5. \A d \in Disks : Deallocated(d) = {<<n, saved.blk[d][n].file>> : n \in
          {n \in Names : /\ Synced(saved, d, n)
                         /\ vol[d]["scan"][n] # saved.blk[d][n].file}}
  BY <1>1 DEF Deallocated, Synced
<1>6. mem' \in State
  <2>1. mem'.blk \in [Disks -> [Names -> Block]]
    BY <1>2, <1>4
  <2>2. \A d \in Disks : Deallocated(d) \in SUBSET (Names \X (0 .. MaxOps))
    BY <1>3, <1>5 DEF Block
  <2>3. mem'.dealloc \in [Disks -> SUBSET (Names \X (0 .. MaxOps))]
    BY <1>2, <2>2, TypeFacts DEF IInv, State
  <2> QED
    BY <1>2, <2>1, <2>3 DEF State
<1>7. TypeInv'
  <2>1. needWrite' \in BOOLEAN
    BY DEF Scan
  <2> QED
    BY <1>1, <1>6, <2>1 DEF IInv, TypeInv, TypeOK, State, Block, Pending, Commit
<1>8. Kept'
  BY <1>1, KeptSteps DEF Pending
<1>9. BlocksOk(mem)' /\ ParityHas(mem)'
  <2>1. ASSUME NEW d \in Disks, NEW n \in Names, Synced(mem', d, n)
        PROVE  parity[n][d] = mem'.blk[d][n].file
    BY <1>4, <2>1 DEF IInv, ParityHas, Synced, Invalid
  <2>2. ASSUME NEW n \in Names, WithFile(mem', n), ~Unsynced(mem', n) PROVE InParity(mem', n)
    <3>1. \A d \in Disks : mem'.blk[d][n] = saved.blk[d][n]
      BY <1>4, <2>2 DEF Unsynced
    <3>2. WithFile(saved, n) /\ ~Unsynced(saved, n)
      BY <2>2, <3>1 DEF WithFile, Unsynced
    <3> QED
      BY <3>1, <3>2 DEF IInv, ParityHas, InParity
  <2>3. \A n \in Names : /\ \A d \in Disks : Synced(mem', d, n) => parity'[n][d] = mem'.blk[d][n].file
                         /\ WithFile(mem', n) /\ ~Unsynced(mem', n) =>
                                \A d \in Disks : parity'[n][d] = mem'.blk[d][n].file
    BY <1>1, <2>1, <2>2 DEF InParity
  <2> QED
    BY <1>4, <2>3 DEF BlocksOk, ParityHas, Synced, WithFile, Unsynced, InParity
<1>10. ScanInv'
  BY <1>1, <1>4 DEF ScanInv, Holds
<1>11. MemInv'
  <2>1. ~needWrite' => mem'.blk = saved'.blk
    BY <1>1 DEF Scan
  <2>2. \A d \in Disks : mem'.dealloc[d] = saved.dealloc[d] \cup {<<n, saved.blk[d][n].file>> :
          n \in {n \in Names : Synced(saved, d, n) /\ vol[d]["scan"][n] # saved.blk[d][n].file}}
    BY <1>2, <1>5
  <2>3. \A d \in Disks, n \in Names : Synced(saved, d, n)' <=> Synced(saved, d, n)
    BY <1>1 DEF Synced
  <2> QED
    BY <1>1, <1>4, <2>1, <2>2, <2>3 DEF MemInv, Pending
<1>12. PendingInv' /\ TodoInv' /\ CommitInv'
  BY <1>1 DEF PendingInv, TodoInv, CommitInv, Commit
<1> QED
  BY <1>7, <1>8, <1>9, <1>10, <1>11, <1>12, Collect

LEMMA WriteStep == IInv /\ Write => IInv'
<1> SUFFICES ASSUME IInv, Write PROVE IInv'
  OBVIOUS
<1>1. /\ UNCHANGED <<live, vol, parity, ops, syncs, disk, todo, failed>>
      /\ pc = "write" /\ pc' = "delpending" /\ begun' = begun + 1
      /\ begun \in Nat /\ begun < MaxBegun /\ disk = 1
  BY DEF IInv, Write, TypeInv, TypeOK
<1>2. /\ saved \in State /\ mem \in State
      /\ \A d \in Disks : Holds(d, "scan", mem)
  BY <1>1, TypeFacts DEF IInv, ScanInv, Disks
<1>3. /\ saved' \in State /\ mem' \in State /\ mem'.blk = saved'.blk
      /\ mem'.dealloc = mem.dealloc /\ needWrite' = FALSE
      /\ saved'.dealloc = mem.dealloc \/ (saved' = saved /\ mem.blk = saved.blk)
      /\ \A d \in Disks : saved'.dealloc[d] \subseteq mem.dealloc[d]
      /\ BlocksOk(saved)' /\ BlocksOk(mem)' /\ ParityHas(saved)' /\ ParityHas(mem)'
      /\ \A d \in Disks, n \in Names :
             /\ saved'.blk[d][n].file = mem.blk[d][n].file
             /\ Synced(saved', d, n) => WithFile(mem, n)
             /\ WithFile(mem, n) => saved'.blk[d][n] = mem.blk[d][n]
  <2>1. CASE needWrite
    <3>1. saved' = Cleaned(mem) /\ mem' = Cleaned(mem) /\ needWrite' = FALSE
      BY <2>1 DEF Write, StateWrite
    <3>2. ParityHas(Cleaned(mem)) /\ BlocksOk(Cleaned(mem))
      BY <1>2, CleanedParity, CleanedFacts DEF IInv
    <3>3. BlocksOk(saved)' /\ BlocksOk(mem)' /\ ParityHas(saved)' /\ ParityHas(mem)'
      BY <1>1, <3>1, <3>2 DEF BlocksOk, ParityHas, Synced, WithFile, Unsynced, InParity
    <3>4. \A d \in Disks, n \in Names :
             /\ saved'.blk[d][n].file = mem.blk[d][n].file
             /\ Synced(saved', d, n) => WithFile(mem, n)
             /\ WithFile(mem, n) => saved'.blk[d][n] = mem.blk[d][n]
      <4>1. \A d \in Disks, n \in Names : Synced(mem, d, n) => WithFile(mem, n)
        BY DEF Synced, WithFile, HasFile
      <4> QED
        BY <1>2, <3>1, <4>1, CleanedFacts DEF IInv
    <3>5. saved' \in State /\ saved'.dealloc = mem.dealloc
      BY <1>2, <3>1, CleanedFacts DEF IInv
    <3> QED
      BY <3>1, <3>3, <3>4, <3>5
  <2>2. CASE ~needWrite
    <3>1. saved' = saved /\ mem' = mem /\ needWrite' = FALSE /\ mem.blk = saved.blk
      BY <1>1, <2>2 DEF Write, IInv, MemInv, TypeInv
    <3>2. BlocksOk(saved)' /\ BlocksOk(mem)' /\ ParityHas(saved)' /\ ParityHas(mem)'
      BY <1>1, <3>1 DEF IInv, BlocksOk, ParityHas, Synced, WithFile, Unsynced, InParity
    <3>3. \A d \in Disks : saved.dealloc[d] \subseteq mem.dealloc[d]
      BY <1>1 DEF IInv, MemInv
    <3>4. \A d \in Disks, n \in Names : Synced(saved, d, n) => WithFile(mem, n)
      BY <3>1 DEF Synced, WithFile, HasFile
    <3> QED
      BY <1>2, <3>1, <3>2, <3>3, <3>4
  <2> QED
    BY <2>1, <2>2
<1>4. \A d \in Disks, n \in Names :
          /\ saved.blk[d][n] \in Block /\ BlockOk(saved.blk[d][n])
          /\ vol[d]["scan"][n] \in 0 .. MaxOps
          /\ mem.blk[d][n] = Scanned(saved.blk[d][n], vol[d]["scan"][n])
  <2>1. \A d \in Disks : vol[d]["scan"] \in Files
    BY <1>2, TypeFacts DEF IInv, Kinds, Holds
  <2> QED
    BY <1>1, <2>1, TypeFacts DEF IInv, Files, BlocksOk, MemInv
<1>5. \A d \in Disks, n \in Names : Synced(saved', d, n) =>
          Synced(saved, d, n) /\ saved'.blk[d][n] = saved.blk[d][n]
  <2> SUFFICES ASSUME NEW d \in Disks, NEW n \in Names, Synced(saved', d, n)
               PROVE  Synced(saved, d, n) /\ saved'.blk[d][n] = saved.blk[d][n]
    OBVIOUS
  <2>1. saved'.blk[d][n] = Scanned(saved.blk[d][n], vol[d]["scan"][n])
    BY <1>3, <1>4
  <2>2. ~Invalid(saved'.blk[d][n])
    BY DEF Synced, Invalid
  <2> QED
    BY <1>4, <2>1, <2>2, ScannedFacts DEF Synced
<1>6. TypeInv'
  <2>1. begun' \in 0 .. MaxBegun /\ begun' >= 1
    BY <1>1, SnapshotAssumption
  <2> QED
    BY <1>1, <1>3, <2>1 DEF IInv, TypeInv, TypeOK, State, Block
<1>7. Kept'
  <2>1. FrozenInv'
    <3>1. \A d \in Disks, n \in Names : Synced(saved, d, n)' <=> Synced(saved', d, n)
      BY DEF Synced
    <3> QED
      BY <1>1, <1>5, <3>1 DEF IInv, FrozenInv
  <2>2. CleanInv'
    BY <1>1 DEF CleanInv
  <2>3. RebuildInv'
    <3> SUFFICES ASSUME begun' <= 1
                 PROVE  /\ \A d \in Disks : vol'[d]["pending"] = None
                        /\ \A n \in Names : WithSynced(saved', n) =>
                               \A d \in Disks : OldBlock(d, n)'
      <4>1. \A n \in Names : WithSynced(saved, n)' <=> WithSynced(saved', n)
        BY DEF WithSynced, Synced
      <4> QED
        BY <1>1, <4>1 DEF RebuildInv
    <3>1. begun = 0
      BY <1>1
    <3>2. \A d \in Disks : vol[d]["pending"] = None
      BY <3>1 DEF IInv, CleanInv
    <3>3. ASSUME NEW n \in Names, WithSynced(saved', n), NEW d \in Disks PROVE OldBlock(d, n)'
      <4> DEFINE b == saved.blk[d][n]
                 c == saved'.blk[d][n]
      <4>1. WithFile(saved, n) /\ WithFile(mem, n)
        BY <1>3, <1>5, <3>3 DEF WithSynced, WithFile, HasFile, Synced
      <4>2. /\ ~Unsynced(saved, n) /\ parity[n][d] = b.file
            /\ StableHas(d, n, b.file)
        BY <3>1, <4>1 DEF IInv, CleanInv, InParity
      <4>3. c = Scanned(b, vol[d]["scan"][n])
        BY <1>3, <1>4, <4>1
      <4>4. Old(b) = b.file /\ ~Invalid(b)
        BY <1>4, <4>2 DEF Unsynced, Old, BlockOk, HasFile, Invalid, Block
      <4>5. Old(c) = b.file
        BY <1>4, <4>3, <4>4, ScannedFacts
      <4>6. ASSUME Invalid(c), c.past # 0 PROVE <<n, c.past>> \in saved'.dealloc[d]
        <5>1. /\ b.st = "BLK" /\ b.file # vol[d]["scan"][n] /\ c.past = b.file
          BY <1>4, <4>3, <4>4, <4>6, ScannedFacts
        <5>2. <<n, b.file>> \in mem.dealloc[d]
          BY <1>1, <5>1 DEF IInv, MemInv, Synced
        <5>3. mem.blk # saved.blk
          BY <4>6, <4>4, <1>3, <4>1
        <5> QED
          BY <1>3, <5>1, <5>2, <5>3
      <4>7. vol'[d]["stable"] # None /\ vol'[d]["stable"][n] = Old(c)
        BY <1>1, <4>2, <4>5 DEF StableHas
      <4>8. parity'[n][d] = Old(c)
        BY <1>1, <4>2, <4>5
      <4>9. c.st = "DELETED" => c.past # 0
        BY <1>4, <4>3, <4>4, ScannedFacts
      <4> QED
        BY <4>6, <4>7, <4>8, <4>9 DEF OldBlock, StableHas, Old, Invalid
    <3> QED
      BY <1>1, <3>2, <3>3
  <2> QED
    BY <1>3, <2>1, <2>2, <2>3 DEF Kept
<1>8. ScanInv'
  <2>1. \A d \in Disks : Holds(d, "scan", mem)'
    BY <1>1, <1>2, <1>3 DEF Holds
  <2> QED
    BY <1>1, <2>1 DEF ScanInv
<1>9. MemInv' /\ PendingInv' /\ TodoInv' /\ CommitInv'
  BY <1>1, <1>3 DEF MemInv, PendingInv, TodoInv, CommitInv, Pending, Commit, Disks
<1> QED
  BY <1>3, <1>6, <1>7, <1>8, <1>9, Collect

-----------------------------------------------------------------------------
(* The steps over the snapshots leave the states alone.                    *)
LEMMA SameStates ==
    ASSUME IInv, UNCHANGED <<live, saved, parity, ops, syncs, mem, needWrite, todo, begun>>,
           vol' \in [Disks -> [Kinds -> Files \cup {None}]], disk' \in Disks,
           failed' \in BOOLEAN, begun >= 1, pc' \in Pending \cup Commit,
           pc' \in {"process", "end"} => disk' = 1
    PROVE  /\ TypeInv' /\ CleanInv' /\ TodoInv'
           /\ BlocksOk(saved)' /\ ParityHas(saved)' /\ BlocksOk(mem)' /\ ParityHas(mem)'
<1>1. TypeInv'
  BY DEF IInv, TypeInv, TypeOK, State, Block, Files, Pending, Commit
<1>2. CleanInv' /\ TodoInv'
  BY DEF IInv, TypeInv, TypeOK, CleanInv, TodoInv, Pending, Commit
<1> QED
  BY <1>1, <1>2 DEF IInv, BlocksOk, ParityHas, Synced, WithFile, Unsynced, InParity

(* Before the parity changes, at the disk e.                               *)
LEMMA PendingSteps ==
    ASSUME IInv, pc \in {"delpending", "renscan"},
           UNCHANGED <<live, saved, parity, ops, syncs, mem, needWrite, todo, begun>>,
           vol' \in [Disks -> [Kinds -> Files \cup {None}]], failed' \in BOOLEAN,
           failed => failed', disk' \in Disks,
           \/ pc' = "renscan" /\ disk' = disk
           \/ disk = DiskMax /\ disk' = 1 /\ pc' = "process"
           \/ disk < DiskMax /\ disk' = disk + 1 /\ pc' = "delpending",
           \A d \in Disks : /\ vol'[d]["stable"] = vol[d]["stable"]
                            /\ d # disk => vol'[d] = vol[d],
           \/ vol'[disk]["pending"] = None \/ vol'[disk]["pending"] = vol[disk]["pending"]
           \/ vol'[disk]["pending"] = vol[disk]["scan"],
           pc' = "renscan" => vol'[disk]["scan"] = vol[disk]["scan"],
           ~failed' /\ pc' # "renscan" => vol'[disk]["pending"] = vol[disk]["scan"]
    PROVE  IInv'
<1>1. /\ mem.blk = saved.blk /\ begun >= 1 /\ begun \in Nat /\ disk \in Disks
      /\ \A d \in Disks : d >= disk => Holds(d, "scan", mem)
  BY DEF IInv, TypeInv, TypeOK, MemInv, ScanInv, Pending
<1>2. /\ TypeInv' /\ CleanInv' /\ TodoInv'
      /\ BlocksOk(saved)' /\ ParityHas(saved)' /\ BlocksOk(mem)' /\ ParityHas(mem)'
  <2>1. pc' \in Pending \cup Commit /\ (pc' \in {"process", "end"} => disk' = 1)
    BY DEF Pending
  <2> QED
    BY <1>1, <2>1, SameStates
<1>3. disk \in Nat /\ disk >= disk /\ (\A d \in Disks : d \in Nat)
  BY <1>1 DEF Disks
<1>4. Holds(disk, "scan", mem)
  BY <1>1, <1>3
<1>5. FrozenInv'
  <2> SUFFICES ASSUME NEW d \in Disks, vol'[d]["pending"] # None,
                      NEW n \in Names, Synced(saved, d, n)
               PROVE  vol'[d]["pending"][n] = saved.blk[d][n].file
    BY DEF FrozenInv, Synced
  <2>1. CASE vol'[d]["pending"] = vol[d]["pending"]
    BY <2>1 DEF IInv, FrozenInv
  <2>2. CASE d = disk /\ vol'[d]["pending"] = vol[d]["scan"]
    BY <1>1, <1>4, <2>2 DEF Holds
  <2> QED
    BY <2>1, <2>2
<1>6. RebuildInv'
  <2> SUFFICES ASSUME begun = 1
               PROVE  /\ \A d \in Disks : vol'[d]["pending"] # None =>
                             \A n \in Names : vol'[d]["pending"][n] = saved.blk[d][n].file
                      /\ \A n \in Names : WithSynced(saved, n) =>
                             \A d \in Disks : OldBlock(d, n)'
    <3>1. \A n \in Names : WithSynced(saved, n)' <=> WithSynced(saved, n)
      BY DEF WithSynced, Synced
    <3>2. begun' <= 1 => begun = 1
      BY <1>1
    <3>3. begun' = 1 => begun = 1
      OBVIOUS
    <3> QED
      BY <3>1, <3>2, <3>3 DEF RebuildInv, Holds
  <2>1. ASSUME NEW d \in Disks, vol'[d]["pending"] # None, NEW n \in Names
        PROVE  vol'[d]["pending"][n] = saved.blk[d][n].file
    <3>1. CASE vol'[d]["pending"] = vol[d]["pending"]
      BY <2>1, <3>1 DEF IInv, RebuildInv, Holds
    <3>2. CASE d = disk /\ vol'[d]["pending"] = vol[d]["scan"]
      BY <1>1, <1>4, <3>2 DEF Holds
    <3> QED
      BY <2>1, <3>1, <3>2
  <2>2. \A n \in Names : WithSynced(saved, n) => \A d \in Disks : OldBlock(d, n)
    BY DEF IInv, RebuildInv, Pending
  <2>3. \A d \in Disks, n \in Names : OldBlock(d, n)' = OldBlock(d, n)
    BY DEF OldBlock, StableHas
  <2> QED
    BY <2>1, <2>2, <2>3
<1>7. ScanInv'
  <2>1. CASE pc' = "renscan" /\ disk' = disk
    BY <1>1, <2>1 DEF ScanInv, Holds
  <2>2. CASE disk < DiskMax /\ disk' = disk + 1 /\ pc' = "delpending"
    <3>1. \A d \in Disks : d >= disk' => d >= disk /\ d # disk
      BY <1>3, <2>2
    <3> QED
      BY <1>1, <2>2, <3>1 DEF ScanInv, Holds
  <2>3. CASE pc' = "process"
    BY <2>3 DEF ScanInv
  <2> QED
    BY <2>1, <2>2, <2>3
<1>8. MemInv'
  BY <1>1 DEF IInv, MemInv, Pending
<1>9. PendingInv'
  <2>1. ASSUME ~failed', NEW d \in Disks, d < disk PROVE Holds(d, "pending", mem)'
    <3>1. d # disk
      BY <1>3, <2>1
    <3> QED
      BY <2>1, <3>1 DEF IInv, PendingInv, Holds
  <2>2. ASSUME ~failed', pc' # "renscan", NEW d \in Disks, d = disk
        PROVE  Holds(d, "pending", mem)'
    BY <1>4, <2>2 DEF Holds
  <2>3. CASE pc' = "renscan" /\ disk' = disk
    BY <2>1, <2>3 DEF PendingInv
  <2>4. CASE disk < DiskMax /\ disk' = disk + 1 /\ pc' = "delpending"
    <3>1. ASSUME NEW d \in Disks, d < disk' PROVE d < disk \/ d = disk
      <4>1. d \in Nat /\ disk \in Nat /\ d < disk + 1
        BY <1>3, <2>4, <3>1
      <4> QED
        BY <4>1
    <3> QED
      BY <2>1, <2>2, <2>4, <3>1 DEF PendingInv
  <2>5. CASE disk = DiskMax /\ disk' = 1 /\ pc' = "process"
    <3>1. \A d \in Disks : d < disk \/ d = disk
      BY <1>3, <2>5 DEF Disks
    <3>2. ~failed' => \A d \in Disks : Holds(d, "pending", mem)'
      BY <2>1, <2>2, <2>5, <3>1
    <3> QED
      BY <2>5, <3>2 DEF PendingInv
  <2> QED
    BY <2>3, <2>4, <2>5
<1>10. CommitInv'
  BY DEF CommitInv, Commit
<1> QED
  BY <1>2, <1>5, <1>6, <1>7, <1>8, <1>9, <1>10 DEF IInv

LEMMA SnapshotPendingStep == IInv /\ SnapshotPending => IInv'
<1> SUFFICES ASSUME IInv, SnapshotPending PROVE IInv'
  OBVIOUS
<1>1. /\ disk \in Disks /\ failed \in BOOLEAN /\ TypeInv
      /\ vol \in [Disks -> [Kinds -> Files \cup {None}]]
      /\ "scan" \in Kinds /\ "pending" \in Kinds /\ "stable" \in Kinds
  BY TypeFacts DEF IInv, TypeInv, TypeOK, Kinds
<1>2. CASE Delete("pending", "delpending", "renscan", "process")
  <2>1. /\ pc = "delpending"
        /\ UNCHANGED <<live, saved, parity, ops, syncs, mem, needWrite, todo, begun>>
    BY <1>2 DEF Delete
  <2>2. CASE /\ vol' = [vol EXCEPT ![disk]["pending"] = None] /\ pc' = "renscan"
             /\ UNCHANGED <<disk, failed>>
    <3>1. /\ vol' \in [Disks -> [Kinds -> Files \cup {None}]]
          /\ \A d \in Disks : /\ vol'[d]["stable"] = vol[d]["stable"]
                              /\ d # disk => vol'[d] = vol[d]
          /\ vol'[disk]["pending"] = None /\ vol'[disk]["scan"] = vol[disk]["scan"]
      BY <1>1, <2>2
    <3> QED
      BY <1>1, <2>1, <2>2, <3>1, PendingSteps
  <2>3. CASE failed' = TRUE /\ NextDisk("process") /\ UNCHANGED vol
    <3>1. /\ disk' \in Disks
          /\ \/ disk = DiskMax /\ disk' = 1 /\ pc' = "process"
             \/ disk < DiskMax /\ disk' = disk + 1 /\ pc' = "delpending"
      BY <1>1, <2>1, <2>3, NextDiskFacts
    <3> QED
      BY <1>1, <2>1, <2>3, <3>1, PendingSteps
  <2> QED
    BY <1>2, <2>2, <2>3 DEF Delete
<1>3. CASE Rename("scan", "pending", "renscan", "delpending", "process")
  <2>1. /\ pc = "renscan"
        /\ UNCHANGED <<live, saved, parity, ops, syncs, mem, needWrite, todo, begun>>
    BY <1>3 DEF Rename
  <2>2. /\ disk' \in Disks
        /\ \/ disk = DiskMax /\ disk' = 1 /\ pc' = "process"
           \/ disk < DiskMax /\ disk' = disk + 1 /\ pc' = "delpending"
    BY <1>1, <1>3, SnapshotAssumption DEF Rename, Disks
  <2>3. CASE /\ vol' = [vol EXCEPT ![disk] =
                           [@ EXCEPT !["pending"] = vol[disk]["scan"], !["scan"] = None]]
             /\ UNCHANGED failed
    <3>1. /\ vol' \in [Disks -> [Kinds -> Files \cup {None}]]
          /\ \A d \in Disks : /\ vol'[d]["stable"] = vol[d]["stable"]
                              /\ d # disk => vol'[d] = vol[d]
          /\ vol'[disk]["pending"] = vol[disk]["scan"]
      BY <1>1, <2>3
    <3> QED
      BY <1>1, <2>1, <2>2, <2>3, <3>1, PendingSteps
  <2>4. CASE failed' = TRUE /\ UNCHANGED vol
    BY <1>1, <2>1, <2>2, <2>4, PendingSteps
  <2> QED
    BY <1>3, <2>3, <2>4 DEF Rename
<1> QED
  BY <1>2, <1>3 DEF SnapshotPending

(* While the snapshots are committed, what they hold is all that is needed.*)
LEMMA CommitFacts ==
    ASSUME CommitInv', pc' \in Commit, begun' >= 1
    PROVE  FrozenInv' /\ CleanInv' /\ RebuildInv'
<1>1. /\ \A n \in Names : WithFile(saved, n)' => InParity(saved, n)'
      /\ \A d \in Disks : \/ Holds(d, "pending", saved)'
                          \/ vol'[d]["pending"] = None /\ Holds(d, "stable", saved)'
  BY DEF CommitInv
<1>2. \A d \in Disks : vol'[d]["pending"] # None => Holds(d, "pending", saved)'
  BY <1>1
<1>3. FrozenInv'
  BY <1>2 DEF FrozenInv, Holds
<1>4. CleanInv'
  BY DEF CleanInv
<1>5. \A n \in Names : WithSynced(saved, n)' => \A d \in Disks : NewBlock(d, n)'
  <2> SUFFICES ASSUME NEW n \in Names, WithSynced(saved, n)', NEW d \in Disks
               PROVE  NewBlock(d, n)'
    OBVIOUS
  <2>1. WithFile(saved, n)'
    BY DEF WithSynced, Synced, WithFile, HasFile
  <2>2. parity'[n][d] = saved'.blk[d][n].file
    BY <1>1, <2>1 DEF InParity
  <2>3. vol'[d]["pending"] # None \/ StableHas(d, n, saved.blk[d][n].file)'
    BY <1>1 DEF Holds, StableHas
  <2> QED
    BY <2>2, <2>3 DEF NewBlock
<1>6. pc' \notin Pending
  BY DEF Pending, Commit
<1>7. RebuildInv'
  BY <1>2, <1>5, <1>6 DEF RebuildInv
<1> QED
  BY <1>3, <1>4, <1>7

LEMMA CommitSteps ==
    ASSUME IInv, pc \in {"delstable", "renpending"},
           UNCHANGED <<live, saved, parity, ops, syncs, mem, needWrite, todo, begun>>,
           vol' \in [Disks -> [Kinds -> Files \cup {None}]], failed' \in BOOLEAN,
           failed => failed', disk' \in Disks,
           \/ pc' = "renpending" /\ disk' = disk
           \/ disk = DiskMax /\ disk' = 1 /\ pc' = "end"
           \/ disk < DiskMax /\ disk' = disk + 1 /\ pc' = "delstable",
           \A d \in Disks : d # disk => vol'[d] = vol[d],
           \/ vol'[disk]["pending"] = vol[disk]["pending"]
           \/ /\ vol'[disk]["pending"] = None
              /\ vol'[disk]["stable"] = vol[disk]["pending"],
           pc' = "renpending" => vol'[disk]["pending"] = vol[disk]["pending"],
           ~failed' /\ pc' # "renpending" => vol'[disk]["pending"] = None
    PROVE  IInv'
<1>1. /\ begun >= 1 /\ disk \in Disks /\ disk \in Nat
      /\ pc' \in Commit /\ (\A d \in Disks : d \in Nat)
  BY DEF IInv, TypeInv, TypeOK, Commit, Disks
<1>2. /\ TypeInv' /\ CleanInv' /\ TodoInv'
      /\ BlocksOk(saved)' /\ ParityHas(saved)' /\ BlocksOk(mem)' /\ ParityHas(mem)'
  <2>1. pc' \in Pending \cup Commit /\ (pc' \in {"process", "end"} => disk' = 1)
    BY DEF Pending, Commit
  <2> QED
    BY <1>1, <2>1, SameStates
<1>3. /\ \A n \in Names : WithFile(saved, n) => ~Unsynced(saved, n) /\ InParity(saved, n)
      /\ \A d \in Disks : \/ Holds(d, "pending", saved)
                          \/ vol[d]["pending"] = None /\ Holds(d, "stable", saved)
      /\ \A d \in Disks : d >= disk => Holds(d, "pending", saved)
      /\ ~failed => \A d \in Disks : d < disk => vol[d]["pending"] = None
  BY DEF IInv, CommitInv, Commit
<1>4. ASSUME NEW d \in Disks
      PROVE  \/ Holds(d, "pending", saved)'
             \/ vol'[d]["pending"] = None /\ Holds(d, "stable", saved)'
  <2>1. CASE d # disk
    BY <1>3, <2>1 DEF Holds
  <2>2. CASE d = disk
    <3>1. Holds(d, "pending", saved)
      BY <1>1, <1>3, <2>2
    <3> QED
      BY <2>2, <3>1 DEF Holds
  <2> QED
    BY <2>1, <2>2
<1>5. ASSUME pc' # "end", NEW d \in Disks, d >= disk' PROVE Holds(d, "pending", saved)'
  <2>1. CASE pc' = "renpending" /\ disk' = disk
    <3>1. vol'[d]["pending"] = vol[d]["pending"] /\ Holds(d, "pending", saved)
      BY <1>3, <1>5, <2>1
    <3> QED
      BY <3>1 DEF Holds
  <2>2. CASE disk' = disk + 1
    <3>1. d \in Nat /\ disk \in Nat /\ d >= disk + 1
      BY <1>1, <1>5, <2>2
    <3>2. d >= disk /\ d # disk
      BY <3>1
    <3> QED
      BY <1>3, <3>2 DEF Holds
  <2> QED
    BY <1>5, <2>1, <2>2
<1>6. ASSUME ~failed', NEW d \in Disks, pc' = "end" \/ d < disk' PROVE vol'[d]["pending"] = None
  <2>1. d < disk => vol'[d]["pending"] = None
    BY <1>1, <1>3, <1>6
  <2>2. CASE pc' = "renpending" /\ disk' = disk
    BY <1>6, <2>1, <2>2
  <2>3. CASE pc' # "renpending"
    <3>1. d < disk \/ d = disk
      BY <1>1, <1>6, <2>3 DEF Disks
    <3> QED
      BY <1>6, <2>1, <2>3, <3>1
  <2> QED
    BY <2>2, <2>3
<1>7. CommitInv'
  <2>1. \A n \in Names : WithFile(saved, n)' => ~Unsynced(saved, n)' /\ InParity(saved, n)'
    BY <1>3 DEF WithFile, Unsynced, InParity
  <2> QED
    BY <1>4, <1>5, <1>6, <2>1 DEF CommitInv
<1>8. FrozenInv' /\ RebuildInv'
  BY <1>1, <1>7, CommitFacts
<1>9. ScanInv' /\ MemInv' /\ PendingInv'
  BY <1>1 DEF ScanInv, MemInv, PendingInv, Pending, Commit
<1> QED
  BY <1>2, <1>7, <1>8, <1>9 DEF IInv

LEMMA SnapshotCommitStep == IInv /\ SnapshotCommit => IInv'
<1> SUFFICES ASSUME IInv, SnapshotCommit PROVE IInv'
  OBVIOUS
<1>1. /\ disk \in Disks /\ failed \in BOOLEAN /\ TypeInv
      /\ vol \in [Disks -> [Kinds -> Files \cup {None}]]
      /\ "scan" \in Kinds /\ "pending" \in Kinds /\ "stable" \in Kinds
  BY TypeFacts DEF IInv, TypeInv, TypeOK, Kinds
<1>2. CASE Delete("stable", "delstable", "renpending", "end")
  <2>1. /\ pc = "delstable"
        /\ UNCHANGED <<live, saved, parity, ops, syncs, mem, needWrite, todo, begun>>
    BY <1>2 DEF Delete
  <2>2. CASE /\ vol' = [vol EXCEPT ![disk]["stable"] = None] /\ pc' = "renpending"
             /\ UNCHANGED <<disk, failed>>
    <3>1. /\ vol' \in [Disks -> [Kinds -> Files \cup {None}]]
          /\ \A d \in Disks : d # disk => vol'[d] = vol[d]
          /\ vol'[disk]["pending"] = vol[disk]["pending"]
      BY <1>1, <2>2
    <3> QED
      BY <1>1, <2>1, <2>2, <3>1, CommitSteps
  <2>3. CASE failed' = TRUE /\ NextDisk("end") /\ UNCHANGED vol
    <3>1. /\ disk' \in Disks
          /\ \/ disk = DiskMax /\ disk' = 1 /\ pc' = "end"
             \/ disk < DiskMax /\ disk' = disk + 1 /\ pc' = "delstable"
      BY <1>1, <2>1, <2>3, NextDiskFacts
    <3> QED
      BY <1>1, <2>1, <2>3, <3>1, CommitSteps
  <2> QED
    BY <1>2, <2>2, <2>3 DEF Delete
<1>3. CASE Rename("pending", "stable", "renpending", "delstable", "end")
  <2>1. /\ pc = "renpending"
        /\ UNCHANGED <<live, saved, parity, ops, syncs, mem, needWrite, todo, begun>>
    BY <1>3 DEF Rename
  <2>2. /\ disk' \in Disks
        /\ \/ disk = DiskMax /\ disk' = 1 /\ pc' = "end"
           \/ disk < DiskMax /\ disk' = disk + 1 /\ pc' = "delstable"
    BY <1>1, <1>3, SnapshotAssumption DEF Rename, Disks
  <2>3. CASE /\ vol' = [vol EXCEPT ![disk] =
                           [@ EXCEPT !["stable"] = vol[disk]["pending"], !["pending"] = None]]
             /\ UNCHANGED failed
    <3>1. /\ vol' \in [Disks -> [Kinds -> Files \cup {None}]]
          /\ \A d \in Disks : d # disk => vol'[d] = vol[d]
          /\ vol'[disk]["pending"] = None /\ vol'[disk]["stable"] = vol[disk]["pending"]
      BY <1>1, <2>3
    <3> QED
      BY <1>1, <2>1, <2>2, <2>3, <3>1, CommitSteps
  <2>4. CASE failed' = TRUE /\ UNCHANGED vol
    BY <1>1, <2>1, <2>2, <2>4, CommitSteps
  <2> QED
    BY <1>3, <2>3, <2>4 DEF Rename
<1> QED
  BY <1>2, <1>3 DEF SnapshotCommit

-----------------------------------------------------------------------------
LEMMA StartProcessStep == IInv /\ StartProcess => IInv'
<1> SUFFICES ASSUME IInv, StartProcess PROVE IInv'
  OBVIOUS
<1> USE DEF diskVars
<1>1. /\ UNCHANGED <<live, vol, saved, parity, ops, syncs, disk, mem, needWrite, failed, begun>>
      /\ pc = "process" /\ pc' = "sync" /\ ~failed /\ disk = 1
      /\ todo' = {n \in Names : WithFile(mem, n) /\ Unsynced(mem, n)}
  BY DEF IInv, TypeInv, StartProcess, WithFile, Unsynced
<1>2. mem.blk = saved.blk /\ \A d \in Disks : saved.dealloc[d] \subseteq mem.dealloc[d]
  BY <1>1 DEF IInv, MemInv, Pending
<1>3. TypeInv'
  BY <1>1 DEF IInv, TypeInv, TypeOK, Pending, Commit
<1>4. Kept'
  BY <1>1, KeptSteps DEF Pending
<1>5. BlocksOk(mem)' /\ ParityHas(mem)'
  BY <1>1 DEF IInv, BlocksOk, ParityHas, Synced, WithFile, Unsynced, InParity
<1>6. PendingInv'
  BY <1>1 DEF IInv, PendingInv, Holds
<1>7. TodoInv'
  BY <1>1, <1>2 DEF TodoInv, WithFile, Unsynced
<1>8. ScanInv' /\ MemInv' /\ CommitInv'
  BY <1>1, <1>2 DEF ScanInv, MemInv, CommitInv, Pending, Commit
<1> QED
  BY <1>3, <1>4, <1>5, <1>6, <1>7, <1>8, Collect

(* A block after its position is synced.                                   *)
Done(b) == IF HasFile(b) THEN [st |-> "BLK", file |-> b.file, past |-> 0] ELSE Empty

LEMMA DoneFacts ==
    ASSUME NEW b \in Block, BlockOk(b)
    PROVE  /\ Done(b) \in Block /\ BlockOk(Done(b)) /\ Done(b).file = b.file
           /\ ~Invalid(Done(b)) /\ (HasFile(Done(b)) <=> HasFile(b))
<1>1. 0 \in 0 .. MaxOps
  BY SnapshotAssumption
<1>2. CASE HasFile(b)
  BY <1>1, <1>2 DEF Done, Block, BlockOk, HasFile, Invalid
<1>3. CASE ~HasFile(b)
  BY <1>3, ConstantFacts DEF Done, BlockOk, Empty
<1> QED
  BY <1>2, <1>3

LEMMA SyncBlockStep == IInv /\ (\E n \in Names : SyncBlock(n)) => IInv'
<1> SUFFICES ASSUME IInv, NEW n \in Names, SyncBlock(n) PROVE IInv'
  OBVIOUS
<1>1. /\ UNCHANGED <<live, vol, saved, ops, syncs, pc, disk, failed, begun>>
      /\ pc = "sync" /\ n \in todo /\ todo' = todo \ {n} /\ needWrite' = TRUE
      /\ begun >= 1 /\ begun \in Nat
  BY DEF IInv, TypeInv, TypeOK, SyncBlock
<1>2. /\ \A d \in Disks : Holds(d, "pending", mem)
      /\ WithFile(mem, n) /\ Unsynced(mem, n)
      /\ \A d \in Disks : saved.blk[d][n] = mem.blk[d][n]
  BY <1>1 DEF IInv, PendingInv, TodoInv
<1>3. mem \in State /\ parity \in [Names -> [Disks -> 0 .. MaxOps]]
      /\ \A d \in Disks, q \in Names : mem.blk[d][q] \in Block /\ BlockOk(mem.blk[d][q])
  BY TypeFacts DEF IInv, BlocksOk
<1>4. /\ \A q \in Names, d \in Disks :
             parity'[q][d] = IF q = n THEN mem.blk[d][n].file ELSE parity[q][d]
      /\ parity' \in [Names -> [Disks -> 0 .. MaxOps]]
  <2>1. parity' = [parity EXCEPT ![n] = [d \in Disks |-> vol[d]["pending"][n]]]
    BY DEF SyncBlock
  <2>2. \A d \in Disks : vol[d]["pending"][n] = mem.blk[d][n].file
    BY <1>2 DEF Holds
  <2>3. \A d \in Disks : mem.blk[d][n].file \in 0 .. MaxOps
    BY <1>3 DEF Block
  <2> QED
    BY <1>3, <2>1, <2>2, <2>3
<1>5. /\ mem' = [mem EXCEPT !.blk = [d \in Disks |->
                    [mem.blk[d] EXCEPT ![n] = Done(mem.blk[d][n])]]]
  BY DEF SyncBlock, Done
<1>6. /\ mem'.dealloc = mem.dealloc /\ mem' \in State
      /\ \A d \in Disks, q \in Names :
             mem'.blk[d][q] = IF q = n THEN Done(mem.blk[d][n]) ELSE mem.blk[d][q]
  <2>1. \A d \in Disks : Done(mem.blk[d][n]) \in Block
    BY <1>3, DoneFacts
  <2>2. \A d \in Disks : [mem.blk[d] EXCEPT ![n] = Done(mem.blk[d][n])] \in [Names -> Block]
    BY <1>3, <2>1 DEF State
  <2> HIDE DEF Done
  <2> QED
    BY <1>3, <1>5, <2>2 DEF State
<1>7. \A d \in Disks : /\ BlockOk(mem'.blk[d][n]) /\ ~Invalid(mem'.blk[d][n])
                       /\ mem'.blk[d][n].file = mem.blk[d][n].file
  BY <1>3, <1>6, DoneFacts
<1>8. TypeInv'
  BY <1>1, <1>4, <1>6 DEF IInv, TypeInv, TypeOK, State, Block
<1>9. BlocksOk(saved)' /\ BlocksOk(mem)'
  BY <1>1, <1>3, <1>6, <1>7 DEF IInv, BlocksOk
<1>10. ParityHas(saved)'
  <2> SUFFICES ASSUME NEW q \in Names
               PROVE  /\ \A d \in Disks : Synced(saved, d, q) => parity'[q][d] = saved.blk[d][q].file
                      /\ WithFile(saved, q) /\ ~Unsynced(saved, q) =>
                             \A d \in Disks : parity'[q][d] = saved.blk[d][q].file
    BY <1>1 DEF ParityHas, Synced, WithFile, Unsynced, InParity
  <2>1. CASE q = n
    BY <1>2, <1>4, <2>1
  <2>2. CASE q # n
    BY <1>4, <2>2 DEF IInv, ParityHas, InParity
  <2> QED
    BY <2>1, <2>2
<1>11. ParityHas(mem)'
  <2> SUFFICES ASSUME NEW q \in Names
               PROVE  /\ \A d \in Disks : Synced(mem', d, q) => parity'[q][d] = mem'.blk[d][q].file
                      /\ WithFile(mem', q) /\ ~Unsynced(mem', q) =>
                             \A d \in Disks : parity'[q][d] = mem'.blk[d][q].file
    BY DEF ParityHas, Synced, WithFile, Unsynced, InParity
  <2>1. CASE q = n
    BY <1>4, <1>7, <2>1
  <2>2. CASE q # n
    <3>1. \A d \in Disks : mem'.blk[d][q] = mem.blk[d][q] /\ parity'[q][d] = parity[q][d]
      BY <1>4, <1>6, <2>2
    <3> QED
      BY <3>1 DEF IInv, ParityHas, Synced, WithFile, Unsynced, InParity
  <2> QED
    BY <2>1, <2>2
<1>12. FrozenInv' /\ CleanInv'
  BY <1>1 DEF IInv, FrozenInv, CleanInv, Synced
<1>13. RebuildInv'
  <2>1. ASSUME begun <= 1, NEW q \in Names, WithSynced(saved, q)
        PROVE  (\A d \in Disks : OldBlock(d, q)') \/ (\A d \in Disks : NewBlock(d, q)')
    <3>1. CASE q = n
      <4>1. \A d \in Disks : NewBlock(d, n)'
        BY <1>1, <1>2, <1>4 DEF NewBlock, Holds
      <4> QED
        BY <3>1, <4>1
    <3>2. CASE q # n
      <4>1. \A d \in Disks : parity'[q][d] = parity[q][d]
        BY <1>4, <3>2
      <4>2. \A d \in Disks : OldBlock(d, q)' = OldBlock(d, q) /\ NewBlock(d, q)' = NewBlock(d, q)
        BY <1>1, <4>1 DEF OldBlock, NewBlock, StableHas
      <4> QED
        BY <2>1, <4>2 DEF IInv, RebuildInv
    <3> QED
      BY <3>1, <3>2
  <2>2. \A q \in Names : WithSynced(saved, q)' <=> WithSynced(saved, q)
    BY <1>1 DEF WithSynced, Synced
  <2>3. begun <= 1 => \A d \in Disks : vol'[d]["pending"] # None => Holds(d, "pending", saved)'
    BY <1>1 DEF IInv, RebuildInv, Holds
  <2> QED
    BY <1>1, <2>1, <2>2, <2>3 DEF RebuildInv, Pending
<1>14. MemInv'
  BY <1>1, <1>6 DEF IInv, MemInv, Pending
<1>15. PendingInv'
  <2>1. \A d \in Disks, q \in Names : mem'.blk[d][q].file = mem.blk[d][q].file
    BY <1>6, <1>7
  <2> QED
    BY <1>1, <1>2, <2>1 DEF PendingInv, Holds
<1>16. TodoInv'
  <2>1. ~Unsynced(mem', n)
    BY <1>7 DEF Unsynced
  <2>2. ASSUME NEW q \in Names, q # n
        PROVE  /\ WithFile(mem', q) <=> WithFile(mem, q)
               /\ Unsynced(mem', q) <=> Unsynced(mem, q)
               /\ \A d \in Disks : mem'.blk[d][q] = mem.blk[d][q]
    BY <1>6, <2>2 DEF WithFile, Unsynced
  <2>3. todo \in SUBSET Names
    BY DEF IInv, TypeInv
  <2>4. /\ \A q \in todo \ {n} : /\ WithFile(mem', q) /\ Unsynced(mem', q)
                                 /\ \A d \in Disks : saved.blk[d][q] = mem'.blk[d][q]
        /\ \A q \in Names \ (todo \ {n}) : WithFile(mem', q) => ~Unsynced(mem', q)
    BY <1>1, <2>1, <2>2, <2>3 DEF IInv, TodoInv
  <2>5. \A q \in Names : (WithFile(mem, q)' <=> WithFile(mem', q))
                      /\ (Unsynced(mem, q)' <=> Unsynced(mem', q))
    BY DEF WithFile, Unsynced
  <2> QED
    BY <1>1, <2>3, <2>4, <2>5 DEF TodoInv
<1>17. ScanInv' /\ CommitInv'
  BY <1>1 DEF ScanInv, CommitInv, Commit
<1> QED
  BY <1>8, <1>9, <1>10, <1>11, <1>12, <1>13, <1>14, <1>15, <1>16, <1>17 DEF IInv

LEMMA AutosaveStep == IInv /\ Autosave => IInv'
<1> SUFFICES ASSUME IInv, Autosave PROVE IInv'
  OBVIOUS
<1>1. /\ UNCHANGED <<live, vol, parity, ops, syncs, pc, disk, todo, failed, begun>>
      /\ pc = "sync" /\ saved' = Cleaned(mem) /\ mem' = Cleaned(mem) /\ needWrite' = FALSE
      /\ begun >= 1 /\ begun \in Nat /\ todo \in SUBSET Names
  BY DEF IInv, TypeInv, TypeOK, Autosave, StateWrite
<1>2. /\ \A d \in Disks : Holds(d, "pending", mem)
      /\ \A n \in todo : /\ WithFile(mem, n) /\ Unsynced(mem, n)
                         /\ \A d \in Disks : saved.blk[d][n] = mem.blk[d][n]
      /\ \A n \in Names \ todo : WithFile(mem, n) => ~Unsynced(mem, n)
      /\ \A d \in Disks : saved.dealloc[d] \subseteq mem.dealloc[d]
  BY <1>1 DEF IInv, PendingInv, TodoInv, MemInv, Pending
<1>3. mem \in State /\ BlocksOk(mem)
  BY TypeFacts DEF IInv
<1>4. /\ Cleaned(mem) \in State /\ Cleaned(mem).dealloc = mem.dealloc
      /\ \A d \in Disks, n \in Names :
             /\ WithFile(mem, n) => Cleaned(mem).blk[d][n] = mem.blk[d][n]
             /\ Cleaned(mem).blk[d][n].file = mem.blk[d][n].file
      /\ \A n \in Names : WithFile(Cleaned(mem), n) <=> WithFile(mem, n)
  BY <1>3, CleanedFacts
<1>5. TypeInv'
  BY <1>1, <1>4 DEF IInv, TypeInv, TypeOK, State, Block
<1>6. BlocksOk(saved)' /\ BlocksOk(mem)' /\ ParityHas(saved)' /\ ParityHas(mem)'
  <2>1. BlocksOk(Cleaned(mem)) /\ ParityHas(Cleaned(mem))
    BY <1>3, CleanedFacts, CleanedParity DEF IInv
  <2> QED
    BY <1>1, <2>1 DEF BlocksOk, ParityHas, Synced, WithFile, Unsynced, InParity
<1>7. \A d \in Disks : Holds(d, "pending", mem)' /\ Holds(d, "pending", saved)'
  BY <1>1, <1>2, <1>4 DEF Holds
<1>8. FrozenInv' /\ CleanInv' /\ PendingInv'
  BY <1>1, <1>7 DEF FrozenInv, CleanInv, PendingInv, Holds
<1>9. RebuildInv'
  <2>1. ASSUME begun <= 1, NEW n \in Names, WithSynced(saved', n)
        PROVE  (\A d \in Disks : OldBlock(d, n)') \/ (\A d \in Disks : NewBlock(d, n)')
    <3>1. WithFile(mem, n) /\ \A d \in Disks : saved'.blk[d][n] = mem.blk[d][n]
      BY <1>1, <1>4, <2>1 DEF WithSynced, Synced, WithFile, HasFile
    <3>2. CASE n \in todo
      <4>1. \A d \in Disks : saved'.blk[d][n] = saved.blk[d][n]
        BY <1>2, <3>1, <3>2
      <4>2. WithSynced(saved, n)
        BY <2>1, <4>1 DEF WithSynced, Synced
      <4>3. \A d \in Disks : /\ OldBlock(d, n) => OldBlock(d, n)'
                             /\ NewBlock(d, n) => NewBlock(d, n)'
        BY <1>1, <1>2, <1>4, <4>1 DEF OldBlock, NewBlock, StableHas
      <4> QED
        BY <2>1, <4>2, <4>3 DEF IInv, RebuildInv
    <3>3. CASE n \notin todo
      <4>1. \A d \in Disks : parity[n][d] = mem.blk[d][n].file
        BY <1>2, <3>1, <3>3 DEF IInv, ParityHas, InParity
      <4>2. \A d \in Disks : NewBlock(d, n)'
        BY <1>1, <1>7, <3>1, <4>1 DEF NewBlock, Holds
      <4> QED
        BY <4>2
    <3> QED
      BY <3>2, <3>3
  <2>2. \A n \in Names : WithSynced(saved, n)' <=> WithSynced(saved', n)
    BY DEF WithSynced, Synced
  <2> QED
    BY <1>1, <1>7, <2>1, <2>2 DEF RebuildInv, Pending
<1>10. TodoInv'
  <2>1. \A n \in todo : /\ WithFile(mem', n) /\ Unsynced(mem', n)
    BY <1>1, <1>2, <1>4 DEF Unsynced
  <2>2. \A n \in Names \ todo : WithFile(mem', n) => ~Unsynced(mem', n)
    BY <1>1, <1>2, <1>4 DEF Unsynced
  <2>3. \A n \in Names : (WithFile(mem, n)' <=> WithFile(mem', n))
                      /\ (Unsynced(mem, n)' <=> Unsynced(mem', n))
    BY DEF WithFile, Unsynced
  <2> QED
    BY <1>1, <2>1, <2>2, <2>3 DEF TodoInv
<1>11. ScanInv' /\ MemInv' /\ CommitInv'
  BY <1>1 DEF ScanInv, MemInv, CommitInv, Pending, Commit
<1> QED
  BY <1>5, <1>6, <1>8, <1>9, <1>10, <1>11 DEF IInv

LEMMA SyncEndStep == IInv /\ SyncEnd => IInv'
<1> SUFFICES ASSUME IInv, SyncEnd PROVE IInv'
  OBVIOUS
<1> DEFINE m == [mem EXCEPT !.dealloc = [d \in Disks |-> {}]]
<1>1. /\ UNCHANGED <<live, vol, parity, ops, syncs, disk, todo, failed, begun>>
      /\ pc = "sync" /\ pc' = "delstable" /\ todo = {} /\ disk = 1
      /\ begun >= 1 /\ begun \in Nat
  BY DEF IInv, TypeInv, TypeOK, SyncEnd
<1>2. /\ \A d \in Disks : Holds(d, "pending", mem)
      /\ \A n \in Names : WithFile(mem, n) => ~Unsynced(mem, n)
  BY <1>1 DEF IInv, PendingInv, TodoInv
<1>3. saved \in State /\ mem \in State /\ m \in State /\ m.blk = mem.blk
  <2>1. saved \in State /\ mem \in State
    BY TypeFacts DEF IInv
  <2> QED
    BY <2>1 DEF State
<1>4. BlocksOk(m) /\ ParityHas(m)
  BY <1>3 DEF IInv, BlocksOk, ParityHas, Synced, WithFile, Unsynced, InParity
<1>5. /\ saved' \in State /\ mem' \in State /\ needWrite' \in BOOLEAN
      /\ BlocksOk(saved)' /\ BlocksOk(mem)' /\ ParityHas(saved)' /\ ParityHas(mem)'
      /\ \A d \in Disks, n \in Names :
             /\ saved'.blk[d][n].file = mem.blk[d][n].file
             /\ WithFile(mem, n) => saved'.blk[d][n] = mem.blk[d][n]
      /\ \A n \in Names : WithFile(saved', n) => WithFile(mem, n)
  <2>1. CASE needWrite \/ m # mem
    <3>1. saved' = Cleaned(m) /\ mem' = Cleaned(m) /\ needWrite' = FALSE
      BY <2>1 DEF SyncEnd
    <3> HIDE DEF m
    <3>2. /\ Cleaned(m) \in State /\ BlocksOk(Cleaned(m)) /\ ParityHas(Cleaned(m))
          /\ \A d \in Disks, n \in Names :
                 /\ Cleaned(m).blk[d][n].file = m.blk[d][n].file
                 /\ WithFile(m, n) => Cleaned(m).blk[d][n] = m.blk[d][n]
          /\ \A n \in Names : WithFile(Cleaned(m), n) <=> WithFile(m, n)
      BY <1>3, <1>4, CleanedFacts, CleanedParity
    <3>3. BlocksOk(saved)' /\ BlocksOk(mem)' /\ ParityHas(saved)' /\ ParityHas(mem)'
      BY <1>1, <3>1, <3>2 DEF BlocksOk, ParityHas, Synced, WithFile, Unsynced, InParity
    <3>4. \A n \in Names : WithFile(m, n) <=> WithFile(mem, n)
      BY <1>3 DEF WithFile
    <3> QED
      BY <1>3, <3>1, <3>2, <3>3, <3>4
  <2>2. CASE ~(needWrite \/ m # mem)
    <3>1. saved' = saved /\ mem' = mem /\ needWrite' = needWrite
      BY <2>2 DEF SyncEnd
    <3>2. mem.blk = saved.blk /\ needWrite' \in BOOLEAN
      BY <1>1, <2>2, <3>1 DEF IInv, MemInv, TypeInv
    <3>3. BlocksOk(saved)' /\ BlocksOk(mem)' /\ ParityHas(saved)' /\ ParityHas(mem)'
      BY <1>1, <3>1 DEF IInv, BlocksOk, ParityHas, Synced, WithFile, Unsynced, InParity
    <3> QED
      BY <1>3, <3>1, <3>2, <3>3 DEF WithFile
  <2> QED
    BY <2>1, <2>2
<1>6. TypeInv'
  BY <1>1, <1>5 DEF IInv, TypeInv, TypeOK, State, Block, Pending, Commit
<1>7. \A d \in Disks : Holds(d, "pending", saved)'
  BY <1>1, <1>2, <1>5 DEF Holds
<1>8. CommitInv'
  <2>1. ASSUME NEW n \in Names, WithFile(saved', n)
        PROVE  ~Unsynced(saved', n) /\ \A d \in Disks : parity'[n][d] = saved'.blk[d][n].file
    <3>1. WithFile(mem, n) /\ \A d \in Disks : saved'.blk[d][n] = mem.blk[d][n]
      BY <1>5, <2>1
    <3>2. ~Unsynced(mem, n) /\ InParity(mem, n)
      BY <1>2, <3>1 DEF IInv, ParityHas
    <3> QED
      BY <1>1, <3>1, <3>2 DEF Unsynced, InParity
  <2>2. \A n \in Names : WithFile(saved, n)' => ~Unsynced(saved, n)' /\ InParity(saved, n)'
    BY <2>1 DEF WithFile, Unsynced, InParity
  <2>3. \A d \in Disks : ~(d < disk')
    BY <1>1 DEF Disks
  <2> QED
    BY <1>1, <1>7, <2>2, <2>3 DEF CommitInv
<1>9. FrozenInv' /\ CleanInv' /\ RebuildInv'
  BY <1>1, <1>8, CommitFacts DEF Commit
<1>10. ScanInv' /\ MemInv' /\ PendingInv' /\ TodoInv'
  BY <1>1 DEF ScanInv, MemInv, PendingInv, TodoInv, Pending
<1> QED
  BY <1>5, <1>6, <1>8, <1>9, <1>10 DEF IInv

-----------------------------------------------------------------------------
LEMMA StepIInv == IInv /\ [Next]_vars => IInv'
<1> SUFFICES ASSUME IInv, [Next]_vars PROVE IInv'
  OBVIOUS
<1>1. CASE UNCHANGED vars
  <2>1. live' \in [Disks -> Files] /\ ops' \in 0 .. MaxOps
    BY <1>1, TypeFacts DEF IInv, TypeInv, vars
  <2> QED
    BY <1>1, <2>1, SameSteps DEF vars
<1>2. CASE Next
  BY <1>2, ChangeStep, ExitSteps, StartSyncStep, SnapshotScanStep, ScanStep, WriteStep,
     SnapshotPendingStep, StartProcessStep, SyncBlockStep, AutosaveStep, SyncEndStep,
     SnapshotCommitStep
  DEF Next
<1> QED
  BY <1>1, <1>2

LEMMA Invariant == Spec => []IInv
BY InitIInv, StepIInv, PTL DEF Spec

(* The types of the snapshots and of the states, for any number of disks.  *)
THEOREM SnapshotTypeCorrect == Spec => []TypeOK
<1>1. IInv => TypeOK
  BY DEF IInv, TypeInv
<1> QED
  BY <1>1, Invariant, PTL

(* After a complete sync (sync.c, snapraid.c) the stable snapshots are the *)
(* data that the parity was computed from, whatever failed before it.      *)
THEOREM StableHoldsParity == Spec => []StableIsParity
<1>1. IInv => StableIsParity
  BY DEF IInv, CleanInv, StableIsParity, WithFile, InParity, StableHas
<1> QED
  BY <1>1, Invariant, PTL

(* Where the files of a disk are read from, a synced block is as it was    *)
(* synced.                                                                 *)
LEMMA ReadFacts ==
    ASSUME IInv, NEW d \in Disks, vol[d]["pending"] # None \/ begun <= 1,
           NEW n \in Names, Synced(saved, d, n)
    PROVE  Reference(d)[n] = saved.blk[d][n].file
<1>1. CASE vol[d]["pending"] # None
  BY <1>1 DEF IInv, FrozenInv, Reference
<1>2. CASE vol[d]["pending"] = None /\ begun <= 1
  <2>1. WithSynced(saved, n)
    BY DEF WithSynced
  <2>2. OldBlock(d, n) \/ NewBlock(d, n)
    BY <1>2, <2>1 DEF IInv, RebuildInv
  <2>3. StableHas(d, n, saved.blk[d][n].file)
    BY <1>2, <2>2 DEF OldBlock, NewBlock, Old, Synced
  <2> QED
    BY <1>2, <2>3 DEF StableHas, Reference
<1> QED
  BY <1>1, <1>2

(* The snapshots that state_snapshot_read chooses have the synced blocks   *)
(* as they were synced, whatever the user does to the files.               *)
THEOREM BlocksStayFrozen == Spec => []SyncedBlocksFrozen
<1>1. IInv => SyncedBlocksFrozen
  BY ReadFacts DEF SyncedBlocksFrozen, Synced
<1> QED
  BY <1>1, Invariant, PTL

(* What a first interrupted sync leaves is enough to rebuild a disk: the   *)
(* other disks have, at each position with a synced block, all what the    *)
(* parity was computed from before the sync, or all after it.              *)
LEMMA RebuiltFacts ==
    ASSUME IInv, begun <= 1, NEW x \in Disks, NEW n \in Names, Synced(saved, x, n),
           LET unsynced == {d \in Disks \ {x} : Invalid(saved.blk[d][n])} IN
           \/ \A d \in unsynced : vol[d]["pending"] # None
           \/ \A d \in unsynced : saved.blk[d][n].st = "CHG" /\ vol[d]["pending"] = None
    PROVE  Rebuilt(x, n)
<1> DEFINE b(d) == saved.blk[d][n]
           unsynced == {d \in Disks \ {x} : Invalid(b(d))}
<1>1. \A d \in Disks : b(d) \in Block /\ BlockOk(b(d))
  BY TypeFacts DEF IInv, BlocksOk
<1>2. \A d \in Disks : vol[d]["pending"] # None => vol[d]["pending"][n] = b(d).file
  BY DEF IInv, RebuildInv, Holds
<1>3. WithSynced(saved, n)
  BY DEF WithSynced
<1>4. ASSUME NEW d \in Disks, ~Invalid(b(d)) PROVE b(d).file \in Now(d, n)
  <2>1. CASE b(d).st = "BLK"
    <3>1. Reference(d)[n] = b(d).file
      BY <2>1, ReadFacts DEF Synced
    <3> QED
      BY <2>1, <3>1 DEF Now, HasFile
  <2>2. CASE b(d).st # "BLK"
    <3>1. ~HasFile(b(d))
      BY <1>1, <1>4, <2>2 DEF HasFile, Invalid
    <3> QED
      BY <1>1, <3>1 DEF Now, BlockOk, HasFile
  <2> QED
    BY <2>1, <2>2
<1>5. CASE \A d \in Disks : NewBlock(d, n)
  <2>1. ASSUME NEW d \in Disks \ {x} PROVE parity[n][d] \in Now(d, n)
    <3>1. parity[n][d] = b(d).file
      BY <1>5 DEF NewBlock
    <3>2. CASE ~HasFile(b(d))
      BY <1>1, <3>1, <3>2 DEF Now, BlockOk, HasFile
    <3>3. CASE b(d).st = "BLK"
      BY <1>4, <3>1, <3>3 DEF Invalid
    <3>4. CASE b(d).st = "CHG"
      <4>1. Reference(d)[n] = b(d).file
        BY <1>2, <1>5 DEF NewBlock, StableHas, Reference
      <4> QED
        BY <3>1, <3>4, <4>1 DEF Now, HasFile
    <3> QED
      BY <3>2, <3>3, <3>4 DEF HasFile
  <2> QED
    BY <1>5, <2>1 DEF Rebuilt, NewBlock
<1>6. CASE \A d \in Disks : OldBlock(d, n)
  <2>1. parity[n][x] = b(x).file
    BY <1>6 DEF OldBlock, Old, Synced
  <2>2. ASSUME NEW d \in Disks, ~Invalid(b(d)) PROVE parity[n][d] \in Now(d, n)
    <3>1. parity[n][d] = b(d).file
      BY <1>1, <1>6, <2>2 DEF OldBlock, Old, Invalid, BlockOk, HasFile, Block
    <3> QED
      BY <1>4, <2>2, <3>1
  <2>3. CASE \A d \in unsynced : vol[d]["pending"] # None
    <3>1. ASSUME NEW d \in Disks \ {x} PROVE parity[n][d] \in Before(d, n)
      <4>1. CASE ~Invalid(b(d))
        BY <2>2, <4>1 DEF Before
      <4>2. CASE Invalid(b(d))
        <5>1. /\ parity[n][d] = b(d).past /\ StableHas(d, n, b(d).past)
              /\ b(d).past # 0 => <<n, b(d).past>> \in saved.dealloc[d]
              /\ b(d).past # 0 \/ b(d).st = "CHG"
          BY <1>6, <4>2 DEF OldBlock, Old, Invalid
        <5>2. vol[d]["pending"] # None
          BY <2>3, <4>2
        <5>3. b(d).past # 0 => <<n, b(d).past>> \in Imported(d)
          BY <5>1, <5>2 DEF Imported, StableHas
        <5>4. b(d).past # 0 => b(d).past \in {y[2] : y \in Imported(d)}
          BY <5>3
        <5>5. b(d).past \in (IF b(d).st = "CHG" THEN {0} ELSE {}) \cup {y[2] : y \in Imported(d)}
          BY <5>1, <5>4
        <5> QED
          BY <4>2, <5>1, <5>5 DEF Before
      <4> QED
        BY <4>1, <4>2
    <3> QED
      BY <2>1, <3>1 DEF Rebuilt
  <2>4. CASE \A d \in unsynced : b(d).st = "CHG" /\ vol[d]["pending"] = None
    <3>1. ASSUME NEW d \in Disks \ {x} PROVE parity[n][d] \in Now(d, n)
      <4>1. CASE ~Invalid(b(d))
        BY <2>2, <4>1
      <4>2. CASE Invalid(b(d))
        <5>1. parity[n][d] = b(d).past /\ StableHas(d, n, b(d).past)
          BY <1>6, <4>2 DEF OldBlock, Old, Invalid
        <5>2. b(d).st = "CHG" /\ vol[d]["pending"] = None
          BY <2>4, <4>2
        <5>3. Reference(d)[n] = parity[n][d]
          BY <5>1, <5>2 DEF Reference, StableHas
        <5> QED
          BY <5>2, <5>3 DEF Now, HasFile
      <4> QED
        BY <4>1, <4>2
    <3> QED
      BY <2>1, <3>1 DEF Rebuilt
  <2> QED
    BY <2>3, <2>4
<1> QED
  BY <1>3, <1>5, <1>6 DEF IInv, RebuildInv

(* After a sync interrupted or failed anywhere, fix rebuilds the synced    *)
(* blocks of a disk lost from the snapshots that state_snapshot_write      *)
(* chooses for the others.                                                 *)
THEOREM LostDiskRebuilt == Spec => []RebuiltFromSnapshots
<1>1. IInv => RebuiltFromSnapshots
  BY RebuiltFacts DEF RebuiltFromSnapshots, Synced
<1> QED
  BY <1>1, Invariant, PTL

=============================================================================
