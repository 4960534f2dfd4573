------------------------------ MODULE SyncArray ------------------------------
(***************************************************************************)
(* The array across runs of "snapraid sync": the user changes files, a run *)
(* loads the content file (state_read), scans the disks (state_scan),      *)
(* saves the new state (state_sync), then recomputes the parity block by   *)
(* block (state_sync_process) while the writers of the I/O engine lag      *)
(* behind, and saves again.  The process may be interrupted, killed, or    *)
(* lose the power at any point, and the next run starts from what is left. *)
(*                                                                         *)
(* A file has one block.  The hash of a block is its data (a perfect       *)
(* hash); a parity block of a level is the vector of the data it was       *)
(* computed from, and raid_rec recovers it when the vectors it uses agree. *)
(* The content file is written atomically: ContentStore says why.          *)
(***************************************************************************)
EXTENDS Integers, FiniteSets, Sequences

CONSTANTS
    DiskMax,     \* number of data disks
    LevelMax,    \* state->level, the parity levels
    PosMax,      \* number of parity positions
    Names,       \* file names
    Values,      \* data of a block, which is also its hash
    Zero,        \* a block filled with zeros, and the special ZERO hash
    Invalid,     \* the special INVALID hash
    Garbage,     \* what raid_rec returns from an inconsistent parity
    NoName,      \* no file
    NoParity,    \* a parity block beyond the end of the parity file
    MaxOps,      \* bound on the user operations
    MaxCrash,    \* bound on the kills and power losses
    ForceFull,   \* --force-full
    ForceEmpty,  \* --force-empty
    Autosave,    \* the autosave option of the configuration
    IoErrors     \* the disks may fail

Disks == 1 .. DiskMax
Levels == 0 .. LevelMax - 1
Positions == 0 .. PosMax - 1
Stamps == 0 .. MaxOps + 1       \* 0 when there is no file
Data == Values \cup {Zero}
Vectors == [Disks -> Data \cup {Garbage}]
ParityFile == [Positions -> Vectors \cup {NoParity}]

ASSUME ArrayAssumption ==
    /\ DiskMax \in Nat \ {0} /\ LevelMax \in Nat \ {0} /\ PosMax \in Nat \ {0}
    /\ MaxOps \in Nat /\ MaxCrash \in Nat
    /\ {ForceFull, ForceEmpty, Autosave, IoErrors} \subseteq BOOLEAN
    /\ {Zero, Invalid, Garbage} \cap Values = {}
    /\ Zero # Invalid /\ Zero # Garbage /\ Invalid # Garbage
    /\ NoName \notin Names
    /\ NoParity \notin Vectors

States == {"EMPTY", "BLK", "CHG", "REP", "DELETED"}
Block == [st : States, hash : Data \cup {Invalid}, file : Names \cup {NoName}]

(* The in-memory state and the content file: the block of each disk at     *)
(* each position, the recorded stamp of each file, the info of each        *)
(* position.                                                               *)
State == [blk : [Disks -> [Positions -> Block]],
          stamp : [Disks -> [Names -> Stamps]],
          info : [Positions -> {"none", "good", "bad"}]]

VARIABLES
    live,      \* the files on the disks: data and stamp (size, mtime, inode)
    ops, crashes,
    saved,     \* the content file
    cut,       \* history: the positions truncated, until what is saved no
               \* longer has a block synced there
    parity,    \* [level] the parity files, as the system sees them
    durable,   \* [level] what of them survives a power loss
    \* the running process
    pc,
    mem,       \* state->disklist and state->infoarr
    needWrite, \* state->need_write
    unsynced,  \* state->unsynced_blocks
    todo,      \* block_enabled, the positions left to process
    pos,       \* blockcur
    toRead,    \* the disks whose io_data_read() has not completed for pos
    buf, res,  \* [disk] the buffer read, and the state of the task
    pending,   \* [level] the parity writes scheduled and not done, in order
    werr,      \* a parity write failed
    errs,      \* soft_error + silent_error + io_error # 0
    alert,     \* the user interrupted the process
    \* what the run found
    found      \* the positions with a silent or an input/output error

userVars == <<live, ops>>
savedVars == <<saved, cut>>
diskVars == <<savedVars, parity, durable>>
memVars == <<mem, needWrite, unsynced>>
readVars == <<pos, toRead, buf, res>>
errorVars == <<werr, errs, alert, found>>
vars == <<userVars, crashes, diskVars, pc, memVars, todo, readVars, pending, errorVars>>

-----------------------------------------------------------------------------
(* elem.h *)

HasFile(b) == b.st \in {"BLK", "CHG", "REP"}
HasInvalidParity(b) == b.st \in {"CHG", "REP", "DELETED"}
HasUpdatedHash(b) == b.st \in {"BLK", "REP"}
IsUnique(h) == h \notin {Zero, Invalid}

EmptyBlock == [st |-> "EMPTY", hash |-> Zero, file |-> NoName]
NoFile == [data |-> Zero, stamp |-> 0]

(* fs_is_block_unsynced: a file and an invalid parity at the position.     *)
IsUnsynced(m, p) ==
    /\ \E d \in Disks : HasFile(m.blk[d][p])
    /\ \E d \in Disks : HasInvalidParity(m.blk[d][p])

(* Fault: the blocks are counted in place of the positions.                *)
Unsynced_Blocks(m) ==
    Cardinality({x \in Disks \X Positions : IsUnsynced(m, x[2])})

Unsynced(m) == Cardinality({p \in Positions : IsUnsynced(m, p)})

(* What state_write_content leaves in memory and in the file: a position   *)
(* without files loses its info and its deleted blocks.                    *)
Cleaned(m) ==
    LET required(p) == \E d \in Disks : HasFile(m.blk[d][p])
    IN [m EXCEPT
          !.blk = [d \in Disks |-> [p \in Positions |->
                     IF m.blk[d][p].st = "DELETED" /\ ~required(p)
                     THEN EmptyBlock ELSE m.blk[d][p]]],
          !.info = [p \in Positions |-> IF required(p) THEN m.info[p] ELSE "none"]]

-----------------------------------------------------------------------------
(* The array starts empty, or with some files already synced at position 0.*)
Init ==
    \E n \in Names, v \in Values, D \in SUBSET Disks :
      LET at(d, p) == d \in D /\ p = 0
          vector(p) == IF p = 0 /\ D # {} THEN [d \in Disks |-> IF d \in D THEN v ELSE Zero]
                       ELSE NoParity
      IN
      /\ live = [d \in Disks |-> [m \in Names |->
                   IF m = n /\ d \in D THEN [data |-> v, stamp |-> 1] ELSE NoFile]]
      /\ saved = [blk |-> [d \in Disks |-> [p \in Positions |->
                    IF at(d, p) THEN [st |-> "BLK", hash |-> v, file |-> n] ELSE EmptyBlock]],
                  stamp |-> [d \in Disks |-> [m \in Names |->
                    IF m = n /\ d \in D THEN 1 ELSE 0]],
                  info |-> [p \in Positions |-> IF p = 0 /\ D # {} THEN "good" ELSE "none"]]
      /\ parity = [l \in Levels |-> [p \in Positions |-> vector(p)]]
      /\ durable = parity /\ cut = {}
      /\ ops = 0 /\ crashes = 0
      /\ pc = "off" /\ mem = saved /\ needWrite = FALSE /\ unsynced = 0
      /\ todo = {} /\ pos = 0 /\ toRead = {}
      /\ buf = [d \in Disks |-> Zero] /\ res = [d \in Disks |-> "ok"]
      /\ pending = [l \in Levels |-> <<>>]
      /\ werr = FALSE /\ errs = FALSE /\ alert = FALSE /\ found = {}

-----------------------------------------------------------------------------
(* The user and the disks, at any time, also during a run                  *)

UserStep(d, n, file) ==
    /\ ops < MaxOps
    /\ ops' = ops + 1
    /\ live' = [live EXCEPT ![d][n] = file]
    /\ UNCHANGED <<crashes, diskVars, pc, memVars, todo, readVars, pending, errorVars>>

(* Create or rewrite a file: the stamp is new.                             *)
UserWrite(d, n) == \E v \in Values : UserStep(d, n, [data |-> v, stamp |-> ops + 2])

UserDelete(d, n) == live[d][n] # NoFile /\ UserStep(d, n, NoFile)

(* Copy a file from another disk keeping its time; or another file with    *)
(* the same name, size and time.                                           *)
UserCopy(d, n) ==
    \E e \in Disks \ {d}, v \in Values :
        live[e][n] # NoFile /\ UserStep(d, n, [data |-> v, stamp |-> live[e][n].stamp])

(* The data changes under the same stamp.                                  *)
SilentError(d, n) ==
    \E v \in Values \ {live[d][n].data} :
        live[d][n] # NoFile /\ UserStep(d, n, [data |-> v, stamp |-> live[d][n].stamp])

-----------------------------------------------------------------------------
(* state_read *)
Load ==
    /\ pc = "off"
    /\ mem' = saved
    /\ unsynced' = Unsynced(saved)
    /\ needWrite' = FALSE
    /\ pc' = "loaded"
    /\ UNCHANGED <<userVars, crashes, diskVars, todo, readVars, pending, errorVars>>

(* state_scan.  Phase 1 classifies the files of each disk.                 *)
StateOf(d, n) == LET ps == {p \in Positions : mem.blk[d][p].file = n /\ HasFile(mem.blk[d][p])}
                 IN IF ps = {} THEN EmptyBlock ELSE mem.blk[d][CHOOSE p \in ps : TRUE]

Present(d) == {n \in Names : live[d][n].stamp # 0}
Known(d) == {n \in Names : mem.stamp[d][n] # 0}
Kept(d) == {n \in Present(d) : mem.stamp[d][n] = live[d][n].stamp}
Removed(d) == Known(d) \ Present(d)
Modified(d) == (Known(d) \cap Present(d)) \ Kept(d)
Inserted(d) == Present(d) \ Known(d)

(* scan_file_keep: a kept file with only invalid parity is allocated anew. *)
Realloc(d) == {n \in Kept(d) : HasInvalidParity(StateOf(d, n))}

Freed(d) == Removed(d) \cup Modified(d) \cup Realloc(d)
New(d) == Inserted(d) \cup Modified(d) \cup Realloc(d)

(* The copy detection: the disks with a hashed file of same name and stamp.*)
CopySources(d, n) ==
    {e \in Disks : /\ n \in Known(e) /\ mem.stamp[e][n] = live[d][n].stamp
                   /\ HasUpdatedHash(StateOf(e, n))}

Source(d, n) == CHOOSE e \in CopySources(d, n) : \A f \in CopySources(d, n) : e <= f

(* The hash a new file comes with, Invalid when it has none.               *)
ReusedHash(d, n) ==
    IF n \in Realloc(d)
    THEN IF HasUpdatedHash(StateOf(d, n)) THEN StateOf(d, n).hash ELSE Invalid
    ELSE IF CopySources(d, n) = {} THEN Invalid
    ELSE StateOf(Source(d, n), n).hash

(* Phase 2, scan_file_deallocate: the blocks become DELETED and keep their *)
(* hash, which is the one in the parity, but for REP.                      *)
AfterRemovals(d) ==
    [p \in Positions |->
       LET b == mem.blk[d][p] IN
       IF HasFile(b) /\ b.file \in Freed(d)
       THEN [st |-> "DELETED", file |-> NoName,
             hash |-> IF b.st = "REP" THEN Invalid ELSE b.hash]
       ELSE b]

(* Phase 3, scan_file_allocate: the new files take the first positions     *)
(* without a file, in an order that depends on the directory.              *)
FirstFree(d, k) ==
    LET free == {p \in Positions : ~HasFile(AfterRemovals(d)[p])}
    IN {p \in free : Cardinality({q \in free : q < p}) < k}

Allocated(n, over, hash) ==
    IF hash # Invalid THEN [st |-> "REP", hash |-> hash, file |-> n]
    ELSE [st |-> "CHG", file |-> n, hash |-> IF over.st = "EMPTY" THEN Zero ELSE over.hash]

(* The file of each position newly allocated, and NoName elsewhere.        *)
Allocations(d) ==
    {f \in [Positions -> New(d) \cup {NoName}] :
       /\ \A n \in New(d) : \E p \in Positions : \A q \in Positions : f[q] = n <=> q = p
       /\ {p \in Positions : f[p] # NoName} = FirstFree(d, Cardinality(New(d)))}

(* The check of --force-empty: no disk lost or rewrote all its files, but  *)
(* for the ones found to be copied.                                        *)
Copied(d) == {n \in Inserted(d) \cup Modified(d) : CopySources(d, n) # {}}
Relocated(d) == {n \in Names : \E e \in Disks : n \in Copied(e) /\ Source(e, n) = d}

EmptyCheck ==
    \A d \in Disks : Kept(d) # {} \/ (Removed(d) \subseteq Relocated(d) /\ Modified(d) \subseteq Copied(d))

Scan ==
    /\ pc = "loaded"
    /\ IF ForceEmpty \/ EmptyCheck
       THEN /\ \E alloc \in [Disks -> [Positions -> Names \cup {NoName}]] :
                 /\ \A d \in Disks : alloc[d] \in Allocations(d)
                 /\ mem' = [mem EXCEPT
                      !.blk = [d \in Disks |-> [p \in Positions |->
                         IF alloc[d][p] = NoName THEN AfterRemovals(d)[p]
                         ELSE Allocated(alloc[d][p], AfterRemovals(d)[p],
                                        ReusedHash(d, alloc[d][p]))]],
                      !.stamp = [d \in Disks |-> [n \in Names |-> live[d][n].stamp]]]
            /\ needWrite' = (\E d \in Disks : Freed(d) \cup New(d) # {})
            /\ pc' = "scanned"
       ELSE pc' = "exit" /\ UNCHANGED <<mem, needWrite>>
    /\ UNCHANGED <<userVars, crashes, diskVars, unsynced, todo, readVars, pending, errorVars>>

-----------------------------------------------------------------------------
(* state_write *)
StateWrite ==
    /\ saved' = Cleaned(mem)
    /\ cut' = {p \in cut : \E d \in Disks : mem.blk[d][p].st = "BLK"}
    /\ mem' = Cleaned(mem)
    /\ unsynced' = Unsynced(mem)
    /\ needWrite' = FALSE

(* parity_allocated_size and parity_used_size, in blocks, and the size of  *)
(* a parity file.                                                          *)
Blocks(P) == IF P = {} THEN 0 ELSE 1 + (CHOOSE p \in P : \A q \in P : q <= p)
AllocatedSize == Blocks({p \in Positions : \E d \in Disks : HasFile(mem.blk[d][p])})
UsedSize == Blocks({p \in Positions : \E d \in Disks : mem.blk[d][p].st = "BLK"})
Size(l) == Blocks({p \in Positions : parity[l][p] # NoParity})

(* state_sync opens the parity files, and refuses those too small.         *)
OpenParity ==
    /\ pc = "scanned"
    /\ pc' = IF ~ForceFull /\ (\E l \in Levels : Size(l) < UsedSize) THEN "exit" ELSE "opened"
    /\ UNCHANGED <<userVars, crashes, diskVars, memVars, todo, readVars, pending, errorVars>>

(* parity_chsize on one level after the other: the parity is truncated, or *)
(* extended with zeros.                                                    *)
Resize(l) ==
    /\ pc = "opened"
    /\ Size(l) # AllocatedSize
    /\ \A k \in Levels : k < l => Size(k) = AllocatedSize
    /\ parity' = [parity EXCEPT ![l] = [p \in Positions |->
                    IF p >= AllocatedSize THEN NoParity
                    ELSE IF @[p] = NoParity THEN [d \in Disks |-> Zero] ELSE @[p]]]
    /\ cut' = cut \cup {p \in Positions : p >= AllocatedSize /\ parity[l][p] # NoParity}
    /\ needWrite' = TRUE
    /\ UNCHANGED <<userVars, crashes, saved, durable, pc, mem, unsynced, todo, readVars,
                   pending, errorVars>>

(* state_sync saves the scanned state before computing the parity; then    *)
(* the snapshots of the disks may fail.                                    *)
PreWrite ==
    /\ pc = "opened"
    /\ \A l \in Levels : Size(l) = AllocatedSize
    /\ IF needWrite THEN StateWrite ELSE UNCHANGED <<savedVars, memVars>>
    /\ pc' = "ready" \/ (IoErrors /\ pc' = "failed")
    /\ UNCHANGED <<userVars, crashes, parity, durable, todo, readVars, pending, errorVars>>

(* block_is_enabled *)
Enabled(p) ==
    /\ \E d \in Disks : HasFile(mem.blk[d][p])
    /\ \/ ForceFull
       \/ \E d \in Disks : HasInvalidParity(mem.blk[d][p])

(* The next position to process, or the final barrier.                     *)
NextBlock(rest) ==
    IF rest = {} THEN pc' = "final" /\ todo' = {} /\ UNCHANGED <<pos, toRead>>
    ELSE LET p == CHOOSE x \in rest : \A y \in rest : x <= y IN
         pc' = "reading" /\ pos' = p /\ todo' = rest \ {p} /\ toRead' = Disks

(* state_sync_process selects the positions and starts, unless the array   *)
(* is empty, or the user or the temperature of the disks stops it at once. *)
Begin ==
    /\ pc = "ready"
    /\ IF AllocatedSize = 0
       THEN pc' = "finish" /\ UNCHANGED <<todo, pos, toRead, alert>>
       ELSE \/ NextBlock({p \in Positions : Enabled(p)}) /\ UNCHANGED alert
            \/ pc' \in {"final", "bail"} /\ alert' = TRUE /\ UNCHANGED <<todo, pos, toRead>>
    /\ UNCHANGED <<userVars, crashes, diskVars, memVars, buf, res, pending, werr, errs,
                   found>>

(* sync_data_reader: a file missing or with another stamp is skipped with  *)
(* an error; the disk may fail.                                            *)
ReadDisk(d) ==
    LET b == mem.blk[d][pos]
        file == live[d][b.file]
    IN
    /\ pc = "reading" /\ d \in toRead
    /\ toRead' = toRead \ {d}
    /\ \/ /\ ~HasFile(b)
          /\ buf' = [buf EXCEPT ![d] = Zero] /\ res' = [res EXCEPT ![d] = "ok"]
       \/ /\ HasFile(b) /\ file.stamp = mem.stamp[d][b.file]
          /\ buf' = [buf EXCEPT ![d] = file.data] /\ res' = [res EXCEPT ![d] = "ok"]
       \/ /\ HasFile(b) /\ file.stamp # mem.stamp[d][b.file]
          /\ res' = [res EXCEPT ![d] = "changed"] /\ UNCHANGED buf
       \/ /\ HasFile(b) /\ IoErrors
          /\ res' = [res EXCEPT ![d] = "io"] /\ UNCHANGED buf
    /\ UNCHANGED <<userVars, crashes, diskVars, pc, memVars, todo, pos, pending, errorVars>>

-----------------------------------------------------------------------------
(* The body of the loop of state_sync_process, once the disks are read     *)

At(d) == mem.blk[d][pos]
Files == {d \in Disks : HasFile(At(d))}
InvalidParity == {d \in Disks : HasInvalidParity(At(d))}
ReadOk == {d \in Files : res[d] = "ok"}

Soft == {d \in Files : res[d] = "changed"}
        \cup {d \in ReadOk : At(d).st = "REP" /\ buf[d] # At(d).hash}
Io == {d \in Files : res[d] = "io"}
Silent == {d \in ReadOk : At(d).st = "BLK" /\ buf[d] # At(d).hash}
ChgRead == {d \in ReadOk : At(d).st = "CHG"}

(* Fault: any block read takes the hash of its data.                       *)
HashNow_Any(d) == IF d \in ReadOk THEN buf[d] ELSE At(d).hash

(* memcpy(block->hash, hash): a CHG block read takes the hash of its data. *)
HashNow(d) == IF d \in ChgRead THEN buf[d] ELSE At(d).hash

(* parity_needs_to_be_updated                                              *)
NeedsUpdate ==
    \/ ForceFull
    \/ mem.info[pos] = "bad"
    \/ \E d \in InvalidParity : At(d).st # "CHG"
    \/ \E d \in ChgRead : ~ (unsynced = 0 /\ IsUnique(At(d).hash) /\ At(d).hash = buf[d])

(* The on-the-fly fix.  The blocks to recover are the ones with a silent   *)
(* error and, the parity being maybe the old one, those with an invalid    *)
(* parity but for the CHG blocks whose hash is ZERO.                       *)
Zeroed == {d \in InvalidParity : At(d).st = "CHG" /\ HashNow(d) = Zero}
ToRecover == Silent \cup (InvalidParity \ Zeroed)

(* raid_rec with the first levels: the data in the parity when they agree  *)
(* with each other and with the blocks not to recover.                     *)
Recovered(F, base, from) ==
    LET w == from[0] IN
    IF /\ \A l \in 0 .. Cardinality(F) - 1 : from[l] = w
       /\ \A d \in Disks \ F : base[d] = w[d]
    THEN w ELSE [d \in Disks |-> Garbage]

TriesFix == Silent # {} /\ Soft = {} /\ Io = {} /\ Cardinality(ToRecover) <= LevelMax

Fixed ==
    LET base == [d \in Disks |-> IF d \in Zeroed THEN Zero ELSE buf[d]]
        from == [l \in Levels |-> parity[l][pos]]
    IN
    /\ TriesFix
    /\ \A d \in Silent : Recovered(ToRecover, base, from)[d] = At(d).hash

(* All the data required is read and correct.                              *)
Complete(fixed) == Soft = {} /\ Io = {} /\ (Silent = {} \/ fixed)

(* raid_gen                                                                *)
NewVector == [d \in Disks |-> IF d \in Silent THEN At(d).hash ELSE buf[d]]

NewBlock(d, fixed) ==
    CASE Complete(fixed) /\ At(d).st = "DELETED" -> EmptyBlock
      [] Complete(fixed) /\ HasFile(At(d)) -> [At(d) EXCEPT !.st = "BLK", !.hash = HashNow(d)]
      [] OTHER -> [At(d) EXCEPT !.hash = HashNow(d)]

(* Fault: the info of the positions synced is not set.                     *)
NewInfo_Keep(fixed) == IF Silent \cup Io # {} THEN "bad" ELSE mem.info[pos]

NewInfo(fixed) ==
    IF Silent \cup Io # {} THEN "bad"
    ELSE IF Complete(fixed) /\ NeedsUpdate THEN "good"
    ELSE mem.info[pos]

(* The parity may be unreadable for the fix, the block is then not fixed.  *)
Process ==
    /\ pc = "reading" /\ toRead = {}
    /\ \E fixed \in IF IoErrors THEN {FALSE, Fixed} ELSE {Fixed} :
         /\ mem' = [mem EXCEPT
              !.blk = [d \in Disks |-> [mem.blk[d] EXCEPT ![pos] = NewBlock(d, fixed)]],
              !.info[pos] = NewInfo(fixed)]
         /\ pending' = IF Complete(fixed) /\ NeedsUpdate
                       THEN [l \in Levels |-> Append(pending[l], [at |-> pos, data |-> NewVector])]
                       ELSE pending
    /\ errs' = (errs \/ Soft \cup Io \cup Silent # {})
    /\ found' = IF Silent \cup Io # {} THEN found \cup {pos} ELSE found
    /\ needWrite' = TRUE
    /\ pc' = IF werr THEN "bail" ELSE "progress"
    /\ buf' = [d \in Disks |-> Zero] /\ res' = [d \in Disks |-> "ok"]
    /\ UNCHANGED <<userVars, crashes, diskVars, unsynced, todo, pos, toRead, werr, alert>>

(* A disk, or the parity read for the fix, fails in a way that stops the   *)
(* sync, or reaches the limit of the errors.                               *)
GiveUp ==
    /\ pc = "reading" /\ toRead = {}
    /\ Io # {} \/ (IoErrors /\ TriesFix)
    /\ errs' = TRUE
    /\ pc' = "bail"
    /\ UNCHANGED <<userVars, crashes, diskVars, memVars, todo, readVars, pending, werr,
                   alert, found>>

(* sync_parity_writer, behind the main thread: a write may fail.           *)
WriteParity(l) ==
    /\ pending[l] # <<>>
    /\ pending' = [pending EXCEPT ![l] = Tail(@)]
    /\ \/ /\ parity' = [parity EXCEPT ![l][Head(pending[l]).at] = Head(pending[l]).data]
          /\ UNCHANGED werr
       \/ IoErrors /\ werr' = TRUE /\ UNCHANGED parity
    /\ UNCHANGED <<userVars, crashes, savedVars, durable, pc, memVars, todo, readVars,
                   errs, alert, found>>

(* state_progress and the autosave: the next block, a barrier, or an       *)
(* interruption, which goes to the final barrier.                          *)
Progress ==
    /\ pc = "progress"
    /\ \/ NextBlock(todo) /\ UNCHANGED alert
       \/ pc' = "auto" /\ UNCHANGED <<todo, pos, toRead, alert>>
       \/ pc' = "final" /\ alert' = TRUE /\ UNCHANGED <<todo, pos, toRead>>
    /\ UNCHANGED <<userVars, crashes, diskVars, memVars, buf, res, pending, werr, errs,
                   found>>

(* Faults: the writers are waited for on the first level only; a failure   *)
(* of the parity is not handled.                                           *)
Barrier_FirstLevel ==
    /\ pc \in {"auto", "final"}
    /\ pending[0] = <<>>
    /\ \/ ~werr /\ durable' = parity /\ pc' = IF pc = "auto" THEN "autosave" ELSE "finish"
       \/ (werr \/ IoErrors) /\ pc' = "bail" /\ UNCHANGED durable
    /\ UNCHANGED <<userVars, crashes, savedVars, parity, memVars, todo, readVars, pending,
                   errorVars>>

Barrier_NoBail ==
    /\ pc \in {"auto", "final"}
    /\ \A l \in Levels : pending[l] = <<>>
    /\ ~werr /\ durable' = parity /\ pc' = IF pc = "auto" THEN "autosave" ELSE "finish"
    /\ UNCHANGED <<userVars, crashes, savedVars, parity, memVars, todo, readVars, pending,
                   errorVars>>

(* state_barrier: the writers drain, their errors are collected, then      *)
(* parity_sync makes the parity durable.  A failure bails out.             *)
Barrier ==
    /\ pc \in {"auto", "final"}
    /\ \A l \in Levels : pending[l] = <<>>
    /\ \/ ~werr /\ durable' = parity /\ pc' = IF pc = "auto" THEN "autosave" ELSE "finish"
       \/ (werr \/ IoErrors) /\ pc' = "bail" /\ UNCHANGED durable
    /\ UNCHANGED <<userVars, crashes, savedVars, parity, memVars, todo, readVars, pending,
                   errorVars>>

(* The autosave writes the content file and goes on; the thermal cooldown  *)
(* needs only the barrier.                                                 *)
AutoSave ==
    /\ pc = "autosave"
    /\ (Autosave /\ StateWrite) \/ UNCHANGED <<savedVars, memVars>>
    /\ pc' = "saved"
    /\ UNCHANGED <<userVars, crashes, parity, durable, todo, readVars, pending, errorVars>>

Resume ==
    /\ pc = "saved"
    /\ NextBlock(todo)
    /\ UNCHANGED <<userVars, crashes, diskVars, memVars, buf, res, pending, errorVars>>

(* Fault: the errors do not make the sync fail.                            *)
Finish_Ignore ==
    /\ pc = "finish"
    /\ pc' = "done"
    /\ IF needWrite THEN StateWrite ELSE UNCHANGED <<savedVars, memVars>>
    /\ UNCHANGED <<userVars, crashes, parity, durable, todo, readVars, pending, errorVars>>

(* The end of state_sync: any error or interruption, also in closing the   *)
(* parity, returns -1 before the final state_write.                        *)
Finish ==
    /\ pc = "finish"
    /\ \/ /\ errs \/ alert \/ IoErrors
          /\ pc' = "failed" /\ UNCHANGED <<savedVars, memVars>>
       \/ /\ ~errs /\ ~alert
          /\ pc' = "done"
          /\ IF needWrite THEN StateWrite ELSE UNCHANGED <<savedVars, memVars>>
    /\ UNCHANGED <<userVars, crashes, parity, durable, todo, readVars, pending, errorVars>>

(* io_stop lets the writers drain, then state_sync returns -1.             *)
Bail ==
    /\ pc = "bail"
    /\ \A l \in Levels : pending[l] = <<>>
    /\ pc' = "failed"
    /\ UNCHANGED <<userVars, crashes, diskVars, memVars, todo, readVars, pending, errorVars>>

(* The memory of the process is gone, with the parity writes not started.  *)
Gone ==
    /\ pc' = "off"
    /\ mem' = saved /\ needWrite' = FALSE /\ unsynced' = 0
    /\ todo' = {} /\ pos' = 0 /\ toRead' = {}
    /\ buf' = [d \in Disks |-> Zero] /\ res' = [d \in Disks |-> "ok"]
    /\ pending' = [l \in Levels |-> <<>>]
    /\ werr' = FALSE /\ errs' = FALSE /\ alert' = FALSE /\ found' = {}

Exit ==
    /\ pc \in {"exit", "done", "failed"}
    /\ Gone
    /\ UNCHANGED <<userVars, crashes, savedVars, parity, durable>>

(* SIGKILL: what the writers wrote stays.                                  *)
Kill ==
    /\ pc # "off" /\ crashes < MaxCrash
    /\ crashes' = crashes + 1
    /\ Gone
    /\ UNCHANGED <<userVars, savedVars, parity, durable>>

(* Power loss: of each parity block written, truncated or added since the  *)
(* last parity_sync the disk has the new or the old content.               *)
PowerLoss ==
    /\ crashes < MaxCrash
    /\ crashes' = crashes + 1
    /\ \E kept \in SUBSET (Levels \X Positions) :
         /\ parity' = [l \in Levels |-> [p \in Positions |->
                         IF <<l, p>> \in kept THEN parity[l][p] ELSE durable[l][p]]]
         /\ \A l \in Levels, p \in Positions : parity'[l][p] = NoParity =>
                \A q \in Positions : q > p => parity'[l][q] = NoParity
         /\ durable' = parity'
    /\ Gone
    /\ UNCHANGED <<userVars, savedVars>>

Main == \/ Scan \/ OpenParity \/ (\E l \in Levels : Resize(l)) \/ PreWrite \/ Begin
        \/ (\E d \in Disks : ReadDisk(d)) \/ Process \/ GiveUp
        \/ Progress \/ Barrier \/ AutoSave \/ Resume \/ Finish \/ Bail \/ Exit

User == \E d \in Disks, n \in Names :
            UserWrite(d, n) \/ UserDelete(d, n) \/ UserCopy(d, n) \/ SilentError(d, n)

Next == \/ User \/ Load \/ Main \/ (\E l \in Levels : WriteParity(l)) \/ Kill \/ PowerLoss

(* A run started goes on; the user, the crashes and the start of a run are *)
(* under no obligation.                                                    *)
Spec == /\ Init /\ [][Next]_vars
        /\ WF_vars(Main) /\ \A l \in Levels : WF_vars(WriteParity(l))

-----------------------------------------------------------------------------
Pcs == {"off", "loaded", "scanned", "opened", "ready", "reading", "progress", "auto", "autosave",
        "saved", "final", "finish", "bail", "failed", "done", "exit"}

TypeOK ==
    /\ live \in [Disks -> [Names -> [data : Data, stamp : Stamps]]]
    /\ ops \in 0 .. MaxOps /\ crashes \in 0 .. MaxCrash
    /\ saved \in State /\ mem \in State
    /\ parity \in [Levels -> ParityFile] /\ durable \in [Levels -> ParityFile]
    /\ pc \in Pcs
    /\ needWrite \in BOOLEAN /\ unsynced \in 0 .. PosMax
    /\ todo \subseteq Positions /\ pos \in Positions /\ toRead \subseteq Disks
    /\ buf \in [Disks -> Data] /\ res \in [Disks -> {"ok", "changed", "io"}]
    /\ pending \in [Levels -> Seq([at : Positions, data : Vectors])]
    /\ {werr, errs, alert} \subseteq BOOLEAN
    /\ found \subseteq Positions /\ cut \subseteq Positions

(* The blocks recorded as synced (BLK) at position p are in the parity, in *)
(* every level, and the disks recorded as empty there count as zeros.      *)
HoldsAt(p, par) ==
    (\E d \in Disks : saved.blk[d][p].st = "BLK") =>
        \A l \in Levels :
          /\ par[l][p] # NoParity
          /\ \A d \in Disks :
               /\ saved.blk[d][p].st = "BLK" => par[l][p][d] = saved.blk[d][p].hash
               /\ saved.blk[d][p].st = "EMPTY" => par[l][p][d] = Zero

(* Whatever happens, also in the middle of a sync, the content file never  *)
(* promises more than the parity holds, before and after a power loss; but *)
(* for the positions that a sync truncates before it saves that the files  *)
(* there are gone, and as long as they are recorded as synced.             *)
SavedParityHolds ==
    \A p \in Positions \ cut : HoldsAt(p, parity) /\ HoldsAt(p, durable)

(* Every position with a synced block has an info, or state_read_content   *)
(* aborts on the content file ("Missing info").                            *)
SavedInfoComplete ==
    \A p \in Positions :
        (\E d \in Disks : saved.blk[d][p].st = "BLK") => saved.info[p] # "none"

(* When sync ends with success no position is left unsynced in the content *)
(* file.                                                                   *)
SuccessMeansSynced == pc = "done" => Unsynced(saved) = 0

(* A sync never replaces the hash of a block it recorded as synced, while  *)
(* the file keeps its stamp: a silent error is never made good.            *)
NoLaundering ==
    [][\A d \in Disks, n \in Names, p \in Positions :
         LET old == saved.blk[d][p]
             new == saved'.blk[d][p]
         IN old.st = "BLK" /\ old.file = n /\ new.file = n
            /\ saved'.stamp[d][n] = saved.stamp[d][n]
            => new.st = "BLK" /\ new.hash = old.hash]_vars

(* A run that starts ends, whatever the errors.                            *)
RunsEnd == []<>(pc = "off")

-----------------------------------------------------------------------------
(* What the documentation says of an interrupted or failing sync           *)

(* "If silent or input/output errors are found during the process, the     *)
(* corresponding blocks are marked as bad" (doc/snapraid.txt): they are in *)
(* the content file when the run has ended.                                *)
ErrorsMarkedBad ==
    pc = "failed" /\ ~werr => \A p \in found : saved.info[p] = "bad"

=============================================================================
