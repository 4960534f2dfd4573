------------------------------ MODULE Snapshot ------------------------------
(***************************************************************************)
(* The filesystem snapshots of the data disks across syncs that end, are   *)
(* interrupted or fail: "scan" is taken first, becomes "pending" before    *)
(* the parity changes, and "stable" after a complete sync (state.c,        *)
(* snapraid.c).  Scrub, check and fix read from them while the user keeps  *)
(* changing the files.                                                     *)
(*                                                                         *)
(* The data of a file is told by a version: its stamp, and its hash.  The  *)
(* file with a given name has one block, at a position of its own, and     *)
(* there is one parity: what changes inside of a position is the subject   *)
(* of SyncArray and Recovery.                                              *)
(***************************************************************************)
EXTENDS Naturals, FiniteSets

CONSTANTS
    DiskMax,     \* the data disks
    Names,       \* the files, and their positions
    MaxOps,      \* bound on the changes of the user
    MaxSyncs,    \* bound on the syncs begun
    MaxBegun,    \* bound on the syncs interrupted in a row
    None         \* a snapshot that does not exist

ASSUME SnapshotAssumption ==
    /\ DiskMax \in Nat \ {0}
    /\ Names # {} /\ IsFiniteSet(Names)
    /\ MaxOps \in Nat /\ MaxSyncs \in Nat /\ MaxBegun \in Nat
    /\ None \notin [Names -> Nat]

Disks == 1 .. DiskMax
Kinds == {"scan", "pending", "stable"}

VARIABLES
    live,     \* [disk][name] the version on the filesystem, 0 for no file
    vol,      \* [disk][kind] the snapshots: the versions frozen, or None
    saved,    \* the content file
    parity,   \* [name][disk] the version in the parity of each position
    ops, syncs,
    \* the running process
    pc,
    disk,     \* the disk that a loop over the disks is at
    mem,      \* the state in memory
    needWrite,
    todo,     \* the positions left to process
    failed,   \* process_error, or the error of the loop over the disks
    begun     \* syncs that saved what they scanned, since one was committed

diskVars == <<vol, saved, parity>>
vars == <<live, diskVars, ops, syncs, pc, disk, mem, needWrite, todo, failed, begun>>

NoFiles == [n \in Names |-> 0]
Empty == [st |-> "EMPTY", file |-> 0, past |-> 0]

Init ==
    /\ live = [d \in Disks |-> NoFiles]
    /\ vol = [d \in Disks |-> [k \in Kinds |-> None]]
    /\ saved = [blk |-> [d \in Disks |-> [n \in Names |-> Empty]],
                dealloc |-> [d \in Disks |-> {}]]
    /\ parity = [n \in Names |-> [d \in Disks |-> 0]]
    /\ ops = 0 /\ syncs = 0 /\ begun = 0
    /\ pc = "off" /\ disk = 1 /\ mem = saved
    /\ needWrite = FALSE /\ todo = {} /\ failed = FALSE

-----------------------------------------------------------------------------
(* The user writes or deletes a file of the live filesystem, at any time.  *)
Change(d, n) ==
    /\ ops < MaxOps
    /\ ops' = ops + 1
    /\ \E v \in {0, ops + 1} : v # live[d][n] /\ live' = [live EXCEPT ![d][n] = v]
    /\ UNCHANGED <<diskVars, syncs, pc, disk, mem, needWrite, todo, failed, begun>>

Exit == pc' = "off" /\ disk' = 1 /\ mem' = saved' /\ needWrite' = FALSE /\ todo' = {} /\ failed' = FALSE

(* A kill, a power loss, a Ctrl+C or a fatal error.                        *)
Interrupt ==
    /\ pc # "off"
    /\ UNCHANGED <<live, diskVars, ops, syncs, begun>>
    /\ Exit

(* The loop over the disks goes on with the next one, or with the phase p. *)
(* Fault: the last disk is not told from the others.                       *)
NextDisk_Past(p) ==
    IF disk > DiskMax THEN disk' = 1 /\ pc' = p ELSE disk' = disk + 1 /\ UNCHANGED pc

NextDisk(p) ==
    IF disk = DiskMax THEN disk' = 1 /\ pc' = p ELSE disk' = disk + 1 /\ UNCHANGED pc

StartSync ==
    /\ pc = "off" /\ syncs < MaxSyncs /\ begun < MaxBegun
    /\ syncs' = syncs + 1
    /\ pc' = "scan"
    /\ UNCHANGED <<live, diskVars, ops, disk, mem, needWrite, todo, failed, begun>>

(* state_snapshot_scan: a scan snapshot left behind is deleted, and a new  *)
(* one is created, or the error is fatal.                                  *)
SnapshotScan ==
    /\ pc = "scan"
    /\ UNCHANGED <<live, saved, parity, ops, syncs, begun>>
    /\ \/ /\ vol' = [vol EXCEPT ![disk]["scan"] = live[disk]]
          /\ NextDisk("scanned")
          /\ UNCHANGED <<mem, needWrite, todo, failed>>
       \/ vol' = [vol EXCEPT ![disk]["scan"] = None] /\ Exit

HasFile(b) == b.st \in {"BLK", "CHG"}
Invalid(b) == b.st \in {"CHG", "DELETED"}

(* The block of a file after the scan found the version v: a block freed   *)
(* keeps the hash of what was in the parity for the one that takes its     *)
(* place.                                                                  *)
Scanned(b, v) ==
    LET past == IF b.st = "BLK" THEN b.file ELSE b.past IN
    CASE v = b.file -> b
      [] v = 0 /\ b.file # 0 -> [st |-> "DELETED", file |-> 0, past |-> past]
      [] OTHER -> [st |-> "CHG", file |-> v, past |-> past]

(* What scan_file_remove keeps of a file: its version is known by hash if  *)
(* the block is synced.                                                    *)
(* Fault: the files modified are not kept track of.                        *)
Deallocated_Removed(d) ==
    {<<n, mem.blk[d][n].file>> : n \in
        {n \in Names : mem.blk[d][n].st = "BLK" /\ vol[d]["scan"][n] = 0}}

Deallocated(d) ==
    {<<n, mem.blk[d][n].file>> : n \in
        {n \in Names : mem.blk[d][n].st = "BLK" /\ vol[d]["scan"][n] # mem.blk[d][n].file}}

(* state_scan, over the scan snapshots.                                    *)
Scan ==
    /\ pc = "scanned"
    /\ mem' = [blk |-> [d \in Disks |-> [n \in Names |->
                          Scanned(mem.blk[d][n], vol[d]["scan"][n])]],
               dealloc |-> [d \in Disks |-> mem.dealloc[d] \cup Deallocated(d)]]
    /\ needWrite' = (mem'.blk # mem.blk \/ \E d \in Disks, n \in Names : mem'.blk[d][n].st = "CHG")
    /\ pc' = "write"
    /\ UNCHANGED <<live, diskVars, ops, syncs, disk, todo, failed, begun>>

(* A position without files loses its deleted blocks.                      *)
Cleaned(m) ==
    [m EXCEPT !.blk = [d \in Disks |-> [n \in Names |->
        IF \E e \in Disks : HasFile(m.blk[e][n]) THEN m.blk[d][n] ELSE Empty]]]

StateWrite == saved' = Cleaned(mem) /\ mem' = Cleaned(mem) /\ needWrite' = FALSE

(* state_sync saves the state scanned before the snapshots change.         *)
Write ==
    /\ pc = "write"
    /\ IF needWrite THEN StateWrite ELSE UNCHANGED <<saved, mem, needWrite>>
    /\ begun' = begun + 1
    /\ pc' = "delpending"
    /\ UNCHANGED <<live, vol, parity, ops, syncs, disk, todo, failed>>

-----------------------------------------------------------------------------
(* state_snapshot_pending and state_snapshot_commit: for each disk the old *)
(* snapshot is deleted, and another is renamed in its place.  A disk with  *)
(* an error is left as it is, and the loop continues.                      *)
Delete(kind, thisPc, renamePc, endPc) ==
    /\ pc = thisPc
    /\ \/ /\ vol' = [vol EXCEPT ![disk][kind] = None]
          /\ pc' = renamePc
          /\ UNCHANGED <<disk, failed>>
       \/ vol[disk][kind] # None /\ failed' = TRUE /\ NextDisk(endPc) /\ UNCHANGED vol
    /\ UNCHANGED <<live, saved, parity, ops, syncs, mem, needWrite, todo, begun>>

Rename(from, to, thisPc, deletePc, endPc) ==
    /\ pc = thisPc
    /\ \/ vol' = [vol EXCEPT ![disk] = [@ EXCEPT ![to] = vol[disk][from], ![from] = None]]
          /\ UNCHANGED failed
       \/ failed' = TRUE /\ UNCHANGED vol
    /\ IF disk = DiskMax THEN disk' = 1 /\ pc' = endPc ELSE disk' = disk + 1 /\ pc' = deletePc
    /\ UNCHANGED <<live, saved, parity, ops, syncs, mem, needWrite, todo, begun>>

SnapshotPending ==
    \/ Delete("pending", "delpending", "renscan", "process")
    \/ Rename("scan", "pending", "renscan", "delpending", "process")

(* block_is_enabled, for each position; an error stops here.               *)
StartProcess ==
    /\ pc = "process" /\ ~failed
    /\ todo' = {n \in Names : /\ \E d \in Disks : HasFile(mem.blk[d][n])
                              /\ \E d \in Disks : Invalid(mem.blk[d][n])}
    /\ pc' = "sync"
    /\ UNCHANGED <<live, diskVars, ops, syncs, disk, mem, needWrite, failed, begun>>

(* One position: the parity is computed from the pending snapshots.        *)
(* Fault: from the files of the live filesystem.                           *)
SyncBlock_Live(n) ==
    /\ pc = "sync" /\ n \in todo
    /\ todo' = todo \ {n}
    /\ parity' = [parity EXCEPT ![n] = [d \in Disks |-> live[d][n]]]
    /\ mem' = [mem EXCEPT !.blk = [d \in Disks |-> [mem.blk[d] EXCEPT ![n] =
                 IF HasFile(@) THEN [st |-> "BLK", file |-> @.file, past |-> 0] ELSE Empty]]]
    /\ needWrite' = TRUE
    /\ UNCHANGED <<live, vol, saved, ops, syncs, pc, disk, failed, begun>>

SyncBlock(n) ==
    /\ pc = "sync" /\ n \in todo
    /\ todo' = todo \ {n}
    /\ parity' = [parity EXCEPT ![n] = [d \in Disks |-> vol[d]["pending"][n]]]
    /\ mem' = [mem EXCEPT !.blk = [d \in Disks |-> [mem.blk[d] EXCEPT ![n] =
                 IF HasFile(@) THEN [st |-> "BLK", file |-> @.file, past |-> 0] ELSE Empty]]]
    /\ needWrite' = TRUE
    /\ UNCHANGED <<live, vol, saved, ops, syncs, pc, disk, failed, begun>>

Autosave ==
    /\ pc = "sync" /\ needWrite
    /\ StateWrite
    /\ UNCHANGED <<live, vol, parity, ops, syncs, pc, disk, todo, failed, begun>>

(* All is synced: state_commit forgets the deallocated files, the state is *)
(* saved and the snapshots are committed.                                  *)
SyncEnd ==
    /\ pc = "sync" /\ todo = {}
    /\ LET m == [mem EXCEPT !.dealloc = [d \in Disks |-> {}]] IN
       IF needWrite \/ m # mem
       THEN saved' = Cleaned(m) /\ mem' = Cleaned(m) /\ needWrite' = FALSE
       ELSE UNCHANGED <<saved, mem, needWrite>>
    /\ pc' = "delstable"
    /\ UNCHANGED <<live, vol, parity, ops, syncs, disk, todo, failed, begun>>

SnapshotCommit ==
    \/ Delete("stable", "delstable", "renpending", "end")
    \/ Rename("pending", "stable", "renpending", "delstable", "end")

SyncExit ==
    /\ pc = "end" \/ (pc = "process" /\ failed)
    /\ begun' = IF pc = "end" /\ ~failed THEN 0 ELSE begun
    /\ UNCHANGED <<live, diskVars, ops, syncs>>
    /\ Exit

Next ==
    \/ \E d \in Disks, n \in Names : Change(d, n)
    \/ StartSync \/ SnapshotScan \/ Scan \/ Write
    \/ SnapshotPending \/ StartProcess \/ (\E n \in Names : SyncBlock(n)) \/ Autosave
    \/ SyncEnd \/ SnapshotCommit \/ SyncExit
    \/ Interrupt

Spec == Init /\ [][Next]_vars

-----------------------------------------------------------------------------
(* state_snapshot_read, and state_snapshot_write for the disks that are    *)
(* not the one to fix: where the files of a disk are read from.            *)
(* Fault: stable comes first.                                              *)
Reference_Stable(d) ==
    IF vol[d]["stable"] # None THEN vol[d]["stable"]
    ELSE IF vol[d]["pending"] # None THEN vol[d]["pending"]
    ELSE live[d]

Reference(d) ==
    IF vol[d]["pending"] # None THEN vol[d]["pending"]
    ELSE IF vol[d]["stable"] # None THEN vol[d]["stable"]
    ELSE live[d]

(* The deallocated files found in stable, beside pending.                  *)
Imported(d) ==
    IF vol[d]["pending"] = None \/ vol[d]["stable"] = None THEN {}
    ELSE {x \in saved.dealloc[d] : vol[d]["stable"][x[1]] = x[2]}

(* What fix takes for the block of a disk at a position: as it is read, or *)
(* as it was for a parity not updated, or None.                            *)
Now(d, n) ==
    LET b == saved.blk[d][n] IN
    CASE ~HasFile(b) -> {0}
      [] b.st = "BLK" /\ Reference(d)[n] # b.file -> {b.file} \cap {x[2] : x \in Imported(d)}
      [] OTHER -> {Reference(d)[n]}

Before(d, n) ==
    LET b == saved.blk[d][n] IN
    IF ~Invalid(b) THEN Now(d, n)
    ELSE {b.past} \cap ((IF b.st = "CHG" THEN {0} ELSE {}) \cup {x[2] : x \in Imported(d)})

(* "fix -d" of the disk x: its block is solved from the parity.            *)
Rebuilt(x, n) ==
    /\ parity[n][x] = saved.blk[x][n].file
    /\ \/ \A d \in Disks \ {x} : parity[n][d] \in Now(d, n)
       \/ \A d \in Disks \ {x} : parity[n][d] \in Before(d, n)

TypeOK ==
    LET files == [Names -> 0 .. MaxOps]
        state == [blk : [Disks -> [Names -> [st : {"EMPTY", "BLK", "CHG", "DELETED"},
                                             file : 0 .. MaxOps, past : 0 .. MaxOps]]],
                  dealloc : [Disks -> SUBSET (Names \X (0 .. MaxOps))]]
    IN
    /\ live \in [Disks -> files]
    /\ vol \in [Disks -> [Kinds -> files \cup {None}]]
    /\ saved \in state /\ mem \in state
    /\ parity \in [Names -> [Disks -> 0 .. MaxOps]]
    /\ pc \in {"off", "scan", "scanned", "write", "delpending", "renscan", "process", "sync",
               "delstable", "renpending", "end"}
    /\ disk \in Disks /\ begun \in 0 .. MaxBegun

(* After a complete sync the stable snapshots have the exact data used to  *)
(* compute the parity, which is the one in the content file.               *)
StableIsParity ==
    pc = "off" /\ begun = 0 =>
        \A n \in Names : (\E d \in Disks : HasFile(saved.blk[d][n])) =>
            \A d \in Disks :
                /\ vol[d]["pending"] = None /\ vol[d]["stable"] # None
                /\ vol[d]["stable"][n] = saved.blk[d][n].file
                /\ parity[n][d] = saved.blk[d][n].file

(* A synced block is read from the snapshots, by scrub and by check and    *)
(* fix of other disks (-d: without it they read the live files), with the  *)
(* data it was synced with, whatever the user does to the file after: also *)
(* between interrupted syncs, but for a kill between the removal of a      *)
(* pending snapshot and the rename of the one that replaces it.            *)
SyncedBlocksFrozen ==
    pc = "off" =>
        \A d \in Disks : vol[d]["pending"] # None \/ begun <= 1 =>
            \A n \in Names : saved.blk[d][n].st = "BLK" =>
                Reference(d)[n] = saved.blk[d][n].file

(* After a sync interrupted or failed anywhere since the last complete     *)
(* one, with the files changed or deleted by the user, a synced block of a *)
(* disk lost is rebuilt from the snapshots of the others: all as they are, *)
(* or all as they were, with what is imported from stable.  The import     *)
(* needs the pending snapshot of the disk: a kill between the removals and *)
(* the renames leaves disks with pending and disks without, and then the   *)
(* position must not have unsynced blocks on both, nor one deleted on a    *)
(* disk without.                                                           *)
RebuiltFromSnapshots ==
    pc = "off" /\ begun <= 1 =>
        \A x \in Disks, n \in Names :
            LET unsynced == {d \in Disks \ {x} : Invalid(saved.blk[d][n])} IN
            /\ saved.blk[x][n].st = "BLK"
            /\ \/ \A d \in unsynced : vol[d]["pending"] # None
               \/ \A d \in unsynced : saved.blk[d][n].st = "CHG" /\ vol[d]["pending"] = None
            => Rebuilt(x, n)

=============================================================================
