----------------------------- MODULE ScanFiles -----------------------------
(***************************************************************************)
(* The scan of the data disks (scan.c): a thread for each disk walks its   *)
(* directories, recognises the files by inode, path and stamp, and looks   *)
(* for copies of the new ones among the files of all the disks.  When all  *)
(* the threads are done the old files are removed and the new inserted.    *)
(* The user may change the files before the scan and during it.            *)
(*                                                                         *)
(* All the paths have the same file name in different directories, as the  *)
(* search of copies is by name and stamp.  A stamp is size and time.       *)
(***************************************************************************)
EXTENDS Naturals, FiniteSets

CONSTANTS
    DiskMax,     \* the data disks
    Paths,       \* the paths of a disk
    Inodes,      \* the inodes of a disk
    MaxOps,      \* bound on the changes of the user
    None         \* no file at a path, or INODE_INVALID

ASSUME ScanAssumption ==
    /\ DiskMax \in Nat \ {0} /\ MaxOps \in Nat
    /\ IsFiniteSet(Paths) /\ Paths # {}
    /\ IsFiniteSet(Inodes) /\ None \notin Inodes \cup Paths

Disks == 1 .. DiskMax

(* A file object is named after the path it had when it was read from the  *)
(* content file, or when it was created by the scan.  A kept file without  *)
(* a valid parity is replaced by a copy of it, which is the same here.     *)
Ids == {"old", "new"} \X Paths

VARIABLES
    fs,        \* [disk][path] the files
    ops,
    persistent,\* inodes and UUID of the disks are persistent
    phase,     \* "off", "scan", "saved", "exit" or "abort"
    obj,       \* [disk] the file objects allocated, by id
    links,     \* [disk][path] the path a hardlink is to, or None
    inodeset,  \* [disk] the objects searched by inode
    stampset,  \* [disk] the objects searched by path (pathset) and by stamp
    todo,      \* [disk] the paths to visit
    th,        \* [disk] the thread that scans the disk
    \* the history of the scan
    seen,      \* [disk][path] the file as the scan saw it
    changed,   \* the user changed something during the scan
    before     \* obj as read from the content file

userVars == <<fs, ops, changed>>
sets == <<inodeset, stampset>>
vars == <<userVars, persistent, phase, obj, links, sets, todo, th, seen, before>>

Idle == [pc |-> "walk", new |-> None, modified |-> FALSE, at |-> 0, other |-> None]

Distinct(S) == {f \in [Paths -> S] : \A p, q \in Paths : f[p] = f[q] => p = q}

(* The array and the files start in agreement, the files of the first disk *)
(* maybe not yet synced; inodes not persistent are reassigned since.       *)
Init ==
    \E files \in [Disks -> SUBSET Paths \ {{}}], first \in {"BLK", "CHG"},
       num, past \in Distinct(Inodes), time \in Distinct(1 .. Cardinality(Paths)) :
      /\ persistent \in BOOLEAN /\ (persistent => past = num)
      /\ fs = [d \in Disks |-> [p \in Paths |->
                 IF p \in files[d] THEN [ino |-> num[p], stamp |-> time[p]] ELSE None]]
      /\ obj = [d \in Disks |-> [i \in {"old"} \X files[d] |->
                 [sub |-> i[2], stamp |-> time[i[2]], flags |-> {}, ino |-> past[i[2]],
                  st |-> IF d = 1 THEN first ELSE "BLK"]]]
      /\ before = obj
      /\ ops = 0 /\ phase = "off" /\ changed = FALSE
      /\ links = [d \in Disks |-> [p \in Paths |-> None]]
      /\ inodeset = [d \in Disks |-> {}] /\ stampset = inodeset /\ todo = inodeset
      /\ th = [d \in Disks |-> Idle]
      /\ seen = [d \in Disks |-> [p \in Paths |-> None]]

-----------------------------------------------------------------------------
(* The user.  A file written has a time of its own, a copy keeps the time. *)
UserStep(d, files) ==
    /\ ops < MaxOps /\ phase \in {"off", "scan"}
    /\ ops' = ops + 1
    /\ fs' = [fs EXCEPT ![d] = files]
    /\ changed' = (phase = "scan")
    /\ UNCHANGED <<persistent, phase, obj, links, sets, todo, th, seen, before>>

NewStamp == Cardinality(Paths) + ops + 1
InUse(d) == {fs[d][p].ino : p \in {q \in Paths : fs[d][q] # None}}
Stamps == {fs[x[1]][x[2]].stamp : x \in {y \in Disks \X Paths : fs[y[1]][y[2]] # None}}

(* A file created, or replaced by a new one or by a copy.                  *)
Create(d, p) ==
    \E i \in Inodes \ InUse(d), s \in {NewStamp} \cup Stamps :
      UserStep(d, [fs[d] EXCEPT ![p] = [ino |-> i, stamp |-> s]])

Rewrite(d, p) ==
    fs[d][p] # None /\
    UserStep(d, [q \in Paths |-> IF fs[d][q] # None /\ fs[d][q].ino = fs[d][p].ino
                                 THEN [fs[d][q] EXCEPT !.stamp = NewStamp] ELSE fs[d][q]])

Delete(d, p) == fs[d][p] # None /\ UserStep(d, [fs[d] EXCEPT ![p] = None])

Rename(d, p, q) ==
    fs[d][p] # None /\ p # q /\ UserStep(d, [fs[d] EXCEPT ![q] = fs[d][p], ![p] = None])

Link(d, p, q) ==
    fs[d][p] # None /\ fs[d][q] = None /\ UserStep(d, [fs[d] EXCEPT ![q] = fs[d][p]])

User == \E d \in Disks, p \in Paths :
          Create(d, p) \/ Rewrite(d, p) \/ Delete(d, p)
          \/ \E q \in Paths : Rename(d, p, q) \/ Link(d, p, q)

-----------------------------------------------------------------------------
(* state_diffscan starts the threads.  The past inodes that mean nothing   *)
(* are forgotten (scan_disk).                                              *)
Start ==
    /\ phase = "off"
    /\ phase' = "scan"
    /\ obj' = [d \in Disks |-> [i \in DOMAIN obj[d] |->
                 IF persistent THEN obj[d][i] ELSE [obj[d][i] EXCEPT !.ino = None]]]
    /\ inodeset' = [d \in Disks |-> IF persistent THEN DOMAIN obj[d] ELSE {}]
    /\ stampset' = [d \in Disks |-> DOMAIN obj[d]]
    /\ todo' = [d \in Disks |-> Paths]
    /\ UNCHANGED <<userVars, persistent, links, th, seen, before>>

With(f, i, v) == [j \in DOMAIN f \cup {i} |-> IF j = i THEN v ELSE f[j]]
Present(o) == "present" \in o.flags
Single(d, n) == Cardinality({q \in Paths : fs[d][q] # None /\ fs[d][q].ino = n}) = 1
ByInode(d, n) == {i \in inodeset[d] : obj[d][i].ino = n}
ByPath(d, p) == {i \in stampset[d] : obj[d][i].sub = p}

Abort == phase' = "abort" /\ UNCHANGED <<obj, links, sets, th>>

(* The path p has the inode of an object already seen, and is a hardlink,  *)
(* or of one not changed, which is kept under this path.                   *)
(* Fault: the stamp is not compared.                                       *)
FoundByInode_Any(d, p) ==
    \E i \in ByInode(d, fs[d][p].ino) :
      LET o == obj[d][i] IN
      IF Present(o)
      THEN IF Single(d, o.ino) THEN Abort
           ELSE links' = [links EXCEPT ![d][p] = o.sub] /\ UNCHANGED <<phase, obj, sets, th>>
      ELSE /\ obj' = [obj EXCEPT ![d][i] = [o EXCEPT !.sub = p, !.flags = @ \cup {"present"}]]
           /\ UNCHANGED <<phase, links, sets, th>>

FoundByInode(d, p) ==
    \E i \in ByInode(d, fs[d][p].ino) :
      LET o == obj[d][i] IN
      /\ Present(o) \/ o.stamp = fs[d][p].stamp
      /\ IF Present(o)
         THEN IF Single(d, o.ino) THEN Abort
              ELSE links' = [links EXCEPT ![d][p] = o.sub] /\ UNCHANGED <<phase, obj, sets, th>>
         ELSE /\ obj' = [obj EXCEPT ![d][i] = [o EXCEPT !.sub = p, !.flags = @ \cup {"present"}]]
              /\ UNCHANGED <<phase, links, sets, th>>

(* The inode was of another file: the old object loses it.                 *)
Reused(d, p) == {i \in ByInode(d, fs[d][p].ino) : ~Present(obj[d][i])}

NewFile(d, p) ==
    [sub |-> p, ino |-> fs[d][p].ino, stamp |-> fs[d][p].stamp, st |-> "CHG", flags |-> {"present"}]

Forget(d, p) == [i \in DOMAIN obj[d] |->
                   IF i \in Reused(d, p) THEN [obj[d][i] EXCEPT !.ino = None] ELSE obj[d][i]]

(* The same file with another inode, like one restored from a backup.      *)
Restored(d, p, i) ==
    /\ obj' = [obj EXCEPT ![d] = With(Forget(d, p), i, [obj[d][i] EXCEPT
                 !.ino = fs[d][p].ino, !.flags = @ \cup {"present"}])]
    /\ inodeset' = [inodeset EXCEPT ![d] = (@ \ Reused(d, p)) \cup {i}]
    /\ UNCHANGED stampset

(* The old version waits to be removed with all the others.                *)
(* Fault: it is removed at once.                                           *)
Outdated_Removed(d, p, i) ==
    /\ obj' = [obj EXCEPT ![d] = [j \in DOMAIN obj[d] \ {i} |-> Forget(d, p)[j]]]
    /\ inodeset' = [inodeset EXCEPT ![d] = @ \ (Reused(d, p) \cup {i})]
    /\ stampset' = [stampset EXCEPT ![d] = @ \ {i}]

Outdated(d, p, i) ==
    /\ obj' = [obj EXCEPT ![d] = With(Forget(d, p), i, [obj[d][i] EXCEPT !.ino = None])]
    /\ inodeset' = [inodeset EXCEPT ![d] = @ \ (Reused(d, p) \cup {i})]
    /\ UNCHANGED stampset

(* Without a match by inode, the path is searched.                         *)
FoundByPath(d, p) ==
    LET st == fs[d][p]
        Search == th' = [th EXCEPT ![d] = [pc |-> "search", new |-> NewFile(d, p),
                           modified |-> ByPath(d, p) # {}, at |-> 1, other |-> None]]
    IN
    /\ \A i \in ByInode(d, st.ino) : i \in Reused(d, p) /\ obj[d][i].stamp # st.stamp
    /\ \/ /\ ByPath(d, p) = {}
          /\ obj' = [obj EXCEPT ![d] = Forget(d, p)]
          /\ inodeset' = [inodeset EXCEPT ![d] = @ \ Reused(d, p)]
          /\ Search /\ UNCHANGED <<phase, links, stampset>>
       \/ \E i \in ByPath(d, p) :
            IF Present(obj[d][i]) \/ Forget(d, p)[i].ino = st.ino THEN Abort
            ELSE /\ UNCHANGED <<phase, links>>
                 /\ IF obj[d][i].stamp = st.stamp
                    THEN Restored(d, p, i) /\ UNCHANGED th
                    ELSE Outdated(d, p, i) /\ Search

(* scan_file on the next path, in any order.                               *)
Visit(d) ==
    /\ phase = "scan" /\ th[d].pc = "walk"
    /\ \E p \in todo[d] :
         /\ todo' = [todo EXCEPT ![d] = @ \ {p}]
         /\ seen' = [seen EXCEPT ![d][p] = fs[d][p]]
         /\ IF fs[d][p] = None THEN UNCHANGED <<phase, obj, links, sets, th>>
            ELSE FoundByInode(d, p) \/ FoundByPath(d, p)
    /\ UNCHANGED <<userVars, persistent, before>>

-----------------------------------------------------------------------------
(* The copy detection, disk by disk: one file of same stamp is searched    *)
(* with the lock, and looked at without.                                   *)
(* Fault: a disk too many.                                                 *)
NextDisk_Past(t) == IF t.at > DiskMax THEN [t EXCEPT !.pc = "insert"]
                    ELSE [t EXCEPT !.pc = "search", !.at = @ + 1]

NextDisk(t) == IF t.at = DiskMax THEN [t EXCEPT !.pc = "insert"]
               ELSE [t EXCEPT !.pc = "search", !.at = @ + 1]

SearchCopy(d) ==
    /\ phase = "scan" /\ th[d].pc = "search"
    /\ LET e == th[d].at
           same == {i \in stampset[e] : obj[e][i].stamp = th[d].new.stamp}
       IN \/ same = {} /\ th' = [th EXCEPT ![d] = NextDisk(@)]
          \/ \E i \in same : th' = [th EXCEPT ![d].pc = "check", ![d].other = <<e, i>>]
    /\ UNCHANGED <<userVars, persistent, phase, obj, links, sets, todo, seen, before>>

(* file_is_full_hashed_and_stable, and file_copy.                          *)
(* Fault: the search stops at the first file not hashed.                   *)
CheckCopy_First(d) ==
    /\ phase = "scan" /\ th[d].pc = "check"
    /\ LET e == th[d].other[1]
           i == th[d].other[2]
       IN /\ i \in DOMAIN obj[e]
          /\ IF obj[e][i].st \in {"BLK", "REP"}
             THEN /\ obj' = [obj EXCEPT ![e][i].flags = @ \cup {"relocated"}]
                  /\ th' = [th EXCEPT ![d].pc = "insert", ![d].new.st = "REP"]
             ELSE th' = [th EXCEPT ![d].pc = "insert"] /\ UNCHANGED obj
    /\ UNCHANGED <<userVars, persistent, phase, links, sets, todo, seen, before>>

CheckCopy(d) ==
    /\ phase = "scan" /\ th[d].pc = "check"
    /\ LET e == th[d].other[1]
           i == th[d].other[2]
       IN /\ i \in DOMAIN obj[e]
          /\ IF obj[e][i].st \in {"BLK", "REP"}
             THEN /\ obj' = [obj EXCEPT ![e][i].flags = @ \cup {"relocated"}]
                  /\ th' = [th EXCEPT ![d].pc = "insert", ![d].new.st = "REP"]
             ELSE th' = [th EXCEPT ![d] = NextDisk(@)] /\ UNCHANGED obj
    /\ UNCHANGED <<userVars, persistent, phase, links, sets, todo, seen, before>>

(* The new file is found from now on by inode, and by path and stamp if it *)
(* does not have an old version there.                                     *)
(* Fault: it is found by path and stamp only.                              *)
Insert_NoInode(d) ==
    /\ phase = "scan" /\ th[d].pc = "insert"
    /\ LET i == <<"new", th[d].new.sub>> IN
         /\ obj' = [obj EXCEPT ![d] = With(@, i, th[d].new)]
         /\ stampset' = [stampset EXCEPT ![d] = IF th[d].modified THEN @ ELSE @ \cup {i}]
         /\ inodeset' = [inodeset EXCEPT ![d] = IF th[d].modified THEN @ ELSE @ \cup {i}]
    /\ th' = [th EXCEPT ![d] = Idle]
    /\ UNCHANGED <<userVars, persistent, phase, links, todo, seen, before>>

Insert(d) ==
    /\ phase = "scan" /\ th[d].pc = "insert"
    /\ LET i == <<"new", th[d].new.sub>> IN
         /\ obj' = [obj EXCEPT ![d] = With(@, i, th[d].new)]
         /\ stampset' = [stampset EXCEPT ![d] = IF th[d].modified THEN @ ELSE @ \cup {i}]
         /\ inodeset' = [inodeset EXCEPT ![d] = @ \cup {i}]
    /\ th' = [th EXCEPT ![d] = Idle]
    /\ UNCHANGED <<userVars, persistent, phase, links, todo, seen, before>>

-----------------------------------------------------------------------------
(* Phases 2 and 3, after all the threads: the objects not present are      *)
(* removed and the new versions inserted.  Then the disks that lost or     *)
(* rewrote all their files stop the command.                               *)
Gone(d) == {i \in DOMAIN obj[d] : ~Present(obj[d][i])}
Old(d) == {i \in DOMAIN obj[d] : i[1] = "old"}
Rewritten(d) == {i \in DOMAIN obj[d] : i[1] = "new" /\ <<"old", i[2]>> \in DOMAIN before[d]
                                       /\ i \notin stampset[d]}

AllLost(d) ==
    /\ Old(d) \subseteq Gone(d)
    /\ \/ \E i \in Gone(d) : "relocated" \notin obj[d][i].flags /\ <<"new", i[2]>> \notin Rewritten(d)
       \/ \E i \in Rewritten(d) : obj[d][i].st = "CHG"

Finish ==
    /\ phase = "scan" /\ \A d \in Disks : todo[d] = {} /\ th[d].pc = "walk"
    /\ phase' = IF \E d \in Disks : AllLost(d) THEN "exit" ELSE "saved"
    /\ obj' = [d \in Disks |-> [i \in DOMAIN obj[d] \ Gone(d) |-> obj[d][i]]]
    /\ inodeset' = [d \in Disks |-> inodeset[d] \ Gone(d)]
    /\ stampset' = [d \in Disks |-> (stampset[d] \ Gone(d)) \cup Rewritten(d)]
    /\ UNCHANGED <<userVars, persistent, links, todo, th, seen, before>>

Next ==
    \/ User \/ Start \/ Finish
    \/ \E d \in Disks : Visit(d) \/ SearchCopy(d) \/ CheckCopy(d) \/ Insert(d)

Spec == Init /\ [][Next]_vars

-----------------------------------------------------------------------------
TypeOK ==
    /\ phase \in {"off", "scan", "saved", "exit", "abort"}
    /\ \A d \in Disks :
         /\ DOMAIN obj[d] \subseteq Ids
         /\ inodeset[d] \cup stampset[d] \subseteq DOMAIN obj[d]
         /\ \A i \in DOMAIN obj[d] :
              obj[d][i] \in [sub : Paths, ino : Inodes \cup {None}, stamp : 1 .. Cardinality(Paths) + MaxOps,
                             st : {"BLK", "CHG", "REP"}, flags : SUBSET {"present", "relocated"}]
         /\ todo[d] \subseteq Paths
         /\ th[d].pc \in {"walk", "search", "check", "insert"} /\ th[d].at \in 0 .. DiskMax

(* The file a thread found in the tree of another disk, and looks at       *)
(* without the lock, is still allocated: its removal waits for all the     *)
(* threads.                                                                *)
SourceAlive ==
    \A d \in Disks : phase = "scan" /\ th[d].pc = "check" =>
        th[d].other[2] \in DOMAIN obj[th[d].other[1]]

(* What the scan leaves agrees with the sets it is searched by: no path    *)
(* twice, no inode twice, every hardlink to a file recorded.  The checks   *)
(* for an internal inconsistency, that abort the command, fail only if the *)
(* user changed the files during the scan.                                 *)
SetsConsistent ==
    /\ phase = "abort" => changed
    /\ phase = "saved" => \A d \in Disks :
        /\ stampset[d] = DOMAIN obj[d]
        /\ inodeset[d] = {i \in DOMAIN obj[d] : obj[d][i].ino # None}
        /\ \A i, j \in DOMAIN obj[d] :
             obj[d][i].sub = obj[d][j].sub \/ (obj[d][i].ino = obj[d][j].ino /\ obj[d][i].ino # None) => i = j
        /\ \A p \in Paths : links[d][p] # None => \E i \in DOMAIN obj[d] : obj[d][i].sub = links[d][p]

(* Every path the scan saw is recorded, as the file that was there or as a *)
(* hardlink to the file of that inode; and nothing else is.  A file moved, *)
(* replaced, or with the inode of another is never taken for it.           *)
SeenIsRecorded ==
    phase = "saved" => \A d \in Disks, p \in Paths :
        LET at == {i \in DOMAIN obj[d] : obj[d][i].sub = p}
            target == {i \in DOMAIN obj[d] : obj[d][i].sub = links[d][p]}
        IN
        IF seen[d][p] = None THEN at = {} /\ links[d][p] = None
        ELSE \/ /\ at # {} /\ links[d][p] = None
                /\ \A i \in at : obj[d][i].stamp = seen[d][p].stamp /\ obj[d][i].ino = seen[d][p].ino
             \/ at = {} /\ target # {} /\ \A i \in target : obj[d][i].ino = seen[d][p].ino

(* A new file gets its hash from a file of same stamp, if those of a disk  *)
(* are hashed, whatever the order of the threads, and also when the same   *)
(* scan removes them.                                                      *)
CopiesFound ==
    phase = "saved" => \A d, e \in Disks : \A i \in DOMAIN obj[d] :
        LET same == {j \in DOMAIN before[e] : before[e][j].stamp = obj[d][i].stamp} IN
        i[1] = "new" /\ same # {} /\ (\A j \in same : before[e][j].st = "BLK")
        => obj[d][i].st = "REP"

=============================================================================
