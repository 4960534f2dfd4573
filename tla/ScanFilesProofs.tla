-------------------------- MODULE ScanFilesProofs --------------------------
(***************************************************************************)
(* Proofs about ScanFiles, for any number of disks, paths, inodes and      *)
(* changes of the user.  The argument: until all the threads are done no   *)
(* object goes away, and none changes stamp or state; an object that is    *)
(* present is the file seen at its path; and the copy of a file is looked  *)
(* for among objects whose copies were looked for in the same way.         *)
(***************************************************************************)
EXTENDS ScanFiles, FiniteSetTheorems, TLAPS

-----------------------------------------------------------------------------
(* The inductive invariant                                                 *)

Times == 1 .. Cardinality(Paths) + MaxOps
File == [ino : Inodes, stamp : Times]
Obj == [sub : Paths, ino : Inodes \cup {None}, stamp : Times, st : {"BLK", "CHG", "REP"},
        flags : SUBSET {"present", "relocated"}]
Thread == [pc : {"walk", "search", "check", "insert"}, new : Obj \cup {None}, modified : BOOLEAN,
           at : 0 .. DiskMax, other : (Disks \X Ids) \cup {None}]

ScanTypes ==
    /\ fs \in [Disks -> [Paths -> File \cup {None}]] /\ seen \in [Disks -> [Paths -> File \cup {None}]]
    /\ ops \in 0 .. MaxOps /\ changed \in BOOLEAN
    /\ phase \in {"off", "scan", "saved", "exit", "abort"}
    /\ links \in [Disks -> [Paths -> Paths \cup {None}]]
    /\ inodeset \in [Disks -> SUBSET Ids] /\ stampset \in [Disks -> SUBSET Ids]
    /\ todo \in [Disks -> SUBSET Paths] /\ th \in [Disks -> Thread]
    /\ DOMAIN obj = Disks
    /\ \A d \in Disks :
         /\ DOMAIN obj[d] \subseteq Ids /\ DOMAIN before[d] \subseteq {"old"} \X Paths
         /\ inodeset[d] \cup stampset[d] \subseteq DOMAIN obj[d]
         /\ \A i \in DOMAIN obj[d] : obj[d][i] \in Obj

(* Before the scan: the objects of the content file.                       *)
StartInv == phase = "off" =>
    /\ ~changed
    /\ \A d \in Disks :
         /\ DOMAIN obj[d] = DOMAIN before[d] /\ th[d].pc = "walk"
         /\ \A p \in Paths : links[d][p] = None
         /\ \A i \in DOMAIN obj[d] :
              /\ obj[d][i].sub = i[2] /\ obj[d][i].flags = {} /\ obj[d][i].ino # None
              /\ obj[d][i].stamp = before[d][i].stamp /\ obj[d][i].st = before[d][i].st
         /\ \A i, j \in DOMAIN obj[d] : obj[d][i].ino = obj[d][j].ino => i = j

(* The objects of a disk in the scan: the old ones, all still there, and   *)
(* the new ones; those not present have not been renamed.                  *)
ObjectsOk(d) ==
    /\ DOMAIN before[d] \subseteq stampset[d]
    /\ \A i \in DOMAIN obj[d] :
         /\ i[1] = "old" <=> i \in DOMAIN before[d]
         /\ i \in DOMAIN before[d] =>
              obj[d][i].stamp = before[d][i].stamp /\ obj[d][i].st = before[d][i].st
         /\ i[1] = "new" => Present(obj[d][i])
         /\ i[1] = "new" \/ ~Present(obj[d][i]) => obj[d][i].sub = i[2]
         /\ i \notin stampset[d] => <<"old", i[2]>> \in DOMAIN before[d]
    /\ inodeset[d] = {i \in DOMAIN obj[d] : obj[d][i].ino # None}
    /\ \A i, j \in DOMAIN obj[d] : obj[d][i].ino = obj[d][j].ino /\ obj[d][i].ino # None => i = j

(* An object present is the file seen at its path.                         *)
IsFile(o, f) == f # None /\ o.ino = f.ino /\ o.stamp = f.stamp

PresentOk(d) ==
    /\ \A i \in DOMAIN obj[d] : Present(obj[d][i]) =>
         obj[d][i].sub \notin todo[d] /\ IsFile(obj[d][i], seen[d][obj[d][i].sub])
    /\ \A i, j \in DOMAIN obj[d] :
         Present(obj[d][i]) /\ Present(obj[d][j]) /\ obj[d][i].sub = obj[d][j].sub => i = j

NoneAt(d, p) == \A i \in DOMAIN obj[d] : Present(obj[d][i]) => obj[d][i].sub # p

(* The file that a thread is about to insert.                              *)
PendingOk(d) == th[d].pc # "walk" =>
    LET new == th[d].new IN
    /\ new \in Obj /\ Present(new)
    /\ new.sub \notin todo[d] /\ IsFile(new, seen[d][new.sub]) /\ links[d][new.sub] = None
    /\ <<"new", new.sub>> \notin DOMAIN obj[d] /\ NoneAt(d, new.sub)
    /\ \A i \in DOMAIN obj[d] : obj[d][i].ino # new.ino
    /\ th[d].modified => <<"old", new.sub>> \in DOMAIN before[d]

(* Every path seen is an object, a hardlink to one, or about to be one.    *)
LinksOk(d) == \A p \in Paths :
    /\ links[d][p] # None =>
         /\ p \notin todo[d] /\ seen[d][p] # None /\ NoneAt(d, p)
         /\ \E i \in DOMAIN obj[d] : /\ Present(obj[d][i]) /\ obj[d][i].sub = links[d][p]
                                     /\ obj[d][i].ino = seen[d][p].ino
    /\ p \notin todo[d] /\ seen[d][p] # None =>
         \/ links[d][p] # None \/ ~NoneAt(d, p)
         \/ th[d].pc # "walk" /\ th[d].new.sub = p

(* Disk e has files of this stamp, and they are all hashed.                *)
HashedOn(e, stamp) ==
    LET same == {j \in DOMAIN before[e] : before[e][j].stamp = stamp}
    IN same # {} /\ \A j \in same : before[e][j].st = "BLK"

CopyOf(o) == o.st = "REP" \/ \A e \in Disks : ~HashedOn(e, o.stamp)

CopiesOk(d) == \A i \in DOMAIN obj[d] : i[1] = "new" => CopyOf(obj[d][i])

(* The disks before th[d].at have no copy to take; the object looked at is *)
(* on disk th[d].at.                                                       *)
SearchOk(d) ==
    /\ th[d].pc \in {"search", "check"} =>
         th[d].at \in Disks /\ \A e \in Disks : e < th[d].at => ~HashedOn(e, th[d].new.stamp)
    /\ th[d].pc = "check" =>
         /\ th[d].other \in Disks \X Ids /\ th[d].other[1] = th[d].at
         /\ th[d].other[2] \in DOMAIN obj[th[d].at]
         /\ obj[th[d].at][th[d].other[2]].stamp = th[d].new.stamp
    /\ th[d].pc = "insert" => CopyOf(th[d].new)

SeenNow(d) == ~changed => \A p \in Paths \ todo[d] : seen[d][p] = fs[d][p]

DiskOk(d) == ObjectsOk(d) /\ PresentOk(d) /\ PendingOk(d) /\ LinksOk(d)

FInv ==
    /\ ScanTypes /\ StartInv
    /\ phase = "scan" => \A d \in Disks : DiskOk(d) /\ CopiesOk(d) /\ SearchOk(d) /\ SeenNow(d)
    /\ SetsConsistent /\ SeenIsRecorded /\ CopiesFound

-----------------------------------------------------------------------------
(* The constants.                                                          *)

LEMMA PathsCount == Cardinality(Paths) \in Nat
BY ScanAssumption, FS_CardinalityType

LEMMA NoneApart == None \notin Inodes /\ None \notin Paths
BY ScanAssumption

(* Two paths of a disk with one inode are not a single one.                *)
LEMMA NotSingle ==
    ASSUME NEW d \in Disks, NEW p \in Paths, NEW q \in Paths, p # q,
           fs[d][p] # None, fs[d][q] # None, fs[d][p].ino = fs[d][q].ino
    PROVE  ~Single(d, fs[d][p].ino)
<1> DEFINE S == {r \in Paths : fs[d][r] # None /\ fs[d][r].ino = fs[d][p].ino}
<1>1. IsFiniteSet(S)
  BY ScanAssumption, FS_Subset
<1>2. p \in S /\ q \in S
  OBVIOUS
<1>3. ASSUME Cardinality(S) = 1 PROVE FALSE
  <2>1. \E x : S = {x}
    BY <1>1, <1>3, FS_Singleton
  <2> QED BY <2>1, <1>2
<1> QED BY <1>3 DEF Single

-----------------------------------------------------------------------------
(* The initial states satisfy the invariant.                               *)

LEMMA InitFInv == ASSUME Init PROVE FInv
<1>0. PICK files \in [Disks -> SUBSET Paths \ {{}}], first \in {"BLK", "CHG"},
          num \in Distinct(Inodes), past \in Distinct(Inodes), time \in Distinct(1 .. Cardinality(Paths)) :
      /\ persistent \in BOOLEAN /\ (persistent => past = num)
      /\ fs = [d \in Disks |-> [p \in Paths |->
                 IF p \in files[d] THEN [ino |-> num[p], stamp |-> time[p]] ELSE None]]
      /\ obj = [d \in Disks |-> [i \in {"old"} \X files[d] |->
                 [sub |-> i[2], stamp |-> time[i[2]], flags |-> {}, ino |-> past[i[2]],
                  st |-> IF d = 1 THEN first ELSE "BLK"]]]
      /\ before = obj
      /\ ops = 0 /\ phase = "off" /\ changed = FALSE
      /\ links = [d \in Disks |-> [p \in Paths |-> None]]
      /\ inodeset = [d \in Disks |-> {}] /\ stampset = inodeset /\ todo = inodeset
      /\ th = [d \in Disks |-> Idle]
      /\ seen = [d \in Disks |-> [p \in Paths |-> None]]
  BY Zenon DEF Init
<1> USE <1>0
<1> USE PathsCount, NoneApart
<1>1. /\ num \in [Paths -> Inodes] /\ past \in [Paths -> Inodes]
      /\ time \in [Paths -> 1 .. Cardinality(Paths)]
      /\ \A p, q \in Paths : past[p] = past[q] => p = q
  BY DEF Distinct
<1>2. 1 .. Cardinality(Paths) \subseteq Times /\ MaxOps \in Nat
  BY ScanAssumption DEF Times
<1>3. ASSUME NEW d \in Disks, NEW i \in DOMAIN obj[d]
      PROVE  /\ i \in {"old"} \X Paths /\ i[2] \in files[d] /\ i = <<"old", i[2]>>
             /\ obj[d][i] = [sub |-> i[2], stamp |-> time[i[2]], flags |-> {}, ino |-> past[i[2]],
                             st |-> IF d = 1 THEN first ELSE "BLK"]
  <2>1. DOMAIN obj[d] = {"old"} \X files[d] /\ files[d] \subseteq Paths
    OBVIOUS
  <2> QED BY <2>1
<1>4. ScanTypes
  <2>1. fs \in [Disks -> [Paths -> File \cup {None}]]
    <3> SUFFICES ASSUME NEW d \in Disks, NEW p \in Paths, p \in files[d]
                 PROVE  [ino |-> num[p], stamp |-> time[p]] \in File
      OBVIOUS
    <3> QED BY <1>1, <1>2 DEF File
  <2>2. ASSUME NEW d \in Disks, NEW i \in DOMAIN obj[d] PROVE obj[d][i] \in Obj /\ i \in Ids
    <3>1. i[2] \in Paths /\ time[i[2]] \in Times /\ past[i[2]] \in Inodes /\ i \in Ids
      BY <1>1, <1>2, <1>3 DEF Ids
    <3>2. obj[d][i] \in Obj
      BY <3>1, <1>3 DEF Obj
    <3> QED BY <3>1, <3>2
  <2>3. Idle \in Thread
    BY ScanAssumption DEF Idle, Thread
  <2>4. ASSUME NEW d \in Disks
        PROVE  DOMAIN before[d] \subseteq {"old"} \X Paths /\ DOMAIN obj[d] \subseteq Ids
               /\ inodeset[d] \cup stampset[d] \subseteq DOMAIN obj[d]
    BY <1>3, <2>2
  <2>5. seen \in [Disks -> [Paths -> File \cup {None}]] /\ links \in [Disks -> [Paths -> Paths \cup {None}]]
    OBVIOUS
  <2>6. inodeset \in [Disks -> SUBSET Ids] /\ stampset \in [Disks -> SUBSET Ids]
        /\ todo \in [Disks -> SUBSET Paths]
    OBVIOUS
  <2>7. th \in [Disks -> Thread] /\ DOMAIN obj = Disks
    BY <2>3
  <2>8. ops \in 0 .. MaxOps /\ changed \in BOOLEAN /\ phase \in {"off", "scan", "saved", "exit", "abort"}
    <3>1. ops \in 0 .. MaxOps
      BY <1>2
    <3>2. changed \in BOOLEAN /\ phase \in {"off", "scan", "saved", "exit", "abort"}
      BY Zenon
    <3> QED BY <3>1, <3>2, Zenon
  <2> QED BY <2>1, <2>2, <2>4, <2>5, <2>6, <2>7, <2>8 DEF ScanTypes
<1>5. StartInv
  <2>1. ASSUME NEW d \in Disks PROVE th[d].pc = "walk" /\ \A p \in Paths : links[d][p] = None
    BY DEF Idle
  <2>2. ASSUME NEW d \in Disks, NEW i \in DOMAIN obj[d]
        PROVE  obj[d][i].sub = i[2] /\ obj[d][i].flags = {} /\ obj[d][i].ino # None
    BY <1>1, <1>3
  <2>3. ASSUME NEW d \in Disks, NEW i \in DOMAIN obj[d], NEW j \in DOMAIN obj[d],
               obj[d][i].ino = obj[d][j].ino
        PROVE  i = j
    <3>1. past[i[2]] = past[j[2]] /\ i[2] \in Paths /\ j[2] \in Paths
      BY <2>3, <1>3
    <3>2. i[2] = j[2]
      BY <3>1, <1>1
    <3>3. i = <<"old", i[2]>> /\ j = <<"old", j[2]>>
      BY <1>3
    <3> QED BY <3>2, <3>3
  <2> QED BY <2>1, <2>2, <2>3 DEF StartInv
<1>6. SetsConsistent /\ SeenIsRecorded /\ CopiesFound /\ phase # "scan"
  BY DEF SetsConsistent, SeenIsRecorded, CopiesFound
<1> QED BY <1>4, <1>5, <1>6, Zenon DEF FInv

-----------------------------------------------------------------------------
(* The steps of the user.                                                  *)

(* What he leaves on a disk are files.                                     *)
LEMMA UserTypes ==
    ASSUME ScanTypes, User
    PROVE  \E d \in Disks : \E files \in [Paths -> File \cup {None}] : UserStep(d, files)
<1> USE PathsCount, ScanAssumption
<1>1. PICK d \in Disks, p \in Paths :
        Create(d, p) \/ Rewrite(d, p) \/ Delete(d, p) \/ \E q \in Paths : Rename(d, p, q) \/ Link(d, p, q)
  BY DEF User
<1>2. fs[d] \in [Paths -> File \cup {None}] /\ \A q \in Paths : fs[d][q] # None => fs[d][q] \in File
  BY DEF ScanTypes
<1>3. ops < MaxOps => NewStamp \in Times
  BY DEF NewStamp, Times, ScanTypes
<1>4. CASE Create(d, p)
  <2>1. PICK i \in Inodes \ InUse(d), s \in {NewStamp} \cup Stamps :
               UserStep(d, [fs[d] EXCEPT ![p] = [ino |-> i, stamp |-> s]])
    BY <1>4 DEF Create
  <2>2. s \in Times
    <3>1. CASE s = NewStamp
      BY <3>1, <2>1, <1>3 DEF UserStep
    <3>2. ASSUME NEW x \in Disks \X Paths, fs[x[1]][x[2]] # None, s = fs[x[1]][x[2]].stamp PROVE s \in Times
      <4>1. x[1] \in Disks /\ x[2] \in Paths
        OBVIOUS
      <4>2. fs[x[1]][x[2]] \in File
        BY <4>1, <3>2 DEF ScanTypes
      <4> QED BY <4>2, <3>2 DEF File
    <3> QED BY <3>1, <3>2, <2>1 DEF Stamps
  <2>3. [ino |-> i, stamp |-> s] \in File
    BY <2>2 DEF File
  <2>4. [fs[d] EXCEPT ![p] = [ino |-> i, stamp |-> s]] \in [Paths -> File \cup {None}]
    BY <2>3, <1>2
  <2> QED BY <2>1, <2>4
<1>5. CASE Rewrite(d, p)
  <2> DEFINE F == [q \in Paths |-> IF fs[d][q] # None /\ fs[d][q].ino = fs[d][p].ino
                                   THEN [fs[d][q] EXCEPT !.stamp = NewStamp] ELSE fs[d][q]]
  <2>1. UserStep(d, F)
    BY <1>5 DEF Rewrite
  <2>2. ASSUME NEW q \in Paths, fs[d][q] # None PROVE [fs[d][q] EXCEPT !.stamp = NewStamp] \in File
    <3>1. NewStamp \in Times
      BY <2>1, <1>3 DEF UserStep
    <3>2. fs[d][q] \in File
      BY <2>2, <1>2
    <3> HIDE DEF NewStamp
    <3> QED BY <3>1, <3>2 DEF File
  <2>3. F \in [Paths -> File \cup {None}]
    BY <2>2, <1>2
  <2> HIDE DEF F
  <2> QED BY <2>1, <2>3
<1>6. CASE Delete(d, p)
  <2>1. [fs[d] EXCEPT ![p] = None] \in [Paths -> File \cup {None}]
    BY <1>2
  <2> QED BY <2>1, <1>6 DEF Delete
<1>7. ASSUME NEW q \in Paths, Rename(d, p, q)
      PROVE  \E files \in [Paths -> File \cup {None}] : UserStep(d, files)
  <2>1. [fs[d] EXCEPT ![q] = fs[d][p], ![p] = None] \in [Paths -> File \cup {None}]
    BY <1>2
  <2> QED BY <2>1, <1>7 DEF Rename
<1>8. ASSUME NEW q \in Paths, Link(d, p, q)
      PROVE  \E files \in [Paths -> File \cup {None}] : UserStep(d, files)
  <2>1. [fs[d] EXCEPT ![q] = fs[d][p]] \in [Paths -> File \cup {None}]
    BY <1>2
  <2> QED BY <2>1, <1>8 DEF Link
<1> QED BY <1>1, <1>4, <1>5, <1>6, <1>7, <1>8

LEMMA UserKeeps == ASSUME FInv, User PROVE FInv'
<1>1. ScanTypes /\ StartInv /\ (phase = "scan" => \A d \in Disks : DiskOk(d) /\ CopiesOk(d) /\ SearchOk(d))
  BY DEF FInv
<1>2. PICK e \in Disks, files \in [Paths -> File \cup {None}] : UserStep(e, files)
  BY <1>1, UserTypes
<1>3. UNCHANGED <<persistent, phase, obj, links, sets, todo, th, seen, before>>
      /\ phase \in {"off", "scan"} /\ changed' = (phase = "scan") /\ ops < MaxOps /\ ops' = ops + 1
      /\ fs' = [fs EXCEPT ![e] = files]
  BY <1>2 DEF UserStep
<1>4. ScanTypes'
  <2>1. fs' \in [Disks -> [Paths -> File \cup {None}]]
    BY <1>1, <1>3 DEF ScanTypes
  <2>2. ops' \in 0 .. MaxOps
    BY <1>1, <1>3, ScanAssumption DEF ScanTypes
  <2>3. changed' \in BOOLEAN
    BY <1>3, Zenon
  <2> QED BY <1>1, <1>3, <2>1, <2>2, <2>3, ZenonT(60) DEF ScanTypes, sets
<1>5. StartInv'
  BY <1>1, <1>3, ZenonT(60) DEF StartInv, sets
<1>6. ASSUME phase = "scan", NEW d \in Disks
      PROVE  DiskOk(d)' /\ CopiesOk(d)' /\ SearchOk(d)' /\ SeenNow(d)'
  <2>1. DiskOk(d)'
    BY <1>1, <1>3, <1>6 DEF DiskOk, ObjectsOk, PresentOk, PendingOk, LinksOk, NoneAt, sets
  <2>2. CopiesOk(d)'
    BY <1>1, <1>3, <1>6 DEF CopiesOk, CopyOf, HashedOn, sets
  <2>3. SearchOk(d)'
    BY <1>1, <1>3, <1>6 DEF SearchOk, CopyOf, HashedOn, sets
  <2>4. changed'
    BY <1>3, <1>6
  <2> QED BY <2>1, <2>2, <2>3, <2>4 DEF SeenNow
<1>7. SetsConsistent' /\ SeenIsRecorded' /\ CopiesFound'
  BY <1>3 DEF SetsConsistent, SeenIsRecorded, CopiesFound
<1> QED BY <1>3, <1>4, <1>5, <1>6, <1>7 DEF FInv

-----------------------------------------------------------------------------
(* The threads start.                                                      *)

LEMMA StartKeeps == ASSUME FInv, Start PROVE FInv'
<1> USE NoneApart
<1>1. ScanTypes /\ StartInv /\ phase = "off"
  BY DEF FInv, Start
<1>2. ASSUME NEW d \in Disks
      PROVE  /\ ~changed /\ DOMAIN obj[d] = DOMAIN before[d] /\ th[d].pc = "walk"
             /\ \A p \in Paths : links[d][p] = None
             /\ \A i \in DOMAIN obj[d] :
                  /\ obj[d][i].sub = i[2] /\ obj[d][i].flags = {} /\ obj[d][i].ino # None
                  /\ obj[d][i].stamp = before[d][i].stamp /\ obj[d][i].st = before[d][i].st
             /\ \A i, j \in DOMAIN obj[d] : obj[d][i].ino = obj[d][j].ino => i = j
             /\ DOMAIN before[d] \subseteq {"old"} \X Paths
             /\ \A i \in DOMAIN obj[d] : obj[d][i] \in Obj
  BY <1>1 DEF StartInv, ScanTypes
<1>3. /\ phase' = "scan" /\ UNCHANGED <<userVars, persistent, links, th, seen, before>>
      /\ obj' = [d \in Disks |-> [i \in DOMAIN obj[d] |->
                   IF persistent THEN obj[d][i] ELSE [obj[d][i] EXCEPT !.ino = None]]]
      /\ inodeset' = [d \in Disks |-> IF persistent THEN DOMAIN obj[d] ELSE {}]
      /\ stampset' = [d \in Disks |-> DOMAIN obj[d]]
      /\ todo' = [d \in Disks |-> Paths]
  BY DEF Start
<1>4. ASSUME NEW d \in Disks
      PROVE  /\ DOMAIN obj'[d] = DOMAIN obj[d] /\ stampset'[d] = DOMAIN obj[d] /\ todo'[d] = Paths
             /\ \A i \in DOMAIN obj[d] :
                  /\ obj'[d][i] \in Obj /\ obj'[d][i].sub = i[2] /\ obj'[d][i].flags = {}
                  /\ obj'[d][i].stamp = obj[d][i].stamp /\ obj'[d][i].st = obj[d][i].st
                  /\ obj'[d][i].ino # None => obj'[d][i].ino = obj[d][i].ino
             /\ inodeset'[d] = {i \in DOMAIN obj[d] : obj'[d][i].ino # None}
  <2>1. DOMAIN obj'[d] = DOMAIN obj[d] /\ stampset'[d] = DOMAIN obj[d] /\ todo'[d] = Paths
    BY <1>3
  <2>2. ASSUME NEW i \in DOMAIN obj[d]
        PROVE  obj'[d][i] = IF persistent THEN obj[d][i] ELSE [obj[d][i] EXCEPT !.ino = None]
    BY <1>3
  <2>3. ASSUME NEW i \in DOMAIN obj[d]
        PROVE  /\ obj'[d][i] \in Obj /\ obj'[d][i].sub = i[2] /\ obj'[d][i].flags = {}
               /\ obj'[d][i].stamp = obj[d][i].stamp /\ obj'[d][i].st = obj[d][i].st
               /\ obj'[d][i].ino # None => obj'[d][i].ino = obj[d][i].ino
               /\ obj'[d][i].ino # None <=> persistent
    <3>1. obj[d][i] \in Obj /\ obj[d][i].sub = i[2] /\ obj[d][i].flags = {} /\ obj[d][i].ino # None
      BY <1>2
    <3> QED BY <2>2, <3>1, ZenonT(60) DEF Obj
  <2>4. inodeset'[d] = IF persistent THEN DOMAIN obj[d] ELSE {}
    BY <1>3
  <2>5. inodeset'[d] = {i \in DOMAIN obj[d] : obj'[d][i].ino # None}
    BY <2>3, <2>4
  <2> QED BY <2>1, <2>3, <2>5
<1>5. ScanTypes'
  <2>1. DOMAIN obj' = Disks
    BY <1>3
  <2>2. \A d \in Disks : DOMAIN obj[d] \subseteq Ids
    BY <1>1 DEF ScanTypes
  <2>3. inodeset' \in [Disks -> SUBSET Ids] /\ stampset' \in [Disks -> SUBSET Ids] /\ todo' \in [Disks -> SUBSET Paths]
    BY <1>3, <2>2
  <2>4. ASSUME NEW d \in Disks
        PROVE  /\ DOMAIN obj'[d] \subseteq Ids /\ inodeset'[d] \cup stampset'[d] \subseteq DOMAIN obj'[d]
               /\ \A i \in DOMAIN obj'[d] : obj'[d][i] \in Obj
    BY <1>4, <2>2
  <2> QED BY <1>1, <1>3, <2>1, <2>3, <2>4, Zenon DEF ScanTypes, userVars
<1>6. ASSUME NEW d \in Disks PROVE DiskOk(d)' /\ CopiesOk(d)' /\ SearchOk(d)' /\ SeenNow(d)'
  <2>1. \A i \in DOMAIN obj[d] : i[1] = "old"
    BY <1>2
  <2>2. \A i \in DOMAIN obj'[d] : ~Present(obj'[d][i])
    BY <1>4 DEF Present
  <2>3. ObjectsOk(d)'
    <3>1. DOMAIN before'[d] \subseteq stampset'[d] /\ before' = before
      BY <1>2, <1>3, <1>4
    <3>2. ASSUME NEW i \in DOMAIN obj'[d]
          PROVE  /\ i[1] = "old" /\ i \in DOMAIN before[d] /\ i \in stampset'[d] /\ obj'[d][i].sub = i[2]
                 /\ obj'[d][i].stamp = before[d][i].stamp /\ obj'[d][i].st = before[d][i].st
      BY <1>2, <1>4, <2>1
    <3>3. \A i, j \in DOMAIN obj'[d] : obj'[d][i].ino = obj'[d][j].ino /\ obj'[d][i].ino # None => i = j
      BY <1>2, <1>4
    <3>4. inodeset'[d] = {i \in DOMAIN obj'[d] : obj'[d][i].ino # None}
      BY <1>4
    <3> QED BY <2>2, <3>1, <3>2, <3>3, <3>4 DEF ObjectsOk
  <2>4. PresentOk(d)'
    BY <2>2 DEF PresentOk
  <2>5. PendingOk(d)' /\ SearchOk(d)'
    BY <1>2, <1>3 DEF PendingOk, SearchOk
  <2>6. LinksOk(d)'
    BY <1>2, <1>3, <1>4 DEF LinksOk
  <2>7. CopiesOk(d)'
    BY <2>1, <1>4 DEF CopiesOk
  <2>8. SeenNow(d)'
    BY <1>4 DEF SeenNow
  <2> QED BY <2>3, <2>4, <2>5, <2>6, <2>7, <2>8 DEF DiskOk
<1>7. StartInv' /\ SetsConsistent' /\ SeenIsRecorded' /\ CopiesFound'
  BY <1>3 DEF StartInv, SetsConsistent, SeenIsRecorded, CopiesFound
<1> QED BY <1>3, <1>5, <1>6, <1>7 DEF FInv

-----------------------------------------------------------------------------
(* What a step of the threads may do to a disk that it does not work on.   *)

(* The objects may only get flags that do not matter here.                 *)
SameObjects(d) ==
    /\ DOMAIN obj'[d] = DOMAIN obj[d]
    /\ \A i \in DOMAIN obj[d] :
         /\ obj'[d][i].sub = obj[d][i].sub /\ obj'[d][i].ino = obj[d][i].ino
         /\ obj'[d][i].stamp = obj[d][i].stamp /\ obj'[d][i].st = obj[d][i].st
         /\ Present(obj'[d][i]) <=> Present(obj[d][i])

SamePlace(d) ==
    /\ inodeset'[d] = inodeset[d] /\ stampset'[d] = stampset[d] /\ todo'[d] = todo[d]
    /\ seen'[d] = seen[d] /\ links'[d] = links[d]

(* The file to be inserted may only change state.                          *)
SamePending(d) ==
    /\ th'[d].pc # "walk" <=> th[d].pc # "walk"
    /\ th[d].pc # "walk" =>
         /\ th'[d].new \in Obj /\ th'[d].modified = th[d].modified
         /\ th'[d].new.sub = th[d].new.sub /\ th'[d].new.ino = th[d].new.ino
         /\ th'[d].new.stamp = th[d].new.stamp /\ th'[d].new.flags = th[d].new.flags

LEMMA DiskFrame ==
    ASSUME NEW d \in Disks, DiskOk(d), SameObjects(d), SamePlace(d), SamePending(d), before' = before
    PROVE  DiskOk(d)'
<1>1. ObjectsOk(d)'
  BY DEF DiskOk, ObjectsOk, SameObjects, SamePlace
<1>2. PresentOk(d)'
  BY DEF DiskOk, PresentOk, SameObjects, SamePlace, IsFile
<1>3. \A p \in Paths : NoneAt(d, p)' <=> NoneAt(d, p)
  BY DEF NoneAt, SameObjects
<1>4. PendingOk(d)'
  <2> SUFFICES ASSUME th'[d].pc # "walk" PROVE PendingOk(d)'
    BY DEF PendingOk
  <2>1. th[d].pc # "walk" /\ th'[d].new \in Obj /\ th'[d].new.sub \in Paths
    BY DEF SamePending, Obj
  <2> QED BY <1>3, <2>1 DEF DiskOk, PendingOk, SamePending, SamePlace, SameObjects, IsFile, Present
<1>5. LinksOk(d)'
  <2>1. ASSUME NEW p \in Paths, links'[d][p] # None
        PROVE  /\ p \notin todo'[d] /\ seen'[d][p] # None /\ NoneAt(d, p)'
               /\ \E i \in DOMAIN obj'[d] : /\ Present(obj'[d][i]) /\ obj'[d][i].sub = links'[d][p]
                                            /\ obj'[d][i].ino = seen'[d][p].ino
    BY <1>3, <2>1 DEF DiskOk, LinksOk, SameObjects, SamePlace
  <2>2. ASSUME NEW p \in Paths, p \notin todo'[d], seen'[d][p] # None
        PROVE  links'[d][p] # None \/ ~NoneAt(d, p)' \/ (th'[d].pc # "walk" /\ th'[d].new.sub = p)
    BY <1>3, <2>2 DEF DiskOk, LinksOk, SamePlace, SamePending
  <2> QED BY <2>1, <2>2 DEF LinksOk
<1> QED BY <1>1, <1>2, <1>4, <1>5 DEF DiskOk

(* No object goes away, and none changes stamp or state.                   *)
Grows == \A d \in Disks : \A i \in DOMAIN obj[d] :
    i \in DOMAIN obj'[d] /\ obj'[d][i].stamp = obj[d][i].stamp /\ obj'[d][i].st = obj[d][i].st

LEMMA SearchFrame ==
    ASSUME NEW d \in Disks, SearchOk(d), Grows, before' = before, th'[d] = th[d]
    PROVE  SearchOk(d)'
<1>1. \A e, s : HashedOn(e, s)' <=> HashedOn(e, s)
  BY DEF HashedOn
<1>2. \A o : CopyOf(o)' <=> CopyOf(o)
  BY <1>1 DEF CopyOf
<1> QED BY <1>1, <1>2 DEF SearchOk, Grows, CopyOf, HashedOn

LEMMA CopiesFrame ==
    ASSUME NEW d \in Disks, CopiesOk(d), Grows, before' = before, DOMAIN obj'[d] = DOMAIN obj[d]
    PROVE  CopiesOk(d)'
BY DEF CopiesOk, Grows, CopyOf, HashedOn

(* A step of the threads, put together.                                    *)
Scanning == ScanTypes /\ \A d \in Disks : DiskOk(d) /\ CopiesOk(d) /\ SearchOk(d) /\ SeenNow(d)

LEMMA OtherDisk ==
    ASSUME Scanning, NEW e \in Disks, Grows, before' = before, fs' = fs, changed' = changed,
           obj'[e] = obj[e], SamePlace(e), th'[e] = th[e]
    PROVE  DiskOk(e)' /\ CopiesOk(e)' /\ SearchOk(e)' /\ SeenNow(e)'
<1>1. DiskOk(e) /\ CopiesOk(e) /\ SearchOk(e) /\ SeenNow(e)
  BY DEF Scanning
<1>2. SameObjects(e) /\ SamePending(e)
  BY <1>1 DEF SameObjects, SamePending, DiskOk, PendingOk
<1>3. SeenNow(e)'
  BY <1>1 DEF SeenNow, SamePlace
<1> QED BY <1>1, <1>2, <1>3, DiskFrame, CopiesFrame, SearchFrame

LEMMA StepKeeps == ASSUME phase' = "scan", Scanning' PROVE FInv'
<1>1. SetsConsistent' /\ SeenIsRecorded' /\ CopiesFound' /\ StartInv'
  BY DEF SetsConsistent, SeenIsRecorded, CopiesFound, StartInv
<1> QED BY <1>1, Zenon DEF Scanning, FInv

-----------------------------------------------------------------------------
(* The search of a copy.                                                   *)

LEMMA NextDiskType ==
    ASSUME NEW t \in Thread, t.at \in Disks
    PROVE  NextDisk(t) \in Thread /\ NextDisk(t).pc # "walk" /\ NextDisk(t).new = t.new
           /\ NextDisk(t).modified = t.modified
<1>1. CASE t.at = DiskMax
  BY <1>1 DEF NextDisk, Thread
<1>2. CASE t.at # DiskMax
  <2>1. t.at + 1 \in 0 .. DiskMax
    BY <1>2, ScanAssumption DEF Disks
  <2> QED BY <1>2, <2>1 DEF NextDisk, Thread
<1> QED BY <1>1, <1>2

LEMMA NextDiskOk ==
    ASSUME ScanTypes, NEW d \in Disks, th[d].at \in Disks,
           \A e \in Disks : e <= th[d].at => ~HashedOn(e, th[d].new.stamp),
           th'[d] = NextDisk(th[d]), before' = before
    PROVE  SearchOk(d)'
<1>1. th[d] \in Thread
  BY DEF ScanTypes
<1>2. th'[d].new = th[d].new
  BY <1>1 DEF NextDisk, Thread
<1>3. \A e \in Disks : HashedOn(e, th[d].new.stamp)' <=> HashedOn(e, th[d].new.stamp)
  BY <1>2 DEF HashedOn
<1>4. CASE th[d].at = DiskMax
  <2>1. th'[d].pc = "insert"
    BY <1>1, <1>4 DEF NextDisk, Thread
  <2>2. \A e \in Disks : ~HashedOn(e, th[d].new.stamp)'
    BY <1>3, <1>4, ScanAssumption DEF Disks
  <2>3. CopyOf(th[d].new)'
    BY <1>2, <2>2 DEF CopyOf
  <2> QED BY <2>1, <2>3 DEF SearchOk
<1>5. CASE th[d].at # DiskMax
  <2>1. th'[d].pc = "search" /\ th'[d].at = th[d].at + 1
    BY <1>1, <1>5 DEF NextDisk, Thread
  <2>2. th'[d].at \in Disks /\ \A e \in Disks : e < th'[d].at => e <= th[d].at
    BY <2>1, <1>5, ScanAssumption DEF Disks
  <2>3. \A e \in Disks : (e < th[d].at => ~HashedOn(e, th[d].new.stamp))'
    BY <1>3, <2>2
  <2> QED BY <2>1, <2>2, <2>3 DEF SearchOk
<1> QED BY <1>4, <1>5

(* A disk with hashed files of a stamp has one found by stamp.             *)
LEMMA HashedIsFound ==
    ASSUME ScanTypes, NEW e \in Disks, DiskOk(e), NEW s, HashedOn(e, s)
    PROVE  \E i \in stampset[e] : obj[e][i].stamp = s
<1>1. PICK j \in DOMAIN before[e] : before[e][j].stamp = s
  BY DEF HashedOn
<1>2. j \in stampset[e] /\ j \in DOMAIN obj[e]
  BY <1>1 DEF DiskOk, ObjectsOk, ScanTypes
<1> QED BY <1>1, <1>2 DEF DiskOk, ObjectsOk

(* A file of a disk whose copies are all hashed gives its hash.            *)
LEMMA HashedIsTaken ==
    ASSUME ScanTypes, NEW e \in Disks, DiskOk(e), CopiesOk(e), NEW i \in DOMAIN obj[e], HashedOn(e, obj[e][i].stamp)
    PROVE  obj[e][i].st \in {"BLK", "REP"}
<1>1. CASE i \in DOMAIN before[e]
  <2>1. obj[e][i].stamp = before[e][i].stamp /\ obj[e][i].st = before[e][i].st
    BY <1>1 DEF DiskOk, ObjectsOk
  <2> QED BY <1>1, <2>1 DEF HashedOn
<1>2. ASSUME i[1] = "new" PROVE obj[e][i].st = "REP"
  BY <1>2 DEF CopiesOk, CopyOf
<1>3. i \in DOMAIN before[e] \/ i[1] # "old"
  BY DEF DiskOk, ObjectsOk
<1>4. i[1] = "old" \/ i[1] = "new"
  BY DEF ScanTypes, Ids
<1> QED BY <1>1, <1>2, <1>3, <1>4

LEMMA SearchCopyKeeps ==
    ASSUME Scanning, NEW d \in Disks, SearchCopy(d)
    PROVE  Scanning' /\ phase' = "scan"
<1>1. phase = "scan" /\ th[d].pc = "search" /\ before' = before /\ phase' = phase /\ obj' = obj
      /\ UNCHANGED <<fs, ops, changed, persistent, links, inodeset, stampset, todo, seen>>
  BY DEF SearchCopy, userVars, sets
<1> DEFINE Found(t) ==
        /\ th' = [th EXCEPT ![d] = t]
        /\ t.new = th[d].new /\ t.modified = th[d].modified /\ t.pc # "walk"
        /\ \/ /\ t.pc = "check" /\ t.at = th[d].at
              /\ \E i \in stampset[t.at] : t.other = <<t.at, i>> /\ obj[t.at][i].stamp = t.new.stamp
           \/ t = NextDisk(th[d]) /\ \A i \in stampset[th[d].at] : obj[th[d].at][i].stamp # th[d].new.stamp
<1>2. PICK t \in Thread : Found(t)
  <2> DEFINE e == th[d].at
             same == {i \in stampset[e] : obj[e][i].stamp = th[d].new.stamp}
  <2>1. th[d] \in Thread /\ e \in Disks /\ stampset[e] \subseteq Ids
    BY <1>1 DEF Scanning, ScanTypes, SearchOk
  <2>2. CASE same = {} /\ th' = [th EXCEPT ![d] = NextDisk(@)]
    <3>1. NextDisk(th[d]) \in Thread /\ NextDisk(th[d]).pc # "walk" /\ NextDisk(th[d]).new = th[d].new
          /\ NextDisk(th[d]).modified = th[d].modified
      BY <2>1, NextDiskType
    <3>2. th' = [th EXCEPT ![d] = NextDisk(th[d])]
      BY <2>2
    <3>3. Found(NextDisk(th[d]))
      BY <2>2, <3>1, <3>2
    <3> QED BY <3>1, <3>3
  <2>3. ASSUME NEW i \in same, th' = [th EXCEPT ![d].pc = "check", ![d].other = <<e, i>>]
        PROVE  \E t \in Thread : Found(t)
    <3> DEFINE t == [th[d] EXCEPT !.pc = "check", !.other = <<e, i>>]
    <3>1. t \in Thread /\ t.pc = "check" /\ t.at = e /\ t.new = th[d].new
          /\ t.modified = th[d].modified /\ t.other = <<e, i>>
      BY <2>1, <2>3 DEF Thread
    <3>2. th' = [th EXCEPT ![d] = t]
      BY <2>1, <2>3 DEF Scanning, ScanTypes
    <3>3. i \in stampset[e] /\ obj[e][i].stamp = th[d].new.stamp
      BY <2>3
    <3> HIDE DEF t
    <3>4. Found(t)
      BY <3>1, <3>2, <3>3
    <3> QED BY <3>1, <3>4
  <2>4. \/ same = {} /\ th' = [th EXCEPT ![d] = NextDisk(@)]
        \/ \E i \in same : th' = [th EXCEPT ![d].pc = "check", ![d].other = <<e, i>>]
    BY DEF SearchCopy
  <2> HIDE DEF Found
  <2> QED BY <2>2, <2>3, <2>4
<1>3. th \in [Disks -> Thread] /\ th'[d] = t /\ \A e \in Disks \ {d} : th'[e] = th[e]
  BY <1>2 DEF Scanning, ScanTypes
<1>4. ScanTypes'
  BY <1>1, <1>2, <1>3 DEF Scanning, ScanTypes
<1>5. Grows
  BY <1>1 DEF Grows
<1>6. ASSUME NEW e \in Disks PROVE DiskOk(e)' /\ CopiesOk(e)' /\ SeenNow(e)'
  <2>1. SameObjects(e) /\ SamePlace(e)
    BY <1>1 DEF SameObjects, SamePlace
  <2>2. DiskOk(e) /\ CopiesOk(e) /\ SeenNow(e)
    BY DEF Scanning
  <2>3. SamePending(e)
    <3>1. CASE e # d
      BY <1>3, <2>2, <3>1 DEF SamePending, DiskOk, PendingOk
    <3>2. CASE e = d
      BY <1>1, <1>2, <1>3, <2>2, <3>2 DEF SamePending, DiskOk, PendingOk
    <3> QED BY <3>1, <3>2
  <2>4. CopiesOk(e)'
    BY <1>1, <1>5, <2>2, CopiesFrame
  <2>5. SeenNow(e)'
    BY <1>1, <2>2 DEF SeenNow
  <2> QED BY <1>1, <2>1, <2>2, <2>3, <2>4, <2>5, DiskFrame
<1>7. ASSUME NEW e \in Disks PROVE SearchOk(e)'
  <2>1. CASE e # d
    BY <1>1, <1>3, <1>5, <2>1, SearchFrame DEF Scanning
  <2>2. CASE e = d
    <3>1. SearchOk(d) /\ th[d].at \in Disks
          /\ \A c \in Disks : c < th[d].at => ~HashedOn(c, th[d].new.stamp)
      BY <1>1 DEF Scanning, SearchOk
    <3>2. CASE t = NextDisk(th[d]) /\ \A i \in stampset[th[d].at] : obj[th[d].at][i].stamp # th[d].new.stamp
      <4>1. ~HashedOn(th[d].at, th[d].new.stamp)
        BY <3>1, <3>2, HashedIsFound DEF Scanning
      <4>2. \A c \in Disks : c <= th[d].at => ~HashedOn(c, th[d].new.stamp)
        BY <3>1, <4>1 DEF Disks
      <4> QED BY <1>1, <1>3, <2>2, <3>1, <3>2, <4>2, NextDiskOk DEF Scanning
    <3>3. ASSUME t.pc = "check", t.at = th[d].at, NEW i \in stampset[t.at], t.other = <<t.at, i>>,
                 obj[t.at][i].stamp = t.new.stamp
          PROVE  SearchOk(d)'
      <4>1. i \in DOMAIN obj[t.at] /\ i \in Ids
        BY <3>1, <3>3 DEF Scanning, ScanTypes
      <4>2. t.other[1] = t.at /\ t.other[2] = i /\ t.other \in Disks \X Ids
        BY <3>1, <3>3, <4>1
      <4>3. \A c, s : HashedOn(c, s)' <=> HashedOn(c, s)
        BY <1>1 DEF HashedOn
      <4> QED BY <1>1, <1>2, <1>3, <3>1, <3>3, <4>1, <4>2, <4>3 DEF SearchOk
    <3> QED BY <1>2, <2>2, <3>2, <3>3
  <2> QED BY <2>1, <2>2
<1> QED BY <1>1, <1>4, <1>6, <1>7 DEF Scanning

LEMMA CheckCopyKeeps ==
    ASSUME Scanning, NEW d \in Disks, CheckCopy(d)
    PROVE  Scanning' /\ phase' = "scan"
<1> DEFINE a == th[d].at
           i == th[d].other[2]
<1>1. phase = "scan" /\ th[d].pc = "check" /\ before' = before /\ phase' = phase
      /\ UNCHANGED <<fs, ops, changed, persistent, links, inodeset, stampset, todo, seen>>
  BY DEF CheckCopy, userVars, sets
<1>2. /\ th[d] \in Thread /\ a \in Disks /\ th[d].other[1] = a /\ i \in DOMAIN obj[a]
      /\ obj[a][i].stamp = th[d].new.stamp /\ obj[a][i] \in Obj /\ th[d].new \in Obj
      /\ \A c \in Disks : c < a => ~HashedOn(c, th[d].new.stamp)
  <2>1. SearchOk(d) /\ PendingOk(d) /\ ScanTypes
    BY DEF Scanning, DiskOk
  <2>2. /\ a \in Disks /\ th[d].other[1] = a /\ i \in DOMAIN obj[a] /\ obj[a][i].stamp = th[d].new.stamp
        /\ \A c \in Disks : c < a => ~HashedOn(c, th[d].new.stamp)
    BY <1>1, <2>1 DEF SearchOk
  <2>3. th[d].new \in Obj
    BY <1>1, <2>1 DEF PendingOk
  <2>4. th[d] \in Thread /\ obj[a][i] \in Obj
    BY <2>1, <2>2 DEF ScanTypes
  <2> QED BY <2>2, <2>3, <2>4
<1>3. \/ /\ obj' = [obj EXCEPT ![a] = [obj[a] EXCEPT ![i] = [obj[a][i] EXCEPT !.flags = @ \cup {"relocated"}]]]
         /\ th' = [th EXCEPT ![d] = [th[d] EXCEPT !.pc = "insert", !.new = [th[d].new EXCEPT !.st = "REP"]]]
      \/ obj[a][i].st \notin {"BLK", "REP"} /\ obj' = obj /\ th' = [th EXCEPT ![d] = NextDisk(th[d])]
  <2>1. th \in [Disks -> Thread] /\ DOMAIN obj = Disks
    BY DEF Scanning, ScanTypes
  <2>2. IF obj[a][i].st \in {"BLK", "REP"}
        THEN /\ obj' = [obj EXCEPT ![a][i].flags = @ \cup {"relocated"}]
             /\ th' = [th EXCEPT ![d].pc = "insert", ![d].new.st = "REP"]
        ELSE th' = [th EXCEPT ![d] = NextDisk(@)] /\ UNCHANGED obj
    BY <1>2 DEF CheckCopy
  <2>3. CASE obj[a][i].st \in {"BLK", "REP"}
    <3>1. obj' = [obj EXCEPT ![a] = [obj[a] EXCEPT ![i] = [obj[a][i] EXCEPT !.flags = @ \cup {"relocated"}]]]
      BY <1>2, <2>1, <2>2, <2>3
    <3>2. th' = [th EXCEPT ![d].pc = "insert", ![d].new.st = "REP"]
      BY <2>2, <2>3
    <3>3. th' = [th EXCEPT ![d] = [th[d] EXCEPT !.pc = "insert", !.new = [th[d].new EXCEPT !.st = "REP"]]]
      BY <1>2, <2>1, <3>2 DEF Thread
    <3> QED BY <3>1, <3>3
  <2>4. CASE obj[a][i].st \notin {"BLK", "REP"}
    BY <2>2, <2>4
  <2> QED BY <2>3, <2>4
<1> HIDE DEF a, i
<1>4. PICK t \in Thread :
        /\ th' = [th EXCEPT ![d] = t] /\ t.pc # "walk" /\ t.modified = th[d].modified
        /\ t.new \in Obj /\ t.new.sub = th[d].new.sub /\ t.new.ino = th[d].new.ino
        /\ t.new.stamp = th[d].new.stamp /\ t.new.flags = th[d].new.flags
        /\ \/ t.pc = "insert" /\ t.new.st = "REP"
           \/ obj[a][i].st \notin {"BLK", "REP"} /\ t = NextDisk(th[d])
  <2> DEFINE Next1 == [th[d] EXCEPT !.pc = "insert", !.new = [th[d].new EXCEPT !.st = "REP"]]
             Next2 == NextDisk(th[d])
  <2>1. /\ Next1 \in Thread /\ Next1.pc = "insert" /\ Next1.modified = th[d].modified /\ Next1.new \in Obj
        /\ Next1.new = [th[d].new EXCEPT !.st = "REP"]
    BY <1>2 DEF Thread, Obj
  <2>2. Next1.new.sub = th[d].new.sub /\ Next1.new.ino = th[d].new.ino
        /\ Next1.new.stamp = th[d].new.stamp /\ Next1.new.flags = th[d].new.flags /\ Next1.new.st = "REP"
    BY <1>2, <2>1 DEF Obj
  <2>3. Next2 \in Thread /\ Next2.pc # "walk" /\ Next2.modified = th[d].modified /\ Next2.new = th[d].new
    BY <1>2, NextDiskType DEF a
  <2> HIDE DEF Next1, Next2
  <2>4. CASE th' = [th EXCEPT ![d] = Next1]
    BY <2>1, <2>2, <2>4
  <2>5. CASE th' = [th EXCEPT ![d] = Next2] /\ obj[a][i].st \notin {"BLK", "REP"}
    BY <1>2, <2>3, <2>5 DEF Next2
  <2> QED BY <1>3, <2>4, <2>5 DEF Next1, Next2
<1>5. th \in [Disks -> Thread] /\ th'[d] = t /\ \A e \in Disks \ {d} : th'[e] = th[e]
  BY <1>4 DEF Scanning, ScanTypes
<1>6. ASSUME NEW e \in Disks, NEW j \in DOMAIN obj[e]
      PROVE  /\ obj'[e][j].sub = obj[e][j].sub /\ obj'[e][j].ino = obj[e][j].ino
             /\ obj'[e][j].stamp = obj[e][j].stamp /\ obj'[e][j].st = obj[e][j].st
             /\ Present(obj'[e][j]) <=> Present(obj[e][j])
             /\ obj'[e][j] \in Obj
  <2>1. obj[e][j] \in Obj /\ DOMAIN obj = Disks
    BY DEF Scanning, ScanTypes
  <2>2. CASE obj' = obj
    BY <2>1, <2>2
  <2>3. CASE obj' = [obj EXCEPT ![a] = [obj[a] EXCEPT ![i] = [obj[a][i] EXCEPT !.flags = @ \cup {"relocated"}]]]
    <3>1. CASE e = a /\ j = i
      <4>1. obj'[e][j] = [obj[e][j] EXCEPT !.flags = @ \cup {"relocated"}]
        BY <2>1, <2>3, <3>1
      <4> QED BY <2>1, <4>1 DEF Obj, Present
    <3>2. CASE ~(e = a /\ j = i)
      BY <2>1, <2>3, <3>2
    <3> QED BY <3>1, <3>2
  <2> QED BY <1>3, <2>2, <2>3
<1>7. DOMAIN obj' = Disks /\ \A e \in Disks : DOMAIN obj'[e] = DOMAIN obj[e]
  BY <1>2, <1>3 DEF Scanning, ScanTypes
<1>8. ScanTypes'
  BY <1>1, <1>4, <1>5, <1>6, <1>7 DEF Scanning, ScanTypes
<1>9. Grows
  BY <1>6, <1>7 DEF Grows
<1>10. ASSUME NEW e \in Disks PROVE DiskOk(e)' /\ CopiesOk(e)' /\ SeenNow(e)'
  <2>1. SameObjects(e) /\ SamePlace(e)
    BY <1>1, <1>6, <1>7 DEF SameObjects, SamePlace
  <2>2. DiskOk(e) /\ CopiesOk(e) /\ SeenNow(e)
    BY DEF Scanning
  <2>3. SamePending(e)
    <3>1. CASE e # d
      BY <1>5, <2>2, <3>1 DEF SamePending, DiskOk, PendingOk
    <3>2. CASE e = d
      BY <1>1, <1>4, <1>5, <3>2 DEF SamePending
    <3> QED BY <3>1, <3>2
  <2>4. CopiesOk(e)'
    BY <1>1, <1>7, <1>9, <2>2, CopiesFrame
  <2>5. SeenNow(e)'
    BY <1>1, <2>2 DEF SeenNow
  <2> QED BY <1>1, <2>1, <2>2, <2>3, <2>4, <2>5, DiskFrame
<1>11. ASSUME NEW e \in Disks PROVE SearchOk(e)'
  <2>1. CASE e # d
    BY <1>1, <1>5, <1>9, <2>1, SearchFrame DEF Scanning
  <2>2. CASE e = d
    <3>1. CASE t.pc = "insert" /\ t.new.st = "REP"
      BY <1>5, <2>2, <3>1 DEF SearchOk, CopyOf
    <3>2. CASE obj[a][i].st \notin {"BLK", "REP"} /\ t = NextDisk(th[d])
      <4>1. ~HashedOn(a, th[d].new.stamp)
        BY <1>2, <3>2, HashedIsTaken DEF Scanning
      <4>2. \A c \in Disks : c <= a => ~HashedOn(c, th[d].new.stamp)
        BY <1>2, <4>1 DEF Disks
      <4> QED BY <1>1, <1>2, <1>5, <2>2, <3>2, <4>2, NextDiskOk DEF Scanning, a
    <3> QED BY <1>4, <3>1, <3>2
  <2> QED BY <2>1, <2>2
<1> QED BY <1>1, <1>8, <1>10, <1>11 DEF Scanning

-----------------------------------------------------------------------------
(* The new file is inserted.                                               *)

LEMMA InsertKeeps ==
    ASSUME Scanning, NEW d \in Disks, Insert(d)
    PROVE  Scanning' /\ phase' = "scan"
<1> USE NoneApart
<1> DEFINE new == th[d].new
           k == <<"new", new.sub>>
<1>1. phase = "scan" /\ th[d].pc = "insert" /\ before' = before /\ phase' = phase
      /\ UNCHANGED <<fs, ops, changed, persistent, links, todo, seen>>
      /\ obj' = [obj EXCEPT ![d] = With(obj[d], k, new)]
      /\ stampset' = [stampset EXCEPT ![d] = IF th[d].modified THEN @ ELSE @ \cup {k}]
      /\ inodeset' = [inodeset EXCEPT ![d] = @ \cup {k}]
      /\ th' = [th EXCEPT ![d] = Idle]
  BY DEF Insert, userVars
<1>2. ScanTypes /\ DiskOk(d) /\ CopiesOk(d) /\ SearchOk(d) /\ ObjectsOk(d) /\ PresentOk(d) /\ LinksOk(d)
  BY DEF Scanning, DiskOk
<1>3. /\ new \in Obj /\ Present(new) /\ new.sub \notin todo[d] /\ IsFile(new, seen[d][new.sub])
      /\ links[d][new.sub] = None /\ k \notin DOMAIN obj[d] /\ NoneAt(d, new.sub)
      /\ \A i \in DOMAIN obj[d] : obj[d][i].ino # new.ino
      /\ th[d].modified => <<"old", new.sub>> \in DOMAIN before[d]
      /\ CopyOf(new)
  <2>1. PendingOk(d)
    BY <1>2 DEF DiskOk
  <2>2. /\ new \in Obj /\ Present(new) /\ new.sub \notin todo[d] /\ IsFile(new, seen[d][new.sub])
        /\ links[d][new.sub] = None /\ k \notin DOMAIN obj[d] /\ NoneAt(d, new.sub)
        /\ \A i \in DOMAIN obj[d] : obj[d][i].ino # new.ino
        /\ th[d].modified => <<"old", new.sub>> \in DOMAIN before[d]
    BY <1>1, <2>1 DEF PendingOk
  <2> QED BY <1>1, <1>2, <2>2 DEF SearchOk
<1>4. new.sub \in Paths /\ new.ino \in Inodes /\ k \in Ids /\ k[1] = "new" /\ k[2] = new.sub
  <2>1. new.sub \in Paths /\ k \in Ids
    BY <1>3 DEF Obj, Ids
  <2>2. seen[d][new.sub] \in File
    BY <1>2, <1>3, <2>1 DEF ScanTypes, IsFile
  <2> QED BY <1>3, <2>1, <2>2 DEF IsFile, File
<1> HIDE DEF new, k
<1>5. /\ DOMAIN obj' = Disks /\ DOMAIN obj'[d] = DOMAIN obj[d] \cup {k} /\ obj'[d][k] = new
      /\ \A i \in DOMAIN obj[d] : obj'[d][i] = obj[d][i]
      /\ stampset'[d] = (IF th[d].modified THEN stampset[d] ELSE stampset[d] \cup {k})
      /\ inodeset'[d] = inodeset[d] \cup {k} /\ th'[d] = Idle
      /\ inodeset' \in [Disks -> SUBSET Ids] /\ stampset' \in [Disks -> SUBSET Ids]
  BY <1>1, <1>2, <1>3, <1>4 DEF ScanTypes, With
<1>6. \A e \in Disks \ {d} : obj'[e] = obj[e] /\ stampset'[e] = stampset[e] /\ inodeset'[e] = inodeset[e]
                             /\ th'[e] = th[e]
  BY <1>1, <1>2 DEF ScanTypes
<1>7. ScanTypes'
  <2>1. th' \in [Disks -> Thread]
    <3>1. Idle \in Thread
      BY ScanAssumption DEF Idle, Thread
    <3> QED BY <1>1, <1>2, <3>1 DEF ScanTypes
  <2>2. ASSUME NEW e \in Disks
        PROVE  /\ DOMAIN obj'[e] \subseteq Ids /\ DOMAIN before'[e] \subseteq {"old"} \X Paths
               /\ inodeset'[e] \cup stampset'[e] \subseteq DOMAIN obj'[e]
               /\ \A i \in DOMAIN obj'[e] : obj'[e][i] \in Obj
    <3>1. CASE e = d
      BY <1>1, <1>2, <1>3, <1>4, <1>5, <3>1 DEF ScanTypes
    <3>2. CASE e # d
      BY <1>1, <1>2, <1>6, <3>2 DEF ScanTypes
    <3> QED BY <3>1, <3>2
  <2> QED BY <1>1, <1>2, <1>5, <2>1, <2>2 DEF ScanTypes
<1>8. Grows
  BY <1>5, <1>6 DEF Grows
<1>9. ObjectsOk(d)'
  <2>1. DOMAIN before[d] \subseteq stampset'[d]
    BY <1>2, <1>5 DEF ObjectsOk
  <2>2. ASSUME NEW i \in DOMAIN obj[d]
        PROVE  /\ i[1] = "old" <=> i \in DOMAIN before[d]
               /\ i \in DOMAIN before[d] =>
                    obj'[d][i].stamp = before[d][i].stamp /\ obj'[d][i].st = before[d][i].st
               /\ i[1] = "new" => Present(obj'[d][i])
               /\ i[1] = "new" \/ ~Present(obj'[d][i]) => obj'[d][i].sub = i[2]
               /\ i \notin stampset'[d] => <<"old", i[2]>> \in DOMAIN before[d]
    BY <1>2, <1>5 DEF ObjectsOk
  <2>3. k \notin DOMAIN before[d] /\ k[1] # "old"
    BY <1>2, <1>4 DEF ScanTypes
  <2>4. k \notin stampset'[d] => <<"old", k[2]>> \in DOMAIN before[d]
    BY <1>3, <1>4, <1>5
  <2>5. inodeset'[d] = {i \in DOMAIN obj'[d] : obj'[d][i].ino # None}
    <3>1. inodeset[d] = {i \in DOMAIN obj[d] : obj[d][i].ino # None}
      BY <1>2 DEF ObjectsOk
    <3> QED BY <1>4, <1>5, <3>1
  <2>6. \A i, j \in DOMAIN obj'[d] : obj'[d][i].ino = obj'[d][j].ino /\ obj'[d][i].ino # None => i = j
    <3>1. \A i, j \in DOMAIN obj[d] : obj[d][i].ino = obj[d][j].ino /\ obj[d][i].ino # None => i = j
      BY <1>2 DEF ObjectsOk
    <3> QED BY <1>3, <1>5, <3>1
  <2>7. ASSUME NEW i \in DOMAIN obj'[d]
        PROVE  /\ i[1] = "old" <=> i \in DOMAIN before[d]
               /\ i \in DOMAIN before[d] =>
                    obj'[d][i].stamp = before[d][i].stamp /\ obj'[d][i].st = before[d][i].st
               /\ i[1] = "new" => Present(obj'[d][i])
               /\ i[1] = "new" \/ ~Present(obj'[d][i]) => obj'[d][i].sub = i[2]
               /\ i \notin stampset'[d] => <<"old", i[2]>> \in DOMAIN before[d]
    <3>1. CASE i = k
      BY <1>3, <1>4, <1>5, <2>3, <2>4, <3>1
    <3>2. CASE i \in DOMAIN obj[d]
      BY <2>2, <3>2
    <3> QED BY <1>5, <3>1, <3>2
  <2> QED BY <1>1, <2>1, <2>5, <2>6, <2>7 DEF ObjectsOk
<1>10. PresentOk(d)'
  <2>1. \A i \in DOMAIN obj'[d] : Present(obj'[d][i]) =>
          obj'[d][i].sub \notin todo[d] /\ IsFile(obj'[d][i], seen[d][obj'[d][i].sub])
    BY <1>2, <1>3, <1>5 DEF PresentOk
  <2>2. \A i, j \in DOMAIN obj'[d] :
          Present(obj'[d][i]) /\ Present(obj'[d][j]) /\ obj'[d][i].sub = obj'[d][j].sub => i = j
    BY <1>2, <1>3, <1>5 DEF PresentOk, NoneAt
  <2> QED BY <1>1, <2>1, <2>2 DEF PresentOk, IsFile
<1>11. PendingOk(d)' /\ SearchOk(d)'
  BY <1>5 DEF PendingOk, SearchOk, Idle
<1>12. LinksOk(d)'
  <2>1. ASSUME NEW p \in Paths, links[d][p] # None
        PROVE  /\ p \notin todo[d] /\ seen[d][p] # None /\ NoneAt(d, p)'
               /\ \E i \in DOMAIN obj'[d] : /\ Present(obj'[d][i]) /\ obj'[d][i].sub = links[d][p]
                                            /\ obj'[d][i].ino = seen[d][p].ino
    <3>1. p # new.sub
      BY <1>3, <2>1
    <3>2. /\ p \notin todo[d] /\ seen[d][p] # None /\ NoneAt(d, p)
          /\ \E i \in DOMAIN obj[d] : /\ Present(obj[d][i]) /\ obj[d][i].sub = links[d][p]
                                      /\ obj[d][i].ino = seen[d][p].ino
      BY <1>2, <2>1 DEF LinksOk
    <3>3. NoneAt(d, p)'
      BY <1>5, <3>1, <3>2 DEF NoneAt
    <3> QED BY <1>5, <3>2, <3>3
  <2>2. ASSUME NEW p \in Paths, p \notin todo[d], seen[d][p] # None
        PROVE  links[d][p] # None \/ ~NoneAt(d, p)'
    <3>1. links[d][p] # None \/ ~NoneAt(d, p) \/ new.sub = p
      BY <1>2, <2>2 DEF LinksOk, new
    <3>2. ~NoneAt(d, p) => ~NoneAt(d, p)'
      BY <1>5 DEF NoneAt
    <3>3. new.sub = p => ~NoneAt(d, p)'
      BY <1>3, <1>5 DEF NoneAt
    <3> QED BY <3>1, <3>2, <3>3
  <2> QED BY <1>1, <2>1, <2>2 DEF LinksOk
<1>13. CopiesOk(d)'
  <2>1. ASSUME NEW i \in DOMAIN obj'[d], i[1] = "new" PROVE CopyOf(obj'[d][i])
    BY <1>2, <1>3, <1>5, <2>1 DEF CopiesOk
  <2> QED BY <1>1, <2>1 DEF CopiesOk, CopyOf, HashedOn
<1>14. SeenNow(d)'
  BY <1>1 DEF Scanning, SeenNow
<1>15. ASSUME NEW e \in Disks, e # d PROVE DiskOk(e)' /\ CopiesOk(e)' /\ SearchOk(e)' /\ SeenNow(e)'
  BY <1>1, <1>6, <1>8, <1>15, OtherDisk DEF SamePlace
<1> QED BY <1>1, <1>7, <1>9, <1>10, <1>11, <1>12, <1>13, <1>14, <1>15 DEF Scanning, DiskOk

-----------------------------------------------------------------------------
(* A path is visited.                                                      *)

(* What all the cases have in common: the objects of K, one at most, get   *)
(* the path, and the others may only lose the inode of an object not       *)
(* present.                                                                *)
Visited(d, p, K) ==
    /\ DOMAIN obj' = Disks /\ DOMAIN obj'[d] = DOMAIN obj[d] /\ K \subseteq DOMAIN obj[d]
    /\ \A i, j \in K : i = j
    /\ \A i \in DOMAIN obj[d] \ K :
         /\ obj'[d][i] \in Obj
         /\ obj'[d][i].sub = obj[d][i].sub /\ obj'[d][i].stamp = obj[d][i].stamp
         /\ obj'[d][i].st = obj[d][i].st /\ obj'[d][i].flags = obj[d][i].flags
         /\ obj'[d][i].ino = obj[d][i].ino \/ (obj'[d][i].ino = None /\ ~Present(obj[d][i]))
         /\ K # {} => obj'[d][i].ino # fs[d][p].ino
    /\ \A k \in K :
         /\ fs[d][p] # None /\ ~Present(obj[d][k]) /\ obj'[d][k] \in Obj
         /\ obj'[d][k].sub = p /\ Present(obj'[d][k]) /\ obj'[d][k].ino = fs[d][p].ino
         /\ obj[d][k].stamp = fs[d][p].stamp /\ obj'[d][k].stamp = fs[d][p].stamp
         /\ obj'[d][k].st = obj[d][k].st
    /\ inodeset'[d] = {i \in DOMAIN obj[d] : obj'[d][i].ino # None} /\ inodeset' \in [Disks -> SUBSET Ids]
    /\ stampset' = stampset
    /\ \A e \in Disks \ {d} : obj'[e] = obj[e] /\ inodeset'[e] = inodeset[e]

(* How the path ends: it is not a file, it is a hardlink, it is the object *)
(* of K, or a copy of it is searched.                                      *)
Nothing(d, p, K) == fs[d][p] = None /\ K = {} /\ links' = links /\ th' = th

Linked(d, p, K) ==
    /\ fs[d][p] # None /\ K = {} /\ th' = th /\ obj' = obj
    /\ \E i \in DOMAIN obj[d] : /\ Present(obj[d][i]) /\ obj[d][i].ino = fs[d][p].ino
                                /\ links' = [links EXCEPT ![d][p] = obj[d][i].sub]

KeptAs(d, p, K) == K # {} /\ links' = links /\ th' = th

Searched(d, p, K) ==
    /\ fs[d][p] # None /\ K = {} /\ links' = links
    /\ \A i \in DOMAIN obj[d] : obj'[d][i].ino # fs[d][p].ino
    /\ \E m \in BOOLEAN :
         /\ m => <<"old", p>> \in DOMAIN before[d]
         /\ th' = [th EXCEPT ![d] = [pc |-> "search", new |-> NewFile(d, p), modified |-> m,
                                     at |-> 1, other |-> None]]

VisitFrame(d, p) ==
    /\ p \in todo[d] /\ th[d].pc = "walk" /\ phase' = phase
    /\ UNCHANGED <<fs, ops, changed, persistent, before>>
    /\ todo' = [todo EXCEPT ![d] = @ \ {p}] /\ seen' = [seen EXCEPT ![d][p] = fs[d][p]]

LEMMA VisitedKeeps ==
    ASSUME Scanning, phase = "scan", NEW d \in Disks, NEW p \in Paths, NEW K, VisitFrame(d, p), Visited(d, p, K),
           Nothing(d, p, K) \/ Linked(d, p, K) \/ KeptAs(d, p, K) \/ Searched(d, p, K)
    PROVE  Scanning'
<1> USE NoneApart
<1>1. ScanTypes /\ DiskOk(d) /\ CopiesOk(d) /\ SearchOk(d) /\ SeenNow(d)
      /\ ObjectsOk(d) /\ PresentOk(d) /\ LinksOk(d)
  BY DEF Scanning, DiskOk
<1>2. /\ p \in todo[d] /\ th[d].pc = "walk" /\ phase' = phase
      /\ UNCHANGED <<fs, ops, changed, persistent, before>>
      /\ todo' = [todo EXCEPT ![d] = @ \ {p}] /\ seen' = [seen EXCEPT ![d][p] = fs[d][p]]
  BY DEF VisitFrame
<1>3. /\ todo' \in [Disks -> SUBSET Paths] /\ todo'[d] = todo[d] \ {p}
      /\ seen' \in [Disks -> [Paths -> File \cup {None}]] /\ seen'[d][p] = fs[d][p]
      /\ \A q \in Paths \ {p} : seen'[d][q] = seen[d][q]
      /\ \A e \in Disks \ {d} : todo'[e] = todo[e] /\ seen'[e] = seen[e]
  BY <1>1, <1>2 DEF ScanTypes
<1>4. fs[d][p] # None => fs[d][p] \in File
  BY <1>1 DEF ScanTypes
<1>5. /\ links' \in [Disks -> [Paths -> Paths \cup {None}]]
      /\ \A q \in Paths \ {p} : links'[d][q] = links[d][q]
      /\ \A e \in Disks \ {d} : links'[e] = links[e]
      /\ links[d][p] = None
      /\ links'[d][p] # None => Linked(d, p, K)
  <2>1. links \in [Disks -> [Paths -> Paths \cup {None}]]
    BY <1>1 DEF ScanTypes
  <2>2. links[d][p] = None
    BY <1>1, <1>2 DEF LinksOk
  <2>3. CASE Linked(d, p, K)
    <3>1. PICK i \in DOMAIN obj[d] : links' = [links EXCEPT ![d][p] = obj[d][i].sub]
      BY <2>3 DEF Linked
    <3>2. obj[d][i].sub \in Paths
      BY <1>1 DEF ScanTypes, Obj
    <3> QED BY <2>1, <2>2, <2>3, <3>1, <3>2
  <2>4. CASE links' = links
    BY <2>1, <2>2, <2>4
  <2> QED BY <2>3, <2>4 DEF Nothing, KeptAs, Searched
<1>6. ASSUME fs[d][p] # None
      PROVE  /\ NewFile(d, p) \in Obj /\ Present(NewFile(d, p)) /\ NewFile(d, p).sub = p
             /\ NewFile(d, p).ino = fs[d][p].ino /\ IsFile(NewFile(d, p), fs[d][p])
  BY <1>4, <1>6 DEF NewFile, Obj, File, Present, IsFile
<1>7. /\ th' \in [Disks -> Thread] /\ \A e \in Disks \ {d} : th'[e] = th[e]
      /\ \/ th'[d] = th[d]
         \/ /\ Searched(d, p, K) /\ th'[d].pc = "search" /\ th'[d].new = NewFile(d, p) /\ th'[d].at = 1
            /\ th'[d].modified => <<"old", p>> \in DOMAIN before[d]
  <2>1. th \in [Disks -> Thread]
    BY <1>1 DEF ScanTypes
  <2>2. CASE Searched(d, p, K)
    <3>1. PICK m \in BOOLEAN :
            /\ m => <<"old", p>> \in DOMAIN before[d]
            /\ th' = [th EXCEPT ![d] = [pc |-> "search", new |-> NewFile(d, p), modified |-> m,
                                        at |-> 1, other |-> None]]
      BY <2>2 DEF Searched
    <3>2. fs[d][p] # None
      BY <2>2 DEF Searched
    <3>3. [pc |-> "search", new |-> NewFile(d, p), modified |-> m, at |-> 1, other |-> None] \in Thread
      BY <1>6, <3>2, ScanAssumption DEF Thread
    <3> HIDE DEF NewFile
    <3>4. th' \in [Disks -> Thread] /\ \A e \in Disks \ {d} : th'[e] = th[e]
      BY <2>1, <3>1, <3>3
    <3>5. th'[d] = [pc |-> "search", new |-> NewFile(d, p), modified |-> m, at |-> 1, other |-> None]
      BY <2>1, <3>1
    <3>6. th'[d].pc = "search" /\ th'[d].new = NewFile(d, p) /\ th'[d].at = 1 /\ th'[d].modified = m
      BY <3>5
    <3> QED BY <2>2, <3>1, <3>4, <3>6, Zenon
  <2>3. CASE th' = th
    BY <2>1, <2>3
  <2> QED BY <2>2, <2>3 DEF Nothing, Linked, KeptAs
<1>8. \A i \in DOMAIN obj[d] : Present(obj[d][i]) =>
        /\ i \notin K /\ obj'[d][i].sub = obj[d][i].sub /\ obj'[d][i].ino = obj[d][i].ino
        /\ obj'[d][i].stamp = obj[d][i].stamp /\ Present(obj'[d][i]) /\ obj[d][i].sub # p
  BY <1>1, <1>2 DEF PresentOk, Visited, Present
<1>9. \A i \in DOMAIN obj[d] : Present(obj'[d][i]) => i \in K \/ Present(obj[d][i])
  BY DEF Visited, Present
<1>10. DOMAIN obj' = Disks /\ \A e \in Disks : DOMAIN obj'[e] = DOMAIN obj[e]
  BY DEF Visited
<1>11. Grows
  <2> SUFFICES ASSUME NEW e \in Disks, NEW i \in DOMAIN obj[e]
               PROVE  obj'[e][i].stamp = obj[e][i].stamp /\ obj'[e][i].st = obj[e][i].st
    BY <1>10 DEF Grows
  <2> QED BY DEF Visited
<1>12. ScanTypes'
  <2>1. ASSUME NEW e \in Disks
        PROVE  /\ DOMAIN obj'[e] \subseteq Ids /\ DOMAIN before'[e] \subseteq {"old"} \X Paths
               /\ inodeset'[e] \cup stampset'[e] \subseteq DOMAIN obj'[e]
               /\ \A i \in DOMAIN obj'[e] : obj'[e][i] \in Obj
    <3>1. CASE e = d
      BY <1>1, <1>2, <1>10, <3>1 DEF ScanTypes, Visited
    <3>2. CASE e # d
      BY <1>1, <1>2, <3>2 DEF ScanTypes, Visited
    <3> QED BY <3>1, <3>2
  <2>2. inodeset' \in [Disks -> SUBSET Ids] /\ stampset' = stampset
    BY DEF Visited
  <2> QED BY <1>1, <1>2, <1>3, <1>5, <1>7, <1>10, <2>1, <2>2 DEF ScanTypes

<1>13. ObjectsOk(d)'
  <2>1. DOMAIN before[d] \subseteq stampset'[d] /\ stampset'[d] = stampset[d]
    BY <1>1 DEF ObjectsOk, Visited
  <2>2. ASSUME NEW i \in DOMAIN obj[d]
        PROVE  /\ i[1] = "old" <=> i \in DOMAIN before[d]
               /\ i \in DOMAIN before[d] =>
                    obj'[d][i].stamp = before[d][i].stamp /\ obj'[d][i].st = before[d][i].st
               /\ i[1] = "new" => Present(obj'[d][i])
               /\ i[1] = "new" \/ ~Present(obj'[d][i]) => obj'[d][i].sub = i[2]
               /\ i \notin stampset'[d] => <<"old", i[2]>> \in DOMAIN before[d]
    <3>1. /\ i[1] = "old" <=> i \in DOMAIN before[d]
          /\ i \in DOMAIN before[d] =>
               obj[d][i].stamp = before[d][i].stamp /\ obj[d][i].st = before[d][i].st
          /\ i[1] = "new" => Present(obj[d][i])
          /\ i[1] = "new" \/ ~Present(obj[d][i]) => obj[d][i].sub = i[2]
          /\ i \notin stampset[d] => <<"old", i[2]>> \in DOMAIN before[d]
      BY <1>1 DEF ObjectsOk
    <3>2. obj'[d][i].stamp = obj[d][i].stamp /\ obj'[d][i].st = obj[d][i].st
      BY <1>11 DEF Grows
    <3>3. i[1] = "new" => Present(obj'[d][i]) /\ obj'[d][i].sub = i[2]
      BY <1>8, <3>1
    <3>4. ~Present(obj'[d][i]) => ~Present(obj[d][i]) /\ obj'[d][i].sub = obj[d][i].sub
      BY <1>8 DEF Visited
    <3> QED BY <2>1, <3>1, <3>2, <3>3, <3>4
  <2>3. inodeset'[d] = {i \in DOMAIN obj'[d] : obj'[d][i].ino # None}
    BY <1>10 DEF Visited
  <2>4. \A i, j \in DOMAIN obj'[d] : obj'[d][i].ino = obj'[d][j].ino /\ obj'[d][i].ino # None => i = j
    <3> SUFFICES ASSUME NEW i \in DOMAIN obj[d], NEW j \in DOMAIN obj[d],
                        obj'[d][i].ino = obj'[d][j].ino, obj'[d][i].ino # None
                 PROVE  i = j
      BY <1>10
    <3>1. CASE i \notin K /\ j \notin K
      BY <1>1, <3>1 DEF Visited, ObjectsOk
    <3>2. CASE i \in K \/ j \in K
      BY <3>2 DEF Visited
    <3> QED BY <3>1, <3>2
  <2> QED BY <1>2, <1>10, <2>1, <2>2, <2>3, <2>4 DEF ObjectsOk
<1>14. ASSUME NEW i \in K PROVE obj'[d][i].sub = p /\ IsFile(obj'[d][i], fs[d][p]) /\ p \notin todo'[d]
  BY <1>3 DEF Visited, IsFile
<1>15. PresentOk(d)'
  <2>1. ASSUME NEW i \in DOMAIN obj[d], Present(obj'[d][i])
        PROVE  obj'[d][i].sub \notin todo'[d] /\ IsFile(obj'[d][i], seen'[d][obj'[d][i].sub])
    <3>1. CASE i \in K
      BY <1>3, <1>14, <3>1
    <3>2. CASE Present(obj[d][i])
      <4>1. obj[d][i].sub \notin todo[d] /\ IsFile(obj[d][i], seen[d][obj[d][i].sub])
            /\ obj[d][i].sub \in Paths \ {p}
        BY <1>1, <1>8, <3>2 DEF PresentOk, ScanTypes, Obj
      <4> QED BY <1>3, <1>8, <3>2, <4>1 DEF IsFile
    <3> QED BY <1>9, <2>1, <3>1, <3>2
  <2>2. ASSUME NEW i \in DOMAIN obj[d], NEW j \in DOMAIN obj[d], Present(obj'[d][i]), Present(obj'[d][j]),
               obj'[d][i].sub = obj'[d][j].sub
        PROVE  i = j
    <3>1. CASE i \in K /\ j \in K
      BY <3>1 DEF Visited
    <3>2. CASE i \notin K /\ j \notin K
      BY <1>1, <1>8, <1>9, <2>2, <3>2 DEF PresentOk
    <3>3. CASE (i \in K /\ j \notin K) \/ (i \notin K /\ j \in K)
      BY <1>8, <1>9, <1>14, <2>2, <3>3
    <3> QED BY <3>1, <3>2, <3>3
  <2> QED BY <1>10, <2>1, <2>2 DEF PresentOk, IsFile
<1>16. ASSUME NEW q \in Paths, q # p PROVE NoneAt(d, q)' <=> NoneAt(d, q)
  BY <1>8, <1>9, <1>10, <1>14, <1>16 DEF NoneAt
<1>17. K = {} => NoneAt(d, p)'
  BY <1>8, <1>9, <1>10 DEF NoneAt
<1>18. K # {} => ~NoneAt(d, p)'
  BY <1>10 DEF NoneAt, Visited
<1>19. PendingOk(d)'
  <2> SUFFICES ASSUME th'[d].pc # "walk" PROVE PendingOk(d)'
    BY DEF PendingOk
  <2>1. Searched(d, p, K) /\ th'[d].new = NewFile(d, p) /\ (th'[d].modified => <<"old", p>> \in DOMAIN before[d])
    BY <1>2, <1>7
  <2>2. fs[d][p] # None /\ K = {} /\ links' = links /\ \A i \in DOMAIN obj[d] : obj'[d][i].ino # fs[d][p].ino
    BY <2>1 DEF Searched
  <2>3. /\ NewFile(d, p) \in Obj /\ Present(NewFile(d, p)) /\ NewFile(d, p).sub = p
        /\ NewFile(d, p).ino = fs[d][p].ino /\ IsFile(NewFile(d, p), fs[d][p])
    BY <1>6, <2>2
  <2> HIDE DEF NewFile
  <2>4. <<"new", p>> \notin DOMAIN obj[d]
    <3> SUFFICES ASSUME <<"new", p>> \in DOMAIN obj[d] PROVE FALSE
      OBVIOUS
    <3>1. <<"new", p>>[1] = "new" /\ <<"new", p>>[2] = p
      OBVIOUS
    <3>2. Present(obj[d][<<"new", p>>]) /\ obj[d][<<"new", p>>].sub = p
      BY <1>1, <3>1 DEF ObjectsOk
    <3> QED BY <1>8, <3>2
  <2>5. th'[d].new.sub = p /\ th'[d].new.ino = fs[d][p].ino
    BY <2>1, <2>3
  <2>6. th'[d].new \in Obj /\ Present(th'[d].new) /\ IsFile(th'[d].new, fs[d][p])
    BY <2>1, <2>3
  <2>7. IsFile(th'[d].new, seen'[d][th'[d].new.sub])
    BY <1>3, <2>5, <2>6
  <2> QED BY <1>2, <1>3, <1>5, <1>10, <1>17, <2>1, <2>2, <2>4, <2>5, <2>6, <2>7 DEF PendingOk, NoneAt, IsFile
<1>20. LinksOk(d)'
  <2>1. ASSUME NEW q \in Paths, links'[d][q] # None
        PROVE  /\ q \notin todo'[d] /\ seen'[d][q] # None /\ NoneAt(d, q)'
               /\ \E i \in DOMAIN obj'[d] : /\ Present(obj'[d][i]) /\ obj'[d][i].sub = links'[d][q]
                                            /\ obj'[d][i].ino = seen'[d][q].ino
    <3>1. CASE q # p
      <4>1. /\ q \notin todo[d] /\ seen[d][q] # None /\ NoneAt(d, q)
            /\ \E i \in DOMAIN obj[d] : /\ Present(obj[d][i]) /\ obj[d][i].sub = links[d][q]
                                        /\ obj[d][i].ino = seen[d][q].ino
        BY <1>1, <1>5, <2>1, <3>1 DEF LinksOk
      <4>2. NoneAt(d, q)'
        BY <1>16, <3>1, <4>1
      <4>3. links'[d][q] = links[d][q] /\ seen'[d][q] = seen[d][q]
        BY <1>3, <1>5, <3>1
      <4> QED BY <1>3, <1>8, <1>10, <4>1, <4>2, <4>3
    <3>2. CASE q = p
      <4>1. Linked(d, p, K)
        BY <1>5, <2>1, <3>2
      <4>2. PICK i \in DOMAIN obj[d] : /\ Present(obj[d][i]) /\ obj[d][i].ino = fs[d][p].ino
                                       /\ links' = [links EXCEPT ![d][p] = obj[d][i].sub]
        BY <4>1 DEF Linked
      <4>3. links'[d][p] = obj[d][i].sub
        BY <1>1, <4>2 DEF ScanTypes
      <4>4. Present(obj'[d][i]) /\ obj'[d][i].sub = links'[d][p] /\ obj'[d][i].ino = seen'[d][p].ino
        BY <1>3, <1>8, <4>2, <4>3
      <4>5. fs[d][p] # None /\ K = {}
        BY <4>1 DEF Linked
      <4>6. p \notin todo'[d] /\ seen'[d][p] # None /\ NoneAt(d, p)'
        BY <1>3, <1>17, <4>5
      <4> QED BY <1>10, <3>2, <4>4, <4>6
    <3> QED BY <3>1, <3>2
  <2>2. ASSUME NEW q \in Paths, q \notin todo'[d], seen'[d][q] # None
        PROVE  links'[d][q] # None \/ ~NoneAt(d, q)' \/ (th'[d].pc # "walk" /\ th'[d].new.sub = q)
    <3>1. CASE q # p
      <4>1. q \notin todo[d] /\ seen[d][q] # None
        BY <1>3, <2>2, <3>1
      <4>2. links[d][q] # None \/ ~NoneAt(d, q)
        BY <1>1, <1>2, <4>1 DEF LinksOk
      <4> QED BY <1>5, <1>16, <3>1, <4>2
    <3>2. CASE q = p
      <4>1. fs[d][p] # None
        BY <1>3, <2>2, <3>2
      <4>2. CASE Linked(d, p, K)
        <5>1. PICK i \in DOMAIN obj[d] : links' = [links EXCEPT ![d][p] = obj[d][i].sub]
          BY <4>2 DEF Linked
        <5>2. obj[d][i].sub \in Paths /\ links'[d][p] = obj[d][i].sub
          BY <1>1, <5>1 DEF ScanTypes, Obj
        <5> QED BY <3>2, <5>2
      <4>3. CASE KeptAs(d, p, K)
        BY <1>18, <3>2, <4>3 DEF KeptAs
      <4>4. CASE Searched(d, p, K)
        BY <1>1, <1>6, <3>2, <4>1, <4>4 DEF Searched, ScanTypes
      <4> QED BY <4>1, <4>2, <4>3, <4>4 DEF Nothing
    <3> QED BY <3>1, <3>2
  <2> QED BY <2>1, <2>2 DEF LinksOk
<1>21. CopiesOk(d)'
  BY <1>1, <1>2, <1>10, <1>11, CopiesFrame
<1>22. SearchOk(d)'
  <2>1. th'[d].pc = "walk" \/ (th'[d].pc = "search" /\ th'[d].at = 1)
    BY <1>2, <1>7
  <2>2. 1 \in Disks /\ \A e \in Disks : ~(e < 1)
    BY ScanAssumption DEF Disks
  <2> QED BY <2>1, <2>2 DEF SearchOk
<1>23. SeenNow(d)'
  BY <1>1, <1>2, <1>3 DEF SeenNow
<1>24. ASSUME NEW e \in Disks, e # d PROVE DiskOk(e)' /\ CopiesOk(e)' /\ SearchOk(e)' /\ SeenNow(e)'
  <2>1. SamePlace(e) /\ obj'[e] = obj[e]
    BY <1>3, <1>5, <1>24 DEF SamePlace, Visited
  <2> QED BY <1>2, <1>7, <1>11, <1>24, <2>1, OtherDisk
<1> QED BY <1>12, <1>13, <1>15, <1>19, <1>20, <1>21, <1>22, <1>23, <1>24 DEF Scanning, DiskOk

(* The objects searched by inode and by path, when a path is visited.      *)
LEMMA ByInodeFacts ==
    ASSUME ScanTypes, NEW d \in Disks, DiskOk(d), NEW p \in Paths, fs[d][p] # None
    PROVE  /\ \A i \in DOMAIN obj[d] : obj[d][i].ino = fs[d][p].ino <=> i \in ByInode(d, fs[d][p].ino)
           /\ ByInode(d, fs[d][p].ino) \subseteq DOMAIN obj[d]
           /\ \A i, j \in ByInode(d, fs[d][p].ino) : i = j
<1>1. fs[d][p].ino \in Inodes /\ fs[d][p].ino # None
  BY NoneApart DEF ScanTypes, File
<1>2. /\ inodeset[d] = {i \in DOMAIN obj[d] : obj[d][i].ino # None}
      /\ \A i, j \in DOMAIN obj[d] : obj[d][i].ino = obj[d][j].ino /\ obj[d][i].ino # None => i = j
  BY DEF DiskOk, ObjectsOk
<1> QED BY <1>1, <1>2 DEF ByInode

LEMMA ByPathFacts ==
    ASSUME ScanTypes, NEW d \in Disks, DiskOk(d), NEW p \in todo[d], NEW i \in ByPath(d, p)
    PROVE  /\ i \in DOMAIN obj[d] /\ obj[d][i].sub = p /\ ~Present(obj[d][i])
           /\ <<"old", p>> \in DOMAIN before[d]
<1>1. i \in DOMAIN obj[d] /\ obj[d][i].sub = p
  BY DEF ByPath, ScanTypes
<1>2. ~Present(obj[d][i])
  BY <1>1 DEF DiskOk, PresentOk
<1>3. i[1] # "new" /\ i[2] = p
  BY <1>1, <1>2 DEF DiskOk, ObjectsOk
<1>4. i = <<"old", p>>
  BY <1>1, <1>3 DEF ScanTypes, Ids
<1>5. i \in DOMAIN before[d]
  BY <1>1, <1>4 DEF DiskOk, ObjectsOk
<1> QED BY <1>1, <1>2, <1>4, <1>5

(* The objects that had the inode of the path have lost it.                *)
LEMMA ForgetFacts ==
    ASSUME ScanTypes, NEW d \in Disks, DiskOk(d), NEW p \in Paths, fs[d][p] # None,
           \A i \in ByInode(d, fs[d][p].ino) : i \in Reused(d, p)
    PROVE  /\ DOMAIN Forget(d, p) = DOMAIN obj[d]
           /\ \A i \in DOMAIN obj[d] :
                /\ Forget(d, p)[i] \in Obj
                /\ Forget(d, p)[i].sub = obj[d][i].sub /\ Forget(d, p)[i].stamp = obj[d][i].stamp
                /\ Forget(d, p)[i].st = obj[d][i].st /\ Forget(d, p)[i].flags = obj[d][i].flags
                /\ Forget(d, p)[i].ino = obj[d][i].ino \/ (Forget(d, p)[i].ino = None /\ ~Present(obj[d][i]))
                /\ Forget(d, p)[i].ino # fs[d][p].ino
                /\ Forget(d, p)[i].ino # None <=> obj[d][i].ino # None /\ i \notin Reused(d, p)
<1>1. fs[d][p].ino # None
  BY NoneApart DEF ScanTypes, File
<1>2. DOMAIN Forget(d, p) = DOMAIN obj[d]
  BY DEF Forget
<1>3. ASSUME NEW i \in DOMAIN obj[d]
      PROVE  /\ Forget(d, p)[i] \in Obj
             /\ Forget(d, p)[i].sub = obj[d][i].sub /\ Forget(d, p)[i].stamp = obj[d][i].stamp
             /\ Forget(d, p)[i].st = obj[d][i].st /\ Forget(d, p)[i].flags = obj[d][i].flags
             /\ Forget(d, p)[i].ino = obj[d][i].ino \/ (Forget(d, p)[i].ino = None /\ ~Present(obj[d][i]))
             /\ Forget(d, p)[i].ino # fs[d][p].ino
             /\ Forget(d, p)[i].ino # None <=> obj[d][i].ino # None /\ i \notin Reused(d, p)
  <2>1. obj[d][i] \in Obj
    BY DEF ScanTypes
  <2>2. CASE i \in Reused(d, p)
    <3>1. Forget(d, p)[i] = [obj[d][i] EXCEPT !.ino = None] /\ ~Present(obj[d][i])
      BY <2>2 DEF Forget, Reused
    <3> QED BY <1>1, <2>1, <2>2, <3>1 DEF Obj
  <2>3. CASE i \notin Reused(d, p)
    <3>1. Forget(d, p)[i] = obj[d][i]
      BY <2>3 DEF Forget
    <3>2. obj[d][i].ino # fs[d][p].ino
      BY <2>3, ByInodeFacts
    <3> QED BY <2>1, <2>3, <3>1, <3>2
  <2> QED BY <2>2, <2>3
<1> QED BY <1>2, <1>3

LEMMA FoundByInodeKeeps ==
    ASSUME Scanning, phase = "scan", NEW d \in Disks, th[d].pc = "walk", NEW p \in todo[d], fs[d][p] # None,
           todo' = [todo EXCEPT ![d] = @ \ {p}], seen' = [seen EXCEPT ![d][p] = fs[d][p]],
           UNCHANGED <<userVars, persistent, before>>, FoundByInode(d, p)
    PROVE  (phase' = "abort" /\ changed /\ UNCHANGED <<obj, links, sets, th>>) \/ (Scanning' /\ phase' = "scan")
<1>1. ScanTypes /\ DiskOk(d) /\ ObjectsOk(d) /\ PresentOk(d) /\ SeenNow(d) /\ p \in Paths
  BY DEF Scanning, DiskOk, ScanTypes
<1>2. PICK i \in ByInode(d, fs[d][p].ino) :
        /\ Present(obj[d][i]) \/ obj[d][i].stamp = fs[d][p].stamp
        /\ IF Present(obj[d][i])
           THEN IF Single(d, obj[d][i].ino) THEN Abort
                ELSE links' = [links EXCEPT ![d][p] = obj[d][i].sub] /\ UNCHANGED <<phase, obj, sets, th>>
           ELSE /\ obj' = [obj EXCEPT ![d][i] = [obj[d][i] EXCEPT !.sub = p, !.flags = @ \cup {"present"}]]
                /\ UNCHANGED <<phase, links, sets, th>>
  BY DEF FoundByInode
<1>3. /\ i \in DOMAIN obj[d] /\ i \in inodeset[d] /\ obj[d][i].ino = fs[d][p].ino /\ obj[d][i] \in Obj
      /\ fs[d][p] \in File
      /\ \A j \in DOMAIN obj[d] : obj[d][j].ino = fs[d][p].ino => j = i
  <2>1. /\ \A j \in DOMAIN obj[d] : obj[d][j].ino = fs[d][p].ino <=> j \in ByInode(d, fs[d][p].ino)
        /\ ByInode(d, fs[d][p].ino) \subseteq DOMAIN obj[d]
        /\ \A j, k \in ByInode(d, fs[d][p].ino) : j = k
    BY <1>1, ByInodeFacts
  <2>2. i \in DOMAIN obj[d] /\ obj[d][i].ino = fs[d][p].ino
        /\ \A j \in DOMAIN obj[d] : obj[d][j].ino = fs[d][p].ino => j = i
    BY <1>2, <2>1
  <2>3. i \in inodeset[d]
    BY <1>2 DEF ByInode
  <2>4. obj[d][i] \in Obj /\ fs[d][p] \in File
    BY <1>1, <2>2 DEF ScanTypes
  <2> QED BY <2>2, <2>3, <2>4
<1>4. /\ inodeset[d] = {j \in DOMAIN obj[d] : obj[d][j].ino # None} /\ inodeset \in [Disks -> SUBSET Ids]
      /\ DOMAIN obj = Disks /\ \A j \in DOMAIN obj[d] : obj[d][j] \in Obj
  BY <1>1 DEF ObjectsOk, ScanTypes
<1>5. CASE Present(obj[d][i]) /\ Single(d, obj[d][i].ino)
  <2>1. Abort
    BY <1>2, <1>5
  <2>2. ASSUME ~changed PROVE FALSE
    <3>1. obj[d][i].sub \in Paths \ todo[d] /\ IsFile(obj[d][i], seen[d][obj[d][i].sub])
      BY <1>1, <1>3, <1>5 DEF PresentOk, Obj
    <3>2. seen[d][obj[d][i].sub] = fs[d][obj[d][i].sub]
      BY <1>1, <2>2, <3>1 DEF SeenNow
    <3>3. fs[d][obj[d][i].sub] # None /\ fs[d][obj[d][i].sub].ino = fs[d][p].ino /\ p # obj[d][i].sub
      BY <1>3, <3>1, <3>2 DEF IsFile
    <3>4. ~Single(d, fs[d][p].ino)
      BY <1>1, <3>1, <3>3, NotSingle
    <3> QED BY <1>3, <1>5, <3>4
  <2> QED BY <1>1, <2>1, <2>2 DEF Abort, ScanTypes
<1>6. CASE Present(obj[d][i]) /\ ~Single(d, obj[d][i].ino)
  <2>1. links' = [links EXCEPT ![d][p] = obj[d][i].sub] /\ UNCHANGED <<phase, obj, inodeset, stampset, th>>
    BY <1>2, <1>6 DEF sets
  <2>2. Visited(d, p, {})
    BY <1>4, <2>1 DEF Visited
  <2>3. Linked(d, p, {})
    BY <1>3, <1>6, <2>1 DEF Linked
  <2>4. VisitFrame(d, p)
    BY <2>1 DEF VisitFrame, userVars
  <2> QED BY <1>1, <2>1, <2>2, <2>3, <2>4, VisitedKeeps
<1>7. CASE ~Present(obj[d][i])
  <2>1. obj' = [obj EXCEPT ![d][i] = [obj[d][i] EXCEPT !.sub = p, !.flags = @ \cup {"present"}]]
        /\ UNCHANGED <<phase, links, inodeset, stampset, th>>
    BY <1>2, <1>7 DEF sets
  <2>2. obj[d][i].stamp = fs[d][p].stamp
    BY <1>2, <1>7
  <2>3. obj'[d][i] = [obj[d][i] EXCEPT !.sub = p, !.flags = @ \cup {"present"}]
    BY <1>3, <1>4, <2>1
  <2>4. /\ obj'[d][i] \in Obj /\ obj'[d][i].sub = p /\ Present(obj'[d][i]) /\ obj'[d][i].ino = fs[d][p].ino
        /\ obj'[d][i].stamp = fs[d][p].stamp /\ obj'[d][i].st = obj[d][i].st
    BY <1>1, <1>3, <2>2, <2>3, ZenonT(60) DEF Obj, Present
  <2>5. /\ DOMAIN obj' = Disks /\ DOMAIN obj'[d] = DOMAIN obj[d]
        /\ \A j \in DOMAIN obj[d] \ {i} : obj'[d][j] = obj[d][j]
        /\ \A e \in Disks \ {d} : obj'[e] = obj[e]
    BY <1>4, <2>1
  <2>6. inodeset'[d] = {j \in DOMAIN obj[d] : obj'[d][j].ino # None}
    BY <1>3, <1>4, <2>1, <2>4, <2>5
  <2>7. Visited(d, p, {i})
    BY <1>3, <1>4, <1>7, <2>1, <2>2, <2>4, <2>5, <2>6 DEF Visited
  <2>8. KeptAs(d, p, {i})
    BY <2>1 DEF KeptAs
  <2>9. VisitFrame(d, p)
    BY <2>1 DEF VisitFrame, userVars
  <2> QED BY <1>1, <2>1, <2>7, <2>8, <2>9, VisitedKeeps
<1> QED BY <1>5, <1>6, <1>7

LEMMA FoundByPathKeeps ==
    ASSUME Scanning, phase = "scan", NEW d \in Disks, th[d].pc = "walk", NEW p \in todo[d], fs[d][p] # None,
           todo' = [todo EXCEPT ![d] = @ \ {p}], seen' = [seen EXCEPT ![d][p] = fs[d][p]],
           UNCHANGED <<userVars, persistent, before>>, FoundByPath(d, p)
    PROVE  Scanning' /\ phase' = "scan"
<1> USE NoneApart
<1> DEFINE f == fs[d][p]
           G == Forget(d, p)
           R == Reused(d, p)
           Search(m) == th' = [th EXCEPT ![d] = [pc |-> "search", new |-> NewFile(d, p),
                                 modified |-> m, at |-> 1, other |-> None]]
<1>1. ScanTypes /\ DiskOk(d) /\ p \in Paths
  BY DEF Scanning, ScanTypes
<1>2. /\ \A i \in ByInode(d, f.ino) : i \in R
      /\ \/ /\ ByPath(d, p) = {} /\ obj' = [obj EXCEPT ![d] = G]
            /\ inodeset' = [inodeset EXCEPT ![d] = @ \ R]
            /\ Search(FALSE) /\ UNCHANGED <<phase, links, stampset>>
         \/ \E i \in ByPath(d, p) :
              IF Present(obj[d][i]) \/ G[i].ino = f.ino THEN Abort
              ELSE /\ UNCHANGED <<phase, links>>
                   /\ IF obj[d][i].stamp = f.stamp
                      THEN Restored(d, p, i) /\ UNCHANGED th
                      ELSE Outdated(d, p, i) /\ Search(TRUE)
  BY DEF FoundByPath
<1>3. /\ DOMAIN G = DOMAIN obj[d]
      /\ \A i \in DOMAIN obj[d] :
           /\ G[i] \in Obj /\ G[i].sub = obj[d][i].sub /\ G[i].stamp = obj[d][i].stamp
           /\ G[i].st = obj[d][i].st /\ G[i].flags = obj[d][i].flags
           /\ G[i].ino = obj[d][i].ino \/ (G[i].ino = None /\ ~Present(obj[d][i]))
           /\ G[i].ino # f.ino
           /\ G[i].ino # None <=> obj[d][i].ino # None /\ i \notin R
  BY <1>1, <1>2, ForgetFacts
<1>4. /\ inodeset[d] = {j \in DOMAIN obj[d] : obj[d][j].ino # None} /\ inodeset \in [Disks -> SUBSET Ids]
      /\ DOMAIN obj = Disks /\ (\A j \in DOMAIN obj[d] : obj[d][j] \in Obj) /\ f \in File /\ f.ino # None
  BY <1>1 DEF DiskOk, ObjectsOk, ScanTypes, File
<1> HIDE DEF f, G, R, Search
<1>5. ASSUME NEW m \in BOOLEAN, m => <<"old", p>> \in DOMAIN before[d], Visited(d, p, {}), Search(m),
             UNCHANGED <<phase, links>>, \A i \in DOMAIN obj[d] : obj'[d][i].ino # f.ino
      PROVE  Scanning' /\ phase' = "scan"
  <2>1. Searched(d, p, {})
    BY <1>5 DEF Searched, Search, f
  <2>2. VisitFrame(d, p)
    BY <1>5 DEF VisitFrame, userVars
  <2> QED BY <1>1, <1>5, <2>1, <2>2, VisitedKeeps
<1>6. CASE /\ ByPath(d, p) = {} /\ obj' = [obj EXCEPT ![d] = G] /\ inodeset' = [inodeset EXCEPT ![d] = @ \ R]
           /\ Search(FALSE) /\ UNCHANGED <<phase, links, stampset>>
  <2>1. DOMAIN obj' = Disks /\ obj'[d] = G /\ \A e \in Disks \ {d} : obj'[e] = obj[e] /\ inodeset'[e] = inodeset[e]
    BY <1>4, <1>6
  <2>2. inodeset' \in [Disks -> SUBSET Ids] /\ inodeset'[d] = inodeset[d] \ R
    BY <1>4, <1>6
  <2>3. inodeset'[d] = {i \in DOMAIN obj[d] : obj'[d][i].ino # None}
    BY <1>3, <1>4, <2>1, <2>2
  <2>4. Visited(d, p, {})
    BY <1>3, <1>6, <2>1, <2>2, <2>3 DEF Visited
  <2>5. \A i \in DOMAIN obj[d] : obj'[d][i].ino # f.ino
    BY <1>3, <2>1
  <2> QED BY <1>5, <1>6, <2>4, <2>5
<1>7. ASSUME NEW i \in ByPath(d, p),
             IF Present(obj[d][i]) \/ G[i].ino = f.ino THEN Abort
             ELSE /\ UNCHANGED <<phase, links>>
                  /\ IF obj[d][i].stamp = f.stamp
                     THEN Restored(d, p, i) /\ UNCHANGED th
                     ELSE Outdated(d, p, i) /\ Search(TRUE)
      PROVE  Scanning' /\ phase' = "scan"
  <2>1. i \in DOMAIN obj[d] /\ obj[d][i].sub = p /\ ~Present(obj[d][i]) /\ <<"old", p>> \in DOMAIN before[d]
        /\ i \in Ids /\ obj[d][i] \in Obj
    BY <1>1, ByPathFacts DEF ScanTypes
  <2>2. /\ UNCHANGED <<phase, links>>
        /\ IF obj[d][i].stamp = f.stamp
           THEN Restored(d, p, i) /\ UNCHANGED th
           ELSE Outdated(d, p, i) /\ Search(TRUE)
    BY <1>3, <1>7, <2>1
  <2>3. CASE obj[d][i].stamp = f.stamp
    <3> DEFINE o == [obj[d][i] EXCEPT !.ino = f.ino, !.flags = @ \cup {"present"}]
    <3>1. /\ obj' = [obj EXCEPT ![d] = With(G, i, o)]
          /\ inodeset' = [inodeset EXCEPT ![d] = (@ \ R) \cup {i}]
          /\ stampset' = stampset /\ th' = th /\ links' = links /\ phase' = phase
      BY <2>2, <2>3 DEF Restored, f, G, R
    <3>2. o \in Obj /\ o.sub = p /\ Present(o) /\ o.ino = f.ino /\ o.stamp = f.stamp /\ o.st = obj[d][i].st
      BY <1>4, <2>1, <2>3 DEF Obj, Present, File
    <3> HIDE DEF o
    <3>3. /\ DOMAIN obj' = Disks /\ DOMAIN obj'[d] = DOMAIN obj[d] /\ obj'[d][i] = o
          /\ \A j \in DOMAIN obj[d] \ {i} : obj'[d][j] = G[j]
          /\ \A e \in Disks \ {d} : obj'[e] = obj[e] /\ inodeset'[e] = inodeset[e]
      BY <1>3, <1>4, <2>1, <3>1 DEF With
    <3>4. inodeset' \in [Disks -> SUBSET Ids] /\ inodeset'[d] = (inodeset[d] \ R) \cup {i}
      BY <1>4, <2>1, <3>1
    <3>5. inodeset'[d] = {j \in DOMAIN obj[d] : obj'[d][j].ino # None}
      BY <1>3, <1>4, <2>1, <3>2, <3>3, <3>4
    <3>6. Visited(d, p, {i})
      BY <1>3, <2>1, <2>3, <3>1, <3>2, <3>3, <3>4, <3>5 DEF Visited, f
    <3>7. KeptAs(d, p, {i}) /\ VisitFrame(d, p)
      BY <3>1 DEF KeptAs, VisitFrame, userVars
    <3> QED BY <1>1, <3>1, <3>6, <3>7, VisitedKeeps
  <2>4. CASE obj[d][i].stamp # f.stamp
    <3> DEFINE o == [obj[d][i] EXCEPT !.ino = None]
    <3>1. /\ obj' = [obj EXCEPT ![d] = With(G, i, o)]
          /\ inodeset' = [inodeset EXCEPT ![d] = @ \ (R \cup {i})]
          /\ stampset' = stampset /\ Search(TRUE) /\ links' = links /\ phase' = phase
      BY <2>2, <2>4 DEF Outdated, G, R
    <3>2. o \in Obj /\ o.sub = p /\ o.ino = None /\ o.stamp = obj[d][i].stamp /\ o.st = obj[d][i].st
          /\ o.flags = obj[d][i].flags
      BY <2>1 DEF Obj
    <3> HIDE DEF o
    <3>3. /\ DOMAIN obj' = Disks /\ DOMAIN obj'[d] = DOMAIN obj[d] /\ obj'[d][i] = o
          /\ \A j \in DOMAIN obj[d] \ {i} : obj'[d][j] = G[j]
          /\ \A e \in Disks \ {d} : obj'[e] = obj[e] /\ inodeset'[e] = inodeset[e]
      BY <1>3, <1>4, <2>1, <3>1 DEF With
    <3>4. inodeset' \in [Disks -> SUBSET Ids] /\ inodeset'[d] = inodeset[d] \ (R \cup {i})
      BY <1>4, <3>1
    <3>5. inodeset'[d] = {j \in DOMAIN obj[d] : obj'[d][j].ino # None}
      BY <1>3, <1>4, <3>2, <3>3, <3>4
    <3>6. Visited(d, p, {})
      BY <1>3, <2>1, <3>1, <3>2, <3>3, <3>4, <3>5 DEF Visited
    <3>7. \A j \in DOMAIN obj[d] : obj'[d][j].ino # f.ino
      BY <1>3, <1>4, <3>2, <3>3
    <3> QED BY <1>5, <2>1, <3>1, <3>6, <3>7
  <2> QED BY <2>3, <2>4
<1> QED BY <1>2, <1>6, <1>7

LEMMA VisitKeeps == ASSUME FInv, NEW d \in Disks, Visit(d) PROVE FInv'
<1>1. Scanning /\ phase = "scan" /\ th[d].pc = "walk" /\ UNCHANGED <<userVars, persistent, before>>
  BY DEF FInv, Scanning, Visit
<1>2. PICK p \in todo[d] :
        /\ todo' = [todo EXCEPT ![d] = @ \ {p}]
        /\ seen' = [seen EXCEPT ![d][p] = fs[d][p]]
        /\ IF fs[d][p] = None THEN UNCHANGED <<phase, obj, links, sets, th>>
           ELSE FoundByInode(d, p) \/ FoundByPath(d, p)
  BY DEF Visit
<1>3. ScanTypes /\ ObjectsOk(d) /\ p \in Paths
  BY <1>1 DEF Scanning, ScanTypes, DiskOk
<1>4. CASE fs[d][p] = None
  <2>1. UNCHANGED <<phase, obj, links, inodeset, stampset, th>>
    BY <1>2, <1>4 DEF sets
  <2>2. Visited(d, p, {})
    BY <1>3, <2>1 DEF Visited, ObjectsOk, ScanTypes
  <2>3. Nothing(d, p, {}) /\ VisitFrame(d, p)
    BY <1>1, <1>2, <1>4, <2>1 DEF Nothing, VisitFrame, userVars
  <2>4. Scanning'
    BY <1>1, <1>3, <2>2, <2>3, VisitedKeeps
  <2> QED BY <1>1, <2>1, <2>4, StepKeeps
<1>5. CASE fs[d][p] # None /\ FoundByPath(d, p)
  <2>1. Scanning' /\ phase' = "scan"
    BY <1>1, <1>2, <1>5, FoundByPathKeeps
  <2> QED BY <2>1, StepKeeps
<1>6. CASE fs[d][p] # None /\ FoundByInode(d, p)
  <2>1. \/ phase' = "abort" /\ changed /\ UNCHANGED <<obj, links, sets, th>>
        \/ Scanning' /\ phase' = "scan"
    BY <1>1, <1>2, <1>6, FoundByInodeKeeps
  <2>2. CASE phase' = "abort" /\ changed /\ UNCHANGED <<obj, links, sets, th>>
    <3>1. todo' \in [Disks -> SUBSET Paths] /\ seen' \in [Disks -> [Paths -> File \cup {None}]]
      BY <1>2, <1>3 DEF ScanTypes
    <3>2. ScanTypes'
      BY <1>1, <1>3, <2>2, <3>1 DEF ScanTypes, userVars, sets
    <3>3. SetsConsistent' /\ SeenIsRecorded' /\ CopiesFound' /\ StartInv'
      BY <1>1, <2>2 DEF SetsConsistent, SeenIsRecorded, CopiesFound, StartInv, userVars
    <3> QED BY <2>2, <3>2, <3>3 DEF FInv
  <2> QED BY <2>1, <2>2, StepKeeps
<1> QED BY <1>2, <1>4, <1>5, <1>6

-----------------------------------------------------------------------------
(* The end of the scan.                                                    *)

LEMMA FinishKeeps == ASSUME FInv, Finish PROVE FInv'
<1>1. Scanning /\ phase = "scan" /\ ScanTypes
  BY DEF FInv, Scanning, Finish
<1>2. /\ \A d \in Disks : todo[d] = {} /\ th[d].pc = "walk"
      /\ phase' \in {"exit", "saved"}
      /\ obj' = [d \in Disks |-> [i \in DOMAIN obj[d] \ Gone(d) |-> obj[d][i]]]
      /\ inodeset' = [d \in Disks |-> inodeset[d] \ Gone(d)]
      /\ stampset' = [d \in Disks |-> (stampset[d] \ Gone(d)) \cup Rewritten(d)]
      /\ UNCHANGED <<fs, ops, changed, persistent, links, todo, th, seen, before>>
  BY DEF Finish, userVars
<1>3. ASSUME NEW d \in Disks
      PROVE  /\ ObjectsOk(d) /\ PresentOk(d) /\ LinksOk(d) /\ CopiesOk(d)
             /\ todo[d] = {} /\ th[d].pc = "walk"
             /\ DOMAIN obj[d] \subseteq Ids /\ inodeset[d] \cup stampset[d] \subseteq DOMAIN obj[d]
  BY <1>1, <1>2 DEF Scanning, DiskOk, ScanTypes
<1>4. ASSUME NEW d \in Disks
      PROVE  /\ DOMAIN obj'[d] = {i \in DOMAIN obj[d] : Present(obj[d][i])}
             /\ \A i \in DOMAIN obj'[d] : obj'[d][i] = obj[d][i]
             /\ inodeset'[d] = {i \in DOMAIN obj'[d] : obj'[d][i].ino # None}
             /\ stampset'[d] = DOMAIN obj'[d]
  <2>1. obj'[d] = [i \in DOMAIN obj[d] \ Gone(d) |-> obj[d][i]]
    BY <1>2
  <2>2. DOMAIN obj'[d] = {i \in DOMAIN obj[d] : Present(obj[d][i])}
        /\ \A i \in DOMAIN obj'[d] : obj'[d][i] = obj[d][i]
    BY <2>1 DEF Gone
  <2>3. inodeset'[d] = {i \in DOMAIN obj'[d] : obj'[d][i].ino # None}
    <3>1. inodeset'[d] = inodeset[d] \ Gone(d)
      BY <1>2
    <3> QED BY <1>3, <2>2, <3>1 DEF Gone, ObjectsOk
  <2>4. stampset'[d] = DOMAIN obj'[d]
    <3>1. stampset'[d] = (stampset[d] \ Gone(d)) \cup Rewritten(d)
      BY <1>2
    <3>2. ASSUME NEW i \in DOMAIN obj'[d], i \notin stampset[d] PROVE i \in Rewritten(d)
      <4>1. i \in DOMAIN obj[d] /\ <<"old", i[2]>> \in DOMAIN before[d] /\ i \notin DOMAIN before[d]
        BY <1>3, <2>2, <3>2 DEF ObjectsOk
      <4>2. i[1] = "new"
        BY <1>3, <4>1 DEF ObjectsOk, Ids
      <4> QED BY <3>2, <4>1, <4>2 DEF Rewritten
    <3>3. Rewritten(d) \subseteq DOMAIN obj'[d]
      BY <1>3, <2>2 DEF Rewritten, ObjectsOk
    <3>4. stampset[d] \ Gone(d) \subseteq DOMAIN obj'[d] /\ DOMAIN obj'[d] \cap Gone(d) = {}
      BY <1>3, <2>2 DEF Gone
    <3> QED BY <3>1, <3>2, <3>3, <3>4
  <2> QED BY <2>2, <2>3, <2>4
<1>5. ScanTypes'
  <2>1. DOMAIN obj' = Disks
    BY <1>2
  <2>2. inodeset' \in [Disks -> SUBSET Ids] /\ stampset' \in [Disks -> SUBSET Ids]
    <3>1. \A d \in Disks : inodeset'[d] \subseteq Ids /\ stampset'[d] \subseteq Ids
      BY <1>3, <1>4
    <3> HIDE DEF Ids
    <3> QED BY <1>2, <3>1
  <2>3. ASSUME NEW d \in Disks
        PROVE  /\ DOMAIN obj'[d] \subseteq Ids /\ DOMAIN before'[d] \subseteq {"old"} \X Paths
               /\ inodeset'[d] \cup stampset'[d] \subseteq DOMAIN obj'[d]
               /\ \A i \in DOMAIN obj'[d] : obj'[d][i] \in Obj
    BY <1>1, <1>2, <1>4 DEF ScanTypes
  <2> QED BY <1>1, <1>2, <2>1, <2>2, <2>3 DEF ScanTypes
<1>6. SetsConsistent'
  <2>1. ASSUME NEW d \in Disks, NEW i \in DOMAIN obj'[d], NEW j \in DOMAIN obj'[d],
               obj'[d][i].sub = obj'[d][j].sub \/ (obj'[d][i].ino = obj'[d][j].ino /\ obj'[d][i].ino # None)
        PROVE  i = j
    BY <1>3, <1>4, <2>1 DEF PresentOk, ObjectsOk
  <2>2. ASSUME NEW d \in Disks, NEW p \in Paths, links[d][p] # None
        PROVE  \E i \in DOMAIN obj'[d] : obj'[d][i].sub = links[d][p]
    <3>1. PICK i \in DOMAIN obj[d] : Present(obj[d][i]) /\ obj[d][i].sub = links[d][p]
      BY <1>3, <2>2 DEF LinksOk
    <3> QED BY <1>4, <3>1
  <2>3. ASSUME NEW d \in Disks, NEW p \in Paths, links'[d][p] # None
        PROVE  \E i \in DOMAIN obj'[d] : obj'[d][i].sub = links'[d][p]
    <3>1. links' = links
      BY <1>2
    <3> QED BY <2>2, <2>3, <3>1
  <2>4. phase' # "abort"
    BY <1>2
  <2> QED BY <1>4, <2>1, <2>3, <2>4 DEF SetsConsistent
<1>7. SeenIsRecorded'
  <2> SUFFICES ASSUME NEW d \in Disks, NEW p \in Paths
               PROVE  LET at == {i \in DOMAIN obj'[d] : obj'[d][i].sub = p}
                          target == {i \in DOMAIN obj'[d] : obj'[d][i].sub = links'[d][p]}
                      IN
                      IF seen'[d][p] = None THEN at = {} /\ links'[d][p] = None
                      ELSE \/ /\ at # {} /\ links'[d][p] = None
                              /\ \A i \in at : obj'[d][i].stamp = seen'[d][p].stamp
                                               /\ obj'[d][i].ino = seen'[d][p].ino
                           \/ at = {} /\ target # {} /\ \A i \in target : obj'[d][i].ino = seen'[d][p].ino
    BY DEF SeenIsRecorded
  <2>5. links' = links /\ seen' = seen
    BY <1>2
  <2> DEFINE at == {i \in DOMAIN obj'[d] : obj'[d][i].sub = p}
             target == {i \in DOMAIN obj'[d] : obj'[d][i].sub = links[d][p]}
  <2>1. NoneAt(d, p) <=> at = {}
    BY <1>4 DEF NoneAt
  <2>2. \A i \in at : seen[d][p] # None /\ obj'[d][i].stamp = seen[d][p].stamp /\ obj'[d][i].ino = seen[d][p].ino
    BY <1>3, <1>4 DEF PresentOk, IsFile
  <2>3. CASE links[d][p] # None
    <3>1. seen[d][p] # None /\ NoneAt(d, p)
      BY <1>3, <2>3 DEF LinksOk
    <3>2. PICK k \in DOMAIN obj[d] : Present(obj[d][k]) /\ obj[d][k].sub = links[d][p]
                                     /\ obj[d][k].ino = seen[d][p].ino
      BY <1>3, <2>3 DEF LinksOk
    <3>3. k \in target /\ obj'[d][k].ino = seen[d][p].ino
      BY <1>4, <3>2
    <3>4. \A i \in target : i = k
      BY <1>3, <1>4, <3>2 DEF PresentOk
    <3> QED BY <2>1, <2>5, <3>1, <3>3, <3>4
  <2>4. CASE links[d][p] = None
    <3>1. seen[d][p] # None => ~NoneAt(d, p)
      BY <1>3, <2>4 DEF LinksOk
    <3> HIDE DEF at
    <3>2. seen[d][p] = None => at = {}
      BY <2>2
    <3>3. seen[d][p] # None => at # {}
      BY <2>1, <3>1
    <3> QED BY <2>2, <2>4, <2>5, <3>2, <3>3 DEF at
  <2> QED BY <2>3, <2>4
<1>8. CopiesFound'
  <2>1. ASSUME NEW d \in Disks, NEW e \in Disks, NEW i \in DOMAIN obj'[d], i[1] = "new",
               HashedOn(e, obj[d][i].stamp)
        PROVE  obj'[d][i].st = "REP"
    <3>1. obj'[d][i] = obj[d][i] /\ i \in DOMAIN obj[d]
      BY <1>4
    <3>2. CopyOf(obj[d][i])
      BY <1>3, <2>1, <3>1 DEF CopiesOk
    <3> QED BY <2>1, <3>1, <3>2 DEF CopyOf
  <2>2. ASSUME NEW d \in Disks, NEW e \in Disks, NEW i \in DOMAIN obj'[d], i[1] = "new",
               {j \in DOMAIN before'[e] : before'[e][j].stamp = obj'[d][i].stamp} # {},
               \A j \in {j \in DOMAIN before'[e] : before'[e][j].stamp = obj'[d][i].stamp} :
                 before'[e][j].st = "BLK"
        PROVE  obj'[d][i].st = "REP"
    <3>1. obj'[d][i] = obj[d][i] /\ before' = before
      BY <1>2, <1>4
    <3>2. HashedOn(e, obj[d][i].stamp)
      BY <2>2, <3>1 DEF HashedOn
    <3> QED BY <2>1, <2>2, <3>2
  <2> QED BY <2>2 DEF CopiesFound
<1>9. StartInv' /\ phase' # "scan"
  BY <1>2 DEF StartInv
<1> QED BY <1>5, <1>6, <1>7, <1>8, <1>9 DEF FInv

-----------------------------------------------------------------------------
(* The theorems                                                            *)

LEMMA NextFInv == ASSUME FInv, [Next]_vars PROVE FInv'
<1>1. CASE User
  BY <1>1, UserKeeps
<1>2. CASE Start
  BY <1>2, StartKeeps
<1>3. CASE Finish
  BY <1>3, FinishKeeps
<1>4. ASSUME NEW d \in Disks, Visit(d) PROVE FInv'
  BY <1>4, VisitKeeps
<1>5. ASSUME NEW d \in Disks, SearchCopy(d) PROVE FInv'
  <2>1. Scanning
    BY <1>5 DEF FInv, Scanning, SearchCopy
  <2>2. Scanning' /\ phase' = "scan"
    BY <1>5, <2>1, SearchCopyKeeps
  <2> QED BY <2>2, StepKeeps
<1>6. ASSUME NEW d \in Disks, CheckCopy(d) PROVE FInv'
  <2>1. Scanning
    BY <1>6 DEF FInv, Scanning, CheckCopy
  <2>2. Scanning' /\ phase' = "scan"
    BY <1>6, <2>1, CheckCopyKeeps
  <2> QED BY <2>2, StepKeeps
<1>7. ASSUME NEW d \in Disks, Insert(d) PROVE FInv'
  <2>1. Scanning
    BY <1>7 DEF FInv, Scanning, Insert
  <2>2. Scanning' /\ phase' = "scan"
    BY <1>7, <2>1, InsertKeeps
  <2> QED BY <2>2, StepKeeps
<1>8. CASE UNCHANGED vars
  <2>1. UNCHANGED <<fs, ops, changed, persistent, phase, obj, links, inodeset, stampset, todo, th, seen, before>>
    BY <1>8 DEF vars, userVars, sets
  <2>2. ScanTypes'
    BY <2>1 DEF FInv, ScanTypes
  <2>4. StartInv'
    BY <2>1 DEF FInv, StartInv
  <2>5. SetsConsistent'
    BY <2>1 DEF FInv, SetsConsistent
  <2>6. SeenIsRecorded'
    BY <2>1 DEF FInv, SeenIsRecorded
  <2>7. CopiesFound'
    BY <2>1 DEF FInv, CopiesFound
  <2>3. ASSUME NEW d \in Disks, phase = "scan"
        PROVE  DiskOk(d)' /\ CopiesOk(d)' /\ SearchOk(d)' /\ SeenNow(d)'
    <3>1. Scanning /\ SamePlace(d) /\ Grows
      BY <2>1, <2>3 DEF FInv, Scanning, SamePlace, Grows
    <3> QED BY <2>1, <3>1, OtherDisk
  <2> QED BY <2>1, <2>2, <2>3, <2>4, <2>5, <2>6, <2>7 DEF FInv
<1> QED BY <1>1, <1>2, <1>3, <1>4, <1>5, <1>6, <1>7, <1>8 DEF Next

THEOREM FInvAlways == Spec => []FInv
BY InitFInv, NextFInv, PTL DEF Spec

(* The names in use: every object searched exists, and its fields have     *)
(* their types, whatever the user does during the scan.                    *)
THEOREM ScanTypeCorrect == Spec => []TypeOK
<1>1. FInv => TypeOK
  BY PathsCount DEF FInv, ScanTypes, TypeOK, Obj, Times, Thread
<1> QED BY <1>1, FInvAlways, PTL

(* A thread looks without the lock at a file of another disk: no disk      *)
(* frees its objects before all the threads are done.                      *)
THEOREM SourcesAreAlive == Spec => []SourceAlive
<1>1. FInv => SourceAlive
  BY DEF FInv, SearchOk, SourceAlive
<1> QED BY <1>1, FInvAlways, PTL

(* The objects left agree with the sets they are searched by, and the scan *)
(* aborts only if the user changed the files meanwhile.                    *)
THEOREM ScanLeavesSets == Spec => []SetsConsistent
<1>1. FInv => SetsConsistent
  BY DEF FInv
<1> QED BY <1>1, FInvAlways, PTL

(* Every path seen is recorded, as its file or as a hardlink to it, and    *)
(* nothing else is.                                                        *)
THEOREM ScanRecordsSeen == Spec => []SeenIsRecorded
<1>1. FInv => SeenIsRecorded
  BY DEF FInv
<1> QED BY <1>1, FInvAlways, PTL

(* The copy of a file whose like are hashed gets the hash, whatever the    *)
(* order of the threads.                                                   *)
THEOREM ScanFindsCopies == Spec => []CopiesFound
<1>1. FInv => CopiesFound
  BY DEF FInv
<1> QED BY <1>1, FInvAlways, PTL

=============================================================================
