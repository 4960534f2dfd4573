------------------------ MODULE ContentStoreProofs ------------------------
(***************************************************************************)
(* Proofs about the copies of the content file, for any number of copies,  *)
(* saves and crashes.  The argument is about the order: the copies are     *)
(* renamed from the first on, one directory sync at a time, so that a      *)
(* present copy is never newer than one before it, whatever crash comes.   *)
(***************************************************************************)
EXTENDS ContentStore, WellFoundedInduction, TLAPS

-----------------------------------------------------------------------------
(* The inductive invariant                                                 *)

(* The name of a copy changes on the disk only between its rename and the  *)
(* sync of its directory, and never before the sync of its data.           *)
PlaceInv ==
    /\ unsafe = {}
    /\ \A c \in Copies : file[c] # disk[c] => pc = "syncdir" /\ c = index
    /\ CopiesValid

(* The .tmp file of a copy still to rename is synced and verified.         *)
Prepared(c) == c \in synced /\ tmp[c] = mem

SaveInv ==
    /\ mem # Bad /\ pc # "refused"
    /\ pc \in {"open", "write", "verify", "rename", "syncdir", "run"} => mem # Missing
    /\ pc = "write" => \A c \in Copies : c < index => c \in synced
    /\ pc = "verify" => synced = Copies /\ index = 1
    /\ pc = "rename" => \A c \in Copies : c >= index => Prepared(c)
    /\ pc = "syncdir" => \A c \in Copies : c > index => Prepared(c)

(* No copy present is newer than one present before it, nor than the state *)
(* in memory of a run; the copies already renamed are that state.          *)
Ordered(f) ==
    \A c, d \in Copies : c < d /\ f[c] # Missing /\ f[d] # Missing => f[d] <= f[c]

OrderInv ==
    /\ Ordered(file) /\ Ordered(disk)
    /\ mem <= last
    /\ \A c \in Copies : file[c] <= last /\ disk[c] <= last
    /\ pc # "off" => \A c \in Copies : file[c] <= mem /\ disk[c] <= mem
    /\ pc = "rename" => \A c \in Copies : c < index => file[c] = mem
    /\ pc = "syncdir" => \A c \in Copies : c <= index => file[c] = mem

(* A run goes on without writing the copies only if all are present and of *)
(* the size of the first one, the one loaded.                              *)
Alike ==
    /\ file[1] = mem
    /\ \A c \in Copies : file[c] # Missing /\ size[file[c]] = size[mem]

ParityInv ==
    /\ used <= last
    /\ pc # "off" /\ mem # Missing => mem >= used \/ size[mem] = size[used]
    /\ pc = "read" /\ ~needWrite /\ mem # Missing => Alike
    /\ pc = "run" => Alike
    /\ OlderCopiesLookTheSame

IInv ==
    /\ TypeOK
    /\ PlaceInv /\ SaveInv /\ OrderInv /\ ParityInv

-----------------------------------------------------------------------------
(* The first copy present                                                  *)

LEMMA FirstPresent ==
    ASSUME Present(file) # {}
    PROVE  First(file) \in Present(file) /\ \A d \in Present(file) : First(file) <= d
<1>1. Present(file) \in SUBSET Nat
  BY StoreAssumption DEF Present, Copies
<1>2. \E c \in Present(file) : \A d \in Present(file) : c <= d
  <2>1. PICK c \in Present(file) : \A d \in Present(file) : <<d, c>> \notin OpToRel(<, Nat)
    BY <1>1, NatLessThanWellFounded, WFMin
  <2>2. \A d \in Present(file) : d < c => <<d, c>> \in OpToRel(<, Nat)
    BY <1>1 DEF OpToRel
  <2>3. c \in Nat /\ \A d \in Present(file) : d \in Nat /\ ~(d < c)
    BY <1>1, <2>1, <2>2
  <2>4. \A d \in Present(file) : c <= d
    BY <2>3
  <2> QED BY <2>4
<1> QED BY <1>2 DEF First

LEMMA InitIInv == Init => IInv
<1> SUFFICES ASSUME Init PROVE IInv
  OBVIOUS
<1>0. PICK v \in {Missing, 1} :
         /\ file = [c \in Copies |-> v] /\ disk = file
         /\ mem = v /\ last = v /\ used = v
  BY DEF Init
<1>1. TypeOK
  <2>1. size \in [Versions -> 1 .. SizeMax]
    BY StoreAssumption DEF Init, Versions
  <2>2. v \in Content /\ v \in 0 .. MaxVersion
    BY StoreAssumption DEF Missing, Content, Versions
  <2>3. 1 \in Copies /\ Missing \in Content
    BY StoreAssumption DEF Copies, Content
  <2>4. file \in [Copies -> Content] /\ disk \in [Copies -> Content]
    BY <1>0, <2>2
  <2>5. tmp \in [Copies -> Content] /\ crashes \in 0 .. MaxCrash
    BY <2>3, StoreAssumption DEF Init
  <2> QED BY <1>0, <2>1, <2>2, <2>3, <2>4, <2>5 DEF Init, TypeOK
<1>3. PlaceInv /\ SaveInv
  BY <1>0 DEF Init, PlaceInv, SaveInv, CopiesValid, Missing, Bad
<1>4. OrderInv
  BY <1>0 DEF Init, OrderInv, Ordered, Missing
<1>5. ParityInv
  BY <1>0, StoreAssumption DEF Init, ParityInv, OlderCopiesLookTheSame, Missing
<1> QED BY <1>1, <1>3, <1>4, <1>5 DEF IInv

LEMMA ContentType ==
    \A v \in Content : v \in Int /\ v <= MaxVersion /\ (v # Missing /\ v # Bad => v \in Versions /\ v > 0)
BY StoreAssumption DEF Content, Versions, Missing, Bad

LEMMA IndexType ==
    /\ 1 \in Copies /\ CopyMax \in Copies
    /\ \A c \in Copies : c \in Int /\ c >= 1 /\ c <= CopyMax
    /\ \A c \in Copies : c # CopyMax => c + 1 \in Copies
BY StoreAssumption DEF Copies

LEMMA LooksFrame ==
    /\ OlderCopiesLookTheSame /\ UNCHANGED <<size, file, disk, used>> => OlderCopiesLookTheSame'
    /\ Alike /\ UNCHANGED <<size, file, mem>> => Alike'
BY DEF OlderCopiesLookTheSame, Alike

-----------------------------------------------------------------------------
(* The steps of a run                                                      *)

(* The copy loaded is the first present, which is the newest; with         *)
(* different sizes, copies of one size are the same.                       *)
LEMMA ReadIInv == ASSUME IInv, Read PROVE IInv'
<1> USE DEF copyVars, memVars
<1>0. /\ pc = "off" /\ mem' \in Content /\ needWrite' \in BOOLEAN /\ pc' \in {"refused", "read"}
      /\ UNCHANGED <<size, copyVars, index, final, last, used, crashes>>
      /\ pc' = "refused" => mem' = Bad /\ Present(file) # {} /\ mem' = file[First(file)]
      /\ Present(file) = {} => mem' = Missing
      /\ Present(file) # {} =>
           /\ mem' = file[First(file)]
           /\ needWrite' = (\E c \in Copies : file[c] = Missing \/ size[file[c]] # size[file[First(file)]])
  <2>1. file[First(file)] \in Content \/ Present(file) = {}
    BY FirstPresent DEF IInv, TypeOK, Present
  <2>2. Missing \in Content
    BY DEF Content
  <2>3. (CopyMax > 1) \in BOOLEAN
    OBVIOUS
  <2> QED BY <2>1, <2>2, <2>3 DEF Read
<1>1. TypeOK'
  BY <1>0 DEF IInv, TypeOK
<1>2. /\ \A c \in Copies : file[c] \in Content /\ file[c] # Bad /\ disk[c] = file[c]
      /\ \A c \in Copies : file[c] <= last
  BY <1>0 DEF IInv, TypeOK, PlaceInv, CopiesValid, OrderInv
<1>3. Present(file) # {} => First(file) \in Copies /\ file[First(file)] # Missing /\ file[First(file)] # Bad
  BY <1>2, FirstPresent DEF Present
<1>4. mem' # Bad /\ pc' = "read" /\ mem' <= last
  <2>1. CASE Present(file) = {}
    BY <1>0, <2>1 DEF IInv, TypeOK, Missing, Bad
  <2>2. CASE Present(file) # {}
    BY <1>0, <1>2, <1>3, <2>2
  <2> QED BY <2>1, <2>2
<1>5. \A c \in Copies : file[c] <= mem'
  <2>1. CASE Present(file) = {}
    BY <1>0, <2>1 DEF Present, Missing
  <2>2. CASE Present(file) # {}
    <3> TAKE c \in Copies
    <3>1. CASE file[c] = Missing
      <4>1. mem' \in Int /\ mem' > 0
        BY <1>0, <1>2, <1>3, <2>2, ContentType
      <4> QED BY <3>1, <4>1 DEF Missing
    <3>2. CASE file[c] # Missing
      <4>1. c \in Present(file) /\ First(file) <= c /\ First(file) \in Copies
        BY <1>3, <2>2, <3>2, FirstPresent DEF Present
      <4>2. CASE First(file) = c
        <5>1. file[c] \in Int /\ mem' = file[c]
          BY <1>0, <1>2, <2>2, <4>2, ContentType
        <5> QED BY <5>1
      <4>3. CASE First(file) # c
        <5>1. First(file) < c
          BY <4>1, <4>3, StoreAssumption DEF Copies
        <5> QED BY <1>0, <1>3, <2>2, <3>2, <4>1, <5>1 DEF IInv, OrderInv, Ordered
      <4> QED BY <4>2, <4>3
    <3> QED BY <3>1, <3>2
  <2> QED BY <2>1, <2>2
<1>6. PlaceInv'
  BY <1>0, <1>4 DEF IInv, PlaceInv, CopiesValid
<1>7. SaveInv'
  BY <1>4 DEF SaveInv
<1>8. OrderInv'
  BY <1>0, <1>2, <1>4, <1>5 DEF IInv, OrderInv, Ordered
<1>9. ParityInv'
  <2>1. ParityInv
    BY DEF IInv
  <2>2. ASSUME mem' # Missing
        PROVE  (mem' >= used \/ size[mem'] = size[used]) /\ (~needWrite' => Alike')
    <3>1. Present(file) # {} /\ mem' = file[First(file)] /\ First(file) \in Copies
      BY <1>0, <1>3, <2>2
    <3>2. mem' >= used \/ size[mem'] = size[used]
      BY <2>1, <2>2, <3>1 DEF ParityInv, OlderCopiesLookTheSame
    <3>3. ASSUME ~needWrite' PROVE Alike'
      <4>1. \A c \in Copies : file[c] # Missing /\ size[file[c]] = size[file[First(file)]]
        BY <1>0, <3>1, <3>3
      <4>2. First(file) <= 1
        BY <4>1, <3>1, FirstPresent, IndexType DEF Present
      <4>3. First(file) = 1
        BY <3>1, <4>2, IndexType
      <4> QED BY <1>0, <3>1, <4>1, <4>3 DEF Alike
    <3> QED BY <3>2, <3>3
  <2>3. OlderCopiesLookTheSame'
    BY <1>0, <2>1, LooksFrame DEF ParityInv
  <2> QED BY <1>0, <1>4, <2>1, <2>2, <2>3 DEF ParityInv
<1> QED BY <1>1, <1>6, <1>7, <1>8, <1>9, <1>0 DEF IInv

(* A new state is after all the copies.                                    *)
LEMMA ScanSaveIInv == ASSUME IInv, Scan \/ Save PROVE IInv'
<1> USE DEF copyVars, memVars
<1>0. /\ pc \in {"read", "run"} /\ pc' \in {"open", "run"}
      /\ UNCHANGED <<size, copyVars, used, crashes>>
      /\ \/ last < MaxVersion /\ last' = last + 1 /\ mem' = last + 1 /\ pc' = "open"
         \/ /\ UNCHANGED <<mem, last, needWrite>> /\ mem # Missing /\ pc = "read"
            /\ pc' = IF needWrite THEN "open" ELSE "run"
  BY DEF Scan, Save
<1>1. TypeOK'
  <2>1. last' \in 0 .. MaxVersion /\ mem' \in Content
    BY <1>0, StoreAssumption DEF IInv, TypeOK, Content, Versions
  <2>2. index' \in Copies /\ final' \in BOOLEAN /\ needWrite' \in BOOLEAN
    <3>1. 1 \in Copies
      BY StoreAssumption DEF Copies
    <3> QED BY <3>1 DEF Scan, Save, IInv, TypeOK
  <2> QED BY <1>0, <2>1, <2>2 DEF IInv, TypeOK
<1>2. /\ mem \in Int /\ last \in Nat /\ used \in Nat
      /\ \A c \in Copies : file[c] \in Int /\ disk[c] \in Int
  BY ContentType DEF IInv, TypeOK
<1>3. PlaceInv'
  BY <1>0 DEF IInv, PlaceInv, CopiesValid
<1>4. SaveInv'
  BY <1>0, <1>2 DEF IInv, SaveInv, Missing, Bad
<1>5. OrderInv'
  BY <1>0, <1>2 DEF IInv, OrderInv, Ordered
<1>6. ParityInv'
  <2>1. ParityInv /\ OlderCopiesLookTheSame'
    BY <1>0, LooksFrame DEF IInv, ParityInv
  <2>2. pc' = "run" => Alike /\ UNCHANGED <<size, file, mem>>
    BY <1>0, <2>1 DEF ParityInv
  <2>3. used <= last' /\ (mem' # Missing => mem' >= used \/ size[mem'] = size[used])
    BY <1>0, <1>2, <2>1 DEF ParityInv
  <2> QED BY <1>0, <2>1, <2>2, <2>3, LooksFrame DEF ParityInv
<1> QED BY <1>0, <1>1, <1>3, <1>4, <1>5, <1>6 DEF IInv

-----------------------------------------------------------------------------
(* The steps of state_write                                                *)

LEMMA PrepareIInv ==
    ASSUME IInv, Open \/ (\E c \in Copies : WriteTmp(c)) \/ SyncTmp PROVE IInv'
<1> USE DEF copyVars, memVars
<1>0. UNCHANGED <<size, file, disk, unsafe, mem, needWrite, final, last, used, crashes>>
  BY DEF Open, WriteTmp, SyncTmp
<1>1. /\ pc \in {"open", "write"} /\ pc' \in {"open", "write", "verify"}
      /\ tmp' \in [Copies -> Content] /\ synced' \subseteq Copies /\ index' \in Copies
  <2>1. CASE Open
    <3>1. Missing \in Content
      BY DEF Content
    <3> QED BY <2>1, <3>1, IndexType DEF Open, IInv, TypeOK
  <2>2. CASE \E c \in Copies : WriteTmp(c)
    <3>1. PICK c \in Copies, v \in {mem, Bad} : WriteTmp(c) /\ tmp' = [tmp EXCEPT ![c] = v]
      BY <2>2 DEF WriteTmp
    <3>2. v \in Content
      BY DEF IInv, TypeOK, Content
    <3> QED BY <3>1, <3>2 DEF WriteTmp, IInv, TypeOK
  <2>3. CASE SyncTmp
    BY <2>3, IndexType DEF SyncTmp, IInv, TypeOK
  <2> QED BY <2>1, <2>2, <2>3
<1>2. TypeOK'
  BY <1>0, <1>1 DEF IInv, TypeOK
<1>3. PlaceInv'
  BY <1>0, <1>1 DEF IInv, PlaceInv, CopiesValid
<1>4. SaveInv'
  <2>1. pc' = "write" => \A c \in Copies : c < index' => c \in synced'
    <3>1. CASE Open
      BY <3>1, IndexType DEF Open
    <3>2. CASE \E c \in Copies : WriteTmp(c)
      BY <3>2 DEF WriteTmp, IInv, SaveInv
    <3>3. CASE SyncTmp
      BY <3>3, IndexType DEF SyncTmp, IInv, TypeOK, SaveInv
    <3> QED BY <3>1, <3>2, <3>3
  <2>2. pc' = "verify" => synced' = Copies /\ index' = 1
    <3>1. CASE Open \/ \E c \in Copies : WriteTmp(c)
      BY <1>1, <3>1 DEF Open, WriteTmp
    <3>2. CASE SyncTmp
      <4>1. ASSUME pc' = "verify", NEW c \in Copies PROVE c \in synced'
        BY <3>2, <4>1, IndexType DEF SyncTmp, IInv, TypeOK, SaveInv
      <4>2. pc' = "verify" => index' = 1
        BY <3>2 DEF SyncTmp
      <4> QED BY <1>1, <4>1, <4>2
    <3>3. ASSUME pc' = "verify" PROVE SyncTmp
      BY <1>1, <3>3 DEF Open, WriteTmp, SyncTmp
    <3> QED BY <3>1, <3>2, <3>3
  <2> QED BY <1>0, <1>1, <2>1, <2>2 DEF IInv, SaveInv
<1>5. OrderInv'
  BY <1>0, <1>1 DEF IInv, OrderInv, Ordered
<1>6. ParityInv'
  BY <1>0, <1>1, LooksFrame DEF IInv, ParityInv
<1> QED BY <1>0, <1>2, <1>3, <1>4, <1>5, <1>6 DEF IInv

LEMMA VerifyIInv == ASSUME IInv, Verify PROVE IInv'
<1> USE DEF copyVars, memVars
<1>0. /\ pc = "verify" /\ pc' \in {"exit", "rename"}
      /\ pc' = "rename" => \A c \in Copies : tmp[c] = mem
      /\ UNCHANGED <<size, copyVars, index, memVars, used, crashes>>
  BY DEF Verify
<1>1. TypeOK'
  BY <1>0 DEF IInv, TypeOK
<1>2. PlaceInv'
  BY <1>0 DEF IInv, PlaceInv, CopiesValid
<1>3. SaveInv'
  BY <1>0 DEF IInv, SaveInv, Prepared
<1>4. OrderInv'
  BY <1>0, IndexType DEF IInv, SaveInv, OrderInv, Ordered
<1>5. ParityInv'
  BY <1>0, LooksFrame DEF IInv, ParityInv
<1> QED BY <1>0, <1>1, <1>2, <1>3, <1>4, <1>5 DEF IInv

(* The copy renamed gets the state in memory, which is after every copy.   *)
LEMMA RenameIInv == ASSUME IInv, Rename PROVE IInv'
<1> USE DEF copyVars, memVars
<1>0. /\ pc = "rename" /\ pc' = "syncdir" /\ index \in Copies
      /\ tmp' = [tmp EXCEPT ![index] = Missing] /\ synced' = synced \ {index}
      /\ UNCHANGED <<size, disk, index, mem, needWrite, final, last, used, crashes>>
      /\ tmp[index] = mem /\ index \in synced /\ mem \in Content /\ mem # Missing /\ mem # Bad
      /\ mem \in Int /\ file' \in [Copies -> Content]
      /\ file'[index] = mem /\ \A c \in Copies : c # index => file'[c] = file[c]
  <2>1. pc = "rename" /\ index \in Copies /\ mem \in Content /\ mem # Missing /\ mem # Bad
    BY DEF Rename, IInv, TypeOK, SaveInv
  <2>2. tmp[index] = mem /\ index \in synced
    BY <2>1, IndexType DEF IInv, SaveInv, Prepared
  <2>3. file' = [file EXCEPT ![index] = mem]
    BY <2>2 DEF Rename
  <2> QED BY <2>1, <2>2, <2>3, ContentType DEF Rename, IInv, TypeOK
<1>1. unsafe' = {}
  BY <1>0 DEF Rename, IInv, PlaceInv
<1>2. TypeOK'
  <2>1. Missing \in Content
    BY DEF Content
  <2>2. tmp' \in [Copies -> Content] /\ synced' \subseteq Copies
    BY <1>0, <2>1 DEF IInv, TypeOK
  <2> QED BY <1>0, <1>1, <2>2 DEF IInv, TypeOK
<1>3. PlaceInv'
  <2>1. \A c \in Copies : c # index => file[c] = disk[c]
    BY <1>0 DEF IInv, PlaceInv
  <2> QED BY <1>0, <1>1, <2>1 DEF IInv, PlaceInv, CopiesValid
<1>4. SaveInv'
  <2>1. ASSUME NEW c \in Copies, c > index PROVE c \in synced' /\ tmp'[c] = mem
    <3>1. c \in synced /\ tmp[c] = mem /\ c # index
      BY <1>0, <2>1, IndexType DEF IInv, SaveInv, Prepared
    <3> QED BY <1>0, <3>1 DEF IInv, TypeOK
  <2> QED BY <1>0, <2>1 DEF IInv, SaveInv, Prepared
<1>5. OrderInv'
  <2>1. \A c \in Copies : file[c] \in Int /\ file[c] <= mem /\ (c < index => file[c] = mem)
    BY <1>0, ContentType DEF IInv, TypeOK, OrderInv
  <2>2. \A c \in Copies : file'[c] \in Int /\ file'[c] <= mem /\ (c <= index => file'[c] = mem)
    BY <1>0, <2>1, IndexType
  <2>3. Ordered(file)'
    <3> SUFFICES ASSUME NEW c \in Copies, NEW d \in Copies, c < d,
                        file'[c] # Missing, file'[d] # Missing
                 PROVE  file'[d] <= file'[c]
      BY DEF Ordered
    <3>1. CASE c <= index
      BY <2>2, <3>1
    <3>2. CASE c > index
      BY <1>0, <3>2, IndexType DEF IInv, OrderInv, Ordered
    <3> QED BY <3>1, <3>2, <1>0, IndexType
  <2>4. mem <= last
    BY DEF IInv, OrderInv
  <2>5. \A c \in Copies : file'[c] <= last
    BY <1>0, <2>2, <2>4 DEF IInv, TypeOK
  <2> QED BY <1>0, <2>2, <2>3, <2>4, <2>5 DEF IInv, OrderInv, Ordered
<1>6. ParityInv'
  <2>1. ParityInv
    BY DEF IInv
  <2>2. mem >= used \/ size[mem] = size[used]
    BY <1>0, <2>1 DEF ParityInv
  <2>3. OlderCopiesLookTheSame'
    BY <1>0, <2>1, <2>2 DEF ParityInv, OlderCopiesLookTheSame
  <2> QED BY <1>0, <2>1, <2>3 DEF ParityInv
<1> QED BY <1>0, <1>2, <1>3, <1>4, <1>5, <1>6 DEF IInv

(* The rename of the copy is on the disk; after the last one all the       *)
(* copies are the state in memory.                                         *)
LEMMA SyncDirIInv == ASSUME IInv, SyncDir PROVE IInv'
<1> USE DEF copyVars, memVars
<1>0. /\ pc = "syncdir" /\ index \in Copies
      /\ UNCHANGED <<size, file, tmp, synced, unsafe, mem, final, last, used, crashes>>
      /\ disk' = [disk EXCEPT ![index] = file[index]]
      /\ \/ index = CopyMax /\ needWrite' = FALSE /\ index' = 1 /\ pc' \in {"exit", "run"}
         \/ index # CopyMax /\ index' = index + 1 /\ pc' = "rename" /\ UNCHANGED needWrite
  BY DEF SyncDir, IInv, TypeOK, PlaceInv
<1>1. \A c \in Copies : disk'[c] = file[c]
  BY <1>0 DEF IInv, TypeOK, PlaceInv
<1>2. TypeOK'
  <2>1. disk' \in [Copies -> Content]
    BY <1>0 DEF IInv, TypeOK
  <2> QED BY <1>0, <2>1, IndexType DEF IInv, TypeOK
<1>3. PlaceInv'
  BY <1>0, <1>1 DEF IInv, PlaceInv, CopiesValid
<1>4. SaveInv'
  <2>1. pc' = "rename" => \A c \in Copies : c >= index' => c > index
    BY <1>0, IndexType
  <2> QED BY <1>0, <2>1 DEF IInv, SaveInv, Prepared
<1>5. OrderInv'
  <2>1. \A c \in Copies : c <= index => file[c] = mem
    BY <1>0 DEF IInv, OrderInv
  <2>2. pc' = "rename" => \A c \in Copies : c < index' => file[c] = mem
    BY <1>0, <2>1, IndexType
  <2> QED BY <1>0, <1>1, <2>2 DEF IInv, OrderInv, Ordered
<1>6. ParityInv'
  <2>1. ParityInv
    BY DEF IInv
  <2>2. OlderCopiesLookTheSame'
    BY <1>0, <1>1, <2>1 DEF ParityInv, OlderCopiesLookTheSame
  <2>3. pc' = "run" => Alike'
    BY <1>0, IndexType DEF IInv, SaveInv, OrderInv, Alike
  <2>4. mem # Missing => mem >= used \/ size[mem] = size[used]
    BY <1>0, <2>1 DEF ParityInv
  <2> QED BY <1>0, <2>1, <2>2, <2>3, <2>4 DEF ParityInv
<1> QED BY <1>0, <1>2, <1>3, <1>4, <1>5, <1>6 DEF IInv

-----------------------------------------------------------------------------
(* The rest of a run, its end and the crashes                              *)

(* The parity is modified with every copy already at the state in memory.  *)
LEMMA TouchParityIInv == ASSUME IInv, TouchParity PROVE IInv'
<1> USE DEF copyVars, memVars
<1>0. /\ pc = "run" /\ used' = mem
      /\ UNCHANGED <<size, copyVars, pc, index, memVars, crashes>>
      /\ mem \in 1 .. MaxVersion /\ mem <= last
  BY ContentType DEF TouchParity, IInv, TypeOK, SaveInv, OrderInv, Versions
<1>1. TypeOK'
  BY <1>0 DEF IInv, TypeOK
<1>2. PlaceInv' /\ SaveInv' /\ OrderInv'
  BY <1>0 DEF IInv, PlaceInv, CopiesValid, SaveInv, Prepared, OrderInv, Ordered
<1>3. ParityInv'
  <2>1. ParityInv /\ Alike /\ Alike'
    BY <1>0, LooksFrame DEF IInv, ParityInv
  <2>2. \A c \in Copies : disk[c] = file[c]
    BY <1>0 DEF IInv, PlaceInv
  <2>3. OlderCopiesLookTheSame'
    BY <1>0, <2>1, <2>2 DEF Alike, OlderCopiesLookTheSame
  <2> QED BY <1>0, <2>1, <2>3 DEF ParityInv
<1> QED BY <1>1, <1>2, <1>3, <1>0 DEF IInv

(* A crash between two renames leaves the names before or after the one in *)
(* progress, in all the copies.                                            *)
LEMMA EndSteps ==
    ASSUME IInv, GiveUp \/ Exit \/ Kill \/ PowerLoss
    PROVE  /\ pc' \in {"off", "exit"} /\ (pc' = "exit" => pc = "run")
           /\ UNCHANGED <<size, mem, last, used>>
           /\ unsafe' = {} /\ synced' \subseteq Copies /\ tmp' \in [Copies -> Content]
           /\ index' \in Copies /\ needWrite' \in BOOLEAN /\ final' \in BOOLEAN
           /\ crashes' \in 0 .. MaxCrash
           /\ file \in [Copies -> Content] /\ disk \in [Copies -> Content]
           /\ file' \in {file, disk} /\ disk' = file'
<1> USE DEF copyVars, memVars
<1>0. /\ unsafe = {} /\ file \in [Copies -> Content] /\ disk \in [Copies -> Content]
      /\ pc # "syncdir" => file = disk
      /\ \A c \in Copies : file[c] # disk[c] => c = index
      /\ crashes \in Nat /\ MaxCrash \in Nat /\ 1 \in Copies
  <2>1. /\ unsafe = {} /\ file \in [Copies -> Content] /\ disk \in [Copies -> Content]
        /\ \A c \in Copies : file[c] # disk[c] => pc = "syncdir" /\ c = index
    BY DEF IInv, PlaceInv, TypeOK
  <2>2. crashes \in Nat /\ MaxCrash \in Nat
    BY StoreAssumption DEF IInv, TypeOK
  <2>3. pc # "syncdir" => file = disk
    BY <2>1
  <2> QED BY <2>1, <2>2, <2>3, IndexType
<1>1. CASE GiveUp
  BY <1>0, <1>1 DEF GiveUp, IInv, TypeOK
<1>2. CASE Exit
  BY <1>0, <1>2 DEF Exit, Gone, IInv, TypeOK
<1>3. CASE Kill
  <2>1. disk' = [c \in Copies |-> file[c]]
    BY <1>0, <1>3 DEF Kill
  <2>2. crashes' \in 0 .. MaxCrash
    BY <1>0, <1>3 DEF Kill
  <2> QED BY <1>0, <1>3, <2>1, <2>2 DEF Kill, Gone, IInv, TypeOK
<1>4. CASE PowerLoss
  <2>1. file' \in [Copies -> Content] /\ \A c \in Copies : file'[c] \in {disk[c], file[c]}
    BY <1>0, <1>4 DEF PowerLoss
  <2>2. file' \in {file, disk}
    <3>1. CASE file'[index] = file[index]
      <4>1. \A c \in Copies : file'[c] = file[c]
        BY <1>0, <2>1, <3>1
      <4> QED BY <1>0, <2>1, <4>1
    <3>2. CASE file'[index] = disk[index]
      <4>1. \A c \in Copies : file'[c] = disk[c]
        BY <1>0, <2>1, <3>2
      <4> QED BY <1>0, <2>1, <4>1
    <3>3. index \in Copies
      BY DEF IInv, TypeOK
    <3> QED BY <2>1, <3>1, <3>2, <3>3
  <2>3. crashes' \in 0 .. MaxCrash
    BY <1>0, <1>4 DEF PowerLoss
  <2> QED BY <1>0, <1>4, <2>2, <2>3 DEF PowerLoss, Gone, IInv, TypeOK
<1> QED BY <1>1, <1>2, <1>3, <1>4

LEMMA EndIInv == ASSUME IInv, GiveUp \/ Exit \/ Kill \/ PowerLoss PROVE IInv'
<1> USE DEF copyVars, memVars
<1>0. file \in [Copies -> Content] /\ disk \in [Copies -> Content]
  BY DEF IInv, TypeOK
<1>1. /\ pc' \in {"off", "exit"} /\ (pc' = "exit" => pc = "run")
      /\ UNCHANGED <<size, mem, last, used>>
      /\ unsafe' = {} /\ synced' \subseteq Copies /\ tmp' \in [Copies -> Content]
      /\ index' \in Copies /\ needWrite' \in BOOLEAN /\ final' \in BOOLEAN
      /\ crashes' \in 0 .. MaxCrash
      /\ file' \in {file, disk} /\ disk' = file'
  BY EndSteps
<1>2. TypeOK'
  BY <1>0, <1>1 DEF IInv, TypeOK
<1>3. PlaceInv'
  BY <1>0, <1>1 DEF IInv, PlaceInv, CopiesValid
<1>4. SaveInv'
  BY <1>1 DEF IInv, SaveInv
<1>5. OrderInv'
  BY <1>0, <1>1 DEF IInv, OrderInv, Ordered
<1>6. ParityInv'
  <2>1. ParityInv
    BY DEF IInv
  <2>2. OlderCopiesLookTheSame'
    BY <1>0, <1>1, <2>1 DEF ParityInv, OlderCopiesLookTheSame
  <2> QED BY <1>1, <2>1, <2>2 DEF ParityInv
<1> QED BY <1>2, <1>3, <1>4, <1>5, <1>6, <1>1 DEF IInv

LEMMA LoseIInv == ASSUME IInv, NEW c \in Copies, Lose(c) PROVE IInv'
<1> USE DEF copyVars, memVars
<1>1. /\ pc = "off" /\ crashes' \in 0 .. MaxCrash
      /\ file' = [file EXCEPT ![c] = Missing] /\ disk' = [disk EXCEPT ![c] = Missing]
      /\ tmp' = [tmp EXCEPT ![c] = Missing]
      /\ synced' \subseteq Copies /\ unsafe' = {}
      /\ UNCHANGED <<size, pc, index, memVars, used>>
      /\ Missing \in Content
  BY StoreAssumption DEF Lose, IInv, TypeOK, PlaceInv, Content
<1>2. /\ \A d \in Copies : file'[d] = IF d = c THEN Missing ELSE file[d]
      /\ \A d \in Copies : disk'[d] = IF d = c THEN Missing ELSE disk[d]
  BY <1>1 DEF IInv, TypeOK
<1>3. TypeOK'
  BY <1>1 DEF IInv, TypeOK
<1>4. PlaceInv'
  BY <1>1, <1>2 DEF IInv, PlaceInv, CopiesValid, Missing, Bad
<1>5. SaveInv'
  BY <1>1 DEF IInv, SaveInv
<1>6. OrderInv'
  <2>1. last >= 0
    BY DEF IInv, TypeOK
  <2> QED BY <1>1, <1>2, <2>1 DEF IInv, OrderInv, Ordered, Missing
<1>7. ParityInv'
  <2>1. ParityInv
    BY DEF IInv
  <2>2. OlderCopiesLookTheSame'
    BY <1>1, <1>2, <2>1 DEF ParityInv, OlderCopiesLookTheSame
  <2> QED BY <1>1, <2>1, <2>2 DEF ParityInv
<1> QED BY <1>1, <1>3, <1>4, <1>5, <1>6, <1>7 DEF IInv

LEMMA StutterIInv == ASSUME IInv, UNCHANGED vars PROVE IInv'
BY DEF vars, copyVars, memVars, IInv, TypeOK, PlaceInv, CopiesValid, SaveInv, Prepared,
       OrderInv, Ordered, ParityInv, Alike, OlderCopiesLookTheSame

LEMMA NextIInv == IInv /\ [Next]_vars => IInv'
BY ReadIInv, ScanSaveIInv, PrepareIInv, VerifyIInv, RenameIInv, SyncDirIInv, TouchParityIInv,
   EndIInv, LoseIInv, StutterIInv
   DEF Next

LEMMA Invariance == Spec => []IInv
BY InitIInv, NextIInv, PTL DEF Spec

-----------------------------------------------------------------------------
(* The refinement of AtomicContent                                         *)

(* The content loaded is the greatest of the copies, which makes it known  *)
(* after a step without looking for the first copy again.                  *)
Newest ==
    /\ Loaded \in Nat
    /\ \A c \in Copies : file[c] \in Nat /\ disk[c] \in Nat /\ file[c] <= Loaded
    /\ Loaded # Missing => \E c \in Copies : file[c] = Loaded
    /\ Loaded \in Survivors

(* A copy on the disk is in place, or its replacement is.                  *)
LEMMA NothingInPlace ==
    ASSUME IInv, \A c \in Copies : file[c] = Missing
    PROVE  \A c \in Copies : disk[c] = Missing
<1> SUFFICES ASSUME NEW c \in Copies, disk[c] # Missing PROVE FALSE
  OBVIOUS
<1>1. pc = "syncdir" /\ c = index
  BY DEF IInv, PlaceInv
<1>2. mem = Missing
  BY <1>1, IndexType DEF IInv, OrderInv
<1> QED BY <1>1, <1>2 DEF IInv, SaveInv

LEMMA LoadedIsNewest == IInv => Newest
<1> SUFFICES ASSUME IInv PROVE Newest
  OBVIOUS
<1>1. \A c \in Copies : file[c] \in Nat /\ disk[c] \in Nat
  <2> TAKE c \in Copies
  <2>1. file[c] \in Content /\ file[c] # Bad /\ disk[c] \in Content /\ disk[c] # Bad
    BY DEF IInv, TypeOK, PlaceInv, CopiesValid
  <2> QED BY <2>1, StoreAssumption DEF Content, Versions, Missing
<1>2. CASE Present(file) = {}
  <2>1. Loaded = Missing /\ \A c \in Copies : file[c] = Missing
    BY <1>2 DEF Loaded, FirstOf, Present
  <2>2. \A c \in Copies : disk[c] = Missing
    BY <2>1, NothingInPlace
  <2>3. Missing \in Survivors
    BY <2>1, <2>2, IndexType DEF Survivors, InPlace
  <2> QED BY <1>1, <2>1, <2>3 DEF Newest, Missing
<1>3. CASE Present(file) # {}
  <2>1. First(file) \in Copies /\ Loaded = file[First(file)] /\ Loaded # Missing
    BY <1>3, FirstPresent DEF Loaded, FirstOf, Present
  <2>2. ASSUME NEW c \in Copies PROVE file[c] <= Loaded
    <3>1. CASE file[c] = Missing
      BY <1>1, <2>1, <3>1 DEF Missing
    <3>2. CASE file[c] # Missing
      <4>1. First(file) <= c
        BY <1>3, <3>2, FirstPresent DEF Present
      <4>2. First(file) < c \/ First(file) = c
        BY <2>1, <4>1, IndexType
      <4> QED BY <1>1, <2>1, <3>2, <4>2 DEF IInv, OrderInv, Ordered
    <3> QED BY <3>1, <3>2
  <2>3. Loaded \in Survivors
    BY <2>1 DEF Survivors, InPlace
  <2> QED BY <1>1, <2>1, <2>2, <2>3 DEF Newest
<1> QED BY <1>2, <1>3

LEMMA LoadedIsNewestNext == IInv' => Newest'
BY LoadedIsNewest, PTL

(* What a run may load is in a copy, or nothing when no copy is on the     *)
(* disk.                                                                   *)
LEMMA SurvivorsAre ==
    \A v : v \in Survivors <=>
        /\ \E c \in Copies : v = file[c] \/ v = disk[c]
        /\ v = Missing => \A c \in Copies : disk[c] = Missing
BY DEF Survivors, InPlace

LEMMA SurvivorsAreNext ==
    \A v : v \in Survivors' <=>
        /\ \E c \in Copies : v = file'[c] \/ v = disk'[c]
        /\ v = Missing => \A c \in Copies : disk'[c] = Missing
BY DEF Survivors, InPlace

LEMMA LoadedFrame ==
    ASSUME UNCHANGED <<file, disk>> PROVE UNCHANGED <<Loaded, Settled, Survivors>>
<1>1. UNCHANGED <<Loaded, Settled>>
  BY DEF Loaded, Settled, FirstOf, Present, First
<1>2. UNCHANGED Survivors
  BY DEF Survivors, InPlace
<1> QED BY <1>1, <1>2

(* What a power loss gives back is what is in place, when the names in     *)
(* place are on the disk.                                                  *)
LEMMA SettledIs == file' = disk' => Settled' = Loaded'
BY DEF Loaded, Settled, FirstOf, Present, First

LEMMA AtomicInit == Init => Atomic!Init
<1> SUFFICES ASSUME Init PROVE Atomic!Init
  OBVIOUS
<1>1. PICK v \in {Missing, 1} :
         file = [c \in Copies |-> v] /\ disk = file /\ mem = v /\ used = v
  BY DEF Init
<1>2. \A c \in Copies : file[c] = v /\ disk[c] = v
  BY <1>1
<1>3. Newest
  BY InitIInv, LoadedIsNewest
<1>4. Loaded = v
  BY <1>2, <1>3, IndexType DEF Newest, Missing
<1>5. Survivors = {v}
  BY <1>2, IndexType, SurvivorsAre
<1>6. Settled = Loaded
  BY <1>1 DEF Settled, Loaded
<1>7. v \in Versions \cup {Missing} /\ size \in [Versions -> Nat]
  BY <1>1, StoreAssumption DEF Init, Versions
<1> QED BY <1>1, <1>4, <1>5, <1>6, <1>7 DEF Atomic!Init, Atomic!Missing, Missing

(* A run loads the content; a change makes a later one.                    *)
LEMMA ReadAtomic == ASSUME IInv, Read PROVE Atomic!Load
<1>1. UNCHANGED <<size, file, disk, used>>
  BY DEF Read, copyVars
<1>2. mem' = Loaded
  BY DEF Read, Loaded, FirstOf
<1> QED BY <1>1, <1>2, LoadedFrame DEF Atomic!Load

LEMMA ChangeAtomic ==
    ASSUME IInv, Scan \/ Save PROVE Atomic!Change \/ UNCHANGED Atomic!vars
<1>1. /\ UNCHANGED <<size, file, disk, used>>
      /\ (last < MaxVersion /\ mem' = last + 1) \/ mem' = mem
  BY DEF Scan, Save, copyVars
<1>2. last \in Nat /\ mem <= last /\ \A c \in Copies : file[c] <= last /\ disk[c] <= last
  BY DEF IInv, TypeOK, OrderInv
<1>3. \A v \in Survivors : v \in Nat /\ v <= last
  BY <1>2, LoadedIsNewest, SurvivorsAre DEF Newest
<1>4. mem \in Int
  BY ContentType DEF IInv, TypeOK
<1>7. used \in Nat /\ used <= last
  BY DEF IInv, TypeOK, ParityInv
<1>5. CASE last < MaxVersion /\ mem' = last + 1
  <2>1. mem' \in Versions /\ \A v \in Survivors \cup {mem, used} : mem' > v
    BY <1>2, <1>3, <1>4, <1>5, <1>7, StoreAssumption DEF Versions
  <2> QED BY <1>1, <2>1, LoadedFrame DEF Atomic!Change
<1>6. CASE mem' = mem
  BY <1>1, <1>6, LoadedFrame DEF Atomic!vars
<1> QED BY <1>1, <1>5, <1>6

(* The rename of any copy: the state in memory is after all the others,    *)
(* and what is on the disk stays.                                          *)
LEMMA RenameAtomic == ASSUME IInv, Rename PROVE Atomic!Save
<1>1. /\ pc = "rename" /\ index \in Copies /\ mem # Missing /\ mem \in Content
      /\ tmp[index] = mem /\ UNCHANGED <<size, disk, mem, used>>
  BY IndexType DEF Rename, memVars, IInv, TypeOK, SaveInv, Prepared
<1>2. file'[index] = mem /\ \A c \in Copies : c # index => file'[c] = file[c]
  BY <1>1 DEF Rename, IInv, TypeOK
<1>3. \A c \in Copies : file[c] = disk[c] /\ file[c] <= mem
  BY <1>1 DEF IInv, PlaceInv, OrderInv
<1>4. Newest' /\ mem \in Nat
  BY RenameIInv, LoadedIsNewestNext, <1>1, <1>2 DEF Newest
<1>5. Loaded' = mem
  <2>1. \A c \in Copies : file'[c] <= mem
    BY <1>2, <1>3, <1>4
  <2>2. mem <= Loaded'
    BY <1>1, <1>2, <1>4 DEF Newest
  <2> QED BY <1>1, <1>4, <2>1, <2>2 DEF Newest, Missing
<1>6. Survivors' = Survivors \cup {mem}
  <2>1. ASSUME NEW v \in Survivors' PROVE v \in Survivors \cup {mem}
    BY <1>1, <1>2, <2>1, SurvivorsAre, SurvivorsAreNext
  <2>2. Survivors \subseteq Survivors'
    BY <1>1, <1>3, SurvivorsAre, SurvivorsAreNext
  <2>3. mem \in Survivors'
    BY <1>1, <1>2, SurvivorsAreNext
  <2> QED BY <2>1, <2>2, <2>3
<1>7. UNCHANGED Settled
  BY <1>1 DEF Settled, FirstOf, Present, First
<1> QED BY <1>1, <1>5, <1>6, <1>7 DEF Atomic!Save, Atomic!Missing, Missing

(* The sync of a directory drops what that copy was.                       *)
LEMMA SyncDirAtomic == ASSUME IInv, SyncDir PROVE Atomic!Settle
<1>1. /\ pc = "syncdir" /\ index \in Copies /\ UNCHANGED <<size, file, mem, used>>
      /\ file[index] = mem /\ mem # Missing
      /\ disk' = [disk EXCEPT ![index] = file[index]]
  BY IndexType DEF SyncDir, memVars, IInv, TypeOK, PlaceInv, SaveInv, OrderInv
<1>2. \A c \in Copies : disk'[c] = file[c]
  BY <1>1 DEF IInv, TypeOK, PlaceInv
<1>3. UNCHANGED Loaded
  BY <1>1 DEF Loaded, FirstOf, Present, First
<1>4. Loaded \in Survivors'
  BY <1>3, SyncDirIInv, LoadedIsNewestNext DEF Newest
<1>5. Survivors' \subseteq Survivors
  BY <1>1, <1>2, SurvivorsAre, SurvivorsAreNext
<1>6. Settled' = Loaded'
  <2>1. disk' = file'
    BY <1>1, <1>2 DEF IInv, TypeOK
  <2> QED BY <2>1, SettledIs
<1> QED BY <1>1, <1>3, <1>4, <1>5, <1>6 DEF Atomic!Settle

(* The parity is modified when the first copy is the state in memory, and  *)
(* the others are of the same size.                                        *)
LEMMA TouchParityAtomic == ASSUME IInv, TouchParity PROVE Atomic!Modify
<1>1. UNCHANGED <<size, file, disk, mem>> /\ used' = mem /\ mem # Missing /\ pc = "run"
  BY DEF TouchParity, copyVars, memVars, IInv, SaveInv
<1>2. Alike /\ \A c \in Copies : file[c] = disk[c] /\ file[c] <= mem
  BY <1>1 DEF IInv, ParityInv, PlaceInv, OrderInv
<1>3. Loaded = mem
  <2>1. Newest /\ mem \in Int
    BY LoadedIsNewest, ContentType DEF IInv, TypeOK
  <2>2. mem <= Loaded /\ Loaded <= mem
    BY <1>1, <1>2, <2>1, IndexType DEF Newest, Alike, Missing
  <2> QED BY <2>1, <2>2 DEF Newest
<1>4. Settled = mem
  <2>1. disk = file
    BY <1>2 DEF IInv, TypeOK
  <2> QED BY <1>3, <2>1 DEF Settled, Loaded
<1>5. \A v \in Survivors : v # Missing /\ size[v] = size[mem]
  BY <1>2, SurvivorsAre DEF Alike
<1> QED BY <1>1, <1>3, <1>4, <1>5, LoadedFrame
        DEF Atomic!Modify, Atomic!Missing, Missing

(* A kill leaves what was in place.                                        *)
LEMMA KillAtomic == ASSUME IInv, Kill PROVE Atomic!Settle
<1>1. UNCHANGED <<size, file, mem, used>> /\ disk' = file'
  <2>1. unsafe = {} /\ file \in [Copies -> Content]
    BY DEF IInv, PlaceInv, TypeOK
  <2>2. disk' = [c \in Copies |-> file[c]]
    BY <2>1 DEF Kill
  <2> QED BY <2>1, <2>2 DEF Kill
<1>2. UNCHANGED Loaded /\ Settled' = Loaded'
  <2>1. UNCHANGED Loaded
    BY <1>1 DEF Loaded, FirstOf, Present, First
  <2> QED BY <1>1, <2>1, SettledIs
<1>3. Loaded \in Survivors'
  BY <1>2, EndIInv, LoadedIsNewestNext DEF Newest
<1>4. Survivors' \subseteq Survivors
  BY <1>1, NothingInPlace, SurvivorsAre, SurvivorsAreNext
<1> QED BY <1>1, <1>2, <1>3, <1>4 DEF Atomic!Settle

(* After a crash every version a run may load is one it could load before, *)
(* and none is later than the one it loads.                                *)
LEMMA FallenBack ==
    ASSUME IInv', disk' = file', Survivors' \subseteq Survivors
    PROVE  /\ Settled' = Loaded' /\ Loaded' \in Survivors'
           /\ Survivors' \subseteq {v \in Survivors : v <= Loaded'}
<1>1. Newest'
  BY LoadedIsNewestNext
<1>2. Settled' = Loaded'
  BY SettledIs
<1>3. \A v \in Survivors' : v <= Loaded'
  BY <1>1, SurvivorsAreNext DEF Newest
<1> QED BY <1>1, <1>2, <1>3 DEF Newest

(* A power loss leaves what was in place or what was on the disk.          *)
LEMMA PowerLossAtomic == ASSUME IInv, PowerLoss PROVE Atomic!PowerLoss
<1>1. UNCHANGED <<size, mem, used>> /\ file' \in {file, disk} /\ disk' = file'
  BY EndSteps
<1>2. Survivors' \subseteq Survivors
  BY <1>1, NothingInPlace, SurvivorsAre, SurvivorsAreNext
<1>3. Loaded' \in {Loaded, Settled}
  <2>1. CASE file' = file
    BY <2>1 DEF Loaded, FirstOf, Present, First
  <2>2. CASE file' = disk
    BY <2>2 DEF Loaded, Settled, FirstOf, Present, First
  <2> QED BY <1>1, <2>1, <2>2
<1> QED BY <1>1, <1>2, <1>3, EndIInv, FallenBack
        DEF Atomic!PowerLoss, Atomic!FallBack

(* The loss of a copy leaves the others.                                   *)
LEMMA LoseAtomic == ASSUME IInv, NEW c \in Copies, Lose(c) PROVE Atomic!LoseCopy
<1>1. /\ UNCHANGED <<size, mem, used>>
      /\ file = disk /\ disk' = file'
      /\ \A d \in Copies : file'[d] = IF d = c THEN Missing ELSE file[d]
  <2>1. pc = "off" /\ file \in [Copies -> Content] /\ disk \in [Copies -> Content]
    BY DEF Lose, IInv, TypeOK
  <2>2. file = disk
    BY <2>1 DEF IInv, PlaceInv
  <2> QED BY <2>1, <2>2 DEF Lose, memVars
<1>2. PICK d \in Copies : file'[d] # Missing
  BY <1>1 DEF Lose
<1>3. Survivors' \subseteq Survivors
  BY <1>1, <1>2, SurvivorsAre, SurvivorsAreNext
<1>4. Loaded' \in Survivors
  BY <1>1, <1>3, LoseIInv, FallenBack
<1> QED BY <1>1, <1>3, <1>4, LoseIInv, FallenBack
        DEF Atomic!LoseCopy, Atomic!FallBack

LEMMA NextAtomic ==
    ASSUME IInv, [Next]_vars
    PROVE  Atomic!Next \/ UNCHANGED Atomic!vars
<1>1. CASE Read
  BY <1>1, ReadAtomic DEF Atomic!Next
<1>2. CASE Scan \/ Save
  BY <1>2, ChangeAtomic DEF Atomic!Next
<1>3. CASE \/ Open \/ (\E c \in Copies : WriteTmp(c)) \/ SyncTmp \/ Verify \/ GiveUp \/ Exit
           \/ UNCHANGED vars
  <2>1. UNCHANGED <<size, file, disk, mem, used>>
    BY <1>3 DEF Open, WriteTmp, SyncTmp, Verify, GiveUp, Exit, vars, copyVars, memVars
  <2> QED BY <2>1, LoadedFrame DEF Atomic!vars
<1>4. CASE Rename
  BY <1>4, RenameAtomic DEF Atomic!Next
<1>5. CASE SyncDir
  BY <1>5, SyncDirAtomic DEF Atomic!Next
<1>6. CASE TouchParity
  BY <1>6, TouchParityAtomic DEF Atomic!Next
<1>7. CASE Kill
  BY <1>7, KillAtomic DEF Atomic!Next
<1>8. CASE PowerLoss
  BY <1>8, PowerLossAtomic DEF Atomic!Next
<1>9. CASE \E c \in Copies : Lose(c)
  BY <1>9, LoseAtomic DEF Atomic!Next
<1> QED BY <1>1, <1>2, <1>3, <1>4, <1>5, <1>6, <1>7, <1>8, <1>9 DEF Next

-----------------------------------------------------------------------------
(* The theorems                                                            *)

(* The types, with the index of the loops of state_write in the list.      *)
THEOREM StoreTypeCorrect == Spec => []TypeOK
<1>1. IInv => TypeOK
  BY DEF IInv
<1> QED BY <1>1, Invariance, PTL

(* No crash and no bad write leaves a damaged copy under its name: only a  *)
(* synced and verified file is renamed.                                    *)
THEOREM CopiesStayValid == Spec => []CopiesValid
<1>1. IInv => CopiesValid
  BY DEF IInv, PlaceInv
<1> QED BY <1>1, Invariance, PTL

(* A run loads the newest of the copies left by any sequence of crashes    *)
(* and of lost disks, also when their sizes are the same.                  *)
THEOREM NewestIsLoaded == Spec => LoadsLatest
<1>1. IInv /\ [Next]_vars =>
        [pc = "off" /\ pc' = "read" => \A c \in Copies : file[c] <= mem']_vars
  <2> SUFFICES ASSUME IInv, [Next]_vars, pc = "off", pc' = "read"
               PROVE  \A c \in Copies : file[c] <= mem'
    OBVIOUS
  <2>1. Read
    BY DEF Next, vars, Scan, Open, WriteTmp, SyncTmp, Verify, Rename, SyncDir, TouchParity,
           Save, GiveUp, Exit, Kill, PowerLoss, Lose, Gone
  <2>2. OrderInv' /\ file' = file
    BY <2>1, ReadIInv DEF IInv, Read, copyVars
  <2> QED BY <2>2 DEF OrderInv
<1> QED BY <1>1, Invariance, PTL DEF Spec, LoadsLatest

(* Whatever the sizes, a copy older than the state the parity was last     *)
(* modified under has the size of its content: state_read writes again all *)
(* the others before the parity is touched.                                *)
THEOREM OlderCopiesHide == Spec => []OlderCopiesLookTheSame
<1>1. IInv => OlderCopiesLookTheSame
  BY DEF IInv, ParityInv
<1> QED BY <1>1, Invariance, PTL

(* Whatever the sizes, the copies behave as one content replaced in a      *)
(* single step, under any kills, power losses and lost disks; the parity   *)
(* is modified only under a content in place that neither a kill nor a     *)
(* power loss can undo.                                                    *)
THEOREM StoreIsAtomic == Spec => ImplementsAtomic
<1>1. IInv /\ [Next]_vars => [Atomic!Next]_(Atomic!vars)
  BY NextAtomic DEF Atomic!vars
<1> QED BY <1>1, AtomicInit, Invariance, PTL DEF Spec, ImplementsAtomic, Atomic!Spec

(* What the atomic content promises the parity: a kill or a power loss     *)
(* never gives back a content older than the one the parity was modified   *)
(* under, only the loss of a copy can, and then the older content has the  *)
(* size of the one lost.                                                   *)
THEOREM AtomicCovers ==
    Atomic!Spec => []Atomic!OlderLookTheSame /\ Atomic!OnlyLossUncovers
<1> DEFINE AInv == /\ Survivors \subseteq Nat /\ mem \in Nat /\ used \in Nat
                   /\ Loaded \in Survivors /\ Settled \in Survivors
                   /\ Loaded <= mem /\ \A v \in Survivors : v <= Loaded
                   /\ mem >= used \/ size[mem] = size[used]
                   /\ Atomic!OlderLookTheSame
<1>1. Atomic!Init => AInv
  BY StoreAssumption DEF Atomic!Init, Atomic!OlderLookTheSame, Versions, Atomic!Missing
<1>2. ASSUME AInv, [Atomic!Next]_(Atomic!vars) PROVE AInv'
  <2> USE <1>2
  <2>1. CASE Atomic!Load
    BY <2>1 DEF Atomic!Load, Atomic!OlderLookTheSame
  <2>2. CASE Atomic!Change
    BY <2>2, StoreAssumption DEF Atomic!Change, Atomic!OlderLookTheSame, Versions
  <2>3. CASE Atomic!Save
    BY <2>3 DEF Atomic!Save, Atomic!OlderLookTheSame
  <2>4. CASE Atomic!Settle
    BY <2>4 DEF Atomic!Settle, Atomic!OlderLookTheSame
  <2>5. CASE Atomic!Modify
    BY <2>5 DEF Atomic!Modify, Atomic!OlderLookTheSame
  <2>6. CASE Atomic!PowerLoss
    BY <2>6 DEF Atomic!PowerLoss, Atomic!FallBack, Atomic!OlderLookTheSame
  <2>7. CASE Atomic!LoseCopy
    BY <2>7 DEF Atomic!LoseCopy, Atomic!FallBack, Atomic!OlderLookTheSame
  <2>8. CASE UNCHANGED Atomic!vars
    BY <2>8 DEF Atomic!vars, Atomic!OlderLookTheSame
  <2> QED BY <2>1, <2>2, <2>3, <2>4, <2>5, <2>6, <2>7, <2>8 DEF Atomic!Next
<1>3. ASSUME AInv, [Atomic!Next]_(Atomic!vars)
      PROVE  [Atomic!Covered => Atomic!Covered' \/ Atomic!LoseCopy]_(Atomic!vars)
  <2> SUFFICES ASSUME Atomic!Next, Atomic!Covered PROVE Atomic!Covered' \/ Atomic!LoseCopy
    BY <1>3
  <2>1. CASE Atomic!Load \/ Atomic!Change
    BY <2>1 DEF Atomic!Load, Atomic!Change, Atomic!Covered
  <2>2. CASE Atomic!Save
    BY <1>3, <2>2 DEF Atomic!Save, Atomic!Covered
  <2>3. CASE Atomic!Settle
    BY <2>3 DEF Atomic!Settle, Atomic!Covered
  <2>4. CASE Atomic!Modify
    BY <1>3, <2>4 DEF Atomic!Modify, Atomic!Covered
  <2>5. CASE Atomic!PowerLoss
    BY <2>5 DEF Atomic!PowerLoss, Atomic!FallBack, Atomic!Covered
  <2> QED BY <2>1, <2>2, <2>3, <2>4, <2>5 DEF Atomic!Next
<1>4. AInv => Atomic!OlderLookTheSame
  OBVIOUS
<1> QED BY <1>1, <1>2, <1>3, <1>4, PTL DEF Atomic!Spec, Atomic!OnlyLossUncovers

=============================================================================
