---------------------------- MODULE ContentStore ----------------------------
(***************************************************************************)
(* The copies of the content file (state_read and state_write of state.c)  *)
(* across runs of sync, crashes and lost disks.  A content is a version:   *)
(* a greater one is a later state of the array.  A copy is replaced by     *)
(* writing, syncing and verifying "<content>.tmp" for all the copies, and  *)
(* by renaming one copy at a time, followed by the sync of its directory.  *)
(***************************************************************************)
EXTENDS Integers, FiniteSets

CONSTANTS
    CopyMax,       \* number of copies in state->contentlist
    MaxVersion,    \* bound on the states saved
    MaxCrash,      \* bound on the kills, the power losses and the copies lost
    SizeMax        \* bound on the sizes of a content file

ASSUME StoreAssumption ==
    /\ CopyMax \in Nat \ {0} /\ MaxVersion \in Nat \ {0} /\ MaxCrash \in Nat
    /\ SizeMax \in Nat \ {0}

Copies == 1 .. CopyMax
Versions == 1 .. MaxVersion
Missing == 0
Bad == -1          \* a content truncated or damaged, refused by its CRC
Content == Versions \cup {Missing, Bad}

VARIABLES
    size,      \* [version] size of its content file, the same or not for different ones
    file,      \* [copy] the content under its name, as the system sees it
    disk,      \* [copy] the content under its name after a power loss
    tmp,       \* [copy] the content of the .tmp file
    synced,    \* the copies whose .tmp file is synced
    unsafe,    \* the copies renamed without their data being synced
    pc,
    index,     \* the copy the loops of state_write are at
    mem,       \* the state in memory
    needWrite, \* state->need_write
    final,     \* the state_write in progress is the last one of the run
    last,      \* the last version created
    used,      \* the state under which the parity was modified
    crashes

copyVars == <<file, disk, tmp, synced, unsafe>>
memVars == <<mem, needWrite, final, last>>
vars == <<size, copyVars, pc, index, memVars, used, crashes>>

Init ==
    /\ size \in [Versions -> 1 .. SizeMax]
    /\ \E v \in {Missing, 1} :
         /\ file = [c \in Copies |-> v] /\ disk = file
         /\ mem = v /\ last = v /\ used = v
    /\ tmp = [c \in Copies |-> Missing] /\ synced = {} /\ unsafe = {}
    /\ pc = "off" /\ index = 1
    /\ needWrite = FALSE /\ final = FALSE
    /\ crashes = 0

-----------------------------------------------------------------------------
(* state_read: the first copy present is loaded, and refused if it is      *)
(* damaged.  A missing copy, or one after it of another size, makes all of *)
(* them written again.                                                     *)
Present(names) == {c \in Copies : names[c] # Missing}
First(names) == CHOOSE c \in Present(names) : \A d \in Present(names) : c <= d

(* Fault: copies of different sizes are taken as they are.                 *)
Read_SizesIgnored ==
    /\ pc = "off"
    /\ IF Present(file) = {}
       THEN /\ mem' = Missing
            /\ needWrite' = (CopyMax > 1)
            /\ pc' = "read"
       ELSE /\ mem' = file[First(file)]
            /\ needWrite' = (\E c \in Copies : file[c] = Missing)
            /\ pc' = IF file[First(file)] = Bad THEN "refused" ELSE "read"
    /\ UNCHANGED <<size, copyVars, index, final, last, used, crashes>>

Read ==
    /\ pc = "off"
    /\ IF Present(file) = {}
       THEN /\ mem' = Missing
            /\ needWrite' = (CopyMax > 1)
            /\ pc' = "read"
       ELSE /\ mem' = file[First(file)]
            /\ needWrite' = (\E c \in Copies : \/ file[c] = Missing
                                               \/ size[file[c]] # size[file[First(file)]])
            /\ pc' = IF file[First(file)] = Bad THEN "refused" ELSE "read"
    /\ UNCHANGED <<size, copyVars, index, final, last, used, crashes>>

(* The scan finds changes or not; state_sync saves them first.             *)
Scan ==
    /\ pc = "read"
    /\ index' = 1 /\ final' = FALSE
    /\ \/ /\ last < MaxVersion
          /\ last' = last + 1 /\ mem' = last + 1
          /\ needWrite' = TRUE
          /\ pc' = "open"
       \/ /\ mem # Missing
          /\ pc' = IF needWrite THEN "open" ELSE "run"
          /\ UNCHANGED <<mem, last, needWrite>>
    /\ UNCHANGED <<size, copyVars, used, crashes>>

(* Fault: an off-by-one at the last copy.                                  *)
Open_Past ==
    /\ pc = "open"
    /\ tmp' = [tmp EXCEPT ![index] = Missing]
    /\ synced' = synced \ {index}
    /\ IF index > CopyMax THEN pc' = "write" /\ index' = 1
       ELSE index' = index + 1 /\ UNCHANGED pc
    /\ UNCHANGED <<size, file, disk, unsafe, memVars, used, crashes>>

(* sopen_write after the removal of a stale .tmp file.                     *)
Open ==
    /\ pc = "open"
    /\ tmp' = [tmp EXCEPT ![index] = Missing]
    /\ synced' = synced \ {index}
    /\ IF index = CopyMax THEN pc' = "write" /\ index' = 1
       ELSE index' = index + 1 /\ UNCHANGED pc
    /\ UNCHANGED <<size, file, disk, unsafe, memVars, used, crashes>>

(* state_write_thread of one of the copies, started as soon as its file is *)
(* open: the disk may store bad data.                                      *)
WriteTmp(c) ==
    /\ pc = "write" \/ (pc = "open" /\ c < index)
    /\ tmp[c] = Missing
    /\ \E v \in {mem, Bad} : tmp' = [tmp EXCEPT ![c] = v]
    /\ UNCHANGED <<size, file, disk, synced, unsafe, pc, index, memVars, used, crashes>>

(* The threads are joined in order: sflush, ssync and sclose of the copy.  *)
SyncTmp ==
    /\ pc = "write" /\ tmp[index] # Missing
    /\ synced' = synced \cup {index}
    /\ IF index = CopyMax THEN pc' = "verify" /\ index' = 1
       ELSE index' = index + 1 /\ UNCHANGED pc
    /\ UNCHANGED <<size, file, disk, tmp, unsafe, memVars, used, crashes>>

(* Fault: the copies are not verified.                                     *)
Verify_Skip ==
    /\ pc = "verify"
    /\ pc' = "rename"
    /\ UNCHANGED <<size, copyVars, index, memVars, used, crashes>>

(* state_verify_content: a copy with a wrong CRC ends the process.         *)
Verify ==
    /\ pc = "verify"
    /\ pc' = IF \E c \in Copies : tmp[c] # mem THEN "exit" ELSE "rename"
    /\ UNCHANGED <<size, copyVars, index, memVars, used, crashes>>

(* state_rename_content: renameat of the copy, then fsync of its directory.*)
Rename ==
    /\ pc = "rename"
    /\ file' = [file EXCEPT ![index] = tmp[index]]
    /\ tmp' = [tmp EXCEPT ![index] = Missing]
    /\ unsafe' = IF index \in synced THEN unsafe \ {index} ELSE unsafe \cup {index}
    /\ synced' = synced \ {index}
    /\ pc' = "syncdir"
    /\ UNCHANGED <<size, disk, index, memVars, used, crashes>>

(* Faults: the directories are never synced, or all after the last rename. *)
SyncDir_Never ==
    /\ pc = "syncdir"
    /\ IF index = CopyMax
       THEN /\ needWrite' = FALSE
            /\ index' = 1
            /\ pc' = IF final THEN "exit" ELSE "run"
       ELSE index' = index + 1 /\ pc' = "rename" /\ UNCHANGED needWrite
    /\ UNCHANGED <<size, file, disk, tmp, synced, unsafe, mem, final, last, used, crashes>>

SyncDir_AtEnd ==
    /\ pc = "syncdir"
    /\ IF index = CopyMax
       THEN /\ needWrite' = FALSE
            /\ index' = 1
            /\ disk' = file
            /\ pc' = IF final THEN "exit" ELSE "run"
       ELSE index' = index + 1 /\ pc' = "rename" /\ UNCHANGED <<needWrite, disk>>
    /\ UNCHANGED <<size, file, tmp, synced, unsafe, mem, final, last, used, crashes>>

(* The end of state_write follows the last copy.                           *)
SyncDir ==
    /\ pc = "syncdir"
    /\ disk' = [disk EXCEPT ![index] = IF index \in unsafe THEN Bad ELSE file[index]]
    /\ IF index = CopyMax
       THEN /\ needWrite' = FALSE
            /\ index' = 1
            /\ pc' = IF final THEN "exit" ELSE "run"
       ELSE index' = index + 1 /\ pc' = "rename" /\ UNCHANGED needWrite
    /\ UNCHANGED <<size, file, tmp, synced, unsafe, mem, final, last, used, crashes>>

-----------------------------------------------------------------------------
(* state_sync_process changes the parity of the blocks that the state in   *)
(* memory has as unsynced.                                                 *)
TouchParity ==
    /\ pc = "run"
    /\ used' = mem
    /\ UNCHANGED <<size, copyVars, pc, index, memVars, crashes>>

(* An autosave, or the end of the sync: the state has new synced blocks.   *)
Save ==
    /\ pc = "run" /\ last < MaxVersion
    /\ last' = last + 1 /\ mem' = last + 1
    /\ needWrite' = TRUE
    /\ final' \in BOOLEAN
    /\ pc' = "open"
    /\ UNCHANGED <<size, copyVars, index, used, crashes>>

(* The sync ends without anything to save, or with an error.               *)
GiveUp ==
    /\ pc = "run"
    /\ pc' = "exit"
    /\ UNCHANGED <<size, copyVars, index, memVars, used, crashes>>

Gone == pc' = "off" /\ index' = 1 /\ needWrite' = FALSE /\ final' = FALSE

Exit ==
    /\ pc = "exit"
    /\ Gone
    /\ UNCHANGED <<size, copyVars, mem, last, used, crashes>>

(* Any failure of a system call is an exit() like a kill.  The directories *)
(* are written back by the time another run starts.                        *)
Kill ==
    /\ pc # "off" /\ crashes < MaxCrash
    /\ crashes' = crashes + 1
    /\ Gone
    /\ disk' = [c \in Copies |-> IF c \in unsafe THEN Bad ELSE file[c]]
    /\ UNCHANGED <<size, file, tmp, synced, unsafe, mem, last, used>>

(* Each rename not yet synced is done or not, and each .tmp file not yet   *)
(* synced is damaged or not.                                               *)
PowerLoss ==
    /\ crashes < MaxCrash
    /\ crashes' = crashes + 1
    /\ Gone
    /\ file' \in [Copies -> Content]
    /\ \A c \in Copies : file'[c] \in {disk[c], IF c \in unsafe THEN Bad ELSE file[c]}
    /\ disk' = file'
    /\ tmp' \in [Copies -> Content]
    /\ \A c \in Copies : tmp'[c] \in {tmp[c], IF c \in synced THEN tmp[c] ELSE Bad}
    /\ synced' = {} /\ unsafe' = {}
    /\ UNCHANGED <<size, mem, last, used>>

(* A disk is lost with its copy, another one remains.                      *)
Lose(c) ==
    /\ pc = "off" /\ crashes < MaxCrash
    /\ crashes' = crashes + 1
    /\ \E d \in Copies \ {c} : file[d] # Missing
    /\ file' = [file EXCEPT ![c] = Missing] /\ disk' = [disk EXCEPT ![c] = Missing]
    /\ tmp' = [tmp EXCEPT ![c] = Missing]
    /\ synced' = synced \ {c} /\ unsafe' = unsafe \ {c}
    /\ UNCHANGED <<size, pc, index, memVars, used>>

Next == \/ Read \/ Scan \/ Open \/ (\E c \in Copies : WriteTmp(c)) \/ SyncTmp \/ Verify
        \/ Rename \/ SyncDir \/ TouchParity \/ Save \/ GiveUp \/ Exit
        \/ Kill \/ PowerLoss \/ (\E c \in Copies : Lose(c))

Spec == Init /\ [][Next]_vars

-----------------------------------------------------------------------------
TypeOK ==
    /\ size \in [Versions -> 1 .. SizeMax]
    /\ file \in [Copies -> Content] /\ disk \in [Copies -> Content]
    /\ tmp \in [Copies -> Content]
    /\ synced \subseteq Copies /\ unsafe \subseteq Copies
    /\ pc \in {"off", "read", "refused", "open", "write", "verify", "rename", "syncdir",
               "run", "exit"}
    /\ index \in Copies
    /\ mem \in Content /\ needWrite \in BOOLEAN /\ final \in BOOLEAN
    /\ last \in 0 .. MaxVersion /\ used \in 0 .. MaxVersion
    /\ crashes \in 0 .. MaxCrash

(* "fflush() -> fsync() -> fclose() -> rename() to ensure that even in a   *)
(* system crash event we have one valid copy of the file" (state.c), and   *)
(* the verification: no copy in place is ever damaged by the program.      *)
CopiesValid == \A c \in Copies : file[c] # Bad /\ disk[c] # Bad

(* "parity modifications may start only after the pre-sync content state   *)
(* has been durably published" (state.c): whatever copies are lost, and    *)
(* also after a power loss, the one loaded next is not older than the      *)
(* state the parity was last modified under.  The code does not ensure it: *)
(* a crash between two renames leaves copies of two states, and with equal *)
(* sizes the next run does not write them again before the parity.         *)
CopiesCoverParity ==
    \A c \in Copies : {file[c], disk[c]} \subseteq {Missing} \cup (used .. MaxVersion)

(* "ensure to rewrite all the content files" (state.c): the size of the    *)
(* copies is the only way to miss one that the save of an earlier run left *)
(* behind.  A copy older than the state the parity was last modified under *)
(* has the size of the content of that state.                              *)
OlderCopiesLookTheSame ==
    \A c \in Copies : \A v \in {file[c], disk[c]} \ {Missing} :
        v >= used \/ size[v] = size[used]

(* A run loads the latest of the copies, or makes all of them the same:    *)
(* the copies are renamed in the order they are tried.                     *)
LoadsLatest ==
    [][pc = "off" /\ pc' = "read" => \A c \in Copies : file[c] <= mem']_vars

-----------------------------------------------------------------------------
(* Refinement: the copies are one content replaced in a single step, the   *)
(* rename of the first of them.  A power loss gives back the first copy on *)
(* the disk; with lost disks too, a run may load any copy in place or on   *)
(* the disk, or none when none is on the disk.                             *)
FirstOf(names) == IF Present(names) = {} THEN Missing ELSE names[First(names)]
Loaded == FirstOf(file)
Settled == FirstOf(disk)
InPlace == {file[c] : c \in Copies} \cup {disk[c] : c \in Copies}
Survivors == IF \E c \in Copies : disk[c] # Missing THEN InPlace \ {Missing} ELSE InPlace

Atomic == INSTANCE AtomicContent WITH
    content <- Loaded, settled <- Settled, possible <- Survivors

(* Whatever renames, kills, power losses and lost disks come, the copies   *)
(* behave as one content replaced atomically, and the parity is modified   *)
(* only under a content in place that neither a kill nor a power loss can  *)
(* undo.                                                                   *)
ImplementsAtomic == Atomic!Spec

=============================================================================
