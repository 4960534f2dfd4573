------------------------------ MODULE Recovery ------------------------------
(***************************************************************************)
(* "snapraid fix" after a failure of the disks, on the arrays that the     *)
(* syncs of SyncArray leave behind: complete, interrupted in any point, or *)
(* with part of the parity old and part of it new.  At each position the   *)
(* code first takes the parity as updated and then as not updated, with    *)
(* every combination of parities, and has to recognise a wrong result by   *)
(* the hashes or by one parity more than needed (check.c, handle.c).       *)
(*                                                                         *)
(* Files are found by path and stamp.  A block whose data is asked by hash *)
(* may be found elsewhere (import.c, search.c): any data at all may be     *)
(* there, and is verified by hash.                                         *)
(***************************************************************************)
EXTENDS SyncArray

CONSTANT MaxFix     \* bound on the runs of fix

ASSUME RecoveryAssumption == MaxFix \in Nat

VARIABLES
    quarantined,    \* NAME.unrecoverable, the data kept by a previous fix
    outcome,        \* what this fix said of each file
    bads,           \* [position] the blocks of files unreadable or wrong
    fixes,          \* runs of fix begun
    had             \* the data each file had, for each of its stamps

fixVars == <<quarantined, outcome, bads, fixes>>
allVars == <<vars, fixVars, had>>

History(files) == {<<d, n, files[d][n]>> : d \in Disks, n \in Names}

InitRecovery ==
    /\ Init
    /\ quarantined = [d \in Disks |-> [n \in Names |-> NoFile]]
    /\ outcome = [d \in Disks |-> [n \in Names |-> "none"]]
    /\ bads = [p \in Positions |-> {}]
    /\ fixes = 0
    /\ had = History(live)

-----------------------------------------------------------------------------
(* The block of a disk at a position, and the file that fix opens for it:  *)
(* NAME, or else what a previous fix left in NAME.unrecoverable.           *)
Rec(d, p) == saved.blk[d][p]

Held(d, p) ==
    IF live[d][Rec(d, p).file] # NoFile THEN live[d][Rec(d, p).file]
    ELSE quarantined[d][Rec(d, p).file]

FilesAt(p) == {d \in Disks : HasFile(Rec(d, p))}
InvalidAt(p) == {d \in Disks : HasInvalidParity(Rec(d, p))}
Readable(p) == {d \in FilesAt(p) : Held(d, p) # NoFile}

(* The data read; a block missing or not used is a block of zeros.         *)
Read(d, p) == IF d \in Readable(p) THEN Held(d, p).data ELSE Zero

(* A CHG block that can be read is taken as good: its hash is of the past. *)
Bad(p) ==
    {d \in FilesAt(p) :
       \/ d \notin Readable(p)
       \/ HasUpdatedHash(Rec(d, p)) /\ Read(d, p) # Rec(d, p).hash}

UsableAt(p) == {l \in Levels : parity[l][p] # NoParity}

(* raid_data with the levels of R: the data in the parity when they agree  *)
(* with each other and with the blocks not recovered.                      *)
Solve(p, F, base, R) ==
    LET w == parity[CHOOSE l \in R : TRUE][p]
    IN IF (\A l \in R : parity[l][p] = w) /\ (\A d \in Disks \ F : w[d] = base[d])
       THEN w ELSE [d \in Disks |-> IF d \in F THEN Garbage ELSE base[d]]

Solutions(p, F, base) ==
    {<<R, Solve(p, F, base, R)>> :
        R \in {R \in SUBSET UsableAt(p) : Cardinality(R) = Cardinality(F)}}

(* The blocks recovered that have a hash to be checked with.               *)
(* Fault: the hash of the blocks out of date is of their new data.         *)
Hashed_All(p, F, outdated) == {d \in F : HasUpdatedHash(Rec(d, p))}

Hashed(p, F, outdated) == {d \in F \ outdated : HasUpdatedHash(Rec(d, p))}

(* repair_step.  The blocks of F are recovered with any combination of as  *)
(* many parities, and checked with the hashes of those not out of date;    *)
(* without a hash to check, with one parity more.                          *)
(* Fault: without a hash to check, with no parity more.                    *)
RepairStep_NoSpare(p, F, base, outdated) ==
    {s[2] : s \in {x \in Solutions(p, F, base) :
               \A d \in Hashed(p, F, outdated) : x[2][d] = Rec(d, p).hash}}

RepairStep(p, F, base, outdated) ==
    LET hashed == Hashed(p, F, outdated)
    IN {s[2] : s \in {x \in Solutions(p, F, base) :
               IF hashed # {} THEN \A d \in hashed : x[2][d] = Rec(d, p).hash
               ELSE \E l \in UsableAt(p) \ x[1] : parity[l][p] = x[2]}}

(* The hashed blocks whose data is found elsewhere.                        *)
Fetched(p, D, known) ==
    {d \in D : IsUnique(Rec(d, p).hash) /\ Rec(d, p).hash \in known}

With(base, p, D) == [d \in Disks |-> IF d \in D THEN Rec(d, p).hash ELSE base[d]]

(* First strategy, the parity is the one of the current state: only the    *)
(* bad blocks are to recover.  A CHG block recovered has no hash to be     *)
(* checked with: it is out of date if it may be what was there before.     *)
MaybeOld(b, data) == b.st = "CHG" /\ (b.hash = Invalid \/ data = b.hash)

IfUpdated(p, known) ==
    LET fetched == Fetched(p, {d \in Bad(p) : HasUpdatedHash(Rec(d, p))}, known)
        base == With([d \in Disks |-> Read(d, p)], p, fetched)
        F == Bad(p) \ fetched
        solved == IF F = {} THEN {base} ELSE RepairStep(p, F, base, {})
    IN {[data |-> w, old |-> {d \in Bad(p) \ fetched : MaybeOld(Rec(d, p), w[d])}] : w \in solved}

(* Second strategy, the parity is the one of the past state: the blocks    *)
(* with an invalid parity are to recover too, or are known to have been    *)
(* zeros or the data of a hash; only the bad BLK blocks are of interest.   *)
IfOutdated(p, known) ==
    LET invalid == InvalidAt(p)
        zeroed == {d \in invalid : Rec(d, p).st = "CHG" /\ Rec(d, p).hash = Zero}
        fetched == Fetched(p, {d \in invalid : Rec(d, p).st # "REP"}, known)
        base == With([d \in Disks |-> Read(d, p)], p, zeroed \cup fetched)
        blks == Bad(p) \ invalid
        F == (invalid \ (zeroed \cup fetched)) \cup blks
    IN {[data |-> w, old |-> Bad(p) \cap invalid] :
          w \in IF blks # {} /\ invalid # {} THEN RepairStep(p, F, base, invalid) ELSE {}}

(* repair *)
Repairs(p, known) ==
    IF IfUpdated(p, known) # {} THEN IfUpdated(p, known) ELSE IfOutdated(p, known)

-----------------------------------------------------------------------------
(* The positions to process, up to parity_allocated_size.                  *)
(* Fault: one position more.                                               *)
FixRange_Past == 0 .. Blocks({p \in Positions : FilesAt(p) # {}})

FixRange == 0 .. Blocks({p \in Positions : FilesAt(p) # {}}) - 1

(* The disks fail, and are replaced by empty ones, or the user just wants  *)
(* what was there.  state_check extends the parity, without content.       *)
StartFix(lostDisks, lostLevels) ==
    /\ pc = "off" /\ fixes < MaxFix
    /\ fixes = 0 \/ lostDisks \cup lostLevels = {}
    /\ fixes' = fixes + 1
    /\ pc' = "fixing" /\ mem' = saved
    /\ todo' = FixRange
    /\ live' = [d \in Disks |-> [n \in Names |-> IF d \in lostDisks THEN NoFile ELSE live[d][n]]]
    /\ parity' = [l \in Levels |-> [p \in Positions |->
                    IF l \in lostLevels THEN NoParity ELSE parity[l][p]]]
    /\ durable' = parity'
    /\ outcome' = [d \in Disks |-> [n \in Names |-> "none"]]
    /\ bads' = [p \in Positions |-> {}]
    /\ UNCHANGED <<ops, crashes, savedVars, needWrite, unsynced, readVars, pending, errorVars,
                   quarantined, had>>

(* The files of position p once the repair r has written them.  file_post: *)
(* a damaged file is renamed to .unrecoverable, and comes back only when   *)
(* all its blocks are good; the time is set back on the files fixed.       *)
Damaged(p, r, d) == d \in Bad(p) /\ (r = {} \/ \E x \in r : d \in x.old)
FixedAt(p, r, d) == d \in Bad(p) /\ ~Damaged(p, r, d)
Promoted(p, d) == d \in Readable(p) /\ live[d][Rec(d, p).file] = NoFile

Written(p, r, d) ==
    IF d \in Bad(p) /\ r # {}
    THEN [data |-> (CHOOSE x \in r : TRUE).data[d], stamp |-> saved.stamp[d][Rec(d, p).file]]
    ELSE [Held(d, p) EXCEPT !.stamp = IF @ = 0 THEN 0 ELSE saved.stamp[d][Rec(d, p).file]]

FilePost(p, r) ==
    LET set(files, D, new(_)) == [d \in Disks |-> IF d \in D
            THEN [files[d] EXCEPT ![Rec(d, p).file] = new(d)] ELSE files[d]]
        damaged == {d \in FilesAt(p) : Damaged(p, r, d)}
        back == {d \in FilesAt(p) \ damaged : FixedAt(p, r, d) \/ Promoted(p, d)}
    IN
    /\ live' = set(set(live, damaged, LAMBDA d : NoFile), back, LAMBDA d : Written(p, r, d))
    /\ quarantined' = set(set(quarantined, damaged, LAMBDA d : Written(p, r, d)),
                          back, LAMBDA d : NoFile)
    /\ outcome' = set(set(outcome, damaged, LAMBDA d : "unrecoverable"),
                      back, LAMBDA d : "recovered")

(* Fault: only the parity that can be read is rewritten.                   *)
ParityPost_Readable(p, r) ==
    parity' = [l \in Levels |-> [parity[l] EXCEPT ![p] =
        IF r # {} /\ l \in UsableAt(p) /\ FilesAt(p) # {} /\ InvalidAt(p) = {}
        THEN (CHOOSE x \in r : TRUE).data ELSE @]]

(* The parity is rewritten where it is wrong or missing, if used and valid.*)
ParityPost(p, r) ==
    parity' = [l \in Levels |-> [parity[l] EXCEPT ![p] =
        IF r # {} /\ FilesAt(p) # {} /\ InvalidAt(p) = {}
        THEN (CHOOSE x \in r : TRUE).data ELSE @]]

(* One position of state_check_process.                                    *)
FixBlock ==
    /\ pc = "fixing" /\ todo # {}
    /\ LET p == CHOOSE x \in todo : \A y \in todo : x <= y IN
         /\ todo' = todo \ {p}
         /\ \E known \in SUBSET Values :
              \E r \in IF Repairs(p, known) = {} THEN {{}} ELSE {{x} : x \in Repairs(p, known)} :
                 FilePost(p, r) /\ ParityPost(p, r)
         /\ bads' = [bads EXCEPT ![p] = Bad(p)]
    /\ UNCHANGED <<ops, crashes, savedVars, durable, pc, memVars, readVars, pending, errorVars,
                   fixes, had>>

FixEnd ==
    /\ pc = "fixing" /\ todo = {}
    /\ pc' = "fixed"
    /\ UNCHANGED <<userVars, crashes, diskVars, memVars, todo, readVars, pending, errorVars,
                   fixVars, had>>

(* fix again *)
FixExit ==
    /\ pc = "fixed"
    /\ Gone
    /\ UNCHANGED <<userVars, crashes, savedVars, parity, durable, fixVars, had>>

(* The syncs come first; during a fix the user waits.                      *)
Fix == \/ \E D \in SUBSET Disks, L \in SUBSET Levels : StartFix(D, L)
       \/ FixBlock \/ FixEnd \/ FixExit

NextRecovery ==
    \/ fixes = 0 /\ Next /\ UNCHANGED fixVars /\ had' = had \cup History(live')
    \/ Fix

SpecRecovery == InitRecovery /\ [][NextRecovery]_allVars

-----------------------------------------------------------------------------
RecoveryTypeOK ==
    /\ {live, quarantined} \subseteq
         [Disks -> [Names -> [data : Data \cup {Garbage}, stamp : Stamps]]]
    /\ outcome \in [Disks -> [Names -> {"none", "recovered", "unrecoverable"}]]
    /\ bads \in [Positions -> SUBSET Disks]
    /\ saved \in State /\ parity \in [Levels -> ParityFile]
    /\ fixes \in 0 .. MaxFix /\ todo \subseteq Positions
    /\ pc \in Pcs \cup {"fixing", "fixed"}

(* A file has data that it really had under its time, or that its hash     *)
(* says.                                                                   *)
Genuine(d, n) ==
    \/ <<d, n, live[d][n]>> \in had
    \/ \E p \in Positions : /\ Rec(d, p).file = n /\ HasUpdatedHash(Rec(d, p))
                            /\ Rec(d, p).hash = live[d][n].data

(* A file that fix writes and gives back under its name, with its time, is *)
(* genuine: data of the past, or garbage from a parity out of step, is not *)
(* passed off as the current one, as long as the past hash of its block is *)
(* the one in the parity or unknown.                                       *)
PastKnown(d, p) ==
    Rec(d, p).hash = Invalid \/ \A l \in Levels : durable[l][p] # NoParity =>
        LET data == durable[l][p][d] IN
        \/ data = Rec(d, p).hash
        \/ <<d, Rec(d, p).file, [data |-> data, stamp |-> saved.stamp[d][Rec(d, p).file]]>> \in had

RecoveredIsGenuine ==
    \A d \in Disks, p \in Positions :
        LET n == Rec(d, p).file IN
        d \in bads[p] /\ outcome[d][n] = "recovered" /\ PastKnown(d, p) => Genuine(d, n)

(* A block recorded as synced is recovered when the parities, written      *)
(* together, are not fewer than the blocks lost or unsynced at its         *)
(* position, and hold what the other blocks have now and the lost ones     *)
(* should have, or what they are known to have had before.  A position     *)
(* truncated by a sync that did not save it is not promised.               *)
SyncedBlocksRecovered ==
    pc = "fixed" =>
        \A p \in Positions \ cut :
          LET w == durable[0][p]
              now == \A d \in InvalidAt(p) :
                       IF d \notin bads[p] THEN w[d] = Read(d, p)
                       ELSE Rec(d, p).st = "REP" => w[d] = Rec(d, p).hash
              past == \A d \in InvalidAt(p) :
                        Rec(d, p).st # "REP" /\ Rec(d, p).hash # Invalid => w[d] = Rec(d, p).hash
          IN
          /\ w # NoParity /\ \A l \in Levels : durable[l][p] = w
          /\ Cardinality(bads[p] \cup InvalidAt(p)) <= LevelMax
          /\ now \/ past
          => \A d \in bads[p] : Rec(d, p).st = "BLK" =>
                outcome[d][Rec(d, p).file] = "recovered"

(* After a fix that recovered every file, the positions with a valid       *)
(* parity have it in every level, also in those that were lost.            *)
FixRestoresParity ==
    pc = "fixed" =>
        \A p \in Positions :
          /\ InvalidAt(p) = {}
          /\ \A d \in FilesAt(p) : outcome[d][Rec(d, p).file] # "unrecoverable"
          => HoldsAt(p, parity)

(* "If the block is not filled with 0, we are sure to have restored it to  *)
(* the state after the 'sync'", and the same of a hash that differs        *)
(* (check.c): a file that fix says recovered is genuine.                   *)
RecoveredIsSure ==
    \A d \in Disks, n \in Names : outcome[d][n] = "recovered" => Genuine(d, n)

=============================================================================
