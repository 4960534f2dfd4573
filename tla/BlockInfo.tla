----------------------------- MODULE BlockInfo -----------------------------
(***************************************************************************)
(* The info the content file keeps for each position of the parity: the    *)
(* time of the last verification, and the bad, rehash and justsynced flags *)
(* (infoarr).  The sync writes it, the scrub selects by it the positions   *)
(* to verify, the rehash command marks all of it, and the kind of hash of  *)
(* the blocks of a position depends on it.                                 *)
(*                                                                         *)
(* The content of the blocks is only what its hashes say of it: the kind   *)
(* of hash stored, and a damage of the data or of the parity.  A time is a *)
(* multiple of the granularity of the info.                                *)
(***************************************************************************)
EXTENDS Naturals, FiniteSets, FiniteSetsExt

CONSTANTS
    DiskMax, PosMax,  \* data disks and positions of the parity
    Percents,         \* plans of the user, in units of 1/10000 of the array
    MinAge,           \* minimum age of the blocks to scrub (--older-than)
    MaxRuns,          \* bound on the commands
    MaxKind,          \* bound on the hash kinds
    None              \* info not present

ASSUME InfoAssumption ==
    /\ DiskMax \in Nat \ {0} /\ PosMax \in Nat \ {0}
    /\ Percents \subseteq 0 .. 10000
    /\ MinAge \in Nat /\ MaxRuns \in Nat /\ MaxKind \in Nat \ {0}
    /\ None \notin [time : Nat, bad : BOOLEAN, rehash : BOOLEAN, just : BOOLEAN]

Disks == 1 .. DiskMax
Positions == 1 .. PosMax

VARIABLES
    now,     \* the clock
    runs,    \* commands given
    mem,     \* the state in memory of the command running
    saved,   \* the content file
    wrong,   \* [position] "no", or the "data" of a synced block or the "parity" is damaged
    cmd      \* the command running

vars == <<now, runs, mem, saved, wrong, cmd>>

Idle == [op |-> "none", pos |-> 0, todo |-> {}, error |-> FALSE, limit |-> 0]

Empty == [st |-> "EMPTY", kind |-> 0]

(* found is a history: the positions where the damage was reported.        *)
Init ==
    /\ now = 1 /\ runs = 0
    /\ mem = [info |-> [p \in Positions |-> None], hash |-> 1, prev |-> 0, found |-> {},
              blk |-> [p \in Positions |-> [d \in Disks |-> Empty]]]
    /\ saved = mem
    /\ wrong = [p \in Positions |-> "no"]
    /\ cmd = Idle

-----------------------------------------------------------------------------
(* elem.h                                                                  *)
HasFile(b) == b.st \in {"BLK", "CHG", "REP"}
InvalidParity(b) == b.st \in {"CHG", "REP", "DELETED"}
Any(row, Test(_)) == \E d \in Disks : Test(row[d])
Required(m, p) == Any(m.blk[p], HasFile)
Synced(m, p) == \E d \in Disks : m.blk[p][d].st = "BLK"
Rehashing(m, p) == m.info[p] # None /\ m.info[p].rehash
Expected(m, p) == IF Rehashing(m, p) THEN m.prev ELSE m.hash
IsBad(m, p) == m.info[p] # None /\ m.info[p].bad
SetBad(i) == IF i = None THEN [time |-> 0, bad |-> TRUE, rehash |-> FALSE, just |-> FALSE]
             ELSE [i EXCEPT !.bad = TRUE]
(* Fault: the time is the one of the end of the command.                   *)
Fresh_End(just) == [time |-> now + 1, bad |-> FALSE, rehash |-> FALSE, just |-> just]

Fresh(just) == [time |-> now, bad |-> FALSE, rehash |-> FALSE, just |-> just]

(* state_write: info and deleted blocks of unused positions are cleared,   *)
(* the previous kind of hash is saved only if some position needs it.      *)
Write(m) ==
    [m EXCEPT
      !.info = [p \in Positions |-> IF Required(m, p) THEN m.info[p] ELSE None],
      !.blk = [p \in Positions |-> IF Required(m, p) THEN m.blk[p] ELSE [d \in Disks |-> Empty]],
      !.prev = IF \E p \in Positions : Required(m, p) /\ Rehashing(m, p) THEN @ ELSE 0,
      !.found = {p \in @ : Required(m, p)}]

Save(m) == mem' = Write(m) /\ saved' = Write(m)

-----------------------------------------------------------------------------
(* Between the commands.                                                   *)
Outside == cmd.op = "none"

Tick == Outside /\ now <= runs /\ now' = now + 1 /\ UNCHANGED <<runs, mem, saved, wrong, cmd>>

Damage ==
    /\ Outside
    /\ \E p \in Positions, what \in {"data", "parity"} :
         /\ \A q \in Positions : wrong[q] = "no"
         /\ Synced(saved, p)
         /\ wrong' = [wrong EXCEPT ![p] = what]
    /\ mem' = [mem EXCEPT !.found = {}]
    /\ saved' = [saved EXCEPT !.found = {}]
    /\ UNCHANGED <<now, runs, cmd>>

(* The fix command repairs the files and the parity, and not the info.     *)
Fix ==
    /\ Outside
    /\ \E p \in Positions : wrong[p] # "no"
    /\ wrong' = [p \in Positions |-> "no"]
    /\ UNCHANGED <<now, runs, mem, saved, cmd>>

Run == Outside /\ runs < MaxRuns /\ runs' = runs + 1 /\ UNCHANGED now

(* The rehash command.  A position without info is skipped: the hash of a  *)
(* REP block there stays of the old kind, unmarked.                        *)
Rehash ==
    /\ Run
    /\ saved.prev = 0 /\ saved.hash < MaxKind
    /\ Save([saved EXCEPT
         !.info = [p \in Positions |-> IF @[p] = None THEN None ELSE [@[p] EXCEPT !.rehash = TRUE]],
         !.prev = saved.hash, !.hash = @ + 1])
    /\ UNCHANGED <<wrong, cmd>>

-----------------------------------------------------------------------------
(* The scan of a sync, with at most one change by the user.                *)
(* scan_file_deallocate *)
Deleted(m, p, d) ==
    [m EXCEPT !.blk[p][d] = [st |-> "DELETED", kind |-> IF @.st = "REP" THEN 0 ELSE @.kind]]

(* scan_file_allocate, of a new file or of a copy of one with hashes of    *)
(* kind k, at the first free position of the disk.                         *)
Added(m, p, d, k) ==
    [m EXCEPT !.blk[p][d] = IF k # 0 /\ ~Rehashing(m, p) THEN [st |-> "REP", kind |-> k]
                            ELSE [st |-> "CHG", kind |-> @.kind]]

FirstFree(m, d, p) ==
    /\ ~HasFile(m.blk[p][d])
    /\ \A q \in Positions : q < p => HasFile(m.blk[q][d])

(* file_is_full_hashed_and_stable *)
CopyKinds(m) ==
    {m.blk[x[1]][x[2]].kind : x \in {y \in Positions \X Disks :
        m.blk[y[1]][y[2]].st \in {"BLK", "REP"} /\ ~Rehashing(m, y[1])}}

Scanned(m) ==
    LET held == {x \in Positions \X Disks : HasFile(m.blk[x[1]][x[2]])}
        free == {x \in Positions \X Disks : FirstFree(m, x[2], x[1])}
    IN
    {m} \cup {Deleted(m, x[1], x[2]) : x \in held}
        \cup {Added(m, x[1], x[2], k) : x \in free, k \in CopyKinds(m) \cup {0}}

(* state_hash_process, that hashes the new blocks ahead of the sync, and   *)
(* stops it if the hash of a REP block is not the one of its data.         *)
Refused(m) ==
    \E p \in Positions, d \in Disks :
        m.blk[p][d].st = "REP" /\ m.blk[p][d].kind # Expected(m, p)

Prehashed(m) ==
    [m EXCEPT !.blk = [p \in Positions |-> [d \in Disks |->
        IF m.blk[p][d].st = "CHG" THEN [st |-> "REP", kind |-> Expected(m, p)] ELSE m.blk[p][d]]]]

(* A damage of data goes away with the last file of the position.          *)
Lasting(m) == [p \in Positions |-> IF wrong[p] = "data" /\ ~Synced(m, p) THEN "no" ELSE wrong[p]]

SyncStart ==
    /\ Run
    /\ \E m \in Scanned(saved) : \E n \in {m} \cup (IF Refused(m) THEN {} ELSE {Prehashed(m)}) :
         /\ Save(n)
         /\ wrong' = Lasting(n)
    /\ cmd' = [Idle EXCEPT !.op = "sync"]

-----------------------------------------------------------------------------
(* The loop of state_sync_process.                                         *)
Enabled(p) == Required(mem, p) /\ Any(mem.blk[p], InvalidParity)

(* The hash of a block that is compared with is of another kind.           *)
Mismatch(p, st) == \E d \in Disks : mem.blk[p][d].st = st /\ mem.blk[p][d].kind # Expected(mem, p)
SilentError(p) == Mismatch(p, "BLK") \/ (wrong[p] = "data" /\ Synced(mem, p))

(* The blocks are synced with the hashes of the kind k.                    *)
Processed(p, k) ==
    [d \in Disks |-> LET b == mem.blk[p][d] IN
       IF ~HasFile(b) THEN Empty
       ELSE [st |-> "BLK", kind |-> IF b.st = "CHG" \/ k # Expected(mem, p) THEN k ELSE b.kind]]

Hashed(p) ==
    [d \in Disks |-> IF mem.blk[p][d].st = "CHG" THEN [st |-> "CHG", kind |-> Expected(mem, p)]
                     ELSE mem.blk[p][d]]

Advance(op, err) == cmd' = [cmd EXCEPT !.pos = @ + 1, !.error = @ \/ err]
At(op, p) == cmd.op = op /\ cmd.pos < PosMax /\ p = cmd.pos + 1

Skip(p) ==
    /\ \/ At("sync", p) /\ ~Enabled(p)
       \/ At("scrub", p) /\ p \notin cmd.todo
    /\ Advance(cmd.op, FALSE)
    /\ UNCHANGED <<now, runs, mem, saved, wrong>>

(* A file that cannot be read, or a REP block that is another one, skips   *)
(* the position.  A hardware error marks it as bad.                        *)
SyncError(p) ==
    /\ At("sync", p) /\ Enabled(p)
    /\ \E hw \in BOOLEAN, row \in {mem.blk[p], Hashed(p)} :
         mem' = [mem EXCEPT !.blk[p] = row, !.info[p] = IF hw THEN SetBad(@) ELSE @]
    /\ Advance("sync", TRUE)
    /\ UNCHANGED <<now, runs, saved, wrong>>

(* A silent error marks the position as bad, also when the data is fixed   *)
(* in memory to update the parity, which needs no other error.             *)
(* Fault: the info is the one of a block updated.                          *)
SyncSilent_Fresh(p) ==
    /\ At("sync", p) /\ Enabled(p) /\ SilentError(p)
    /\ \E fixed \in BOOLEAN :
         /\ fixed => ~Mismatch(p, "BLK") /\ ~Mismatch(p, "REP")
         /\ mem' = [mem EXCEPT
              !.blk[p] = IF fixed THEN Processed(p, Expected(mem, p)) ELSE Hashed(p),
              !.info[p] = IF fixed THEN Fresh(TRUE) ELSE SetBad(@), !.found = @ \cup {p}]
    /\ Advance("sync", TRUE)
    /\ UNCHANGED <<now, runs, saved, wrong>>

SyncSilent(p) ==
    /\ At("sync", p) /\ Enabled(p) /\ SilentError(p)
    /\ \E fixed \in BOOLEAN :
         /\ fixed => ~Mismatch(p, "BLK") /\ ~Mismatch(p, "REP")
         /\ mem' = [mem EXCEPT
              !.blk[p] = IF fixed THEN Processed(p, Expected(mem, p)) ELSE Hashed(p),
              !.info[p] = SetBad(@), !.found = @ \cup {p}]
    /\ Advance("sync", TRUE)
    /\ UNCHANGED <<now, runs, saved, wrong>>

(* The parity is updated, and all the hashes of the position get the new   *)
(* kind.  With something unsynced in the content file just saved, as here, *)
(* the update is never avoided.                                            *)
SyncDone(p) ==
    /\ At("sync", p) /\ Enabled(p) /\ ~SilentError(p) /\ ~Mismatch(p, "REP")
    /\ mem' = [mem EXCEPT !.blk[p] = Processed(p, mem.hash), !.info[p] = Fresh(TRUE)]
    /\ wrong' = [wrong EXCEPT ![p] = "no"]
    /\ Advance("sync", FALSE)
    /\ UNCHANGED <<now, runs, saved>>

(* state_sync saves at the end only without errors.  The commands stop     *)
(* early on a signal.                                                      *)
SyncEnd ==
    /\ cmd.op = "sync"
    /\ IF cmd.error THEN mem' = saved /\ UNCHANGED saved ELSE Save(mem)
    /\ cmd' = Idle
    /\ UNCHANGED <<now, runs, wrong>>

-----------------------------------------------------------------------------
(* state_scrub.  count blocks of the info are sorted by time.              *)
Used(m) == {p \in Positions : m.info[p] # None}
MulDiv(a, b, c) == (a * b + c - 1) \div c

(* The blocks not newer than t.                                            *)
Upto(m, t) == Cardinality({p \in Used(m) : m.info[p].time <= t})

(* The walk of the buckets stops at the first one too recent or that does  *)
(* not fit: all the blocks older than time are selected, and last of the   *)
(* ones with this time.                                                    *)
(* Fault: the count of the last bucket is not what is left.                *)
Limits_Full(m, countlimit, recentlimit) ==
    LET times == {m.info[p].time : p \in Used(m)}
        stops == {t \in times : t > recentlimit \/ Upto(m, t) > countlimit}
        t == Min(stops)
        before == Cardinality({p \in Used(m) : m.info[p].time < t})
    IN
    IF stops = {} THEN [time |-> now, last |-> 0]
    ELSE IF t > recentlimit
         THEN [time |-> IF before = 0 THEN 0 ELSE recentlimit, last |-> 0]
    ELSE IF countlimit = 0 THEN [time |-> 0, last |-> 0]
    ELSE [time |-> t, last |-> countlimit]

Limits(m, countlimit, recentlimit) ==
    LET times == {m.info[p].time : p \in Used(m)}
        stops == {t \in times : t > recentlimit \/ Upto(m, t) > countlimit}
        t == Min(stops)
        before == Cardinality({p \in Used(m) : m.info[p].time < t})
    IN
    IF stops = {} THEN [time |-> now, last |-> 0]
    ELSE IF t > recentlimit
         THEN [time |-> IF before = 0 THEN 0 ELSE recentlimit, last |-> 0]
    ELSE IF countlimit = 0 THEN [time |-> 0, last |-> 0]
    ELSE [time |-> t, last |-> countlimit - before]

(* block_is_enabled: the bad blocks in all the plans.                      *)
Bads(m) == {p \in Used(m) : m.info[p].bad}

AutoPlan(m, countlimit, recentlimit) ==
    LET lim == Limits(m, countlimit, recentlimit)
        at == {p \in Used(m) \ Bads(m) : m.info[p].time = lim.time}
    IN
    Bads(m) \cup {p \in Used(m) : m.info[p].time < lim.time}
            \cup {p \in at : Cardinality({q \in at : q <= p}) <= lim.last}

FixedPlans(m) ==
    {Used(m), Bads(m), Bads(m) \cup {p \in Used(m) : m.info[p].just},
     Bads(m) \cup {p \in Used(m) : p % 2 = 1}}

MinOf(a, b) == IF a < b THEN a ELSE b
RecentLimit == IF now > MinAge THEN now - MinAge ELSE 0

(* The number of blocks of a percentage of the array.                      *)
CountLimit(m, c) == MinOf(MulDiv(PosMax, c, 10000), Cardinality(Used(m)))

ScrubStart ==
    /\ Run /\ Used(saved) # {}
    /\ mem' = saved
    /\ \/ \E todo \in FixedPlans(saved) : cmd' = [Idle EXCEPT !.op = "scrub", !.todo = todo]
       \/ \E c \in Percents :
            cmd' = [Idle EXCEPT !.op = "scrub", !.limit = CountLimit(saved, c) + 1,
                      !.todo = AutoPlan(saved, CountLimit(saved, c), RecentLimit)]
    /\ UNCHANGED <<saved, wrong>>

(* A position not synced, or read with soft errors, is left as it is; the  *)
(* errors of the hardware, of data and of parity mark it as bad.           *)
ScrubError(p) ==
    /\ At("scrub", p) /\ p \in cmd.todo
    /\ \E hw \in BOOLEAN : mem' = IF hw THEN [mem EXCEPT !.info[p] = SetBad(@)] ELSE mem
    /\ Advance("scrub", TRUE)
    /\ UNCHANGED <<now, runs, saved, wrong>>

ScrubSilent(p) ==
    /\ At("scrub", p) /\ p \in cmd.todo
    /\ SilentError(p) \/ (wrong[p] = "parity" /\ ~Any(mem.blk[p], InvalidParity))
    /\ mem' = [mem EXCEPT !.info[p] = SetBad(@), !.found = @ \cup {p}]
    /\ Advance("scrub", TRUE)
    /\ UNCHANGED <<now, runs, saved, wrong>>

(* Fault: the hashes keep the kind they had.                               *)
ScrubDone_OldHash(p) ==
    /\ At("scrub", p) /\ p \in cmd.todo
    /\ wrong[p] = "no" /\ ~Mismatch(p, "BLK") /\ ~Mismatch(p, "REP")
    /\ mem' = [mem EXCEPT !.info[p] = Fresh(FALSE)]
    /\ Advance("scrub", FALSE)
    /\ UNCHANGED <<now, runs, saved, wrong>>

(* The position is verified, and its hashes get the new kind.              *)
ScrubDone(p) ==
    /\ At("scrub", p) /\ p \in cmd.todo
    /\ wrong[p] = "no" /\ ~Mismatch(p, "BLK") /\ ~Mismatch(p, "REP")
    /\ mem' = [mem EXCEPT
         !.blk[p] = [d \in Disks |-> IF HasFile(@[d]) /\ Rehashing(mem, p)
                                     THEN [@[d] EXCEPT !.kind = mem.hash] ELSE @[d]],
         !.info[p] = Fresh(FALSE)]
    /\ Advance("scrub", FALSE)
    /\ UNCHANGED <<now, runs, saved, wrong>>

(* The scrub saves at the end also with errors.                            *)
ScrubEnd ==
    /\ cmd.op = "scrub"
    /\ Save(mem)
    /\ cmd' = Idle
    /\ UNCHANGED <<now, runs, wrong>>

Autosave == ~Outside /\ cmd.pos > 0 /\ Save(mem) /\ UNCHANGED <<now, runs, wrong, cmd>>

(* The command ends without saving: a crash, or a fatal error.             *)
Crash == ~Outside /\ mem' = saved /\ cmd' = Idle /\ UNCHANGED <<now, runs, saved, wrong>>

Next ==
    \/ Tick \/ Damage \/ Fix \/ Rehash \/ SyncStart \/ SyncEnd \/ ScrubStart \/ ScrubEnd
    \/ Autosave \/ Crash
    \/ \E p \in Positions : Skip(p) \/ SyncError(p) \/ SyncSilent(p) \/ SyncDone(p)
                            \/ ScrubError(p) \/ ScrubSilent(p) \/ ScrubDone(p)

Spec == Init /\ [][Next]_vars

-----------------------------------------------------------------------------
Infos == [time : 0 .. now, bad : BOOLEAN, rehash : BOOLEAN, just : BOOLEAN]

TypeOK ==
    /\ now \in Nat /\ runs \in 0 .. MaxRuns
    /\ \A m \in {mem, saved} :
         /\ m.hash \in 1 .. MaxKind /\ m.prev \in 0 .. MaxKind - 1 /\ m.found \subseteq Positions
         /\ \A p \in Positions : m.info[p] \in Infos \cup {None}
         /\ \A p \in Positions, d \in Disks :
              m.blk[p][d] \in [st : {"EMPTY", "BLK", "CHG", "REP", "DELETED"}, kind : 0 .. MaxKind]
    /\ wrong \in [Positions -> {"no", "data", "parity"}]
    /\ cmd.op \in {"none", "sync", "scrub"} /\ cmd.pos \in 0 .. PosMax
    /\ cmd.todo \subseteq Positions

(* The content file can be read back, with an info for the synced blocks   *)
(* and the previous kind of hash if marked as needed, and the hashes of    *)
(* the synced blocks are of the kind that the info says: what interrupts a *)
(* migration never leaves a good synced block that looks damaged.          *)
SavedHashesKnown ==
    \A p \in Positions, d \in Disks :
      /\ saved.blk[p][d].st = "BLK" => saved.info[p] # None
      /\ Rehashing(saved, p) => saved.prev # 0
      /\ saved.blk[p][d].st = "BLK" => saved.blk[p][d].kind = Expected(saved, p)

(* "mark all the block for rehashing", and skip only the unused ones       *)
(* (rehash.c): a block not yet synced whose hash is recorded, found in a   *)
(* copy or by the prehash, can be verified by the sync that follows.  The  *)
(* code does not ensure it: a position with only such blocks has no info   *)
(* yet and is skipped too, and the sync takes the block for a changed one. *)
RepHashesKnown ==
    \A p \in Positions, d \in Disks :
        saved.blk[p][d].st = "REP" => saved.blk[p][d].kind = Expected(saved, p)

(* A damage reported and not repaired stays marked as bad, whatever syncs  *)
(* and scrubs follow, so that fix -e and scrub -p bad find it.             *)
BadUntilRepaired ==
    \A m \in {mem, saved} : \A p \in m.found : wrong[p] # "no" => IsBad(m, p)

(* The scrub by percentage selects the oldest first, no more than asked,   *)
(* nothing recent, and as many as there are, counting the bad ones.        *)
OldestFirst ==
    cmd.op = "scrub" /\ cmd.pos = 0 /\ cmd.limit > 0 =>
        LET limit == cmd.limit - 1
            auto == cmd.todo \ Bads(mem)
            old == {p \in Used(mem) : mem.info[p].time < RecentLimit}
        IN
        /\ \A p \in auto : mem.info[p].time <= RecentLimit
        /\ \A p \in auto, q \in Used(mem) : mem.info[q].time < mem.info[p].time => q \in cmd.todo
        /\ Cardinality(auto) <= limit
        /\ Cardinality(cmd.todo) >= MinOf(limit, Cardinality(old))

=============================================================================
