# TLA+ specifications of SnapRAID

SnapRAID keeps one or more parity files over data disks that are written by
others, at any time.  The parity is right only for the moment of the last
`sync`; what makes it useful is that the **content file** always tells the truth
about which blocks the parity protects.  These specifications are about that
truth: the engine that reads and writes the disks with many threads, the `sync`
that recomputes the parity and saves the content file while the user changes the
files, the content file itself across crashes, what `fix` recovers from it, the
snapshots it reads from, the scan that finds the changes, and the record of what
was verified and when.

Paths are relative to the repository; line numbers are those of this commit.

## Inventory

| component | state | operations | interacts with | hard behaviour | what makes it correct |
|---|---|---|---|---|---|
| **I/O engine** `cmdline/io.c`, threads in `support.c` | a ring of `io_max` slots per reader and writer, `reader_index`, `writer_index`, the lists of workers to process, `writer_error`, `done` | `io_start`, `io_read_next`, `io_data_read`, `io_parity_read`, `io_write_preset`, `io_parity_write`, `io_write_next`, `io_flush`, `io_quiesce`, `io_stop`; threaded and single-thread versions behind function pointers | called by the loops of sync, scrub, dry; calls their reader and writer functions | one mutex and four condition variables, signals outside the lock, asynchronous write errors, draining | no shared buffer, the data returned is that of the position, a barrier is complete, no lost error, no deadlock |
| **sync** `cmdline/sync.c` | the block states in memory, the info of each position, `need_write`, the error counters | selection, reads, on-the-fly fix, parity, marks, autosave, thermal pause, end | scan, I/O engine, content file, parity files, snapshots | writers lag behind; files change under the sync; interruption, errors, crashes | the content file never promises more than the parity holds; silent errors are never made good |
| **scan** `cmdline/scan.c` | files, links, directories per disk; insert/remove lists | classify, deallocate, allocate, reallocate, copy detection, empty check | state, sync, diff | one thread per disk; order of directories; copies with the same stamp | every block keeps what is known of the parity |
| **content file** `cmdline/state.c`, `stream.c` | copies, `.tmp` files, sizes | `state_read`, `state_write`, verify, rename, directory sync | sync, scrub, fix, every command | crash between two renames; lost or damaged copies | a valid copy at all times; the newest one is loaded; one older than the parity is not left behind unseen |
| **parity files** `cmdline/parity.c` | split files per level | create, resize, read, write, sync, close | sync, scrub, fix | growth limits, splits, holes, truncation | positions never past the end |
| **block state** `cmdline/elem.[ch]` | EMPTY, BLK, CHG, REP, DELETED; hash, ZERO, INVALID; info | predicates, containers | everything | a state says both what the file has and what the parity has | each state's two meanings hold |
| **check/fix** `cmdline/check.c`, `handle.c`, `search.c`, `import.c` | failed blocks, candidates | `repair_step`, `repair`, file post-processing | parity, snapshots | old and new data mixed for an interrupted sync | never returns wrong data as right |
| **scrub** `cmdline/scrub.c` | plan, info times, bad marks | plan, compare, refresh | I/O engine, content file | age limits | every block in its turn; bad stays bad |
| **snapshots** `cmdline/state.c:6029-6283` | scan, pending, stable per disk | scan, pending, commit, read, write | sync, fix, scrub | interrupted syncs in a row | the files the parity was computed from stay available |
| **rehash** `cmdline/rehash.c` | previous hash kind, a flag per position | schedule, convert in sync and scrub | sync, scrub, check | interrupted migration | a hash always goes with its kind |
| **RAID mathematics** `raid/` | none | `raid_gen`, `raid_rec`, `raid_data` | sync, scrub, fix | any set of failures | recovery inverts generation |
| **stream** `cmdline/stream.c` | buffer, CRC, several files | get, put, flush, CRC | content file | buffer edges, varints | what is read is what was written |
| **thermal, bandwidth** `thermal.c`, `bw.c` | temperatures; credit | alarm, cooldown; limit | sync, scrub, check; workers | sleep inside a lock | - |
| reports and tools: `list.c`, `status.c`, `dup.c`, `locate.c`, `pool.c`, `touch.c`, `dry.c`, `device.c` | - | read-only passes, or one update per file | state | - | - |
| `snapraid.c`, OS layer, `tommyds/`, hashes, tests | - | command order, lock file, system calls, containers | - | - | taken as given |

PROJECT.json lists the same components with their sources and status, and the
hazards with the line where each one bites.

## Modules

| module | models | notes |
|---|---|---|
| `IoStream` | what the function pointers of `struct snapraid_io` promise (`io.h:412-518`) | abstract specification |
| `IoStreamProofs` | - | theorems and proofs about `IoStream` |
| `IoRing` | `io_*_thread` of `io.c`, the worker threads, and the loop of sync or scrub that calls them | implements `IoStream` |
| `IoRingProofs` | - | theorems and proofs about `IoRing`, and that it implements `IoStream` |
| `IoMono` | `io_*_mono` of `io.c` under the loop of sync or scrub | implements `IoStream` |
| `IoEngine` | `io_init` choosing the engine, the two of them under one specification | extends `IoRing`, instantiates `IoMono` |
| `IoMonoProofs` | - | theorems and proofs about `IoMono` |
| `SyncArray` | `state_read`, `state_scan`, `state_sync`, `state_sync_process` over runs and crashes | the lag of its writers and its barrier are those `IoStream` allows |
| `AtomicContent` | what the copies of the content file promise to the commands | abstract specification |
| `ContentStore` | `state_read` and `state_write` on the copies of the content file | implements `AtomicContent` |
| `ContentStoreProofs` | - | theorems and proofs about `ContentStore`, and that it implements `AtomicContent` |
| `Recovery` | `repair_step`, `repair`, `state_check_process` and `file_post` of `fix` | extends `SyncArray`: fix starts from every array it reaches |
| `ArrayProofs` | - | theorems and proofs about `SyncArray` and `Recovery` |
| `Snapshot` | `state_snapshot_*` and their callers over interrupted syncs | the block states of `SyncArray` for files of one block |
| `SnapshotProofs` | - | theorems and proofs about `Snapshot` |
| `ScanFiles` | the threads of `scan_disk` and `scan_file`, phases 2 and 3 of `state_diffscan` | refines the scan that `SyncArray` runs as one step |
| `ScanFilesProofs` | - | theorems and proofs about `ScanFiles` |
| `BlockInfo` | the info of each position under rehash, sync, scrub | times, marks and hash kinds that `SyncArray` leaves out |
| `BlockInfoProofs` | - | theorems and proofs about `BlockInfo` |
| `MCSyncArray`, `MCRecovery`, `MCScanFiles` | - | the symmetry sets, for TLC |

The levels compose by assumption and guarantee.  `SyncArray` lets each
parity level write its queue in order, at any speed, with failures told later,
and waits for empty queues at a barrier: that is `IoStream`, which both engines
are proved to implement.  `SyncArray` saves and loads the content file in one
step: `ContentStore` shows that a valid copy always exists, that a run loads the
latest, and that all the copies together are one content replaced in a single
step, which is `AtomicContent`; only the loss of a copy, with another of the same
size left behind, breaks it (Findings).  `Recovery` adds the steps of
fix to `Next` of `SyncArray`, so what it starts from is never assumed.

### IoRing

State: `readerIndex`, `writerIndex`, `blockNext`, `writerError`, `done`,
`readerList`, `writerList` are the fields of `struct snapraid_io`; `rIndex`,
`rBusy`, `rState`, `rPos`, `rBuf` (and `w...`) those of each worker and its
tasks; `rPc`, `wPc`, `mpc` say where each thread is.  A buffer holds the
position its data comes from, a parity row the position it was computed for.

The critical sections of `io_mutex` are the atomic actions: `ReaderTake`,
`ReaderWait`, `ReaderExit` are the three outcomes of one pass of
`io_reader_step`, `ReaderWork` is the work outside the mutex.  A wait is an
action that leaves the thread in `"wait"`; a signal wakes one waiter and a
broadcast wakes all.  `SignalOutside` chooses between a signal under the mutex
and one after the unlock (`thread_cond_signal_outside`, `support.c:2479`), which
adds the steps `ReaderSignal`, `WriterSignal`, `ReadBroadcast` and
`WriteBroadcast`.  With FALSE the behaviours are those of TRUE where the signal
follows at once, which is why the sync run takes TRUE.  `ReaderSpurious`,
`WriterSpurious` and `MainSpurious` are the wakeups POSIX allows.

The main thread is the loop of `state_sync_process` when there are writers, and
of `state_scrub_process` when `WriterMax = 0` and there are parity readers.  It
may stop after any read (a disk error), at any collected write error, at any
interruption, and takes a barrier (`state_barrier`: flush, quiesce) for an
autosave, a thermal pause, and before the end.

`WriterMax = 0` is the only difference between the clients; the number of disks,
levels, slots and positions are constants.  Safety asks only for `IoMax >= 2`;
`IO_MIN` is 3 (`io.h:28`).

### IoMono

The same loop over slot 0 with no threads.  Work happens inside `TaskRead` and
`ParityWrite`, errors are collected by each `WriteNext`.  `Flush` is the barrier,
that fails on an error collected or on the sync of a parity file.  With
`WriterMax = 0` the loop is the one of scrub, which has `Compare` in place of the
write and no barrier.

### IoEngine

`io_init` sets the pointers of `io.h` once, to the functions of one engine or of
the other.  `engine` is that choice; the variables of the engine not chosen never
change.  The variables of the single thread are those of `IoMono` with an `m` in
front.  Both engines have `WriterMax` writers and the same positions; the number
of readers of the single thread is a constant of its own, `MonoReaderMax`, so that
the run may give it two disks and the ring one.

### SyncArray

State: `live` are the files on the disks, each with one block of data and a
stamp (size, time, inode); `saved` is the content file, `mem` the state in
memory, both with a block per disk and position, the stamp of each file, the
info of each position; `parity` is what the system sees of the parity files and
`durable` what a power loss leaves; `pending` the parity writes queued in the
engine.  A hash is the data itself; a parity block of a level is the vector of
the data it was computed from.  Recovering with raid_rec from levels that agree
with each other and with the good disks gives their vector, and garbage
otherwise.

One run: `Load` (`state_read`), `Scan` (`state_scan`, phases 1 to 3, in any order
of the directories), `OpenParity`, one `Resize` per level, `PreWrite`, `Begin`;
then per position `ReadDisk` for each disk in any order, `Process` (everything
from the end of the reads to `io_write_next`), `Progress`, maybe `Barrier` and
`AutoSave`; then the last `Barrier` and `Finish`.  `WriteParity` of any level,
the user, `Kill` and `PowerLoss` interleave with all of it.  Rewriting,
deleting, copying with the same time, and changing the data under the same
stamp (`SilentError`) are the user's and the disks' operations.  `cut` is a
history: the positions that a `Resize` truncated, until what is saved has no
synced block there.

### ContentStore

A content is its version number, and `size` gives each version the size of its
content file, equal or not: `Read` sees only this of the copies after the first
(`state.c:4660`).  A copy has what the system sees (`file`) and
what a power loss leaves (`disk`), and a `.tmp` file synced or not.  `Kill` stands
also for every `exit(EXIT_FAILURE)` of `state_write`.  Directories are written
back by the system by the time another run starts after a kill: without that
no order of renames in one process could say anything of the next one.

`AtomicContent` is what a command may count on: `content` is what a run loads,
`settled` what it loads after a power loss, `possible` what it may load if copies
are lost too.  `Save` replaces the content at once, `Settle` makes it last and may
forget earlier ones, `PowerLoss` and `LoseCopy` fall back, the first to `settled`
and the second to any of `possible`.  `Modify` (the parity) asks for a content
in place and settled, and that all of `possible` have its size.  In `ContentStore`
these are the first copy present (`Loaded`), the first on the disk (`Settled`) and
what the copies have in place or on the disk (`Survivors`), with `Missing` as long
as none is on the disk; the rename of the first copy is the step that replaces
the content.

### Recovery

`StartFix` takes away any disks and parity levels (replaced by empty ones) at any
point where no sync is running, `FixBlock` is one position of
`state_check_process` with everything it does at once: the reads, `repair` with
its two strategies, the writes, `file_post`, the parity.  A second fix runs on
what the first left, with its `NAME.unrecoverable` files (`quarantined`).

`IfUpdated` is the first strategy: the parity is taken as the one of the present
data, only the bad blocks are unknown, and a recovered CHG block that may be the
old one is out of date.  `IfOutdated` is the second: the parity is taken as not
updated, so every block with an invalid parity is unknown, or zero, or the data
its past hash asks for.  `RepairStep` tries every set of parities of the size of
the failures and accepts a result that all the hashes confirm; with no hash, one
that a spare parity confirms.  When several are accepted the model takes any of
them, the code the first.  `known` is the data `search.c` and `import.c` may
find by hash: any subset.  `had` is a history: the data each file really had for
each of its stamps, which says whether what fix gives back is `Genuine`.

### Snapshot

Each disk has the live files and up to three snapshots (`vol`).  A version of a
file stands for its stamp and its hash; each name has a position of its own.  The
loops over the disks of `state_snapshot_scan`, `_pending` and `_commit` are one
action per disk and per system call, `Delete` and then `Rename`, each of which
may fail (the loop goes on, the command fails at its end) or be the last one
before an `Interrupt`.  `Reference`, `Imported`, `Now` and `Before` are what fix
reads: `state_snapshot_read` and `_write`, `state_dealloc`, and the two
strategies of `repair`.

### ScanFiles

`fs` is the filesystem, `obj` the `struct snapraid_file`s, `inodeset` and
`stampset` the sets they are searched by.  The thread of each disk visits its
paths in any order (`Visit`: one call of `scan_file` up to the copy detection);
the copy detection takes its steps apart, since the search takes the lock of one
disk at a time (`SearchCopy`) and the check of the file found has none
(`CheckCopy`); then `Insert`.  `Finish` is phases 2 and 3, and the empty-disk
check.  The user creates, copies, rewrites, renames, links and deletes files
before the scan and during it; `seen` is the history of what the scan saw.

### BlockInfo

`mem` and `saved` hold for each position the info (time, bad, rehash, just
synced) and for each block its state and the kind of its hash.  `wrong` is a
damage of the data or of the parity, which `found` (a history) says was
reported.  `Rehash` marks the positions that have an info and no other; a
prehash that finds a REP block changed (`Refused`), which the ones not marked are,
lets no sync follow.  A command goes position by position; `SyncDone`, `SyncSilent`,
`SyncError` and the three of scrub are the ways an iteration ends.  The plans of
scrub are `FixedPlans` and `AutoPlan`; `Limits` is the walk over the buckets.

## Runs

All passing runs explore their whole state space.

| run | bounds | states | question |
|---|---|---|---|
| `IoEngine_sync` | threads: 1 data reader, 2 writers, 3 slots, signal after the unlock; single thread: 2 readers, 2 writers; positions 0..3 with 1 missing | 729k | the engines under sync: all the properties below |
| `IoEngine_scrub` | threads: 1 data and 1 parity reader, 3 slots, signal inside; single thread: 2 readers; the same positions | 75k | the engines under scrub |
| `SyncArray_crash` | 2 disks, 2 levels, 1 position, 1 name, 2 data, 2 user operations, 1 crash, disk errors, empty-disk check on | 1.4M | interrupted runs, user changes during the sync, truncation, levels that lag apart, every run ends |
| `ContentStore_crash` | 3 copies, 3 versions, 2 sizes, 2 crashes or losses | 867k | copies valid, latest loaded, older ones of the same size only, atomic |
| `ContentStore_sizes` | as above with 2 versions and 1 crash | violated | see Findings |
| `Recovery_fix` | 2 disks, 2 levels, 1 position, 1 name, 2 data, 2 user operations, 2 crashes, 2 fixes, any loss | 903k | what fix recovers |
| `Recovery_sure` | as above with 1 crash and 1 fix | violated | see Findings |
| `Snapshot_syncs` | 3 disks, 1 name, 4 user operations, 2 syncs | 2.6M | what the snapshots keep |
| `ScanFiles_threads` | 2 disks, 2 paths, 2 inodes, 2 user operations | 1.8M | concurrent scan, moves, copies, links |
| `BlockInfo_plans` | 2 disks, 2 positions, percentages 0, 8.33, 50, minimum age 1, 4 commands, 2 hash kinds | 1.7M | marks, times, hash kinds, selection |
| `BlockInfo_rehash` | as above with 3 commands and no percentage | violated | see Findings |
| `SyncArray_badmarks` | 1 level, 1 position, 3 user operations | violated | see Findings |

Why the bounds are enough.  In the ring the interesting cases are full, empty
and wrapped around: three slots and three enabled positions with a gap and two
positions after the end reach all of them, with two writers at different slots.
In the array one block per file is the unit the block states speak of; two
user operations and one crash make the sequences synced - changed - interrupted
- changed back, and two levels let a save or a crash find one written and the
other not.  What one position cannot show, a run that goes on after an autosave and
an allocation over the deleted blocks of another file, is left to the theorems,
which are for any number of positions.  In
the store three copies make a crash leave more than one boundary, and two sizes
over three versions make those of two states equal or not.  In the
recovery two levels are what tells a spare parity from none, and let both a
hashed and an unhashed block be unknown at once; the array starts empty or
synced, so two operations are two changes after a sync, and two crashes leave a
parity truncated and then extended by syncs that saved nothing.  With three
disks a kill among the renames leaves both a disk with its pending snapshot and
one without beside the disk lost; two syncs are a complete one and an interrupted
one, and four changes are two files synced and two changes after it.  Two paths with two inodes allow every
exchange, move and reuse between them; two disks each other's copies.  Four
commands are a sync, a rehash, an interrupted scrub or sync, and one more.
`MaxOps`, `MaxCrash`, `MaxVersion`, `MaxFix`, `MaxSyncs`, `MaxBegun`, `MaxRuns`
and `MaxKind` bound counters; nothing else does.  Deadlock is checked in the
runs of the engines and of `SyncArray`; the others stop when the bound of a
counter is reached.

### Properties

* `IoRing`: `CodeAsserts` (the `assert`s of `io.c` 455, 515, 796 and the aborts of the
  workers; the one at 494 is a guard of the model), `NoBufferRace`, `ReadDelivered`, `ParityMatchesPosition`, `BarrierSound`,
  `ImplementsStream`, of the threads.
* `IoMono`: `MonoTypeOK`, `MonoImplementsStream`.  `IoEngine`: the liveness
  `EngineStops`, of either engine.
* `IoStream`: `DurableIsComplete`, `NoLostError`, `OncePerPosition`, which no run
  checks: they are proved.
* `SyncArray`: `SavedParityHolds` is the main one: every block the content file
  calls synced is in every level of the parity, and disks recorded as empty
  count as zeros, both for what the system sees and for what a power loss
  leaves; at every step of every run, not only between runs.
  `SavedInfoComplete`, `SuccessMeansSynced`, `NoLaundering`, `RunsEnd`.
  `ErrorsMarkedBad` is what the manual says, and the code does not do.
* `ContentStore`: `CopiesValid`, `LoadsLatest`, `ImplementsAtomic`;
  `OlderCopiesLookTheSame` (a copy older than the parity can be left only if it has
  the size of the content the parity was modified under); `CopiesCoverParity` (none
  is left at all) is what a comment says, and is violated.
* `Recovery`: `RecoveredIsGenuine` (what fix gives back with the name and time of
  a file is what the file had), `SyncedBlocksRecovered` (with no more failures
  than parities a synced block does come back), `FixRestoresParity`.
* `Snapshot`: `StableIsParity`, `SyncedBlocksFrozen`, `RebuiltFromSnapshots`.
* `ScanFiles`: `SourceAlive` (the file looked at without the lock is allocated),
  `SetsConsistent`, `SeenIsRecorded` (the outcome is the files as they were seen),
  `CopiesFound` (whatever the order of the threads).
* `BlockInfo`: `SavedHashesKnown` (of the synced blocks), `BadUntilRepaired`,
  `OldestFirst`; `RepHashesKnown` says the same of the blocks not yet synced whose
  hash is recorded, and is violated.

`SavedParityHolds` has one exception, the positions in `cut`: `parity_chsize`
truncates the parity (`sync.c:1639`) before the content file is saved
(`sync.c:1679`), so a crash in between leaves synced blocks past the end of the
parity.  They stay so when the user brings the files back with their old time,
until a content file is saved without them; an exception for the positions whose
files are gone at the moment would be false after four user operations.
Without the exception TLC finds the property violated (Known limits).

`RecoveredIsGenuine` has the premise `PastKnown`: the past hash saved for the
block is the one of what the parity holds, or unknown.  Without it the property
is false in the code: `Recovery_sure` is the finding.  `SyncedBlocksRecovered` asks
that the levels of the position were written together and hold the unsynced
blocks as they are now, or as their past hash says; after a crash in between no
strategy of `repair` has a consistent system to solve.  What the lost blocks had is
not on the disk any more, but a lost REP block must be in the parity with its
hash: with one that is not, and a spare level, both strategies fail.  The
positions in `cut` are excluded here too: a sync interrupted after it truncated the
parity, and another interrupted after it extended it, leave zeros at a position
that the content file calls synced.
`SyncedBlocksFrozen` (which is about scrub, and check and fix with `-d`: without it
they read the live files) asks for the pending snapshot in place or for one
interrupted sync since the last complete one (`begun <= 1`), `RebuiltFromSnapshots`
for the latter, see Known limits.

### Fairness

`IoRing`: weak fairness of each thread.  A blocked thread is not enabled until it
is woken, so this says only that the system runs every runnable thread;
spurious wakeups, errors and interruptions are under no obligation.  The poll
of `io_flush_thread` is a guard on what it polls for.  `SyncArray`: weak fairness
of the process and of each parity writer, which `EngineStops` of `IoEngine`
justifies.  Nothing obliges the user, the disks, the crashes, or anybody to start a
run.  `IoEngine`: the one of `IoRing` when the engine is the threads, and weak fairness
of the single thread otherwise, which never sleeps.  The other modules state safety
only.

## Proofs

`IoRingProofs` proves, for every number of disks, levels, slots (`IoMax >= 2`) and
every set of positions:

* `TypeCorrect`: `Spec => []TypeOK`
* `AssertsHold`: `Spec => []CodeAsserts`
* `BuffersExclusive`: `Spec => []NoBufferRace`
* `ReadsDelivered`: `Spec => []ReadDelivered`

from the assumption of `IoRing` on the constants alone.  None of the last three is
inductive.  The invariant `IInv` adds to the types:

* `ReaderInv`: on the ring, the slots from a reader's index on up to the main
  thread's are those still to read; the ones it has passed are finished, and
  hold the data of their position; a reader working is at its own index;
* `WriterInv`: the same for the writers, whose queue lies between their index and
  `writerIndex`, which they never reach;
* `MainInv`: where the main thread is in a block, the two indices are in step,
  and the readers not in `readerList` are past the slot in use;
* `PositionInv`: every slot scheduled has an enabled position or one past the end,
  and the position of the caller is the one of the slot in use.

The arithmetic of the ring is in the lemmas on `Succ` and `Between` (the slots
from one index to another): adding a slot to an interval, moving its end,
disjointness.  One lemma per action shows that it preserves `IInv`, with frame
lemmas for the parts it does not touch; `StepInv` and `Invariance` put them
together.

`IoStreamProofs` proves what the engines are shown to implement, for every number
of disks, parities and positions, from `StreamAssumption` on the constants:

* `BarrierComplete`: `Spec => []DurableIsComplete`
* `ErrorsReported`: `Spec => []NoLostError`
* `EachPositionOnce`: `Spec => OncePerPosition`

`DurableIsComplete` is not inductive: between the barrier and the next block a
late write could fail.  `IInv` adds that none is left (`DurableIsQuiet`), and that a
block worked on is enabled (`BlockIsEnabled`), so that all that is submitted can be
written.  `StreamAssumption` is a plain definition and not an assumption of the
module, as the engines instantiate it with their own constants.

The second part of `IoRingProofs` proves, for every value of the constants:

* `ParityInPlace`: `Spec => []ParityMatchesPosition`
* `BarrierIsSound`: `Spec => []BarrierSound`
* `RingImplementsStream`: `Spec => ImplementsStream`

and `IoMonoProofs`, from `MonoConstants`, `MonoTypeCorrect` and `MonoKeepsPromises`, the
same refinement for the single thread engine.  The refinement needs more than `IInv`:
what each state of a write task says of the parity written so far, and how the
errors stored in the tasks, counted in `writer_error` and told to the caller add
up to those of `IoStream`.  Each action of the engine is then an action of
`IoStream` or leaves its variables alone.

`ContentStoreProofs` proves, for any number of copies, versions and crashes, and
whatever the sizes of the contents, equal or not:

* `StoreTypeCorrect`, `CopiesStayValid`: `Spec => []CopiesValid`, and
  `NewestIsLoaded`: `Spec => LoadsLatest`;
* `OlderCopiesHide`: `Spec => []OlderCopiesLookTheSame`.

The invariant follows the loop of renames: the copies already renamed have the new
content, also on disk when their directory is synced, and those still to rename
have a complete `.tmp` file.

* `StoreIsAtomic`: `Spec => ImplementsAtomic`, the refinement of `AtomicContent`, and
* `AtomicCovers`: whatever `AtomicContent` does, a content older than the parity that
  may still be loaded has the size of the one the parity was modified under
  (`OlderLookTheSame`), and only the loss of a copy makes it the one loaded
  (`OnlyLossUncovers`).

The first copy present is the greatest (`LoadedIsNewest`), so after any step the
content is known from the values of the copies, without following which copy is
the first: the rename of the first copy is the `Save`, each sync of a directory a
`Settle`, and every kill, power loss, lost disk or end of the run a stutter, a
`Settle` or a fall back.

`ArrayProofs` proves of `SyncArray`, from `ArrayAssumption`, for any number of disks, levels,
positions, files, user changes and crashes, and for all the options:

* `ArrayTypeCorrect`: `Spec => []TypeOK`
* `InfoIsComplete`: `Spec => []SavedInfoComplete`
* `PromiseHolds`: `Spec => []SavedParityHolds`
* `SuccessIsSynced`: `Spec => []SuccessMeansSynced`
* `NothingLaundered`: `Spec => NoLaundering`

`SavedParityHolds` is far from inductive, and its invariant is the reason why sync
is safe, in four parts:

* `AheadInv`: a position still to process is in memory as it is in the content
  file, has something to sync, and has nothing queued for the writers;
* `QueueInv`: a vector queued for the writers fits (`Fits`) what is saved and what is
  in memory at its position, so it may be written at any time, or never;
* `MemInv`: as long as no write failed, what memory calls synced is in the parity
  or queued;
* `BarrierInv`: at the barrier before a save nothing is queued, nothing failed, and
  the parity is durable; so memory may become what is saved (`SaveParts`).

`ScanInv` (the scan makes nothing synced), `KeepInv` (a synced block whose file
keeps its stamp stays synced with its hash), `WriteInv` (nothing to write means
nothing changed) and `CountInv` (`unsynced_blocks` is right when it is used) carry
these parts through a run, `ArrayOk` (a file has one block, a stamp, an info) through
the scan.  `EndInv` is what `SuccessMeansSynced` needs: what is not synced is still to
process, or an error or an interruption will make the run fail.  `ProcessStep` is
the longest lemma: it rests on `CompleteUpdates`, which says that a position with
something to sync, read without errors, always has its parity updated without
`--force-full`, so that the shortcut of `sync.c:1035` never leaves a parity behind.

`BlockInfoProofs` proves, from `InfoAssumption`, for any number of disks, positions,
hash kinds, commands and percentages:

* `InfoTypeCorrect`: `Spec => []TypeOK`
* `HashesStayKnown`: `Spec => []SavedHashesKnown`
* `MarksStay`: `Spec => []BadUntilRepaired`
* `OldestAreFirst`: `Spec => []OldestFirst`

The invariant states in memory what two of the properties state of the content
file: `Known`, every hash of a synced block is of the kind that its info says (those of
the blocks not synced may be of any kind: a sync changes them to a synced block
only when they match), and
`Marked`, a damage reported in this run has its position marked.  `OldestFirst` is
about an algorithm, the walk of `state_scrub` over the buckets of times:
`LimitsFacts` says that the buckets before the one where it stops fit the limit
of blocks all together and that the first `lastlimit` of that bucket complete it,
`Fitting` and `FirstOf` count them, and `PlanFacts` concludes that a position is
left out only for positions not newer.

`SnapshotProofs` proves, from `SnapshotAssumption`, for any number of disks, files,
changes and syncs:

* `SnapshotTypeCorrect`: `Spec => []TypeOK`
* `StableHoldsParity`: `Spec => []StableIsParity`
* `BlocksStayFrozen`: `Spec => []SyncedBlocksFrozen`
* `LostDiskRebuilt`: `Spec => []RebuiltFromSnapshots`

Its invariant says what each phase of a sync knows.  `ScanInv`, `PendingInv` and
`CommitInv` follow the loops over the disks: the disks before `disk` have the new
snapshot, or an error was recorded; those from `disk` on still have the old one;
in the commit every disk has what was synced in one of the two.
`ParityHas` (a synced block is in the parity) and `TodoInv` relate the states to the
parity.  `RebuildInv` is what a lost disk is rebuilt from: until a second sync
begins, each position with a synced block is on all disks as before the sync
(`OldBlock`: in the parity, in `stable` and among the deallocated files) or on all
as after it (`NewBlock`), never a mixture.

Of `Recovery`, which starts from any array that `SyncArray` reaches, `ArrayProofs`
proves from the same assumption and `RecoveryAssumption`, whatever is lost and however
often fix runs:

* `RecoveryTypeCorrect`: `SpecRecovery => []RecoveryTypeOK`
* `RecoveredFilesGenuine`: `SpecRecovery => []RecoveredIsGenuine`
* `SyncedAreRecovered`: `SpecRecovery => []SyncedBlocksRecovered`
* `ParityIsRestored`: `SpecRecovery => []FixRestoresParity`

As long as no fix began its invariant `RInv` is the one of `SyncArray`.  From then on
it says that what is left of the parity fits what is saved, but where it was
truncated (`ParityFits`); that a position still to process is as fix found it
(`FixTodo`); and what the processed ones became (`FixDone`).  Two lemmas carry the
rest.  `RepairFacts`: what `repair_step` accepts is a vector that a level held when
fix began, since with fewer levels than failures nothing is tried, and a wrong
solution has garbage in every block it recovers, which no hash matches and no
spare level agrees with.  `OnePosition`: a file has one position, so what a step of
fix writes at one no other step touches.  `IfUpdatedFacts` and `IfOutdatedFacts` say
what each strategy gives back, and `EnoughRescues` that one of the two finds it when
`SyncedBlocksRecovered` asks for it.  `FixBlockStep` is one position of fix.

`ScanFilesProofs` proves, from `ScanAssumption`, for any number of disks, paths,
inodes and changes of the user, with inodes persistent or not:

* `ScanTypeCorrect`: `Spec => []TypeOK`
* `SourcesAreAlive`: `Spec => []SourceAlive`
* `ScanLeavesSets`: `Spec => []SetsConsistent`
* `ScanRecordsSeen`: `Spec => []SeenIsRecorded`
* `ScanFindsCopies`: `Spec => []CopiesFound`

Three of these speak of the end of the scan; the invariant `FInv` says what holds
in the middle of it.  `ObjectsOk`: the old objects are all there, and one not
present has its old path; `PresentOk`: one present is the file seen at its path, and
the only one there; `PendingOk`: so is the file a thread is about to insert, whose
inode no object has; `LinksOk`: every path seen is an object, a hardlink to one, or
about to be one.  `SearchOk` is about the threads together: the disks already
searched have no copy to take, and the object looked at is still there with its
stamp, as no step of any thread removes one (`Grows`).  `CopiesFound` needs that
the new files of a disk, which a search may meet first, were themselves searched
for in the same way (`CopiesOk`).  A path is visited in five ways, which `Visited`
puts in one form, so that `VisitedKeeps` treats them together.  The abort of the
search by path can never happen, whatever the user does; the one of the search
by inode needs a change (`NotSingle`, `SeenNow`).

Only model-checked: liveness (`EngineStops`, `RunsEnd`), which TLAPS does not do
here.  Every safety property and every refinement that the passing runs check
is proved.

## Findings

1. **Errors are not marked as bad** (`SyncArray_badmarks`).  The manual
   (`doc/snapraid.txt:586`) and the message of `sync.c:1454` say that the failing
   blocks are marked as bad, but `state_sync` returns at `sync.c:1719` before the
   `state_write` that would save the marks.  Same for the work done since the
   last autosave after a Ctrl+C (`doc/snapraid.txt:581`).
2. **Past data recovered as the present one** (`Recovery_sure`).  `repair` is "sure"
   that a CHG block recovered is of after the sync when it differs from its past
   hash (`check.c:448`, `:463`).  But the past hash is replaced when the block is
   read (`sync.c:1051`), also where the position is then skipped because of another
   file, and an autosave saves it.  Lose the disk then, and fix gives back the old
   data, or zeros, with the time of the new file, as recovered.

3. **Older copies of the content file under a modified parity** (`ContentStore_sizes`).
   The comment at `state.c:4884` has the parity modified only after the state before
   the sync is durably published.  After a crash between two renames the next run
   loads the latest copy and compares the others by size only (`state.c:4660`);
   with equal sizes and nothing changed by the scan it writes none, and modifies
   the parity with older copies in place.  The loss of the first copy then loads a
   state older than the parity.  `OlderCopiesLookTheSame` is what does hold.
4. **Hashes left out of a rehash** (`BlockInfo_rehash`).  `rehash.c:54` means to mark
   "all the block"; the positions without info are skipped as unused, but those with
   only blocks not yet synced have none.  A REP block there, of a copy or of an
   interrupted `sync --pre-hash`, keeps a hash of the old kind: each sync after it
   finds its data changed and never syncs it (`sync.c:948`), and with `--pre-hash`
   does not run (`sync.c:1622`).

## Known limits

Behaviours of the code met while modelling, that a property has to allow, or
that have no property of their own.

* `SyncArray`.  `parity_chsize` (`sync.c:1639`) comes before the save of the scanned
  state (`sync.c:1679`).  After a kill in between, the files deleted at the end of
  the parity are still synced for the content file with no parity: they cannot be
  undeleted, and if they are brought back with their old time they are taken as
  protected until sync refuses the parity as too small (`sync.c:1595`).  The
  comment at `sync.c:1674` speaks only of the parity modified after that save.
    The shortcut that skips the parity of a CHG block with an
  unchanged unique hash (`sync.c:1035`) asks for `unsynced_blocks == 0`, but a CHG
  block makes its own position unsynced, which the load or the save before the
  sync has counted, so the shortcut never applies.  The test for a ZERO past hash
  in the on-the-fly fix (`sync.c:1093`) looks at the hash that `sync.c:1051` has
  replaced, so a new file at a position takes part in the recovery and may prevent
  the fix of a silent error beside it.
* `Recovery`.  A second fix opens `NAME.unrecoverable` (`handle.c:70-78`), takes a
  readable CHG block as good (`check.c:1345`) and gives it back its name, so
  what the first fix called out of date becomes the file.  It is not counted as
  recovered by `RecoveredIsGenuine`, which looks at the blocks that were bad.
  When fix writes again a lost parity file at a position and not at one below it,
  the hole below reads as zeros; `ParityPost` leaves it `NoParity`.  Only a second
  fix could read it, after a loss that the levels left cannot make up for.
* `Snapshot`.  A second interrupted sync deletes the pending snapshot of the
  first, which may have the only copy of what part of the parity was computed
  from.  A kill between the deletion of `pending` and the rename of `scan` makes
  `stable` be used, which is older than the blocks synced since.  The files
  deallocated are imported from `stable` only where `pending` exists
  (`state.c:6243-6269`): with three disks or more, a kill among the renames leaves
  some with it and some without, and a position with unsynced blocks on both, or
  with one deleted on a disk without, has no consistent set of data for the
  parity, though `stable` has it.  `RebuiltFromSnapshots` excludes those
  positions; two disks do not show the case, the attempt to prove it did.  A crash
  during the commit leaves the snapshot of a complete sync as `pending`, deleted
  by the next sync.
* `ScanFiles`.  A change of the user during the scan may show the inode of a file
  seen already with one link only, and the command aborts as for an internal
  inconsistency (`scan.c:795`, `:874`): `SetsConsistent` says that only such a
  change does it.
* `BlockInfo`.  A block with the time exactly at the limit of age is counted in the
  percentage and not selected.  Positions left with errors keep the oldest time
  and take up the percentage of each scrub.  A bad mark at a position without info
  makes its time 0.
* The thermal pause of scrub (`scrub.c:635`) does not wait for its readers, as the
  one of sync does.

## Not modelled

* Files of several blocks: the states are per block; what is lost is that the
  stamp of a file is checked at its open only (`handle.c` keeps it open), the
  order of allocation inside a file, and a file recovered in part (in `Recovery`
  the last block of a file is its only one).
* Symbolic links, directories, filters, partial ranges (`-S`, `-B`); volatile
  hardlinks and the refresh of the stat on Windows.
* Split parity files and their limits (`parity.c:541`); the encoding of the
  content file and the buffer of `stream.c`.
* The mathematics of `raid/`: pure computation over GF(2^8), which `SyncArray` and
  `Recovery` use as an abstract code; its SIMD variants and its tables, most of the
  lines of the repository, are generated or unrolled equivalents.
* Reports, devices, OS layer, containers, hash functions, command line: no state
  of the array, or external.

## Plan

Done: 1. `IoRing` with its loop, `IoStream`, `IoMono`, `IoEngine`; 2. `SyncArray`;
3. `ContentStore`; 4. `Recovery`; 5. `Snapshot`; 6. `ScanFiles`; 7. `BlockInfo`;
8. the proofs of all of them.

Left to model: files of several blocks in `SyncArray` and `Recovery`; the growth of
split parity files; the stream.

Proofs left: none of safety for what is modelled; each new component brings its own.
