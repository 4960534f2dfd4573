------------------------------- MODULE IoRing -------------------------------
(***************************************************************************)
(* The multi-threaded I/O engine of snapraid (src/cmdline/io.c) under the  *)
(* main loop that drives it (state_sync_process of sync.c with writers,    *)
(* state_scrub_process of scrub.c without).                                *)
(*                                                                         *)
(* One reader thread per data disk (and per parity, in scrub) and one      *)
(* writer thread per parity level run around a ring of IoMax slots.  Each  *)
(* slot holds one task per worker and one buffer row per worker.  The main *)
(* thread owns the slot readerIndex: the readers run ahead of it, the      *)
(* writers behind it.  Every critical section of io_mutex is one action;   *)
(* the reads, the writes and the parity computation happen between two     *)
(* critical sections and are therefore steps of their own.                 *)
(***************************************************************************)
EXTENDS Integers, FiniteSets

CONSTANTS
    DataCount,     \* io->data_count, the readers of data disks
    ParityCount,   \* io->parity_count, the readers of parity (0 in sync)
    WriterMax,     \* io->writer_max, the writers of parity (0 in scrub)
    IoMax,         \* io->io_max, the number of slots of the ring
    BlockStart,    \* io->block_start
    BlockMax,      \* io->block_max
    Enabled,       \* the positions whose bit is set in io->block_enabled
    SignalOutside  \* thread_cond_signal_outside, the --test-cond-signal-outside option

(* io_init asserts IO_MIN <= io_max for the threaded engine (io_max # 1).  *)
(* Two slots are enough for the safety properties.                         *)
ASSUME IoAssumption ==
    /\ DataCount \in Nat /\ ParityCount \in Nat /\ WriterMax \in Nat
    /\ DataCount + ParityCount > 0
    /\ IoMax \in Nat /\ IoMax >= 2
    /\ BlockStart \in Nat /\ BlockMax \in Nat
    /\ Enabled \subseteq BlockStart .. BlockMax - 1
    /\ SignalOutside \in BOOLEAN

Readers == 0 .. DataCount + ParityCount - 1
DataReaders == 0 .. DataCount - 1
ParityReaders == DataCount .. DataCount + ParityCount - 1
Writers == 0 .. WriterMax - 1
Slots == 0 .. IoMax - 1

None == -1   \* no position: a task never scheduled, a buffer with no valid content

VARIABLES
    \* the indexes protected by io_mutex
    blockNext,     \* io->block_next
    done,          \* io->done
    readerIndex,   \* io->reader_index, the slot the main thread works on
    writerIndex,   \* io->writer_index, the slot the main thread submits to the writers
    writerError,   \* io->writer_error, the errors not yet collected
    readerList,    \* io->reader_list, the readers not yet processed at readerIndex
    writerList,    \* io->writer_list, the writers not yet processed at writerIndex
    \* the tasks and the buffers
    rPos,          \* [slot] position of the read tasks (the same for all the readers)
    rState,        \* [reader][slot] state of the read task
    rBuf,          \* [reader][slot] position whose data is in the buffer
    wPos,          \* [slot] position of the write tasks
    wState,        \* [writer][slot] state of the write task
    pBuf,          \* [slot] position whose parity is in the parity rows
    \* the threads
    rIndex, rBusy, rPc,          \* worker->index, worker->busy and program counter
    wIndex, wBusy, wPc, wLatest, \* and latest_state
    mpc,           \* program counter of the main thread
    mWait,         \* the main thread sleeps in thread_cond_wait()
    mTarget,       \* where the main thread goes after the barrier it is in
    cur,           \* blockcur, the position returned by io_read_next()
    skip,          \* !parity_going_to_be_updated for blockcur
    \* what happened
    sent,          \* positions submitted to the writers without skip
    parity         \* [writer][position] content of the parity file

ringVars == <<blockNext, done, readerIndex, writerIndex, readerList, writerList>>
readTaskVars == <<rPos, rState, rBuf>>
writeTaskVars == <<wPos, wState, pBuf>>
readerVars == <<rIndex, rBusy, rPc>>
writerVars == <<wIndex, wBusy, wPc, wLatest>>
mainVars == <<mpc, mWait, mTarget, cur, skip, sent>>
vars == <<ringVars, writerError, readTaskVars, writeTaskVars, readerVars, writerVars,
          mainVars, parity>>

-----------------------------------------------------------------------------
(* Helpers                                                                 *)

(* (i + 1) % io_max *)
Succ(i) == IF i = IoMax - 1 THEN 0 ELSE i + 1

(* Fault: io_position_next without the test of block_enabled.              *)
NextPosition_All(n, p) == p = n

(* io_position_next: p is the next enabled position from n on, or the first *)
(* one out of range when there is none.                                     *)
NextPosition(n, p) ==
    /\ p >= n
    /\ p < BlockMax => p \in Enabled
    /\ \A q \in Enabled : q >= n => p <= q
    /\ p >= BlockMax => (p = n \/ p = BlockMax)

ScheduledState(p) == IF p < BlockMax THEN "ready" ELSE "empty"

(* The readers that the running loop of the main thread asks for. *)
Wanted == IF mpc = "data" THEN DataReaders ELSE ParityReaders

(* The wakeups.  A condition variable wakes only the threads that sleep.   *)
WokenReaders == [r \in Readers |-> IF rPc[r] = "wait" THEN "step" ELSE rPc[r]]
WokenWriters == [w \in Writers |-> IF wPc[w] = "wait" THEN "step" ELSE wPc[w]]

(* Faults: the wakeups are forgotten.                                      *)
SignalReadDone_Lost == UNCHANGED mWait
SignalWriteDone_Lost == UNCHANGED mWait

SignalReadDone == mWait' = IF mpc \in {"data", "parity"} THEN FALSE ELSE mWait
SignalWriteDone == mWait' = IF mpc = "pwrite" THEN FALSE ELSE mWait

-----------------------------------------------------------------------------
(* io_start_thread: the first IoMax - 1 positions are scheduled, the       *)
(* readers are already busy with slot 0.                                   *)
Init ==
    /\ rPos \in [Slots -> {None} \cup BlockStart .. BlockMax + BlockStart + IoMax]
    /\ NextPosition(BlockStart, rPos[0])
    /\ \A s \in 1 .. IoMax - 2 : NextPosition(rPos[s - 1] + 1, rPos[s])
    /\ rPos[IoMax - 1] = None
    /\ blockNext = rPos[IoMax - 2] + 1
    /\ done = FALSE
    /\ readerIndex = IoMax - 1 /\ writerIndex = 0
    /\ writerError = 0
    /\ readerList = {} /\ writerList = Writers
    /\ rState = [r \in Readers |-> [s \in Slots |->
                    IF s = IoMax - 1 THEN "empty" ELSE ScheduledState(rPos[s])]]
    /\ rBuf = [r \in Readers |-> [s \in Slots |-> None]]
    /\ wPos = [s \in Slots |-> None]
    /\ wState = [w \in Writers |-> [s \in Slots |-> "empty"]]
    /\ pBuf = [s \in Slots |-> None]
    /\ rIndex = [r \in Readers |-> 0]
    /\ rBusy = [r \in Readers |-> TRUE]
    /\ rPc = [r \in Readers |-> "work"]
    /\ wIndex = [w \in Writers |-> IoMax - 1]
    /\ wBusy = [w \in Writers |-> FALSE]
    /\ wPc = [w \in Writers |-> "step"]
    /\ wLatest = [w \in Writers |-> "done"]
    /\ mpc = "begin" /\ mWait = FALSE /\ mTarget = "stop"
    /\ cur = None /\ skip = FALSE
    /\ sent = {}
    /\ parity = [w \in Writers |-> [p \in Enabled |-> None]]

-----------------------------------------------------------------------------
(* Reader threads: io_reader_thread, io_reader_worker, io_reader_step      *)

(* worker->func() ends: the buffer has the data of the position, or the    *)
(* read failed.  A task out of range becomes a dummy one.                  *)
ReaderWork(r) ==
    LET s == rIndex[r] IN
    /\ rPc[r] = "work"
    /\ \/ /\ rPos[s] >= BlockMax
          /\ rState' = [rState EXCEPT ![r][s] = "empty"]
          /\ UNCHANGED rBuf
       \/ /\ rPos[s] < BlockMax
          /\ rState' = [rState EXCEPT ![r][s] = "done"]
          /\ rBuf' = [rBuf EXCEPT ![r][s] = rPos[s]]
       \/ /\ rPos[s] < BlockMax
          /\ rState' = [rState EXCEPT ![r][s] = "error"]
          /\ rBuf' = [rBuf EXCEPT ![r][s] = None]
    /\ rPc' = [rPc EXCEPT ![r] = "step"]
    /\ UNCHANGED <<ringVars, writerError, rPos, writeTaskVars, rIndex, rBusy,
                   writerVars, mainVars, parity>>

(* What the reader does with the task it took.                             *)
AfterReadTake(r, s) ==
    IF rState[r][s] = "empty" THEN "step"
    ELSE IF rState[r][s] = "ready" THEN "work" ELSE "abort"

(* io_reader_step takes the next task.                                     *)
ReaderTake(r) ==
    LET next == Succ(rIndex[r]) IN
    /\ rPc[r] = "step" /\ ~done
    /\ next # readerIndex
    /\ rIndex' = [rIndex EXCEPT ![r] = next]
    /\ rBusy' = [rBusy EXCEPT ![r] = TRUE]
    /\ IF rIndex[r] = readerIndex /\ SignalOutside
       THEN rPc' = [rPc EXCEPT ![r] = "signal"] /\ UNCHANGED mWait
       ELSE /\ rPc' = [rPc EXCEPT ![r] = AfterReadTake(r, next)]
            /\ IF rIndex[r] = readerIndex THEN SignalReadDone ELSE UNCHANGED mWait
    /\ UNCHANGED <<ringVars, writerError, readTaskVars, writeTaskVars, writerVars,
                   mpc, mTarget, cur, skip, sent, parity>>

(* thread_cond_signal_and_unlock when the signal follows the unlock.       *)
ReaderSignal(r) ==
    /\ rPc[r] = "signal"
    /\ SignalReadDone
    /\ rPc' = [rPc EXCEPT ![r] = AfterReadTake(r, rIndex[r])]
    /\ UNCHANGED <<ringVars, writerError, readTaskVars, writeTaskVars, rIndex, rBusy,
                   writerVars, mpc, mTarget, cur, skip, sent, parity>>

(* io_reader_step finds the queue empty and sleeps on read_sched.          *)
ReaderWait(r) ==
    /\ rPc[r] = "step" /\ ~done
    /\ Succ(rIndex[r]) = readerIndex
    /\ rBusy' = [rBusy EXCEPT ![r] = FALSE]
    /\ rPc' = [rPc EXCEPT ![r] = "wait"]
    /\ UNCHANGED <<ringVars, writerError, readTaskVars, writeTaskVars, rIndex,
                   writerVars, mainVars, parity>>

(* A reader exits even if there is work to do.                             *)
ReaderExit(r) ==
    /\ rPc[r] = "step" /\ done
    /\ rBusy' = [rBusy EXCEPT ![r] = FALSE]
    /\ rPc' = [rPc EXCEPT ![r] = "exit"]
    /\ UNCHANGED <<ringVars, writerError, readTaskVars, writeTaskVars, rIndex,
                   writerVars, mainVars, parity>>

(* thread_cond_wait() may return without a signal.                         *)
ReaderSpurious(r) ==
    /\ rPc[r] = "wait"
    /\ rPc' = [rPc EXCEPT ![r] = "step"]
    /\ UNCHANGED <<ringVars, writerError, readTaskVars, writeTaskVars, rIndex, rBusy,
                   writerVars, mainVars, parity>>

-----------------------------------------------------------------------------
(* Writer threads: io_writer_thread, io_writer_step                        *)

(* worker->func() ends: the parity buffer is in the parity file, or the    *)
(* write failed.                                                           *)
WriterWork(w) ==
    LET s == wIndex[w] IN
    /\ wPc[w] = "work"
    /\ \E ok \in BOOLEAN :
         LET res == IF ok THEN "done" ELSE "error" IN
         /\ wState' = [wState EXCEPT ![w][s] = res]
         /\ wLatest' = [wLatest EXCEPT ![w] = res]
         /\ parity' = IF ok THEN [parity EXCEPT ![w][wPos[s]] = pBuf[s]] ELSE parity
    /\ wPc' = [wPc EXCEPT ![w] = "step"]
    /\ UNCHANGED <<ringVars, writerError, readTaskVars, wPos, pBuf, readerVars,
                   wIndex, wBusy, mainVars>>

(* Fault: the errors of the writers are not counted.                       *)
AddWriterError_Lost(w) == UNCHANGED writerError /\ wLatest' = [wLatest EXCEPT ![w] = "done"]

(* io_writer_error_add, on entry of io_writer_step: only the entry from    *)
(* io_writer_thread counts the state, not the return from the wait.        *)
AddWriterError(w) ==
    /\ writerError' = IF wLatest[w] = "error" THEN writerError + 1 ELSE writerError
    /\ wLatest' = [wLatest EXCEPT ![w] = "done"]

AfterWriteTake(w, s) ==
    IF wState[w][s] = "empty" THEN "step"
    ELSE IF wState[w][s] = "ready" THEN "work" ELSE "abort"

WriterTake(w) ==
    LET next == Succ(wIndex[w])
        awaited == wIndex[w] = Succ(writerIndex)
    IN
    /\ wPc[w] = "step"
    /\ next # writerIndex
    /\ AddWriterError(w)
    /\ wIndex' = [wIndex EXCEPT ![w] = next]
    /\ wBusy' = [wBusy EXCEPT ![w] = TRUE]
    /\ IF awaited /\ SignalOutside
       THEN wPc' = [wPc EXCEPT ![w] = "signal"] /\ UNCHANGED mWait
       ELSE /\ wPc' = [wPc EXCEPT ![w] = AfterWriteTake(w, next)]
            /\ IF awaited THEN SignalWriteDone ELSE UNCHANGED mWait
    /\ UNCHANGED <<ringVars, readTaskVars, writeTaskVars, readerVars,
                   mpc, mTarget, cur, skip, sent, parity>>

WriterSignal(w) ==
    /\ wPc[w] = "signal"
    /\ SignalWriteDone
    /\ wPc' = [wPc EXCEPT ![w] = AfterWriteTake(w, wIndex[w])]
    /\ UNCHANGED <<ringVars, writerError, readTaskVars, writeTaskVars, readerVars,
                   wIndex, wBusy, wLatest, mpc, mTarget, cur, skip, sent, parity>>

WriterWait(w) ==
    /\ wPc[w] = "step" /\ ~done
    /\ Succ(wIndex[w]) = writerIndex
    /\ AddWriterError(w)
    /\ wBusy' = [wBusy EXCEPT ![w] = FALSE]
    /\ wPc' = [wPc EXCEPT ![w] = "wait"]
    /\ UNCHANGED <<ringVars, readTaskVars, writeTaskVars, readerVars, wIndex,
                   mainVars, parity>>

(* A writer exits only if there is no work to do.                          *)
WriterExit(w) ==
    /\ wPc[w] = "step" /\ done
    /\ Succ(wIndex[w]) = writerIndex
    /\ AddWriterError(w)
    /\ wBusy' = [wBusy EXCEPT ![w] = FALSE]
    /\ wPc' = [wPc EXCEPT ![w] = "exit"]
    /\ UNCHANGED <<ringVars, readTaskVars, writeTaskVars, readerVars, wIndex,
                   mainVars, parity>>

WriterSpurious(w) ==
    /\ wPc[w] = "wait"
    /\ wPc' = [wPc EXCEPT ![w] = "step"]
    /\ UNCHANGED <<ringVars, writerError, readTaskVars, writeTaskVars, readerVars,
                   wIndex, wBusy, wLatest, mainVars, parity>>

-----------------------------------------------------------------------------
(* The main thread                                                         *)

(* The end of the loop: sync goes to the final barrier, scrub has no       *)
(* parity to flush.                                                        *)
AfterLoop == IF WriterMax > 0 THEN "flush" ELSE "stop"

(* state_progress_begin: go on, stop before the first block, or bail out.  *)
MainBegin ==
    /\ mpc = "begin"
    /\ mpc' \in {"readnext", AfterLoop, "stop"}
    /\ UNCHANGED <<ringVars, writerError, readTaskVars, writeTaskVars, readerVars,
                   writerVars, mWait, mTarget, cur, skip, sent, parity>>

(* Fault: an off-by-one at the end of the range.                           *)
AfterReadNext_Past(p) == IF p > BlockMax THEN AfterLoop ELSE "data"

(* After io_read_next(): the end of the range breaks the loop.             *)
AfterReadNext(p) == IF p >= BlockMax THEN AfterLoop ELSE "data"

(* io_read_next_thread: schedule a new read on the slot just consumed and  *)
(* move to the next slot.                                                  *)
ReadNext ==
    LET s == readerIndex
        next == Succ(readerIndex)
    IN
    /\ mpc = "readnext"
    /\ \E p \in blockNext .. (blockNext + BlockMax) :
         /\ NextPosition(blockNext, p)
         /\ blockNext' = p + 1
         /\ rPos' = [rPos EXCEPT ![s] = p]
         /\ rState' = [r \in Readers |-> [rState[r] EXCEPT ![s] = ScheduledState(p)]]
    /\ readerList' = Readers
    /\ readerIndex' = next
    /\ cur' = rPos[next]
    /\ mTarget' = "stop"
    /\ IF SignalOutside
       THEN mpc' = "readbcast" /\ UNCHANGED rPc
       ELSE mpc' = AfterReadNext(cur') /\ rPc' = WokenReaders
    /\ UNCHANGED <<done, writerIndex, writerList, writerError, rBuf, writeTaskVars,
                   rIndex, rBusy, writerVars, mWait, skip, sent, parity>>

ReadBroadcast ==
    /\ mpc = "readbcast"
    /\ rPc' = WokenReaders
    /\ mpc' = AfterReadNext(cur)
    /\ UNCHANGED <<ringVars, writerError, readTaskVars, writeTaskVars, rIndex, rBusy,
                   writerVars, mWait, mTarget, cur, skip, sent, parity>>

(* Fault: a reader still working at the slot is taken as finished.         *)
ReadFinished_Early(r) == r \in readerList \cap Wanted

(* A reader of the list that has completed the slot of the main thread.    *)
ReadFinished(r) == r \in readerList \cap Wanted /\ rIndex[r] # readerIndex

(* io_task_read_thread returns the first finished reader of the list.  The *)
(* caller may bail out if the read failed.                                 *)
TaskRead ==
    /\ mpc \in {"data", "parity"} /\ ~mWait
    /\ \E r \in Readers :
         /\ ReadFinished(r)
         /\ \A q \in Readers : ReadFinished(q) => r <= q
         /\ readerList' = readerList \ {r}
         /\ \/ UNCHANGED mpc
            \/ rState[r][readerIndex] = "error" /\ mpc' = "stop"
    /\ UNCHANGED <<blockNext, done, readerIndex, writerIndex, writerList, writerError,
                   readTaskVars, writeTaskVars, readerVars, writerVars,
                   mWait, mTarget, cur, skip, sent, parity>>

(* io_task_read_thread finds no finished reader and sleeps on read_done.   *)
TaskReadWait ==
    /\ mpc \in {"data", "parity"} /\ ~mWait
    /\ readerList \cap Wanted # {}
    /\ \A r \in Readers : ~ReadFinished(r)
    /\ mWait' = TRUE
    /\ UNCHANGED <<ringVars, writerError, readTaskVars, writeTaskVars, readerVars,
                   writerVars, mpc, mTarget, cur, skip, sent, parity>>

(* All the calls of the loop are done: data first, then parity in scrub.   *)
AllRead ==
    /\ mpc \in {"data", "parity"} /\ ~mWait
    /\ readerList \cap Wanted = {}
    /\ mpc' = IF mpc = "data" THEN "parity" ELSE "compute"
    /\ UNCHANGED <<ringVars, writerError, readTaskVars, writeTaskVars, readerVars,
                   writerVars, mWait, mTarget, cur, skip, sent, parity>>

(* Fault: the data rows are taken before the index of the reader moves.    *)
Compute_Behind ==
    LET failed == \E r \in Readers : rState[r][readerIndex] # "done"
        last == CHOOSE s \in Slots : Succ(s) = readerIndex
    IN
    /\ mpc = "compute" /\ WriterMax > 0
    /\ mpc' = "pwrite"
    /\ \E b \in BOOLEAN :
         /\ failed => b
         /\ skip' = b
         /\ pBuf' = IF b THEN pBuf ELSE [pBuf EXCEPT ![readerIndex] = rBuf[0][last]]
    /\ UNCHANGED <<ringVars, writerError, readTaskVars, wPos, wState, readerVars,
                   writerVars, mWait, mTarget, cur, sent, parity>>

(* raid_gen: the parity rows of the slot are computed from its data rows,  *)
(* unless a disk failed or the parity is already up to date.               *)
Compute ==
    LET failed == \E r \in Readers : rState[r][readerIndex] # "done" IN
    /\ mpc = "compute"
    /\ IF WriterMax = 0
       THEN mpc' = "progress" /\ UNCHANGED <<skip, pBuf>>
       ELSE /\ mpc' = "pwrite"
            /\ \E b \in BOOLEAN :
                 /\ failed => b
                 /\ skip' = b
                 /\ pBuf' = IF b THEN pBuf
                            ELSE [pBuf EXCEPT ![readerIndex] = rBuf[0][readerIndex]]
    /\ UNCHANGED <<ringVars, writerError, readTaskVars, wPos, wState, readerVars,
                   writerVars, mWait, mTarget, cur, sent, parity>>

(* Fault: the writers are not waited for before their slot is reused.      *)
WriteFinished_Early(w) == w \in writerList

(* A writer of the list that does not write the slot the main thread uses  *)
(* next.                                                                   *)
WriteFinished(w) == w \in writerList /\ wIndex[w] # Succ(writerIndex)

(* io_parity_write_thread returns the first such writer.                   *)
ParityWrite ==
    /\ mpc = "pwrite" /\ ~mWait
    /\ \E w \in Writers :
         /\ WriteFinished(w)
         /\ \A v \in Writers : WriteFinished(v) => w <= v
         /\ writerList' = writerList \ {w}
    /\ UNCHANGED <<blockNext, done, readerIndex, writerIndex, readerList, writerError,
                   readTaskVars, writeTaskVars, readerVars, writerVars, mainVars, parity>>

ParityWriteWait ==
    /\ mpc = "pwrite" /\ ~mWait
    /\ writerList # {}
    /\ \A w \in Writers : ~WriteFinished(w)
    /\ mWait' = TRUE
    /\ UNCHANGED <<ringVars, writerError, readTaskVars, writeTaskVars, readerVars,
                   writerVars, mpc, mTarget, cur, skip, sent, parity>>

(* After io_write_next(): any error reported by the writers bails out.     *)
AfterWriteNext(errors) == IF errors > 0 THEN "stop" ELSE "progress"

(* io_write_next_thread: collect the errors and hand the slot over to the  *)
(* writers.                                                                *)
WriteNext ==
    /\ mpc = "pwrite" /\ ~mWait /\ writerList = {}
    /\ writerList' = Writers
    /\ writerError' = 0
    /\ wPos' = [wPos EXCEPT ![writerIndex] = cur]
    /\ wState' = [w \in Writers |-> [wState[w] EXCEPT ![writerIndex] =
                                        IF skip THEN "empty" ELSE "ready"]]
    /\ sent' = IF skip THEN sent ELSE sent \cup {cur}
    /\ writerIndex' = Succ(writerIndex)
    /\ mTarget' = AfterWriteNext(writerError)
    /\ IF SignalOutside
       THEN mpc' = "writebcast" /\ UNCHANGED wPc
       ELSE mpc' = AfterWriteNext(writerError) /\ wPc' = WokenWriters
    /\ UNCHANGED <<blockNext, done, readerIndex, readerList, readTaskVars, pBuf,
                   readerVars, wIndex, wBusy, wLatest, mWait, cur, skip, parity>>

WriteBroadcast ==
    /\ mpc = "writebcast"
    /\ wPc' = WokenWriters
    /\ mpc' = mTarget
    /\ UNCHANGED <<ringVars, writerError, readTaskVars, writeTaskVars, readerVars,
                   wIndex, wBusy, wLatest, mWait, mTarget, cur, skip, sent, parity>>

(* The end of the loop body: the next block, an interruption, or in sync a *)
(* barrier for the autosave or the thermal cooldown and then the next      *)
(* block.                                                                  *)
Progress ==
    /\ mpc = "progress"
    /\ \/ mpc' = "readnext" /\ UNCHANGED mTarget
       \/ mpc' = AfterLoop /\ mTarget' = "stop"
       \/ WriterMax > 0 /\ mpc' = "flush" /\ mTarget' = "readnext"
    /\ UNCHANGED <<ringVars, writerError, readTaskVars, writeTaskVars, readerVars,
                   writerVars, mWait, cur, skip, sent, parity>>

(* Fault: an empty queue is enough, the write in progress is forgotten.    *)
WriterDrained_Busy(w) == Succ(wIndex[w]) = writerIndex

(* io_flush_thread polls until every writer is idle with an empty queue,   *)
(* then state_barrier checks the errors and calls parity_sync.             *)
WriterDrained(w) == ~wBusy[w] /\ Succ(wIndex[w]) = writerIndex

Flush ==
    /\ mpc = "flush"
    /\ \A w \in Writers : WriterDrained(w)
    /\ writerError' = 0
    /\ IF writerError > 0 THEN mpc' = "stop" ELSE mpc' \in {"quiesce", "stop"}
    /\ UNCHANGED <<ringVars, readTaskVars, writeTaskVars, readerVars, writerVars,
                   mWait, mTarget, cur, skip, sent, parity>>

(* io_quiesce_thread polls until no reader has work in progress.           *)
ReaderQuiet(r) == ~rBusy[r] /\ (done \/ Succ(rIndex[r]) = readerIndex)

Quiesce ==
    /\ mpc = "quiesce"
    /\ \A r \in Readers : ReaderQuiet(r)
    /\ mpc' = "saved"
    /\ UNCHANGED <<ringVars, writerError, readTaskVars, writeTaskVars, readerVars,
                   writerVars, mWait, mTarget, cur, skip, sent, parity>>

(* The barrier holds here: the content file is written or the disks are    *)
(* spun down.                                                              *)
Resume ==
    /\ mpc = "saved"
    /\ mpc' = mTarget
    /\ UNCHANGED <<ringVars, writerError, readTaskVars, writeTaskVars, readerVars,
                   writerVars, mWait, mTarget, cur, skip, sent, parity>>

(* io_stop_thread: the broadcasts are inside the critical section.         *)
Stop ==
    /\ mpc = "stop"
    /\ done' = TRUE
    /\ rPc' = WokenReaders
    /\ wPc' = WokenWriters
    /\ mpc' = "join"
    /\ UNCHANGED <<blockNext, readerIndex, writerIndex, readerList, writerList,
                   writerError, readTaskVars, writeTaskVars, rIndex, rBusy, wIndex,
                   wBusy, wLatest, mWait, mTarget, cur, skip, sent, parity>>

Join ==
    /\ mpc = "join"
    /\ \A r \in Readers : rPc[r] = "exit"
    /\ \A w \in Writers : wPc[w] = "exit"
    /\ mpc' = "end"
    /\ UNCHANGED <<ringVars, writerError, readTaskVars, writeTaskVars, readerVars,
                   writerVars, mWait, mTarget, cur, skip, sent, parity>>

MainSpurious ==
    /\ mWait
    /\ mWait' = FALSE
    /\ UNCHANGED <<ringVars, writerError, readTaskVars, writeTaskVars, readerVars,
                   writerVars, mpc, mTarget, cur, skip, sent, parity>>

Terminated == mpc = "end" /\ UNCHANGED vars

-----------------------------------------------------------------------------
Reader(r) == \/ ReaderWork(r) \/ ReaderTake(r) \/ ReaderSignal(r)
             \/ ReaderWait(r) \/ ReaderExit(r)

Writer(w) == \/ WriterWork(w) \/ WriterTake(w) \/ WriterSignal(w)
             \/ WriterWait(w) \/ WriterExit(w)

Main == \/ MainBegin \/ ReadNext \/ ReadBroadcast \/ TaskRead \/ TaskReadWait
        \/ AllRead \/ Compute \/ ParityWrite \/ ParityWriteWait \/ WriteNext
        \/ WriteBroadcast \/ Progress \/ Flush \/ Quiesce \/ Resume \/ Stop \/ Join

Spurious == \/ \E r \in Readers : ReaderSpurious(r)
            \/ \E w \in Writers : WriterSpurious(w)
            \/ MainSpurious

Next == \/ \E r \in Readers : Reader(r)
        \/ \E w \in Writers : Writer(w)
        \/ Main
        \/ Spurious
        \/ Terminated

(* The operating system schedules every runnable thread; nothing is        *)
(* assumed of the spurious wakeups.                                        *)
Fairness == /\ \A r \in Readers : WF_vars(Reader(r))
            /\ \A w \in Writers : WF_vars(Writer(w))
            /\ WF_vars(Main)

Spec == Init /\ [][Next]_vars /\ Fairness

-----------------------------------------------------------------------------
TaskState == {"ready", "empty", "done", "error"}

TypeOK ==
    /\ blockNext \in Nat
    /\ done \in BOOLEAN
    /\ readerIndex \in Slots /\ writerIndex \in Slots
    /\ writerError \in Nat
    /\ readerList \subseteq Readers /\ writerList \subseteq Writers
    /\ rPos \in [Slots -> Int]
    /\ rState \in [Readers -> [Slots -> TaskState]]
    /\ rBuf \in [Readers -> [Slots -> Int]]
    /\ wPos \in [Slots -> Int]
    /\ wState \in [Writers -> [Slots -> TaskState]]
    /\ pBuf \in [Slots -> Int]
    /\ rIndex \in [Readers -> Slots] /\ rBusy \in [Readers -> BOOLEAN]
    /\ rPc \in [Readers -> {"work", "step", "signal", "wait", "exit", "abort"}]
    /\ wIndex \in [Writers -> Slots] /\ wBusy \in [Writers -> BOOLEAN]
    /\ wPc \in [Writers -> {"work", "step", "signal", "wait", "exit", "abort"}]
    /\ wLatest \in [Writers -> {"done", "error"}]
    /\ mpc \in {"begin", "readnext", "readbcast", "data", "parity", "compute", "pwrite",
                "writebcast", "progress", "flush", "quiesce", "saved", "stop", "join", "end"}
    /\ mWait \in BOOLEAN
    /\ mTarget \in {"readnext", "progress", "stop"}
    /\ cur \in Int /\ skip \in BOOLEAN
    /\ sent \subseteq Enabled
    /\ parity \in [Writers -> [Enabled -> Int]]

-----------------------------------------------------------------------------
(* Safety                                                                  *)

(* The assertions of the code: io_read_next_thread finds every reader      *)
(* processed, io_write_next_thread finds the writers in step with the      *)
(* readers, io_parity_write_thread never finds a writer at the index it is *)
(* about to hand over, and no thread takes a task that is neither READY    *)
(* nor EMPTY (os_abort in io_reader_thread and io_writer_thread).          *)
CodeAsserts ==
    /\ mpc = "readnext" => readerList = {}
    /\ mpc = "pwrite" => writerIndex = readerIndex
    /\ \A w \in Writers : wIndex[w] # writerIndex
    /\ \A r \in Readers : rPc[r] # "abort"
    /\ \A w \in Writers : wPc[w] # "abort"

(* No buffer is shared by two threads at once: a reader the main thread    *)
(* has processed is not filling the buffer of the slot in use, and no      *)
(* writer is writing the parity rows the main thread is computing.         *)
NoBufferRace ==
    /\ \A r \in Readers \ readerList : ~ (rPc[r] = "work" /\ rIndex[r] = readerIndex)
    /\ \A w \in Writers : ~ (wPc[w] = "work" /\ wIndex[w] = writerIndex)
    /\ mpc \in {"data", "parity", "compute", "pwrite"} /\ WriterMax > 0
          => writerIndex = readerIndex

(* What io_data_read() and io_parity_read() returned is the finished task  *)
(* of blockcur, and its buffer has the data of blockcur.                   *)
ReadDelivered ==
    mpc \in {"data", "parity", "compute", "pwrite"} =>
        /\ cur = rPos[readerIndex]
        /\ \A r \in Readers \ readerList :
              \/ rState[r][readerIndex] = "error"
              \/ rState[r][readerIndex] = "done" /\ rBuf[r][readerIndex] = cur

(* A parity file has at each position nothing new or the parity computed   *)
(* from the data of that position, and only for positions submitted.       *)
ParityMatchesPosition ==
    \A w \in Writers : \A p \in Enabled :
        parity[w][p] # None => parity[w][p] = p /\ p \in sent

(* When state_barrier() returns success every position submitted is in     *)
(* every parity file, and no worker is using a disk.                       *)
BarrierSound ==
    mpc = "saved" =>
        /\ \A w \in Writers : \A p \in sent : parity[w][p] = p
        /\ \A r \in Readers : rPc[r] # "work"
        /\ \A w \in Writers : wPc[w] # "work"

-----------------------------------------------------------------------------
(* Refinement: the threaded engine keeps the promises of IoStream.         *)

StreamPhase ==
    CASE mpc \in {"begin", "readnext", "progress", "flush", "quiesce"} -> "ready"
      [] mpc = "readbcast" -> IF cur < BlockMax THEN "block" ELSE "ready"
      [] mpc \in {"data", "parity", "compute", "pwrite"} -> "block"
      [] mpc = "writebcast" -> IF mTarget = "stop" THEN "stopping" ELSE "ready"
      [] mpc = "saved" -> "durable"
      [] mpc \in {"stop", "join"} -> "stopping"
      [] mpc = "end" -> "stopped"

StreamQueue ==
    [w \in Writers |-> {wPos[s] : s \in {t \in Slots : wState[w][t] = "ready"}}]

StreamUnreported == writerError + Cardinality({w \in Writers : wLatest[w] = "error"})

Stream == INSTANCE IoStream WITH
    pos <- cur, phase <- StreamPhase, toRead <- readerList, submitted <- sent,
    queue <- StreamQueue, file <- parity, unreported <- StreamUnreported

(* The ring under the loops of sync and scrub implements IoStream.         *)
ImplementsStream == Stream!Spec

=============================================================================
