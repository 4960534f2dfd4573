------------------------------- MODULE IoMono -------------------------------
(***************************************************************************)
(* The single thread I/O engine (the *_mono functions of io.c), used with  *)
(* an io cache of one slot or without pthread.  The reads happen inside    *)
(* io_data_read() and io_parity_read(), the writes inside                  *)
(* io_parity_write(), on slot 0.  The caller is the loop of sync, or the   *)
(* one of scrub when there are no writers.                                 *)
(***************************************************************************)
EXTENDS Integers, FiniteSets

CONSTANTS ReaderMax, WriterMax, BlockStart, BlockMax, Enabled

(* What IoEngine, which gives the constants their values, assumes of them.  *)
MonoConstants ==
    /\ ReaderMax \in Nat \ {0} /\ WriterMax \in Nat
    /\ BlockStart \in Nat /\ BlockMax \in Nat
    /\ Enabled \subseteq BlockStart .. BlockMax - 1

Readers == 0 .. ReaderMax - 1
Writers == 0 .. WriterMax - 1
None == -1

VARIABLES
    blockNext,    \* io->block_next
    readerIndex,  \* io->reader_index, the next reader to call
    writerIndex,  \* io->writer_index, the next writer to call
    writerError,  \* io->writer_error
    rBuf,         \* [reader] position whose data is in the buffer of slot 0
    pBuf,         \* position whose parity is in the parity rows of slot 0
    wState,       \* [writer] state of the write task of slot 0
    mpc, cur, skip, sent, parity

vars == <<blockNext, readerIndex, writerIndex, writerError, rBuf, pBuf, wState,
          mpc, cur, skip, sent, parity>>

(* Fault: io_position_next without the test of block_enabled.              *)
NextPosition_All(n, p) == p = n

(* io_position_next: the next enabled position, or one out of range.       *)
NextPosition(n, p) ==
    /\ p >= n
    /\ p < BlockMax => p \in Enabled
    /\ \A q \in Enabled : q >= n => p <= q
    /\ p >= BlockMax => (p = n \/ p = BlockMax)

Init ==
    /\ blockNext = BlockStart /\ readerIndex = 0 /\ writerIndex = 0 /\ writerError = 0
    /\ rBuf = [r \in Readers |-> None] /\ pBuf = None
    /\ wState = [w \in Writers |-> "empty"]
    /\ mpc = "readnext" /\ cur = None /\ skip = TRUE /\ sent = {}
    /\ parity = [w \in Writers |-> [p \in Enabled |-> None]]

(* The end of the loop: the final barrier in sync, nothing in scrub.       *)
AfterLoop == IF WriterMax > 0 THEN "last" ELSE "stop"

(* io_read_next_mono; out of range, the loop ends.                         *)
ReadNext ==
    /\ mpc = "readnext"
    /\ readerIndex' = 0
    /\ \E p \in blockNext .. blockNext + BlockMax :
         /\ NextPosition(blockNext, p)
         /\ blockNext' = p + 1 /\ cur' = p
         /\ mpc' = IF p < BlockMax THEN "read" ELSE AfterLoop
    /\ UNCHANGED <<writerIndex, writerError, rBuf, pBuf, wState, skip, sent, parity>>

(* Fault: the bound of the readers is off by one.                          *)
TaskRead_Past ==
    /\ mpc = "read" /\ readerIndex <= ReaderMax
    /\ readerIndex' = readerIndex + 1
    /\ \/ rBuf' = [rBuf EXCEPT ![readerIndex] = cur] /\ UNCHANGED mpc
       \/ rBuf' = [rBuf EXCEPT ![readerIndex] = None] /\ mpc' \in {"read", "stop"}
    /\ UNCHANGED <<blockNext, writerIndex, writerError, pBuf, wState, cur, skip, sent, parity>>

(* io_task_read_mono: the next reader does its work, or fails and the      *)
(* caller may bail out.                                                    *)
TaskRead ==
    /\ mpc = "read" /\ readerIndex < ReaderMax
    /\ readerIndex' = readerIndex + 1
    /\ \/ rBuf' = [rBuf EXCEPT ![readerIndex] = cur] /\ UNCHANGED mpc
       \/ rBuf' = [rBuf EXCEPT ![readerIndex] = None] /\ mpc' \in {"read", "stop"}
    /\ UNCHANGED <<blockNext, writerIndex, writerError, pBuf, wState, cur, skip, sent, parity>>

(* Scrub compares what it read, and writes nothing.                        *)
Compare ==
    /\ WriterMax = 0
    /\ mpc = "read" /\ readerIndex = ReaderMax
    /\ mpc' = "progress"
    /\ UNCHANGED <<blockNext, readerIndex, writerIndex, writerError, rBuf, pBuf, wState,
                   cur, skip, sent, parity>>

(* raid_gen on slot 0 and io_write_preset_mono.                            *)
WritePreset ==
    /\ WriterMax > 0
    /\ mpc = "read" /\ readerIndex = ReaderMax
    /\ writerIndex' = 0 /\ writerError' = 0
    /\ \E b \in BOOLEAN :
         /\ (\E r \in Readers : rBuf[r] # cur) => b
         /\ skip' = b
         /\ wState' = [w \in Writers |-> IF b THEN "empty" ELSE "ready"]
         /\ sent' = IF b THEN sent ELSE sent \cup {cur}
         /\ pBuf' = IF b THEN pBuf ELSE rBuf[0]
    /\ mpc' = "write"
    /\ UNCHANGED <<blockNext, readerIndex, rBuf, cur, parity>>

(* io_parity_write_mono: the next writer does its work.                    *)
ParityWrite ==
    LET w == writerIndex IN
    /\ mpc = "write" /\ w < WriterMax
    /\ writerIndex' = w + 1
    /\ \/ wState[w] = "empty" /\ UNCHANGED <<wState, parity, writerError>>
       \/ /\ wState[w] # "empty"
          /\ wState' = [wState EXCEPT ![w] = "done"]
          /\ parity' = [parity EXCEPT ![w][cur] = pBuf]
          /\ UNCHANGED writerError
       \/ /\ wState[w] # "empty"
          /\ wState' = [wState EXCEPT ![w] = "error"]
          /\ writerError' = writerError + 1
          /\ UNCHANGED parity
    /\ UNCHANGED <<blockNext, readerIndex, rBuf, pBuf, mpc, cur, skip, sent>>

(* Fault: the errors are collected and ignored.                            *)
WriteNext_Ignore ==
    /\ mpc = "write" /\ writerIndex = WriterMax
    /\ writerError' = 0
    /\ mpc' = "progress"
    /\ UNCHANGED <<blockNext, readerIndex, writerIndex, rBuf, pBuf, wState, cur, skip,
                   sent, parity>>

(* io_write_next_mono: the errors of this block are collected.             *)
WriteNext ==
    /\ mpc = "write" /\ writerIndex = WriterMax
    /\ writerError' = 0
    /\ mpc' = IF writerError > 0 THEN "stop" ELSE "progress"
    /\ UNCHANGED <<blockNext, readerIndex, writerIndex, rBuf, pBuf, wState, cur, skip,
                   sent, parity>>

Progress ==
    /\ mpc = "progress"
    /\ mpc' \in {"readnext", AfterLoop} \cup IF WriterMax > 0 THEN {"auto"} ELSE {}
    /\ UNCHANGED <<blockNext, readerIndex, writerIndex, writerError, rBuf, pBuf, wState,
                   cur, skip, sent, parity>>

(* io_flush_mono and io_quiesce_mono inside state_barrier, for an autosave *)
(* or at the end, with a parity_sync that may fail.                        *)
Flush ==
    /\ mpc \in {"auto", "last"}
    /\ writerError' = 0
    /\ \/ mpc' = "stop"
       \/ writerError = 0 /\ mpc' = IF mpc = "auto" THEN "autosaved" ELSE "lastsaved"
    /\ UNCHANGED <<blockNext, readerIndex, writerIndex, rBuf, pBuf, wState, cur, skip,
                   sent, parity>>

Resume ==
    /\ mpc \in {"autosaved", "lastsaved"}
    /\ mpc' = IF mpc = "autosaved" THEN "readnext" ELSE "stop"
    /\ UNCHANGED <<blockNext, readerIndex, writerIndex, writerError, rBuf, pBuf, wState,
                   cur, skip, sent, parity>>

(* io_stop_mono has nothing to wait for.                                   *)
Stop ==
    /\ mpc = "stop" /\ mpc' = "end"
    /\ UNCHANGED <<blockNext, readerIndex, writerIndex, writerError, rBuf, pBuf, wState,
                   cur, skip, sent, parity>>

Terminated == mpc = "end" /\ UNCHANGED vars

Next == \/ ReadNext \/ TaskRead \/ Compare \/ WritePreset \/ ParityWrite \/ WriteNext
        \/ Progress \/ Flush \/ Resume \/ Stop \/ Terminated

Spec == Init /\ [][Next]_vars

-----------------------------------------------------------------------------
(* Types, the assertion of io_task_read_mono (base <= i < base + count),   *)
(* and the bounds of the writer loop.                                      *)
MonoTypeOK ==
    /\ blockNext \in Nat /\ readerIndex \in 0 .. ReaderMax /\ writerIndex \in 0 .. WriterMax
    /\ writerError \in Nat
    /\ rBuf \in [Readers -> Int] /\ pBuf \in Int
    /\ wState \in [Writers -> {"empty", "ready", "done", "error"}]
    /\ mpc \in {"readnext", "read", "write", "progress", "auto", "last", "autosaved",
                "lastsaved", "stop", "end"}
    /\ cur \in Int /\ skip \in BOOLEAN /\ sent \subseteq Enabled
    /\ parity \in [Writers -> [Enabled -> Int]]

StreamPhase ==
    CASE mpc \in {"readnext", "write", "progress", "auto", "last"} -> "ready"
      [] mpc = "read" -> "block"
      [] mpc \in {"autosaved", "lastsaved"} -> "durable"
      [] mpc = "stop" -> "stopping"
      [] mpc = "end" -> "stopped"

Stream == INSTANCE IoStream WITH
    pos <- cur, phase <- StreamPhase, submitted <- sent, file <- parity,
    toRead <- IF cur = None THEN {} ELSE readerIndex .. ReaderMax - 1,
    queue <- [w \in Writers |-> IF wState[w] = "ready" THEN {cur} ELSE {}],
    unreported <- writerError

(* The single thread engine implements the same promises as the ring.      *)
MonoImplementsStream == Stream!Spec

=============================================================================
