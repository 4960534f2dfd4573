---------------------------- MODULE IoMonoProofs ----------------------------
(***************************************************************************)
(* Proofs about the single thread engine, for any number of disks, parity  *)
(* levels and positions: its types, and that it keeps the promises of      *)
(* IoStream, of which IoStreamProofs says what they are worth.             *)
(***************************************************************************)
EXTENDS IoMono, TLAPS

-----------------------------------------------------------------------------
(* The inductive invariant                                                 *)

(* The phases of the loop that go on to another position.                  *)
Going == mpc \in {"readnext", "read", "write", "progress", "auto", "autosaved"}

(* The next position to look for follows the one of the caller.            *)
PositionInv ==
    /\ cur = None \/ cur >= 0
    /\ Going => /\ cur < BlockMax
                /\ blockNext = IF cur = None THEN BlockStart ELSE cur + 1
    /\ mpc \in {"read", "write"} => cur \in Enabled

(* The buffers filled so far, until the writers take their place, have the *)
(* data of the position, or failed.                                        *)
BufferInv ==
    /\ mpc = "write" /\ ~skip => pBuf = cur
    /\ mpc = "read" => \A r \in Readers : r < readerIndex => rBuf[r] \in {cur, None}

(* The writers before writerIndex are done, nothing is left to write out   *)
(* of the loop on them, and their errors are told before the next block.   *)
WriterInv ==
    /\ mpc = "write" =>
         \A w \in Writers :
           IF w < writerIndex THEN wState[w] # "ready"
           ELSE wState[w] = IF skip THEN "empty" ELSE "ready"
    /\ mpc # "write" => writerError = 0 /\ \A w \in Writers : wState[w] # "ready"

IInv == MonoTypeOK /\ PositionInv /\ BufferInv /\ WriterInv

-----------------------------------------------------------------------------
LEMMA EnabledType ==
    ASSUME MonoConstants
    PROVE  \A p \in Enabled : p \in Int /\ p >= 0 /\ p < BlockMax /\ p # None
BY DEF MonoConstants, None

LEMMA InitIInv == ASSUME MonoConstants, Init PROVE IInv
<1>1. MonoTypeOK
  BY DEF MonoConstants, Init, MonoTypeOK, None
<1>2. PositionInv /\ BufferInv /\ WriterInv
  BY DEF MonoConstants, Init, PositionInv, BufferInv, WriterInv, Going, None
<1> QED BY <1>1, <1>2 DEF IInv

(* io_read_next_mono finds a position after the one of the caller.         *)
LEMMA ReadNextIInv == ASSUME MonoConstants, IInv, ReadNext PROVE IInv'
<1>1. PICK p \in blockNext .. blockNext + BlockMax :
        /\ NextPosition(blockNext, p)
        /\ blockNext' = p + 1 /\ cur' = p
        /\ mpc' \in IF p < BlockMax THEN {"read"} ELSE {"last", "stop"}
  BY DEF ReadNext, AfterLoop
<1>2. p \in Nat
  BY <1>1 DEF MonoConstants, IInv, MonoTypeOK
<1>3. p < BlockMax => p \in Enabled
  BY <1>1 DEF NextPosition
<1>4. /\ mpc = "readnext" /\ readerIndex' = 0
      /\ UNCHANGED <<writerIndex, writerError, rBuf, pBuf, wState, skip, sent, parity>>
  BY DEF ReadNext
<1>5. MonoTypeOK'
  BY <1>1, <1>2, <1>4 DEF MonoConstants, IInv, MonoTypeOK
<1>6. PositionInv'
  BY <1>1, <1>2, <1>3, <1>4 DEF MonoConstants, PositionInv, Going, None
<1>7. BufferInv'
  BY <1>1, <1>4 DEF BufferInv, Readers
<1>8. WriterInv'
  BY <1>1, <1>4 DEF IInv, WriterInv
<1> QED BY <1>5, <1>6, <1>7, <1>8 DEF IInv

LEMMA TaskReadIInv == ASSUME MonoConstants, IInv, TaskRead PROVE IInv'
<1>1. /\ mpc = "read" /\ mpc' \in {"read", "stop"} /\ readerIndex \in Readers
      /\ readerIndex' = readerIndex + 1
      /\ UNCHANGED <<blockNext, writerIndex, writerError, pBuf, wState, cur, skip, sent, parity>>
  BY DEF MonoConstants, IInv, MonoTypeOK, TaskRead, Readers
<1>2. \E v \in {cur, None} : rBuf' = [rBuf EXCEPT ![readerIndex] = v]
  BY DEF TaskRead
<1>3. MonoTypeOK'
  <2>1. rBuf' \in [Readers -> Int]
    <3>1. cur \in Int /\ None \in Int /\ rBuf \in [Readers -> Int]
      BY DEF IInv, MonoTypeOK, None
    <3> QED BY <1>2, <3>1
  <2>2. readerIndex' \in 0 .. ReaderMax
    BY <1>1 DEF MonoConstants, Readers
  <2> QED BY <1>1, <2>1, <2>2 DEF IInv, MonoTypeOK
<1>4. PositionInv'
  BY <1>1 DEF IInv, PositionInv, Going
<1>5. BufferInv'
  <2>1. \A r \in Readers : r < readerIndex + 1 => r < readerIndex \/ r = readerIndex
    BY <1>1 DEF Readers
  <2> QED BY <1>1, <1>2, <2>1 DEF IInv, MonoTypeOK, BufferInv
<1>6. WriterInv'
  BY <1>1 DEF IInv, WriterInv
<1> QED BY <1>3, <1>4, <1>5, <1>6 DEF IInv

(* The parity is computed from the buffers only if all of them were read.  *)
LEMMA WritePresetIInv == ASSUME MonoConstants, IInv, WritePreset PROVE IInv'
<1>1. PICK b \in BOOLEAN :
        /\ (\E r \in Readers : rBuf[r] # cur) => b
        /\ skip' = b
        /\ wState' = [w \in Writers |-> IF b THEN "empty" ELSE "ready"]
        /\ sent' = IF b THEN sent ELSE sent \cup {cur}
        /\ pBuf' = IF b THEN pBuf ELSE rBuf[0]
  BY DEF WritePreset
<1>2. /\ mpc = "read" /\ mpc' = "write" /\ writerIndex' = 0 /\ writerError' = 0
      /\ UNCHANGED <<blockNext, readerIndex, rBuf, cur, parity>>
  BY DEF WritePreset
<1>3. 0 \in Readers /\ cur \in Enabled
  BY <1>2 DEF MonoConstants, IInv, PositionInv, Readers
<1>4. MonoTypeOK'
  BY <1>1, <1>2, <1>3 DEF MonoConstants, IInv, MonoTypeOK
<1>5. PositionInv'
  BY <1>2 DEF IInv, PositionInv, Going
<1>6. BufferInv'
  BY <1>1, <1>2, <1>3 DEF BufferInv
<1>7. WriterInv'
  BY <1>1, <1>2 DEF WriterInv, Writers
<1> QED BY <1>4, <1>5, <1>6, <1>7 DEF IInv

LEMMA ParityWriteIInv == ASSUME MonoConstants, IInv, ParityWrite PROVE IInv'
<1>1. /\ mpc = "write" /\ mpc' = mpc /\ writerIndex \in Writers
      /\ writerIndex' = writerIndex + 1
      /\ UNCHANGED <<blockNext, readerIndex, rBuf, pBuf, mpc, cur, skip, sent>>
  BY DEF MonoConstants, IInv, MonoTypeOK, ParityWrite, Writers
<1>2. MonoTypeOK'
  <2>1. writerIndex' \in 0 .. WriterMax
    BY <1>1 DEF MonoConstants, Writers
  <2>2. cur \in Enabled /\ pBuf \in Int
    BY <1>1 DEF IInv, MonoTypeOK, PositionInv
  <2>3. parity' \in [Writers -> [Enabled -> Int]]
    BY <1>1, <2>2 DEF IInv, MonoTypeOK, ParityWrite
  <2>4. wState' \in [Writers -> {"empty", "ready", "done", "error"}] /\ writerError' \in Nat
    BY <1>1 DEF IInv, MonoTypeOK, ParityWrite
  <2> QED BY <1>1, <2>1, <2>3, <2>4 DEF IInv, MonoTypeOK
<1>3. PositionInv' /\ BufferInv'
  BY <1>1 DEF IInv, PositionInv, BufferInv, Going
<1>4. WriterInv'
  <2> SUFFICES ASSUME NEW w \in Writers
               PROVE  IF w < writerIndex' THEN wState'[w] # "ready"
                      ELSE wState'[w] = IF skip THEN "empty" ELSE "ready"
    BY <1>1 DEF WriterInv
  <2>1. IF w < writerIndex THEN wState[w] # "ready"
        ELSE wState[w] = IF skip THEN "empty" ELSE "ready"
    BY <1>1 DEF IInv, WriterInv
  <2>2. CASE w = writerIndex
    <3>1. wState[w] = IF skip THEN "empty" ELSE "ready"
      BY <1>1, <2>1, <2>2 DEF Writers
    <3>2. w < writerIndex'
      BY <1>1, <2>2 DEF Writers
    <3>3. wState'[w] # "ready"
      BY <1>1, <2>2, <3>1 DEF IInv, MonoTypeOK, ParityWrite
    <3> QED BY <3>2, <3>3
  <2>3. CASE w # writerIndex
    <3>1. wState'[w] = wState[w]
      BY <1>1, <2>3 DEF IInv, MonoTypeOK, ParityWrite
    <3>2. w < writerIndex' <=> w < writerIndex
      BY <1>1, <2>3 DEF Writers
    <3> QED BY <2>1, <3>1, <3>2
  <2> QED BY <2>2, <2>3
<1> QED BY <1>2, <1>3, <1>4 DEF IInv

(* After the last writer no task is left.                                  *)
LEMMA WritersDone ==
    ASSUME MonoConstants, IInv, mpc = "write" => writerIndex = WriterMax
    PROVE  \A w \in Writers : wState[w] # "ready"
BY DEF MonoConstants, IInv, WriterInv, Writers

(* The other calls only collect the errors and move on.                    *)
LEMMA RestIInv ==
    ASSUME MonoConstants, IInv, Compare \/ WriteNext \/ Progress \/ Flush \/ Resume \/ Stop
           \/ UNCHANGED vars
    PROVE  IInv'
<1>1. CASE WriteNext
  <2>1. \A w \in Writers : wState[w] # "ready"
    BY <1>1, WritersDone DEF WriteNext
  <2> QED BY <1>1, <2>1 DEF IInv, MonoTypeOK, PositionInv, BufferInv, WriterInv, Going, WriteNext
<1>2. CASE Progress
  <2>1. mpc = "progress" /\ mpc' \in {"readnext", "auto", "last", "stop"}
    BY <1>2 DEF Progress, AfterLoop
  <2> QED BY <1>2, <2>1 DEF IInv, MonoTypeOK, PositionInv, BufferInv, WriterInv, Going, Progress
<1>3. CASE Flush
  <2>1. mpc' \in {"stop", IF mpc = "auto" THEN "autosaved" ELSE "lastsaved"}
    BY <1>3 DEF Flush
  <2> QED BY <1>3, <2>1 DEF IInv, MonoTypeOK, PositionInv, BufferInv, WriterInv, Going, Flush
<1>4. CASE Resume
  BY <1>4 DEF IInv, MonoTypeOK, PositionInv, BufferInv, WriterInv, Going, Resume
<1>5. CASE Stop
  BY <1>5 DEF IInv, MonoTypeOK, PositionInv, BufferInv, WriterInv, Going, Stop
<1>6. CASE UNCHANGED vars
  BY <1>6 DEF IInv, MonoTypeOK, PositionInv, BufferInv, WriterInv, Going, vars
<1>7. CASE Compare
  BY <1>7 DEF IInv, MonoTypeOK, PositionInv, BufferInv, WriterInv, Going, Compare
<1> QED BY <1>1, <1>2, <1>3, <1>4, <1>5, <1>6, <1>7

LEMMA NextIInv == ASSUME MonoConstants, IInv, [Next]_vars PROVE IInv'
BY ReadNextIInv, TaskReadIInv, WritePresetIInv, ParityWriteIInv, RestIInv
   DEF Next, Terminated

LEMMA Invariance == ASSUME MonoConstants PROVE Spec => []IInv
<1>1. Init => IInv
  BY InitIInv
<1>2. IInv /\ [Next]_vars => IInv'
  BY NextIInv
<1> QED BY <1>1, <1>2, PTL DEF Spec

(* The types, with the assertion of io_task_read_mono on the next reader   *)
(* and the bound of io_parity_write_mono on the next writer.               *)
THEOREM MonoTypeCorrect ==
    ASSUME MonoConstants PROVE Spec => []MonoTypeOK
<1>1. IInv => MonoTypeOK
  BY DEF IInv
<1> QED BY <1>1, Invariance, PTL

-----------------------------------------------------------------------------
(* The refinement of IoStream                                              *)

(* The readers not called yet, and the positions a writer has to write.    *)
ToRead == IF cur = None THEN {} ELSE readerIndex .. ReaderMax - 1
Queue == [w \in Writers |-> IF wState[w] = "ready" THEN {cur} ELSE {}]

LEMMA PhaseOf ==
    /\ mpc \in {"readnext", "write", "progress", "auto", "last"} => StreamPhase = "ready"
    /\ mpc = "read" => StreamPhase = "block"
    /\ mpc \in {"autosaved", "lastsaved"} => StreamPhase = "durable"
    /\ mpc = "stop" => StreamPhase = "stopping"
    /\ mpc = "end" => StreamPhase = "stopped"
BY DEF StreamPhase

LEMMA PhaseOfNext ==
    /\ mpc' \in {"readnext", "write", "progress", "auto", "last"} => StreamPhase' = "ready"
    /\ mpc' = "read" => StreamPhase' = "block"
    /\ mpc' \in {"autosaved", "lastsaved"} => StreamPhase' = "durable"
    /\ mpc' = "stop" => StreamPhase' = "stopping"
    /\ mpc' = "end" => StreamPhase' = "stopped"
BY DEF StreamPhase

LEMMA StreamInit == Init => Stream!Init
BY PhaseOf DEF Init, Stream!Init, None, Stream!None

(* io_read_next_mono is NextBlock.                                         *)
LEMMA ReadNextStream == ASSUME MonoConstants, IInv, ReadNext PROVE Stream!NextBlock
<1>1. PICK p \in blockNext .. blockNext + BlockMax :
        /\ NextPosition(blockNext, p)
        /\ cur' = p
        /\ mpc' \in IF p < BlockMax THEN {"read"} ELSE {"last", "stop"}
  BY DEF ReadNext, AfterLoop
<1>2. /\ mpc = "readnext" /\ readerIndex' = 0
      /\ UNCHANGED <<writerError, wState, sent, parity>>
  BY DEF ReadNext
<1>3. /\ cur < BlockMax /\ blockNext = IF cur = None THEN BlockStart ELSE cur + 1
      /\ cur = None \/ cur >= 0
      /\ cur \in Int /\ blockNext \in Nat /\ p \in Nat
  BY <1>1, <1>2 DEF MonoConstants, IInv, MonoTypeOK, PositionInv, Going
<1>4. cur' \in Enabled \cup (BlockMax .. BlockMax + BlockStart)
  <2>1. CASE p < BlockMax
    BY <1>1, <2>1 DEF NextPosition
  <2>2. CASE p >= BlockMax
    BY <1>1, <1>3, <2>2 DEF MonoConstants, NextPosition
  <2> QED BY <1>3, <2>1, <2>2 DEF MonoConstants
<1>5. Stream!NextPosition(IF cur = None THEN BlockStart ELSE cur + 1, cur')
  BY <1>1, <1>3 DEF NextPosition, Stream!NextPosition
<1>6. ToRead' = Readers
  BY <1>1, <1>2, <1>3 DEF ToRead, Readers, None
<1>7. Queue' = Queue
  BY <1>2 DEF Queue, IInv, WriterInv
<1>8. StreamPhase = "ready" /\ StreamPhase' \in IF cur' < BlockMax THEN {"block"} ELSE {"ready", "stopping"}
  BY <1>1, <1>2, <1>3, PhaseOf, PhaseOfNext DEF MonoConstants
<1> QED BY <1>2, <1>3, <1>4, <1>5, <1>6, <1>7, <1>8
        DEF Stream!NextBlock, Stream!None, None, ToRead, Queue

(* io_task_read_mono returns the next disk.                                *)
LEMMA TaskReadStream ==
    ASSUME MonoConstants, IInv, TaskRead PROVE \E r \in Readers : Stream!Return(r)
<1>1. /\ mpc = "read" /\ mpc' \in {"read", "stop"} /\ readerIndex \in Readers
      /\ readerIndex' = readerIndex + 1 /\ cur \in Enabled /\ cur # None
      /\ UNCHANGED <<writerError, wState, cur, sent, parity>>
  BY EnabledType DEF MonoConstants, IInv, MonoTypeOK, TaskRead, Readers, PositionInv
<1>2. readerIndex \in ToRead /\ ToRead' = ToRead \ {readerIndex}
  BY <1>1 DEF MonoConstants, ToRead, Readers
<1>3. StreamPhase = "block" /\ StreamPhase' \in {"block", "stopping"}
  BY <1>1, PhaseOf, PhaseOfNext
<1>4. Stream!Return(readerIndex)
  BY <1>1, <1>2, <1>3 DEF Stream!Return, ToRead
<1> QED BY <1>1, <1>4

(* io_write_preset_mono submits the position or skips it.                  *)
LEMMA WritePresetStream == ASSUME MonoConstants, IInv, WritePreset PROVE Stream!Submit
<1>1. PICK b \in BOOLEAN :
        /\ wState' = [w \in Writers |-> IF b THEN "empty" ELSE "ready"]
        /\ sent' = IF b THEN sent ELSE sent \cup {cur}
  BY DEF WritePreset
<1>2. /\ mpc = "read" /\ mpc' = "write" /\ readerIndex = ReaderMax /\ writerError' = 0
      /\ UNCHANGED <<readerIndex, cur, parity>>
  BY DEF WritePreset
<1>3. writerError = 0 /\ \A w \in Writers : wState[w] # "ready"
  BY <1>2 DEF IInv, WriterInv
<1>4. ToRead = {} /\ ToRead' = ToRead
  BY <1>2 DEF MonoConstants, ToRead
<1>5. Queue' = IF b THEN Queue ELSE [w \in Writers |-> Queue[w] \cup {cur}]
  BY <1>1, <1>2, <1>3 DEF Queue
<1>6. StreamPhase = "block" /\ StreamPhase' = "ready"
  BY <1>2, PhaseOf, PhaseOfNext
<1> QED BY <1>1, <1>2, <1>3, <1>4, <1>5, <1>6 DEF Stream!Submit, ToRead, Queue

(* Scrub skips every position.                                             *)
LEMMA CompareStream == ASSUME MonoConstants, IInv, Compare PROVE Stream!Submit
<1>1. /\ mpc = "read" /\ mpc' = "progress" /\ readerIndex = ReaderMax
      /\ UNCHANGED <<readerIndex, writerError, wState, cur, sent, parity>>
  BY DEF Compare
<1>2. writerError \in 0 .. writerError
  BY DEF IInv, MonoTypeOK
<1>3. ToRead = {} /\ ToRead' = ToRead /\ Queue' = Queue
  BY <1>1 DEF MonoConstants, ToRead, Queue
<1>4. StreamPhase = "block" /\ StreamPhase' = "ready"
  BY <1>1, PhaseOf, PhaseOfNext
<1> QED BY <1>1, <1>2, <1>3, <1>4 DEF Stream!Submit, ToRead, Queue

(* io_parity_write_mono writes the position, fails, or has nothing to do.  *)
LEMMA ParityWriteStream ==
    ASSUME MonoConstants, IInv, ParityWrite
    PROVE  (\E w \in Writers : Stream!Write(w)) \/ UNCHANGED Stream!vars
<1>1. /\ mpc = "write" /\ mpc' = mpc /\ writerIndex \in Writers
      /\ UNCHANGED <<readerIndex, cur, sent>>
  BY DEF MonoConstants, IInv, MonoTypeOK, ParityWrite, Writers
<1>2. StreamPhase' = StreamPhase /\ ToRead' = ToRead
  BY <1>1 DEF StreamPhase, ToRead
<1>3. wState[writerIndex] = IF skip THEN "empty" ELSE "ready"
  BY <1>1 DEF IInv, WriterInv, Writers
<1>4. CASE wState[writerIndex] = "empty"
  <2>1. UNCHANGED <<wState, parity, writerError>>
    BY <1>4 DEF ParityWrite
  <2> QED BY <1>1, <1>2, <2>1 DEF Stream!vars, ToRead
<1>5. CASE wState[writerIndex] = "ready"
  <2>1. pBuf = cur /\ cur \in Enabled /\ cur \in Int
    BY <1>1, <1>3, <1>5 DEF IInv, MonoTypeOK, PositionInv, BufferInv
  <2>2. Queue[writerIndex] = {cur}
    BY <1>1, <1>5 DEF Queue
  <2>3. Queue' = [Queue EXCEPT ![writerIndex] = @ \ {cur}]
    <3>1. \E x \in {"done", "error"} : wState' = [wState EXCEPT ![writerIndex] = x]
      BY <1>5 DEF ParityWrite
    <3>2. \A v \in Writers : v # writerIndex => wState'[v] = wState[v]
      BY <3>1 DEF IInv, MonoTypeOK
    <3>3. wState'[writerIndex] # "ready"
      BY <1>1, <3>1 DEF IInv, MonoTypeOK
    <3> QED BY <1>1, <2>2, <3>2, <3>3 DEF Queue
  <2>4. \/ parity' = [parity EXCEPT ![writerIndex][cur] = cur] /\ UNCHANGED writerError
        \/ writerError' = writerError + 1 /\ UNCHANGED parity
    BY <1>5, <2>1 DEF ParityWrite
  <2>5. PICK w \in Writers : w = writerIndex
    BY <1>1
  <2>6. Stream!Write(w)
    <3>1. cur \in Queue[w] /\ \A q \in Queue[w] : cur <= q
      BY <2>1, <2>2, <2>5
    <3> QED BY <1>1, <1>2, <2>3, <2>4, <2>5, <3>1 DEF Stream!Write, Queue, ToRead
  <2> QED BY <2>6
<1> QED BY <1>3, <1>4, <1>5

(* The calls that collect the errors, the barrier and io_stop_mono.        *)
LEMMA RestStream ==
    ASSUME MonoConstants, IInv, WriteNext \/ Progress \/ Flush \/ Resume \/ Stop \/ UNCHANGED vars
    PROVE  \/ Stream!Barrier \/ Stream!Resume \/ Stream!Bail \/ Stream!Stopped
           \/ UNCHANGED Stream!vars
<1>1. UNCHANGED <<readerIndex, cur, sent, wState, parity>>
  BY DEF WriteNext, Progress, Flush, Resume, Stop, vars
<1>2. ToRead' = ToRead /\ Queue' = Queue
  BY <1>1 DEF ToRead, Queue
<1>3. mpc # "write" => \A w \in Writers : Queue[w] = {}
  BY DEF IInv, WriterInv, Queue
<1>4. CASE WriteNext
  <2>1. CASE writerError = 0
    <3>1. StreamPhase' = StreamPhase /\ writerError' = writerError
      BY <1>4, <2>1, PhaseOf, PhaseOfNext DEF WriteNext
    <3> QED BY <1>1, <1>2, <3>1 DEF Stream!vars, ToRead, Queue
  <2>2. CASE writerError # 0
    <3>1. StreamPhase = "ready" /\ StreamPhase' = "stopping" /\ writerError' \in 0 .. writerError
      BY <1>4, <2>2, PhaseOf, PhaseOfNext DEF WriteNext, IInv, MonoTypeOK
    <3> QED BY <1>1, <1>2, <3>1 DEF Stream!Bail, ToRead, Queue
  <2> QED BY <2>1, <2>2
<1>5. CASE Progress
  <2>1. writerError' = writerError
    BY <1>5 DEF Progress
  <2>2. CASE mpc' = "stop"
    <3>1. StreamPhase = "ready" /\ StreamPhase' = "stopping" /\ writerError' \in 0 .. writerError
      BY <1>5, <2>1, <2>2, PhaseOf, PhaseOfNext DEF Progress, IInv, MonoTypeOK
    <3> QED BY <1>1, <1>2, <3>1 DEF Stream!Bail, ToRead, Queue
  <2>3. CASE mpc' # "stop"
    <3>1. StreamPhase' = StreamPhase
      BY <1>5, <2>3, PhaseOf, PhaseOfNext DEF Progress, AfterLoop
    <3> QED BY <1>1, <1>2, <2>1, <3>1 DEF Stream!vars, ToRead, Queue
  <2> QED BY <2>2, <2>3
<1>6. CASE Flush
  <2>1. mpc \in {"auto", "last"} /\ writerError = 0 /\ writerError' = 0
    BY <1>6 DEF IInv, WriterInv, Flush
  <2>2. CASE mpc' = "stop"
    <3>1. StreamPhase = "ready" /\ StreamPhase' = "stopping" /\ writerError' \in 0 .. writerError
      BY <2>1, <2>2, PhaseOf, PhaseOfNext
    <3> QED BY <1>1, <1>2, <3>1 DEF Stream!Bail, ToRead, Queue
  <2>3. CASE mpc' # "stop"
    <3>1. StreamPhase = "ready" /\ StreamPhase' = "durable"
      BY <1>6, <2>1, <2>3, PhaseOf, PhaseOfNext DEF Flush
    <3> QED BY <1>1, <1>2, <1>3, <2>1, <3>1 DEF Stream!Barrier, ToRead, Queue
  <2> QED BY <2>2, <2>3
<1>7. CASE Resume
  <2>1. writerError' = writerError
    BY <1>7 DEF Resume
  <2>2. StreamPhase = "durable" /\ StreamPhase' \in {"ready", "stopping"}
    BY <1>7, PhaseOf, PhaseOfNext DEF Resume
  <2> QED BY <1>1, <1>2, <2>1, <2>2 DEF Stream!Resume, ToRead, Queue
<1>8. CASE Stop
  <2>1. mpc = "stop" /\ writerError' = writerError
    BY <1>8 DEF Stop
  <2>2. StreamPhase = "stopping" /\ StreamPhase' = "stopped"
    BY <1>8, PhaseOf, PhaseOfNext DEF Stop
  <2> QED BY <1>1, <1>2, <1>3, <2>1, <2>2 DEF Stream!Stopped, ToRead, Queue
<1>9. CASE UNCHANGED vars
  <2>1. StreamPhase' = StreamPhase
    BY <1>9 DEF StreamPhase, vars
  <2> QED BY <1>2, <1>9, <2>1 DEF Stream!vars, vars, ToRead, Queue
<1> QED BY <1>4, <1>5, <1>6, <1>7, <1>8, <1>9

LEMMA NextStream ==
    ASSUME MonoConstants, IInv, [Next]_vars PROVE [Stream!Next]_Stream!vars
BY ReadNextStream, TaskReadStream, CompareStream, WritePresetStream,
   ParityWriteStream, RestStream
   DEF Next, Terminated, Stream!Next

(* One slot and no thread keep the promises of the ring: each call of the  *)
(* single thread engine is a step of IoStream, or nothing the caller sees. *)
THEOREM MonoKeepsPromises ==
    ASSUME MonoConstants PROVE Spec => MonoImplementsStream
<1>1. IInv /\ [Next]_vars => [Stream!Next]_Stream!vars
  BY NextStream
<1> QED BY <1>1, Invariance, StreamInit, PTL DEF Spec, MonoImplementsStream, Stream!Spec

=============================================================================
