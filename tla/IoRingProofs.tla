---------------------------- MODULE IoRingProofs ----------------------------
(***************************************************************************)
(* Proofs about the I/O ring, for any number of disks, parity levels,      *)
(* slots and positions.  The argument is about the two indexes of the main *)
(* thread: a reader stays strictly ahead of readerIndex once the main      *)
(* thread has consumed its task, a writer never reaches writerIndex, and   *)
(* the two indexes move in turn.  The second part shows that the ring      *)
(* keeps the promises of IoStream: there the invariant is about what the   *)
(* slots hold, the tasks of a writer in order and with the parity of their *)
(* position, and a failure told before the barrier that relies on it.      *)
(***************************************************************************)
EXTENDS IoRing, FiniteSetTheorems, TLAPS

-----------------------------------------------------------------------------
(* The inductive invariant                                                 *)

(* The slots from i excluded to j excluded, going round the ring.          *)
Between(i, s, j) == IF i < j THEN i < s /\ s < j ELSE i < s \/ s < j

(* The slot is in the hands of the reader.                                 *)
InUse(r, s) == s = rIndex[r] /\ rPc[r] \in {"work", "signal"}

(* The read task of the slot is finished.                                  *)
Settled(r, s) ==
    rPos[s] < BlockMax =>
        rState[r][s] = "error" \/ (rState[r][s] = "done" /\ rBuf[r][s] = rPos[s])

ReaderInv(r) ==
    /\ r \notin readerList => rIndex[r] # readerIndex
    /\ rPc[r] # "abort"
    /\ \A s \in Slots : Between(rIndex[r], s, readerIndex) \/ InUse(r, s)
          => rState[r][s] = ScheduledState(rPos[s])
    /\ \A s \in Slots : Between(rIndex[r], s, readerIndex) \/ InUse(r, s)
          \/ rPos[s] = None \/ Settled(r, s)

WriterInv(w) ==
    /\ wIndex[w] # writerIndex
    /\ w \notin writerList => wIndex[w] # Succ(writerIndex)
    /\ wPc[w] # "abort"
    /\ \A s \in Slots : Between(wIndex[w], s, writerIndex)
                        \/ (s = wIndex[w] /\ wPc[w] \in {"work", "signal"})
          => wState[w][s] \in {"ready", "empty"}

(* The main thread is between two blocks, or in a block.                   *)
BetweenBlocks ==
    \/ mpc \in {"begin", "readnext", "progress"}
    \/ mpc \in {"flush", "quiesce", "saved"} /\ mTarget = "readnext"
    \/ mpc = "writebcast"

InBlock == mpc \in {"data", "parity", "compute", "pwrite"}

MainInv ==
    /\ BetweenBlocks => readerList = {}
    /\ mpc = "parity" => readerList \subseteq ParityReaders
    /\ mpc \in {"compute", "pwrite"} => readerList = {}
    /\ mpc \in {"flush", "quiesce", "saved"} => mTarget \in {"readnext", "stop"}
    /\ mpc \in {"begin", "readbcast"} => mTarget = "stop"
    /\ mpc = "writebcast" => mTarget \in {"progress", "stop"}
    /\ mpc \in {"pwrite", "writebcast"} => WriterMax > 0
    /\ WriterMax > 0 /\ BetweenBlocks => writerIndex = Succ(readerIndex)
    /\ WriterMax > 0 /\ (InBlock \/ mpc = "readbcast") => writerIndex = readerIndex

PositionInv ==
    /\ \A s \in Slots : rPos[s] = None => s = readerIndex
    /\ \A s \in Slots : rPos[s] # None /\ rPos[s] < BlockMax => rPos[s] \in Enabled
    /\ InBlock \/ mpc = "readbcast" => cur = rPos[readerIndex] /\ cur # None
    /\ InBlock => cur \in Enabled

IInv ==
    /\ TypeOK
    /\ \A r \in Readers : ReaderInv(r)
    /\ \A w \in Writers : WriterInv(w)
    /\ MainInv
    /\ PositionInv

-----------------------------------------------------------------------------
(* The ring                                                                *)

LEMMA SuccType == \A i \in Slots : Succ(i) \in Slots /\ Succ(i) # i
BY IoAssumption, SMT DEF Slots, Succ

LEMMA SuccInjective == \A i, j \in Slots : Succ(i) = Succ(j) => i = j
BY IoAssumption, SMT DEF Slots, Succ

(* What is left between i and j when i moves by one.                       *)
LEMMA BetweenTake ==
    \A i, j, s \in Slots : Succ(i) # j =>
        (Between(i, s, j) <=> s = Succ(i) \/ Between(Succ(i), s, j))
BY IoAssumption, SMT DEF Slots, Succ, Between

LEMMA BetweenTaken == \A i, j \in Slots : ~Between(i, i, j) /\ ~Between(i, j, j)
BY IoAssumption, SMT DEF Slots, Between

(* What is between i and j when j moves by one.                            *)
LEMMA BetweenSchedule ==
    \A i, j, s \in Slots : i # j =>
        (Between(i, s, Succ(j)) <=> (s = j \/ Between(i, s, j)) /\ s # i)
BY IoAssumption, SMT DEF Slots, Succ, Between

-----------------------------------------------------------------------------
(* What a step leaves alone                                                *)

LEMMA ReaderFrame ==
    ASSUME NEW r \in Readers, ReaderInv(r),
           UNCHANGED <<readerIndex, rPos>>,
           r \in readerList => r \in readerList',
           rIndex'[r] = rIndex[r], rState'[r] = rState[r], rBuf'[r] = rBuf[r],
           rPc'[r] = rPc[r] \/ (rPc[r] = "wait" /\ rPc'[r] = "step")
    PROVE  ReaderInv(r)'
BY DEF ReaderInv, InUse, Settled, Between

LEMMA WriterFrame ==
    ASSUME NEW w \in Writers, WriterInv(w),
           UNCHANGED writerIndex,
           w \in writerList => w \in writerList',
           wIndex'[w] = wIndex[w], wState'[w] = wState[w],
           wPc'[w] = wPc[w] \/ (wPc[w] = "wait" /\ wPc'[w] = "step")
    PROVE  WriterInv(w)'
BY DEF WriterInv, Between

LEMMA MainFrame ==
    ASSUME MainInv, PositionInv,
           UNCHANGED <<readerIndex, writerIndex, readerList, rPos, mpc, mTarget, cur>>
    PROVE  MainInv' /\ PositionInv'
BY DEF MainInv, PositionInv, BetweenBlocks, InBlock

-----------------------------------------------------------------------------
(* The initial states                                                      *)

LEMMA InitInv == Init => IInv
<1> SUFFICES ASSUME Init PROVE IInv
  OBVIOUS
<1>1. \A s \in Slots : rPos[s] \in Int /\ rPos[s] >= -1
  BY IoAssumption DEF Init, None
<1>2. \A s \in Slots : s # IoMax - 1 => rPos[s] >= 0
  <2> TAKE s \in Slots
  <2>1. CASE s = 0
    BY <2>1, <1>1, IoAssumption DEF Init, NextPosition, Slots
  <2>2. CASE s \in 1 .. IoMax - 2
    <3>1. s - 1 \in Slots
      BY <2>2, IoAssumption DEF Slots
    <3>2. rPos[s] >= rPos[s - 1] + 1
      BY <2>2 DEF Init, NextPosition
    <3> QED BY <3>1, <3>2, <1>1
  <2> QED BY <2>1, <2>2, IoAssumption DEF Slots
<1>3. TypeOK
  <2>1. rPos \in [Slots -> Int]
    BY <1>1, IoAssumption DEF Init
  <2>2. blockNext \in Nat
    BY <1>1, IoAssumption DEF Init, Slots
  <2>3. 0 \in Slots /\ IoMax - 1 \in Slots
    BY IoAssumption DEF Slots
  <2>4. rState \in [Readers -> [Slots -> TaskState]]
    BY DEF Init, TaskState, ScheduledState
  <2> QED BY <2>1, <2>2, <2>3, <2>4, ZenonT(60) DEF Init, TypeOK, None, TaskState
<1>4. \A r \in Readers : ReaderInv(r)
  <2> TAKE r \in Readers
  <2>1. \A s \in Slots : Between(0, s, IoMax - 1) \/ s = 0 <=> s # IoMax - 1
    BY IoAssumption DEF Slots, Between
  <2>2. \A s \in Slots : s # IoMax - 1 => rState[r][s] = ScheduledState(rPos[s])
    BY DEF Init
  <2>3. rPos[IoMax - 1] = None /\ rIndex[r] = 0 /\ rPc[r] = "work" /\ readerIndex = IoMax - 1
    BY DEF Init
  <2>4. 0 # IoMax - 1
    BY IoAssumption
  <2> QED BY <2>1, <2>2, <2>3, <2>4 DEF ReaderInv, InUse
<1>5. \A w \in Writers : WriterInv(w)
  BY IoAssumption DEF Init, WriterInv, Between, Slots
<1>6. MainInv
  BY IoAssumption DEF Init, MainInv, BetweenBlocks, InBlock, Succ
<1>7. PositionInv
  <2>1. \A s \in Slots : rPos[s] = None => s = readerIndex
    BY <1>2 DEF Init, None
  <2>2. \A s \in Slots : s # IoMax - 1 /\ rPos[s] < BlockMax => rPos[s] \in Enabled
    BY IoAssumption DEF Init, NextPosition, Slots
  <2> QED BY <2>1, <2>2 DEF Init, PositionInv, InBlock
<1> QED BY <1>3, <1>4, <1>5, <1>6, <1>7 DEF IInv

-----------------------------------------------------------------------------
(* The steps of the readers                                                *)

LEMMA ReaderWorkInv == ASSUME IInv, NEW r \in Readers, ReaderWork(r) PROVE IInv'
<1> USE DEF ringVars, readTaskVars, writeTaskVars, readerVars, writerVars, mainVars
<1>0. rIndex[r] \in Slots /\ rPos[rIndex[r]] \in Int
  BY DEF IInv, TypeOK
<1>1. TypeOK'
  <2>1. rState' \in [Readers -> [Slots -> TaskState]]
    <3>1. PICK v \in TaskState : rState' = [rState EXCEPT ![r][rIndex[r]] = v]
      BY DEF ReaderWork, TaskState
    <3> QED BY <3>1, <1>0 DEF IInv, TypeOK
  <2>2. rBuf' \in [Readers -> [Slots -> Int]]
    BY <1>0 DEF IInv, TypeOK, ReaderWork, None
  <2>3. rPc' \in [Readers -> {"work", "step", "signal", "wait", "exit", "abort"}]
    BY DEF IInv, TypeOK, ReaderWork
  <2> QED BY <2>1, <2>2, <2>3 DEF IInv, TypeOK, ReaderWork
<1>2. ASSUME NEW q \in Readers PROVE ReaderInv(q)'
  <2>1. CASE q = r
    <3>1. /\ rPc[r] = "work" /\ rPc'[r] = "step" /\ rIndex[r] \in Slots
          /\ UNCHANGED <<readerIndex, readerList, rPos, rIndex>>
      BY DEF IInv, TypeOK, ReaderWork
    <3>2. \A s \in Slots : s # rIndex[r] =>
             rState'[r][s] = rState[r][s] /\ rBuf'[r][s] = rBuf[r][s]
      BY DEF IInv, TypeOK, ReaderWork
    <3>3. Settled(r, rIndex[r])'
      <4>1. CASE rPos[rIndex[r]] >= BlockMax
        BY <4>1, <3>1, <1>0, IoAssumption DEF Settled
      <4>2. CASE rState' = [rState EXCEPT ![r][rIndex[r]] = "error"]
        BY <4>2, <3>1 DEF Settled, IInv, TypeOK
      <4>3. CASE /\ rState' = [rState EXCEPT ![r][rIndex[r]] = "done"]
                 /\ rBuf' = [rBuf EXCEPT ![r][rIndex[r]] = rPos[rIndex[r]]]
        BY <4>3, <3>1 DEF Settled, IInv, TypeOK
      <4> QED BY <4>1, <4>2, <4>3 DEF ReaderWork
    <3>4. \A s \in Slots : s # rIndex[r] => (Settled(r, s)' <=> Settled(r, s))
      BY <3>1, <3>2 DEF Settled
    <3>5. ~Between(rIndex[r], rIndex[r], readerIndex)
      BY <3>1, BetweenTaken DEF IInv, TypeOK
    <3>6. ReaderInv(r)
      BY DEF IInv
    <3> QED BY <2>1, <3>1, <3>2, <3>3, <3>4, <3>5, <3>6 DEF ReaderInv, InUse, Between
  <2>2. CASE q # r
    BY <2>2, ReaderFrame DEF IInv, TypeOK, ReaderWork
  <2> QED BY <2>1, <2>2
<1>3. ASSUME NEW w \in Writers PROVE WriterInv(w)'
  BY WriterFrame DEF IInv, ReaderWork
<1>4. MainInv' /\ PositionInv'
  BY MainFrame DEF IInv, ReaderWork
<1> QED BY <1>1, <1>2, <1>3, <1>4 DEF IInv

LEMMA ReaderTakeInv == ASSUME IInv, NEW r \in Readers, ReaderTake(r) PROVE IInv'
<1> USE DEF ringVars, readTaskVars, writeTaskVars, readerVars, writerVars, mainVars
<1> DEFINE next == Succ(rIndex[r])
<1>0. /\ rIndex[r] \in Slots /\ readerIndex \in Slots /\ next \in Slots /\ next # readerIndex
      /\ rPc[r] = "step" /\ rIndex'[r] = next
      /\ UNCHANGED <<readerIndex, readerList, rPos, rState, rBuf>>
  BY SuccType DEF IInv, TypeOK, ReaderTake
<1>1. rState[r][next] = ScheduledState(rPos[next])
  BY <1>0, BetweenTake DEF IInv, ReaderInv
<1>2. \/ rPc'[r] = "signal"
      \/ rPc'[r] = "step" /\ rState[r][next] = "empty"
      \/ rPc'[r] = "work"
  BY <1>1 DEF IInv, TypeOK, ReaderTake, AfterReadTake, ScheduledState
<1>3. \A q \in Readers : q # r => rIndex'[q] = rIndex[q] /\ rPc'[q] = rPc[q]
  BY DEF IInv, TypeOK, ReaderTake
<1>4. TypeOK'
  <2>1. rIndex' \in [Readers -> Slots] /\ rBusy' \in [Readers -> BOOLEAN]
    BY <1>0 DEF IInv, TypeOK, ReaderTake
  <2>2. rPc' \in [Readers -> {"work", "step", "signal", "wait", "exit", "abort"}]
    BY DEF IInv, TypeOK, ReaderTake, AfterReadTake
  <2>3. mWait' \in BOOLEAN
    BY DEF IInv, TypeOK, ReaderTake, SignalReadDone
  <2> QED BY <2>1, <2>2, <2>3 DEF IInv, TypeOK, ReaderTake
<1>5. ASSUME NEW q \in Readers PROVE ReaderInv(q)'
  <2>1. CASE q = r
    <3>1. ReaderInv(r)
      BY DEF IInv
    <3>2. \A s \in Slots : Between(rIndex[r], s, readerIndex) <=>
                            s = next \/ Between(next, s, readerIndex)
      BY <1>0, BetweenTake
    <3>3. \A s \in Slots : Settled(r, s)' <=> Settled(r, s)
      BY <1>0 DEF Settled
    <3>4. rState[r][next] = "empty" => Settled(r, next)
      BY <1>1 DEF Settled, ScheduledState
    <3>5. \A s \in Slots : InUse(r, s)' <=> s = next /\ rPc'[r] \in {"work", "signal"}
      BY <1>0 DEF InUse
    <3>6. \A s \in Slots : ~InUse(r, s)
      BY <1>0 DEF InUse
    <3>7. \A s \in Slots : Between(rIndex[r], s, readerIndex)' <=> Between(next, s, readerIndex)
      BY <1>0 DEF Between
    <3>8. rIndex'[r] # readerIndex'
      BY <1>0
    <3>9. rPc'[r] # "abort"
      BY <1>2
    <3>10. \A s \in Slots : Between(rIndex[r], s, readerIndex)' \/ InUse(r, s)'
              => rState'[r][s] = ScheduledState(rPos'[s])
      BY <1>0, <1>1, <3>1, <3>2, <3>5, <3>7 DEF ReaderInv
    <3>11. \A s \in Slots : Between(rIndex[r], s, readerIndex)' \/ InUse(r, s)'
              \/ rPos'[s] = None \/ Settled(r, s)'
      BY <1>0, <1>2, <3>1, <3>2, <3>3, <3>4, <3>5, <3>6, <3>7 DEF ReaderInv
    <3> QED BY <2>1, <3>8, <3>9, <3>10, <3>11 DEF ReaderInv, ScheduledState
  <2>2. CASE q # r
    BY <2>2, <1>0, <1>3, ReaderFrame DEF IInv
  <2> QED BY <2>1, <2>2
<1>6. ASSUME NEW w \in Writers PROVE WriterInv(w)'
  BY WriterFrame DEF IInv, ReaderTake
<1>7. MainInv' /\ PositionInv'
  BY MainFrame DEF IInv, ReaderTake
<1> QED BY <1>4, <1>5, <1>6, <1>7 DEF IInv

(* The other steps of a reader change only where it is.                    *)
LEMMA ReaderRestInv ==
    ASSUME IInv, NEW r \in Readers,
           ReaderSignal(r) \/ ReaderWait(r) \/ ReaderExit(r) \/ ReaderSpurious(r)
    PROVE  IInv'
<1> USE DEF ringVars, readTaskVars, writeTaskVars, readerVars, writerVars, mainVars
<1>0. /\ UNCHANGED <<ringVars, readTaskVars, rIndex, writeTaskVars, writerVars, mpc, mTarget, cur>>
      /\ \A q \in Readers : q # r => rPc'[q] = rPc[q]
  BY DEF IInv, TypeOK, ReaderSignal, ReaderWait, ReaderExit, ReaderSpurious
<1>1. TypeOK'
  <2>1. CASE ReaderSignal(r)
    BY <2>1 DEF IInv, TypeOK, ReaderSignal, SignalReadDone, AfterReadTake
  <2>2. CASE ReaderWait(r)
    BY <2>2 DEF IInv, TypeOK, ReaderWait
  <2>3. CASE ReaderExit(r)
    BY <2>3 DEF IInv, TypeOK, ReaderExit
  <2>4. CASE ReaderSpurious(r)
    BY <2>4 DEF IInv, TypeOK, ReaderSpurious
  <2> QED BY <2>1, <2>2, <2>3, <2>4
<1>2. ASSUME NEW q \in Readers PROVE ReaderInv(q)'
  <2>1. CASE q = r /\ ReaderSignal(r)
    <3>1. ReaderInv(r) /\ rIndex[r] \in Slots /\ rPc[r] = "signal"
      BY <2>1 DEF IInv, TypeOK, ReaderSignal
    <3>2. rState[r][rIndex[r]] = ScheduledState(rPos[rIndex[r]])
      BY <3>1 DEF ReaderInv, InUse
    <3>3. rPc'[r] = "work" \/ (rPc'[r] = "step" /\ rState[r][rIndex[r]] = "empty")
      BY <2>1, <3>2 DEF IInv, TypeOK, ReaderSignal, AfterReadTake, ScheduledState
    <3>4. rState[r][rIndex[r]] = "empty" => Settled(r, rIndex[r])
      BY <3>2 DEF Settled, ScheduledState
    <3> QED BY <2>1, <3>1, <3>3, <3>4, <1>0 DEF ReaderInv, InUse, Settled, Between, ScheduledState
  <2>2. CASE q = r /\ ~ReaderSignal(r)
    <3>1. ReaderInv(r) /\ rPc[r] \in {"step", "wait"} /\ rPc'[r] \in {"step", "wait", "exit"}
      BY <2>2 DEF IInv, TypeOK, ReaderWait, ReaderExit, ReaderSpurious
    <3> QED BY <2>2, <3>1, <1>0 DEF ReaderInv, InUse, Settled, Between, ScheduledState
  <2>3. CASE q # r
    BY <2>3, <1>0, ReaderFrame DEF IInv
  <2> QED BY <2>1, <2>2, <2>3
<1>3. ASSUME NEW w \in Writers PROVE WriterInv(w)'
  BY <1>0, WriterFrame DEF IInv
<1>4. MainInv' /\ PositionInv'
  BY <1>0, MainFrame DEF IInv
<1> QED BY <1>1, <1>2, <1>3, <1>4 DEF IInv

-----------------------------------------------------------------------------
(* The steps of the writers                                                *)

LEMMA WriterWorkInv == ASSUME IInv, NEW w \in Writers, WriterWork(w) PROVE IInv'
<1> USE DEF ringVars, readTaskVars, writeTaskVars, readerVars, writerVars, mainVars
<1>0. /\ wIndex[w] \in Slots /\ pBuf[wIndex[w]] \in Int
      /\ wPc[w] = "work" /\ wPc'[w] = "step"
      /\ UNCHANGED <<ringVars, rPos, wIndex, readerVars, rState, rBuf, mainVars>>
      /\ \A v \in Writers : v # w => wPc'[v] = wPc[v] /\ wState'[v] = wState[v]
  BY DEF IInv, TypeOK, WriterWork
<1>1. TypeOK'
  <2>1. PICK v \in TaskState : wState' = [wState EXCEPT ![w][wIndex[w]] = v]
    BY DEF WriterWork, TaskState
  <2>2. wState' \in [Writers -> [Slots -> TaskState]]
    BY <2>1, <1>0 DEF IInv, TypeOK
  <2>3. wLatest' \in [Writers -> {"done", "error"}]
    BY DEF IInv, TypeOK, WriterWork
  <2>4. parity' \in [Writers -> [Enabled -> Int]]
    <3>1. parity \in [Writers -> [Enabled -> Int]]
      BY DEF IInv, TypeOK
    <3>2. PICK p : parity' = parity \/ parity' = [parity EXCEPT ![w][p] = pBuf[wIndex[w]]]
      BY DEF WriterWork
    <3>3. [parity[w] EXCEPT ![p] = pBuf[wIndex[w]]] \in [Enabled -> Int]
      BY <3>1, <1>0
    <3> QED BY <3>1, <3>2, <3>3
  <2>5. wPc' \in [Writers -> {"work", "step", "signal", "wait", "exit", "abort"}]
    BY DEF IInv, TypeOK, WriterWork
  <2> QED BY <2>2, <2>3, <2>4, <2>5 DEF IInv, TypeOK, WriterWork
<1>2. ASSUME NEW r \in Readers PROVE ReaderInv(r)'
  BY <1>0, ReaderFrame DEF IInv
<1>3. ASSUME NEW v \in Writers PROVE WriterInv(v)'
  <2>1. CASE v = w
    <3>1. ~Between(wIndex[w], wIndex[w], writerIndex)
      BY <1>0, BetweenTaken DEF IInv, TypeOK
    <3>2. \A s \in Slots : s # wIndex[w] => wState'[w][s] = wState[w][s]
      BY DEF IInv, TypeOK, WriterWork
    <3> QED BY <2>1, <3>1, <3>2, <1>0 DEF IInv, WriterInv, Between
  <2>2. CASE v # w
    BY <2>2, <1>0, WriterFrame DEF IInv
  <2> QED BY <2>1, <2>2
<1>4. MainInv' /\ PositionInv'
  BY <1>0, MainFrame DEF IInv
<1> QED BY <1>1, <1>2, <1>3, <1>4 DEF IInv

LEMMA AddWriterErrorType ==
    ASSUME TypeOK, NEW w \in Writers, AddWriterError(w)
    PROVE  writerError' \in Nat /\ wLatest' \in [Writers -> {"done", "error"}]
BY DEF TypeOK, AddWriterError

LEMMA WriterTakeInv == ASSUME IInv, NEW w \in Writers, WriterTake(w) PROVE IInv'
<1> USE DEF ringVars, readTaskVars, writeTaskVars, readerVars, writerVars, mainVars
<1> DEFINE next == Succ(wIndex[w])
<1>0. /\ wIndex[w] \in Slots /\ writerIndex \in Slots /\ next \in Slots /\ next # writerIndex
      /\ wPc[w] = "step" /\ wIndex'[w] = next
      /\ UNCHANGED <<ringVars, readTaskVars, writeTaskVars, readerVars, mpc, mTarget, cur>>
      /\ \A v \in Writers : v # w => wIndex'[v] = wIndex[v] /\ wPc'[v] = wPc[v]
  BY SuccType DEF IInv, TypeOK, WriterTake
<1>1. wState[w][next] \in {"ready", "empty"}
  BY <1>0, BetweenTake DEF IInv, WriterInv
<1>2. wPc'[w] \in {"signal", "step", "work"}
  BY <1>1 DEF IInv, TypeOK, WriterTake, AfterWriteTake
<1>3. TypeOK'
  <2>1. wIndex' \in [Writers -> Slots] /\ wBusy' \in [Writers -> BOOLEAN]
    BY <1>0 DEF IInv, TypeOK, WriterTake
  <2>2. wPc' \in [Writers -> {"work", "step", "signal", "wait", "exit", "abort"}]
    BY DEF IInv, TypeOK, WriterTake, AfterWriteTake
  <2>3. mWait' \in BOOLEAN
    BY DEF IInv, TypeOK, WriterTake, SignalWriteDone
  <2>4. writerError' \in Nat /\ wLatest' \in [Writers -> {"done", "error"}]
    BY AddWriterErrorType DEF IInv, WriterTake
  <2> QED BY <2>1, <2>2, <2>3, <2>4 DEF IInv, TypeOK, WriterTake
<1>4. ASSUME NEW r \in Readers PROVE ReaderInv(r)'
  BY <1>0, ReaderFrame DEF IInv
<1>5. ASSUME NEW v \in Writers PROVE WriterInv(v)'
  <2>1. CASE v = w
    <3>1. WriterInv(w)
      BY DEF IInv
    <3>2. \A s \in Slots : Between(next, s, writerIndex) => Between(wIndex[w], s, writerIndex)
      BY <1>0, BetweenTake
    <3>3. \A s \in Slots : Between(wIndex[w], s, writerIndex)' <=> Between(next, s, writerIndex)
      BY <1>0 DEF Between
    <3>4. w \notin writerList => next # Succ(writerIndex)
      BY <1>0, <3>1, SuccInjective DEF WriterInv
    <3>5. Succ(writerIndex)' = Succ(writerIndex)
      BY <1>0 DEF Succ
    <3> QED BY <2>1, <3>1, <3>2, <3>3, <3>4, <3>5, <1>0, <1>1, <1>2 DEF WriterInv
  <2>2. CASE v # w
    BY <2>2, <1>0, WriterFrame DEF IInv
  <2> QED BY <2>1, <2>2
<1>6. MainInv' /\ PositionInv'
  BY <1>0, MainFrame DEF IInv
<1> QED BY <1>3, <1>4, <1>5, <1>6 DEF IInv

(* The other steps of a writer change only where it is.                    *)
LEMMA WriterRestInv ==
    ASSUME IInv, NEW w \in Writers,
           WriterSignal(w) \/ WriterWait(w) \/ WriterExit(w) \/ WriterSpurious(w)
    PROVE  IInv'
<1> USE DEF ringVars, readTaskVars, writeTaskVars, readerVars, writerVars, mainVars
<1>0. /\ UNCHANGED <<ringVars, readTaskVars, writeTaskVars, wIndex, readerVars, mpc, mTarget, cur>>
      /\ \A v \in Writers : v # w => wPc'[v] = wPc[v]
  BY DEF IInv, TypeOK, WriterSignal, WriterWait, WriterExit, WriterSpurious
<1>1. TypeOK'
  <2>1. CASE WriterSignal(w)
    BY <2>1 DEF IInv, TypeOK, WriterSignal, SignalWriteDone, AfterWriteTake
  <2>2. CASE WriterWait(w)
    BY <2>2, AddWriterErrorType DEF IInv, TypeOK, WriterWait
  <2>3. CASE WriterExit(w)
    BY <2>3, AddWriterErrorType DEF IInv, TypeOK, WriterExit
  <2>4. CASE WriterSpurious(w)
    BY <2>4 DEF IInv, TypeOK, WriterSpurious
  <2> QED BY <2>1, <2>2, <2>3, <2>4
<1>2. ASSUME NEW r \in Readers PROVE ReaderInv(r)'
  BY <1>0, ReaderFrame DEF IInv
<1>3. ASSUME NEW v \in Writers PROVE WriterInv(v)'
  <2>1. CASE v = w /\ WriterSignal(w)
    <3>1. WriterInv(w) /\ wIndex[w] \in Slots /\ wPc[w] = "signal"
      BY <2>1 DEF IInv, TypeOK, WriterSignal
    <3>2. wPc'[w] \in {"work", "step"}
      BY <2>1, <3>1 DEF IInv, TypeOK, WriterSignal, WriterInv, AfterWriteTake
    <3> QED BY <2>1, <3>1, <3>2, <1>0 DEF WriterInv, Between, Succ
  <2>2. CASE v = w /\ ~WriterSignal(w)
    <3>1. WriterInv(w) /\ wPc'[w] \in {"step", "wait", "exit"}
      BY <2>2 DEF IInv, TypeOK, WriterWait, WriterExit, WriterSpurious
    <3> QED BY <2>2, <3>1, <1>0 DEF WriterInv, Between, Succ
  <2>3. CASE v # w
    BY <2>3, <1>0, WriterFrame DEF IInv
  <2> QED BY <2>1, <2>2, <2>3
<1>4. MainInv' /\ PositionInv'
  BY <1>0, MainFrame DEF IInv
<1> QED BY <1>1, <1>2, <1>3, <1>4 DEF IInv

-----------------------------------------------------------------------------
(* The steps of the main thread that move the indexes or the lists         *)

LEMMA ReadNextInv == ASSUME IInv, ReadNext PROVE IInv'
<1> USE DEF ringVars, readTaskVars, writeTaskVars, readerVars, writerVars, mainVars
<1> DEFINE next == Succ(readerIndex)
<1>0. /\ mpc = "readnext" /\ readerList = {}
      /\ readerIndex \in Slots /\ next \in Slots /\ next # readerIndex
      /\ readerIndex' = next /\ readerList' = Readers /\ cur' = rPos[next]
      /\ mpc' \in {"readbcast", "flush", "stop", "data"} /\ (mpc' = "data" => cur' < BlockMax)
      /\ mTarget' = "stop"
      /\ UNCHANGED <<done, writerIndex, writerList, writerError, rBuf, writeTaskVars,
                     rIndex, rBusy, writerVars, mWait, skip, sent, parity>>
  <2>1. mpc = "readnext" /\ readerList = {} /\ readerIndex \in Slots
    BY DEF IInv, TypeOK, MainInv, BetweenBlocks, ReadNext
  <2>2. cur' \in Int
    BY <2>1, SuccType DEF IInv, TypeOK, ReadNext
  <2> QED BY <2>1, <2>2, SuccType, IoAssumption DEF ReadNext, AfterReadNext, AfterLoop
<1>1. PICK p \in Nat :
         /\ NextPosition(blockNext, p)
         /\ blockNext' = p + 1
         /\ rPos' = [rPos EXCEPT ![readerIndex] = p]
         /\ rState' = [r \in Readers |-> [rState[r] EXCEPT ![readerIndex] = ScheduledState(p)]]
  <2>1. PICK p \in blockNext .. (blockNext + BlockMax) :
           /\ NextPosition(blockNext, p)
           /\ blockNext' = p + 1
           /\ rPos' = [rPos EXCEPT ![readerIndex] = p]
           /\ rState' = [r \in Readers |-> [rState[r] EXCEPT ![readerIndex] = ScheduledState(p)]]
    BY DEF ReadNext
  <2>2. p \in Nat
    BY IoAssumption DEF IInv, TypeOK
  <2> QED BY <2>1, <2>2
<1>2. /\ rPos'[readerIndex] = p
      /\ \A s \in Slots : s # readerIndex => rPos'[s] = rPos[s]
      /\ rPos' \in [Slots -> Int]
  BY <1>0, <1>1 DEF IInv, TypeOK
<1>3. /\ \A r \in Readers : rState'[r][readerIndex] = ScheduledState(p)
      /\ \A r \in Readers, s \in Slots : s # readerIndex => rState'[r][s] = rState[r][s]
      /\ rState' \in [Readers -> [Slots -> TaskState]]
  BY <1>0, <1>1 DEF IInv, TypeOK, ScheduledState, TaskState
<1>4. /\ \A r \in Readers : rPc'[r] = rPc[r] \/ (rPc[r] = "wait" /\ rPc'[r] = "step")
      /\ rPc' \in [Readers -> {"work", "step", "signal", "wait", "exit", "abort"}]
  BY DEF IInv, TypeOK, ReadNext, WokenReaders
<1>5. TypeOK'
  BY <1>0, <1>1, <1>2, <1>3, <1>4 DEF IInv, TypeOK
<1>6. ASSUME NEW r \in Readers PROVE ReaderInv(r)'
  <2>1. ReaderInv(r) /\ rIndex[r] # readerIndex /\ rIndex[r] \in Slots
    BY <1>0 DEF IInv, TypeOK, ReaderInv
  <2>2. \A s \in Slots : Between(rIndex[r], s, readerIndex)' <=>
                          (s = readerIndex \/ Between(rIndex[r], s, readerIndex)) /\ s # rIndex[r]
    <3>1. \A s \in Slots : Between(rIndex[r], s, readerIndex)' <=> Between(rIndex[r], s, next)
      BY <1>0 DEF Between
    <3> QED BY <3>1, <2>1, <1>0, BetweenSchedule
  <2>3. \A s \in Slots : InUse(r, s)' <=> InUse(r, s)
    BY <1>0, <1>4 DEF InUse
  <2>4. \A s \in Slots : s # readerIndex => (Settled(r, s)' <=> Settled(r, s))
    BY <1>0, <1>2, <1>3 DEF Settled
  <2>5. \A s \in Slots : InUse(r, s) => s = rIndex[r]
    BY DEF InUse
  <2>6. rPc'[r] # "abort"
    BY <2>1, <1>4 DEF ReaderInv
  <2>7. ASSUME NEW s \in Slots, Between(rIndex[r], s, readerIndex)' \/ InUse(r, s)'
        PROVE  rState'[r][s] = ScheduledState(rPos'[s])
    <3>1. CASE s = readerIndex
      BY <3>1, <1>2, <1>3
    <3>2. CASE s # readerIndex
      BY <3>2, <2>1, <2>2, <2>3, <2>7, <1>2, <1>3 DEF ReaderInv
    <3> QED BY <3>1, <3>2
  <2>8. \A s \in Slots : Between(rIndex[r], s, readerIndex)' \/ InUse(r, s)'
           \/ rPos'[s] = None \/ Settled(r, s)'
    <3> TAKE s \in Slots
    <3>1. CASE s = readerIndex
      BY <3>1, <2>1, <2>2
    <3>2. CASE s # readerIndex /\ s # rIndex[r]
      BY <3>2, <2>1, <2>2, <2>3, <2>4, <1>2 DEF ReaderInv
    <3>3. CASE s = rIndex[r]
      <4>1. ~Between(rIndex[r], s, readerIndex)
        BY <3>3, <2>1, <1>0, BetweenTaken
      <4> QED BY <4>1, <3>3, <2>1, <2>3, <2>4, <1>2 DEF ReaderInv
    <3> QED BY <3>1, <3>2, <3>3
  <2> QED BY <2>6, <2>7, <2>8, <1>0 DEF ReaderInv, ScheduledState
<1>7. ASSUME NEW w \in Writers PROVE WriterInv(w)'
  BY <1>0, WriterFrame DEF IInv
<1>8. MainInv'
  BY <1>0 DEF IInv, MainInv, BetweenBlocks, InBlock, Succ
<1>9. PositionInv'
  <2>1. \A s \in Slots : rPos'[s] # None
    BY <1>0, <1>1, <1>2 DEF IInv, PositionInv, None
  <2>2. \A s \in Slots : rPos'[s] < BlockMax => rPos'[s] \in Enabled
    <3>1. p < BlockMax => p \in Enabled
      BY <1>1 DEF NextPosition
    <3>2. \A s \in Slots : s # readerIndex => rPos[s] # None
      BY DEF IInv, PositionInv
    <3> QED BY <3>1, <3>2, <1>2 DEF IInv, PositionInv
  <2>3. cur' = rPos'[readerIndex']
    BY <1>0, <1>2
  <2>4. mpc' = "data" => cur' \in Enabled
    BY <2>2, <2>3, <1>0
  <2> QED BY <2>1, <2>2, <2>3, <2>4, <1>0 DEF PositionInv, InBlock
<1> QED BY <1>5, <1>6, <1>7, <1>8, <1>9 DEF IInv

LEMMA WriteNextInv == ASSUME IInv, WriteNext PROVE IInv'
<1> USE DEF ringVars, readTaskVars, writeTaskVars, readerVars, writerVars, mainVars
<1> DEFINE next == Succ(writerIndex)
<1>0. /\ mpc = "pwrite" /\ writerList = {} /\ readerList = {} /\ WriterMax > 0
      /\ writerIndex \in Slots /\ next \in Slots /\ next # writerIndex
      /\ writerIndex = readerIndex /\ cur \in Enabled
      /\ writerIndex' = next /\ writerList' = Writers
      /\ mTarget' \in {"stop", "progress"} /\ mpc' \in {"writebcast", "stop", "progress"}
      /\ UNCHANGED <<blockNext, done, readerIndex, readerList, readTaskVars, pBuf,
                     readerVars, wIndex, wBusy, wLatest, mWait, cur, skip, parity>>
  <2>1. mpc = "pwrite" /\ writerIndex \in Slots
    BY DEF IInv, TypeOK, WriteNext
  <2> QED BY <2>1, SuccType DEF IInv, MainInv, PositionInv, InBlock, WriteNext, AfterWriteNext
<1>1. /\ \A w \in Writers, s \in Slots : s # writerIndex => wState'[w][s] = wState[w][s]
      /\ \A w \in Writers : wState'[w][writerIndex] \in {"empty", "ready"}
      /\ wState' \in [Writers -> [Slots -> TaskState]]
  BY <1>0 DEF IInv, TypeOK, TaskState, WriteNext
<1>2. /\ \A w \in Writers : wPc'[w] = wPc[w] \/ (wPc[w] = "wait" /\ wPc'[w] = "step")
      /\ wPc' \in [Writers -> {"work", "step", "signal", "wait", "exit", "abort"}]
  BY DEF IInv, TypeOK, WriteNext, WokenWriters
<1>3. TypeOK'
  <2>1. wPos' \in [Slots -> Int] /\ writerError' \in Nat /\ sent' \subseteq Enabled
    BY <1>0 DEF IInv, TypeOK, WriteNext
  <2> QED BY <2>1, <1>0, <1>1, <1>2 DEF IInv, TypeOK
<1>4. ASSUME NEW r \in Readers PROVE ReaderInv(r)'
  BY <1>0, ReaderFrame DEF IInv
<1>5. ASSUME NEW w \in Writers PROVE WriterInv(w)'
  <2>1. WriterInv(w) /\ wIndex[w] \in Slots /\ wIndex[w] # writerIndex /\ wIndex[w] # next
    BY <1>0 DEF IInv, TypeOK, WriterInv
  <2>2. \A s \in Slots : Between(wIndex[w], s, writerIndex)' <=>
                          (s = writerIndex \/ Between(wIndex[w], s, writerIndex)) /\ s # wIndex[w]
    <3>1. \A s \in Slots : Between(wIndex[w], s, writerIndex)' <=> Between(wIndex[w], s, next)
      BY <1>0 DEF Between
    <3> QED BY <3>1, <2>1, <1>0, BetweenSchedule
  <2> QED BY <2>1, <2>2, <1>0, <1>1, <1>2 DEF WriterInv
<1>6. MainInv'
  BY <1>0 DEF IInv, MainInv, BetweenBlocks, InBlock, Succ
<1>7. PositionInv'
  BY <1>0 DEF IInv, PositionInv, InBlock
<1> QED BY <1>3, <1>4, <1>5, <1>6, <1>7 DEF IInv

LEMMA TaskReadInv == ASSUME IInv, TaskRead PROVE IInv'
<1> USE DEF ringVars, readTaskVars, writeTaskVars, readerVars, writerVars, mainVars
<1>0. PICK r \in Readers : ReadFinished(r) /\ readerList' = readerList \ {r}
  BY DEF TaskRead
<1>1. /\ mpc \in {"data", "parity"} /\ mpc' \in {mpc, "stop"}
      /\ UNCHANGED <<blockNext, done, readerIndex, writerIndex, writerList, writerError,
                     readTaskVars, writeTaskVars, readerVars, writerVars,
                     mWait, mTarget, cur, skip, sent, parity>>
  BY DEF TaskRead
<1>2. TypeOK'
  BY <1>0, <1>1 DEF IInv, TypeOK
<1>3. ASSUME NEW q \in Readers PROVE ReaderInv(q)'
  <2>1. CASE q = r
    BY <2>1, <1>0, <1>1 DEF IInv, ReaderInv, ReadFinished, InUse, Settled, Between
  <2>2. CASE q # r
    BY <2>2, <1>0, <1>1, ReaderFrame DEF IInv
  <2> QED BY <2>1, <2>2
<1>4. ASSUME NEW w \in Writers PROVE WriterInv(w)'
  BY <1>1, WriterFrame DEF IInv
<1>5. MainInv' /\ PositionInv'
  BY <1>0, <1>1 DEF IInv, MainInv, PositionInv, BetweenBlocks, InBlock, Succ
<1> QED BY <1>2, <1>3, <1>4, <1>5 DEF IInv

LEMMA ParityWriteInv == ASSUME IInv, ParityWrite PROVE IInv'
<1> USE DEF ringVars, readTaskVars, writeTaskVars, readerVars, writerVars, mainVars
<1>0. PICK w \in Writers : WriteFinished(w) /\ writerList' = writerList \ {w}
  BY DEF ParityWrite
<1>1. UNCHANGED <<blockNext, done, readerIndex, writerIndex, readerList, writerError,
                  readTaskVars, writeTaskVars, readerVars, writerVars, mainVars, parity>>
  BY DEF ParityWrite
<1>2. TypeOK'
  BY <1>0, <1>1 DEF IInv, TypeOK
<1>3. ASSUME NEW r \in Readers PROVE ReaderInv(r)'
  BY <1>1, ReaderFrame DEF IInv
<1>4. ASSUME NEW v \in Writers PROVE WriterInv(v)'
  <2>1. CASE v = w
    BY <2>1, <1>0, <1>1 DEF IInv, WriterInv, WriteFinished, Between, Succ
  <2>2. CASE v # w
    BY <2>2, <1>0, <1>1, WriterFrame DEF IInv
  <2> QED BY <2>1, <2>2
<1>5. MainInv' /\ PositionInv'
  BY <1>1, MainFrame DEF IInv
<1> QED BY <1>2, <1>3, <1>4, <1>5 DEF IInv

-----------------------------------------------------------------------------
(* The other steps of the main thread wake threads and move it on          *)

MainRest == \/ MainBegin \/ ReadBroadcast \/ TaskReadWait \/ AllRead \/ Compute
            \/ ParityWriteWait \/ WriteBroadcast \/ Progress \/ Flush \/ Quiesce
            \/ Resume \/ Stop \/ Join \/ MainSpurious

LEMMA MainRestFrame ==
    ASSUME TypeOK, MainRest
    PROVE  /\ UNCHANGED <<blockNext, readerIndex, writerIndex, readerList, writerList,
                          readTaskVars, wPos, wState, rIndex, rBusy, wIndex, wBusy,
                          wLatest, cur, sent, parity>>
           /\ \A r \in Readers : rPc'[r] = rPc[r] \/ (rPc[r] = "wait" /\ rPc'[r] = "step")
           /\ \A w \in Writers : wPc'[w] = wPc[w] \/ (wPc[w] = "wait" /\ wPc'[w] = "step")
           /\ rPc' \in [Readers -> {"work", "step", "signal", "wait", "exit", "abort"}]
           /\ wPc' \in [Writers -> {"work", "step", "signal", "wait", "exit", "abort"}]
<1> USE DEF TypeOK, ringVars, readTaskVars, writeTaskVars, readerVars, writerVars, mainVars
<1>1. CASE MainBegin
  BY <1>1 DEF MainBegin, AfterLoop
<1>2. CASE ReadBroadcast
  BY <1>2 DEF ReadBroadcast, WokenReaders
<1>3. CASE TaskReadWait
  BY <1>3 DEF TaskReadWait
<1>4. CASE AllRead
  BY <1>4 DEF AllRead
<1>5. CASE Compute
  BY <1>5 DEF Compute
<1>6. CASE ParityWriteWait
  BY <1>6 DEF ParityWriteWait
<1>7. CASE WriteBroadcast
  BY <1>7 DEF WriteBroadcast, WokenWriters
<1>8. CASE Progress
  BY <1>8 DEF Progress, AfterLoop
<1>9. CASE Flush
  BY <1>9 DEF Flush
<1>10. CASE Quiesce
  BY <1>10 DEF Quiesce
<1>11. CASE Resume
  BY <1>11 DEF Resume
<1>12. CASE Stop
  BY <1>12 DEF Stop, WokenReaders, WokenWriters
<1>13. CASE Join
  BY <1>13 DEF Join
<1>14. CASE MainSpurious
  BY <1>14 DEF MainSpurious
<1> QED BY <1>1, <1>2, <1>3, <1>4, <1>5, <1>6, <1>7, <1>8, <1>9, <1>10, <1>11, <1>12,
           <1>13, <1>14, ZenonT(60) DEF MainRest

(* The new place of the main thread and the variables it sets on the way.  *)
LEMMA MainRestMove ==
    ASSUME IInv, MainRest
    PROVE  /\ MainInv' /\ PositionInv'
           /\ done' \in BOOLEAN /\ writerError' \in Nat /\ mWait' \in BOOLEAN
           /\ pBuf' \in [Slots -> Int] /\ skip' \in BOOLEAN
           /\ mpc' \in {"begin", "readnext", "readbcast", "data", "parity", "compute",
                         "pwrite", "writebcast", "progress", "flush", "quiesce", "saved",
                         "stop", "join", "end"}
           /\ mTarget' \in {"readnext", "progress", "stop"}
<1> USE DEF IInv, MainInv, PositionInv, BetweenBlocks, InBlock, Succ,
            ringVars, readTaskVars, writeTaskVars, readerVars, writerVars, mainVars
<1>0. /\ done \in BOOLEAN /\ writerError \in Nat /\ mWait \in BOOLEAN
      /\ pBuf \in [Slots -> Int] /\ skip \in BOOLEAN
      /\ mTarget \in {"readnext", "progress", "stop"} /\ cur \in Int
      /\ mpc \in {"begin", "readnext", "readbcast", "data", "parity", "compute",
                   "pwrite", "writebcast", "progress", "flush", "quiesce", "saved",
                   "stop", "join", "end"}
  BY DEF TypeOK
<1>1. CASE MainBegin
  BY <1>0, <1>1 DEF MainBegin, AfterLoop
<1>2. CASE ReadBroadcast
  <2>1. mpc' \in {"flush", "stop"} \/ (mpc' = "data" /\ cur < BlockMax)
    BY <1>0, <1>2, IoAssumption DEF ReadBroadcast, AfterReadNext, AfterLoop
  <2>2. cur < BlockMax => cur \in Enabled
    BY <1>2 DEF ReadBroadcast, TypeOK
  <2>3. MainInv'
    BY <1>0, <1>2, <2>1 DEF ReadBroadcast
  <2>4. PositionInv'
    BY <1>0, <1>2, <2>1, <2>2 DEF ReadBroadcast
  <2> QED BY <1>0, <1>2, <2>1, <2>3, <2>4 DEF ReadBroadcast
<1>3. CASE TaskReadWait
  BY <1>0, <1>3, MainFrame DEF TaskReadWait
<1>4. CASE AllRead
  <2>1. CASE mpc = "data"
    <3>1. readerList \subseteq ParityReaders
      BY <2>1, <1>4, IoAssumption
         DEF AllRead, TypeOK, Wanted, Readers, DataReaders, ParityReaders
    <3> QED BY <1>0, <1>4, <2>1, <3>1 DEF AllRead
  <2>2. CASE mpc = "parity"
    <3>1. readerList = {}
      BY <2>2, <1>4 DEF AllRead, Wanted
    <3> QED BY <1>0, <1>4, <2>2, <3>1 DEF AllRead
  <2> QED BY <1>4, <2>1, <2>2 DEF AllRead
<1>5. CASE Compute
  <2>1. rBuf[0][readerIndex] \in Int
    BY IoAssumption DEF TypeOK, Readers
  <2>2. pBuf' \in [Slots -> Int] /\ skip' \in BOOLEAN
    BY <1>0, <1>5, <2>1 DEF Compute
  <2>3. mpc = "compute" /\ mpc' \in {"pwrite", "progress"} /\ (mpc' = "pwrite" => WriterMax > 0)
    BY <1>5, IoAssumption DEF Compute
  <2> QED BY <1>0, <1>5, <2>2, <2>3 DEF Compute
<1>6. CASE ParityWriteWait
  BY <1>0, <1>6, MainFrame DEF ParityWriteWait
<1>7. CASE WriteBroadcast
  BY <1>0, <1>7 DEF WriteBroadcast
<1>8. CASE Progress
  BY <1>0, <1>8 DEF Progress, AfterLoop
<1>9. CASE Flush
  BY <1>0, <1>9 DEF Flush
<1>10. CASE Quiesce
  BY <1>0, <1>10 DEF Quiesce
<1>11. CASE Resume
  BY <1>0, <1>11 DEF Resume
<1>12. CASE Stop
  BY <1>0, <1>12 DEF Stop
<1>13. CASE Join
  BY <1>0, <1>13 DEF Join
<1>14. CASE MainSpurious
  BY <1>0, <1>14, ZenonT(60) DEF MainSpurious
<1> QED BY <1>1, <1>2, <1>3, <1>4, <1>5, <1>6, <1>7, <1>8, <1>9, <1>10, <1>11, <1>12,
           <1>13, <1>14, ZenonT(60) DEF MainRest

LEMMA MainRestInv == ASSUME IInv, MainRest PROVE IInv'
<1>1. TypeOK'
  BY MainRestFrame, MainRestMove DEF IInv, TypeOK, readTaskVars
<1>2. ASSUME NEW r \in Readers PROVE ReaderInv(r)'
  BY MainRestFrame, ReaderFrame DEF IInv, readTaskVars
<1>3. ASSUME NEW w \in Writers PROVE WriterInv(w)'
  BY MainRestFrame, WriterFrame DEF IInv
<1> QED BY <1>1, <1>2, <1>3, MainRestMove DEF IInv

-----------------------------------------------------------------------------
(* The theorems                                                            *)

LEMMA StutterInv == ASSUME IInv, UNCHANGED vars PROVE IInv'
<1> USE DEF vars, ringVars, readTaskVars, writeTaskVars, readerVars, writerVars, mainVars
<1>1. TypeOK'
  BY DEF IInv, TypeOK
<1>2. ASSUME NEW r \in Readers PROVE ReaderInv(r)'
  BY ReaderFrame DEF IInv
<1>3. ASSUME NEW w \in Writers PROVE WriterInv(w)'
  BY WriterFrame DEF IInv
<1>4. MainInv' /\ PositionInv'
  BY MainFrame DEF IInv
<1> QED BY <1>1, <1>2, <1>3, <1>4 DEF IInv

LEMMA StepInv == IInv /\ [Next]_vars => IInv'
<1> SUFFICES ASSUME IInv, [Next]_vars PROVE IInv'
  OBVIOUS
<1>1. CASE \E r \in Readers : Reader(r) \/ ReaderSpurious(r)
  BY <1>1, ReaderWorkInv, ReaderTakeInv, ReaderRestInv DEF Reader
<1>2. CASE \E w \in Writers : Writer(w) \/ WriterSpurious(w)
  BY <1>2, WriterWorkInv, WriterTakeInv, WriterRestInv DEF Writer
<1>3. CASE Main \/ MainSpurious
  BY <1>3, ReadNextInv, WriteNextInv, TaskReadInv, ParityWriteInv, MainRestInv
     DEF Main, MainRest
<1>4. CASE Terminated \/ UNCHANGED vars
  BY <1>4, StutterInv DEF Terminated
<1> QED BY <1>1, <1>2, <1>3, <1>4 DEF Next, Spurious

LEMMA Invariance == Spec => []IInv
BY InitInv, StepInv, PTL DEF Spec

(* The types, whatever the size of the ring.                               *)
THEOREM TypeCorrect == Spec => []TypeOK
<1>1. IInv => TypeOK
  BY DEF IInv
<1> QED BY <1>1, Invariance, PTL

(* The assertions of io.c never fail: io_read_next_thread finds no reader  *)
(* unprocessed, io_parity_write_thread no writer at the index handed over, *)
(* and no worker takes a task neither READY nor EMPTY.                     *)
THEOREM AssertsHold == Spec => []CodeAsserts
<1>1. IInv => CodeAsserts
  BY DEF IInv, CodeAsserts, ReaderInv, WriterInv, MainInv, BetweenBlocks, InBlock
<1> QED BY <1>1, Invariance, PTL

(* No two threads use a buffer at once, although the buffers are accessed  *)
(* outside of io_mutex.                                                    *)
THEOREM BuffersExclusive == Spec => []NoBufferRace
<1>1. IInv => NoBufferRace
  BY DEF IInv, NoBufferRace, ReaderInv, WriterInv, MainInv, InBlock
<1> QED BY <1>1, Invariance, PTL

(* What the main thread was given for its position is finished.            *)
LEMMA Delivered == IInv => ReadDelivered
<1> SUFFICES ASSUME IInv, InBlock
             PROVE  /\ cur = rPos[readerIndex]
                    /\ \A r \in Readers \ readerList :
                          \/ rState[r][readerIndex] = "error"
                          \/ rState[r][readerIndex] = "done" /\ rBuf[r][readerIndex] = cur
  BY DEF ReadDelivered, InBlock
<1>1. cur = rPos[readerIndex] /\ cur # None /\ cur \in Enabled /\ readerIndex \in Slots
  BY DEF IInv, PositionInv, TypeOK
<1>2. cur < BlockMax
  BY <1>1, IoAssumption
<1>3. ASSUME NEW r \in Readers \ readerList PROVE Settled(r, readerIndex)
  <2>1. rIndex[r] # readerIndex /\ rIndex[r] \in Slots
    BY <1>3 DEF IInv, ReaderInv, TypeOK
  <2>2. ~Between(rIndex[r], readerIndex, readerIndex) /\ ~InUse(r, readerIndex)
    BY <2>1, <1>1, BetweenTaken DEF InUse
  <2> QED BY <2>2, <1>1 DEF IInv, ReaderInv
<1> QED BY <1>1, <1>2, <1>3 DEF Settled

(* io_data_read() and io_parity_read() return the finished task of the     *)
(* current position, with its data in the buffer.                          *)
THEOREM ReadsDelivered == Spec => []ReadDelivered
<1> QED BY Delivered, Invariance, PTL

-----------------------------------------------------------------------------
(* The implementation of IoStream.  The inductive invariant, on top of     *)
(* IInv.                                                                   *)

(* The slots with a task that the writer has still to try.                 *)
Pending(w, s) ==
    Between(wIndex[w], s, writerIndex) \/ (s = wIndex[w] /\ wPc[w] \in {"work", "signal"})

Ready(w, s) == wState[w][s] = "ready"

(* A task is ready from its submission to its write, with the parity of    *)
(* its position in the buffer, and the tasks are in order on the ring.     *)
TaskInv(w) ==
    /\ wPc[w] = "work" => Ready(w, wIndex[w])
    /\ \A s \in Slots : Ready(w, s) => Pending(w, s) /\ wPos[s] \in sent /\ pBuf[s] = wPos[s]
    /\ \A s, t \in Slots :
         Ready(w, s) /\ Ready(w, t) /\ Between(s, t, writerIndex) => wPos[s] < wPos[t]

(* The last result waits to be counted only while the writer is busy.      *)
ResultInv(w) ==
    /\ wPc[w] \in {"work", "signal"} \/ ~wBusy[w] => wLatest[w] = "done"
    /\ ~wBusy[w] => wPc[w] \in {"step", "wait", "exit"}
    /\ wPc[w] = "exit" => done /\ Succ(wIndex[w]) = writerIndex

(* The position to look for after the position p.                          *)
After(p) == IF p = None THEN BlockStart ELSE p + 1

(* The slots have consecutive enabled positions, from the one of the main  *)
(* thread on, and so the next one to schedule.                             *)
ChainInv ==
    /\ cur = rPos[readerIndex]
    /\ cur = None \/ cur >= 0
    /\ \A s \in Slots :
         IF Succ(s) = readerIndex THEN blockNext = After(rPos[s])
         ELSE NextPosition(After(rPos[s]), rPos[Succ(s)])

(* The main thread looks for another position only inside of the range; a  *)
(* barrier holds with the writers drained, their errors told and, at its   *)
(* end, the readers idle.                                                  *)
PhaseInv ==
    /\ BetweenBlocks => cur < BlockMax
    /\ mpc = "pwrite" /\ ~skip => pBuf[readerIndex] = cur
    /\ mpc \in {"quiesce", "saved"} =>
         writerError = 0 /\ \A w \in Writers : WriterDrained(w)
    /\ mpc = "saved" => \A r \in Readers : ReaderQuiet(r)
    /\ \A r \in Readers : ~rBusy[r] => rPc[r] \notin {"work", "signal"}
    /\ done => mpc \in {"join", "end"}

(* What was submitted is not after the position of the main thread, and is *)
(* on its way to the parity files or there.                                *)
SentInv ==
    /\ \A p \in sent : p <= cur
    /\ InBlock \/ mpc = "readbcast" => cur \notin sent

(* The main thread gives up.                                               *)
Stopping == mpc \in {"stop", "join", "end"} \/ (mpc = "writebcast" /\ mTarget = "stop")

Unreported == writerError > 0 \/ \E w \in Writers : wLatest[w] = "error"

(* A position submitted is written, on its way, or its error is not told.  *)
ArrivalInv ==
    ~Stopping =>
        \A w \in Writers : \A p \in sent :
            \/ parity[w][p] = p
            \/ \E s \in Slots : Ready(w, s) /\ wPos[s] = p
            \/ Unreported

DInv ==
    /\ \A w \in Writers : TaskInv(w) /\ ResultInv(w)
    /\ ChainInv /\ PhaseInv /\ SentInv
    /\ ArrivalInv /\ ParityMatchesPosition

-----------------------------------------------------------------------------
(* What a step leaves alone                                                *)

LEMMA EnabledType == \A p \in Enabled : p \in Int /\ p >= 0 /\ p < BlockMax
BY IoAssumption

LEMMA TaskFrame ==
    ASSUME NEW w \in Writers, TaskInv(w),
           UNCHANGED <<writerIndex, wPos>>, sent \subseteq sent',
           wIndex'[w] = wIndex[w], wState'[w] = wState[w],
           wPc'[w] = wPc[w] \/ (wPc[w] = "wait" /\ wPc'[w] = "step"),
           \A s \in Slots : Ready(w, s) => pBuf'[s] = pBuf[s]
    PROVE  TaskInv(w)'
BY DEF TaskInv, Ready, Pending, Between

LEMMA ResultFrame ==
    ASSUME NEW w \in Writers, ResultInv(w),
           UNCHANGED writerIndex, done => done',
           wIndex'[w] = wIndex[w], wBusy'[w] = wBusy[w], wLatest'[w] = wLatest[w],
           wPc'[w] = wPc[w] \/ (wPc[w] = "wait" /\ wPc'[w] = "step")
    PROVE  ResultInv(w)'
BY DEF ResultInv, Succ

LEMMA ChainFrame ==
    ASSUME ChainInv, UNCHANGED <<readerIndex, rPos, blockNext, cur>>
    PROVE  ChainInv'
BY DEF ChainInv, Succ, NextPosition, After

LEMMA ArrivalFrame ==
    ASSUME ArrivalInv, ParityMatchesPosition,
           UNCHANGED <<wPos, wState, wLatest, writerError, sent, parity>>,
           Stopping => Stopping'
    PROVE  ArrivalInv' /\ ParityMatchesPosition'
BY DEF ArrivalInv, ParityMatchesPosition, Ready, Unreported

LEMMA InitDInv == Init => DInv
<1> SUFFICES ASSUME Init PROVE DInv
  OBVIOUS
<1>0. IInv
  BY InitInv
<1>1. ASSUME NEW w \in Writers PROVE TaskInv(w) /\ ResultInv(w)
  BY DEF Init, TaskInv, ResultInv, Ready
<1>2. ChainInv
  <2>1. cur = rPos[readerIndex] /\ cur = None
    BY DEF Init
  <2>2. ASSUME NEW s \in Slots, Succ(s) = readerIndex
        PROVE  blockNext = After(rPos[s])
    <3>1. s = IoMax - 2
      BY <2>2, IoAssumption DEF Init, Slots, Succ
    <3>2. rPos[s] # None
      BY <3>1, <1>0, <2>2, IoAssumption DEF Init, IInv, PositionInv
    <3> QED BY <3>1, <3>2 DEF Init, After
  <2>3. ASSUME NEW s \in Slots, Succ(s) # readerIndex
        PROVE  NextPosition(After(rPos[s]), rPos[Succ(s)])
    <3>1. CASE s = IoMax - 1
      BY <3>1, IoAssumption DEF Init, Succ, After
    <3>2. CASE s # IoMax - 1
      <4>1. PICK t \in 1 .. IoMax - 2 : s = t - 1 /\ Succ(s) = t
        BY <2>3, <3>2, IoAssumption DEF Init, Slots, Succ
      <4>2. NextPosition(rPos[t - 1] + 1, rPos[t])
        BY DEF Init
      <4>3. rPos[s] # None
        BY <3>2, <1>0 DEF Init, IInv, PositionInv
      <4>4. NextPosition(rPos[s] + 1, rPos[Succ(s)])
        BY <4>1, <4>2
      <4> QED BY <4>3, <4>4 DEF After
    <3> QED BY <3>1, <3>2
  <2> QED BY <2>1, <2>2, <2>3 DEF ChainInv
<1>3. PhaseInv
  BY IoAssumption DEF Init, PhaseInv, BetweenBlocks, None
<1>4. SentInv /\ ArrivalInv /\ ParityMatchesPosition
  BY DEF Init, SentInv, ArrivalInv, ParityMatchesPosition
<1> QED BY <1>1, <1>2, <1>3, <1>4 DEF DInv

-----------------------------------------------------------------------------
(* The steps of the readers                                                *)

LEMMA ReaderDInv ==
    ASSUME IInv, DInv, NEW r \in Readers, Reader(r) \/ ReaderSpurious(r) PROVE DInv'
<1> USE DEF ringVars, readTaskVars, writeTaskVars, readerVars, writerVars, mainVars
<1>0. /\ UNCHANGED <<ringVars, rPos, writeTaskVars, writerVars, writerError, mpc, mTarget,
                     cur, skip, sent, parity>>
      /\ \A q \in Readers : q # r => rPc'[q] = rPc[q] /\ rBusy'[q] = rBusy[q] /\ rIndex'[q] = rIndex[q]
  BY DEF IInv, TypeOK, Reader, ReaderWork, ReaderTake, ReaderSignal, ReaderWait, ReaderExit,
         ReaderSpurious
<1>1. ASSUME NEW w \in Writers PROVE TaskInv(w)' /\ ResultInv(w)'
  BY <1>0, TaskFrame, ResultFrame DEF DInv
<1>2. ChainInv' /\ SentInv'
  BY <1>0, ChainFrame DEF DInv, SentInv, InBlock
<1>3. ArrivalInv' /\ ParityMatchesPosition'
  BY <1>0, ArrivalFrame DEF DInv, Stopping
<1>4. ~rBusy'[r] => rPc'[r] \notin {"work", "signal"}
  BY DEF IInv, TypeOK, DInv, PhaseInv, Reader, ReaderWork, ReaderTake, ReaderSignal, ReaderWait,
         ReaderExit, ReaderSpurious
<1>5. ReaderQuiet(r) => ReaderQuiet(r)'
  BY <1>0 DEF IInv, TypeOK, ReaderQuiet, Succ, Reader, ReaderWork, ReaderTake, ReaderSignal,
         ReaderWait, ReaderExit, ReaderSpurious
<1>6. \A q \in Readers : ReaderQuiet(q) => ReaderQuiet(q)'
  BY <1>0, <1>5 DEF ReaderQuiet, Succ
<1>7. \A w \in Writers : WriterDrained(w) => WriterDrained(w)'
  BY <1>0 DEF WriterDrained, Succ
<1>8. PhaseInv'
  BY <1>0, <1>4, <1>6, <1>7 DEF DInv, PhaseInv, BetweenBlocks
<1> QED BY <1>1, <1>2, <1>3, <1>8 DEF DInv

-----------------------------------------------------------------------------
(* The steps of the writers                                                *)

(* A task leaves the queue with its parity written or its error to tell.   *)
LEMMA WriterWorkDInv ==
    ASSUME IInv, DInv, NEW w \in Writers, WriterWork(w) PROVE DInv'
<1> USE DEF ringVars, readTaskVars, writeTaskVars, readerVars, writerVars, mainVars
<1> DEFINE s0 == wIndex[w]
<1>0. /\ wPc[w] = "work" /\ wPc'[w] = "step" /\ s0 \in Slots
      /\ UNCHANGED <<ringVars, writerError, rPos, wPos, pBuf, readerVars, wIndex, wBusy, mainVars>>
      /\ \A v \in Writers : v # w => /\ wPc'[v] = wPc[v] /\ wState'[v] = wState[v]
                                     /\ wLatest'[v] = wLatest[v]
  BY DEF IInv, TypeOK, WriterWork
<1>1. /\ Ready(w, s0) /\ wBusy[w] = TRUE /\ wLatest[w] = "done"
      /\ wPos[s0] \in sent /\ wPos[s0] \in Enabled /\ pBuf[s0] = wPos[s0]
  BY <1>0 DEF IInv, TypeOK, DInv, TaskInv, ResultInv
<1>2. \A s \in Slots : Ready(w, s)' <=> Ready(w, s) /\ s # s0
  BY <1>0 DEF IInv, TypeOK, Ready, WriterWork
<1>3. ASSUME NEW v \in Writers PROVE TaskInv(v)' /\ ResultInv(v)'
  <2>1. CASE v = w
    <3>1. \A s \in Slots : Ready(w, s)' => Pending(w, s)'
      BY <1>0, <1>2 DEF DInv, TaskInv, Pending, Between
    <3>2. TaskInv(w)'
      BY <1>0, <1>2, <3>1 DEF DInv, TaskInv, Between
    <3>3. ResultInv(w)'
      BY <1>0, <1>1 DEF ResultInv
    <3> QED BY <2>1, <3>2, <3>3
  <2>2. CASE v # w
    BY <2>2, <1>0, TaskFrame, ResultFrame DEF DInv
  <2> QED BY <2>1, <2>2
<1>4. ChainInv' /\ SentInv'
  BY <1>0, ChainFrame DEF DInv, SentInv, InBlock
<1>5. PhaseInv'
  BY <1>0 DEF DInv, PhaseInv, BetweenBlocks, WriterDrained, ReaderQuiet, Succ
<1>6. CASE wLatest'[w] = "done"
  <2>1. parity' = [parity EXCEPT ![w][wPos[s0]] = wPos[s0]]
    BY <1>1, <1>6, <1>0 DEF IInv, TypeOK, WriterWork
  <2>2. /\ parity'[w][wPos[s0]] = wPos[s0]
        /\ \A v \in Writers, p \in Enabled : v # w \/ p # wPos[s0] => parity'[v][p] = parity[v][p]
    BY <1>1, <2>1 DEF IInv, TypeOK
  <2>3. ParityMatchesPosition'
    BY <1>0, <1>1, <2>2 DEF DInv, ParityMatchesPosition
  <2>4. Unreported => Unreported'
    BY <1>0, <1>1 DEF Unreported
  <2>5. ASSUME ~Stopping', NEW v \in Writers, NEW p \in sent
        PROVE  \/ parity'[v][p] = p
               \/ \E s \in Slots : Ready(v, s)' /\ wPos'[s] = p
               \/ Unreported'
    <3>1. p \in Enabled
      BY DEF IInv, TypeOK
    <3>2. \/ parity[v][p] = p
          \/ \E s \in Slots : Ready(v, s) /\ wPos[s] = p
          \/ Unreported
      BY <1>0, <2>5 DEF DInv, ArrivalInv, Stopping
    <3>3. CASE v = w /\ p = wPos[s0]
      BY <3>3, <2>2
    <3>4. CASE v = w /\ p # wPos[s0]
      BY <1>0, <1>2, <2>2, <2>4, <3>1, <3>2, <3>4
    <3>5. CASE v # w
      BY <1>0, <2>2, <2>4, <3>1, <3>2, <3>5 DEF Ready
    <3> QED BY <3>3, <3>4, <3>5
  <2>6. ArrivalInv'
    BY <1>0, <2>5 DEF ArrivalInv
  <2> QED BY <1>3, <1>4, <1>5, <2>3, <2>6 DEF DInv
<1>7. CASE wLatest'[w] = "error"
  <2>1. parity' = parity
    BY <1>7 DEF IInv, TypeOK, WriterWork
  <2>2. ParityMatchesPosition'
    BY <1>0, <2>1 DEF DInv, ParityMatchesPosition
  <2>3. ArrivalInv'
    BY <1>7 DEF ArrivalInv, Unreported
  <2> QED BY <1>3, <1>4, <1>5, <2>2, <2>3 DEF DInv
<1> QED BY <1>6, <1>7 DEF IInv, TypeOK, WriterWork

(* An error moves from the writer to the count of the main thread.         *)
LEMMA AddWriterErrorReported ==
    ASSUME TypeOK, NEW w \in Writers, AddWriterError(w)
    PROVE  /\ Unreported => Unreported'
           /\ wLatest'[w] = "done"
           /\ \A v \in Writers : v # w => wLatest'[v] = wLatest[v]
           /\ wLatest[w] = "done" => writerError' = writerError
BY DEF TypeOK, AddWriterError, Unreported

(* A step of a writer that leaves the tasks and the parity as they are.    *)
LEMMA WriterArrivalFrame ==
    ASSUME ArrivalInv, ParityMatchesPosition, Unreported => Unreported',
           UNCHANGED <<wPos, wState, sent, parity, mpc, mTarget>>
    PROVE  ArrivalInv' /\ ParityMatchesPosition'
BY DEF ArrivalInv, ParityMatchesPosition, Ready, Stopping

LEMMA WriterTakeDInv ==
    ASSUME IInv, DInv, NEW w \in Writers, WriterTake(w) PROVE DInv'
<1> USE DEF ringVars, readTaskVars, writeTaskVars, readerVars, writerVars, mainVars
<1> DEFINE next == Succ(wIndex[w])
<1>0. /\ wIndex[w] \in Slots /\ writerIndex \in Slots /\ next \in Slots /\ next # writerIndex
      /\ wPc[w] = "step" /\ wIndex'[w] = next /\ wBusy'[w] = TRUE
      /\ wPc'[w] \in {"signal", AfterWriteTake(w, next)}
      /\ UNCHANGED <<ringVars, readTaskVars, writeTaskVars, readerVars, mpc, mTarget, cur,
                     skip, sent, parity>>
      /\ \A v \in Writers : v # w => /\ wIndex'[v] = wIndex[v] /\ wPc'[v] = wPc[v]
                                     /\ wBusy'[v] = wBusy[v]
  BY SuccType DEF IInv, TypeOK, WriterTake
<1>1. /\ Unreported => Unreported'
      /\ wLatest'[w] = "done"
      /\ \A v \in Writers : v # w => wLatest'[v] = wLatest[v]
  BY AddWriterErrorReported DEF IInv, WriterTake
<1>2. \A v \in Writers, s \in Slots : Ready(v, s)' <=> Ready(v, s)
  BY <1>0 DEF Ready
<1>3. ASSUME NEW v \in Writers PROVE TaskInv(v)' /\ ResultInv(v)'
  <2>1. CASE v = w
    <3>1. Ready(w, next) => wPc'[w] \in {"work", "signal"}
      BY <1>0 DEF Ready, AfterWriteTake
    <3>2. wPc'[w] = "work" => Ready(w, next)
      BY <1>0 DEF Ready, AfterWriteTake
    <3>3. \A s \in Slots : Ready(w, s) => Between(wIndex[w], s, writerIndex)
      BY <1>0 DEF DInv, TaskInv, Pending
    <3>4. \A s \in Slots : Ready(w, s) => s = next \/ Between(next, s, writerIndex)
      BY <1>0, <3>3, BetweenTake
    <3>5. \A s \in Slots : Ready(w, s)' => Pending(w, s)'
      BY <1>0, <1>2, <3>1, <3>4 DEF Pending, Between
    <3>6. TaskInv(w)'
      BY <1>0, <1>2, <3>2, <3>5 DEF DInv, TaskInv, Between
    <3>7. wPc'[w] # "exit"
      BY <1>0 DEF AfterWriteTake
    <3> QED BY <2>1, <1>0, <1>1, <3>6, <3>7 DEF ResultInv
  <2>2. CASE v # w
    BY <2>2, <1>0, <1>1, TaskFrame, ResultFrame DEF DInv
  <2> QED BY <2>1, <2>2
<1>4. ChainInv' /\ SentInv'
  BY <1>0, ChainFrame DEF DInv, SentInv, InBlock
<1>5. PhaseInv'
  <2>1. mpc \notin {"quiesce", "saved"}
    BY <1>0 DEF DInv, PhaseInv, WriterDrained
  <2> QED BY <1>0, <2>1 DEF DInv, PhaseInv, BetweenBlocks
<1>6. ArrivalInv' /\ ParityMatchesPosition'
  BY <1>0, <1>1, WriterArrivalFrame DEF DInv
<1> QED BY <1>3, <1>4, <1>5, <1>6 DEF DInv

(* The other steps of a writer leave the tasks where they are.             *)
LEMMA WriterRestDInv ==
    ASSUME IInv, DInv, NEW w \in Writers,
           WriterSignal(w) \/ WriterWait(w) \/ WriterExit(w) \/ WriterSpurious(w)
    PROVE  DInv'
<1> USE DEF ringVars, readTaskVars, writeTaskVars, readerVars, writerVars, mainVars
<1>0. /\ UNCHANGED <<ringVars, readTaskVars, writeTaskVars, readerVars, wIndex, mpc, mTarget,
                     cur, skip, sent, parity>>
      /\ \A v \in Writers : v # w => /\ wPc'[v] = wPc[v] /\ wBusy'[v] = wBusy[v]
                                     /\ wLatest'[v] = wLatest[v]
      /\ wIndex[w] \in Slots
  BY AddWriterErrorReported
     DEF IInv, TypeOK, WriterSignal, WriterWait, WriterExit, WriterSpurious
<1>1. /\ Unreported => Unreported'
      /\ wLatest[w] = "done" => wLatest'[w] = "done" /\ writerError' = writerError
      /\ wBusy'[w] => wLatest'[w] = wLatest[w] /\ writerError' = writerError /\ wBusy[w]
      /\ wLatest'[w] = "error" => wLatest[w] = "error"
      /\ ~wBusy'[w] => wLatest'[w] = "done" /\ wPc'[w] \in {"step", "wait", "exit"}
  <2>1. CASE WriterSignal(w)
    BY <2>1 DEF WriterSignal, Unreported, IInv, TypeOK, DInv, ResultInv
  <2>2. CASE WriterSpurious(w)
    BY <2>2 DEF WriterSpurious, Unreported, IInv, TypeOK, DInv, ResultInv
  <2>3. CASE WriterWait(w)
    BY <2>3, AddWriterErrorReported DEF WriterWait, IInv, TypeOK
  <2>4. CASE WriterExit(w)
    BY <2>4, AddWriterErrorReported DEF WriterExit, IInv, TypeOK
  <2> QED BY <2>1, <2>2, <2>3, <2>4
<1>2. ASSUME NEW v \in Writers PROVE TaskInv(v)' /\ ResultInv(v)'
  <2>1. CASE v # w
    BY <2>1, <1>0, TaskFrame, ResultFrame DEF DInv
  <2>2. CASE v = w /\ WriterSignal(w)
    <3>1. wPc[w] = "signal" /\ wPc'[w] = AfterWriteTake(w, wIndex[w]) /\ wLatest'[w] = wLatest[w]
      BY <2>2 DEF WriterSignal, IInv, TypeOK
    <3>2. Ready(w, wIndex[w]) <=> wPc'[w] = "work"
      BY <3>1 DEF Ready, AfterWriteTake
    <3>3. \A s \in Slots : Ready(w, s)' => Pending(w, s)'
      BY <1>0, <3>1, <3>2 DEF DInv, TaskInv, Ready, Pending, Between
    <3>4. TaskInv(w)'
      BY <1>0, <3>1, <3>2, <3>3 DEF DInv, TaskInv, Ready, Between
    <3>5. ResultInv(w)'
      BY <1>0, <1>1, <3>1 DEF DInv, ResultInv, AfterWriteTake
    <3> QED BY <2>2, <3>4, <3>5
  <2>3. CASE v = w /\ ~WriterSignal(w)
    <3>1. /\ wPc[w] \in {"step", "wait"} /\ wPc'[w] \in {"step", "wait", "exit"}
          /\ wPc'[w] = "exit" => done /\ Succ(wIndex[w]) = writerIndex
      BY <2>3 DEF WriterWait, WriterExit, WriterSpurious, IInv, TypeOK
    <3>2. TaskInv(w)'
      BY <1>0, <3>1 DEF DInv, TaskInv, Ready, Pending, Between
    <3>3. ResultInv(w)'
      BY <1>0, <1>1, <3>1 DEF DInv, ResultInv, Succ
    <3> QED BY <2>3, <3>2, <3>3
  <2> QED BY <2>1, <2>2, <2>3
<1>3. ChainInv' /\ SentInv'
  BY <1>0, ChainFrame DEF DInv, SentInv, InBlock
<1>4. PhaseInv'
  <2>1. WriterDrained(w) => WriterDrained(w)' /\ writerError' = writerError
    BY <1>0, <1>1 DEF DInv, ResultInv, WriterDrained, Succ
  <2>2. \A v \in Writers : WriterDrained(v) => WriterDrained(v)'
    BY <1>0, <2>1 DEF WriterDrained, Succ
  <2> QED BY <1>0, <2>1, <2>2 DEF DInv, PhaseInv, BetweenBlocks, ReaderQuiet, Succ
<1>5. ArrivalInv' /\ ParityMatchesPosition'
  BY <1>0, <1>1, WriterArrivalFrame DEF DInv
<1> QED BY <1>2, <1>3, <1>4, <1>5 DEF DInv

-----------------------------------------------------------------------------
(* The steps of the main thread                                            *)

(* The position read next is after the current one, and the position       *)
(* scheduled follows the last one of the ring.                             *)
LEMMA ReadNextDInv == ASSUME IInv, DInv, ReadNext PROVE DInv'
<1> USE DEF ringVars, readTaskVars, writeTaskVars, readerVars, writerVars, mainVars
<1> DEFINE next == Succ(readerIndex)
<1>0. /\ mpc = "readnext" /\ readerIndex \in Slots /\ next \in Slots /\ next # readerIndex
      /\ readerIndex' = next /\ cur' = rPos[next] /\ mTarget' = "stop"
      /\ mpc' \in {"readbcast", "flush", "stop", "data"}
      /\ UNCHANGED <<done, writerIndex, writerList, writerError, rBuf, writeTaskVars,
                     rIndex, rBusy, writerVars, mWait, skip, sent, parity>>
      /\ \A r \in Readers : rPc'[r] = rPc[r] \/ (rPc[r] = "wait" /\ rPc'[r] = "step")
  BY SuccType DEF IInv, TypeOK, ReadNext, AfterReadNext, AfterLoop, WokenReaders
<1>1. PICK p \in Int :
         /\ NextPosition(blockNext, p) /\ p >= 0
         /\ blockNext' = p + 1
         /\ rPos' = [rPos EXCEPT ![readerIndex] = p]
  <2>1. PICK p \in blockNext .. (blockNext + BlockMax) :
           /\ NextPosition(blockNext, p)
           /\ blockNext' = p + 1
           /\ rPos' = [rPos EXCEPT ![readerIndex] = p]
    BY DEF ReadNext
  <2>2. p \in Int /\ p >= 0
    BY IoAssumption DEF IInv, TypeOK
  <2> QED BY <2>1, <2>2
<1>2. /\ rPos'[readerIndex] = p
      /\ \A s \in Slots : s # readerIndex => rPos'[s] = rPos[s]
  BY <1>0, <1>1 DEF IInv, TypeOK
<1>3. cur' > cur /\ cur' >= 0
  <2>1. /\ cur = rPos[readerIndex] /\ (cur = None \/ cur >= 0) /\ cur \in Int /\ cur' \in Int
        /\ NextPosition(After(cur), cur')
    BY <1>0 DEF DInv, ChainInv, IInv, TypeOK
  <2> QED BY <2>1, IoAssumption DEF NextPosition, After, None
<1>4. ChainInv'
  <2>1. \A s \in Slots : Succ(s)' = Succ(s)
    BY DEF Succ
  <2>2. ASSUME NEW s \in Slots, Succ(s) = next PROVE blockNext' = After(rPos[s])'
    <3>1. s = readerIndex
      BY <1>0, <2>2, SuccInjective
    <3> QED BY <1>1, <1>2, <3>1 DEF After, None
  <2>3. ASSUME NEW s \in Slots, Succ(s) # next
        PROVE  NextPosition(After(rPos[s]), rPos[Succ(s)])'
    <3>1. s # readerIndex /\ rPos'[s] = rPos[s] /\ Succ(s) \in Slots
      BY <2>3, <1>2, SuccType
    <3>2. CASE Succ(s) = readerIndex
      <4>1. blockNext = After(rPos[s])
        BY <3>2 DEF DInv, ChainInv
      <4> QED BY <1>1, <1>2, <2>1, <3>1, <3>2, <4>1 DEF After, NextPosition
    <3>3. CASE Succ(s) # readerIndex
      <4>1. NextPosition(After(rPos[s]), rPos[Succ(s)])
        BY <3>3 DEF DInv, ChainInv
      <4>2. rPos'[Succ(s)] = rPos[Succ(s)]
        BY <1>2, <3>1, <3>3
      <4> QED BY <2>1, <3>1, <4>1, <4>2 DEF After, NextPosition
    <3> QED BY <3>2, <3>3
  <2>4. cur' = rPos'[readerIndex']
    BY <1>0, <1>2
  <2> QED BY <1>0, <1>3, <2>1, <2>2, <2>3, <2>4 DEF ChainInv
<1>5. ASSUME NEW w \in Writers PROVE TaskInv(w)' /\ ResultInv(w)'
  BY <1>0, TaskFrame, ResultFrame DEF DInv
<1>6. PhaseInv'
  BY <1>0 DEF DInv, PhaseInv, BetweenBlocks
<1>7. SentInv'
  <2>1. \A q \in sent : q \in Int /\ q <= cur
    BY EnabledType DEF IInv, TypeOK, DInv, SentInv
  <2>2. cur \in Int /\ cur' \in Int
    BY <1>0 DEF IInv, TypeOK
  <2>3. \A q \in sent : q < cur'
    BY <1>3, <2>1, <2>2
  <2> QED BY <1>0, <2>1, <2>2, <2>3 DEF SentInv
<1>8. ArrivalInv' /\ ParityMatchesPosition'
  BY <1>0, ArrivalFrame DEF DInv, Stopping
<1> QED BY <1>4, <1>5, <1>6, <1>7, <1>8 DEF DInv

(* The slot handed over has the greatest position of the ring, with its    *)
(* parity; an error collected stops the main thread.                       *)
LEMMA WriteNextDInv == ASSUME IInv, DInv, WriteNext PROVE DInv'
<1> USE DEF ringVars, readTaskVars, writeTaskVars, readerVars, writerVars, mainVars
<1> DEFINE i == writerIndex
           next == Succ(writerIndex)
<1>0. /\ mpc = "pwrite" /\ WriterMax > 0 /\ writerIndex' = next
      /\ i \in Slots /\ next \in Slots /\ next # i /\ i = readerIndex
      /\ cur \in Enabled /\ cur \notin sent
      /\ mTarget' = AfterWriteNext(writerError)
      /\ mpc' \in {"writebcast", AfterWriteNext(writerError)}
      /\ sent' = IF skip THEN sent ELSE sent \cup {cur}
      /\ UNCHANGED <<blockNext, done, readerIndex, readerList, readTaskVars, pBuf,
                     readerVars, wIndex, wBusy, wLatest, mWait, cur, skip, parity>>
  <2>1. mpc = "pwrite" /\ writerIndex \in Slots
    BY DEF IInv, TypeOK, WriteNext
  <2> QED BY <2>1, SuccType DEF IInv, MainInv, PositionInv, DInv, SentInv, InBlock, WriteNext
<1>1. /\ \A s \in Slots : wPos'[s] = IF s = i THEN cur ELSE wPos[s]
      /\ \A w \in Writers, s \in Slots : Ready(w, s)' <=> IF s = i THEN ~skip ELSE Ready(w, s)
  BY <1>0 DEF IInv, TypeOK, WriteNext, Ready
<1>2. \A w \in Writers : wPc'[w] = wPc[w] \/ (wPc[w] = "wait" /\ wPc'[w] = "step")
  BY DEF IInv, TypeOK, WriteNext, WokenWriters
<1>3. ASSUME NEW w \in Writers
      PROVE  /\ wIndex[w] \in Slots /\ wIndex[w] # i /\ wIndex[w] # next
             /\ \A s \in Slots : Between(wIndex[w], s, writerIndex)' <=>
                                  (s = i \/ Between(wIndex[w], s, i)) /\ s # wIndex[w]
             /\ ~Ready(w, i)
  <2>1. wIndex[w] \in Slots /\ wIndex[w] # i /\ wIndex[w] # next
    BY DEF IInv, TypeOK, WriterInv, WriteNext
  <2>2. \A s \in Slots : Between(wIndex[w], s, writerIndex)' <=> Between(wIndex[w], s, next)
    BY <1>0 DEF Between
  <2>3. ~Ready(w, i)
    BY <1>0, <2>1, BetweenTaken DEF DInv, TaskInv, Pending
  <2> QED BY <1>0, <2>1, <2>2, <2>3, BetweenSchedule
<1>4. ASSUME NEW w \in Writers PROVE TaskInv(w)'
  <2>1. ASSUME NEW s \in Slots, Ready(w, s)' PROVE Pending(w, s)'
    <3>1. CASE s = i
      BY <3>1, <1>3 DEF Pending
    <3>2. CASE s # i /\ s # wIndex[w]
      <4>1. Between(wIndex[w], s, i)
        BY <3>2, <2>1, <1>1 DEF DInv, TaskInv, Pending
      <4> QED BY <3>2, <4>1, <1>3 DEF Pending
    <3>3. CASE s = wIndex[w]
      <4>1. wPc[w] \in {"work", "signal"}
        BY <3>3, <2>1, <1>0, <1>1, <1>3, BetweenTaken DEF DInv, TaskInv, Pending
      <4> QED BY <3>3, <4>1, <1>0, <1>2 DEF Pending
    <3> QED BY <3>1, <3>2, <3>3
  <2>2. wPc'[w] = "work" => Ready(w, wIndex[w])'
    BY <1>0, <1>1, <1>2, <1>3 DEF DInv, TaskInv
  <2>3. \A s \in Slots : Ready(w, s)' => wPos'[s] \in sent' /\ pBuf'[s] = wPos'[s]
    BY <1>0, <1>1 DEF DInv, TaskInv, PhaseInv
  <2>4. ASSUME NEW s \in Slots, NEW t \in Slots, Ready(w, s)', Ready(w, t)',
               Between(s, t, writerIndex)'
        PROVE  wPos'[s] < wPos'[t]
    <3>1. Between(s, t, next)
      BY <1>0, <2>4 DEF Between
    <3>2. s # i
      <4>1. i # t => ~Between(i, t, Succ(i))
        BY IoAssumption, <1>0 DEF Between, Succ, Slots
      <4> QED BY <3>1, <4>1, <1>0, IoAssumption DEF Between, Slots
    <3>3. (t = i \/ Between(s, t, i)) /\ t # s
      BY <1>0, <3>1, <3>2, BetweenSchedule
    <3>4. CASE t = i
      <4>1. wPos[s] \in sent
        BY <1>1, <2>4, <3>2 DEF DInv, TaskInv
      <4>2. wPos[s] \in Int /\ wPos[s] <= cur /\ wPos[s] # cur /\ cur \in Int
        BY <1>0, <4>1, EnabledType DEF IInv, TypeOK, DInv, SentInv
      <4> QED BY <1>1, <3>2, <3>4, <4>2
    <3>5. CASE t # i
      BY <1>1, <2>4, <3>2, <3>3, <3>5 DEF DInv, TaskInv
    <3> QED BY <3>4, <3>5
  <2> QED BY <2>1, <2>2, <2>3, <2>4 DEF TaskInv
<1>5. ASSUME NEW w \in Writers PROVE ResultInv(w)'
  BY <1>0, <1>2, <1>3 DEF DInv, ResultInv, PhaseInv
<1>6. ChainInv'
  BY <1>0, ChainFrame DEF DInv
<1>7. PhaseInv'
  <2>1. cur < BlockMax
    BY <1>0, EnabledType
  <2>2. AfterWriteNext(writerError) \in {"stop", "progress"}
    BY DEF AfterWriteNext
  <2> QED BY <1>0, <2>1, <2>2 DEF DInv, PhaseInv
<1>8. SentInv'
  <2>1. AfterWriteNext(writerError) \in {"stop", "progress"}
    BY DEF AfterWriteNext
  <2> QED BY <1>0, <2>1, EnabledType DEF DInv, SentInv, InBlock
<1>9. ArrivalInv'
  <2> SUFFICES ASSUME ~Stopping', NEW w \in Writers, NEW q \in sent'
               PROVE  \/ parity'[w][q] = q
                      \/ \E s \in Slots : Ready(w, s)' /\ wPos'[s] = q
                      \/ Unreported'
    BY DEF ArrivalInv
  <2>1. writerError = 0 /\ ~Stopping
    <3>1. AfterWriteNext(writerError) # "stop"
      BY <1>0 DEF Stopping
    <3> QED BY <1>0, <3>1 DEF AfterWriteNext, Stopping, IInv, TypeOK
  <2>2. CASE q \in sent
    <3>1. \/ parity[w][q] = q
          \/ \E s \in Slots : Ready(w, s) /\ wPos[s] = q
          \/ Unreported
      BY <2>1, <2>2 DEF DInv, ArrivalInv
    <3>2. Unreported => Unreported'
      BY <1>0, <2>1 DEF Unreported
    <3>3. ASSUME NEW s \in Slots, Ready(w, s), wPos[s] = q
          PROVE  Ready(w, s)' /\ wPos'[s] = q
      BY <1>1, <1>3, <3>3
    <3> QED BY <1>0, <3>1, <3>2, <3>3
  <2>3. CASE q \notin sent
    BY <1>0, <1>1, <2>3
  <2> QED BY <2>2, <2>3
<1>10. ParityMatchesPosition'
  BY <1>0 DEF DInv, ParityMatchesPosition
<1> QED BY <1>4, <1>5, <1>6, <1>7, <1>8, <1>9, <1>10 DEF DInv

(* The main thread takes a reader or a writer out of its list.             *)
LEMMA ListDInv == ASSUME IInv, DInv, TaskRead \/ ParityWrite PROVE DInv'
<1> USE DEF ringVars, readTaskVars, writeTaskVars, readerVars, writerVars, mainVars
<1>0. /\ UNCHANGED <<blockNext, done, readerIndex, writerIndex, writerError,
                     readTaskVars, writeTaskVars, readerVars, writerVars,
                     mWait, mTarget, cur, skip, sent, parity>>
      /\ mpc' = mpc \/ (InBlock /\ mpc' = "stop")
  BY DEF TaskRead, ParityWrite, InBlock
<1>1. ASSUME NEW w \in Writers PROVE TaskInv(w)' /\ ResultInv(w)'
  BY <1>0, TaskFrame, ResultFrame DEF DInv
<1>2. ChainInv' /\ SentInv'
  BY <1>0, ChainFrame DEF DInv, SentInv, InBlock
<1>3. PhaseInv'
  BY <1>0 DEF DInv, PhaseInv, BetweenBlocks, InBlock, WriterDrained, ReaderQuiet, Succ
<1>4. ArrivalInv' /\ ParityMatchesPosition'
  BY <1>0, ArrivalFrame DEF DInv, Stopping, InBlock
<1> QED BY <1>1, <1>2, <1>3, <1>4 DEF DInv

(* The new place of the main thread.                                       *)
LEMMA MainRestPhase == ASSUME IInv, DInv, MainRest PROVE PhaseInv'
<1> USE DEF ringVars, readTaskVars, writeTaskVars, readerVars, writerVars, mainVars
<1> DEFINE Calm == /\ writerError = 0 /\ \A w \in Writers : WriterDrained(w)
<1>0. /\ UNCHANGED <<readerIndex, writerIndex, rIndex, rBusy, wIndex, wBusy, cur>>
      /\ \A r \in Readers : ~rBusy[r] => rPc'[r] \notin {"work", "signal"}
  BY MainRestFrame DEF IInv, DInv, PhaseInv
<1>1. /\ \A w \in Writers : WriterDrained(w)' <=> WriterDrained(w)
      /\ \A r \in Readers : ReaderQuiet(r) /\ done = done' => ReaderQuiet(r)'
  BY <1>0 DEF WriterDrained, ReaderQuiet, Succ
<1>2. InBlock => cur < BlockMax
  BY EnabledType DEF IInv, PositionInv
<1>3. PhaseInv /\ MainInv
  BY DEF DInv, IInv
<1>4. CASE MainBegin
  BY <1>0, <1>3, <1>4 DEF MainBegin, AfterLoop, PhaseInv, MainInv, BetweenBlocks
<1>5. CASE ReadBroadcast
  BY <1>0, <1>3, <1>5 DEF ReadBroadcast, AfterReadNext, AfterLoop, PhaseInv, MainInv, BetweenBlocks
<1>6. CASE TaskReadWait \/ ParityWriteWait \/ MainSpurious
  BY <1>0, <1>1, <1>3, <1>6
     DEF TaskReadWait, ParityWriteWait, MainSpurious, PhaseInv, BetweenBlocks
<1>7. CASE AllRead
  BY <1>0, <1>3, <1>7 DEF AllRead, PhaseInv, BetweenBlocks
<1>8. CASE Compute
  <2>1. mpc = "compute" /\ cur < BlockMax /\ UNCHANGED done
    BY <1>2, <1>8 DEF Compute, InBlock
  <2>2. ASSUME mpc' = "pwrite", ~skip' PROVE pBuf'[readerIndex] = cur
    <3>1. /\ \A r \in Readers : rState[r][readerIndex] = "done"
          /\ pBuf' = [pBuf EXCEPT ![readerIndex] = rBuf[0][readerIndex]]
      BY <1>8, <2>2 DEF Compute
    <3>2. 0 \in Readers /\ readerList = {}
      BY <1>3, <2>1, IoAssumption DEF Readers, MainInv
    <3>3. rBuf[0][readerIndex] = cur
      BY <2>1, <3>1, <3>2, Delivered DEF ReadDelivered
    <3> QED BY <3>1, <3>3 DEF IInv, TypeOK
  <2>3. mpc' \in {"progress", "pwrite"}
    BY <1>8 DEF Compute
  <2> QED BY <1>0, <1>3, <2>1, <2>2, <2>3 DEF PhaseInv, BetweenBlocks
<1>9. CASE WriteBroadcast
  BY <1>0, <1>3, <1>9 DEF WriteBroadcast, PhaseInv, MainInv, BetweenBlocks
<1>10. CASE Progress
  BY <1>0, <1>3, <1>10 DEF Progress, AfterLoop, PhaseInv, BetweenBlocks
<1>11. CASE Flush
  <2>1. mpc' = "quiesce" => writerError' = 0 /\ \A w \in Writers : WriterDrained(w)'
    BY <1>1, <1>11 DEF Flush
  <2> QED BY <1>0, <1>3, <1>11, <2>1 DEF Flush, PhaseInv, BetweenBlocks
<1>12. CASE Quiesce
  <2>1. \A r \in Readers : ReaderQuiet(r)'
    BY <1>1, <1>12 DEF Quiesce
  <2> QED BY <1>0, <1>1, <1>3, <1>12, <2>1 DEF Quiesce, PhaseInv, BetweenBlocks
<1>13. CASE Resume
  BY <1>0, <1>3, <1>13 DEF Resume, PhaseInv, MainInv, BetweenBlocks
<1>14. CASE Stop \/ Join
  BY <1>0, <1>3, <1>14 DEF Stop, Join, PhaseInv, BetweenBlocks
<1> QED BY <1>4, <1>5, <1>6, <1>7, <1>8, <1>9, <1>10, <1>11, <1>12, <1>13, <1>14 DEF MainRest

LEMMA MainRestDInv == ASSUME IInv, DInv, MainRest PROVE DInv'
<1> USE DEF ringVars, readTaskVars, writeTaskVars, readerVars, writerVars, mainVars
<1>0. /\ UNCHANGED <<blockNext, readerIndex, writerIndex, readTaskVars, wPos, wState,
                     wIndex, wBusy, wLatest, cur, sent, parity>>
      /\ \A w \in Writers : wPc'[w] = wPc[w] \/ (wPc[w] = "wait" /\ wPc'[w] = "step")
  BY MainRestFrame DEF IInv
<1>1. done => done'
  BY DEF MainRest, MainBegin, ReadBroadcast, TaskReadWait, AllRead, Compute, ParityWriteWait,
         WriteBroadcast, Progress, Flush, Quiesce, Resume, Stop, Join, MainSpurious
<1>2. ASSUME NEW w \in Writers PROVE TaskInv(w)' /\ ResultInv(w)'
  <2>1. ASSUME NEW s \in Slots, Ready(w, s) PROVE pBuf'[s] = pBuf[s]
    <3>1. CASE pBuf' = pBuf
      BY <3>1
    <3>2. CASE pBuf' # pBuf
      <4>1. mpc = "compute" /\ WriterMax > 0 /\ pBuf' = [pBuf EXCEPT ![readerIndex] = rBuf[0][readerIndex]]
        BY <3>2, IoAssumption
           DEF MainRest, MainBegin, ReadBroadcast, TaskReadWait, AllRead, Compute,
               ParityWriteWait, WriteBroadcast, Progress, Flush, Quiesce, Resume, Stop, Join,
               MainSpurious
      <4>2. readerIndex = writerIndex /\ wIndex[w] # writerIndex /\ wIndex[w] \in Slots
            /\ writerIndex \in Slots
        BY <4>1 DEF IInv, TypeOK, MainInv, WriterInv, InBlock
      <4>3. s # writerIndex
        BY <2>1, <4>2, BetweenTaken DEF DInv, TaskInv, Pending
      <4> QED BY <4>1, <4>2, <4>3 DEF IInv, TypeOK
    <3> QED BY <3>1, <3>2
  <2> QED BY <1>0, <1>1, <2>1, TaskFrame, ResultFrame DEF DInv
<1>3. ChainInv'
  BY <1>0, ChainFrame DEF DInv
<1>4. SentInv'
  <2>1. InBlock' \/ mpc' = "readbcast" => InBlock \/ mpc = "readbcast"
    BY DEF IInv, MainInv, MainRest, MainBegin, ReadBroadcast, TaskReadWait, AllRead, Compute,
           ParityWriteWait, WriteBroadcast, Progress, Flush, Quiesce, Resume, Stop, Join,
           MainSpurious, InBlock, AfterLoop
  <2> QED BY <1>0, <2>1 DEF DInv, SentInv
<1>5. ArrivalInv' /\ ParityMatchesPosition'
  <2>1. CASE Flush
    <3>1. writerError = writerError' \/ Stopping'
      BY <2>1 DEF Flush, IInv, TypeOK, Stopping
    <3>2. mpc = "flush"
      BY <2>1 DEF Flush
    <3> QED BY <1>0, <3>1, <3>2, ArrivalFrame
            DEF DInv, ArrivalInv, ParityMatchesPosition, Stopping
  <2>2. CASE ~Flush
    <3>1. UNCHANGED writerError /\ (Stopping => Stopping')
      BY <2>2 DEF MainRest, MainBegin, ReadBroadcast, TaskReadWait, AllRead, Compute,
             ParityWriteWait, WriteBroadcast, Progress, Quiesce, Resume, Stop, Join,
             MainSpurious, Stopping
    <3> QED BY <1>0, <3>1, ArrivalFrame DEF DInv
  <2> QED BY <2>1, <2>2
<1> QED BY <1>2, <1>3, <1>4, <1>5, MainRestPhase DEF DInv

-----------------------------------------------------------------------------
(* The invariance                                                          *)

LEMMA StutterDInv == ASSUME IInv, DInv, UNCHANGED vars PROVE DInv'
<1> USE DEF vars, ringVars, readTaskVars, writeTaskVars, readerVars, writerVars, mainVars
<1>1. ASSUME NEW w \in Writers PROVE TaskInv(w)' /\ ResultInv(w)'
  BY TaskFrame, ResultFrame DEF DInv
<1>2. ChainInv' /\ SentInv'
  BY ChainFrame DEF DInv, SentInv, InBlock
<1>3. PhaseInv'
  BY DEF DInv, PhaseInv, BetweenBlocks, WriterDrained, ReaderQuiet, Succ
<1>4. ArrivalInv' /\ ParityMatchesPosition'
  BY ArrivalFrame DEF DInv, Stopping
<1> QED BY <1>1, <1>2, <1>3, <1>4 DEF DInv

LEMMA NextDInv == IInv /\ DInv /\ [Next]_vars => DInv'
<1> SUFFICES ASSUME IInv, DInv, [Next]_vars PROVE DInv'
  OBVIOUS
<1>1. CASE \E r \in Readers : Reader(r) \/ ReaderSpurious(r)
  BY <1>1, ReaderDInv
<1>2. CASE \E w \in Writers : Writer(w) \/ WriterSpurious(w)
  BY <1>2, WriterWorkDInv, WriterTakeDInv, WriterRestDInv DEF Writer
<1>3. CASE Main \/ MainSpurious
  BY <1>3, ReadNextDInv, WriteNextDInv, ListDInv, MainRestDInv DEF Main, MainRest
<1>4. CASE Terminated \/ UNCHANGED vars
  BY <1>4, StutterDInv DEF Terminated
<1> QED BY <1>1, <1>2, <1>3, <1>4 DEF Next, Spurious

LEMMA DataInvariance == Spec => [](IInv /\ DInv)
<1>1. IInv /\ DInv /\ [Next]_vars => (IInv /\ DInv)'
  BY StepInv, NextDInv
<1> QED BY InitInv, InitDInv, <1>1, PTL DEF Spec

(* A parity file has at a position the parity of that position, never the  *)
(* one of the position that had the same slot of the ring before.          *)
THEOREM ParityInPlace == Spec => []ParityMatchesPosition
<1>1. IInv /\ DInv => ParityMatchesPosition
  BY DEF DInv
<1> QED BY <1>1, DataInvariance, PTL

(* The success of state_barrier() means that all the parity submitted is   *)
(* in the files and that no worker uses a disk.                            *)
THEOREM BarrierIsSound == Spec => []BarrierSound
<1>1. IInv /\ DInv => BarrierSound
  <2> SUFFICES ASSUME IInv, DInv, mpc = "saved" PROVE BarrierSound
    BY DEF BarrierSound
  <2>1. /\ writerError = 0
        /\ \A w \in Writers : WriterDrained(w)
        /\ \A r \in Readers : ReaderQuiet(r)
    BY DEF DInv, PhaseInv
  <2>2. ASSUME NEW w \in Writers
        PROVE  wLatest[w] = "done" /\ wPc[w] # "work" /\ \A s \in Slots : ~Ready(w, s)
    <3>1. ~wBusy[w] /\ Succ(wIndex[w]) = writerIndex
      BY <2>1 DEF WriterDrained
    <3>2. wLatest[w] = "done" /\ wPc[w] \in {"step", "wait", "exit"}
      BY <3>1 DEF DInv, ResultInv
    <3>3. \A s \in Slots : ~Between(wIndex[w], s, writerIndex)
      <4>1. wIndex[w] \in Slots /\ writerIndex \in Slots
        BY DEF IInv, TypeOK
      <4> QED BY <3>1, <4>1, IoAssumption DEF Between, Succ, Slots
    <3> QED BY <3>2, <3>3 DEF DInv, TaskInv, Pending
  <2>3. ~Unreported
    BY <2>1, <2>2 DEF Unreported
  <2>4. \A w \in Writers : \A p \in sent : parity[w][p] = p
    BY <2>2, <2>3 DEF DInv, ArrivalInv, Stopping
  <2>5. \A r \in Readers : rPc[r] # "work"
    BY <2>1 DEF DInv, PhaseInv, ReaderQuiet
  <2> QED BY <2>2, <2>4, <2>5 DEF BarrierSound
<1> QED BY <1>1, DataInvariance, PTL

-----------------------------------------------------------------------------
(* The refinement of IoStream                                              *)

LEMMA PhaseOf ==
    /\ mpc \in {"begin", "readnext", "progress", "flush", "quiesce"} => StreamPhase = "ready"
    /\ mpc = "readbcast" => StreamPhase = IF cur < BlockMax THEN "block" ELSE "ready"
    /\ mpc \in {"data", "parity", "compute", "pwrite"} => StreamPhase = "block"
    /\ mpc = "writebcast" => StreamPhase = IF mTarget = "stop" THEN "stopping" ELSE "ready"
    /\ mpc = "saved" => StreamPhase = "durable"
    /\ mpc \in {"stop", "join"} => StreamPhase = "stopping"
    /\ mpc = "end" => StreamPhase = "stopped"
BY DEF StreamPhase

LEMMA PhaseOfNext ==
    /\ mpc' \in {"begin", "readnext", "progress", "flush", "quiesce"} => StreamPhase' = "ready"
    /\ mpc' = "readbcast" => StreamPhase' = IF cur' < BlockMax THEN "block" ELSE "ready"
    /\ mpc' \in {"data", "parity", "compute", "pwrite"} => StreamPhase' = "block"
    /\ mpc' = "writebcast" => StreamPhase' = IF mTarget' = "stop" THEN "stopping" ELSE "ready"
    /\ mpc' = "saved" => StreamPhase' = "durable"
    /\ mpc' \in {"stop", "join"} => StreamPhase' = "stopping"
    /\ mpc' = "end" => StreamPhase' = "stopped"
BY DEF StreamPhase

(* The writers whose last write failed, not yet counted.                   *)
Failed == {w \in Writers : wLatest[w] = "error"}

LEMMA FailedType ==
    /\ IsFiniteSet(Failed) /\ Cardinality(Failed) \in Nat
    /\ Cardinality(Failed) = 0 <=> \A w \in Writers : wLatest[w] # "error"
<1>1. IsFiniteSet(Writers)
  BY FS_Interval, IoAssumption DEF Writers
<1>2. Failed \in SUBSET Writers
  BY DEF Failed
<1>3. IsFiniteSet(Failed)
  BY <1>1, <1>2, FS_Subset
<1> QED BY <1>3, FS_CardinalityType, FS_EmptySet DEF Failed

LEMMA UnreportedIs == StreamUnreported = writerError + Cardinality(Failed)
BY DEF StreamUnreported, Failed

LEMMA UnreportedIsNext == StreamUnreported' = writerError' + Cardinality(Failed')
BY DEF StreamUnreported, Failed

LEMMA UnreportedFrame ==
    ASSUME UNCHANGED <<writerError, wLatest>> PROVE UNCHANGED StreamUnreported
BY DEF StreamUnreported

LEMMA QueueFrame == ASSUME UNCHANGED <<wPos, wState>> PROVE UNCHANGED StreamQueue
BY DEF StreamQueue

LEMMA QueueIs ==
    ASSUME NEW w \in Writers
    PROVE  StreamQueue[w] = {wPos[s] : s \in {t \in Slots : Ready(w, t)}}
BY DEF StreamQueue, Ready

LEMMA QueueIsNext ==
    ASSUME NEW w \in Writers
    PROVE  StreamQueue'[w] = {wPos'[s] : s \in {t \in Slots : Ready(w, t)'}}
BY DEF StreamQueue, Ready

LEMMA StreamInit == Init => Stream!Init
<1> SUFFICES ASSUME Init PROVE Stream!Init
  OBVIOUS
<1>1. StreamPhase = "ready"
  BY PhaseOf DEF Init
<1>2. StreamQueue = [w \in Writers |-> {}]
  BY DEF Init, StreamQueue
<1>3. StreamUnreported = 0
  BY FailedType, UnreportedIs DEF Init
<1> QED BY <1>1, <1>2, <1>3 DEF Init, Stream!Init, None, Stream!None

(* What the readers do, the caller does not see.                           *)
LEMMA ReaderStream ==
    ASSUME IInv, NEW r \in Readers, Reader(r) \/ ReaderSpurious(r)
    PROVE  UNCHANGED Stream!vars
<1> USE DEF ringVars, readTaskVars, writeTaskVars, readerVars, writerVars, mainVars
<1>1. UNCHANGED <<readerList, wPos, wState, wLatest, writerError, mpc, mTarget, cur, sent, parity>>
  BY DEF Reader, ReaderWork, ReaderTake, ReaderSignal, ReaderWait, ReaderExit, ReaderSpurious
<1>2. UNCHANGED StreamPhase
  BY <1>1 DEF StreamPhase
<1> QED BY <1>1, <1>2, QueueFrame, UnreportedFrame DEF Stream!vars

(* The oldest position of the queue is written, or its write fails.        *)
LEMMA WriterWorkStream ==
    ASSUME IInv, DInv, NEW w \in Writers, WriterWork(w) PROVE Stream!Write(w)
<1> USE DEF ringVars, readTaskVars, writeTaskVars, readerVars, writerVars, mainVars
<1> DEFINE s0 == wIndex[w]
           p == wPos[s0]
<1>0. /\ wPc[w] = "work" /\ s0 \in Slots
      /\ UNCHANGED <<ringVars, writerError, wPos, mainVars>>
      /\ \A v \in Writers : v # w => wState'[v] = wState[v]
  BY DEF IInv, TypeOK, WriterWork
<1>1. /\ Ready(w, s0) /\ wLatest[w] = "done" /\ p \in sent /\ p \in Enabled /\ pBuf[s0] = p
  BY <1>0 DEF IInv, TypeOK, DInv, TaskInv, ResultInv
<1>2. \A s \in Slots : Ready(w, s)' <=> Ready(w, s) /\ s # s0
  BY <1>0 DEF IInv, TypeOK, Ready, WriterWork
<1>3. \A s \in Slots : Ready(w, s) /\ s # s0 => p < wPos[s]
  BY <1>0, <1>1 DEF DInv, TaskInv, Pending
<1>4. p \in StreamQueue[w] /\ \A q \in StreamQueue[w] : p <= q
  <2>1. p \in StreamQueue[w]
    BY <1>0, <1>1, QueueIs
  <2>2. ASSUME NEW q \in StreamQueue[w] PROVE p <= q
    <3>1. PICK s \in Slots : Ready(w, s) /\ q = wPos[s]
      BY <2>2, QueueIs
    <3>2. p \in Int /\ q \in Int
      BY <1>0, <3>1 DEF IInv, TypeOK
    <3> QED BY <1>3, <3>1, <3>2
  <2> QED BY <2>1, <2>2
<1>5. StreamQueue' = [StreamQueue EXCEPT ![w] = @ \ {p}]
  <2>1. StreamQueue'[w] = StreamQueue[w] \ {p}
    <3>1. \A s \in Slots : Ready(w, s) /\ s # s0 => wPos[s] # p
      BY <1>0, <1>3 DEF IInv, TypeOK
    <3> QED BY <1>0, <1>2, <3>1, QueueIs, QueueIsNext
  <2>2. ASSUME NEW v \in Writers, v # w PROVE StreamQueue'[v] = StreamQueue[v]
    <3>1. wState'[v] = wState[v] /\ wPos' = wPos
      BY <1>0, <2>2
    <3> QED BY <3>1 DEF StreamQueue
  <2>3. /\ StreamQueue = [v \in Writers |-> StreamQueue[v]]
        /\ StreamQueue' = [v \in Writers |-> StreamQueue'[v]]
    BY DEF StreamQueue
  <2> QED BY <2>1, <2>2, <2>3
<1>6. UNCHANGED StreamPhase
  BY <1>0 DEF StreamPhase
<1>7. CASE wLatest'[w] = "done"
  <2>1. parity' = [parity EXCEPT ![w][p] = p]
    BY <1>0, <1>1, <1>7 DEF IInv, TypeOK, WriterWork
  <2>2. wLatest' = wLatest
    BY <1>1, <1>7 DEF IInv, TypeOK, WriterWork
  <2> QED BY <1>0, <1>4, <1>5, <1>6, <2>1, <2>2, UnreportedFrame DEF Stream!Write
<1>8. CASE wLatest'[w] = "error"
  <2>1. parity' = parity /\ wLatest' = [wLatest EXCEPT ![w] = "error"]
    BY <1>8 DEF IInv, TypeOK, WriterWork
  <2>2. Failed' = Failed \cup {w} /\ w \notin Failed
    BY <1>1, <2>1 DEF Failed, IInv, TypeOK
  <2>3. Cardinality(Failed') = Cardinality(Failed) + 1
    BY <2>2, FailedType, FS_AddElement
  <2>4. StreamUnreported' = StreamUnreported + 1
    BY <1>0, <2>3, FailedType, UnreportedIs, UnreportedIsNext DEF IInv, TypeOK
  <2> QED BY <1>0, <1>4, <1>5, <1>6, <2>1, <2>4 DEF Stream!Write
<1> QED BY <1>7, <1>8 DEF IInv, TypeOK, WriterWork

(* An error that moves to the count of the main thread is still one.       *)
LEMMA AddWriterErrorStream ==
    ASSUME TypeOK, NEW w \in Writers, AddWriterError(w) PROVE UNCHANGED StreamUnreported
<1>1. CASE wLatest[w] = "error"
  <2>1. writerError' = writerError + 1 /\ wLatest' = [wLatest EXCEPT ![w] = "done"]
    BY <1>1 DEF AddWriterError
  <2>2. Failed' = Failed \ {w} /\ w \in Failed
    BY <1>1, <2>1 DEF Failed, TypeOK
  <2>3. Cardinality(Failed') = Cardinality(Failed) - 1
    BY <2>2, FailedType, FS_RemoveElement
  <2> QED BY <2>1, <2>3, FailedType, UnreportedIs, UnreportedIsNext DEF TypeOK
<1>2. CASE wLatest[w] = "done"
  BY <1>2, UnreportedFrame DEF TypeOK, AddWriterError
<1> QED BY <1>1, <1>2 DEF TypeOK

LEMMA WriterRestStream ==
    ASSUME IInv, NEW w \in Writers,
           \/ WriterTake(w) \/ WriterSignal(w) \/ WriterWait(w) \/ WriterExit(w)
           \/ WriterSpurious(w)
    PROVE  UNCHANGED Stream!vars
<1> USE DEF ringVars, readTaskVars, writeTaskVars, readerVars, writerVars, mainVars
<1>1. UNCHANGED <<readerList, wPos, wState, mpc, mTarget, cur, sent, parity>>
  BY DEF WriterTake, WriterSignal, WriterWait, WriterExit, WriterSpurious
<1>2. UNCHANGED StreamUnreported
  BY AddWriterErrorStream, UnreportedFrame
     DEF IInv, WriterTake, WriterSignal, WriterWait, WriterExit, WriterSpurious
<1>3. UNCHANGED StreamPhase
  BY <1>1 DEF StreamPhase
<1> QED BY <1>1, <1>2, <1>3, QueueFrame DEF Stream!vars

(* io_read_next() is NextBlock.                                            *)
LEMMA ReadNextStream == ASSUME IInv, DInv, ReadNext PROVE Stream!NextBlock
<1> USE DEF ringVars, readTaskVars, writeTaskVars, readerVars, writerVars, mainVars
<1>1. /\ mpc = "readnext" /\ cur' = rPos[Succ(readerIndex)] /\ readerList' = Readers
      /\ mpc' \in {"readbcast", AfterReadNext(cur')}
      /\ readerIndex \in Slots /\ Succ(readerIndex) \in Slots /\ Succ(readerIndex) # readerIndex
      /\ UNCHANGED <<writerError, wPos, wState, wLatest, sent, parity>>
  BY SuccType DEF ReadNext, IInv, TypeOK
<1>2. /\ cur < BlockMax /\ (cur = None \/ cur >= 0) /\ cur \in Int /\ cur' \in Int
      /\ NextPosition(After(cur), cur')
  BY <1>1 DEF DInv, PhaseInv, ChainInv, BetweenBlocks, IInv, TypeOK
<1>3. cur' \in Enabled \cup (BlockMax .. BlockMax + BlockStart)
  <2>1. After(cur) \in Int /\ After(cur) <= BlockMax + BlockStart
    BY <1>2, IoAssumption DEF After
  <2> QED BY <1>2, <2>1, IoAssumption DEF NextPosition
<1>4. Stream!NextPosition(IF cur = None THEN BlockStart ELSE cur + 1, cur')
  BY <1>2 DEF NextPosition, After, Stream!NextPosition
<1>5. /\ StreamPhase = "ready"
      /\ StreamPhase' \in IF cur' < BlockMax THEN {"block"} ELSE {"ready", "stopping"}
  <2>1. AfterReadNext(cur') \in IF cur' < BlockMax THEN {"data"} ELSE {"flush", "stop"}
    BY <1>2, IoAssumption DEF AfterReadNext, AfterLoop
  <2> QED BY <1>1, <2>1, PhaseOf, PhaseOfNext
<1> QED BY <1>1, <1>2, <1>3, <1>4, <1>5, QueueFrame, UnreportedFrame
        DEF Stream!NextBlock, Stream!None, None

(* io_data_read() and io_parity_read() return the first finished reader.   *)
LEMMA TaskReadStream ==
    ASSUME IInv, TaskRead PROVE \E r \in Readers : Stream!Return(r)
<1> USE DEF ringVars, readTaskVars, writeTaskVars, readerVars, writerVars, mainVars
<1>1. PICK r \in Readers : ReadFinished(r) /\ readerList' = readerList \ {r}
  BY DEF TaskRead
<1>2. /\ mpc \in {"data", "parity"} /\ mpc' \in {mpc, "stop"}
      /\ UNCHANGED <<writerError, wPos, wState, wLatest, cur, sent, parity>>
  BY DEF TaskRead
<1>3. StreamPhase = "block" /\ StreamPhase' \in {"block", "stopping"}
  BY <1>2, PhaseOf, PhaseOfNext
<1>4. r \in readerList
  BY <1>1 DEF ReadFinished
<1>5. Stream!Return(r)
  BY <1>1, <1>2, <1>3, <1>4, QueueFrame, UnreportedFrame DEF Stream!Return
<1> QED BY <1>5

(* io_write_next() submits the position, or skips it, and collects the     *)
(* errors counted so far.                                                  *)
LEMMA WriteNextStream == ASSUME IInv, DInv, WriteNext PROVE Stream!Submit
<1> USE DEF ringVars, readTaskVars, writeTaskVars, readerVars, writerVars, mainVars
<1> DEFINE i == writerIndex
<1>1. /\ mpc = "pwrite" /\ writerError' = 0 /\ i \in Slots
      /\ mTarget' = AfterWriteNext(writerError)
      /\ mpc' \in {"writebcast", AfterWriteNext(writerError)}
      /\ sent' = IF skip THEN sent ELSE sent \cup {cur}
      /\ UNCHANGED <<readerList, wLatest, cur, parity>>
  BY DEF WriteNext, IInv, TypeOK
<1>2. readerList = {}
  BY <1>1 DEF IInv, MainInv
<1>3. ASSUME NEW w \in Writers
      PROVE  StreamQueue'[w] = IF skip THEN StreamQueue[w] ELSE StreamQueue[w] \cup {cur}
  <2>1. /\ \A s \in Slots : wPos'[s] = IF s = i THEN cur ELSE wPos[s]
        /\ \A s \in Slots : Ready(w, s)' <=> IF s = i THEN ~skip ELSE Ready(w, s)
    BY <1>1 DEF IInv, TypeOK, WriteNext, Ready
  <2>2. wIndex[w] \in Slots /\ wIndex[w] # i
    BY DEF IInv, TypeOK, WriterInv
  <2>3. ~Ready(w, i)
    BY <1>1, <2>2, BetweenTaken DEF DInv, TaskInv, Pending
  <2>4. \A q : q \in StreamQueue'[w] <=>
          \/ ~skip /\ q = cur
          \/ \E s \in Slots : s # i /\ Ready(w, s) /\ q = wPos[s]
    BY <1>1, <2>1, QueueIsNext
  <2>5. \A q : q \in StreamQueue[w] <=> \E s \in Slots : s # i /\ Ready(w, s) /\ q = wPos[s]
    BY <2>3, QueueIs
  <2> QED BY <2>4, <2>5
<1>4. \/ /\ sent' = sent \cup {cur}
         /\ StreamQueue' = [w \in Writers |-> StreamQueue[w] \cup {cur}]
      \/ UNCHANGED <<sent, StreamQueue>>
  <2>1. /\ StreamQueue = [w \in Writers |-> StreamQueue[w]]
        /\ StreamQueue' = [w \in Writers |-> StreamQueue'[w]]
    BY DEF StreamQueue
  <2> QED BY <1>1, <1>3, <2>1
<1>5. /\ StreamUnreported' \in 0 .. StreamUnreported
      /\ StreamUnreported' = StreamUnreported <=> writerError = 0
  <2>1. Failed' = Failed
    BY <1>1 DEF Failed
  <2> QED BY <1>1, <2>1, FailedType, UnreportedIs, UnreportedIsNext DEF IInv, TypeOK
<1>6. /\ StreamPhase = "block"
      /\ StreamPhase' = IF writerError = 0 THEN "ready" ELSE "stopping"
  <2>1. AfterWriteNext(writerError) = IF writerError = 0 THEN "progress" ELSE "stop"
    BY DEF AfterWriteNext, IInv, TypeOK
  <2> QED BY <1>1, <2>1, PhaseOf, PhaseOfNext
<1> QED BY <1>1, <1>2, <1>4, <1>5, <1>6 DEF Stream!Submit

(* A drained writer has nothing in its queue.                              *)
LEMMA DrainedQueue ==
    ASSUME IInv, DInv, NEW w \in Writers, Succ(wIndex[w]) = writerIndex,
           wPc[w] \notin {"work", "signal"}
    PROVE  StreamQueue[w] = {}
<1>1. \A s \in Slots : ~Between(wIndex[w], s, writerIndex)
  <2>1. wIndex[w] \in Slots /\ writerIndex \in Slots
    BY DEF IInv, TypeOK
  <2> QED BY <2>1, IoAssumption DEF Between, Succ, Slots
<1>2. \A s \in Slots : ~Ready(w, s)
  BY <1>1 DEF DInv, TaskInv, Pending
<1> QED BY <1>2, QueueIs

(* The end of a barrier finds everything written and told.                 *)
LEMMA QuiesceStream == ASSUME IInv, DInv, Quiesce PROVE Stream!Barrier
<1> USE DEF ringVars, readTaskVars, writeTaskVars, readerVars, writerVars, mainVars
<1>1. /\ mpc = "quiesce" /\ mpc' = "saved"
      /\ UNCHANGED <<readerList, writerError, wPos, wState, wLatest, cur, sent, parity>>
  BY DEF Quiesce
<1>2. writerError = 0 /\ \A w \in Writers : WriterDrained(w)
  BY <1>1 DEF DInv, PhaseInv
<1>3. \A w \in Writers : wLatest[w] = "done" /\ wPc[w] \in {"step", "wait", "exit"}
  BY <1>2 DEF DInv, ResultInv, WriterDrained
<1>4. \A w \in Writers : StreamQueue[w] = {}
  BY <1>2, <1>3, DrainedQueue DEF WriterDrained
<1>5. StreamUnreported = 0
  BY <1>2, <1>3, FailedType, UnreportedIs
<1> QED BY <1>1, <1>4, <1>5, PhaseOf, PhaseOfNext, QueueFrame, UnreportedFrame
        DEF Stream!Barrier

(* io_stop() returns when the writers have nothing left.                   *)
LEMMA JoinStream == ASSUME IInv, DInv, Join PROVE Stream!Stopped
<1> USE DEF ringVars, readTaskVars, writeTaskVars, readerVars, writerVars, mainVars
<1>1. /\ mpc = "join" /\ mpc' = "end"
      /\ \A w \in Writers : wPc[w] = "exit"
      /\ UNCHANGED <<readerList, writerError, wPos, wState, wLatest, cur, sent, parity>>
  BY DEF Join
<1>2. \A w \in Writers : StreamQueue[w] = {}
  BY <1>1, DrainedQueue DEF DInv, ResultInv
<1> QED BY <1>1, <1>2, PhaseOf, PhaseOfNext, QueueFrame, UnreportedFrame DEF Stream!Stopped

(* The other steps of the main thread are seen as the end of a phase.      *)
LEMMA MainRestStream ==
    ASSUME IInv, DInv, MainRest
    PROVE  \/ Stream!Submit \/ Stream!Barrier \/ Stream!Resume \/ Stream!Bail
           \/ Stream!Stopped \/ UNCHANGED Stream!vars
<1> USE DEF ringVars, readTaskVars, writeTaskVars, readerVars, writerVars, mainVars
<1>0. UNCHANGED <<readerList, wPos, wState, wLatest, cur, sent, parity, StreamQueue>>
  BY MainRestFrame, QueueFrame DEF IInv
<1>1. ASSUME UNCHANGED <<writerError, StreamPhase>> PROVE UNCHANGED Stream!vars
  BY <1>0, <1>1, UnreportedFrame DEF Stream!vars
<1>2. ASSUME UNCHANGED writerError, StreamPhase = "ready", StreamPhase' = "stopping"
      PROVE  Stream!Bail
  <2>1. StreamUnreported' = StreamUnreported /\ StreamUnreported \in Nat
    BY <1>0, <1>2, UnreportedFrame, UnreportedIs, FailedType DEF IInv, TypeOK
  <2> QED BY <1>0, <1>2, <2>1 DEF Stream!Bail
<1>3. CASE MainBegin
  <2>1. UNCHANGED writerError /\ mpc = "begin" /\ mpc' \in {"readnext", "flush", "stop"}
    BY <1>3 DEF MainBegin, AfterLoop
  <2> QED BY <1>1, <1>2, <2>1, PhaseOf, PhaseOfNext
<1>4. CASE ReadBroadcast
  <2>1. /\ UNCHANGED writerError /\ mpc = "readbcast"
        /\ mpc' \in IF cur < BlockMax THEN {"data"} ELSE {"flush", "stop"}
    BY <1>4, IoAssumption DEF ReadBroadcast, AfterReadNext, AfterLoop, IInv, TypeOK
  <2> QED BY <1>1, <1>2, <2>1, PhaseOf, PhaseOfNext
<1>5. CASE TaskReadWait \/ ParityWriteWait \/ MainSpurious
  <2>1. UNCHANGED <<writerError, mpc, mTarget, cur>>
    BY <1>0, <1>5 DEF TaskReadWait, ParityWriteWait, MainSpurious
  <2> QED BY <1>1, <2>1 DEF StreamPhase
<1>6. CASE AllRead
  <2>1. UNCHANGED writerError /\ mpc \in {"data", "parity"} /\ mpc' \in {"parity", "compute"}
    BY <1>6 DEF AllRead
  <2> QED BY <1>1, <2>1, PhaseOf, PhaseOfNext
<1>7. CASE Compute
  <2>1. UNCHANGED writerError /\ mpc = "compute" /\ mpc' \in {"progress", "pwrite"}
    BY <1>7 DEF Compute
  <2>2. CASE mpc' = "progress"
    <3>1. readerList = {}
      BY <2>1 DEF IInv, MainInv
    <3>2. StreamPhase = "block" /\ StreamPhase' = "ready"
      BY <2>1, <2>2, PhaseOf, PhaseOfNext
    <3>3. StreamUnreported' = StreamUnreported /\ StreamUnreported \in Nat
      BY <1>0, <2>1, UnreportedFrame, UnreportedIs, FailedType DEF IInv, TypeOK
    <3> QED BY <1>0, <3>1, <3>2, <3>3 DEF Stream!Submit
  <2>3. CASE mpc' = "pwrite"
    BY <1>1, <2>1, <2>3, PhaseOf, PhaseOfNext
  <2> QED BY <2>1, <2>2, <2>3
<1>8. CASE WriteBroadcast
  <2>1. /\ UNCHANGED writerError /\ mpc = "writebcast" /\ mpc' = mTarget
        /\ mTarget \in {"progress", "stop"}
    BY <1>8 DEF WriteBroadcast, IInv, MainInv
  <2> QED BY <1>1, <2>1, PhaseOf, PhaseOfNext
<1>9. CASE Progress
  <2>1. UNCHANGED writerError /\ mpc = "progress" /\ mpc' \in {"readnext", "flush", "stop"}
    BY <1>9 DEF Progress, AfterLoop
  <2> QED BY <1>1, <1>2, <2>1, PhaseOf, PhaseOfNext
<1>10. CASE Flush
  <2>1. CASE mpc' = "quiesce"
    <3>1. UNCHANGED writerError /\ mpc = "flush"
      BY <1>10, <2>1 DEF Flush, IInv, TypeOK
    <3> QED BY <1>1, <2>1, <3>1, PhaseOf, PhaseOfNext
  <2>2. CASE mpc' = "stop"
    <3>1. mpc = "flush" /\ writerError' = 0 /\ Failed' = Failed
      BY <1>0, <1>10 DEF Flush, Failed
    <3>2. StreamUnreported' \in 0 .. StreamUnreported
      BY <3>1, FailedType, UnreportedIs, UnreportedIsNext DEF IInv, TypeOK
    <3>3. StreamPhase = "ready" /\ StreamPhase' = "stopping"
      BY <2>2, <3>1, PhaseOf, PhaseOfNext
    <3> QED BY <1>0, <3>2, <3>3 DEF Stream!Bail
  <2> QED BY <1>10, <2>1, <2>2 DEF Flush
<1>11. CASE Quiesce
  BY <1>11, QuiesceStream
<1>12. CASE Resume
  <2>1. /\ UNCHANGED <<writerError, wLatest>> /\ mpc = "saved" /\ mpc' = mTarget
        /\ mTarget \in {"readnext", "stop"}
    BY <1>12 DEF Resume, IInv, MainInv
  <2>2. StreamPhase = "durable" /\ StreamPhase' \in {"ready", "stopping"}
    BY <2>1, PhaseOf, PhaseOfNext
  <2> QED BY <1>0, <2>1, <2>2, UnreportedFrame DEF Stream!Resume
<1>13. CASE Stop
  <2>1. UNCHANGED writerError /\ mpc = "stop" /\ mpc' = "join"
    BY <1>13 DEF Stop
  <2> QED BY <1>1, <2>1, PhaseOf, PhaseOfNext
<1>14. CASE Join
  BY <1>14, JoinStream
<1> QED BY <1>3, <1>4, <1>5, <1>6, <1>7, <1>8, <1>9, <1>10, <1>11, <1>12, <1>13, <1>14
        DEF MainRest

LEMMA NextStream == IInv /\ DInv /\ [Next]_vars => [Stream!Next]_Stream!vars
<1> SUFFICES ASSUME IInv, DInv, [Next]_vars PROVE Stream!Next \/ UNCHANGED Stream!vars
  OBVIOUS
<1>1. CASE \E r \in Readers : Reader(r) \/ ReaderSpurious(r)
  BY <1>1, ReaderStream
<1>2. CASE \E w \in Writers : Writer(w) \/ WriterSpurious(w)
  BY <1>2, WriterWorkStream, WriterRestStream DEF Writer, Stream!Next
<1>3. CASE ReadNext \/ WriteNext \/ TaskRead
  BY <1>3, ReadNextStream, WriteNextStream, TaskReadStream DEF Stream!Next
<1>4. CASE ParityWrite
  <2>1. UNCHANGED <<readerList, writerError, wPos, wState, wLatest, mpc, mTarget, cur, sent, parity>>
    BY <1>4 DEF ParityWrite, readTaskVars, writeTaskVars, writerVars, mainVars
  <2> QED BY <2>1, QueueFrame, UnreportedFrame DEF Stream!vars, StreamPhase
<1>5. CASE MainRest
  BY <1>5, MainRestStream DEF Stream!Next
<1>6. CASE UNCHANGED vars
  <2>1. UNCHANGED <<readerList, writerError, wPos, wState, wLatest, mpc, mTarget, cur, sent, parity>>
    BY <1>6 DEF vars, ringVars, readTaskVars, writeTaskVars, writerVars, mainVars
  <2> QED BY <2>1, QueueFrame, UnreportedFrame DEF Stream!vars, StreamPhase
<1> QED BY <1>1, <1>2, <1>3, <1>4, <1>5, <1>6 DEF Next, Main, MainRest, Spurious, Terminated

(* The threaded engine keeps the promises of IoStream: no interleaving of  *)
(* the readers, the writers and the loop of sync or scrub shows the caller *)
(* a position out of order, a disk twice, or a barrier that hides an error *)
(* or leaves a write behind.                                               *)
THEOREM RingImplementsStream == Spec => ImplementsStream
<1> QED BY DataInvariance, StreamInit, NextStream, PTL DEF Spec, ImplementsStream, Stream!Spec

=============================================================================
