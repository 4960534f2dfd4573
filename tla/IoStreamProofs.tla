--------------------------- MODULE IoStreamProofs ---------------------------
(***************************************************************************)
(* The promise of the I/O engine, proved for any number of disks, parities *)
(* and positions: what IoRing and IoMono are shown to implement is enough  *)
(* for the saves of the content file during a sync to be safe.             *)
(***************************************************************************)
EXTENDS IoStream, TLAPS

(* A barrier leaves nothing to write and no failure unknown until the      *)
(* caller goes on: no write may happen between state_barrier and           *)
(* state_write.                                                            *)
DurableIsQuiet ==
    phase = "durable" => unreported = 0 /\ \A w \in Writers : queue[w] = {}

(* Only an enabled position is worked on, so only those are submitted.     *)
BlockIsEnabled == phase = "block" => pos \in Enabled

IInv == TypeOK /\ BlockIsEnabled /\ NoLostError /\ DurableIsQuiet

LEMMA InitIInv == Init => IInv
  <1>1. SUFFICES ASSUME Init PROVE IInv OBVIOUS
  <1>2. TypeOK BY <1>1 DEF Init, TypeOK, None
  <1>3. BlockIsEnabled /\ NoLostError /\ DurableIsQuiet
    BY <1>1 DEF Init, BlockIsEnabled, NoLostError, DurableIsQuiet
  <1> QED BY <1>2, <1>3 DEF IInv

(* A position is worked on only after io_read_next found it enabled.       *)
LEMMA NextBlockIInv ==
    ASSUME StreamAssumption, IInv, NextBlock PROVE IInv'
  <1>1. pos' \in Int
    BY StreamAssumption DEF StreamAssumption, NextBlock
  <1>2. phase' = "block" => pos' \in Enabled
    <2>1. phase' = "block" => pos' < BlockMax BY DEF NextBlock
    <2> QED BY <2>1, StreamAssumption DEF StreamAssumption, NextBlock
  <1>3. TypeOK' BY <1>1 DEF IInv, TypeOK, NextBlock
  <1>4. NoLostError' BY DEF IInv, NoLostError, NextBlock
  <1>5. DurableIsQuiet' BY DEF DurableIsQuiet, NextBlock
  <1> QED BY <1>2, <1>3, <1>4, <1>5 DEF IInv, BlockIsEnabled

(* What is submitted is waiting; an error told to the caller stops it.     *)
LEMMA SubmitIInv ==
    ASSUME IInv, Submit PROVE IInv'
  <1>1. pos \in Enabled BY DEF IInv, BlockIsEnabled, Submit
  <1>2. TypeOK'
    <2>1. unreported' \in Nat BY DEF IInv, TypeOK, Submit
    <2>2. submitted' \subseteq Enabled /\ queue' \in [Writers -> SUBSET Enabled]
      BY <1>1 DEF IInv, TypeOK, Submit
    <2> QED BY <2>1, <2>2 DEF IInv, TypeOK, Submit
  <1>3. NoLostError'
    <2>1. SUFFICES ASSUME phase' = "ready", NEW w \in Writers, NEW p \in submitted'
                   PROVE file'[w][p] = p \/ p \in queue'[w] \/ unreported' > 0
      BY DEF NoLostError, Submit
    <2>2. unreported' = unreported BY <2>1 DEF Submit
    <2>3. CASE p \in submitted
      <3>1. file[w][p] = p \/ p \in queue[w] \/ unreported > 0
        BY <2>3 DEF IInv, NoLostError, Submit
      <3>2. queue[w] \subseteq queue'[w] BY DEF Submit
      <3> QED BY <2>2, <3>1, <3>2 DEF Submit
    <2>4. CASE p \notin submitted
      <3>1. p = pos /\ queue' = [v \in Writers |-> queue[v] \cup {pos}]
        BY <2>1, <2>4 DEF Submit
      <3> QED BY <3>1
    <2> QED BY <2>3, <2>4
  <1>4. BlockIsEnabled' /\ DurableIsQuiet'
    BY DEF BlockIsEnabled, DurableIsQuiet, Submit
  <1> QED BY <1>2, <1>3, <1>4 DEF IInv

(* A position leaves the queue for the file, or for the errors to tell.    *)
LEMMA WriteIInv ==
    ASSUME StreamAssumption, IInv, NEW w \in Writers, Write(w) PROVE IInv'
  <1>1. PICK p \in queue[w] :
          /\ queue' = [queue EXCEPT ![w] = @ \ {p}]
          /\ \/ file' = [file EXCEPT ![w][p] = p] /\ UNCHANGED unreported
             \/ unreported' = unreported + 1 /\ UNCHANGED file
          /\ UNCHANGED <<pos, phase, toRead, submitted>>
    BY DEF Write
  <1>2. p \in Enabled /\ p \in Int
    BY <1>1, StreamAssumption DEF StreamAssumption, IInv, TypeOK
  <1>3. phase # "durable" BY <1>1 DEF IInv, DurableIsQuiet
  <1>4. TypeOK'
    <2>1. queue' \in [Writers -> SUBSET Enabled] BY <1>1 DEF IInv, TypeOK
    <2>2. file' \in [Writers -> [Enabled -> Int]] BY <1>1, <1>2 DEF IInv, TypeOK
    <2>3. unreported' \in Nat BY <1>1 DEF IInv, TypeOK
    <2> QED BY <1>1, <2>1, <2>2, <2>3 DEF IInv, TypeOK
  <1>5. NoLostError'
    <2>1. SUFFICES ASSUME phase \in {"ready", "block", "durable"},
                          NEW v \in Writers, NEW q \in submitted
                   PROVE file'[v][q] = q \/ q \in queue'[v] \/ unreported' > 0
      BY <1>1 DEF NoLostError
    <2>2. file[v][q] = q \/ q \in queue[v] \/ unreported > 0
      BY <2>1 DEF IInv, NoLostError
    <2>3. CASE unreported' = unreported + 1 BY <2>3 DEF IInv, TypeOK
    <2>4. CASE file' = [file EXCEPT ![w][p] = p] /\ UNCHANGED unreported
      <3>1. file' [w][p] = p BY <1>2, <2>4 DEF IInv, TypeOK
      <3>2. ~(v = w /\ q = p) => file'[v][q] = file[v][q]
        <4>1. CASE v # w BY <2>4, <4>1 DEF IInv, TypeOK
        <4>2. CASE v = w /\ q # p
          BY <1>2, <2>4, <4>2 DEF IInv, TypeOK
        <4> QED BY <4>1, <4>2
      <3>3. ~(v = w /\ q = p) => (q \in queue[v] => q \in queue'[v])
        BY <1>1 DEF IInv, TypeOK
      <3> QED BY <2>2, <2>4, <3>1, <3>2, <3>3
    <2> QED BY <1>1, <2>3, <2>4
  <1>6. BlockIsEnabled' BY <1>1 DEF IInv, BlockIsEnabled
  <1>7. DurableIsQuiet' BY <1>1, <1>3 DEF DurableIsQuiet
  <1> QED BY <1>4, <1>5, <1>6, <1>7 DEF IInv

(* The calls that only wait: a barrier, io_stop, a result of a disk.       *)
LEMMA WaitIInv ==
    ASSUME IInv, Barrier \/ Resume \/ Bail \/ Stopped \/ (\E r \in Readers : Return(r))
    PROVE IInv'
  <1>1. CASE Barrier
    BY <1>1 DEF IInv, TypeOK, BlockIsEnabled, NoLostError, DurableIsQuiet, Barrier
  <1>2. CASE Resume
    BY <1>2 DEF IInv, TypeOK, BlockIsEnabled, NoLostError, DurableIsQuiet, Resume
  <1>3. CASE Bail
    <2>1. unreported' \in Nat BY <1>3 DEF IInv, TypeOK, Bail
    <2> QED BY <1>3, <2>1
      DEF IInv, TypeOK, BlockIsEnabled, NoLostError, DurableIsQuiet, Bail
  <1>4. CASE Stopped
    BY <1>4 DEF IInv, TypeOK, BlockIsEnabled, NoLostError, DurableIsQuiet, Stopped
  <1>5. CASE \E r \in Readers : Return(r)
    BY <1>5 DEF IInv, TypeOK, BlockIsEnabled, NoLostError, DurableIsQuiet, Return
  <1> QED BY <1>1, <1>2, <1>3, <1>4, <1>5

LEMMA NextIInv ==
    ASSUME StreamAssumption, IInv, [Next]_vars PROVE IInv'
  <1>1. CASE NextBlock BY <1>1, StreamAssumption, NextBlockIInv
  <1>2. CASE Submit BY <1>2, SubmitIInv
  <1>3. CASE \E w \in Writers : Write(w) BY <1>3, StreamAssumption, WriteIInv
  <1>4. CASE Barrier \/ Resume \/ Bail \/ Stopped \/ (\E r \in Readers : Return(r))
    BY <1>4, WaitIInv
  <1>5. CASE UNCHANGED vars
    BY <1>5 DEF IInv, TypeOK, BlockIsEnabled, NoLostError, DurableIsQuiet, vars
  <1> QED BY <1>1, <1>2, <1>3, <1>4, <1>5 DEF Next

(* When state_barrier succeeds all the parity submitted so far is in all   *)
(* the parity files, so the content file saved next promises nothing else. *)
THEOREM BarrierComplete ==
    ASSUME StreamAssumption PROVE Spec => []DurableIsComplete
  <1>1. IInv => DurableIsComplete
    BY DEF IInv, DurableIsComplete, DurableIsQuiet, NoLostError
  <1> QED BY <1>1, InitIInv, NextIInv, PTL DEF Spec

(* No failure of an asynchronous parity write is forgotten by              *)
(* io_writer_error_get while the caller goes on.                           *)
THEOREM ErrorsReported ==
    ASSUME StreamAssumption PROVE Spec => []NoLostError
  <1>1. IInv => NoLostError BY DEF IInv
  <1> QED BY <1>1, InitIInv, NextIInv, PTL DEF Spec

(* The loops of sync and scrub get each enabled position once, in order,   *)
(* though the ring schedules past the end of the range.                    *)
THEOREM EachPositionOnce ==
    ASSUME StreamAssumption PROVE Spec => OncePerPosition
  <1>1. ASSUME IInv, [Next]_vars, pos' # pos
        PROVE pos' > pos /\ \A q \in Enabled : ~ (pos < q /\ q < pos')
    <2>1. NextBlock
      BY <1>1 DEF Next, vars, Return, Submit, Write, Barrier, Resume, Bail, Stopped
    <2>2. NextPosition(IF pos = None THEN BlockStart ELSE pos + 1, pos')
      BY <2>1 DEF NextBlock
    <2>3. /\ pos \in Int /\ pos' \in Int /\ BlockStart \in Nat
          /\ \A q \in Enabled : q \in Int /\ q >= BlockStart
      BY <1>1, <2>1, StreamAssumption DEF StreamAssumption, IInv, TypeOK, NextBlock
    <2>4. CASE pos = None BY <2>2, <2>3, <2>4 DEF NextPosition, None
    <2>5. CASE pos # None BY <2>2, <2>3, <2>5 DEF NextPosition
    <2> QED BY <2>4, <2>5
  <1>2. ASSUME IInv, [Next]_vars
        PROVE [pos' # pos => pos' > pos /\ \A q \in Enabled : ~ (pos < q /\ q < pos')]_vars
    BY <1>1, <1>2
  <1> QED BY <1>2, InitIInv, NextIInv, PTL DEF Spec, OncePerPosition
=============================================================================
