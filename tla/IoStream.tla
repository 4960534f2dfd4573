------------------------------ MODULE IoStream ------------------------------
(***************************************************************************)
(* What the I/O engine promises to the loops of sync and scrub, whatever   *)
(* the number of threads (the function pointers of struct snapraid_io in   *)
(* io.h): the enabled positions come one at a time and in order, every     *)
(* disk is returned once for each of them, the parity submitted reaches    *)
(* every parity file later and in order, and a barrier succeeds only when  *)
(* nothing is left to write and nothing failed.                            *)
(***************************************************************************)
EXTENDS Integers, FiniteSets

CONSTANTS Readers, Writers, BlockStart, BlockMax, Enabled

(* What the engines that are shown to implement this assume, and its       *)
(* theorems in IoStreamProofs.                                             *)
StreamAssumption ==
    /\ BlockStart \in Nat /\ BlockMax \in Nat
    /\ Enabled \subseteq BlockStart .. BlockMax - 1

None == -1

VARIABLES
    pos,         \* the position of the caller, None before the first one
    phase,       \* "ready" for the next position, in a "block", in a "durable"
                 \* barrier, "stopping", "stopped"
    toRead,      \* the disks not yet returned for pos
    submitted,   \* the positions whose parity was submitted
    queue,       \* [writer] the positions submitted and not yet tried
    file,        \* [writer][position] content of the parity file
    unreported   \* the failed writes the caller does not know of

vars == <<pos, phase, toRead, submitted, queue, file, unreported>>

(* p is the first enabled position from n on, or one out of range. *)
NextPosition(n, p) ==
    /\ p >= n
    /\ p < BlockMax => p \in Enabled
    /\ \A q \in Enabled : q >= n => p <= q

Init ==
    /\ pos = None /\ phase = "ready" /\ toRead = {}
    /\ submitted = {} /\ queue = [w \in Writers |-> {}]
    /\ file = [w \in Writers |-> [p \in Enabled |-> None]]
    /\ unreported = 0

(* io_read_next.  Out of range the caller may stop at once (scrub) or go   *)
(* through a last barrier (sync).                                          *)
NextBlock ==
    /\ phase = "ready" /\ pos < BlockMax
    /\ pos' \in Enabled \cup (BlockMax .. BlockMax + BlockStart)
    /\ NextPosition(IF pos = None THEN BlockStart ELSE pos + 1, pos')
    /\ toRead' = Readers
    /\ phase' \in IF pos' < BlockMax THEN {"block"} ELSE {"ready", "stopping"}
    /\ UNCHANGED <<submitted, queue, file, unreported>>

(* io_data_read and io_parity_read return one of the disks; the caller may *)
(* give up on its result.                                                  *)
Return(r) ==
    /\ phase = "block" /\ r \in toRead
    /\ toRead' = toRead \ {r}
    /\ phase' \in {"block", "stopping"}
    /\ UNCHANGED <<pos, submitted, queue, file, unreported>>

(* io_write_next (io_write_preset in the mono thread engine), with or      *)
(* without a parity to write.  Some of the errors are collected: any stops *)
(* the caller.                                                             *)
Submit ==
    /\ phase = "block" /\ toRead = {}
    /\ \/ /\ submitted' = submitted \cup {pos}
          /\ queue' = [w \in Writers |-> queue[w] \cup {pos}]
       \/ UNCHANGED <<submitted, queue>>
    /\ unreported' \in 0 .. unreported
    /\ phase' = IF unreported' = unreported THEN "ready" ELSE "stopping"
    /\ UNCHANGED <<pos, toRead, file>>

(* A parity file gets the oldest of its positions, or the write fails.     *)
Write(w) ==
    \E p \in queue[w] :
      /\ \A q \in queue[w] : p <= q
      /\ queue' = [queue EXCEPT ![w] = @ \ {p}]
      /\ \/ file' = [file EXCEPT ![w][p] = p] /\ UNCHANGED unreported
         \/ unreported' = unreported + 1 /\ UNCHANGED file
      /\ UNCHANGED <<pos, phase, toRead, submitted>>

(* state_barrier succeeds *)
Barrier ==
    /\ phase = "ready"
    /\ \A w \in Writers : queue[w] = {}
    /\ unreported = 0
    /\ phase' = "durable"
    /\ UNCHANGED <<pos, toRead, submitted, queue, file, unreported>>

Resume ==
    /\ phase = "durable"
    /\ phase' \in {"ready", "stopping"}
    /\ UNCHANGED <<pos, toRead, submitted, queue, file, unreported>>

(* The caller gives up: an error was collected, or it is interrupted.      *)
Bail ==
    /\ phase = "ready"
    /\ phase' = "stopping"
    /\ unreported' \in 0 .. unreported
    /\ UNCHANGED <<pos, toRead, submitted, queue, file>>

(* io_stop returns once the writers have nothing left.                     *)
Stopped ==
    /\ phase = "stopping"
    /\ \A w \in Writers : queue[w] = {}
    /\ phase' = "stopped"
    /\ UNCHANGED <<pos, toRead, submitted, queue, file, unreported>>

Next == \/ NextBlock \/ (\E r \in Readers : Return(r)) \/ Submit
        \/ (\E w \in Writers : Write(w))
        \/ Barrier \/ Resume \/ Bail \/ Stopped

Spec == Init /\ [][Next]_vars

-----------------------------------------------------------------------------
TypeOK ==
    /\ pos \in Int
    /\ phase \in {"ready", "block", "durable", "stopping", "stopped"}
    /\ toRead \subseteq Readers
    /\ submitted \subseteq Enabled
    /\ queue \in [Writers -> SUBSET Enabled]
    /\ file \in [Writers -> [Enabled -> Int]]
    /\ unreported \in Nat

(* A durable barrier means that all the parity submitted so far is in all  *)
(* the parity files (state_barrier before state_write in sync.c).          *)
DurableIsComplete ==
    phase = "durable" => \A w \in Writers : \A p \in submitted : file[w][p] = p

(* Every position submitted is either written, waiting, or its failure has *)
(* not been told yet, as long as the caller goes on: io_writer_error_get   *)
(* loses no error.                                                         *)
NoLostError ==
    phase \in {"ready", "block", "durable"} =>
        \A w \in Writers : \A p \in submitted :
            file[w][p] = p \/ p \in queue[w] \/ unreported > 0

(* The caller sees each enabled position once, in order.                   *)
OncePerPosition ==
    [][pos' # pos => pos' > pos /\ \A q \in Enabled : ~ (pos < q /\ q < pos')]_vars

=============================================================================
