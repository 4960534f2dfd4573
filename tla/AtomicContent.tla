--------------------------- MODULE AtomicContent ---------------------------
(***************************************************************************)
(* What the copies of the content file promise to the commands (state_read *)
(* and state_write of state.c): one content, replaced in a single step.    *)
(* The parity is modified only under a content that is in place and that   *)
(* neither a kill nor a power loss can undo.  The loss of a copy can give  *)
(* back an older one, but only if it has the same size: the copies are     *)
(* compared by nothing else.                                               *)
(***************************************************************************)
EXTENDS Integers

CONSTANT Versions  \* the states of the array saved, a greater one is later

Missing == 0       \* no content, before the first save

VARIABLES
    size,      \* [version] size of its content
    content,   \* the version a run loads
    settled,   \* the version a run loads after a power loss
    possible,  \* the versions a run may load when copies are lost too
    mem,       \* the version in memory
    used       \* the version the parity was last modified under

vars == <<size, content, settled, possible, mem, used>>

Init ==
    /\ size \in [Versions -> Nat]
    /\ content \in Versions \cup {Missing} /\ settled = content /\ possible = {content}
    /\ mem = content /\ used = content

(* state_read. *)
Load ==
    /\ mem' = content
    /\ UNCHANGED <<size, content, settled, possible, used>>

(* The scan and the sync make a state later than any other. *)
Change ==
    /\ mem' \in Versions
    /\ \A v \in possible \cup {mem, used} : mem' > v
    /\ UNCHANGED <<size, content, settled, possible, used>>

(* state_write replaces the content; a power loss may still undo it. *)
Save ==
    /\ mem # Missing
    /\ content' = mem /\ possible' = possible \cup {mem}
    /\ UNCHANGED <<size, settled, mem, used>>

(* The content is on the disks, and may have replaced earlier ones. *)
Settle ==
    /\ settled' = content
    /\ possible' \subseteq possible /\ content \in possible'
    /\ UNCHANGED <<size, content, mem, used>>

(* state_sync_process modifies the parity under the content in place and   *)
(* settled.  The others left, if any, look the same.                       *)
Modify ==
    /\ mem # Missing /\ content = mem /\ settled = mem
    /\ \A v \in possible : v # Missing /\ size[v] = size[mem]
    /\ used' = mem
    /\ UNCHANGED <<size, content, settled, possible, mem>>

(* The later contents are gone for good.                                   *)
FallBack(candidates) ==
    /\ content' \in candidates /\ settled' = content'
    /\ possible' \subseteq {v \in possible : v <= content'}
    /\ content' \in possible'
    /\ UNCHANGED <<size, mem, used>>

PowerLoss == FallBack({content, settled})

LoseCopy == FallBack(possible)

Next == Load \/ Change \/ Save \/ Settle \/ Modify \/ PowerLoss \/ LoseCopy

Spec == Init /\ [][Next]_vars

(* No content left is older than the one the parity was last modified      *)
(* under, unless it has its size.                                          *)
OlderLookTheSame == \A v \in possible : v >= used \/ size[v] = size[used]

(* The content that a run loads now, or after a power loss, is not older   *)
(* than the one the parity was last modified under.                        *)
Covered == content >= used /\ settled >= used

(* Neither a kill, nor a power loss, nor anything a command does, but only *)
(* the loss of a copy, leaves the parity without its content.              *)
OnlyLossUncovers == [][Covered => Covered' \/ LoseCopy]_vars

=============================================================================
