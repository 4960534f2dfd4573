---------------------------- MODULE MCSyncArray ----------------------------
(* Small instances of SyncArray for TLC. *)
EXTENDS SyncArray, TLC

(* The data values and the file names are interchangeable: nothing         *)
(* compares them but for equality, and a CHOOSE picks one of several       *)
(* positions, never one of several names or values.                        *)
Symmetric == Permutations(Values) \cup Permutations(Names)
=============================================================================
