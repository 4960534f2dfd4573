----------------------------- MODULE MCRecovery -----------------------------
(* Small instances of Recovery for TLC. *)
EXTENDS Recovery, TLC

(* The data values are interchangeable: nothing compares them but for      *)
(* equality.                                                               *)
Symmetric == Permutations(Values)
=============================================================================
