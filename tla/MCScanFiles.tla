---------------------------- MODULE MCScanFiles ----------------------------
(* Small instances of ScanFiles for TLC. *)
EXTENDS ScanFiles, TLC

(* The paths of a disk are visited in any order, inodes are only compared. *)
Symmetric == Permutations(Paths) \cup Permutations(Inodes)
=============================================================================
