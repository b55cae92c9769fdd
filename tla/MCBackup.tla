------------------------------ MODULE MCBackup ------------------------------
(* Instances of Backup for TLC. *)
EXTENDS Backup, TLC

CONSTANTS w1, w2

Symmetry == Permutations(Worker)
=============================================================================
