----------------------------- MODULE MCRunLock -----------------------------
(* Three competing processes: two that race to reclaim the lock of a third. *)
EXTENDS RunLock, TLC

Symmetry == Permutations(Proc)
=============================================================================
