----------------------------- MODULE MCLockSet -----------------------------
(* LockSet for TLC: callers are alike, and so are the lock objects, so both *)
(* may be permuted where nothing temporal is checked.                       *)
EXTENDS LockSet, TLC

Symmetry == Permutations(Proc) \cup Permutations(Lock)
=============================================================================
