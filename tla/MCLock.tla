------------------------------- MODULE MCLock -------------------------------
(* Instances of Lock for TLC. *)
EXTENDS Lock, TLC

Symmetry == Permutations(Threads)
=============================================================================
