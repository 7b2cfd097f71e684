----------------------------- MODULE MCJobTimer -----------------------------
(* Instances of JobTimer for TLC. *)
EXTENDS JobTimer, TLC

Symmetry == Permutations(Threads) \cup Permutations(Queues) \cup Permutations(Jobs)
=============================================================================
