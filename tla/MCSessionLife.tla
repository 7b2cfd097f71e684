--------------------------- MODULE MCSessionLife ---------------------------
(* Instances of SessionLife for TLC. *)
EXTENDS SessionLife, TLC

Symmetry == Permutations(Threads) \cup Permutations(Sessions)
=============================================================================
