--------------------------- MODULE MCSendBuffers ---------------------------
(* Instances of SendBuffers for TLC. *)
EXTENDS SendBuffers, TLC

Symmetry == Permutations(Threads) \cup Permutations(Chunks) \cup Permutations(Buffers)
=============================================================================
