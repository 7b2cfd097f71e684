------------------------------ MODULE MCMemory ------------------------------
(* Instances of Memory for TLC. *)
EXTENDS Memory, TLC

\* An object as large as a block of a pool of Memory
JobSize == [ty \in Types |-> 32]

Symmetry == Permutations(Threads) \cup Permutations(Blocks)
=============================================================================
