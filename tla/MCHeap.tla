------------------------------- MODULE MCHeap -------------------------------
(* Small instances of the block allocator for TLC.                          *)
EXTENDS Heap, FiniteSetsExt, TLC

Symmetry == Permutations(Owner)

=============================================================================
