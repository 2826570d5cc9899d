------------------------------- MODULE MCHeap -------------------------------
(* A heap of few small pages, clients with a handful of sizes. *)
EXTENDS Heap, TLC

CONSTANTS i1, i2, i3
MCIds == {i1, i2, i3}
Symmetry == Permutations(MCIds)
=============================================================================
