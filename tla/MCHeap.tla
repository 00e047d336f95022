------------------------------- MODULE MCHeap -------------------------------
(* The heap with a few interchangeable cells.                                *)
EXTENDS Heap, TLC

CellSymmetry == Permutations(Cell)
=============================================================================
