--------------------------- MODULE MCClosureCache ----------------------------
(***************************************************************************)
(* Two functions, one larger than the other, compiled into one module each *)
(* or into the same one.                                                   *)
(***************************************************************************)
EXTENDS ClosureCache, TLC

CONSTANTS small, large, m1, m2, b1, b2, b3, b4, v1, v2

MCFunctions == {small, large}
MCBlocks == {b1, b2, b3, b4}
MCValues == {v1, v2}
MCSize == small :> 2 @@ large :> 3

MCModules == {m1, m2}
MCApart == small :> m1 @@ large :> m2

MCOne == {m1}
MCTogether == small :> m1 @@ large :> m1

Symmetric == Permutations(MCBlocks)

=============================================================================
