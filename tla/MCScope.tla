------------------------------- MODULE MCScope ------------------------------
(* Two symbols; functions of two parameters, or of one after currying.     *)
EXTENDS Scope

CONSTANTS v

MCSymbols == {1, 2}
MCData == {Nil, v}
MCParams == {<<1>>, <<2, 1>>}

\* Nothing reads what was in a cell that has been released.
View == <<[b \in Live |-> cdr[b]], globals, top, below, value, name, cache>>

PairSymmetry == Permutations(Pairs)
=============================================================================
