------------------------------- MODULE MCTree -------------------------------
(* A small tree, where every operation happens in any order, grows into a    *)
(* large one: symbols are then added once each, in an almost sorted order,   *)
(* so that recolouring climbs and rotations move subtrees that are not       *)
(* empty.  One node more than symbols, for the node that lisp_tree_add makes *)
(* before it finds the symbol.                                               *)
EXTENDS Tree

CONSTANTS
    SmallKey,       \* the symbols of the small tree are 1..SmallKey
    Window          \* how far from sorted the tree grows

MCNode == 1..(MaxKey + 1)

Small == \A n \in nodes : key[n] <= SmallKey
Unbound == {k \in Keys : \A n \in nodes : key[n] # k}
GrowVal == CHOOSE v \in Vals : TRUE

SmallCall ==
    /\ Small
    /\ \E k \in 1..SmallKey, v \in Vals : CallAdd(k, v) \/ CallUpd(k, v)

Grow ==
    /\ \A n \in nodes : val[n] = GrowVal
    /\ \E k \in Unbound :
         /\ Cardinality({j \in Unbound : j < k}) < Window
         /\ CallAdd(k, GrowVal)

Search ==
    \/ Small /\ \E k \in 1..SmallKey : CallGet(k)
    \/ Unbound = {} /\ \E k \in Keys : CallGet(k)

MCNext == SmallCall \/ Grow \/ Search \/ Step

MCSpec == Init /\ [][MCNext]_vars /\ WF_vars(Step)
=============================================================================
