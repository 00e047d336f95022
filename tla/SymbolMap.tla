------------------------------ MODULE SymbolMap -----------------------------
(***************************************************************************)
(* What the tree of lib/core/tree.c promises to its users, the global      *)
(* environment (lisp_setq, lisp_lookup, `<-`) and the table of loaded      *)
(* modules: a dictionary from symbols to values.                           *)
(*                                                                         *)
(* `last` is the last operation, with what it returned when it is a search *)
(* or an update.                                                           *)
(***************************************************************************)
CONSTANTS
    Keys,           \* symbols
    Vals,           \* values
    Missing         \* the NIL returned for a symbol that is not bound, no value

VARIABLES dict, last

vars == <<dict, last>>

Init ==
    /\ dict = [k \in Keys |-> Missing]
    /\ last = [op |-> "none"]

\* Bind k to v, whether it was bound before or not.
Add(k, v) ==
    /\ dict' = [dict EXCEPT ![k] = v]
    /\ last' = [op |-> "add", key |-> k, val |-> v]

\* Change the value of k if it has one, and return the value it had.
Upd(k, v) ==
    /\ dict' = IF dict[k] = Missing THEN dict ELSE [dict EXCEPT ![k] = v]
    /\ last' = [op |-> "upd", key |-> k, res |-> dict[k]]

Get(k) ==
    /\ last' = [op |-> "get", key |-> k, res |-> dict[k]]
    /\ UNCHANGED dict

Next == \E k \in Keys : Get(k) \/ \E v \in Vals : Add(k, v) \/ Upd(k, v)

Spec == Init /\ [][Next]_vars
=============================================================================
