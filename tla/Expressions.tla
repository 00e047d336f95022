---------------------------- MODULE Expressions -----------------------------
(***************************************************************************)
(* The expressions of a function with one parameter, a number.  Such an    *)
(* expression is a record with its kind `k`:                               *)
(*   emit            an expression with an effect, and the argument as its *)
(*                   value                                                 *)
(*   call            a call of `symb` with the argument less one; `tail`   *)
(*                   is the flag of the symbol                             *)
(*   if              the first or the second of `sub`, as the argument is  *)
(*                   or is not `test`                                      *)
(*   when, unless    the list `sub`, or NIL                                *)
(*   prog            the list `sub`                                        *)
(*   add             a native function of the value of `sub`               *)
(***************************************************************************)
EXTENDS Integers, Sequences

Sequenced == {"prog", "when", "unless"}

Emits == [k : {"emit"}]
Calls(names, flags) == [k : {"call"}, symb : names, tail : flags]
Forms(E) == [k : {"if", "add"} \cup Sequenced, test : Int, sub : Seq(E)]

\* Does each form have the subexpressions its kind wants?
WellFormed(e) ==
    /\ e.k = "if" => Len(e.sub) = 2
    /\ e.k = "add" => Len(e.sub) = 1
    /\ e.k \in Sequenced => Len(e.sub) > 0

\* Is the list of a prog, when or unless evaluated?
Runs(e, n) == CASE e.k = "when"   -> n = e.test
                [] e.k = "unless" -> n # e.test
                [] OTHER          -> TRUE

-----------------------------------------------------------------------------
\* Values: a record (SYMB . ARGUMENTS) stands for a call that is still due.
Num(i) == [t |-> "num", v |-> i]
NilValue == [t |-> "nil", v |-> 0]
Record(i) == [t |-> "tail", v |-> i]

\* An expression to evaluate with an argument, or a value to return.
Eval(e, n) == [do |-> "eval", e |-> e, n |-> n]
Ret(v) == [do |-> "ret", val |-> v]

\* The activations that wait: of lisp_eval_func, of lisp_prog with the rest
\* of its list, and of a native function.
Func(s) == [at |-> "func", symb |-> s]
Prog(rest, n) == [at |-> "prog", rest |-> rest, n |-> n]
Add == [at |-> "add"]
=============================================================================
