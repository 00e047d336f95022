----------------------------- MODULE MCTailCall -----------------------------
(* Bodies of the form (if (= n 0) effect EXPR), EXPR with at most three    *)
(* levels; the other conditions test whether the argument is 1.            *)
EXTENDS TailCall

CONSTANTS
    Symbols,        \* the symbols called in the bodies
    Lengths         \* the lengths of the bodies of when and unless

Effect == [k |-> "emit"]
CallOf(s) == [k |-> "call", symb |-> s, tail |-> FALSE]
Form(k, test, sub) == [k |-> k, test |-> test, sub |-> sub]

Leaves == {Effect} \cup {CallOf(s) : s \in Symbols}

\* The forms over a set of subexpressions.
Over(E) ==
    E \cup {Form(k, 1, <<a, b>>) : k \in {"if", "prog"}, a \in E, b \in E}
      \cup {Form(k, 1, s) : k \in {"when", "unless"},
                            s \in UNION {[1..l -> E] : l \in Lengths}}
      \cup {Form("add", 1, <<a>>) : a \in E}

Low == Over(Leaves)
Middle == Over(Low)
MCPrograms == {Form("if", 0, <<Effect, e>>) : e \in Middle}
MCExprs == Middle \cup MCPrograms

SmallPrograms == {Form("if", 0, <<Effect, e>>) : e \in Low}
SmallExprs == Low \cup SmallPrograms

MCHeight ==
    [e \in Exprs |-> IF e \in Leaves THEN 0 ELSE IF e \in Low THEN 1
                     ELSE IF e \in Middle THEN 2 ELSE 3]
=============================================================================
