---------------------------- MODULE Environment -----------------------------
(***************************************************************************)
(* What the bindings of Minima.l promise to a program, with neither        *)
(* association lists nor caches: an environment is a function from symbols *)
(* to bindings, the innermost binding of a symbol hides the others, and a  *)
(* binding that is updated is updated for everyone who sees it.            *)
(*                                                                         *)
(* A call evaluates the body of a function in the environment of its       *)
(* caller, extended with the environment of its definition, extended with  *)
(* its arguments (docs/manual/Language.md, Lambdas).                       *)
(***************************************************************************)
EXTENDS Naturals, Sequences

CONSTANTS
    Symbols,        \* symbols
    Pairs,          \* bindings
    Data, Nil,      \* values that are not functions, NIL being one of them
    Params,         \* the lists of parameters of functions
    None,           \* no binding, no function
    MaxDepth        \* bound on the nesting of the evaluations

VARIABLES
    cdr,            \* the value of each binding
    globals,        \* the global environment
    do, env, acc, fn,   \* the innermost evaluation
    below,          \* the ones that wait for it, the outermost one first
    value           \* the value just computed, None once it is used

stack == <<do, env, acc, fn, below>>
vars == <<cdr, globals, stack, value>>

Empty == [s \in Symbols |-> None]
Over(e, f) == [s \in Symbols |-> IF f[s] # None THEN f[s] ELSE e[s]]
Function(args, e) == [args |-> args, env |-> e]
Callee(v) == v \notin Data \cup {None}
Idle == value = None

Frame == [do |-> do, env |-> env, acc |-> acc, fn |-> fn]
Become(d, e, a, f) == do' = d /\ env' = e /\ acc' = a /\ fn' = f
Pop ==
    /\ below # << >>
    /\ LET f == below[Len(below)] IN Become(f.do, f.env, f.acc, f.fn)
    /\ below' = SubSeq(below, 1, Len(below) - 1)

\* What the current expression sees: in a `let` the bindings made so far, but
\* in a call nothing of the arguments evaluated so far.
Scope == IF do = "let" THEN Over(env, acc) ELSE env

\* The bindings that can be reached; any other one may be made anew.
In(e) == {e[s] : s \in Symbols} \ {None}
Refs(v) == IF Callee(v) THEN In(v.env) ELSE {}
FrameRefs(f) == In(f.env) \cup In(f.acc) \cup Refs(f.fn)
Roots ==
    In(globals) \cup Refs(value) \cup FrameRefs(Frame) \cup
    UNION {FrameRefs(below[i]) : i \in DOMAIN below}
Closed(roots, S) ==
    roots \subseteq S /\ \A c \in S : Refs(cdr[c]) \subseteq S
Live ==
    LET roots  == Roots
        closed == {S \in SUBSET Pairs : Closed(roots, S)}
    IN  {b \in Pairs : \A S \in closed : b \in S}
Fresh == Pairs \ Live

Init ==
    /\ cdr = [b \in Pairs |-> Nil]
    /\ globals = Empty
    /\ do = "body" /\ env = Empty /\ acc = Empty /\ fn = None
    /\ below = << >>
    /\ value = None

-----------------------------------------------------------------------------
\* Expressions.

Literal ==
    /\ Idle
    /\ \E d \in Data : value' = d
    /\ UNCHANGED <<cdr, globals, stack>>

Lambda ==
    /\ Idle
    /\ \E p \in Params : value' = Function(p, Scope)
    /\ UNCHANGED <<cdr, globals, stack>>

Lookup(s) ==
    /\ Idle
    /\ LET b == IF Scope[s] # None THEN Scope[s] ELSE globals[s]
       IN  value' = IF b # None THEN cdr[b] ELSE Nil
    /\ UNCHANGED <<cdr, globals, stack>>

\* Give v to the global s.
SetGlobal(s, v) ==
    IF globals[s] # None
      THEN /\ cdr' = [cdr EXCEPT ![globals[s]] = v]
           /\ UNCHANGED globals
      ELSE \E b \in Fresh : /\ cdr' = [cdr EXCEPT ![b] = v]
                            /\ globals' = [globals EXCEPT ![s] = b]

Setq(s) ==
    /\ value \notin {None, Nil}
    /\ SetGlobal(s, value)
    /\ UNCHANGED <<stack, value>>

Def(s) ==
    /\ Idle
    /\ \E p \in Params : SetGlobal(s, Function(p, Empty))
    /\ value' \in Data \ {Nil}
    /\ UNCHANGED stack

\* `<-` changes the innermost binding of s, or nothing.
Update(s) ==
    /\ ~Idle
    /\ \/ /\ Scope[s] # None
          /\ cdr' = [cdr EXCEPT ![Scope[s]] = value]
          /\ value' = cdr[Scope[s]]
       \/ /\ Scope[s] = None /\ globals[s] # None
          /\ cdr' = [cdr EXCEPT ![globals[s]] = value]
          /\ value' \in Data \ {Nil}
       \/ /\ Scope[s] = None /\ globals[s] = None
          /\ value' = Nil
          /\ UNCHANGED cdr
    /\ UNCHANGED <<globals, stack>>

-----------------------------------------------------------------------------
\* Bindings and calls.

Begin(d, f) ==
    /\ Len(below) < MaxDepth
    /\ below' = Append(below, Frame)
    /\ Become(d, Scope, Empty, f)
    /\ value' = None
    /\ UNCHANGED <<cdr, globals>>

Let == Idle /\ Begin("let", None)
Call == Callee(value) /\ Begin("args", value)

Refuse ==
    /\ Callee(value)
    /\ value' = Nil
    /\ UNCHANGED <<cdr, globals, stack>>

\* Bind s to the value just computed; the first binding of s counts.
Bound(s, b) == [acc EXCEPT ![s] = IF @ = None THEN b ELSE @]

LetBind(s) ==
    /\ ~Idle /\ do = "let"
    /\ \E b \in Fresh :
         /\ cdr' = [cdr EXCEPT ![b] = value]
         /\ acc' = Bound(s, b)
    /\ value' = None
    /\ UNCHANGED <<globals, do, env, fn, below>>

LetBody ==
    /\ Idle /\ do = "let"
    /\ Become("body", Over(env, acc), Empty, None)
    /\ UNCHANGED <<cdr, globals, value, below>>

ArgBind ==
    /\ ~Idle /\ do = "args" /\ fn.args # << >>
    /\ \E b \in Fresh :
         /\ cdr' = [cdr EXCEPT ![b] = value]
         /\ acc' = Bound(Head(fn.args), b)
    /\ fn' = Function(Tail(fn.args), fn.env)
    /\ value' = None
    /\ UNCHANGED <<globals, do, env, below>>

Enter ==
    /\ Idle /\ do = "args" /\ fn.args = << >>
    /\ Become("body", Over(Over(env, fn.env), acc), Empty, None)
    /\ UNCHANGED <<cdr, globals, value, below>>

\* A call with too few values makes a function of the other parameters.  What
\* the function saw at its definition hides the arguments given so far.
Curry ==
    /\ Idle /\ do = "args" /\ fn.args # << >>
    /\ value' = Function(fn.args, Over(acc, fn.env))
    /\ Pop
    /\ UNCHANGED <<cdr, globals>>

Discard ==
    /\ ~Idle
    /\ value' = None
    /\ UNCHANGED <<cdr, globals, stack>>

Return ==
    /\ do = "body"
    /\ value' = IF Idle THEN Nil ELSE value
    /\ Pop
    /\ UNCHANGED <<cdr, globals>>

Next ==
    \/ Literal \/ Lambda
    \/ \E s \in Symbols : Lookup(s) \/ Setq(s) \/ Def(s) \/ Update(s) \/ LetBind(s)
    \/ Let \/ LetBody
    \/ Call \/ Refuse \/ ArgBind \/ Enter \/ Curry
    \/ Discard \/ Return

Spec == Init /\ [][Next]_vars
=============================================================================
