------------------------------- MODULE Scope --------------------------------
(***************************************************************************)
(* Bindings as the interpreter makes and finds them: closures that are     *)
(* association lists (lib/core/utils.c), symbols that cache the global     *)
(* binding found for them (lib/core/lisp.c), calls with their arguments,   *)
(* currying (lib/core/eval.c), and the functions of lib/mnml/std that bind *)
(* or update symbols.                                                      *)
(*                                                                         *)
(* A pair (SYMB . VAL) keeps its symbol for life, hence an element of an   *)
(* association list is [sym, kvp], kvp being the pair; what changes is the *)
(* CDR of the pair.  Symbols are numbers in the order of memcmp.  The      *)
(* evaluator is seen at the points where it binds, finds or updates: one   *)
(* frame is one activation of lisp_let, lisp_eval_args or lisp_prog with    *)
(* the closure it was given, and `value` is what the last expression       *)
(* returned, until something uses it.  Which expressions a program         *)
(* evaluates next is any choice.  Left out are the closures given to       *)
(* native functions, ((PARAMETER . ARGUMENTS) . C), with the expressions   *)
(* evaluated in one (the subject of `match`, match.c:67), and the marks of *)
(* tail calls that `let` and `def` set, which are in TailCall.             *)
(***************************************************************************)
EXTENDS Integers, Sequences, FiniteSetsExt, SequencesExt

CONSTANTS
    Symbols,        \* symbols
    Pairs,          \* the cells of bindings
    Atoms,          \* the cells of symbols in expressions
    Data, Nil,      \* values that are not functions, NIL being one of them
    Params,         \* the lists of parameters of functions
    None,           \* NULL
    MaxDepth        \* bound on the nesting of the evaluations

ASSUME ScopeAssumption ==
    /\ Symbols \subseteq Nat
    /\ Nil \in Data
    /\ None \notin Pairs /\ None \notin Data
    /\ Params \subseteq Seq(Symbols)
    /\ MaxDepth \in Nat \ {0}

VARIABLES
    cdr,            \* the CDR of each binding
    globals,        \* lisp->globals, the binding of each global symbol
    top,            \* the activation that runs
    below,          \* the ones that wait for it, the outermost one first
    value,          \* the value just computed, None once it is used
    name,           \* the symbol of each atom
    cache           \* the cached binding of each atom

stack == <<top, below>>
vars == <<cdr, globals, stack, value, name, cache>>

-----------------------------------------------------------------------------
\* Association lists.

\* lisp_sss, the search for a key that is not less than that of kv.
Sss(root, kv) ==
    LET stop == {i \in DOMAIN root : root[i].sym >= kv.sym}
        i    == Min(stop)
    IN  IF stop = {} THEN Append(root, kv)
        ELSE IF root[i].sym = kv.sym THEN [root EXCEPT ![i] = kv]
        ELSE InsertAt(root, i, kv)

\* lisp_merge, of a copy of root.
Merge(root, alst) ==
    LET merged[i \in 0..Len(alst)] ==
          IF i = 0 THEN root ELSE Sss(merged[i - 1], alst[i])
    IN  merged[Len(alst)]

Matches(closure, s) == {i \in DOMAIN closure : closure[i].sym = s}

\* The loop of lisp_lookup and of `<-`: the first element with the symbol.
Assoc(closure, s) ==
    IF Matches(closure, s) = {} THEN None
    ELSE closure[Min(Matches(closure, s))].kvp

-----------------------------------------------------------------------------
\* Functions (ARGUMENTS CLOSURE . BODY); `given` is auxiliary, the number of
\* arguments at the head of the closure that come from currying.
Function(args, closure, given) ==
    [args |-> args, closure |-> closure, given |-> given]

\* IS_FUNC
Callee(v) == v \notin Data \cup {None}

\* An expression is going to be evaluated; otherwise its value is to be used.
Idle == value = None

Frame(do, closure, fn) ==
    [do |-> do, closure |-> closure, acc |-> << >>, fn |-> fn]

Push(f) == top' = f /\ below' = Append(below, top)
Replace(f) == top' = f /\ UNCHANGED below
Pop ==
    /\ below # << >>
    /\ top' = Last(below)
    /\ below' = Front(below)

\* The closure the current expression is evaluated in.
Closure ==
    IF top.do = "let" THEN Merge(top.closure, top.acc) ELSE top.closure

\* The pairs that something refers to, the caches aside: they hold no
\* reference.  A cell that nothing refers to has been released.
In(alst) == {alst[i].kvp : i \in DOMAIN alst}
Refs(v) == IF Callee(v) THEN In(v.closure) ELSE {}
FrameRefs(f) == In(f.closure) \cup In(f.acc) \cup Refs(f.fn)
Roots ==
    ({globals[s] : s \in Symbols} \ {None}) \cup Refs(value) \cup
    FrameRefs(top) \cup UNION {FrameRefs(below[i]) : i \in DOMAIN below}
Closed(roots, S) ==
    roots \subseteq S /\ \A c \in S : Refs(cdr[c]) \subseteq S
Live ==
    LET roots  == Roots
        closed == {S \in SUBSET Pairs : Closed(roots, S)}
    IN  {b \in Pairs : \A S \in closed : b \in S}
Fresh == Pairs \ Live

Init ==
    /\ cdr = [b \in Pairs |-> Nil]
    /\ globals = [s \in Symbols |-> None]
    /\ top = Frame("body", << >>, None)
    /\ below = << >>
    /\ value = None
    /\ name \in [Atoms -> Symbols]
    /\ cache = [a \in Atoms |-> None]

-----------------------------------------------------------------------------
\* Expressions.

\* A number, a quoted list, a call of a function that binds nothing.
Literal ==
    /\ Idle
    /\ \E d \in Data : value' = d
    /\ UNCHANGED <<cdr, globals, stack, name, cache>>

\* `\`, which captures a copy of its closure.
Lambda ==
    /\ Idle
    /\ \E p \in Params : value' = Function(p, Closure, 0)
    /\ UNCHANGED <<cdr, globals, stack, name, cache>>

\* Mutant of NewAtom: the cell is not erased, and holds some other word.
MutNewAtom(a, s) ==
    /\ Idle
    /\ name' = [name EXCEPT ![a] = s]
    /\ cache' = [cache EXCEPT ![a] = Nil]
    /\ UNCHANGED <<cdr, globals, stack, value>>

\* Text that was evaluated is released, and its cell is used for another
\* symbol: slab_allocate erases it.
NewAtom(a, s) ==
    /\ Idle
    /\ name' = [name EXCEPT ![a] = s]
    /\ cache' = [cache EXCEPT ![a] = None]
    /\ UNCHANGED <<cdr, globals, stack, value>>

\* The four courses of lisp_lookup.
LookupClosure(a) ==
    /\ Idle
    /\ Assoc(Closure, name[a]) # None
    /\ value' = cdr[Assoc(Closure, name[a])]
    /\ UNCHANGED <<cdr, globals, stack, name, cache>>

\* Mutant of LookupCached: the cache is read before the closure.
MutLookupCached(a) ==
    /\ Idle
    /\ cache[a] # None
    /\ value' = cdr[cache[a]]
    /\ UNCHANGED <<cdr, globals, stack, name, cache>>

LookupCached(a) ==
    /\ Idle
    /\ Assoc(Closure, name[a]) = None
    /\ cache[a] # None
    /\ value' = cdr[cache[a]]
    /\ UNCHANGED <<cdr, globals, stack, name, cache>>

LookupGlobal(a) ==
    /\ Idle
    /\ Assoc(Closure, name[a]) = None
    /\ cache[a] = None
    /\ globals[name[a]] # None
    /\ value' = cdr[globals[name[a]]]
    /\ cache' = [cache EXCEPT ![a] = globals[name[a]]]
    /\ UNCHANGED <<cdr, globals, stack, name>>

LookupUnbound(a) ==
    /\ Idle
    /\ Assoc(Closure, name[a]) = None
    /\ cache[a] = None
    /\ globals[name[a]] = None
    /\ value' = Nil
    /\ UNCHANGED <<cdr, globals, stack, name, cache>>

-----------------------------------------------------------------------------
\* Global bindings and updates.

\* Mutant of SetGlobal: the new pair takes the place of the old one.
MutSetGlobal(s, v) ==
    \E b \in Fresh : /\ cdr' = [cdr EXCEPT ![b] = v]
                     /\ globals' = [globals EXCEPT ![s] = b]

\* lisp_setq: lisp_tree_add exchanges the values when the symbol exists.
SetGlobal(s, v) ==
    IF globals[s] # None
      THEN /\ cdr' = [cdr EXCEPT ![globals[s]] = v]
           /\ UNCHANGED globals
      ELSE \E b \in Fresh : /\ cdr' = [cdr EXCEPT ![b] = v]
                            /\ globals' = [globals EXCEPT ![s] = b]

\* `setq`, which sets nothing if the value is NIL.
Setq(s) ==
    /\ value \notin {None, Nil}
    /\ SetGlobal(s, value)
    /\ UNCHANGED <<stack, value, name, cache>>

\* `def`, whose value is a symbol; the function has no closure.
Def(s) ==
    /\ Idle
    /\ \E p \in Params : SetGlobal(s, Function(p, << >>, 0))
    /\ value' \in Data \ {Nil}
    /\ UNCHANGED <<stack, name, cache>>

\* The three courses of `<-`: in the closure, among the globals, where
\* lisp_tree_upd returns the list (SYMB . OLD), and without effect.
UpdateClosure(s) ==
    /\ ~Idle
    /\ Assoc(Closure, s) # None
    /\ cdr' = [cdr EXCEPT ![Assoc(Closure, s)] = value]
    /\ value' = cdr[Assoc(Closure, s)]
    /\ UNCHANGED <<globals, stack, name, cache>>

UpdateGlobal(s) ==
    /\ ~Idle
    /\ Assoc(Closure, s) = None
    /\ globals[s] # None
    /\ cdr' = [cdr EXCEPT ![globals[s]] = value]
    /\ value' \in Data \ {Nil}
    /\ UNCHANGED <<globals, stack, name, cache>>

UpdateUnbound(s) ==
    /\ ~Idle
    /\ Assoc(Closure, s) = None
    /\ globals[s] = None
    /\ value' = Nil
    /\ UNCHANGED <<cdr, globals, stack, name, cache>>

-----------------------------------------------------------------------------
\* Bindings and calls.

Begin(f) ==
    /\ Len(below) < MaxDepth
    /\ Push(f)
    /\ value' = None
    /\ UNCHANGED <<cdr, globals, name, cache>>

Let == Idle /\ Begin(Frame("let", Closure, None))

\* A call of the function just computed; its values are evaluated one by one
\* in the closure of the call.
Call == Callee(value) /\ Begin(Frame("args", Closure, value))

\* More values than parameters: lisp_may_apply is false.
Refuse ==
    /\ Callee(value)
    /\ value' = Nil
    /\ UNCHANGED <<cdr, globals, stack, name, cache>>

\* lisp_bind of a symbol; a pattern binds the symbols it contains one by one.
Bind(s, b) == <<[sym |-> s, kvp |-> b]>> \o top.acc

LetBind(s) ==
    /\ ~Idle /\ top.do = "let"
    /\ \E b \in Fresh :
         /\ cdr' = [cdr EXCEPT ![b] = value]
         /\ Replace([top EXCEPT !.acc = Bind(s, b)])
    /\ value' = None
    /\ UNCHANGED <<globals, name, cache>>

LetBody ==
    /\ Idle /\ top.do = "let"
    /\ Replace(Frame("body", Merge(top.closure, top.acc), None))
    /\ UNCHANGED <<cdr, globals, value, name, cache>>

ArgBind ==
    /\ ~Idle /\ top.do = "args" /\ top.fn.args # << >>
    /\ \E b \in Fresh :
         /\ cdr' = [cdr EXCEPT ![b] = value]
         /\ Replace([top EXCEPT !.acc = Bind(Head(top.fn.args), b),
                                         !.fn.args = Tail(@)])
    /\ value' = None
    /\ UNCHANGED <<globals, name, cache>>

\* Mutant of BodyClosure: the arguments are merged before the closure.
MutBodyClosure(f) == Merge(Merge(f.closure, f.acc), f.fn.closure)

BodyClosure(f) == Merge(Merge(f.closure, f.fn.closure), f.acc)

\* All the parameters are bound: the body is evaluated.
Enter ==
    /\ Idle /\ top.do = "args" /\ top.fn.args = << >>
    /\ Replace(Frame("body", BodyClosure(top), None))
    /\ UNCHANGED <<cdr, globals, value, name, cache>>

\* Too few values: a function of the other parameters.
Curry ==
    /\ Idle /\ top.do = "args" /\ top.fn.args # << >>
    /\ value' = Function(top.fn.args, top.acc \o top.fn.closure,
                         Len(top.acc) + top.fn.given)
    /\ Pop
    /\ UNCHANGED <<cdr, globals, name, cache>>

\* lisp_prog releases the value of every expression but the last, a function
\* that binds nothing its arguments, and lisp_bind a value without a symbol.
Discard ==
    /\ ~Idle
    /\ value' = None
    /\ UNCHANGED <<cdr, globals, stack, name, cache>>

\* The value of an empty body is NIL.
Return ==
    /\ top.do = "body"
    /\ value' = IF Idle THEN Nil ELSE value
    /\ Pop
    /\ UNCHANGED <<cdr, globals, name, cache>>

Next ==
    \/ Literal \/ Lambda
    \/ \E a \in Atoms :
         \/ \E s \in Symbols : NewAtom(a, s)
         \/ LookupClosure(a) \/ LookupCached(a)
         \/ LookupGlobal(a) \/ LookupUnbound(a)
    \/ \E s \in Symbols :
         \/ Setq(s) \/ Def(s)
         \/ UpdateClosure(s) \/ UpdateGlobal(s) \/ UpdateUnbound(s)
         \/ LetBind(s)
    \/ Let \/ LetBody
    \/ Call \/ Refuse \/ ArgBind \/ Enter \/ Curry
    \/ Discard \/ Return

Spec == Init /\ [][Next]_vars

-----------------------------------------------------------------------------
Closures == Seq([sym : Symbols, kvp : Pairs])
Functions_ == [args : Seq(Symbols), closure : Closures, given : Nat]
Frames == [do : {"body", "let", "args"}, closure : Closures, acc : Closures,
           fn : Functions_ \cup {None}]
IsValue(v) == v \in Data \cup Functions_

\* IS_FUNC tells the values apart: neither data nor NULL are functions, be
\* their closures association lists or environments.
ASSUME FunctionsAreNotData ==
    \A d \in Data \cup {None} :
        /\ d \notin Functions_
        /\ d \notin [args : Seq(Symbols), env : [Symbols -> Pairs \cup {None}]]

\* Types.
TypeOK ==
    /\ \A b \in Pairs : IsValue(cdr[b])
    /\ globals \in [Symbols -> Pairs \cup {None}]
    /\ top \in Frames
    /\ below \in Seq(Frames) /\ Len(below) \leq MaxDepth
    /\ value = None \/ IsValue(value)
    /\ name \in [Atoms -> Symbols]
    /\ cache \in [Atoms -> Pairs \cup {None}]

\* A cached binding is the global binding of the symbol: whatever was set,
\* updated or released since, lisp_lookup may read it without looking further
\* (lisp.c:110), although the cache does not count as a reference.
CacheExact ==
    \A a \in Atoms : cache[a] # None => cache[a] = globals[name[a]]

\* A body just entered sees the arguments of the call that completed them,
\* whatever the caller or the definition call by the same names (eval.c:164).
LastArgumentsWin ==
    [][Enter => \A i \in DOMAIN top.acc :
         Assoc(top'.closure, top.acc[i].sym) \in
             {top.acc[j].kvp : j \in Matches(top.acc, top.acc[i].sym)}]_vars

\* Language.md:104: a function uses its closure to store the curried arguments,
\* so that a body sees the arguments of the earlier calls as well.
CurriedArgumentsWin ==
    [][Enter => \A i \in 1..top.fn.given :
         Assoc(top'.closure, top.fn.closure[i].sym) =
             top.fn.closure[i].kvp]_vars

-----------------------------------------------------------------------------
\* What the association lists mean.

\* The environment of a list that is going to be merged: the last binding of a
\* symbol is the one that remains.
Meaning(alst) ==
    [s \in Symbols |-> IF Matches(alst, s) = {} THEN None
                       ELSE alst[Max(Matches(alst, s))].kvp]

MeaningOf(v) ==
    IF Callee(v)
      THEN [args |-> v.args, env |-> Meaning(v.closure)]
      ELSE v

FrameMeaning(f) == [do  |-> f.do,
                    env |-> Meaning(f.closure),
                    acc |-> Meaning(f.acc),
                    fn  |-> MeaningOf(f.fn)]

Env == INSTANCE Environment WITH
    cdr   <- [b \in Pairs |-> MeaningOf(cdr[b])],
    value <- MeaningOf(value),
    do    <- top.do,
    env   <- Meaning(top.closure),
    acc   <- Meaning(top.acc),
    fn    <- MeaningOf(top.fn),
    below <- [i \in DOMAIN below |-> FrameMeaning(below[i])]

\* A symbol has the value of its innermost binding, as functional environments
\* say, with the lists, the merges and the caches of the code.
EnvSpec == Env!Spec
=============================================================================
