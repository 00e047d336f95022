------------------------------ MODULE TailCall ------------------------------
(***************************************************************************)
(* Tail calls: lisp_mark_tail_calls (lib/core/utils.c) flags, when a       *)
(* function is defined, the symbols of the calls it takes for tail calls;  *)
(* lisp_eval_func (lib/core/eval.c) returns for a flagged call a record    *)
(* (SYMB . ARGUMENTS) instead of evaluating it, and the loop of the call   *)
(* that runs the function evaluates the record.                            *)
(*                                                                         *)
(* The function has one parameter, a number, and the symbol Own; its body  *)
(* is one expression (see Expressions).  `cond` and `match` are as `if`;   *)
(* `|>`, which builds the expressions it evaluates, is left out.           *)
(***************************************************************************)
EXTENDS Expressions, FiniteSets, SequencesExt

CONSTANTS
    Exprs,          \* the expressions as they are written
    Height,         \* their heights
    Programs,       \* the bodies considered
    Own,            \* the symbol the function is defined with
    Names,          \* symbols with the function as their value
    MaxArg          \* bound on the argument

ASSUME TailCallAssumption ==
    /\ Own \in Names /\ MaxArg \in Nat
    /\ Exprs \subseteq Emits \cup Calls(Names, {FALSE}) \cup Forms(Exprs)
    /\ Programs \subseteq Exprs
    /\ Height \in [Exprs -> Nat]
    /\ \A e \in Exprs : e.k \notin {"emit", "call"} =>
            WellFormed(e) /\ \A i \in DOMAIN e.sub : Height[e.sub[i]] < Height[e]

\* Mutant of Tails: the first expression of a list.
MutTails(e) ==
    IF e.k = "if" THEN {1, 2} ELSE IF e.k \in Sequenced THEN {1} ELSE {}

\* Mutant of Tails: the argument of a function.
MutTailsAdd(e) ==
    IF e.k \in {"if", "add"} THEN DOMAIN e.sub
    ELSE IF e.k = "prog" THEN {Len(e.sub)} ELSE {}

\* Mutant of Tails: nothing is looked for in a condition.
MutTailsIf(e) == IF e.k = "prog" THEN {Len(e.sub)} ELSE {}

\* The subexpressions that lisp_collect_tails looks into: the last one of a
\* prog, but the first one of the body of a when or an unless.
Tails(e) ==
    CASE e.k = "if"                 -> {1, 2}
      [] e.k = "prog"               -> {Len(e.sub)}
      [] e.k \in {"when", "unless"} -> {1}
      [] OTHER                      -> {}

\* lisp_mark_tail_calls
Mark[e \in Exprs] ==
    CASE e.k = "call" -> [e EXCEPT !.tail = (e.symb = Own)]
      [] e.k = "emit" -> e
      [] OTHER        -> [e EXCEPT !.sub =
            [i \in DOMAIN e.sub |-> IF i \in Tails(e) THEN Mark[e.sub[i]] ELSE e.sub[i]]]

\* The bodies with their flags.
Marked == {Mark[p] : p \in Programs}

-----------------------------------------------------------------------------
VARIABLES
    program,        \* the body as it was written
    body,           \* the body with its flags
    first,          \* the call that starts: its symbol and its argument
    control,        \* an expression to evaluate, or a value to return
    frames,         \* the C activations, the innermost one last
    log             \* the effects

tcVars == <<program, body, first, control, frames, log>>
defined == <<program, body, first>>

Evaluates(k) == control.do = "eval" /\ control.e.k = k
Top == Last(frames)
Returns(at) == control.do = "ret" /\ frames # << >> /\ Top.at = at
Done == control.do = "ret" /\ frames = << >>

TCInit ==
    /\ program \in Programs
    /\ body = Mark[program]
    /\ first \in [symb : Names, arg : 0..MaxArg]
    /\ control = Eval(body, first.arg)
    /\ frames = <<Func(first.symb)>>
    /\ log = << >>

-----------------------------------------------------------------------------
Emit ==
    /\ Evaluates("emit")
    /\ log' = Append(log, control.n)
    /\ control' = Ret(Num(control.n))
    /\ UNCHANGED <<defined, frames>>

\* A call that is not flagged: a new activation of lisp_eval_func.
PlainCall ==
    /\ Evaluates("call") /\ ~control.e.tail
    /\ control' = Eval(body, control.n - 1)
    /\ frames' = Append(frames, Func(control.e.symb))
    /\ UNCHANGED <<defined, log>>

\* IS_TAIL_CALL(symb): the arguments are evaluated and returned.
TailCall ==
    /\ Evaluates("call") /\ control.e.tail
    /\ control' = Ret(Record(control.n - 1))
    /\ UNCHANGED <<defined, frames, log>>

If ==
    /\ Evaluates("if")
    /\ control' = Eval(control.e.sub[IF control.n = control.e.test THEN 1 ELSE 2],
                       control.n)
    /\ UNCHANGED <<defined, frames, log>>

List ==
    /\ \E k \in Sequenced : Evaluates(k)
    /\ Runs(control.e, control.n)
    /\ control' = Eval(Head(control.e.sub), control.n)
    /\ frames' = Append(frames, Prog(Tail(control.e.sub), control.n))
    /\ UNCHANGED <<defined, log>>

SkipList ==
    /\ \E k \in Sequenced : Evaluates(k)
    /\ ~Runs(control.e, control.n)
    /\ control' = Ret(NilValue)
    /\ UNCHANGED <<defined, frames, log>>

AddArgument ==
    /\ Evaluates("add")
    /\ control' = Eval(control.e.sub[1], control.n)
    /\ frames' = Append(frames, Add)
    /\ UNCHANGED <<defined, log>>

-----------------------------------------------------------------------------
\* lisp_prog releases the value and goes on with the next expression.
NextOfList ==
    /\ Returns("prog") /\ Top.rest # << >>
    /\ control' = Eval(Head(Top.rest), Top.n)
    /\ frames' = Append(Front(frames), Prog(Tail(Top.rest), Top.n))
    /\ UNCHANGED <<defined, log>>

EndOfList ==
    /\ Returns("prog") /\ Top.rest = << >>
    /\ frames' = Front(frames)
    /\ UNCHANGED <<defined, control, log>>

\* The sum takes the word of whatever cell it is given for a number.
AddReturn ==
    /\ Returns("add")
    /\ control' = Ret([control.val EXCEPT !.v = @ + 1])
    /\ frames' = Front(frames)
    /\ UNCHANGED <<defined, log>>

\* A record of this function: its symbol is the one of this call.
Again == control.val.t = "tail" /\ Top.symb = Own

\* Mutant of Loop: the arguments are not replaced.
MutLoop ==
    /\ Returns("func") /\ Again
    /\ control' = Eval(body, control.val.v + 1)
    /\ UNCHANGED <<defined, frames, log>>

\* The loop of lisp_eval_func.
Loop ==
    /\ Returns("func") /\ Again
    /\ control' = Eval(body, control.val.v)
    /\ UNCHANGED <<defined, frames, log>>

LoopEnd ==
    /\ Returns("func") /\ ~Again
    /\ frames' = Front(frames)
    /\ UNCHANGED <<defined, control, log>>

TCNext ==
    \/ Emit \/ PlainCall \/ TailCall \/ If \/ List \/ SkipList \/ AddArgument
    \/ NextOfList \/ EndOfList \/ AddReturn \/ Loop \/ LoopEnd

TCSpec == TCInit /\ [][TCNext]_tcVars /\ WF_tcVars(TCNext)

-----------------------------------------------------------------------------
\* No function is ever given a record of a tail call as its argument: a record
\* goes only through what returns the value of a last expression (eval.c:149).
RecordsReturned == Returns("add") => control.val.t # "tail"

\* A record is a call of the body that is still due.
Due == IF control.do = "ret" /\ control.val.t = "tail"
       THEN Eval(body, control.val.v) ELSE control

Plain == INSTANCE Evaluation WITH
    Bodies    <- Marked,
    Symbs     <- Names,
    Arguments <- 0..MaxArg,
    control   <- Due

\* A program computes what it computes without tail calls: the same value and
\* the same effects in the same order.
TailCallIsCall == Plain!Spec

\* Is there no call in e?
NoCall[e \in Exprs] ==
    CASE e.k = "emit" -> TRUE
      [] e.k = "call" -> FALSE
      [] OTHER        -> \A i \in DOMAIN e.sub : NoCall[e.sub[i]]

\* Are all the calls in e tail calls?
AllTail[e \in Exprs] ==
    CASE e.k \in {"emit", "call"} -> TRUE
      [] e.k = "if"               -> AllTail[e.sub[1]] /\ AllTail[e.sub[2]]
      [] e.k \in Sequenced        -> /\ \A i \in 1..(Len(e.sub) - 1) : NoCall[e.sub[i]]
                                     /\ AllTail[e.sub[Len(e.sub)]]
      [] OTHER                    -> NoCall[e.sub[1]]

\* When all the calls are tail calls, they take no stack: one activation of
\* lisp_eval_func evaluates them all (eval.c:161, "in a tight loop").
TightLoop ==
    AllTail[program] =>
        Cardinality({i \in DOMAIN frames : frames[i].at = "func"}) <= 1

\* Every call returns.
Terminates == <>Done

-----------------------------------------------------------------------------
\* What the theorems about tail calls suppose: the function is called by the
\* symbol it is defined with ...
OwnName == Names = {Own}

\* ... and the body of a when or an unless is one expression.
OneExpression ==
    \A e \in Exprs : e.k \in {"when", "unless"} => Len(e.sub) = 1
=============================================================================
