----------------------------- MODULE Evaluation -----------------------------
(***************************************************************************)
(* What the evaluation of a function without tail calls computes: its      *)
(* effects, in their order, and its value.  A call evaluates the body, and *)
(* its value takes the place of the call.  An activation with nothing left *)
(* to do but to return what it is given may be dropped at any time, and a  *)
(* call need not have one: this is what an evaluator with tail calls is    *)
(* free to do.                                                             *)
(***************************************************************************)
EXTENDS Expressions, SequencesExt

CONSTANTS
    Bodies,         \* the bodies of functions
    Symbs,          \* the symbols that stand for the function
    Arguments       \* the arguments of the first call

VARIABLES
    body,           \* the body of the function
    control,        \* an expression to evaluate, or a value to return
    frames,         \* the activations, the innermost one last
    log             \* the effects

vars == <<body, control, frames, log>>

Evaluates(k) == control.do = "eval" /\ control.e.k = k
Top == Last(frames)
Returns(at) == control.do = "ret" /\ frames # << >> /\ Top.at = at

Init ==
    /\ body \in Bodies
    /\ control \in {Eval(body, n) : n \in Arguments}
    /\ frames \in {<<Func(s)>> : s \in Symbs}
    /\ log = << >>

Emit ==
    /\ Evaluates("emit")
    /\ log' = Append(log, control.n)
    /\ control' = Ret(Num(control.n))
    /\ UNCHANGED <<body, frames>>

Call ==
    /\ Evaluates("call")
    /\ control' = Eval(body, control.n - 1)
    /\ frames' \in {frames, Append(frames, Func(control.e.symb))}
    /\ UNCHANGED <<body, log>>

If ==
    /\ Evaluates("if")
    /\ control' = Eval(control.e.sub[IF control.n = control.e.test THEN 1 ELSE 2],
                       control.n)
    /\ UNCHANGED <<body, frames, log>>

List ==
    /\ \E k \in Sequenced : Evaluates(k)
    /\ IF Runs(control.e, control.n)
       THEN /\ control' = Eval(Head(control.e.sub), control.n)
            /\ frames' = Append(frames, Prog(Tail(control.e.sub), control.n))
       ELSE control' = Ret(NilValue) /\ UNCHANGED frames
    /\ UNCHANGED <<body, log>>

Argument ==
    /\ Evaluates("add")
    /\ control' = Eval(control.e.sub[1], control.n)
    /\ frames' = Append(frames, Add)
    /\ UNCHANGED <<body, log>>

\* The value of an expression that is not the last one is of no use.
NextOfList ==
    /\ Returns("prog") /\ Top.rest # << >>
    /\ control' = Eval(Head(Top.rest), Top.n)
    /\ frames' = Append(Front(frames), Prog(Tail(Top.rest), Top.n))
    /\ UNCHANGED <<body, log>>

Sum ==
    /\ Returns("add")
    /\ control' = Ret([control.val EXCEPT !.v = @ + 1])
    /\ frames' = Front(frames)
    /\ UNCHANGED <<body, log>>

Drop ==
    /\ frames # << >>
    /\ \/ Top.at = "func"
       \/ Top.at = "prog" /\ Top.rest = << >>
    /\ frames' = Front(frames)
    /\ UNCHANGED <<body, control, log>>

Next ==
    \/ Emit \/ Call \/ If \/ List \/ Argument \/ NextOfList \/ Sum \/ Drop

Spec == Init /\ [][Next]_vars
=============================================================================
