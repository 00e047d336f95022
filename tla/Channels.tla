------------------------------ MODULE Channels ------------------------------
(***************************************************************************)
(* What the input contexts of the interpreter promise (Reference.md, IN    *)
(* and READ): a context is opened on top of the current one, a read takes  *)
(* the next expression of the context on top, each expression once and in  *)
(* the order of its text, and closing a context gives back the one below   *)
(* as it was left.                                                         *)
(*                                                                         *)
(* A context is the number of expressions taken from it, counted modulo    *)
(* Wrap so that an endless input has finitely many states.                 *)
(***************************************************************************)
EXTENDS Integers, Sequences, SequencesExt

CONSTANT Wrap   \* a positive number

VARIABLES
  contexts,   \* the open contexts, the current one last
  got         \* the last expression read: <<depth of its context, its number>>

vars == <<contexts, got>>

Succ(n) == (n + 1) % Wrap

Init ==
  /\ contexts = <<>>
  /\ got = <<0, 0>>

Open ==
  /\ contexts' = Append(contexts, 0)
  /\ UNCHANGED got

Take ==
  /\ contexts # <<>>
  /\ LET n == Succ(Last(contexts))
     IN  /\ contexts' = Append(Front(contexts), n)
         /\ got' = <<Len(contexts), n>>

Close ==
  /\ contexts # <<>>
  /\ contexts' = Front(contexts)
  /\ UNCHANGED got

Next == Open \/ Take \/ Close

Spec == Init /\ [][Next]_vars

=============================================================================
