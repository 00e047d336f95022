----------------------------- MODULE Activations -----------------------------
(***************************************************************************)
(* What the closures of compiled code promise (Continuations.md): an       *)
(* activation of a function keeps what it saves until it returns or makes  *)
(* a tail call, whatever it calls meanwhile, and a continuation is run on  *)
(* what its own activation saved.                                          *)
(***************************************************************************)
EXTENDS Sequences, SequencesExt

CONSTANTS Functions, Values

VARIABLE calls   \* the calls from LISP that run, the last one innermost; for
                 \* each its activations and what they saved

Init == calls = <<>>

Activation == [fn : Functions, saved : Values]
Update(call) == calls' = Append(Front(calls), call)

Enter ==
  \E a \in Activation : calls' = Append(calls, <<a>>)

Within ==
  /\ calls # <<>> /\ Last(calls) # <<>>
  /\ LET call == Last(calls)
     IN  \/ \E a \in Activation :
              \/ Update(Append(call, a))            \* a call
              \/ Update(Append(Front(call), a))     \* a tail call, or a save
         \/ Update(Front(call))                     \* a return

Leave ==
  /\ calls # <<>> /\ Last(calls) = <<>>
  /\ calls' = Front(calls)

Next == Enter \/ Within \/ Leave

Spec == Init /\ [][Next]_calls

=============================================================================
