------------------------------- MODULE Reader -------------------------------
(***************************************************************************)
(* The reader (lib/core/read.c) on the stack of input contexts lisp->ichan.*)
(* A context is (HANDLE PWD FORM ...): lisp_read takes the first buffered  *)
(* form, and when there is none feeds the lexer line by line until a form  *)
(* is complete.  The lexer may run code: a form behind a backtick or a     *)
(* tilde is evaluated while the rest of its line is still waiting, and     *)
(* that code may open, read and close contexts of its own.                 *)
(*                                                                         *)
(* The text is chosen as it is read: a line is up to MaxTokens tokens,     *)
(* each a whole form, the head or the tail of a form spread over several   *)
(* tokens, or one of the two with a read-time part.  Forms are numbered    *)
(* by their place in the text, modulo Wrap.                                *)
(***************************************************************************)
EXTENDS Integers, Sequences, SequencesExt

CONSTANTS
  MaxTokens,   \* bound on the tokens of a line
  MaxBuf,      \* bound on the forms waiting in a buffer
  MaxOps,      \* bound on what the evaluation of one form does
  Wrap         \* the modulus of the form numbers

ASSUME ReaderAssumption ==
  /\ MaxTokens \in Nat /\ MaxOps \in Nat
  /\ MaxBuf \in Nat /\ Wrap \in Nat /\ Wrap > MaxBuf

VARIABLES
  ichan,    \* the input contexts, the current one last
  frames,   \* the C stack, the running function last
  got       \* the last form lisp_read returned: <<depth, number>>

readerVars == <<ichan, frames, got>>

(* A fresh context: the lines its text still has, endless for a terminal   *)
(* or a pipe; the buffered forms; the number of the last form begun in the *)
(* text and of the last form taken from the buffer.                        *)
Channel(n, endless) ==
  [lines |-> n, endless |-> endless, buf |-> <<>>, begun |-> 0, taken |-> 0]

Top == Last(ichan)
SetTop(c) == ichan' = Append(Front(ichan), c)
Advance(n) == (n + 1) % Wrap

-----------------------------------------------------------------------------
(* The C stack: lisp_read, with the tokens of its line lexed so far and    *)
(* whether a list is open; and the evaluation of a form.                   *)
ReadFrame == [fn |-> "read", at |-> "start", toks |-> 0, open |-> FALSE]
EvalFrame == [fn |-> "eval", ops |-> MaxOps]

Running(fn) == frames # <<>> /\ Last(frames).fn = fn
Here(fn, at) == Running(fn) /\ Last(frames).at = at
Goto(f) == frames' = Append(Front(frames), f)
At(at) == [Last(frames) EXCEPT !.at = at]
GotoCall(f, callee) == frames' = Append(Append(Front(frames), f), callee)
Call(callee) == frames' = Append(frames, callee)

(* A loop over lisp_read learns whether it returned NULL; lisp_function_   *)
(* read turns NULL into NIL and its caller goes on.                        *)
ReturnRead(at) ==
  LET rest == Front(frames)
  IN  frames' = IF Last(rest).fn \in {"repl", "file"}
                THEN [rest EXCEPT ![Len(rest)].at = at] ELSE rest

-----------------------------------------------------------------------------
(* lisp_read: the buffer first, the handle otherwise.                      *)
ReadStart ==
  /\ Here("read", "start")
  /\ Goto(At(IF Top.buf = <<>> THEN "fgets" ELSE "pop"))
  /\ UNCHANGED <<ichan, got>>

FgetsLine ==
  /\ Here("read", "fgets")
  /\ Top.lines > 0
  /\ SetTop([Top EXCEPT !.lines = IF Top.endless THEN @ ELSE @ - 1])
  /\ Goto([At("lex") EXCEPT !.toks = 0])
  /\ UNCHANGED got

(* The end of the text; an endless input may end whenever it is read.      *)
FgetsEof ==
  /\ Here("read", "fgets")
  /\ Top.lines = 0 \/ Top.endless
  /\ SetTop([Top EXCEPT !.lines = 0])
  /\ Goto(At("pop"))
  /\ UNCHANGED got

(* lisp_consumer: the form goes to the context that is current when the    *)
(* parser reduces it.                                                      *)
Consume(form, begun) ==
  SetTop([Top EXCEPT !.buf = Append(@, form), !.begun = begun])

MoreTokens == Here("read", "lex") /\ Last(frames).toks < MaxTokens
Lexed(open) == [Last(frames) EXCEPT !.toks = @ + 1, !.open = open]

LexWhole ==
  /\ MoreTokens
  /\ ~Last(frames).open
  /\ Len(Top.buf) < MaxBuf
  /\ Consume(Advance(Top.begun), Advance(Top.begun))
  /\ Goto(Lexed(FALSE))
  /\ UNCHANGED got

LexHead ==
  /\ MoreTokens
  /\ ~Last(frames).open
  /\ Len(Top.buf) < MaxBuf
  /\ SetTop([Top EXCEPT !.begun = Advance(@)])
  /\ Goto(Lexed(TRUE))
  /\ UNCHANGED got

LexTail ==
  /\ MoreTokens
  /\ Last(frames).open
  /\ Consume(Top.begun, Top.begun)
  /\ Goto(Lexed(FALSE))
  /\ UNCHANGED got

(* A read-time part: the parser calls lisp_eval and goes on in the same    *)
(* line.  Alone on its level it is the form itself: a head whose tail      *)
(* comes after the evaluation.                                             *)
LexEval ==
  /\ MoreTokens
  /\ Last(frames).open
  /\ GotoCall(Lexed(TRUE), EvalFrame)
  /\ UNCHANGED <<ichan, got>>

\* Mutant of LexEnd: lexer_pending is not asked.
MutLexEnd ==
  /\ Here("read", "lex")
  /\ Goto(At(IF Top.buf = <<>> THEN "fgets" ELSE "pop"))
  /\ UNCHANGED <<ichan, got>>

(* The loop of lisp_read: more lines while no form is buffered or a list   *)
(* is open.                                                                *)
LexEnd ==
  /\ Here("read", "lex")
  /\ Goto(At(IF Top.buf = <<>> \/ Last(frames).open THEN "fgets" ELSE "pop"))
  /\ UNCHANGED <<ichan, got>>

(* lisp_read_pop, or NULL when the text ended without a form.              *)
ReadPop ==
  /\ Here("read", "pop")
  /\ Top.buf # <<>>
  /\ SetTop([Top EXCEPT !.buf = Tail(@), !.taken = Advance(@)])
  /\ got' = <<Len(ichan), Head(Top.buf)>>
  /\ ReturnRead("value")

ReadNull ==
  /\ Here("read", "pop")
  /\ Top.buf = <<>>
  /\ ReturnRead("null")
  /\ UNCHANGED <<ichan, got>>

ReaderStep ==
  \/ ReadStart \/ FgetsLine \/ FgetsEof
  \/ LexWhole \/ LexHead \/ LexTail \/ LexEval \/ LexEnd
  \/ ReadPop \/ ReadNull

-----------------------------------------------------------------------------
(* A read-time form that reads the very context being read takes later     *)
(* lines before the rest of the current one: programs do not do it.        *)
ReadingTop ==
  \E i \in DOMAIN frames :
    /\ frames[i].fn = "read"
    /\ \A j \in i..Len(frames) : frames[j].fn \notin {"in", "file"}

(* The contexts as their promise sees them.                                *)
Promise == INSTANCE Channels WITH
  contexts <- [i \in DOMAIN ichan |-> ichan[i].taken]

=============================================================================
