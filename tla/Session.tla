------------------------------- MODULE Session ------------------------------
(***************************************************************************)
(* A run of the interpreter (bin/mnml.c): the loops over lisp_read of the  *)
(* REPL and of lisp_load_file, the forms of -e, the functions of a form    *)
(* that touch the contexts (load, in, out, read, readline, quit), the      *)
(* signals, and the tear-down.  It composes the Reader and the Loader.     *)
(*                                                                         *)
(* The program is one thread; frames is its C stack.  What a form computes *)
(* is left out: it does up to MaxOps operations on contexts and modules,   *)
(* in any order, then returns, if ever.  Signals arrive at any time.       *)
(***************************************************************************)
EXTENDS Reader, Loader

CONSTANTS
  MaxLines,    \* bound on the lines of a file
  MaxExprs,    \* bound on the forms of the -e argument
  MaxNest,     \* bound on the nesting of load, in and out
  StdModule,   \* the module of the functions loaded by default
  Defaults     \* those functions

ASSUME SessionAssumption ==
  /\ MaxLines \in Nat /\ MaxExprs \in Nat /\ MaxNest \in Nat
  /\ StdModule \in Modules /\ Defaults \subseteq Functions

VARIABLES
  phase,          \* how far main is
  keep_running,   \* cleared by SIGQUIT and SIGTERM
  ochan,          \* the number of output contexts
  late            \* auxiliary: forms of the top loop begun after the signal

vars == <<readerVars, loaderVars, phase, keep_running, ochan, late>>

-----------------------------------------------------------------------------
ReplFrame == [fn |-> "repl", at |-> "read"]
ParseFrame == [fn |-> "parse", toks |-> 0, left |-> 0]
ExprFrame(n) == [fn |-> "expr", left |-> n]
FileFrame == [fn |-> "file", at |-> "read"]

Init ==
  /\ LoaderInit
  /\ ichan = <<>> /\ frames = <<>> /\ got = <<0, 0>>
  /\ phase = "boot" /\ keep_running = TRUE /\ ochan = 0 /\ late = 0

(* module_init: the user cache is created or accessible, or main returns.  *)
BootFails ==
  /\ phase = "boot"
  /\ phase' = "done"
  /\ UNCHANGED <<readerVars, loaderVars, keep_running, ochan, late>>

(* module_load_defaults, unless -b was given.                              *)
Boot ==
  /\ phase = "boot"
  /\ phase' = "start"
  /\ ModuleLoad(StdModule, Defaults) \/ UNCHANGED loaderVars
  /\ UNCHANGED <<readerVars, keep_running, ochan, late>>

(* PUSH_IO_CONTEXT for stdin and stdout, then the REPL.                    *)
StartRepl ==
  /\ phase = "start"
  /\ phase' = "run"
  /\ ichan' = <<Channel(1, TRUE)>>
  /\ ochan' = 1
  /\ frames' = <<ReplFrame>>
  /\ UNCHANGED <<got, loaderVars, keep_running, late>>

(* -e: lexer_parse runs over the whole argument before any context is      *)
(* pushed (mnml.c:346-354).                                                *)
StartExpr ==
  /\ phase = "start"
  /\ phase' = "parse"
  /\ frames' = <<ParseFrame>>
  /\ UNCHANGED <<ichan, got, loaderVars, keep_running, ochan, late>>

(* A file argument: lisp_load_file with no input context below.            *)
StartFile ==
  /\ phase = "start"
  /\ ochan' = 1
  /\ phase' = "run"
  /\ \E n \in 0..MaxLines : ichan' = <<Channel(n, FALSE)>>
  /\ frames' = <<FileFrame>>
  /\ UNCHANGED <<got, loaderVars, keep_running, late>>

(* The path does not resolve or the file does not open.                    *)
StartFileFails ==
  /\ phase = "start"
  /\ phase' = "fini"
  /\ UNCHANGED <<readerVars, loaderVars, keep_running, ochan, late>>

-----------------------------------------------------------------------------
mainVars == <<loaderVars, phase, keep_running, ochan, late>>

LexStep == ReaderStep /\ UNCHANGED mainVars

\* Mutant of RunRead: keep_running is not tested.
MutRunRead ==
  /\ Here("repl", "read")
  /\ Call(ReadFrame)
  /\ UNCHANGED <<ichan, got, mainVars>>

(* run: keep_running is tested before each read and nowhere else.          *)
RunRead ==
  /\ Here("repl", "read")
  /\ keep_running
  /\ Call(ReadFrame)
  /\ UNCHANGED <<ichan, got, mainVars>>

CountLate == late' = IF keep_running \/ late = 2 THEN late ELSE late + 1

RunEval ==
  /\ Here("repl", "value")
  /\ GotoCall(At("read"), EvalFrame)
  /\ CountLate
  /\ UNCHANGED <<ichan, got, loaderVars, phase, keep_running, ochan>>

ExprEval ==
  /\ Running("expr")
  /\ keep_running
  /\ Last(frames).left > 0
  /\ GotoCall([Last(frames) EXCEPT !.left = @ - 1], EvalFrame)
  /\ CountLate
  /\ UNCHANGED <<ichan, got, loaderVars, phase, keep_running, ochan>>

(* The loop ends on NULL, on the end of the forms or when keep_running is  *)
(* cleared; main pops both contexts.                                       *)
LoopEnds ==
  /\ \/ Here("repl", "null")
     \/ Here("repl", "read") /\ ~keep_running
     \/ Running("expr") /\ (~keep_running \/ Last(frames).left = 0)
  /\ frames' = <<>>
  /\ ichan' = Front(ichan)
  /\ ochan' = ochan - 1
  /\ phase' = "fini"
  /\ UNCHANGED <<got, loaderVars, keep_running, late>>

(* lisp_load_file: the loop goes on until lisp_read returns NULL, whether  *)
(* it is the loop of a load or, for a file argument, that of main.         *)
FileRead ==
  /\ Here("file", "read")
  /\ Call(ReadFrame)
  /\ UNCHANGED <<ichan, got, mainVars>>

FileEval ==
  /\ Here("file", "value")
  /\ GotoCall(At("read"), EvalFrame)
  /\ IF Len(frames) = 1 THEN CountLate ELSE UNCHANGED late
  /\ UNCHANGED <<ichan, got, loaderVars, phase, keep_running, ochan>>

FileEnd ==
  /\ Here("file", "null")
  /\ ichan' = Front(ichan)
  /\ IF Len(frames) = 1
     THEN frames' = <<>> /\ phase' = "fini" /\ ochan' = ochan - 1
     ELSE frames' = Front(frames) /\ UNCHANGED <<phase, ochan>>
  /\ UNCHANGED <<got, loaderVars, keep_running, late>>

-----------------------------------------------------------------------------
(* The parse of -e.  A form that is complete is kept (lisp_push); left     *)
(* counts those before the first NIL, which ends the loop over them.       *)
ParseForm ==
  /\ Running("parse")
  /\ Last(frames).left < MaxExprs
  /\ Goto([Last(frames) EXCEPT !.left = @ + 1])
  /\ UNCHANGED <<ichan, got, mainVars>>

(* A read-time part: it is evaluated with no context but those it opens.   *)
ParseEval ==
  /\ Running("parse")
  /\ Last(frames).toks < MaxTokens
  /\ GotoCall([Last(frames) EXCEPT !.toks = @ + 1], EvalFrame)
  /\ UNCHANGED <<ichan, got, mainVars>>

(* PUSH_IO_CONTEXT for stdin and stdout, then the loop over the forms.     *)
ParseEnds ==
  /\ Running("parse")
  /\ phase' = "run"
  /\ ichan' = Append(ichan, Channel(1, TRUE))
  /\ ochan' = ochan + 1
  /\ frames' = <<ExprFrame(Last(frames).left)>>
  /\ UNCHANGED <<got, loaderVars, keep_running, late>>

-----------------------------------------------------------------------------
(* The evaluation of a form: its operations, then its return.              *)
Op == Running("eval") /\ Last(frames).ops > 0
Counted == [Last(frames) EXCEPT !.ops = @ - 1]
Nested == Cardinality({i \in 2..Len(frames) : frames[i].fn \in {"in", "out", "file"}})

(* (quit): the signal is delivered before kill returns.                    *)
EvalQuit ==
  /\ Op
  /\ keep_running' = FALSE
  /\ Goto(Counted)
  /\ UNCHANGED <<ichan, got, loaderVars, phase, ochan, late>>

(* read, readline and in with no context: they follow the null pointer in  *)
(* the NIL of lisp->ichan (CAR(CAR(lisp->ichan))), and the process dies.   *)
Segfault ==
  /\ Op
  /\ ichan = <<>>
  /\ phase' = "crashed"
  /\ frames' = <<>> /\ ochan' = 0
  /\ UNCHANGED <<ichan, got, loaderVars, keep_running, late>>

EvalRead ==
  /\ Op
  /\ ichan # <<>> /\ ~ReadingTop
  /\ GotoCall(Counted, ReadFrame)
  /\ UNCHANGED <<ichan, got, mainVars>>

(* (readline) takes a raw line, past the buffered forms, when getline      *)
(* returns.                                                                *)
EvalReadline ==
  /\ Op
  /\ ichan # <<>>
  /\ GotoCall(Counted, [fn |-> "readline"])
  /\ UNCHANGED <<ichan, got, mainVars>>

ReadlineEnd ==
  /\ Running("readline")
  /\ SetTop([Top EXCEPT !.lines = IF @ = 0 \/ Top.endless THEN @ ELSE @ - 1])
  /\ frames' = Front(frames)
  /\ UNCHANGED <<got, mainVars>>

(* (load "file"): the file is pushed and read, or the load returns NIL.    *)
EvalLoad ==
  /\ Op
  /\ \/ /\ Nested < MaxNest
        /\ \E n \in 0..MaxLines : ichan' = Append(ichan, Channel(n, FALSE))
        /\ GotoCall(Counted, FileFrame)
     \/ /\ UNCHANGED ichan
        /\ Goto(Counted)
  /\ UNCHANGED <<got, mainVars>>

(* (in chan . prg): prg is evaluated in the new context, or the channel    *)
(* does not open and NIL is returned.                                      *)
EvalIn ==
  /\ Op
  /\ ichan # <<>>
  /\ \/ /\ Nested < MaxNest
        /\ \E n \in 0..MaxLines : ichan' = Append(ichan, Channel(n, FALSE))
        /\ frames' = Front(frames) \o <<Counted, [fn |-> "in"], EvalFrame>>
     \/ /\ UNCHANGED ichan
        /\ Goto(Counted)
  /\ UNCHANGED <<got, mainVars>>

\* Mutant of InEnd: the context is not popped.
MutInEnd ==
  /\ Running("in")
  /\ frames' = Front(frames)
  /\ UNCHANGED <<ichan, got, mainVars>>

InEnd ==
  /\ Running("in")
  /\ ichan' = Front(ichan)
  /\ frames' = Front(frames)
  /\ UNCHANGED <<got, mainVars>>

(* (out chan . prg)                                                        *)
EvalOut ==
  /\ Op
  /\ \/ /\ Nested < MaxNest
        /\ ochan' = ochan + 1
        /\ frames' = Front(frames) \o <<Counted, [fn |-> "out"], EvalFrame>>
     \/ /\ UNCHANGED ochan
        /\ Goto(Counted)
  /\ UNCHANGED <<ichan, got, loaderVars, phase, keep_running, late>>

OutEnd ==
  /\ Running("out")
  /\ ochan' = ochan - 1
  /\ frames' = Front(frames)
  /\ UNCHANGED <<ichan, got, loaderVars, phase, keep_running, late>>

(* (load 'mod) and (load '(mod sym ...))                                   *)
EvalModule ==
  /\ Op
  /\ \E m \in Modules, request \in SUBSET Functions : ModuleLoad(m, request)
  /\ Goto(Counted)
  /\ UNCHANGED <<ichan, got, phase, keep_running, ochan, late>>

EvalReturn ==
  /\ Running("eval")
  /\ frames' = Front(frames)
  /\ UNCHANGED <<ichan, got, mainVars>>

-----------------------------------------------------------------------------
(* SIGQUIT or SIGTERM from outside.                                        *)
Signal ==
  /\ phase \in {"boot", "start", "parse", "run"}
  /\ keep_running
  /\ keep_running' = FALSE
  /\ UNCHANGED <<readerVars, loaderVars, phase, ochan, late>>

Fini ==
  /\ phase = "fini"
  /\ phase' = "delete"
  /\ ModuleFini
  /\ UNCHANGED <<globals, readerVars, keep_running, ochan, late>>

(* lisp_delete releases the globals.                                       *)
Delete ==
  /\ phase = "delete"
  /\ phase' = "done"
  /\ globals' = <<>>
  /\ UNCHANGED <<readerVars, opens, modules, keep_running, ochan, late>>

Done == phase \in {"done", "crashed"} /\ UNCHANGED vars

Main ==
  \/ BootFails \/ Boot
  \/ StartRepl \/ StartExpr \/ StartFile \/ StartFileFails
  \/ LexStep \/ RunRead \/ RunEval \/ ExprEval \/ LoopEnds
  \/ FileRead \/ FileEval \/ FileEnd
  \/ ParseForm \/ ParseEval \/ ParseEnds
  \/ Segfault \/ EvalQuit \/ EvalRead \/ EvalReadline \/ ReadlineEnd
  \/ EvalLoad \/ EvalModule
  \/ EvalIn \/ InEnd \/ EvalOut \/ OutEnd \/ EvalReturn
  \/ Fini \/ Delete

Next == Main \/ Signal \/ Done

(* fgets and getline wait for the other end of the handle, and signal()    *)
(* has them resumed after a signal.                                        *)
Waiting == Here("read", "fgets") \/ Running("readline")

(* The thread runs, but nothing says that a line comes or that the         *)
(* evaluation of a form returns; and a text that goes on for ever has      *)
(* forms and closes its lists.                                             *)
Fairness ==
  /\ WF_vars(~Waiting /\ ~Running("eval") /\ Main)
  /\ SF_vars(LexWhole /\ Top.endless /\ UNCHANGED mainVars)
  /\ SF_vars(LexTail /\ Top.endless /\ UNCHANGED mainVars)

Spec == Init /\ [][Next]_vars /\ Fairness

-----------------------------------------------------------------------------
FrameOK(f) ==
  \/ f.fn = "read" /\ f.at \in {"start", "fgets", "lex", "pop"} /\ f.toks \in 0..MaxTokens
  \/ f.fn = "eval" /\ f.ops \in 0..MaxOps
  \/ f.fn \in {"repl", "file"} /\ f.at \in {"read", "value", "null"}
  \/ f.fn = "parse" /\ f.toks \in 0..MaxTokens /\ f.left \in 0..MaxExprs
  \/ f.fn = "expr" /\ f.left \in 0..MaxExprs
  \/ f.fn \in {"in", "out", "readline"}

TypeOK ==
  /\ LoaderTypeOK
  /\ phase \in {"boot", "start", "parse", "run", "fini", "delete", "done", "crashed"}
  /\ keep_running \in BOOLEAN
  /\ ochan \in Nat /\ late \in 0..2
  /\ got \in Nat \X (0..Wrap - 1)
  /\ \A i \in DOMAIN frames : FrameOK(frames[i])
  /\ \A i \in DOMAIN ichan : ichan[i].buf \in Seq(0..Wrap - 1)

(* Forms are taken from the current context in the order of its text, each *)
(* once, and leaving a context gives back the one below (Reference.md, IN).*)
FormsInOrder == Promise!Spec

Owners(stack, fns) == Cardinality({i \in DOMAIN stack : stack[i].fn \in fns})

(* Each file, in and out being evaluated owns one context, and the loop of *)
(* main the last, whatever was opened while -e was parsed: none is left    *)
(* over or popped twice; and but for the read-time parts of -e, code is    *)
(* evaluated with a context to read from (CAR(lisp->ichan) is a context).  *)
ContextsBalanced ==
  /\ Len(ichan) = Owners(frames, {"repl", "expr", "file", "in"})
  /\ ochan = Owners(frames, {"out"}) + (IF phase = "run" THEN 1 ELSE 0)
  /\ phase \notin {"parse", "run"} => frames = <<>>
  /\ phase = "run" => ichan # <<>>

(* A signal stops the REPL after the form it was reading, if any, and the  *)
(* loop over the forms of -e at once.  (The loop over the file of a file   *)
(* argument does not test keep_running.)                                   *)
AtMostOneLate == frames # <<>> /\ frames[1].fn # "file" => late <= 1

(* Once the signal has come the process ends, however long its input goes  *)
(* on, unless it waits for ever for a line, or for a form to return.       *)
QuitEnds ==
  ~keep_running ~>
    (phase \in {"done", "crashed"} \/ []Waiting \/ []Running("eval"))

(* While code can run, the native functions of the globals are in open     *)
(* libraries; module_fini leaves their addresses behind, so nothing may be *)
(* evaluated after it.                                                     *)
NativesOpen ==
  \/ BoundOpen
  \/ phase \in {"delete", "done"} /\ frames = <<>>

LibrariesExact == HandlesExact /\ NativesOpen

=============================================================================
