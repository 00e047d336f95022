--------------------------- MODULE SessionProofs ----------------------------
(***************************************************************************)
(* A session, for any texts, modules, disk and bounds.                     *)
(*                                                                         *)
(* Its libraries first: handles are closed as often as they were opened    *)
(* and by whom they were opened, and no code runs while a native function  *)
(* of the globals is unmapped.  Then its contexts and the C stack: each    *)
(* context has one owner on the stack, and after a signal the top loop     *)
(* begins at most one form.  Last the forms: each context yields those of  *)
(* its text in order, whatever is read and loaded in between.              *)
(***************************************************************************)
EXTENDS Session, SequenceLemmas, FiniteSetTheorems

(* A native function comes from a module of the table: this, and not only  *)
(* its library being open, is what a load preserves.                       *)
BoundInTable == \A f \in DOMAIN globals : globals[f] \in modules

LoaderInv == LoaderTypeOK /\ HandlesExact /\ BoundInTable

(* The C stack is empty outside the evaluation, so that module_fini and    *)
(* lisp_delete cannot be interleaved with it.                              *)
LibInv ==
  /\ LoaderTypeOK
  /\ HandlesExact
  /\ phase \in {"delete", "done"} \/ BoundInTable
  /\ frames # <<>> => phase \in {"parse", "run"}

-----------------------------------------------------------------------------
(* What module_load_at_path leaves: an open library only under its own     *)
(* handle or, without a name, a lost one.                                  *)
LEMMA LoadAtPathExact ==
  ASSUME LoaderInv, NEW m \in Modules, m \notin modules
  PROVE  /\ LoadAtPath(m).left \in Nat
         /\ LoadAtPath(m).ok => LoadAtPath(m).left = 1 /\ ~Nameless(m)
         /\ ~LoadAtPath(m).ok => Nameless(m) \/ LoadAtPath(m).left = 0
<1>1. Disk[m].name \in {"none", "wrong", "right"} /\ Disk[m].loads \in BOOLEAN
  BY DiskAssumption DEF Library
<1>2. opens[m] \in Nat /\ (~Nameless(m) => opens[m] = 0)
  BY DEF LoaderInv, LoaderTypeOK, HandlesExact
<1>3. /\ LoadAtPath(m).ok <=> Disk[m].loads /\ Disk[m].name = "right"
      /\ LoadAtPath(m).left = IF Disk[m].loads /\ Disk[m].name # "wrong"
                              THEN opens[m] + 1 ELSE opens[m]
  BY <1>1 DEF LoadAtPath
<1>. QED  BY <1>1, <1>2, <1>3 DEF Nameless

(* No failure and no repetition of a load loses count of a handle.         *)
LEMMA LoadKeeps ==
  ASSUME LoaderInv, NEW m \in Modules, NEW request \in SUBSET Functions,
         ModuleLoad(m, request)
  PROVE  LoaderInv'
<1> DEFINE added == m \notin modules
           at == IF added THEN LoadAtPath(m) ELSE [ok |-> TRUE, left |-> opens[m]]
           syms == LoadSymbols(m, request)
<1>1. at.left \in Nat /\ opens \in [Modules -> Nat]
  BY LoadAtPathExact DEF LoaderInv, LoaderTypeOK
<1>2. at.ok => at.left = 1
  BY LoadAtPathExact DEF LoaderInv, HandlesExact
<1>3. at.ok /\ added => ~Nameless(m)
  BY LoadAtPathExact
<1>4. ~at.ok => added /\ (Nameless(m) \/ at.left = 0)
  BY LoadAtPathExact
<1>5. syms \subseteq Functions
  BY DEF LoadSymbols
<1>. HIDE DEF at, syms
<1>6. CASE UNCHANGED loaderVars
  BY <1>6 DEF loaderVars, LoaderInv, LoaderTypeOK, HandlesExact, BoundInTable
<1>7. CASE /\ ~at.ok
           /\ opens' = [opens EXCEPT ![m] = at.left]
           /\ UNCHANGED <<modules, globals>>
  BY <1>1, <1>4, <1>7
  DEF LoaderInv, LoaderTypeOK, HandlesExact, BoundInTable, Nameless
<1>8. CASE /\ at.ok
           /\ opens' = [opens EXCEPT ![m] = Dlclose(added, at.left)]
           /\ UNCHANGED <<modules, globals>>
  BY <1>1, <1>2, <1>3, <1>8
  DEF LoaderInv, LoaderTypeOK, HandlesExact, BoundInTable, Nameless, Dlclose
<1>9. CASE /\ at.ok
           /\ opens' = [opens EXCEPT ![m] = at.left]
           /\ modules' = modules \cup {m}
           /\ globals' = [f \in syms \cup DOMAIN globals |->
                            IF f \in syms THEN m ELSE globals[f]]
  <2>1. DOMAIN globals' = syms \cup DOMAIN globals
    BY <1>9
  <2>2. \A f \in DOMAIN globals' :
          globals'[f] = IF f \in syms THEN m ELSE globals[f]
    BY <1>9
  <2>4. BoundInTable'
    BY <1>9, <2>1, <2>2 DEF LoaderInv, BoundInTable
  <2>5. LoaderTypeOK'
    BY <1>1, <1>5, <1>9, <2>1, <2>2 DEF LoaderInv, LoaderTypeOK
  <2>6. HandlesExact'
    BY <1>1, <1>2, <1>9 DEF LoaderInv, HandlesExact, Nameless
  <2>. QED  BY <2>4, <2>5, <2>6 DEF LoaderInv
<1>10. ModuleLoad(m, request) <=>
         \/ /\ ~Disk[m].found
            /\ UNCHANGED loaderVars
         \/ /\ Disk[m].found
            /\ \/ /\ ~at.ok
                  /\ at.left <= MaxOpens
                  /\ opens' = [opens EXCEPT ![m] = at.left]
                  /\ UNCHANGED <<modules, globals>>
               \/ /\ at.ok
                  /\ syms = {}
                  /\ opens' = [opens EXCEPT ![m] = Dlclose(added, at.left)]
                  /\ UNCHANGED <<modules, globals>>
               \/ /\ at.ok
                  /\ syms # {}
                  /\ opens' = [opens EXCEPT ![m] = at.left]
                  /\ modules' = modules \cup {m}
                  /\ globals' = [f \in syms \cup DOMAIN globals |->
                            IF f \in syms THEN m ELSE globals[f]]
  BY Zenon DEF ModuleLoad, LoadBinary, at, syms
<1>. QED  BY <1>6, <1>7, <1>8, <1>9, <1>10

(* module_fini closes exactly the handles of the table.                    *)
LEMMA FiniKeeps ==
  ASSUME LoaderTypeOK, HandlesExact, ModuleFini, UNCHANGED globals
  PROVE  LoaderTypeOK' /\ HandlesExact'
<1>1. \A m \in Modules : m \in modules => opens[m] = 1
  BY DEF HandlesExact
<1>2. opens' \in [Modules -> Nat]
  BY <1>1 DEF ModuleFini, LoaderTypeOK
<1>3. LoaderTypeOK'
  BY <1>2 DEF ModuleFini, LoaderTypeOK
<1>4. HandlesExact'
  BY <1>1 DEF ModuleFini, HandlesExact, Nameless, LoaderTypeOK
<1>. QED  BY <1>3, <1>4

-----------------------------------------------------------------------------
LEMMA InitLib == Init => LibInv
BY DEF Init, LoaderInit, LibInv, LoaderTypeOK, HandlesExact, BoundInTable

(* A load is made with the arguments of a form or with the defaults.       *)
LEMMA LoadLib ==
  ASSUME LibInv, phase \notin {"delete", "done"},
         NEW m \in Modules, NEW request \in SUBSET Functions,
         ModuleLoad(m, request) \/ UNCHANGED loaderVars,
         frames' # <<>> => phase' \in {"parse", "run"}
  PROVE  LibInv'
<1>1. LoaderInv
  BY DEF LibInv, LoaderInv
<1>2. CASE ModuleLoad(m, request)
  BY <1>1, <1>2, LoadKeeps DEF LibInv, LoaderInv
<1>3. CASE UNCHANGED loaderVars
  BY <1>1, <1>3
  DEF loaderVars, LibInv, LoaderInv, LoaderTypeOK, HandlesExact, BoundInTable
<1>. QED  BY <1>2, <1>3

(* Every other step of the evaluation leaves the loader alone.             *)
LEMMA IdleLib ==
  ASSUME LibInv, UNCHANGED loaderVars,
         phase' \in {"delete", "done"} \/ phase \notin {"delete", "done"},
         frames' # <<>> => phase' \in {"parse", "run"}
  PROVE  LibInv'
BY DEF loaderVars, LibInv, LoaderTypeOK, HandlesExact, BoundInTable

(* The steps of a function on the C stack need one, and so are taken while *)
(* main is evaluating.                                                     *)
LEMMA StackSteps ==
  ASSUME LibInv,
         \/ LexStep \/ RunRead \/ RunEval \/ ExprEval \/ FileRead \/ FileEval
         \/ ParseForm \/ ParseEval
         \/ EvalQuit \/ EvalRead \/ EvalReadline \/ ReadlineEnd \/ EvalLoad
         \/ EvalIn \/ InEnd \/ EvalOut \/ OutEnd \/ EvalReturn
  PROVE  phase \in {"parse", "run"} /\ UNCHANGED <<loaderVars, phase>>
<1>1. CASE LexStep
  BY <1>1 DEF LexStep, ReaderStep, ReadStart, FgetsLine, FgetsEof, LexWhole,
     LexHead, LexTail, LexEval, LexEnd, ReadPop, ReadNull, MoreTokens, Here,
     Running, mainVars, LibInv
<1>2. CASE RunRead \/ RunEval \/ ExprEval \/ FileRead \/ FileEval
  BY <1>2 DEF RunRead, RunEval, ExprEval, FileRead, FileEval, Here, Running,
     mainVars, LibInv
<1>3. CASE EvalQuit \/ EvalRead \/ EvalReadline \/ ReadlineEnd \/ EvalLoad
  BY <1>3 DEF EvalQuit, EvalRead, EvalReadline, ReadlineEnd, EvalLoad, Op,
     Running, mainVars, LibInv
<1>4. CASE EvalIn \/ EvalOut
  BY <1>4 DEF EvalIn, EvalOut, Op, Running, mainVars, LibInv
<1>5. CASE InEnd \/ OutEnd \/ EvalReturn
  BY <1>5 DEF InEnd, OutEnd, EvalReturn, Running, mainVars, LibInv
<1>6. CASE ParseForm \/ ParseEval
  BY <1>6 DEF ParseForm, ParseEval, Running, mainVars, LibInv
<1>. QED  BY <1>1, <1>2, <1>3, <1>4, <1>5, <1>6

LEMMA NextLib == LibInv /\ [Next]_vars => LibInv'
<1>. SUFFICES ASSUME LibInv, [Next]_vars PROVE LibInv'
  OBVIOUS
<1>1. CASE BootFails \/ Done \/ UNCHANGED vars
  <2>1. UNCHANGED loaderVars /\ UNCHANGED frames
    BY <1>1 DEF BootFails, Done, vars, readerVars
  <2>2. phase' = phase \/ (phase' = "done" /\ phase = "boot")
    BY <1>1 DEF BootFails, Done, vars
  <2>. QED  BY <2>1, <2>2, IdleLib DEF LibInv
<1>2. CASE Boot
  <2>1. StdModule \in Modules /\ Defaults \in SUBSET Functions
    BY SessionAssumption
  <2>2. phase = "boot" /\ phase' = "start" /\ UNCHANGED frames
    BY <1>2 DEF Boot, readerVars
  <2>3. ModuleLoad(StdModule, Defaults) \/ UNCHANGED loaderVars
    BY <1>2 DEF Boot
  <2>. QED  BY <2>1, <2>2, <2>3, LoadLib DEF LibInv
<1>3. CASE StartRepl \/ StartExpr \/ StartFile
  <2>1. UNCHANGED loaderVars /\ phase = "start" /\ phase' \in {"parse", "run"}
    BY <1>3 DEF StartRepl, StartExpr, StartFile
  <2>. QED  BY <2>1, IdleLib DEF LibInv
<1>4. CASE StartFileFails
  <2>1. UNCHANGED loaderVars /\ phase = "start" /\ UNCHANGED frames
    BY <1>4 DEF StartFileFails, readerVars
  <2>. QED  BY <2>1, IdleLib DEF LibInv
<1>5. CASE \/ LexStep \/ RunRead \/ RunEval \/ ExprEval \/ FileRead \/ FileEval
           \/ ParseForm \/ ParseEval
           \/ EvalQuit \/ EvalRead \/ EvalReadline \/ ReadlineEnd \/ EvalLoad
           \/ EvalIn \/ InEnd \/ EvalOut \/ OutEnd \/ EvalReturn
  <2>1. phase \in {"parse", "run"} /\ UNCHANGED <<loaderVars, phase>>
    BY <1>5, StackSteps
  <2>. QED  BY <2>1, IdleLib
<1>6. CASE LoopEnds
  <2>1. UNCHANGED loaderVars /\ frames # <<>> /\ frames' = <<>>
    BY <1>6 DEF LoopEnds, Here, Running
  <2>. QED  BY <2>1, IdleLib DEF LibInv
<1>7. CASE FileEnd
  <2>1. UNCHANGED loaderVars /\ frames # <<>>
    BY <1>7 DEF FileEnd, Here, Running
  <2>2. frames' = <<>> \/ UNCHANGED phase
    BY <1>7 DEF FileEnd
  <2>. QED  BY <2>1, <2>2, IdleLib DEF LibInv
<1>8. CASE EvalModule
  <2>1. PICK m \in Modules, request \in SUBSET Functions : ModuleLoad(m, request)
    BY <1>8 DEF EvalModule
  <2>2. frames # <<>> /\ UNCHANGED phase
    BY <1>8 DEF EvalModule, Op, Running
  <2>. QED  BY <2>1, <2>2, LoadLib DEF LibInv
<1>9. CASE Signal
  <2>1. UNCHANGED loaderVars /\ UNCHANGED frames /\ UNCHANGED phase
    BY <1>9 DEF Signal, readerVars
  <2>. QED  BY <2>1, IdleLib DEF LibInv
<1>10. CASE Fini
  <2>1. phase = "fini" /\ phase' = "delete" /\ UNCHANGED <<globals, frames>>
    BY <1>10 DEF Fini, readerVars
  <2>. QED  BY <1>10, <2>1, FiniKeeps DEF Fini, LibInv
<1>11. CASE Delete
  <2>1. /\ phase = "delete" /\ phase' = "done" /\ UNCHANGED <<frames, opens, modules>>
        /\ globals' = <<>>
    BY <1>11 DEF Delete, readerVars
  <2>. QED  BY <2>1 DEF LibInv, LoaderTypeOK, HandlesExact
<1>12. CASE ParseEnds
  <2>1. UNCHANGED loaderVars /\ frames # <<>> /\ phase' = "run"
    BY <1>12 DEF ParseEnds, Running
  <2>. QED  BY <2>1, IdleLib DEF LibInv
<1>13. CASE Segfault
  <2>1. UNCHANGED loaderVars /\ frames # <<>> /\ frames' = <<>>
    BY <1>13 DEF Segfault, Op, Running
  <2>. QED  BY <2>1, IdleLib DEF LibInv
<1>. QED
  BY <1>1, <1>2, <1>3, <1>4, <1>5, <1>6, <1>7, <1>8, <1>9, <1>10, <1>11, <1>12, <1>13
  DEF Next, Main

LEMMA LibSafe == LibInv => LibrariesExact
<1>. SUFFICES ASSUME LibInv PROVE NativesOpen
  BY DEF LibInv, LibrariesExact
<1>1. CASE phase \in {"delete", "done"}
  BY <1>1 DEF LibInv, NativesOpen
<1>2. CASE BoundInTable
  BY <1>2 DEF LibInv, LoaderTypeOK, HandlesExact, BoundInTable, NativesOpen,
     BoundOpen
<1>. QED  BY <1>1, <1>2 DEF LibInv

(* In every session the libraries are opened, kept and closed exactly, and *)
(* what the evaluation can call is mapped (module.c:346-465, mnml.c:388).  *)
THEOREM SessionLibraries == Spec => []LibrariesExact
BY InitLib, NextLib, LibSafe, PTL DEF Spec

-----------------------------------------------------------------------------
(* The contexts and the C stack.                                           *)

Frame ==
  [fn : {"read"}, at : {"start", "fgets", "lex", "pop"}, toks : 0..MaxTokens,
   open : BOOLEAN]
  \cup [fn : {"eval"}, ops : 0..MaxOps]
  \cup [fn : {"repl", "file"}, at : {"read", "value", "null"}]
  \cup [fn : {"parse"}, toks : 0..MaxTokens, left : 0..MaxExprs]
  \cup [fn : {"expr"}, left : 0..MaxExprs]
  \cup [fn : {"in", "out", "readline"}]

Number == 0..Wrap - 1

Context == [lines : Nat, endless : BOOLEAN, buf : Seq(Number), begun : Number,
            taken : Number]

Tops == {"repl", "expr", "parse"}
Inputs == {"repl", "expr", "file", "in"}
Outputs == {"out"}
Readers == {"read", "readline"}

(* A stack: the functions of main at the bottom and nowhere else, and what *)
(* reads the current context above the owner of one.                       *)
StackOK(s) ==
  /\ s \in Seq(Frame)
  /\ s # <<>> => s[1].fn \in Tops \cup {"file"}
  /\ \A i \in DOMAIN s : s[i].fn \in Tops => i = 1
  /\ \A i \in DOMAIN s :
       s[i].fn \in Readers => \E j \in 1..(i - 1) : s[j].fn \in Inputs

Bottom(s) == s[1].fn

(* A reader is called only where there is a context to read.               *)
MayCall(s, f) == f.fn \notin Readers \/ Owners(s, Inputs) > 0

(* The top loop has a form to evaluate, or is reading one.                 *)
Due(s) ==
  /\ s # <<>> /\ s[1].fn = "repl"
  /\ s[1].at = "value" \/ (Len(s) > 1 /\ s[2].fn = "read")

(* The owners of the second stack, against those of the first and the      *)
(* frames of the functions in fns.                                         *)
SameOwners(s, t) ==
  /\ Owners(t, Inputs) = Owners(s, Inputs)
  /\ Owners(t, Outputs) = Owners(s, Outputs)

OneMore(s, t, fn) ==
  /\ Owners(t, Inputs) = Owners(s, Inputs) + (IF fn \in Inputs THEN 1 ELSE 0)
  /\ Owners(t, Outputs) = Owners(s, Outputs) + (IF fn \in Outputs THEN 1 ELSE 0)

-----------------------------------------------------------------------------
(* The owners on a stack, one frame more.                                  *)
LEMMA OwnersAppend ==
  ASSUME NEW s \in Seq(Frame), NEW f \in Frame, NEW F
  PROVE  /\ Owners(s, F) \in Nat
         /\ Owners(Append(s, f), F) = Owners(s, F) + (IF f.fn \in F THEN 1 ELSE 0)
<1> DEFINE A == {i \in DOMAIN s : s[i].fn \in F}
           B == {i \in DOMAIN Append(s, f) : Append(s, f)[i].fn \in F}
           n == Len(s) + 1
<1>1. /\ Len(s) \in Nat /\ DOMAIN s = 1..Len(s) /\ DOMAIN Append(s, f) = 1..n
      /\ \A i \in 1..Len(s) : Append(s, f)[i] = s[i]
      /\ Append(s, f)[n] = f
  BY AppendFacts
<1>2. IsFiniteSet(A) /\ n \notin A
  <2>1. A \subseteq 1..Len(s) /\ n \notin 1..Len(s)
    BY <1>1
  <2>2. IsFiniteSet(1..Len(s))
    <3>1. Len(s) \in Int /\ 1 \in Int
      BY <1>1
    <3>. QED  BY <3>1, FS_Interval
  <2>. QED  BY <2>1, <2>2, FS_Subset
<1>3. B = IF f.fn \in F THEN A \cup {n} ELSE A
  BY <1>1
<1>4. Cardinality(A) \in Nat /\ Cardinality(A \cup {n}) = Cardinality(A) + 1
  BY <1>2, FS_CardinalityType, FS_AddElement
<1>5. Owners(s, F) = Cardinality(A) /\ Owners(Append(s, f), F) = Cardinality(B)
  BY DEF Owners
<1>. HIDE DEF A, B
<1>. QED  BY <1>3, <1>4, <1>5

LEMMA OwnersEmpty == \A F : Owners(<<>>, F) = 0
BY FS_EmptySet DEF Owners

-----------------------------------------------------------------------------
LEMMA OwnerFound ==
  ASSUME NEW s \in Seq(Frame)
  PROVE  Owners(s, Inputs) > 0 <=> \E j \in DOMAIN s : s[j].fn \in Inputs
<1> DEFINE A == {i \in DOMAIN s : s[i].fn \in Inputs}
<1>1. IsFiniteSet(A)
  <2>1. Len(s) \in Int /\ 1 \in Int /\ A \subseteq 1..Len(s)
    OBVIOUS
  <2>2. IsFiniteSet(1..Len(s))
    BY <2>1, FS_Interval
  <2>. QED  BY <2>1, <2>2, FS_Subset
<1>2. Cardinality(A) \in Nat /\ (Cardinality(A) = 0 <=> A = {})
  BY <1>1, FS_CardinalityType, FS_EmptySet
<1>3. Cardinality(A) > 0 <=> A # {}
  BY <1>2
<1>4. Owners(s, Inputs) = Cardinality(A)
  BY DEF Owners
<1>. QED  BY <1>3, <1>4

(* What the moves of the C stack do to its shape, to the owners on it and  *)
(* to the form that is due.                                                *)
LEMMA Pushed ==
  ASSUME NEW s, StackOK(s), s # <<>>, NEW f \in Frame, f.fn \notin Tops,
         f.fn \in Readers => Owners(s, Inputs) > 0
  PROVE  /\ StackOK(Append(s, f)) /\ Append(s, f) # <<>>
         /\ Bottom(Append(s, f)) = Bottom(s)
         /\ f.fn # "read" \/ Last(s).fn # "repl" => (Due(Append(s, f)) => Due(s))
<1> DEFINE t == Append(s, f)
<1>1. s \in Seq(Frame) /\ s[1].fn \in Tops \cup {"file"}
  BY DEF StackOK
<1>2. /\ t \in Seq(Frame) /\ Len(s) \in Nat /\ Len(t) = Len(s) + 1
      /\ DOMAIN s = 1..Len(s) /\ DOMAIN t = 1..(Len(s) + 1)
      /\ \A i \in 1..Len(s) : t[i] = s[i]
      /\ t[Len(s) + 1] = f /\ t # <<>>
  BY <1>1, AppendFacts
<1>3. Len(s) > 0 /\ Last(s) = s[Len(s)]
  <2>1. Len(s) \in Nat \ {0} /\ Last(s) = s[Len(s)]
    BY <1>1, FrontLast
  <2>. QED  BY <2>1
<1>. HIDE DEF t
<1>4. \A i \in DOMAIN t : i \in DOMAIN s \/ i = Len(s) + 1
  BY <1>2
<1>5. StackOK(t)
  <2>1. \A i \in DOMAIN t : t[i].fn \in Tops => i = 1
    BY <1>1, <1>2, <1>3, <1>4 DEF StackOK
  <2>2. ASSUME NEW i \in DOMAIN t, t[i].fn \in Readers
        PROVE  \E j \in 1..(i - 1) : t[j].fn \in Inputs
    <3>1. CASE i \in DOMAIN s
      <4>1. PICK j \in 1..(i - 1) : s[j].fn \in Inputs
        BY <1>2, <2>2, <3>1 DEF StackOK
      <4>. QED  BY <4>1, <3>1, <1>2
    <3>2. CASE i = Len(s) + 1
      <4>1. f.fn \in Readers
        BY <1>2, <2>2, <3>2
      <4>2. PICK j \in DOMAIN s : s[j].fn \in Inputs
        BY <4>1, <1>1, OwnerFound
      <4>. QED  BY <4>2, <3>2, <1>2
    <3>. QED  BY <3>1, <3>2, <1>4
  <2>3. t[1].fn = s[1].fn
    BY <1>2, <1>3
  <2>. QED  BY <1>1, <1>2, <2>1, <2>2, <2>3 DEF StackOK
<1>7. Bottom(t) = Bottom(s)
  BY <1>2, <1>3 DEF Bottom
<1>6. ASSUME f.fn # "read" \/ Last(s).fn # "repl", Due(t) PROVE Due(s)
  <2>1. t[1] = s[1]
    BY <1>2, <1>3
  <2>2. CASE s[1].at = "value"
    BY <2>1, <2>2, <1>6 DEF Due
  <2>3. CASE s[1].at # "value"
    <3>1. t[2].fn = "read" /\ s[1].fn = "repl"
      BY <2>1, <2>3, <1>6 DEF Due
    <3>2. Len(s) # 1
      BY <3>1, <1>2, <1>3, <1>6
    <3>3. t[2] = s[2] /\ Len(s) > 1
      BY <3>2, <1>2, <1>3
    <3>. QED  BY <3>1, <3>3 DEF Due
  <2>. QED  BY <2>2, <2>3
<1>. QED  BY <1>2, <1>5, <1>6, <1>7 DEF t

LEMMA Replaced ==
  ASSUME NEW s, StackOK(s), s # <<>>, NEW g \in Frame, g.fn = Last(s).fn,
         NEW t, t = Append(Front(s), g)
  PROVE  /\ StackOK(t) /\ t # <<>> /\ Last(t) = g /\ Front(t) = Front(s)
         /\ \A F : Owners(s, F) \in Nat
         /\ SameOwners(s, t) /\ Bottom(t) = Bottom(s)
         /\ Due(t) => Due(s) \/ (g.fn = "repl" /\ g.at = "value")
<1>1. s \in Seq(Frame)
  BY DEF StackOK
<1>2. /\ Front(s) \in Seq(Frame) /\ Last(s) \in Frame
      /\ Len(s) \in Nat \ {0} /\ Len(Front(s)) = Len(s) - 1
      /\ DOMAIN s = 1..Len(s)
      /\ Last(s) = s[Len(s)]
      /\ \A i \in 1..(Len(s) - 1) : Front(s)[i] = s[i]
      /\ s = Append(Front(s), Last(s))
  BY <1>1, FrontLast
<1>3. /\ t \in Seq(Frame) /\ Len(t) = Len(s)
      /\ DOMAIN t = 1..Len(s)
      /\ \A i \in 1..(Len(s) - 1) : t[i] = s[i]
      /\ t[Len(s)] = g /\ t # <<>> /\ Last(t) = g /\ Front(t) = Front(s)
  BY <1>2, AppendFacts
<1>4. \A i \in 1..Len(s) : t[i].fn = s[i].fn
  <2>1. \A i \in 1..Len(s) : i \in 1..(Len(s) - 1) \/ i = Len(s)
    BY <1>2
  <2>. QED  BY <2>1, <1>2, <1>3
<1>9. Bottom(t) = Bottom(s)
  <2>1. 1 \in 1..Len(s)
    BY <1>2
  <2>. QED  BY <2>1, <1>4 DEF Bottom
<1>5. StackOK(t)
  <2>1. \A i \in DOMAIN t : t[i].fn \in Tops => i = 1
    BY <1>2, <1>3, <1>4 DEF StackOK
  <2>2. ASSUME NEW i \in DOMAIN t, t[i].fn \in Readers
        PROVE  \E j \in 1..(i - 1) : t[j].fn \in Inputs
    <3>1. PICK j \in 1..(i - 1) : s[j].fn \in Inputs
      BY <1>2, <1>3, <1>4, <2>2 DEF StackOK
    <3>2. j \in 1..Len(s)
      BY <1>2, <1>3
    <3>. QED  BY <3>1, <3>2, <1>4
  <2>. QED  BY <1>2, <1>3, <1>9, <2>1, <2>2 DEF StackOK, Bottom
<1>6. \A F : Owners(s, F) \in Nat /\ Owners(t, F) = Owners(s, F)
  <2>1. ASSUME NEW F, NEW f \in Frame
        PROVE  /\ Owners(Append(Front(s), f), F) \in Nat
               /\ Owners(Append(Front(s), f), F)
                    = Owners(Front(s), F) + (IF f.fn \in F THEN 1 ELSE 0)
    BY <1>2, OwnersAppend
  <2>. QED  BY <2>1, <1>2
<1>7. ASSUME Due(t), ~Due(s) PROVE g.fn = "repl" /\ g.at = "value"
  <2>1. s[1].fn = "repl" /\ (Len(s) > 1 => t[2].fn = s[2].fn)
    BY <1>7, <1>2, <1>3, <1>4 DEF Due
  <2>2. t[1].at = "value" /\ s[1].at # "value"
    BY <2>1, <1>7, <1>3 DEF Due
  <2>3. Len(s) = 1
    BY <2>2, <1>2, <1>3
  <2>. QED  BY <2>1, <2>2, <2>3, <1>3, <1>2, <1>4
<1>8. (\A F : Owners(s, F) \in Nat) /\ SameOwners(s, t)
  BY <1>6 DEF SameOwners
<1>. QED  BY <1>3, <1>5, <1>7, <1>8, <1>9

LEMMA Popped ==
  ASSUME NEW s, StackOK(s), s # <<>>
  PROVE  /\ StackOK(Front(s)) /\ (Due(Front(s)) => Due(s))
         /\ Last(s).fn \notin Tops \cup {"file"} => Front(s) # <<>>
         /\ Front(s) # <<>> => Bottom(Front(s)) = Bottom(s)
         /\ Last(s).fn \in Tops => Front(s) = <<>>
         /\ OneMore(Front(s), s, Last(s).fn)
<1>1. s \in Seq(Frame) /\ s[1].fn \in Tops \cup {"file"}
  BY DEF StackOK
<1>2. /\ Front(s) \in Seq(Frame) /\ Last(s) \in Frame
      /\ Len(s) \in Nat \ {0} /\ Len(Front(s)) = Len(s) - 1
      /\ DOMAIN s = 1..Len(s) /\ DOMAIN Front(s) = 1..(Len(s) - 1)
      /\ Last(s) = s[Len(s)]
      /\ \A i \in 1..(Len(s) - 1) : Front(s)[i] = s[i]
      /\ s = Append(Front(s), Last(s))
  BY <1>1, FrontLast
<1>3. Front(s) = <<>> <=> Len(s) = 1
  BY <1>2
<1>4. StackOK(Front(s))
  <2>1. \A i \in DOMAIN Front(s) : i \in DOMAIN s /\ Front(s)[i] = s[i]
    BY <1>2
  <2>2. ASSUME NEW i \in DOMAIN Front(s), Front(s)[i].fn \in Readers
        PROVE  \E j \in 1..(i - 1) : Front(s)[j].fn \in Inputs
    <3>1. PICK j \in 1..(i - 1) : s[j].fn \in Inputs
      BY <2>1, <2>2 DEF StackOK
    <3>2. j \in DOMAIN Front(s)
      BY <1>2
    <3>. QED  BY <3>1, <3>2, <2>1
  <2>3. Front(s) # <<>> => Front(s)[1] = s[1]
    BY <1>2, <1>3
  <2>. QED  BY <1>1, <1>2, <2>1, <2>2, <2>3 DEF StackOK
<1>10. Front(s) # <<>> => Bottom(Front(s)) = Bottom(s)
  BY <1>2, <1>3 DEF Bottom
<1>5. ASSUME Due(Front(s)) PROVE Due(s)
  <2>1. Len(s) > 1 /\ Front(s)[1] = s[1]
    BY <1>5, <1>2, <1>3 DEF Due
  <2>2. Len(Front(s)) > 1 => Front(s)[2] = s[2]
    BY <1>2
  <2>. QED  BY <1>5, <2>1, <2>2, <1>2 DEF Due
<1>6. Last(s).fn \notin Tops \cup {"file"} => Front(s) # <<>>
  BY <1>1, <1>2, <1>3
<1>7. Last(s).fn \in Tops => Front(s) = <<>>
  BY <1>2, <1>3 DEF StackOK
<1>8. ASSUME NEW F
      PROVE  /\ Owners(Front(s), F) \in Nat
             /\ Owners(s, F) = Owners(Front(s), F) + (IF Last(s).fn \in F THEN 1 ELSE 0)
  <2>1. ASSUME NEW f \in Frame
        PROVE  /\ Owners(Front(s), F) \in Nat
               /\ Owners(Append(Front(s), f), F)
                    = Owners(Front(s), F) + (IF f.fn \in F THEN 1 ELSE 0)
    BY <1>2, OwnersAppend
  <2>. QED  BY <2>1, <1>2
<1>9. OneMore(Front(s), s, Last(s).fn)
  BY <1>8 DEF OneMore
<1>. QED  BY <1>4, <1>5, <1>6, <1>7, <1>9, <1>10

LEMMA OwnersNat ==
  ASSUME NEW s, StackOK(s)
  PROVE  \A F : Owners(s, F) \in Nat
<1>1. CASE s = <<>>
  BY <1>1, OwnersEmpty
<1>2. CASE s # <<>>
  <2>1. Last(s) \in Frame
    BY <1>2, FrontLast DEF StackOK
  <2>. QED  BY <1>2, <2>1, Replaced
<1>. QED  BY <1>1, <1>2

(* The function on top goes on as g and calls f.                           *)
Calls(s, g, f, t) ==
  /\ StackOK(s) /\ s # <<>>
  /\ g \in Frame /\ g.fn = Last(s).fn
  /\ f \in Frame /\ f.fn \notin Tops /\ MayCall(s, f)
  /\ t = Append(Append(Front(s), g), f)

LEMMA Called ==
  ASSUME NEW s, NEW g, NEW f, NEW t, Calls(s, g, f, t)
  PROVE  /\ StackOK(t) /\ t # <<>> /\ Bottom(t) = Bottom(s)
         /\ OneMore(s, t, f.fn)
         /\ (Due(t) /\ ~Due(s)) => g.fn = "repl" /\ (g.at = "value" \/ f.fn = "read")
<1> DEFINE r == Append(Front(s), g)
<1>0. /\ StackOK(s) /\ s # <<>> /\ g \in Frame /\ g.fn = Last(s).fn
      /\ f \in Frame /\ f.fn \notin Tops /\ MayCall(s, f)
      /\ t = Append(r, f)
  BY DEF Calls
<1>1. /\ StackOK(r) /\ r # <<>> /\ Last(r) = g
      /\ SameOwners(s, r) /\ Bottom(r) = Bottom(s)
      /\ Due(r) => Due(s) \/ (g.fn = "repl" /\ g.at = "value")
  BY <1>0, Replaced
<1>. HIDE DEF r
<1>2. t = Append(r, f)
  BY <1>0
<1>3. /\ StackOK(t) /\ t # <<>> /\ Bottom(t) = Bottom(r)
      /\ f.fn # "read" \/ g.fn # "repl" => (Due(t) => Due(r))
  <2>1. f.fn \in Readers => Owners(r, Inputs) > 0
    BY <1>0, <1>1 DEF SameOwners, MayCall
  <2>. QED  BY <1>0, <1>1, <1>2, <2>1, Pushed
<1>4. r \in Seq(Frame)
  BY <1>1 DEF StackOK
<1>5. ASSUME NEW F PROVE Owners(t, F) = Owners(r, F) + (IF f.fn \in F THEN 1 ELSE 0)
  BY <1>0, <1>2, <1>4, OwnersAppend
<1>6. OneMore(s, t, f.fn)
  BY <1>1, <1>5 DEF SameOwners, OneMore
<1>. QED  BY <1>1, <1>3, <1>6

(* Below a reader, and in the functions that read a text, there is the     *)
(* owner of a context; below the loops of main too.                        *)
LEMMA OwnerBelow ==
  ASSUME NEW s, StackOK(s), s # <<>>,
         Last(s).fn \in Readers \cup Inputs \/ Bottom(s) # "parse"
  PROVE  Owners(s, Inputs) > 0
<1>1. /\ s \in Seq(Frame) /\ Len(s) \in Nat \ {0} /\ DOMAIN s = 1..Len(s)
      /\ Last(s) = s[Len(s)]
  BY FrontLast DEF StackOK
<1>2. \E j \in DOMAIN s : s[j].fn \in Inputs
  <2>1. CASE Last(s).fn \in Inputs
    BY <1>1, <2>1
  <2>2. CASE Last(s).fn \in Readers
    <3>1. PICK j \in 1..(Len(s) - 1) : s[j].fn \in Inputs
      BY <1>1, <2>2 DEF StackOK
    <3>. QED  BY <3>1, <1>1
  <2>3. CASE Bottom(s) # "parse"
    <3>1. 1 \in DOMAIN s
      BY <1>1
    <3>. QED  BY <2>3, <3>1 DEF StackOK, Bottom, Tops, Inputs
  <2>. QED  BY <2>1, <2>2, <2>3
<1>. QED  BY <1>1, <1>2, OwnerFound

-----------------------------------------------------------------------------
StackTypes ==
  /\ ichan \in Seq(Context) /\ ochan \in Nat /\ got \in Nat \X Number
  /\ phase \in {"boot", "start", "parse", "run", "fini", "delete", "done", "crashed"}
  /\ keep_running \in BOOLEAN
  /\ StackOK(frames)

(* The output contexts of main itself.                                     *)
Base == IF phase = "run" THEN 1 ELSE 0

(* The counts agree with the stack in every phase, the stack is empty      *)
(* except while code is evaluated, and the parse of -e has its own phase.  *)
Counts ==
  /\ frames # <<>> <=> phase \in {"parse", "run"}
  /\ frames # <<>> => (phase = "parse" <=> Bottom(frames) = "parse")
  /\ Len(ichan) = Owners(frames, Inputs)
  /\ ochan = Owners(frames, Outputs) + Base

(* In the REPL a late form uses up the form that was due when the signal   *)
(* came; only the loop over a file argument goes on after that.            *)
LateInv ==
  /\ late \in 0..2
  /\ keep_running => late = 0
  /\ phase \in {"boot", "start", "parse"} => late = 0
  /\ late > 0 => ~Due(frames)
  /\ frames # <<>> /\ Bottom(frames) # "file" => late <= 1

StackInv == StackTypes /\ Counts /\ LateInv

(* What a move of the stack has to show of the rest of the state.          *)
LEMMA Moved ==
  ASSUME StackInv, frames # <<>>, frames' # <<>>, StackOK(frames'),
         Bottom(frames') = Bottom(frames),
         Owners(frames', Inputs) = Len(ichan'), ichan' \in Seq(Context),
         ochan' \in Nat, ochan' = Owners(frames', Outputs) + Base,
         got' \in Nat \X Number,
         keep_running' \in BOOLEAN, keep_running' => keep_running,
         phase' = phase, late' = late,
         late > 0 => (Due(frames') => Due(frames))
  PROVE  StackInv'
<1>1. phase \in {"parse", "run"} /\ Base' = Base
  BY DEF StackInv, Counts, Base
<1>2. StackTypes'
  BY DEF StackInv, StackTypes
<1>3. Bottom(frames)' = Bottom(frames)
  BY DEF Bottom
<1>4. Counts'
  BY <1>1, <1>3 DEF StackInv, Counts
<1>5. LateInv'
  BY <1>1, <1>3 DEF StackInv, LateInv
<1>. QED  BY <1>2, <1>4, <1>5 DEF StackInv

LEMMA TopExists ==
  ASSUME StackInv, frames # <<>>
  PROVE  /\ phase \in {"parse", "run"} /\ Base \in Nat
         /\ frames \in Seq(Frame) /\ Last(frames) \in Frame
         /\ Len(ichan) = Owners(frames, Inputs) /\ Len(ichan) \in Nat
         /\ ichan \in Seq(Context)
<1>1. /\ phase \in {"parse", "run"} /\ frames \in Seq(Frame)
      /\ Len(ichan) = Owners(frames, Inputs) /\ ichan \in Seq(Context)
  BY DEF StackInv, StackTypes, Counts, StackOK
<1>2. Last(frames) \in Frame
  BY <1>1, FrontLast
<1>3. Base \in Nat
  BY DEF Base
<1>. QED  BY <1>1, <1>2, <1>3

(* Where a text is read there is a current context.                        *)
LEMMA ContextExists ==
  ASSUME StackInv, frames # <<>>,
         ichan # <<>> \/ Last(frames).fn \in Readers \cup Inputs
  PROVE  /\ ichan # <<>> /\ Top \in Context /\ Len(ichan) \in Nat \ {0}
         /\ Front(ichan) \in Seq(Context) /\ Len(Front(ichan)) = Len(ichan) - 1
<1>1. Len(ichan) = Owners(frames, Inputs) /\ ichan \in Seq(Context) /\ StackOK(frames)
  BY DEF StackInv, StackTypes, Counts
<1>2. ichan # <<>>
  <2>1. CASE Last(frames).fn \in Readers \cup Inputs
    <3>1. Len(ichan) > 0
      BY <1>1, <2>1, OwnerBelow
    <3>. QED  BY <3>1, <1>1
  <2>. QED  BY <2>1
<1>. QED  BY <1>1, <1>2, FrontLast DEF Top

LEMMA TopKept ==
  ASSUME StackInv, frames # <<>>, Last(frames).fn \in Readers,
         NEW c \in Context, SetTop(c)
  PROVE  ichan' \in Seq(Context) /\ Len(ichan') = Len(ichan)
<1>1. Front(ichan) \in Seq(Context) /\ Len(Front(ichan)) = Len(ichan) - 1
      /\ Len(ichan) \in Nat
  BY ContextExists
<1>2. ichan' = Append(Front(ichan), c)
  BY DEF SetTop
<1>3. ichan' \in Seq(Context) /\ Len(ichan') = Len(Front(ichan)) + 1
  BY <1>1, <1>2, AppendFacts
<1>. QED  BY <1>1, <1>3

LEMMA ChannelAdded ==
  ASSUME StackInv, NEW n \in Nat, NEW e \in BOOLEAN,
         ichan' = Append(ichan, Channel(n, e))
  PROVE  ichan' \in Seq(Context) /\ Len(ichan') = Len(ichan) + 1
<1>1. Channel(n, e) \in Context
  BY ReaderAssumption DEF Channel, Context, Number
<1>2. ichan \in Seq(Context)
  BY DEF StackInv, StackTypes
<1>. QED  BY <1>1, <1>2, AppendFacts

(* A step inside the function on top.                                      *)
LEMMA GotoKeeps ==
  ASSUME StackInv, frames # <<>>, NEW g \in Frame, g.fn = Last(frames).fn,
         g.fn # "repl", Goto(g),
         ichan' \in Seq(Context), Len(ichan') = Len(ichan), got' \in Nat \X Number,
         keep_running' \in BOOLEAN, keep_running' => keep_running,
         UNCHANGED <<phase, ochan, late>>
  PROVE  StackInv'
<1>1. StackOK(frames) /\ frames' = Append(Front(frames), g)
  BY DEF StackInv, StackTypes, Goto
<1>2. /\ StackOK(frames') /\ frames' # <<>> /\ SameOwners(frames, frames')
      /\ Bottom(frames') = Bottom(frames)
      /\ Due(frames') => Due(frames) \/ g.fn = "repl"
  BY <1>1, Replaced
<1>3. ochan' \in Nat /\ ochan' = Owners(frames', Outputs) + Base
      /\ Owners(frames', Inputs) = Len(ichan')
  BY <1>2, TopExists DEF StackInv, StackTypes, Counts, SameOwners
<1>. QED  BY <1>2, <1>3, Moved

(* A call that opens no context.                                           *)
LEMMA CallKeeps ==
  ASSUME StackInv, frames # <<>>, NEW g \in Frame, g.fn = Last(frames).fn,
         NEW f \in Frame, f.fn \in {"read", "readline", "eval"}, GotoCall(g, f),
         f.fn # "eval" => ichan # <<>>,
         late' = late, late = 0 \/ g.fn # "repl",
         UNCHANGED <<ichan, got, phase, ochan, keep_running>>
  PROVE  StackInv'
<1>1. StackOK(frames) /\ frames' = Append(Append(Front(frames), g), f)
      /\ f.fn \notin Tops
  BY DEF StackInv, StackTypes, GotoCall, Tops
<1>7. MayCall(frames, f)
  BY TopExists DEF Readers, MayCall
<1>2. /\ StackOK(frames') /\ frames' # <<>> /\ OneMore(frames, frames', f.fn)
      /\ Bottom(frames') = Bottom(frames)
      /\ (Due(frames') /\ ~Due(frames)) => g.fn = "repl"
  <2>1. Calls(frames, g, f, frames')
    BY <1>1, <1>7 DEF Calls
  <2>. QED  BY <2>1, Called
<1>3. f.fn \notin Inputs /\ f.fn \notin Outputs
  BY DEF Inputs, Outputs
<1>4. \A F : Owners(frames, F) \in Nat
  BY <1>1, OwnersNat
<1>5. ochan' \in Nat /\ ochan' = Owners(frames', Outputs) + Base
      /\ Owners(frames', Inputs) = Len(ichan')
  BY <1>2, <1>3, <1>4, TopExists DEF StackInv, StackTypes, Counts, OneMore
<1>6. /\ ichan' \in Seq(Context) /\ got' \in Nat \X Number
      /\ keep_running' \in BOOLEAN
  BY DEF StackInv, StackTypes
<1>. QED  BY <1>2, <1>5, <1>6, Moved

(* The forms of load, in and out: a context is opened under the evaluation *)
(* that will use it.                                                       *)
LEMMA Concat ==
  ASSUME NEW S, NEW s \in Seq(S), NEW a \in S, NEW b \in S, NEW c \in S
  PROVE  s \o <<a, b, c>> = Append(Append(Append(s, a), b), c)
OBVIOUS

LEMMA CalledTwice ==
  ASSUME NEW s, StackOK(s), s # <<>>, NEW g \in Frame, g.fn = "eval",
         Last(s).fn = "eval", NEW fn \in {"in", "out"},
         NEW t, t = Front(s) \o <<g, [fn |-> fn], EvalFrame>>
  PROVE  /\ StackOK(t) /\ t # <<>> /\ OneMore(s, t, fn) /\ Bottom(t) = Bottom(s)
         /\ Due(t) => Due(s)
<1> DEFINE f == [fn |-> fn]
           u == Append(Append(Front(s), g), f)
<1>1. f \in Frame /\ EvalFrame \in Frame /\ f.fn = fn
  BY ReaderAssumption DEF Frame, EvalFrame
<1>2. f.fn \notin Tops /\ f.fn \notin Readers /\ EvalFrame.fn = "eval"
  BY DEF Tops, Readers, EvalFrame
<1>3. s \in Seq(Frame) /\ Front(s) \in Seq(Frame)
  BY FrontLast DEF StackOK
<1>4. t = Append(u, EvalFrame)
  BY <1>1, <1>3, Concat
<1>. HIDE DEF f
<1>0. u = Append(Append(Front(s), g), f) /\ g.fn = Last(s).fn
  OBVIOUS
<1>. HIDE DEF u
<1>5. /\ StackOK(u) /\ u # <<>> /\ OneMore(s, u, f.fn) /\ Bottom(u) = Bottom(s)
      /\ (Due(u) /\ ~Due(s)) => g.fn = "repl" /\ (g.at = "value" \/ f.fn = "read")
  <2>1. MayCall(s, f)
    BY <1>2 DEF MayCall
  <2>2. Calls(s, g, f, u)
    BY <1>0, <1>1, <1>2, <2>1 DEF Calls
  <2>. QED  BY <2>2, Called
<1>6. /\ StackOK(t) /\ t # <<>> /\ Bottom(t) = Bottom(u)
      /\ Due(t) => Due(u)
  <2> DEFINE e == EvalFrame
  <2>1. e \in Frame /\ e.fn = "eval" /\ e.fn \notin Tops /\ e.fn \notin Readers
    BY <1>1, <1>2 DEF Tops, Readers
  <2>. HIDE DEF e
  <2>2. /\ StackOK(Append(u, e)) /\ Append(u, e) # <<>>
        /\ Bottom(Append(u, e)) = Bottom(u)
        /\ e.fn # "read" \/ Last(u).fn # "repl" => (Due(Append(u, e)) => Due(u))
    BY <2>1, <1>5, Pushed
  <2>. QED  BY <2>1, <2>2, <1>4 DEF e
<1>7. ASSUME NEW F, "eval" \notin F PROVE Owners(t, F) = Owners(u, F)
  <2>1. u \in Seq(Frame)
    BY <1>5 DEF StackOK
  <2>2. ASSUME NEW e \in Frame
        PROVE  /\ Owners(u, F) \in Nat
               /\ Owners(Append(u, e), F) = Owners(u, F) + (IF e.fn \in F THEN 1 ELSE 0)
    BY <2>1, OwnersAppend
  <2>3. Owners(t, F) = Owners(u, F) + 0 /\ Owners(u, F) \in Nat
    BY <2>2, <1>1, <1>2, <1>4, <1>7
  <2>. QED  BY <2>3
<1>8. Owners(t, Inputs) = Owners(u, Inputs) /\ Owners(t, Outputs) = Owners(u, Outputs)
  BY <1>7 DEF Inputs, Outputs
<1>9. OneMore(s, t, fn)
  BY <1>1, <1>5, <1>8 DEF OneMore
<1>. QED  BY <1>5, <1>6, <1>9

-----------------------------------------------------------------------------
(* A return to the function below.                                         *)
LEMMA PopKeeps ==
  ASSUME StackInv, frames # <<>>, Last(frames).fn \in {"eval", "in", "out", "file", "readline"},
         frames' = Front(frames), frames' # <<>>, ichan' \in Seq(Context),
         Len(ichan') = IF Last(frames).fn \in {"in", "file"}
                       THEN Len(ichan) - 1 ELSE Len(ichan),
         ochan' = IF Last(frames).fn = "out" THEN ochan - 1 ELSE ochan,
         UNCHANGED <<got, keep_running, phase, late>>
  PROVE  StackInv'
<1>1. StackOK(frames)
  BY DEF StackInv, StackTypes
<1>2. /\ StackOK(frames') /\ (Due(frames') => Due(frames))
      /\ Bottom(frames') = Bottom(frames)
      /\ OneMore(frames', frames, Last(frames).fn)
  BY <1>1, Popped
<1>3. Owners(frames', Inputs) \in Nat /\ Owners(frames', Outputs) \in Nat
  BY <1>2, OwnersNat
<1>4. Owners(frames', Inputs) = Len(ichan')
  BY <1>2, <1>3, TopExists DEF StackInv, Counts, OneMore, Inputs
<1>5. ochan' \in Nat /\ ochan' = Owners(frames', Outputs) + Base
  BY <1>2, <1>3, TopExists DEF StackInv, Counts, OneMore, Outputs
<1>6. got' \in Nat \X Number /\ keep_running' \in BOOLEAN
  BY DEF StackInv, StackTypes
<1>. QED  BY <1>2, <1>4, <1>5, <1>6, Moved

(* lisp_read returns to a loop, which learns what it returned, or to a     *)
(* form.                                                                   *)
LEMMA ReturnKeeps ==
  ASSUME NEW s, StackOK(s), s # <<>>, Last(s).fn = "read",
         NEW at \in {"value", "null"}, NEW t,
         t = IF Last(Front(s)).fn \in {"repl", "file"}
             THEN [Front(s) EXCEPT ![Len(Front(s))].at = at] ELSE Front(s)
  PROVE  /\ StackOK(t) /\ t # <<>> /\ SameOwners(s, t) /\ (Due(t) => Due(s))
         /\ Bottom(t) = Bottom(s)
<1> DEFINE r == Front(s)
           g == [Last(r) EXCEPT !.at = at]
<1>1. /\ StackOK(r) /\ (Due(r) => Due(s)) /\ r # <<>> /\ Bottom(r) = Bottom(s)
      /\ OneMore(r, s, "read")
  BY Popped DEF Tops
<1>2. /\ s \in Seq(Frame) /\ Len(s) \in Nat \ {0} /\ Len(r) = Len(s) - 1
      /\ Last(s) = s[Len(s)]
      /\ \A i \in 1..(Len(s) - 1) : r[i] = s[i]
  BY FrontLast DEF StackOK
<1>. HIDE DEF r
<1>0. r \in Seq(Frame)
  BY <1>1 DEF StackOK
<1>3. /\ r \in Seq(Frame) /\ Last(r) \in Frame /\ Front(r) \in Seq(Frame)
      /\ Len(r) \in Nat \ {0} /\ Len(Front(r)) = Len(r) - 1
      /\ Last(r) = r[Len(r)]
      /\ DOMAIN r = 1..Len(r)
      /\ \A i \in 1..(Len(r) - 1) : Front(r)[i] = r[i]
  BY <1>0, <1>1, FrontLast
<1>4. SameOwners(s, r)
  <2>1. "read" \notin Inputs /\ "read" \notin Outputs
    BY DEF Inputs, Outputs
  <2>2. Owners(r, Inputs) \in Nat /\ Owners(r, Outputs) \in Nat
    BY <1>1, OwnersNat
  <2>. QED  BY <1>1, <2>1, <2>2 DEF OneMore, SameOwners
<1>5. CASE Last(r).fn \notin {"repl", "file"}
  <2>1. t = r
    BY <1>5 DEF r
  <2>. QED  BY <2>1, <1>1, <1>4
<1>6. CASE Last(r).fn \in {"repl", "file"}
  <2>1. g \in Frame /\ g.fn = Last(r).fn /\ g.at = at
    BY <1>3, <1>6 DEF Frame
  <2>2. t = [r EXCEPT ![Len(r)] = g]
    BY <1>3, <1>6 DEF r
  <2>. HIDE DEF g
  <2>3. t = Append(Front(r), g)
    BY <1>1, <1>3, <2>1, <2>2, LastReplaced
  <2>4. /\ StackOK(t) /\ t # <<>> /\ SameOwners(r, t) /\ Bottom(t) = Bottom(r)
        /\ Due(t) => Due(r) \/ (g.fn = "repl" /\ g.at = "value")
    BY <1>1, <2>1, <2>3, Replaced
  <2>5. ASSUME g.fn = "repl" PROVE Due(s)
    <3>0. r[Len(r)].fn = "repl" /\ Len(r) \in DOMAIN r
      <4>1. Last(r).fn = "repl"
        BY <2>1, <2>5
      <4>2. Len(r) \in 1..Len(r)
        BY <1>3
      <4>. QED  BY <4>1, <4>2, <1>3
    <3>1. r[Len(r)].fn \in Tops /\ Len(r) \in DOMAIN r
      BY <3>0 DEF Tops
    <3>2. Len(r) = 1
      BY <3>1, <1>1 DEF StackOK
    <3>3. Len(s) = 2
      <4>1. ASSUME NEW m \in Nat, m - 1 = 1 PROVE m = 2
        BY <4>1
      <4>2. Len(s) \in Nat /\ Len(s) - 1 = 1
        BY <1>2, <3>2
      <4>. QED  BY <4>1, <4>2
    <3>4. s[1].fn = "repl" /\ s[2].fn = "read"
      <4>1. r[1] = s[1]
        BY <3>3, <1>2
      <4>2. s[1].fn = "repl"
        BY <4>1, <3>0, <3>2
      <4>3. s[Len(s)].fn = "read"
        BY <1>2
      <4>. QED  BY <4>2, <4>3, <3>3, Zenon
    <3>. QED  BY <3>3, <3>4 DEF Due
  <2>6. SameOwners(s, t)
    BY <2>4, <1>4 DEF SameOwners
  <2>. QED  BY <2>4, <2>5, <2>6, <1>1
<1>. QED  BY <1>5, <1>6

-----------------------------------------------------------------------------
(* The steps of lisp_read.                                                 *)
LEMMA ReadFrames ==
  ASSUME NEW f \in Frame, f.fn = "read"
  PROVE  /\ f.toks \in 0..MaxTokens /\ f.open \in BOOLEAN
         /\ \A at \in {"start", "fgets", "lex", "pop"} :
              /\ [f EXCEPT !.at = at] \in Frame
              /\ [f EXCEPT !.at = at].fn = "read"
              /\ [[f EXCEPT !.at = at] EXCEPT !.toks = 0] \in Frame
              /\ [[f EXCEPT !.at = at] EXCEPT !.toks = 0].fn = "read"
         /\ f.toks < MaxTokens =>
              \A o \in BOOLEAN : /\ [f EXCEPT !.toks = @ + 1, !.open = o] \in Frame
                                 /\ [f EXCEPT !.toks = @ + 1, !.open = o].fn = "read"
<1>1. f \in [fn : {"read"}, at : {"start", "fgets", "lex", "pop"},
             toks : 0..MaxTokens, open : BOOLEAN]
  BY DEF Frame
<1>2. MaxTokens \in Nat
  BY ReaderAssumption
<1>3. ASSUME NEW at \in {"start", "fgets", "lex", "pop"}
      PROVE  /\ [f EXCEPT !.at = at] \in Frame
             /\ [f EXCEPT !.at = at].fn = "read"
             /\ [[f EXCEPT !.at = at] EXCEPT !.toks = 0] \in Frame
             /\ [[f EXCEPT !.at = at] EXCEPT !.toks = 0].fn = "read"
  <2>1. 0 \in 0..MaxTokens
    BY <1>2
  <2>. QED  BY <1>1, <2>1 DEF Frame
<1>4. ASSUME f.toks < MaxTokens, NEW o \in BOOLEAN
      PROVE  /\ [f EXCEPT !.toks = @ + 1, !.open = o] \in Frame
             /\ [f EXCEPT !.toks = @ + 1, !.open = o].fn = "read"
  <2>1. f.toks + 1 \in 0..MaxTokens
    BY <1>1, <1>2, <1>4
  <2>. QED  BY <1>1, <2>1 DEF Frame
<1>. QED  BY <1>1, <1>3, <1>4

LEMMA InRead ==
  ASSUME StackInv, Running("read"), NEW g \in Frame, g.fn = "read", Goto(g),
         UNCHANGED ichan \/ \E c \in Context : SetTop(c), UNCHANGED <<got, mainVars>>
  PROVE  StackInv'
<1>1. frames # <<>> /\ Last(frames).fn = "read"
  BY DEF Running
<1>2. ichan' \in Seq(Context) /\ Len(ichan') = Len(ichan)
  BY <1>1, TopKept DEF StackInv, StackTypes, Readers
<1>3. got' \in Nat \X Number /\ keep_running' \in BOOLEAN
  BY DEF mainVars, StackInv, StackTypes
<1>4. g.fn = Last(frames).fn /\ g.fn # "repl"
  BY <1>1
<1>5. keep_running' = keep_running /\ UNCHANGED <<phase, ochan, late>>
  BY DEF mainVars
<1>6. keep_running' => keep_running
  BY <1>5
<1>. QED  BY <1>1, <1>2, <1>3, <1>4, <1>5, <1>6, GotoKeeps, SMTT(30)

LEMMA Numbers ==
  /\ 0 \in Number
  /\ \A n \in Number : Advance(n) \in Number
  /\ \A q \in Seq(Number) : q # <<>> => Head(q) \in Number /\ Tail(q) \in Seq(Number)
<1>1. Wrap \in Nat /\ Wrap > 0
  BY ReaderAssumption
<1>2. ASSUME NEW n \in Number PROVE (n + 1) % Wrap \in 0..Wrap - 1
  <2>1. n + 1 \in Nat
    BY <1>1 DEF Number
  <2>. QED  BY <1>1, <2>1
<1>. QED  BY <1>1, <1>2 DEF Number, Advance

LEMMA LexKeeps == ASSUME StackInv, LexStep PROVE StackInv'
<1>0. UNCHANGED mainVars /\ ReaderStep
  BY DEF LexStep
<1>1. ASSUME Running("read")
      PROVE  /\ Last(frames) \in Frame /\ Last(frames).fn = "read" /\ frames # <<>>
             /\ Top \in Context
  BY <1>1, TopExists, ContextExists DEF Running, Readers
<1>2. CASE ReadStart
  <2>1. Running("read")
    BY <1>2 DEF ReadStart, Here
  <2>2. PICK at \in {"fgets", "pop"} : Goto(At(at))
    BY <1>2 DEF ReadStart
  <2>3. At(at) \in Frame /\ At(at).fn = "read"
    BY <1>1, <2>1, ReadFrames DEF At
  <2>. QED  BY <1>0, <1>2, <2>1, <2>2, <2>3, InRead DEF ReadStart
<1>3. CASE FgetsLine
  <2>1. Running("read")
    BY <1>3 DEF FgetsLine, Here
  <2>2. Goto([At("lex") EXCEPT !.toks = 0])
    BY <1>3 DEF FgetsLine
  <2>3. [At("lex") EXCEPT !.toks = 0] \in Frame /\ [At("lex") EXCEPT !.toks = 0].fn = "read"
    BY <1>1, <2>1, ReadFrames DEF At
  <2>4. \E c \in Context : SetTop(c)
    <3>1. Top \in Context /\ Top.lines > 0
      BY <1>1, <1>3, <2>1 DEF FgetsLine
    <3>2. [Top EXCEPT !.lines = IF Top.endless THEN @ ELSE @ - 1] \in Context
      BY <3>1 DEF Context
    <3>. QED  BY <1>3, <3>2 DEF FgetsLine
  <2>. QED  BY <1>0, <1>3, <2>1, <2>2, <2>3, <2>4, InRead DEF FgetsLine
<1>4. CASE FgetsEof
  <2>1. Running("read")
    BY <1>4 DEF FgetsEof, Here
  <2>2. Goto(At("pop")) /\ At("pop") \in Frame /\ At("pop").fn = "read"
    BY <1>1, <1>4, <2>1, ReadFrames DEF FgetsEof, At
  <2>3. \E c \in Context : SetTop(c)
    <3>1. [Top EXCEPT !.lines = 0] \in Context
      BY <1>1, <2>1 DEF Context
    <3>. QED  BY <1>4, <3>1 DEF FgetsEof
  <2>. QED  BY <1>0, <1>4, <2>1, <2>2, <2>3, InRead DEF FgetsEof
<1>5. CASE LexWhole \/ LexHead \/ LexTail
  <2>1. Running("read") /\ Last(frames).toks < MaxTokens
    BY <1>5 DEF LexWhole, LexHead, LexTail, MoreTokens, Here
  <2>2. PICK o \in BOOLEAN : Goto(Lexed(o))
    BY <1>5 DEF LexWhole, LexHead, LexTail
  <2>3. Lexed(o) \in Frame /\ Lexed(o).fn = "read"
    BY <1>1, <2>1, ReadFrames DEF Lexed
  <2>4. Top \in Context /\ Top.begun \in Number /\ Top.buf \in Seq(Number)
    BY <1>1, <2>1 DEF Context
  <2>5. \A n \in Number : /\ [Top EXCEPT !.buf = Append(@, n), !.begun = n] \in Context
                          /\ [Top EXCEPT !.begun = n] \in Context
    <3>1. ASSUME NEW n \in Number PROVE Append(Top.buf, n) \in Seq(Number)
      BY <2>4
    <3>. QED  BY <2>4, <3>1 DEF Context
  <2>6. Advance(Top.begun) \in Number
    BY <2>4, Numbers
  <2>7. \E c \in Context : SetTop(c)
    <3>1. CASE LexWhole \/ LexTail
      BY <3>1, <2>4, <2>5, <2>6 DEF LexWhole, LexTail, Consume
    <3>2. CASE LexHead
      BY <3>2, <2>5, <2>6 DEF LexHead
    <3>. QED  BY <1>5, <3>1, <3>2
  <2>8. UNCHANGED got
    BY <1>5 DEF LexWhole, LexHead, LexTail
  <2>. QED  BY <1>0, <2>1, <2>2, <2>3, <2>7, <2>8, InRead
<1>6. CASE LexEval
  <2>1. Running("read") /\ Last(frames).toks < MaxTokens
    BY <1>6 DEF LexEval, MoreTokens, Here
  <2>2. Lexed(TRUE) \in Frame /\ Lexed(TRUE).fn = "read"
    BY <1>1, <2>1, ReadFrames DEF Lexed
  <2>3. EvalFrame \in Frame /\ EvalFrame.fn = "eval"
    BY ReaderAssumption DEF EvalFrame, Frame
  <2>4. GotoCall(Lexed(TRUE), EvalFrame) /\ UNCHANGED <<ichan, got>>
    BY <1>6 DEF LexEval
  <2>5. UNCHANGED <<phase, ochan, keep_running, late>>
    BY <1>0 DEF mainVars
  <2>. QED  BY <1>1, <2>1, <2>2, <2>3, <2>4, <2>5, CallKeeps
<1>7. CASE LexEnd
  <2>1. Running("read")
    BY <1>7 DEF LexEnd, Here
  <2>2. PICK at \in {"fgets", "pop"} : Goto(At(at))
    BY <1>7 DEF LexEnd
  <2>3. At(at) \in Frame /\ At(at).fn = "read"
    BY <1>1, <2>1, ReadFrames DEF At
  <2>. QED  BY <1>0, <1>7, <2>1, <2>2, <2>3, InRead DEF LexEnd
<1>8. CASE ReadPop \/ ReadNull
  <2>1. Running("read")
    BY <1>8 DEF ReadPop, ReadNull, Here
  <2>2. PICK at \in {"value", "null"} : ReturnRead(at)
    BY <1>8 DEF ReadPop, ReadNull
  <2>3. StackOK(frames) /\ frames # <<>> /\ Last(frames).fn = "read"
    BY <1>1, <2>1 DEF StackInv, StackTypes
  <2>4. /\ StackOK(frames') /\ frames' # <<>>
        /\ SameOwners(frames, frames') /\ (Due(frames') => Due(frames))
        /\ Bottom(frames') = Bottom(frames)
    <3>1. frames' = IF Last(Front(frames)).fn \in {"repl", "file"}
                    THEN [Front(frames) EXCEPT ![Len(Front(frames))].at = at]
                    ELSE Front(frames)
      BY <2>2 DEF ReturnRead
    <3>. QED  BY <2>3, <3>1, ReturnKeeps
  <2>5. ichan' \in Seq(Context) /\ Len(ichan') = Len(ichan) /\ got' \in Nat \X Number
    <3>1. Top \in Context /\ Top.buf \in Seq(Number) /\ Top.taken \in Number
      BY <1>1, <2>1 DEF Context
    <3>2. CASE ReadPop
      <4>1. Head(Top.buf) \in Number /\ Tail(Top.buf) \in Seq(Number)
            /\ Advance(Top.taken) \in Number
        BY <3>1, <3>2, Numbers DEF ReadPop
      <4>2. [Top EXCEPT !.buf = Tail(@), !.taken = Advance(@)] \in Context
        BY <3>1, <4>1 DEF Context
      <4>3. ichan' \in Seq(Context) /\ Len(ichan') = Len(ichan)
        BY <2>3, <3>2, <4>2, TopKept DEF ReadPop, Readers
      <4>4. got' = <<Len(ichan), Head(Top.buf)>> /\ Len(ichan) \in Nat
        BY <2>3, <3>2, TopExists DEF ReadPop
      <4>. QED  BY <4>1, <4>3, <4>4
    <3>3. CASE ReadNull
      BY <3>3 DEF ReadNull, StackInv, StackTypes
    <3>. QED  BY <1>8, <3>2, <3>3
  <2>6. /\ ochan' \in Nat /\ ochan' = Owners(frames', Outputs) + Base
        /\ Owners(frames', Inputs) = Len(ichan')
    BY <1>0, <2>3, <2>4, <2>5, TopExists
    DEF mainVars, StackInv, StackTypes, Counts, SameOwners
  <2>7. UNCHANGED <<phase, late, keep_running>> /\ keep_running' \in BOOLEAN
    BY <1>0 DEF mainVars, StackInv, StackTypes
  <2>. QED  BY <2>3, <2>4, <2>5, <2>6, <2>7, Moved
<1>. QED  BY <1>0, <1>2, <1>3, <1>4, <1>5, <1>6, <1>7, <1>8 DEF ReaderStep

-----------------------------------------------------------------------------
(* The steps of main and of the loops.                                     *)
LEMMA IdleKeeps ==
  ASSUME StackInv, UNCHANGED <<readerVars, ochan, late>>,
         keep_running' \in BOOLEAN, keep_running' => keep_running,
         phase' \in {"boot", "start", "parse", "run", "fini", "delete", "done", "crashed"},
         phase' = phase \/ ({phase, phase'} \cap {"parse", "run"} = {}
                             /\ (phase \notin {"boot", "start"} => phase' \notin {"boot", "start"}))
  PROVE  StackInv'
<1>1. UNCHANGED <<ichan, frames, got, ochan, late>>
  BY DEF readerVars
<1>2. StackTypes'
  BY <1>1 DEF StackInv, StackTypes
<1>3. Counts'
  BY <1>1 DEF StackInv, Counts, Bottom, Base
<1>4. LateInv'
  BY <1>1 DEF StackInv, LateInv, Bottom
<1>. QED  BY <1>2, <1>3, <1>4 DEF StackInv

LEMMA Callees ==
  /\ ReadFrame \in Frame /\ ReadFrame.fn = "read"
  /\ EvalFrame \in Frame /\ EvalFrame.fn = "eval"
  /\ FileFrame \in Frame /\ FileFrame.fn = "file"
  /\ ReplFrame \in Frame /\ ReplFrame.fn = "repl" /\ ReplFrame.at = "read"
<1>1. 0 \in 0..MaxTokens /\ MaxOps \in 0..MaxOps
  BY ReaderAssumption
<1>. QED  BY <1>1 DEF ReadFrame, EvalFrame, FileFrame, ReplFrame, Frame

LEMMA Alone ==
  ASSUME NEW f \in Frame, f.fn \in Tops \cup {"file"}
  PROVE  /\ StackOK(<<f>>) /\ <<f>> # <<>> /\ Bottom(<<f>>) = f.fn
         /\ f.fn = "repl" => (Due(<<f>>) => f.at = "value")
         /\ Owners(<<f>>, Inputs) = (IF f.fn = "parse" THEN 0 ELSE 1)
         /\ Owners(<<f>>, Outputs) = 0
<1>1. /\ <<f>> \in Seq(Frame) /\ <<f>> # <<>> /\ Len(<<f>>) = 1 /\ <<f>>[1] = f
      /\ DOMAIN <<f>> = 1..1 /\ <<f>> = Append(<<>>, f)
  OBVIOUS
<1>2. StackOK(<<f>>)
  <2>1. f.fn \notin Readers
    BY DEF Readers, Tops
  <2>. QED  BY <1>1, <2>1 DEF StackOK
<1>3. ASSUME NEW F PROVE Owners(<<f>>, F) = 0 + (IF f.fn \in F THEN 1 ELSE 0)
  <2>1. <<>> \in Seq(Frame)
    OBVIOUS
  <2>2. Owners(Append(<<>>, f), F) = Owners(<<>>, F) + (IF f.fn \in F THEN 1 ELSE 0)
    BY <2>1, OwnersAppend
  <2>. QED  BY <2>2, <1>1, OwnersEmpty
<1>4. /\ Owners(<<f>>, Inputs) = (IF f.fn = "parse" THEN 0 ELSE 1)
      /\ Owners(<<f>>, Outputs) = 0
  BY <1>3 DEF Inputs, Outputs, Tops
<1>5. Bottom(<<f>>) = f.fn /\ (f.fn = "repl" => (Due(<<f>>) => f.at = "value"))
  BY <1>1 DEF Bottom, Due
<1>. QED  BY <1>1, <1>2, <1>4, <1>5

(* main begins a loop: the only function, with the contexts it pushed.     *)
LEMMA StartKeeps ==
  ASSUME StackInv, phase \in {"start", "parse"}, phase' = "run",
         NEW f \in Frame, f.fn \in {"repl", "expr", "file"},
         f.fn = "repl" => f.at = "read", frames' = <<f>>,
         NEW n \in Nat, NEW e \in BOOLEAN, ichan' = <<Channel(n, e)>>,
         ochan' = 1, UNCHANGED <<got, keep_running, late>>
  PROVE  StackInv'
<1>1. Channel(n, e) \in Context
  BY Numbers DEF Channel, Context
<1>2. ichan' \in Seq(Context) /\ Len(ichan') = 1
  BY <1>1
<1>3. /\ StackOK(<<f>>) /\ <<f>> # <<>> /\ Bottom(<<f>>) = f.fn
      /\ Owners(<<f>>, Inputs) = 1 /\ Owners(<<f>>, Outputs) = 0
  BY Alone DEF Tops
<1>4. ~Due(<<f>>) /\ Bottom(frames)' = f.fn /\ Base' = 1
  BY <1>3, Alone DEF Due, Bottom, Base, Tops
<1>5. StackTypes'
  BY <1>2, <1>3 DEF StackInv, StackTypes
<1>6. Counts'
  BY <1>2, <1>3, <1>4 DEF Counts
<1>7. LateInv'
  BY <1>4 DEF StackInv, LateInv
<1>. QED  BY <1>5, <1>6, <1>7 DEF StackInv

(* The parse of -e begins, with no context; when it ends those it opened   *)
(* are closed again.                                                       *)
LEMMA ParseFrames ==
  ASSUME NEW f \in Frame, f.fn = "parse"
  PROVE  /\ f.toks \in 0..MaxTokens /\ f.left \in 0..MaxExprs
         /\ ExprFrame(f.left) \in Frame /\ ExprFrame(f.left).fn = "expr"
         /\ f.left < MaxExprs => /\ [f EXCEPT !.left = @ + 1] \in Frame
                                 /\ [f EXCEPT !.left = @ + 1].fn = "parse"
         /\ f.toks < MaxTokens => /\ [f EXCEPT !.toks = @ + 1] \in Frame
                                  /\ [f EXCEPT !.toks = @ + 1].fn = "parse"
<1>1. f \in [fn : {"parse"}, toks : 0..MaxTokens, left : 0..MaxExprs]
  BY DEF Frame
<1>2. MaxTokens \in Nat /\ MaxExprs \in Nat
  BY ReaderAssumption, SessionAssumption
<1>3. ExprFrame(f.left) \in Frame /\ ExprFrame(f.left).fn = "expr"
  BY <1>1 DEF ExprFrame, Frame
<1>4. ASSUME f.left < MaxExprs
      PROVE  [f EXCEPT !.left = @ + 1] \in Frame /\ [f EXCEPT !.left = @ + 1].fn = "parse"
  <2>1. f.left + 1 \in 0..MaxExprs
    BY <1>1, <1>2, <1>4
  <2>. QED  BY <1>1, <2>1 DEF Frame
<1>5. ASSUME f.toks < MaxTokens
      PROVE  [f EXCEPT !.toks = @ + 1] \in Frame /\ [f EXCEPT !.toks = @ + 1].fn = "parse"
  <2>1. f.toks + 1 \in 0..MaxTokens
    BY <1>1, <1>2, <1>5
  <2>. QED  BY <1>1, <2>1 DEF Frame
<1>. QED  BY <1>1, <1>3, <1>4, <1>5

LEMMA StartExprKeeps == ASSUME StackInv, StartExpr PROVE StackInv'
<1> DEFINE f == ParseFrame
<1>1. f \in Frame /\ f.fn = "parse"
  BY ReaderAssumption, SessionAssumption DEF ParseFrame, Frame
<1>2. /\ phase = "start" /\ phase' = "parse" /\ frames' = <<f>>
      /\ UNCHANGED <<ichan, got, keep_running, ochan, late>>
  BY DEF StartExpr
<1>. HIDE DEF f
<1>3. /\ StackOK(<<f>>) /\ <<f>> # <<>> /\ Bottom(<<f>>) = "parse"
      /\ Owners(<<f>>, Inputs) = 0 /\ Owners(<<f>>, Outputs) = 0
  BY <1>1, Alone DEF Tops
<1>4. frames = <<>> /\ Len(ichan) = 0 /\ ochan = 0
  <2>1. frames = <<>>
    BY <1>2 DEF StackInv, Counts
  <2>2. Owners(frames, Inputs) = 0 /\ Owners(frames, Outputs) = 0 /\ Base = 0
    BY <1>2, <2>1, OwnersEmpty DEF Base
  <2>. QED  BY <2>1, <2>2 DEF StackInv, Counts
<1>5. ~Due(<<f>>) /\ Bottom(frames)' = "parse" /\ Base' = 0
  BY <1>1, <1>2, <1>3 DEF Due, Bottom, Base
<1>6. StackTypes'
  BY <1>2, <1>3 DEF StackInv, StackTypes
<1>7. Counts'
  BY <1>2, <1>3, <1>4, <1>5 DEF Counts
<1>8. LateInv'
  BY <1>2, <1>5 DEF StackInv, LateInv
<1>. QED  BY <1>6, <1>7, <1>8 DEF StackInv

(* A frame of main is the only one on the stack when it runs.              *)
LEMMA OnlyFrame ==
  ASSUME NEW s, StackOK(s), s # <<>>, Last(s).fn \in Tops
  PROVE  s = <<Last(s)>> /\ Bottom(s) = Last(s).fn
<1>1. s \in Seq(Frame)
  BY DEF StackOK
<1>2. /\ Len(s) \in Nat \ {0} /\ DOMAIN s = 1..Len(s) /\ Last(s) = s[Len(s)]
  BY <1>1, FrontLast
<1>3. Len(s) = 1
  BY <1>2 DEF StackOK
<1>. QED  BY <1>1, <1>2, <1>3 DEF Bottom

LEMMA NoContextYet ==
  ASSUME StackInv, Running("parse")
  PROVE  /\ frames # <<>> /\ Last(frames) \in Frame /\ Last(frames).fn = "parse"
         /\ phase = "parse" /\ ichan = <<>> /\ ochan = 0
<1>1. /\ frames # <<>> /\ Last(frames).fn = "parse" /\ Last(frames) \in Frame
      /\ StackOK(frames)
  BY TopExists DEF Running, StackInv, StackTypes
<1>2. frames = <<Last(frames)>> /\ Bottom(frames) = "parse"
  BY <1>1, OnlyFrame DEF Tops
<1>3. Owners(frames, Inputs) = 0 /\ Owners(frames, Outputs) = 0
  <2>1. /\ Owners(<<Last(frames)>>, Inputs) = 0
        /\ Owners(<<Last(frames)>>, Outputs) = 0
    BY <1>1, Alone DEF Tops
  <2>. QED  BY <2>1, <1>2
<1>4. phase = "parse" /\ Base = 0
  BY <1>1, <1>2 DEF StackInv, Counts, Base
<1>5. Len(ichan) = 0 /\ ochan = 0 /\ ichan \in Seq(Context)
  BY <1>3, <1>4 DEF StackInv, StackTypes, Counts
<1>. QED  BY <1>1, <1>4, <1>5

LEMMA ParseEndsKeeps == ASSUME StackInv, ParseEnds PROVE StackInv'
<1>1. /\ Last(frames) \in Frame /\ Last(frames).fn = "parse"
      /\ phase = "parse" /\ ichan = <<>> /\ ochan = 0
  BY NoContextYet DEF ParseEnds
<1>2. /\ ExprFrame(Last(frames).left) \in Frame
      /\ ExprFrame(Last(frames).left).fn = "expr"
  BY <1>1, ParseFrames
<1>3. ichan' = <<Channel(1, TRUE)>> /\ ochan' = 1
  BY <1>1 DEF ParseEnds
<1>4. /\ phase' = "run" /\ frames' = <<ExprFrame(Last(frames).left)>>
      /\ UNCHANGED <<got, keep_running, late>>
  BY DEF ParseEnds
<1>5. ASSUME NEW f \in Frame, f.fn = "expr", frames' = <<f>> PROVE StackInv'
  BY <1>1, <1>3, <1>4, <1>5, StartKeeps
<1>. QED  BY <1>2, <1>4, <1>5

LEMMA ParseKeeps == ASSUME StackInv, ParseForm \/ ParseEval PROVE StackInv'
<1>1. /\ frames # <<>> /\ Last(frames) \in Frame /\ Last(frames).fn = "parse"
  BY NoContextYet DEF ParseForm, ParseEval
<1>2. StackTypes /\ UNCHANGED <<ichan, got, keep_running, phase, ochan, late>>
  BY DEF ParseForm, ParseEval, mainVars, StackInv
<1>3. CASE ParseForm
  <2>1. PICK g \in Frame : g.fn = "parse" /\ Goto(g)
    BY <1>1, <1>3, ParseFrames DEF ParseForm
  <2>. QED  BY <1>1, <1>2, <2>1, GotoKeeps DEF StackTypes
<1>4. CASE ParseEval
  <2>1. PICK g \in Frame : g.fn = "parse" /\ GotoCall(g, EvalFrame)
    BY <1>1, <1>4, ParseFrames DEF ParseEval
  <2>. QED  BY <1>1, <1>2, <2>1, Callees, CallKeeps
<1>. QED  BY <1>3, <1>4

(* The last function returns to main, which pops the contexts it pushed.   *)
LEMMA EndKeeps ==
  ASSUME StackInv, frames # <<>>, Front(frames) = <<>>,
         Last(frames).fn \in {"repl", "expr", "file"},
         frames' = <<>>, ichan' = Front(ichan), ochan' = ochan - 1, phase' = "fini",
         UNCHANGED <<got, keep_running, late>>
  PROVE  StackInv'
<1>1. StackOK(frames)
  BY DEF StackInv, StackTypes
<1>2. OneMore(Front(frames), frames, Last(frames).fn)
  BY <1>1, Popped
<1>3. Owners(<<>>, Inputs) = 0 /\ Owners(<<>>, Outputs) = 0
  BY OwnersEmpty
<1>4. Owners(frames, Inputs) = 1 /\ Owners(frames, Outputs) = 0
  BY <1>2, <1>3 DEF OneMore, Inputs, Outputs
<1>11. Bottom(frames) = Last(frames).fn
  <2>1. /\ Len(frames) \in Nat \ {0} /\ Len(Front(frames)) = Len(frames) - 1
        /\ Last(frames) = frames[Len(frames)]
    BY <1>1, FrontLast DEF StackOK
  <2>2. Len(frames) = 1
    BY <2>1
  <2>. QED  BY <2>1, <2>2 DEF Bottom
<1>12. phase = "run" /\ Base = 1
  BY <1>11, TopExists DEF StackInv, Counts, Base
<1>5. Len(ichan) = 1 /\ ochan = 1
  BY <1>4, <1>12, TopExists DEF StackInv, Counts
<1>6. ichan' \in Seq(Context) /\ Len(ichan') = 0
  BY <1>5, ContextExists DEF Inputs
<1>7. StackOK(<<>>) /\ ~Due(<<>>)
  BY DEF StackOK, Due
<1>8. StackTypes'
  BY <1>5, <1>6, <1>7 DEF StackInv, StackTypes
<1>9. Counts'
  BY <1>3, <1>5, <1>6 DEF Counts, Base
<1>10. LateInv'
  BY <1>7 DEF StackInv, LateInv
<1>. QED  BY <1>8, <1>9, <1>10 DEF StackInv

(* A call from a loop, which goes on when the callee returns.              *)
LEMMA LoopCalls ==
  ASSUME StackInv, frames # <<>>, late = 0 \/ Last(frames).fn # "repl",
         Last(frames).fn \in Inputs, Call(ReadFrame), UNCHANGED <<ichan, got, mainVars>>
  PROVE  StackInv'
<1>1. Last(frames) \in Frame /\ frames = Append(Front(frames), Last(frames))
  BY TopExists, FrontLast
<1>2. GotoCall(Last(frames), ReadFrame)
  BY <1>1 DEF GotoCall, Call
<1>3. UNCHANGED <<phase, ochan, keep_running, late>> /\ ichan # <<>>
  BY ContextExists DEF mainVars
<1>. QED  BY <1>1, <1>2, <1>3, Callees, CallKeeps

(* The REPL loop: the form that was due when the signal came is evaluated, *)
(* and counted, before keep_running is looked at again.                    *)
LEMMA RunEvalKeeps == ASSUME StackInv, RunEval PROVE StackInv'
<1> DEFINE g == At("read")
           e == EvalFrame
           t == Append(Append(Front(frames), g), e)
<1>1. /\ frames # <<>> /\ Last(frames).fn = "repl" /\ Last(frames).at = "value"
      /\ frames' = t /\ UNCHANGED <<ichan, got, phase, keep_running, ochan>>
      /\ CountLate
  BY DEF RunEval, Here, Running, GotoCall
<1>2. /\ StackOK(frames) /\ Last(frames) \in Frame /\ frames \in Seq(Frame)
  BY <1>1, TopExists DEF StackInv, StackTypes
<1>3. g \in Frame /\ g.fn = "repl" /\ g.at = "read"
  BY <1>1, <1>2 DEF At, Frame
<1>e. e \in Frame /\ e.fn = "eval" /\ e.fn \notin Tops /\ e.fn \notin Readers
  BY Callees DEF Tops, Readers
<1>. HIDE DEF g, e
<1>4. Front(frames) = <<>> /\ Due(frames)
  <2>1. /\ Len(frames) \in Nat \ {0} /\ DOMAIN frames = 1..Len(frames)
        /\ Last(frames) = frames[Len(frames)]
    BY <1>1, <1>2, FrontLast
  <2>2. Len(frames) \in DOMAIN frames /\ frames[Len(frames)].fn \in Tops
    BY <2>1, <1>1 DEF Tops
  <2>3. Len(frames) = 1
    BY <2>2, <1>2 DEF StackOK
  <2>. QED  BY <2>1, <2>3, <1>1, <1>2, Popped DEF Due, Tops
<1>5. /\ StackOK(t) /\ t # <<>> /\ OneMore(frames, t, e.fn)
      /\ Bottom(t) = Bottom(frames)
  <2>1. g.fn = Last(frames).fn /\ MayCall(frames, e)
    BY <1>1, <1>3, <1>e DEF MayCall
  <2>2. t = Append(Append(Front(frames), g), e)
    OBVIOUS
  <2>. HIDE DEF t
  <2>3. Calls(frames, g, e, t)
    BY <1>1, <1>2, <1>3, <1>e, <2>1, <2>2 DEF Calls
  <2>. QED  BY <2>3, Called
<1>6. ~Due(t)
  <2>1. <<g>> \in Seq(Frame) /\ Len(<<g>>) = 1 /\ <<g>>[1] = g /\ Append(<<>>, g) = <<g>>
    BY <1>3
  <2>2. Append(<<g>>, e)[1] = g /\ Append(<<g>>, e)[2] = e
    BY <2>1, <1>e
  <2>3. t[1] = g /\ t[2] = e
    BY <2>1, <2>2, <1>4
  <2>. QED  BY <2>3, <1>3, <1>e DEF Due
<1>. HIDE DEF t
<1>7. Owners(t, Inputs) = Owners(frames, Inputs) /\ Owners(t, Outputs) = Owners(frames, Outputs)
  <2>1. \A F : Owners(frames, F) \in Nat
    BY <1>2, OwnersNat
  <2>. QED  BY <2>1, <1>5, <1>e DEF OneMore, Inputs, Outputs
<1>8. StackTypes'
  BY <1>1, <1>5 DEF StackInv, StackTypes
<1>11. /\ phase' = phase /\ Base' = Base /\ Bottom(frames)' = Bottom(frames)
       /\ Bottom(frames) = "repl"
  <2>1. Bottom(frames) = "repl"
    BY <1>1, <1>2, OnlyFrame DEF Tops
  <2>. QED  BY <2>1, <1>1, <1>5 DEF Bottom, Base
<1>9. Counts'
  BY <1>1, <1>5, <1>7, <1>11 DEF StackInv, Counts
<1>10. LateInv'
  BY <1>1, <1>4, <1>6, <1>11 DEF StackInv, StackTypes, Counts, LateInv, CountLate
<1>. QED  BY <1>8, <1>9, <1>10 DEF StackInv

(* The loop over a file: as the loop of main it counts what it begins.     *)
LEMMA FileEvalKeeps == ASSUME StackInv, FileEval PROVE StackInv'
<1> DEFINE g == At("read")
           e == EvalFrame
<1>1. /\ frames # <<>> /\ Last(frames).fn = "file" /\ Last(frames) \in Frame
      /\ StackOK(frames)
  BY TopExists DEF FileEval, Here, Running, StackInv, StackTypes
<1>2. g \in Frame /\ g.fn = "file"
  BY <1>1 DEF At, Frame
<1>3. e \in Frame /\ e.fn = "eval" /\ e.fn \notin Tops /\ MayCall(frames, e)
  BY Callees DEF Tops, Readers, MayCall
<1>. HIDE DEF g, e
<1>4. GotoCall(g, e) /\ UNCHANGED <<ichan, got, phase, ochan, keep_running>>
  BY DEF FileEval, g, e
<1>5. CASE late' = late
  BY <1>1, <1>2, <1>3, <1>4, <1>5, CallKeeps
<1>6. CASE late' # late
  <2>1. Len(frames) = 1 /\ CountLate
    BY <1>6 DEF FileEval
  <2>2. Bottom(frames) = "file"
    BY <1>1, <2>1, FrontLast DEF StackOK, Bottom
  <2>3. Calls(frames, g, e, frames')
    BY <1>1, <1>2, <1>3, <1>4 DEF Calls, GotoCall
  <2>4. /\ StackOK(frames') /\ frames' # <<>> /\ OneMore(frames, frames', e.fn)
        /\ Bottom(frames') = Bottom(frames)
    BY <2>3, Called
  <2>5. /\ Owners(frames', Inputs) = Owners(frames, Inputs)
        /\ Owners(frames', Outputs) = Owners(frames, Outputs)
    <3>1. \A F : Owners(frames, F) \in Nat
      BY <1>1, OwnersNat
    <3>. QED  BY <3>1, <2>4, <1>3 DEF OneMore, Inputs, Outputs
  <2>6. phase' = phase /\ Base' = Base /\ Bottom(frames)' = "file"
    BY <1>4, <2>2, <2>4 DEF Bottom, Base
  <2>7. ~Due(frames')
    BY <2>6 DEF Due, Bottom
  <2>8. StackTypes'
    BY <1>4, <2>4 DEF StackInv, StackTypes
  <2>9. Counts'
    BY <1>1, <1>4, <2>2, <2>4, <2>5, <2>6 DEF StackInv, Counts
  <2>10. phase = "run" /\ late' \in 0..2 /\ (keep_running => late' = 0)
    BY <1>1, <2>1, <2>2 DEF StackInv, Counts, LateInv, CountLate
  <2>11. LateInv'
    <3>1. Due(frames)' <=> Due(frames')
      BY DEF Due
    <3>. QED  BY <1>4, <2>4, <2>6, <2>7, <2>10, <3>1, <2>2 DEF LateInv
  <2>. QED  BY <2>8, <2>9, <2>11 DEF StackInv
<1>. QED  BY <1>5, <1>6

LEMMA LoopsKeep ==
  ASSUME StackInv, RunRead \/ ExprEval \/ FileRead \/ FileEval
  PROVE  StackInv'
<1>1. CASE RunRead
  <2>1. frames # <<>> /\ late = 0 /\ Last(frames).fn \in Inputs
    BY <1>1 DEF RunRead, Here, Running, StackInv, LateInv, Inputs
  <2>. QED  BY <1>1, <2>1, LoopCalls DEF RunRead
<1>2. CASE FileRead
  <2>1. frames # <<>> /\ Last(frames).fn # "repl" /\ Last(frames).fn \in Inputs
    BY <1>2 DEF FileRead, Here, Running, Inputs
  <2>. QED  BY <1>2, <2>1, LoopCalls DEF FileRead
<1>3. CASE FileEval
  BY <1>3, FileEvalKeeps
<1>4. CASE ExprEval
  <2> DEFINE g == [Last(frames) EXCEPT !.left = @ - 1]
  <2>1. /\ frames # <<>> /\ Last(frames).fn = "expr" /\ Last(frames) \in Frame
        /\ Last(frames).left > 0 /\ keep_running
    BY <1>4, TopExists DEF ExprEval, Running
  <2>2. g \in Frame /\ g.fn = "expr"
    <3>1. Last(frames) \in [fn : {"expr"}, left : 0..MaxExprs]
      BY <2>1 DEF Frame
    <3>2. Last(frames).left - 1 \in 0..MaxExprs
      BY <2>1, <3>1, SessionAssumption
    <3>. QED  BY <3>1, <3>2 DEF Frame
  <2>3. GotoCall(g, EvalFrame) /\ UNCHANGED <<ichan, got, phase, ochan, keep_running>>
    BY <1>4 DEF ExprEval
  <2>4. late' = late
    BY <1>4, <2>1 DEF ExprEval, CountLate
  <2>. HIDE DEF g
  <2>. QED  BY <2>1, <2>2, <2>3, <2>4, Callees, CallKeeps
<1>. QED  BY <1>1, <1>2, <1>3, <1>4

-----------------------------------------------------------------------------
(* The steps of a form.                                                    *)
LEMMA CountedFrame ==
  ASSUME StackInv, Op
  PROVE  /\ frames # <<>> /\ Last(frames).fn = "eval"
         /\ Counted \in Frame /\ Counted.fn = "eval"
<1>1. /\ frames # <<>> /\ Last(frames).fn = "eval" /\ Last(frames) \in Frame
      /\ Last(frames).ops > 0
  BY TopExists DEF Op, Running
<1>2. Last(frames) \in [fn : {"eval"}, ops : 0..MaxOps]
  BY <1>1 DEF Frame
<1>3. Last(frames).ops - 1 \in 0..MaxOps
  BY <1>1, <1>2, ReaderAssumption
<1>4. Counted \in [fn : {"eval"}, ops : 0..MaxOps]
  BY <1>2, <1>3 DEF Counted
<1>. QED  BY <1>1, <1>4 DEF Frame

(* An operation that calls nothing.                                        *)
LEMMA OpKeeps ==
  ASSUME StackInv, Op, Goto(Counted),
         ichan' \in Seq(Context), Len(ichan') = Len(ichan),
         keep_running' \in BOOLEAN, keep_running' => keep_running,
         UNCHANGED <<got, phase, ochan, late>>
  PROVE  StackInv'
<1>1. /\ frames # <<>> /\ Last(frames).fn = "eval"
      /\ Counted \in Frame /\ Counted.fn = "eval"
  BY CountedFrame
<1>2. got' \in Nat \X Number
  BY DEF StackInv, StackTypes
<1>3. ASSUME NEW g \in Frame, g.fn = "eval", Goto(g) PROVE StackInv'
  <2>1. g.fn = Last(frames).fn /\ g.fn # "repl"
    BY <1>1, <1>3
  <2>2. UNCHANGED <<phase, ochan, late>>
    OBVIOUS
  <2>. QED  BY <1>1, <1>2, <1>3, <2>1, <2>2, GotoKeeps, SMTT(30)
<1>. QED  BY <1>1, <1>3

(* load, in and out: a context is opened, or the file does not open.       *)
LEMMA EvalLoadKeeps == ASSUME StackInv, EvalLoad PROVE StackInv'
<1>1. /\ frames # <<>> /\ Last(frames).fn = "eval"
      /\ Counted \in Frame /\ Counted.fn = "eval"
  BY CountedFrame DEF EvalLoad
<1>2. UNCHANGED <<got, phase, ochan, keep_running, late>> /\ Op
  BY DEF EvalLoad, mainVars
<1>3. StackTypes
  BY DEF StackInv
<1>4. CASE UNCHANGED ichan /\ Goto(Counted)
  BY <1>2, <1>3, <1>4, OpKeeps DEF StackTypes
<1>5. CASE /\ \E n \in 0..MaxLines : ichan' = Append(ichan, Channel(n, FALSE))
           /\ GotoCall(Counted, FileFrame)
  <2>1. ichan' \in Seq(Context) /\ Len(ichan') = Len(ichan) + 1
    <3>1. PICK n \in 0..MaxLines : ichan' = Append(ichan, Channel(n, FALSE))
      BY <1>5
    <3>2. n \in Nat
      BY <3>1, SessionAssumption
    <3>. QED  BY <3>1, <3>2, ChannelAdded
  <2>2. /\ StackOK(frames') /\ frames' # <<>> /\ OneMore(frames, frames', "file")
        /\ Bottom(frames') = Bottom(frames) /\ (Due(frames') => Due(frames))
    <3>1. ASSUME NEW g \in Frame, g.fn = "eval", NEW f \in Frame, f.fn = "file",
                 GotoCall(g, f)
          PROVE  /\ StackOK(frames') /\ frames' # <<>> /\ OneMore(frames, frames', "file")
                 /\ Bottom(frames') = Bottom(frames) /\ (Due(frames') => Due(frames))
      <4>1. Calls(frames, g, f, frames')
        BY <1>1, <1>3, <3>1 DEF StackTypes, GotoCall, Tops, Readers, MayCall, Calls
      <4>2. /\ StackOK(frames') /\ frames' # <<>> /\ OneMore(frames, frames', f.fn)
            /\ Bottom(frames') = Bottom(frames)
            /\ (Due(frames') /\ ~Due(frames)) => g.fn = "repl"
        BY <4>1, Called
      <4>. QED  BY <3>1, <4>2
    <3>. QED  BY <3>1, <1>1, <1>5, Callees
  <2>3. \A F : Owners(frames, F) \in Nat
    BY <1>3, OwnersNat DEF StackTypes
  <2>4. /\ Owners(frames', Inputs) = Len(ichan')
        /\ ochan' \in Nat /\ ochan' = Owners(frames', Outputs) + Base
    BY <1>1, <1>2, <2>1, <2>2, <2>3, TopExists
    DEF StackInv, StackTypes, Counts, OneMore, Inputs, Outputs
  <2>. QED  BY <1>1, <1>2, <1>3, <2>1, <2>2, <2>4, Moved DEF StackTypes
<1>. QED  BY <1>4, <1>5 DEF EvalLoad

LEMMA EvalInOutKeeps == ASSUME StackInv, EvalIn \/ EvalOut PROVE StackInv'
<1>1. /\ frames # <<>> /\ Last(frames).fn = "eval" /\ Op
      /\ Counted \in Frame /\ Counted.fn = "eval"
  BY CountedFrame DEF EvalIn, EvalOut
<1>2. UNCHANGED <<got, phase, keep_running, late>>
  BY DEF EvalIn, EvalOut, mainVars
<1>3. StackTypes
  BY DEF StackInv
<1>4. CASE UNCHANGED <<ichan, ochan>> /\ Goto(Counted)
  BY <1>1, <1>2, <1>3, <1>4, OpKeeps DEF StackTypes
<1>5. ASSUME NEW fn \in {"in", "out"},
             frames' = Front(frames) \o <<Counted, [fn |-> fn], EvalFrame>>
      PROVE  /\ StackOK(frames') /\ frames' # <<>> /\ OneMore(frames, frames', fn)
             /\ Bottom(frames') = Bottom(frames) /\ (Due(frames') => Due(frames))
  <2>1. ASSUME NEW g \in Frame, g.fn = "eval", NEW t,
               t = Front(frames) \o <<g, [fn |-> fn], EvalFrame>>
        PROVE  /\ StackOK(t) /\ t # <<>> /\ OneMore(frames, t, fn)
               /\ Bottom(t) = Bottom(frames) /\ (Due(t) => Due(frames))
    <3>1. StackOK(frames)
      BY <1>3 DEF StackTypes
    <3>2. /\ StackOK(t) /\ t # <<>> /\ OneMore(frames, t, fn)
          /\ Bottom(t) = Bottom(frames)
      BY <1>1, <2>1, <3>1, CalledTwice
    <3>3. ASSUME NEW s, StackOK(s), s # <<>>, Last(s).fn = "eval",
                 t = Front(s) \o <<g, [fn |-> fn], EvalFrame>>
          PROVE  Due(t) => Due(s)
      BY <2>1, <3>3, CalledTwice
    <3>. QED  BY <1>1, <2>1, <3>1, <3>2, <3>3
  <2>. QED  BY <1>1, <1>5, <2>1
<1>6. \A F : Owners(frames, F) \in Nat
  BY <1>3, OwnersNat DEF StackTypes
<1>7. CASE /\ \E n \in 0..MaxLines : ichan' = Append(ichan, Channel(n, FALSE))
           /\ frames' = Front(frames) \o <<Counted, [fn |-> "in"], EvalFrame>>
           /\ UNCHANGED ochan
  <2>1. ichan' \in Seq(Context) /\ Len(ichan') = Len(ichan) + 1
    <3>1. PICK n \in 0..MaxLines : ichan' = Append(ichan, Channel(n, FALSE))
      BY <1>7
    <3>2. n \in Nat
      BY <3>1, SessionAssumption
    <3>. QED  BY <3>1, <3>2, ChannelAdded
  <2>2. /\ StackOK(frames') /\ frames' # <<>> /\ OneMore(frames, frames', "in")
        /\ Bottom(frames') = Bottom(frames) /\ (Due(frames') => Due(frames))
    BY <1>5, <1>7
  <2>3. /\ Owners(frames', Inputs) = Owners(frames, Inputs) + 1
        /\ Owners(frames', Outputs) = Owners(frames, Outputs)
    BY <1>6, <2>2 DEF OneMore, Inputs, Outputs
  <2>4. /\ Owners(frames', Inputs) = Len(ichan')
        /\ ochan' \in Nat /\ ochan' = Owners(frames', Outputs) + Base
    BY <1>1, <1>7, <2>1, <2>3, TopExists DEF StackInv, StackTypes, Counts
  <2>. QED  BY <1>1, <1>2, <1>3, <2>1, <2>2, <2>4, Moved DEF StackTypes
<1>8. CASE /\ ochan' = ochan + 1 /\ UNCHANGED ichan
           /\ frames' = Front(frames) \o <<Counted, [fn |-> "out"], EvalFrame>>
  <2>1. ichan' \in Seq(Context)
    BY <1>3, <1>8 DEF StackTypes
  <2>2. /\ StackOK(frames') /\ frames' # <<>> /\ OneMore(frames, frames', "out")
        /\ Bottom(frames') = Bottom(frames) /\ (Due(frames') => Due(frames))
    BY <1>5, <1>8
  <2>3. /\ Owners(frames', Inputs) = Len(ichan')
        /\ ochan' \in Nat /\ ochan' = Owners(frames', Outputs) + Base
    BY <1>1, <1>6, <1>8, <2>1, <2>2, TopExists
    DEF StackInv, StackTypes, Counts, OneMore, Inputs, Outputs
  <2>. QED  BY <1>1, <1>2, <1>3, <2>1, <2>2, <2>3, Moved DEF StackTypes
<1>9. CASE EvalIn
  BY <1>9, <1>4, <1>7 DEF EvalIn, mainVars
<1>10. CASE EvalOut
  BY <1>10, <1>4, <1>8 DEF EvalOut
<1>. QED  BY <1>9, <1>10

LEMMA OpsKeep ==
  ASSUME StackInv, EvalQuit \/ EvalRead \/ EvalReadline \/ EvalModule
  PROVE  StackInv'
<1>1. StackTypes
  BY DEF StackInv
<1>2. CASE EvalQuit
  BY <1>1, <1>2, OpKeeps DEF EvalQuit, StackTypes
<1>3. CASE EvalModule
  BY <1>1, <1>3, OpKeeps DEF EvalModule, StackTypes
<1>4. CASE EvalRead \/ EvalReadline
  <2>1. /\ frames # <<>> /\ Last(frames).fn = "eval" /\ ichan # <<>>
        /\ Counted \in Frame /\ Counted.fn = "eval"
    BY <1>4, CountedFrame DEF EvalRead, EvalReadline
  <2>2. UNCHANGED <<ichan, got, phase, ochan, late, keep_running>>
    BY <1>4 DEF EvalRead, EvalReadline, mainVars
  <2>3. ASSUME NEW g \in Frame, g.fn = "eval", NEW f \in Frame,
               f.fn \in {"read", "readline"}, GotoCall(g, f)
        PROVE  StackInv'
    BY <2>1, <2>2, <2>3, CallKeeps
  <2>4. [fn |-> "readline"] \in Frame
    BY DEF Frame
  <2>5. GotoCall(Counted, ReadFrame) \/ GotoCall(Counted, [fn |-> "readline"])
    BY <1>4 DEF EvalRead, EvalReadline
  <2>. QED  BY <2>1, <2>3, <2>4, <2>5, Callees
<1>. QED  BY <1>2, <1>3, <1>4

(* The returns to a form.                                                  *)
LEMMA ReturnsKeep ==
  ASSUME StackInv, EvalReturn \/ InEnd \/ OutEnd \/ ReadlineEnd
  PROVE  StackInv'
<1>1. frames # <<>> /\ frames' = Front(frames) /\ UNCHANGED <<got, phase, late, keep_running>>
  BY DEF EvalReturn, InEnd, OutEnd, ReadlineEnd, Running, mainVars
<1>2. Last(frames).fn \in {"eval", "in", "out", "readline"} /\ StackOK(frames)
  BY DEF EvalReturn, InEnd, OutEnd, ReadlineEnd, Running, StackInv, StackTypes
<1>3. frames' # <<>>
  BY <1>1, <1>2, Popped DEF Tops
<1>4. /\ ichan' \in Seq(Context)
      /\ Len(ichan') = IF Last(frames).fn \in {"in", "file"}
                       THEN Len(ichan) - 1 ELSE Len(ichan)
      /\ ochan' = IF Last(frames).fn = "out" THEN ochan - 1 ELSE ochan
  <2>1. CASE EvalReturn \/ OutEnd
    BY <1>1, <2>1
    DEF EvalReturn, OutEnd, Running, mainVars, StackInv, StackTypes
  <2>2. CASE InEnd
    BY <1>1, <2>2, ContextExists DEF InEnd, Running, mainVars, Inputs
  <2>3. CASE ReadlineEnd
    <3>1. Last(frames).fn = "readline" /\ ochan' = ochan
      BY <2>3 DEF ReadlineEnd, Running, mainVars
    <3>2. Top \in Context
      BY <1>1, <3>1, ContextExists DEF Readers
    <3>3. [Top EXCEPT !.lines = IF @ = 0 \/ Top.endless THEN @ ELSE @ - 1] \in Context
      BY <3>2 DEF Context
    <3>4. ichan' \in Seq(Context) /\ Len(ichan') = Len(ichan)
      BY <1>1, <2>3, <3>1, <3>3, TopKept DEF ReadlineEnd, Readers
    <3>. QED  BY <3>1, <3>4
  <2>. QED  BY <2>1, <2>2, <2>3
<1>. QED  BY <1>1, <1>2, <1>3, <1>4, PopKeeps

LEMMA EndsKeep == ASSUME StackInv, LoopEnds \/ FileEnd PROVE StackInv'
<1>1. /\ frames # <<>> /\ ichan' = Front(ichan) /\ UNCHANGED <<got, late, keep_running>>
      /\ StackOK(frames)
  BY DEF LoopEnds, FileEnd, Running, Here, StackInv, StackTypes
<1>2. CASE LoopEnds
  <2>1. Last(frames).fn \in {"repl", "expr"}
    BY <1>2 DEF LoopEnds, Running, Here
  <2>2. Front(frames) = <<>>
    BY <1>1, <2>1, Popped DEF Tops
  <2>. QED  BY <1>1, <1>2, <2>1, <2>2, EndKeeps DEF LoopEnds
<1>3. CASE FileEnd
  <2>1. Last(frames).fn = "file"
    BY <1>3 DEF FileEnd, Running, Here
  <2>2. Front(frames) = <<>> <=> Len(frames) = 1
    <3>1. /\ Front(frames) \in Seq(Frame) /\ Len(frames) \in Nat
          /\ Len(Front(frames)) = Len(frames) - 1
      BY <1>1, FrontLast DEF StackOK
    <3>. QED  BY <3>1
  <2>3. CASE Len(frames) = 1
    BY <1>1, <1>3, <2>1, <2>2, <2>3, EndKeeps DEF FileEnd
  <2>4. CASE Len(frames) # 1
    <3>1. frames' = Front(frames) /\ frames' # <<>> /\ UNCHANGED <<phase, ochan>>
      BY <1>3, <2>2, <2>4 DEF FileEnd
    <3>2. ichan' \in Seq(Context) /\ Len(ichan') = Len(ichan) - 1
      BY <1>1, <2>1, ContextExists DEF Inputs
    <3>. QED  BY <1>1, <2>1, <3>1, <3>2, PopKeeps
  <2>. QED  BY <2>3, <2>4
<1>. QED  BY <1>2, <1>3

LEMMA StartsKeep == ASSUME StackInv, StartRepl \/ StartFile PROVE StackInv'
<1>1. /\ phase = "start" /\ phase' = "run" /\ ochan' = 1
      /\ UNCHANGED <<got, keep_running, late>>
  BY DEF StartRepl, StartFile
<1>2. \E n \in Nat, e \in BOOLEAN : ichan' = <<Channel(n, e)>>
  <2>1. CASE StartRepl
    <3>1. ichan' = <<Channel(1, TRUE)>>
      BY <2>1 DEF StartRepl
    <3>. QED  BY <3>1
  <2>2. CASE StartFile
    <3>1. PICK n \in 0..MaxLines : ichan' = <<Channel(n, FALSE)>>
      BY <2>2 DEF StartFile
    <3>2. n \in Nat
      BY <3>1, SessionAssumption
    <3>. QED  BY <3>1, <3>2
  <2>. QED  BY <2>1, <2>2
<1>3. \E f \in Frame : /\ f.fn \in {"repl", "file"}
                       /\ f.fn = "repl" => f.at = "read"
                       /\ frames' = <<f>>
  BY Callees DEF StartRepl, StartFile
<1>. QED  BY <1>1, <1>2, <1>3, StartKeeps

(* The process dies: nothing is on its stack any more.                     *)
LEMMA SegfaultKeeps == ASSUME StackInv, Segfault PROVE StackInv'
<1>1. /\ phase' = "crashed" /\ frames' = <<>> /\ ochan' = 0 /\ ichan = <<>>
      /\ UNCHANGED <<ichan, got, keep_running, late>>
  BY DEF Segfault
<1>2. StackOK(<<>>) /\ ~Due(<<>>) /\ Base' = 0
  BY <1>1 DEF StackOK, Due, Base
<1>3. Owners(<<>>, Inputs) = 0 /\ Owners(<<>>, Outputs) = 0
  BY OwnersEmpty
<1>4. StackTypes'
  BY <1>1, <1>2 DEF StackInv, StackTypes
<1>5. Counts'
  BY <1>1, <1>2, <1>3 DEF Counts
<1>6. LateInv'
  BY <1>1, <1>2 DEF StackInv, LateInv
<1>. QED  BY <1>4, <1>5, <1>6 DEF StackInv

-----------------------------------------------------------------------------
LEMMA InitStack == Init => StackInv
<1>. SUFFICES ASSUME Init PROVE StackInv
  OBVIOUS
<1>1. StackOK(<<>>) /\ ~Due(<<>>)
  BY DEF StackOK, Due
<1>2. StackTypes
  BY <1>1, Numbers DEF Init, StackTypes
<1>3. Counts
  BY OwnersEmpty DEF Init, Counts, Base
<1>4. LateInv
  BY DEF Init, LateInv
<1>. QED  BY <1>2, <1>3, <1>4 DEF StackInv

LEMMA NextStack == StackInv /\ [Next]_vars => StackInv'
<1>. SUFFICES ASSUME StackInv, [Next]_vars PROVE StackInv'
  OBVIOUS
<1>1. CASE BootFails \/ Boot \/ StartFileFails \/ Signal \/ Fini \/ Delete \/ Done \/ UNCHANGED vars
  <2>1. UNCHANGED <<readerVars, ochan, late>>
    BY <1>1 DEF BootFails, Boot, StartFileFails, Signal, Fini, Delete, Done, vars
  <2>2. keep_running' \in BOOLEAN /\ (keep_running' => keep_running)
    <3>1. UNCHANGED keep_running \/ keep_running' = FALSE
      BY <1>1 DEF BootFails, Boot, StartFileFails, Signal, Fini, Delete, Done, vars
    <3>2. keep_running \in BOOLEAN
      BY DEF StackInv, StackTypes
    <3>3. CASE UNCHANGED keep_running
      BY <3>2, <3>3
    <3>4. CASE keep_running' = FALSE
      BY <3>4
    <3>. QED  BY <3>1, <3>3, <3>4
  <2>3. /\ phase' \in {"boot", "start", "parse", "run", "fini", "delete", "done",
                       "crashed"}
        /\ phase' = phase
           \/ /\ {phase, phase'} \cap {"parse", "run"} = {}
              /\ phase \notin {"boot", "start"} => phase' \notin {"boot", "start"}
    BY <1>1 DEF BootFails, Boot, StartFileFails, Signal, Fini, Delete, Done, vars,
       StackInv, StackTypes
  <2>. QED  BY <2>1, <2>2, <2>3, IdleKeeps
<1>2. CASE StartRepl \/ StartExpr \/ StartFile
  BY <1>2, StartsKeep, StartExprKeeps
<1>9. CASE ParseForm \/ ParseEval \/ ParseEnds \/ Segfault
  BY <1>9, ParseKeeps, ParseEndsKeeps, SegfaultKeeps
<1>3. CASE LexStep \/ RunEval
  BY <1>3, LexKeeps, RunEvalKeeps
<1>4. CASE RunRead \/ ExprEval \/ FileRead \/ FileEval
  BY <1>4, LoopsKeep
<1>5. CASE EvalQuit \/ EvalRead \/ EvalReadline \/ EvalModule
  BY <1>5, OpsKeep
<1>6. CASE EvalLoad \/ EvalIn \/ EvalOut
  BY <1>6, EvalLoadKeeps, EvalInOutKeeps
<1>7. CASE EvalReturn \/ InEnd \/ OutEnd \/ ReadlineEnd
  BY <1>7, ReturnsKeep
<1>8. CASE LoopEnds \/ FileEnd
  BY <1>8, EndsKeep
<1>. QED
  BY <1>1, <1>2, <1>3, <1>4, <1>5, <1>6, <1>7, <1>8, <1>9 DEF Next, Main

(* The types of every variable of a session.                               *)
THEOREM SessionTypes == Spec => []TypeOK
<1>1. StackInv /\ LibInv => TypeOK
  <2>. SUFFICES ASSUME StackInv, LibInv PROVE TypeOK
    OBVIOUS
  <2>1. frames \in Seq(Frame) /\ ichan \in Seq(Context)
    BY DEF StackInv, StackTypes, StackOK
  <2>2. ASSUME NEW i \in DOMAIN frames PROVE FrameOK(frames[i])
    <3>1. frames[i] \in Frame
      BY <2>1
    <3>. QED  BY <3>1 DEF Frame, FrameOK
  <2>3. ASSUME NEW i \in DOMAIN ichan PROVE ichan[i].buf \in Seq(0..Wrap - 1)
    <3>1. ichan[i] \in Context
      BY <2>1
    <3>. QED  BY <3>1 DEF Context, Number
  <2>. QED  BY <2>2, <2>3 DEF LibInv, StackInv, StackTypes, LateInv, Number, TypeOK
<1>. QED  BY <1>1, InitStack, NextStack, InitLib, NextLib, PTL DEF Spec

(* Every context is owned by one function of the C stack and popped by it, *)
(* however load, in, out and the loops nest (read.c:19-40, mnml.c:150),    *)
(* and once -e is parsed code is evaluated with a context to read from.    *)
THEOREM ContextsOwned == Spec => []ContextsBalanced
<1>1. StackInv => ContextsBalanced
  <2>. SUFFICES ASSUME StackInv PROVE ContextsBalanced
    OBVIOUS
  <2>1. /\ Len(ichan) = Owners(frames, Inputs)
        /\ ochan = Owners(frames, Outputs) + Base
        /\ phase \notin {"parse", "run"} => frames = <<>>
    BY DEF StackInv, Counts
  <2>2. ASSUME phase = "run" PROVE ichan # <<>>
    <3>1. frames # <<>> /\ Bottom(frames) # "parse" /\ StackOK(frames)
      BY <2>2 DEF StackInv, StackTypes, Counts
    <3>2. Owners(frames, Inputs) > 0
      BY <3>1, OwnerBelow
    <3>. QED  BY <2>1, <3>2
  <2>. QED  BY <2>1, <2>2 DEF ContextsBalanced, Inputs, Outputs, Base
<1>. QED  BY <1>1, InitStack, NextStack, PTL DEF Spec

(* Whenever the signal comes, the loops of the REPL and of -e begin at     *)
(* most one more form (mnml.c:38, 356).                                    *)
THEOREM OneLateForm == Spec => []AtMostOneLate
<1>1. StackInv => AtMostOneLate
  BY DEF StackInv, LateInv, AtMostOneLate, Bottom
<1>. QED  BY <1>1, InitStack, NextStack, PTL DEF Spec

-----------------------------------------------------------------------------
(* The order of the forms.  The forms in the buffer of a context follow    *)
(* the last one taken, each is the next one of the text after the one      *)
(* before; the number of the last form begun is the last one buffered, or  *)
(* the next one while a list is open.  After the end of the text in an     *)
(* open list neither holds, but then nothing is lexed any more.            *)
Latest(c) == IF c.buf = <<>> THEN c.taken ELSE c.buf[Len(c.buf)]

Chain(c) ==
  \A k \in 1..Len(c.buf) :
    c.buf[k] = Advance(IF k = 1 THEN c.taken ELSE c.buf[k - 1])

(* How far the lisp_read of a context is, if there is one.                 *)
NoRead == [at |-> "none", open |-> FALSE]
View(f) == [at |-> f.at, open |-> f.open]

Fits(c, st) ==
  /\ Chain(c)
  /\ st.at \in {"none", "start"} => ~st.open
  /\ st.at = "pop" /\ st.open => c.lines = 0
  /\ \/ c.lines = 0 /\ st.at # "lex"
     \/ c.begun = IF st.open THEN Advance(Latest(c)) ELSE Latest(c)

(* o[i] is the context the frame i works on, one of n.                     *)
Depths(s, o, n) ==
  /\ o \in Seq(Nat) /\ Len(o) = Len(s)
  /\ s # <<>> => o[Len(s)] = n
  /\ \A i, j \in 1..Len(s) : i < j => /\ o[i] <= o[j]
                                      /\ s[j].fn \in Inputs => o[i] < o[j]
  /\ \A i \in 2..Len(s) :
       o[i] = o[i - 1] + (IF s[i].fn \in Inputs THEN 1 ELSE 0)

ReadAt(s, o, d) == {i \in 1..Len(s) : s[i].fn = "read" /\ o[i] = d}

(* The context d has at most one lisp_read on the stack, which is at st.   *)
Shows(s, o, d, st) ==
  \/ ReadAt(s, o, d) = {} /\ st = NoRead
  \/ \E i \in 1..Len(s) : ReadAt(s, o, d) = {i} /\ st = View(s[i])

Ordered(s, c) ==
  \E o : /\ Depths(s, o, Len(c))
         /\ \A d \in 1..Len(c) : \E st : Shows(s, o, d, st) /\ Fits(c[d], st)

-----------------------------------------------------------------------------
(* What the moves of the C stack do to this.                               *)
LEMMA GotoShows ==
  ASSUME NEW s \in Seq(Frame), s # <<>>, NEW g \in Frame, g.fn = Last(s).fn,
         NEW o, NEW n \in Nat, Depths(s, o, n),
         NEW t, t = Append(Front(s), g)
  PROVE  /\ Depths(t, o, n)
         /\ \A d, st : Shows(s, o, d, st) /\ (g.fn # "read" \/ d # n) => Shows(t, o, d, st)
         /\ g.fn = "read" =>
              \A st : Shows(s, o, n, st) => st = View(Last(s)) /\ Shows(t, o, n, View(g))
<1>1. /\ Front(s) \in Seq(Frame) /\ Len(s) \in Nat \ {0} /\ Len(Front(s)) = Len(s) - 1
      /\ Last(s) = s[Len(s)]
      /\ \A i \in 1..(Len(s) - 1) : Front(s)[i] = s[i]
  BY FrontLast
<1>2. /\ Len(t) = Len(s) /\ t # <<>> /\ t[Len(s)] = g
      /\ \A i \in 1..(Len(s) - 1) : t[i] = s[i]
  BY <1>1, AppendFacts
<1>3. \A i \in 1..Len(s) : i \in 1..(Len(s) - 1) \/ i = Len(s)
  BY <1>1
<1>4. \A i \in 1..Len(s) : t[i].fn = s[i].fn
  BY <1>1, <1>2, <1>3
<1>5. Depths(t, o, n)
  <2>1. \A i \in 2..Len(s) : t[i].fn = s[i].fn
    BY <1>1, <1>4
  <2>. QED  BY <1>2, <1>4, <2>1 DEF Depths
<1>6. \A d : ReadAt(t, o, d) = ReadAt(s, o, d)
  BY <1>2, <1>4 DEF ReadAt
<1>7. Len(s) \in 1..Len(s) /\ o[Len(s)] = n
  BY <1>1 DEF Depths
<1>8. ASSUME NEW d, NEW st, Shows(s, o, d, st), g.fn # "read" \/ d # n
      PROVE  Shows(t, o, d, st)
  <2>1. CASE ReadAt(s, o, d) = {} /\ st = NoRead
    BY <2>1, <1>6 DEF Shows
  <2>2. CASE \E i \in 1..Len(s) : ReadAt(s, o, d) = {i} /\ st = View(s[i])
    <3>1. PICK i \in 1..Len(s) : ReadAt(s, o, d) = {i} /\ st = View(s[i])
      BY <2>2
    <3>2. s[i].fn = "read" /\ o[i] = d
      BY <3>1 DEF ReadAt
    <3>3. i # Len(s)
      BY <3>2, <1>1, <1>7, <1>8
    <3>4. t[i] = s[i]
      BY <3>3, <1>2, <1>3
    <3>. QED  BY <3>1, <3>4, <1>2, <1>6 DEF Shows
  <2>. QED  BY <2>1, <2>2, <1>8 DEF Shows
<1>9. ASSUME g.fn = "read", NEW st, Shows(s, o, n, st)
      PROVE  st = View(Last(s)) /\ Shows(t, o, n, View(g))
  <2>1. Len(s) \in ReadAt(s, o, n)
    BY <1>1, <1>7, <1>9 DEF ReadAt
  <2>2. PICK i \in 1..Len(s) : ReadAt(s, o, n) = {i} /\ st = View(s[i])
    BY <2>1, <1>9 DEF Shows
  <2>3. i = Len(s)
    BY <2>1, <2>2
  <2>. QED  BY <2>2, <2>3, <1>1, <1>2, <1>6, <1>7 DEF Shows
<1>. QED  BY <1>5, <1>8, <1>9

LEMMA PushShows ==
  ASSUME NEW s \in Seq(Frame), s # <<>>, NEW f \in Frame,
         NEW o, NEW n \in Nat, Depths(s, o, n),
         NEW m, m = n + (IF f.fn \in Inputs THEN 1 ELSE 0),
         NEW t, t = Append(s, f), NEW p, p = Append(o, m)
  PROVE  /\ Depths(t, p, m)
         /\ \A d, st : Shows(s, o, d, st) /\ (f.fn # "read" \/ d # n) => Shows(t, p, d, st)
         /\ f.fn = "read" /\ ReadAt(s, o, n) = {} => Shows(t, p, n, View(f))
         /\ f.fn \in Inputs => Shows(t, p, m, NoRead)
<1> DEFINE k == Len(s) + 1
<1>1. /\ Len(s) \in Nat \ {0} /\ Len(t) = k /\ t # <<>> /\ t[k] = f
      /\ \A i \in 1..Len(s) : t[i] = s[i]
  BY AppendFacts, FrontLast
<1>2. m \in Nat /\ o \in Seq(Nat) /\ Len(o) = Len(s)
  BY DEF Depths
<1>3. /\ p \in Seq(Nat) /\ Len(p) = k /\ p[k] = m
      /\ \A i \in 1..Len(s) : p[i] = o[i] /\ o[i] \in Nat
  BY <1>2, AppendFacts
<1>4. /\ o[Len(s)] = n
      /\ \A i, j \in 1..Len(s) : i < j => /\ o[i] <= o[j]
                                          /\ s[j].fn \in Inputs => o[i] < o[j]
      /\ \A i \in 2..Len(s) : o[i] = o[i - 1] + (IF s[i].fn \in Inputs THEN 1 ELSE 0)
  BY DEF Depths
<1>5. \A i \in 1..k : i \in 1..Len(s) \/ i = k
  BY <1>1
<1>6. \A i \in 1..Len(s) : o[i] <= n
  <2>1. ASSUME NEW i \in 1..Len(s)  PROVE o[i] <= n
    <3>1. i < Len(s) \/ i = Len(s)
      BY <1>1
    <3>2. Len(s) \in 1..Len(s)
      BY <1>1
    <3>. QED  BY <3>1, <3>2, <1>3, <1>4
  <2>. QED  BY <2>1
<1>7. Depths(t, p, m)
  <2>1. ASSUME NEW i \in 1..k, NEW j \in 1..k, i < j
        PROVE  p[i] <= p[j] /\ (t[j].fn \in Inputs => p[i] < p[j])
    <3>1. i \in 1..Len(s)
      BY <2>1, <1>1
    <3>2. CASE j \in 1..Len(s)
      BY <3>1, <3>2, <2>1, <1>1, <1>3, <1>4
    <3>3. CASE j = k
      BY <3>1, <3>3, <1>1, <1>3, <1>6
    <3>. QED  BY <3>2, <3>3, <1>5
  <2>2. ASSUME NEW i \in 2..k
        PROVE  p[i] = p[i - 1] + (IF t[i].fn \in Inputs THEN 1 ELSE 0)
    <3>1. i - 1 \in 1..Len(s)
      BY <1>1
    <3>2. CASE i \in 2..Len(s)
      BY <3>1, <3>2, <1>1, <1>3, <1>4
    <3>3. CASE i = k
      <4>1. i - 1 = Len(s)
        BY <3>3, <1>1
      <4>. QED  BY <3>1, <3>3, <4>1, <1>1, <1>3, <1>4
    <3>4. i \in 2..Len(s) \/ i = k
      BY <1>1
    <3>. QED  BY <3>2, <3>3, <3>4
  <2>. HIDE DEF k
  <2>. QED  BY <2>1, <2>2, <1>1, <1>3 DEF Depths
<1>. HIDE DEF k
<1>8. \A d : ReadAt(t, p, d) = ReadAt(s, o, d) \cup
                                (IF f.fn = "read" /\ m = d THEN {k} ELSE {})
  <2>1. \A i : i \in 1..k <=> i \in 1..Len(s) \/ i = k
    BY <1>1 DEF k
  <2>. QED  BY <2>1, <1>1, <1>3 DEF ReadAt
<1>9. "read" \notin Inputs
  BY DEF Inputs
<1>10. ASSUME NEW d, NEW st, Shows(s, o, d, st), f.fn # "read" \/ d # n
       PROVE  Shows(t, p, d, st)
  <2>1. ReadAt(t, p, d) = ReadAt(s, o, d)
    <3>1. ~(f.fn = "read" /\ m = d)
      BY <1>9, <1>10
    <3>. QED  BY <3>1, <1>8
  <2>2. \A i \in 1..Len(s) : i \in 1..Len(t) /\ t[i] = s[i]
    BY <1>1 DEF k
  <2>. QED  BY <2>1, <2>2, <1>10 DEF Shows
<1>11. ASSUME f.fn = "read", ReadAt(s, o, n) = {}  PROVE Shows(t, p, n, View(f))
  <2>1. m = n /\ k \in 1..Len(t)
    BY <1>1, <1>9, <1>11 DEF k
  <2>2. ReadAt(t, p, n) = {k}
    BY <2>1, <1>8, <1>11
  <2>. QED  BY <2>1, <2>2, <1>1 DEF Shows
<1>12. ASSUME f.fn \in Inputs  PROVE Shows(t, p, m, NoRead)
  <2>1. \A i \in 1..Len(s) : o[i] # m
    BY <1>3, <1>6, <1>12
  <2>2. ReadAt(s, o, m) = {}
    BY <2>1 DEF ReadAt
  <2>3. ReadAt(t, p, m) = {}
    BY <2>2, <1>8, <1>9, <1>12
  <2>. QED  BY <2>3 DEF Shows
<1>. QED  BY <1>7, <1>10, <1>11, <1>12

LEMMA PopShows ==
  ASSUME NEW s \in Seq(Frame), s # <<>>, Front(s) # <<>>,
         NEW o, NEW n \in Nat, Depths(s, o, n),
         NEW m, m = n - (IF Last(s).fn \in Inputs THEN 1 ELSE 0)
  PROVE  /\ Depths(Front(s), Front(o), m) /\ m \in Nat
         /\ \A d, st : Shows(s, o, d, st) /\ (Last(s).fn # "read" \/ d # n) =>
                         Shows(Front(s), Front(o), d, st)
         /\ Last(s).fn = "read" =>
              \A st : Shows(s, o, n, st) => /\ st = View(Last(s))
                                            /\ Shows(Front(s), Front(o), n, NoRead)
<1> DEFINE t == Front(s)
           p == Front(o)
           k == Len(s) - 1
<1>1. /\ t \in Seq(Frame) /\ Len(s) \in Nat \ {0} /\ Len(t) = k
      /\ Last(s) = s[Len(s)]
      /\ \A i \in 1..k : t[i] = s[i]
  BY FrontLast
<1>2. o \in Seq(Nat) /\ Len(o) = Len(s) /\ o # <<>>
  BY <1>1 DEF Depths
<1>3. /\ p \in Seq(Nat) /\ Len(p) = k
      /\ \A i \in 1..k : p[i] = o[i]
  BY <1>2, FrontLast
<1>4. \A i \in 1..Len(s) : o[i] \in Nat
  BY <1>2, ElementOfSeq
<1>5. k \in Nat \ {0}
  BY <1>1
<1>. HIDE DEF t, p
<1>6. /\ o[Len(s)] = n
      /\ \A i, j \in 1..Len(s) : i < j => /\ o[i] <= o[j]
                                          /\ s[j].fn \in Inputs => o[i] < o[j]
      /\ \A i \in 2..Len(s) : o[i] = o[i - 1] + (IF s[i].fn \in Inputs THEN 1 ELSE 0)
  BY <1>1, <1>5 DEF Depths
<1>7. \A i \in 1..Len(s) : i \in 1..k \/ i = Len(s)
  BY <1>1
<1>8. /\ \A i \in 1..k : i \in 1..Len(s) /\ i # Len(s)
      /\ \A i \in 2..k : i \in 2..Len(s) /\ i \in 1..k /\ i - 1 \in 1..k
  BY <1>1, <1>5
<1>9. m = o[k] /\ m \in Nat
  <2>1. Len(s) \in 2..Len(s) /\ k \in 1..Len(s) /\ Len(s) - 1 = k
    BY <1>1, <1>5
  <2>2. o[Len(s)] = o[k] + (IF s[Len(s)].fn \in Inputs THEN 1 ELSE 0)
    BY <2>1, <1>6
  <2>3. o[k] \in Nat
    BY <2>1, <1>4
  <2>. QED  BY <2>2, <2>3, <1>1, <1>6
<1>10. Depths(t, p, m)
  <2>. HIDE DEF k
  <2>1. k \in 1..k /\ p[k] = o[k]
    BY <1>3, <1>5
  <2>2. \A i, j \in 1..k : i < j => /\ p[i] <= p[j]
                                    /\ t[j].fn \in Inputs => p[i] < p[j]
    BY <1>1, <1>3, <1>6, <1>8
  <2>3. \A i \in 2..k : p[i] = p[i - 1] + (IF t[i].fn \in Inputs THEN 1 ELSE 0)
    BY <1>1, <1>3, <1>6, <1>8
  <2>. QED  BY <2>1, <2>2, <2>3, <1>1, <1>3, <1>9 DEF Depths
<1>11. \A d : ReadAt(t, p, d) = ReadAt(s, o, d) \ {Len(s)}
  <2>. HIDE DEF k
  <2>. QED  BY <1>1, <1>3, <1>7, <1>8 DEF ReadAt
<1>12. ASSUME NEW d, NEW st, Shows(s, o, d, st), Last(s).fn # "read" \/ d # n
       PROVE  Shows(t, p, d, st)
  <2>1. Len(s) \notin ReadAt(s, o, d)
    BY <1>1, <1>6, <1>12 DEF ReadAt
  <2>2. ReadAt(t, p, d) = ReadAt(s, o, d)
    BY <2>1, <1>11
  <2>3. ASSUME NEW i \in 1..Len(s), ReadAt(s, o, d) = {i}  PROVE i \in 1..Len(t) /\ t[i] = s[i]
    <3>1. i # Len(s)
      BY <2>1, <2>3
    <3>. QED  BY <3>1, <1>1, <1>7
  <2>. QED  BY <2>2, <2>3, <1>12 DEF Shows
<1>13. ASSUME Last(s).fn = "read", NEW st, Shows(s, o, n, st)
       PROVE  st = View(Last(s)) /\ Shows(t, p, n, NoRead)
  <2>1. Len(s) \in ReadAt(s, o, n)
    BY <1>1, <1>6, <1>13 DEF ReadAt
  <2>2. PICK i \in 1..Len(s) : ReadAt(s, o, n) = {i} /\ st = View(s[i])
    BY <2>1, <1>13 DEF Shows
  <2>3. i = Len(s)
    BY <2>1, <2>2
  <2>4. ReadAt(t, p, n) = {}
    BY <2>2, <2>3, <1>11
  <2>. QED  BY <2>2, <2>3, <2>4, <1>1 DEF Shows
<1>. QED  BY <1>9, <1>10, <1>12, <1>13 DEF t, p

-----------------------------------------------------------------------------
(* The same with the contexts: what a step must leave of the context on    *)
(* top, so that the forms of every context stay in order.                  *)
Stays(c, e) == \A st : Fits(c, st) => Fits(e, st)

(* The contexts c become e: only the last one changes, if any.             *)
TopOnly(c, e) ==
  /\ Len(c) \in Nat /\ Len(e) = Len(c)
  /\ \A d \in 1..(Len(c) - 1) : e[d] = c[d]

LEMMA GotoOrder ==
  ASSUME NEW s \in Seq(Frame), s # <<>>, NEW g \in Frame, g.fn = Last(s).fn,
         NEW c, NEW e, TopOnly(c, e), Ordered(s, c),
         IF g.fn = "read" THEN Fits(c[Len(c)], View(Last(s))) => Fits(e[Len(c)], View(g))
                          ELSE Stays(c[Len(c)], e[Len(c)])
  PROVE  Ordered(Append(Front(s), g), e)
<1> DEFINE t == Append(Front(s), g)
           n == Len(c)
<1>1. PICK o : /\ Depths(s, o, n)
               /\ \A d \in 1..n : \E st : Shows(s, o, d, st) /\ Fits(c[d], st)
  BY DEF Ordered
<1>2. n \in Nat /\ Len(e) = n /\ \A d \in 1..(n - 1) : e[d] = c[d]
  BY DEF TopOnly
<1>3. /\ Depths(t, o, n)
      /\ \A d, st : Shows(s, o, d, st) /\ (g.fn # "read" \/ d # n) => Shows(t, o, d, st)
      /\ g.fn = "read" =>
           \A st : Shows(s, o, n, st) => st = View(Last(s)) /\ Shows(t, o, n, View(g))
  BY <1>1, <1>2, GotoShows
<1>. HIDE DEF t, n
<1>4. ASSUME NEW d \in 1..n  PROVE \E st : Shows(t, o, d, st) /\ Fits(e[d], st)
  <2>1. PICK st : Shows(s, o, d, st) /\ Fits(c[d], st)
    BY <1>1
  <2>2. CASE d # n
    <3>1. d \in 1..(n - 1)
      BY <2>2, <1>2
    <3>. QED  BY <3>1, <2>1, <2>2, <1>2, <1>3
  <2>3. CASE d = n /\ g.fn = "read"
    <3>1. st = View(Last(s)) /\ Shows(t, o, n, View(g))
      BY <2>1, <2>3, <1>3
    <3>2. Fits(e[n], View(g))
      BY <3>1, <2>1, <2>3 DEF n
    <3>. QED  BY <3>1, <3>2, <2>3
  <2>4. CASE d = n /\ g.fn # "read"
    <3>1. Shows(t, o, d, st)
      BY <2>1, <2>4, <1>3
    <3>2. Fits(e[n], st)
      BY <2>1, <2>4 DEF Stays, n
    <3>. QED  BY <3>1, <3>2, <2>4
  <2>. QED  BY <2>2, <2>3, <2>4
<1>. QED  BY <1>2, <1>3, <1>4 DEF Ordered, t

(* The context on top is not being read.                                   *)
NoReader(s) ==
  \A i \in 1..Len(s) : s[i].fn = "read" => \E j \in i..Len(s) : s[j].fn \in {"in", "file"}

LEMMA NotRead ==
  ASSUME NEW s \in Seq(Frame), s # <<>>, NoReader(s), NEW o, NEW n \in Nat, Depths(s, o, n)
  PROVE  ReadAt(s, o, n) = {}
<1>1. /\ o \in Seq(Nat) /\ Len(o) = Len(s) /\ o[Len(s)] = n
      /\ \A i, j \in 1..Len(s) : i < j => /\ o[i] <= o[j]
                                          /\ s[j].fn \in Inputs => o[i] < o[j]
  BY DEF Depths
<1>2. Len(s) \in Nat \ {0} /\ \A i \in 1..Len(s) : o[i] \in Nat
  BY <1>1, FrontLast, ElementOfSeq
<1>3. ASSUME NEW i \in 1..Len(s), s[i].fn = "read", o[i] = n  PROVE FALSE
  <2>1. PICK j \in i..Len(s) : s[j].fn \in {"in", "file"}
    BY <1>3 DEF NoReader
  <2>2. j \in 1..Len(s) /\ i < j /\ s[j].fn \in Inputs
    BY <2>1, <1>2, <1>3 DEF Inputs
  <2>3. o[i] < o[j]
    BY <2>2, <1>1
  <2>4. o[j] <= n
    <3>1. j < Len(s) \/ j = Len(s)
      BY <2>2, <1>2
    <3>2. Len(s) \in 1..Len(s)
      BY <1>2
    <3>. QED  BY <3>1, <3>2, <2>2, <1>1, <1>2
  <2>. QED  BY <2>2, <2>3, <2>4, <1>2, <1>3
<1>. QED  BY <1>3 DEF ReadAt

(* A call that opens no context.                                           *)
LEMMA PushOrder ==
  ASSUME NEW s \in Seq(Frame), s # <<>>, NEW f \in Frame, f.fn \notin Inputs,
         f.fn = "read" => NoReader(s) /\ f.at = "start" /\ ~f.open,
         NEW c, Len(c) \in Nat, Ordered(s, c)
  PROVE  Ordered(Append(s, f), c)
<1> DEFINE t == Append(s, f)
           n == Len(c)
<1>1. PICK o : /\ Depths(s, o, n)
               /\ \A d \in 1..n : \E st : Shows(s, o, d, st) /\ Fits(c[d], st)
  BY DEF Ordered
<1> DEFINE p == Append(o, n)
<1> DEFINE m == n + (IF f.fn \in Inputs THEN 1 ELSE 0)
<1>2. n \in Nat /\ m = n
  OBVIOUS
<1>5. m = n + (IF f.fn \in Inputs THEN 1 ELSE 0) /\ t = Append(s, f) /\ p = Append(o, m)
  BY <1>2
<1>. HIDE DEF t, p, n, m
<1>6. /\ Depths(t, p, m)
      /\ \A d, st : Shows(s, o, d, st) /\ (f.fn # "read" \/ d # n) => Shows(t, p, d, st)
      /\ f.fn = "read" /\ ReadAt(s, o, n) = {} => Shows(t, p, n, View(f))
  BY <1>1, <1>2, <1>5, PushShows
<1>3. /\ Depths(t, p, n)
      /\ \A d, st : Shows(s, o, d, st) /\ (f.fn # "read" \/ d # n) => Shows(t, p, d, st)
      /\ f.fn = "read" /\ ReadAt(s, o, n) = {} => Shows(t, p, n, View(f))
  BY <1>2, <1>6
<1>4. ASSUME NEW d \in 1..n  PROVE \E st : Shows(t, p, d, st) /\ Fits(c[d], st)
  <2>1. PICK st : Shows(s, o, d, st) /\ Fits(c[d], st)
    BY <1>1
  <2>2. CASE f.fn # "read" \/ d # n
    BY <2>1, <2>2, <1>3
  <2>3. CASE f.fn = "read" /\ d = n
    <3>1. n \in Nat
      BY DEF n
    <3>2. ReadAt(s, o, n) = {}
      BY <3>1, <2>3, <1>1, NotRead
    <3>3. Shows(t, p, n, View(f))
      BY <3>2, <2>3, <1>3
    <3>4. st = NoRead
      BY <3>2, <2>1, <2>3 DEF Shows
    <3>5. Fits(c[d], View(f))
      BY <3>4, <2>1, <2>3 DEF Fits, NoRead, View
    <3>. QED  BY <3>3, <3>5, <2>3
  <2>. QED  BY <2>2, <2>3
<1>. QED  BY <1>3, <1>4 DEF Ordered, t, n

(* A call that opens one.                                                  *)
LEMMA OpenOrder ==
  ASSUME NEW s \in Seq(Frame), s # <<>>, NEW f \in Frame, f.fn \in Inputs,
         NEW c \in Seq(Context), NEW e \in Context, Fits(e, NoRead), Ordered(s, c)
  PROVE  Ordered(Append(s, f), Append(c, e))
<1> DEFINE t == Append(s, f)
           n == Len(c)
           u == Append(c, e)
<1>1. PICK o : /\ Depths(s, o, n)
               /\ \A d \in 1..n : \E st : Shows(s, o, d, st) /\ Fits(c[d], st)
  BY DEF Ordered
<1> DEFINE p == Append(o, n + 1)
<1>2. /\ n \in Nat /\ Len(u) = n + 1 /\ u[n + 1] = e
      /\ \A d \in 1..n : u[d] = c[d]
  BY AppendFacts
<1> DEFINE m == n + 1
<1>3. m = n + (IF f.fn \in Inputs THEN 1 ELSE 0) /\ t = Append(s, f) /\ p = Append(o, m)
  OBVIOUS
<1>5. f.fn # "read"
  BY DEF Inputs
<1>. HIDE DEF t, p, n, u
<1>7. m = n + 1
  OBVIOUS
<1>. HIDE DEF m
<1>8. /\ Depths(t, p, m)
      /\ \A d, st : Shows(s, o, d, st) /\ f.fn # "read" => Shows(t, p, d, st)
      /\ Shows(t, p, m, NoRead)
  BY <1>1, <1>2, <1>3, PushShows
<1>4. /\ Depths(t, p, n + 1)
      /\ \A d, st : Shows(s, o, d, st) /\ f.fn # "read" => Shows(t, p, d, st)
      /\ Shows(t, p, n + 1, NoRead)
  BY <1>7, <1>8
<1>6. ASSUME NEW d \in 1..(n + 1)  PROVE \E st : Shows(t, p, d, st) /\ Fits(u[d], st)
  <2>1. CASE d \in 1..n
    BY <2>1, <1>1, <1>2, <1>4, <1>5
  <2>2. CASE d = n + 1
    BY <2>2, <1>2, <1>4
  <2>. QED  BY <2>1, <2>2, <1>2
<1>. QED  BY <1>2, <1>4, <1>6 DEF Ordered, t, u

(* A return that closes no context.                                        *)
LEMMA PopOrder ==
  ASSUME NEW s \in Seq(Frame), s # <<>>, Front(s) # <<>>, Last(s).fn \notin Inputs,
         NEW c, NEW e, TopOnly(c, e), Ordered(s, c),
         IF Last(s).fn = "read"
           THEN Fits(c[Len(c)], View(Last(s))) => Fits(e[Len(c)], NoRead)
           ELSE Stays(c[Len(c)], e[Len(c)])
  PROVE  Ordered(Front(s), e)
<1> DEFINE t == Front(s)
           n == Len(c)
<1>1. PICK o : /\ Depths(s, o, n)
               /\ \A d \in 1..n : \E st : Shows(s, o, d, st) /\ Fits(c[d], st)
  BY DEF Ordered
<1> DEFINE p == Front(o)
<1>2. n \in Nat /\ Len(e) = n /\ \A d \in 1..(n - 1) : e[d] = c[d]
  BY DEF TopOnly
<1>3. n = n - (IF Last(s).fn \in Inputs THEN 1 ELSE 0)
  BY <1>2
<1>4. /\ Depths(t, p, n)
      /\ \A d, st : Shows(s, o, d, st) /\ (Last(s).fn # "read" \/ d # n) => Shows(t, p, d, st)
      /\ Last(s).fn = "read" =>
           \A st : Shows(s, o, n, st) => st = View(Last(s)) /\ Shows(t, p, n, NoRead)
  BY <1>1, <1>2, <1>3, PopShows
<1>. HIDE DEF t, p, n
<1>5. ASSUME NEW d \in 1..n  PROVE \E st : Shows(t, p, d, st) /\ Fits(e[d], st)
  <2>1. PICK st : Shows(s, o, d, st) /\ Fits(c[d], st)
    BY <1>1
  <2>2. CASE d # n
    <3>1. d \in 1..(n - 1)
      BY <2>2, <1>2
    <3>. QED  BY <3>1, <2>1, <2>2, <1>2, <1>4
  <2>3. CASE d = n /\ Last(s).fn = "read"
    <3>1. st = View(Last(s)) /\ Shows(t, p, n, NoRead)
      BY <2>1, <2>3, <1>4
    <3>2. Fits(e[n], NoRead)
      BY <3>1, <2>1, <2>3 DEF n
    <3>. QED  BY <3>1, <3>2, <2>3
  <2>4. CASE d = n /\ Last(s).fn # "read"
    <3>1. Fits(e[d], st)
      BY <2>1, <2>4 DEF Stays, n
    <3>. QED  BY <3>1, <2>1, <2>4, <1>4
  <2>. QED  BY <2>2, <2>3, <2>4
<1>. QED  BY <1>2, <1>4, <1>5 DEF Ordered, t

(* A return that closes one.                                               *)
LEMMA CloseOrder ==
  ASSUME NEW s \in Seq(Frame), s # <<>>, Front(s) # <<>>, Last(s).fn \in Inputs,
         NEW c \in Seq(Context), c # <<>>, Ordered(s, c)
  PROVE  Ordered(Front(s), Front(c))
<1> DEFINE t == Front(s)
           n == Len(c)
           u == Front(c)
<1>1. PICK o : /\ Depths(s, o, n)
               /\ \A d \in 1..n : \E st : Shows(s, o, d, st) /\ Fits(c[d], st)
  BY DEF Ordered
<1> DEFINE p == Front(o)
<1>2. /\ n \in Nat \ {0} /\ Len(u) = n - 1
      /\ \A d \in 1..(n - 1) : u[d] = c[d]
  BY FrontLast
<1>3. n - 1 = n - (IF Last(s).fn \in Inputs THEN 1 ELSE 0) /\ Last(s).fn # "read"
  BY DEF Inputs
<1>4. /\ Depths(t, p, n - 1)
      /\ \A d, st : Shows(s, o, d, st) /\ Last(s).fn # "read" => Shows(t, p, d, st)
  BY <1>1, <1>2, <1>3, PopShows
<1>. HIDE DEF t, p, n, u
<1>5. ASSUME NEW d \in 1..(n - 1)  PROVE \E st : Shows(t, p, d, st) /\ Fits(u[d], st)
  <2>1. d \in 1..n
    BY <1>2
  <2>2. PICK st : Shows(s, o, d, st) /\ Fits(c[d], st)
    BY <2>1, <1>1
  <2>. QED  BY <2>2, <1>2, <1>3, <1>4
<1>. QED  BY <1>2, <1>4, <1>5 DEF Ordered, t, u

LEMMA EmptyOrder == Ordered(<<>>, <<>>)
<1>1. Depths(<<>>, <<>>, 0)
  BY DEF Depths
<1>. QED  BY <1>1 DEF Ordered

-----------------------------------------------------------------------------
(* What the steps of lisp_read do to the context they work on.             *)
LEMMA StartFits ==
  ASSUME NEW c \in Context, NEW open \in BOOLEAN, NEW at \in {"fgets", "pop"},
         Fits(c, [at |-> "start", open |-> open])
  PROVE  Fits(c, [at |-> at, open |-> open])
BY DEF Fits

LEMMA LineFits ==
  ASSUME NEW c \in Context, NEW open \in BOOLEAN, c.lines # 0,
         Fits(c, [at |-> "fgets", open |-> open])
  PROVE  Fits([c EXCEPT !.lines = IF c.endless THEN @ ELSE @ - 1],
              [at |-> "lex", open |-> open])
<1> DEFINE e == [c EXCEPT !.lines = IF c.endless THEN @ ELSE @ - 1]
<1>1. e.buf = c.buf /\ e.taken = c.taken /\ e.begun = c.begun
  BY DEF Context
<1>. HIDE DEF e
<1>2. Chain(e) <=> Chain(c)
  BY <1>1 DEF Chain
<1>3. Latest(e) = Latest(c)
  BY <1>1 DEF Latest
<1>4. Fits(e, [at |-> "lex", open |-> open])
  BY <1>1, <1>2, <1>3 DEF Fits
<1>. QED  BY <1>4 DEF e

LEMMA EofFits ==
  ASSUME NEW c \in Context, NEW open \in BOOLEAN,
         Fits(c, [at |-> "fgets", open |-> open])
  PROVE  Fits([c EXCEPT !.lines = 0], [at |-> "pop", open |-> open])
<1> DEFINE e == [c EXCEPT !.lines = 0]
<1>1. e.buf = c.buf /\ e.taken = c.taken /\ e.lines = 0
  BY DEF Context
<1>. HIDE DEF e
<1>2. Chain(e) <=> Chain(c)
  BY <1>1 DEF Chain
<1>3. Fits(e, [at |-> "pop", open |-> open])
  BY <1>1, <1>2 DEF Fits
<1>. QED  BY <1>3 DEF e

LEMMA HeadFits ==
  ASSUME NEW c \in Context, Fits(c, [at |-> "lex", open |-> FALSE])
  PROVE  Fits([c EXCEPT !.begun = Advance(@)], [at |-> "lex", open |-> TRUE])
<1> DEFINE e == [c EXCEPT !.begun = Advance(@)]
<1>1. e.buf = c.buf /\ e.taken = c.taken /\ e.lines = c.lines /\ e.begun = Advance(c.begun)
  BY DEF Context
<1>. HIDE DEF e
<1>2. Chain(e) <=> Chain(c)
  BY <1>1 DEF Chain
<1>3. Latest(e) = Latest(c)
  BY <1>1 DEF Latest
<1>4. Fits(e, [at |-> "lex", open |-> TRUE])
  BY <1>1, <1>2, <1>3 DEF Fits
<1>. QED  BY <1>4 DEF e

(* The next form of the text goes to the end of the buffer.                *)
LEMMA ConsumeFits ==
  ASSUME NEW c \in Context, NEW open \in BOOLEAN, Fits(c, [at |-> "lex", open |-> open]),
         NEW n \in Number, n = IF open THEN c.begun ELSE Advance(c.begun)
  PROVE  Fits([c EXCEPT !.buf = Append(@, n), !.begun = n], [at |-> "lex", open |-> FALSE])
<1> DEFINE e == [c EXCEPT !.buf = Append(@, n), !.begun = n]
           q == c.buf
           k == Len(q) + 1
<1>1. /\ e.buf = Append(q, n) /\ e.taken = c.taken /\ e.lines = c.lines
      /\ e.begun = n /\ q \in Seq(Number)
  BY DEF Context
<1>2. n = Advance(Latest(c)) /\ Chain(c)
  BY DEF Fits
<1>. HIDE DEF e, q
<1>3. /\ Len(q) \in Nat /\ Len(e.buf) = k /\ e.buf[k] = n /\ e.buf # <<>>
      /\ \A i \in 1..Len(q) : e.buf[i] = q[i]
  BY <1>1, AppendFacts
<1>4. Latest(e) = n
  BY <1>3 DEF Latest
<1>5. ASSUME NEW i \in 1..k
      PROVE  e.buf[i] = Advance(IF i = 1 THEN e.taken ELSE e.buf[i - 1])
  <2>1. CASE i \in 1..Len(q)
    <3>1. q[i] = Advance(IF i = 1 THEN c.taken ELSE q[i - 1])
      BY <1>2, <2>1 DEF Chain, q
    <3>2. i # 1 => i - 1 \in 1..Len(q)
      BY <2>1, <1>3
    <3>. QED  BY <3>1, <3>2, <2>1, <1>1, <1>3
  <2>2. CASE i = k /\ q = <<>>
    <3>1. i = 1 /\ Latest(c) = c.taken
      BY <2>2 DEF Latest, q
    <3>. QED  BY <3>1, <2>2, <1>1, <1>2, <1>3
  <2>3. CASE i = k /\ q # <<>>
    <3>1. Len(q) > 0
      BY <2>3, <1>1, <1>3
    <3>2. i # 1 /\ i - 1 = Len(q) /\ Len(q) \in 1..Len(q)
      BY <3>1, <2>3, <1>3
    <3>3. Latest(c) = q[Len(q)]
      BY <2>3 DEF Latest, q
    <3>. QED  BY <3>2, <3>3, <2>3, <1>2, <1>3
  <2>4. i \in 1..Len(q) \/ i = k
    BY <1>3
  <2>. QED  BY <2>1, <2>2, <2>3, <2>4
<1>6. Chain(e)
  BY <1>3, <1>5 DEF Chain
<1>7. Fits(e, [at |-> "lex", open |-> FALSE])
  BY <1>1, <1>4, <1>6 DEF Fits
<1>. QED  BY <1>7 DEF e, q

(* The line is not left with a form in the buffer and a list open.         *)
LEMMA EndFits ==
  ASSUME NEW c \in Context, NEW open \in BOOLEAN, Fits(c, [at |-> "lex", open |-> open])
  PROVE  Fits(c, [at |-> IF c.buf = <<>> \/ open THEN "fgets" ELSE "pop", open |-> open])
BY DEF Fits

(* The form that is taken is the next one.                                 *)
LEMMA PopFits ==
  ASSUME NEW c \in Context, NEW open \in BOOLEAN, Fits(c, [at |-> "pop", open |-> open]),
         c.buf # <<>>
  PROVE  /\ Head(c.buf) = Advance(c.taken)
         /\ Fits([c EXCEPT !.buf = Tail(@), !.taken = Advance(@)], NoRead)
<1> DEFINE e == [c EXCEPT !.buf = Tail(@), !.taken = Advance(@)]
           q == c.buf
<1>1. /\ e.buf = Tail(q) /\ e.taken = Advance(c.taken) /\ e.lines = c.lines
      /\ e.begun = c.begun /\ q \in Seq(Number) /\ q # <<>>
  BY DEF Context
<1>2. /\ Chain(c) /\ (open => c.lines = 0)
      /\ c.lines = 0 \/ c.begun = Latest(c)
  BY DEF Fits
<1>. HIDE DEF e, q
<1>3. /\ Len(q) \in Nat \ {0} /\ Head(q) = q[1] /\ Len(e.buf) = Len(q) - 1
      /\ e.buf \in Seq(Number)
      /\ \A i \in 1..(Len(q) - 1) : e.buf[i] = q[i + 1]
  BY <1>1
<1>4. \A i \in 1..Len(q) : q[i] = Advance(IF i = 1 THEN c.taken ELSE q[i - 1])
  BY <1>2 DEF Chain, q
<1>5. 1 \in 1..Len(q) /\ q[1] = Advance(c.taken)
  BY <1>3, <1>4
<1>6. ASSUME NEW i \in 1..(Len(q) - 1)
      PROVE  e.buf[i] = Advance(IF i = 1 THEN e.taken ELSE e.buf[i - 1])
  <2>1. i + 1 \in 1..Len(q) /\ i + 1 # 1 /\ (i + 1) - 1 = i
    BY <1>3
  <2>2. q[i + 1] = Advance(q[i])
    BY <2>1, <1>4
  <2>3. CASE i = 1
    BY <2>2, <2>3, <1>1, <1>3, <1>5
  <2>4. CASE i # 1
    <3>1. i - 1 \in 1..(Len(q) - 1) /\ (i - 1) + 1 = i
      BY <2>4, <1>3
    <3>2. e.buf[i - 1] = q[i]
      BY <3>1, <1>3
    <3>. QED  BY <3>2, <2>2, <2>4, <1>3
  <2>. QED  BY <2>3, <2>4
<1>7. Chain(e)
  BY <1>3, <1>6 DEF Chain
<1>8. Latest(e) = Latest(c)
  <2>1. Latest(c) = q[Len(q)]
    BY <1>1 DEF Latest, q
  <2>2. CASE Len(q) = 1
    <3>1. e.buf = <<>>
      BY <2>2, <1>3
    <3>. QED  BY <3>1, <2>1, <2>2, <1>1, <1>5 DEF Latest
  <2>3. CASE Len(q) # 1
    <3>0. ASSUME NEW m \in Nat \ {0}, m # 1 PROVE m - 1 > 0
      BY <3>0
    <3>1. Len(e.buf) > 0
      <4>1. Len(q) \in Nat \ {0} /\ Len(e.buf) = Len(q) - 1
        BY <1>3
      <4>. QED  BY <4>1, <3>0, <2>3
    <3>2. e.buf # <<>> /\ Len(e.buf) \in 1..(Len(q) - 1) /\ Len(e.buf) + 1 = Len(q)
      BY <3>1, <1>3
    <3>. QED  BY <3>2, <2>1, <1>3 DEF Latest
  <2>. QED  BY <2>2, <2>3
<1>9. Fits(e, NoRead)
  BY <1>1, <1>2, <1>7, <1>8 DEF Fits, NoRead
<1>. QED  BY <1>3, <1>5, <1>9 DEF e, q

LEMMA NullFits ==
  ASSUME NEW c \in Context, NEW open \in BOOLEAN, Fits(c, [at |-> "pop", open |-> open])
  PROVE  Fits(c, NoRead)
BY DEF Fits, NoRead

(* readline takes a line, and the end of the text stays the end.           *)
LEMMA ReadlineStays ==
  ASSUME NEW c \in Context
  PROVE  Stays(c, [c EXCEPT !.lines = IF @ = 0 \/ c.endless THEN @ ELSE @ - 1])
<1> DEFINE e == [c EXCEPT !.lines = IF @ = 0 \/ c.endless THEN @ ELSE @ - 1]
<1>1. /\ e.buf = c.buf /\ e.taken = c.taken /\ e.begun = c.begun
      /\ c.lines = 0 => e.lines = 0
  BY DEF Context
<1>. HIDE DEF e
<1>2. Chain(e) <=> Chain(c)
  BY <1>1 DEF Chain
<1>3. Latest(e) = Latest(c)
  BY <1>1 DEF Latest
<1>4. ASSUME NEW st, Fits(c, st) PROVE Fits(e, st)
  BY <1>1, <1>2, <1>3, <1>4 DEF Fits
<1>. QED  BY <1>4 DEF Stays, e

LEMMA FreshFits ==
  ASSUME NEW n \in Nat, NEW e \in BOOLEAN
  PROVE  Channel(n, e) \in Context /\ Fits(Channel(n, e), NoRead)
<1>1. Channel(n, e) \in Context
  BY ReaderAssumption DEF Channel, Context, Number
<1>2. Fits(Channel(n, e), NoRead)
  BY DEF Channel, Fits, Chain, Latest, NoRead
<1>. QED  BY <1>1, <1>2

-----------------------------------------------------------------------------
(* The steps of a session keep the order.                                  *)
OrderInv == Ordered(frames, ichan)

LEMMA ReadViews ==
  ASSUME NEW f \in Frame, f.fn = "read"
  PROVE  /\ f.open \in BOOLEAN /\ View(f) = [at |-> f.at, open |-> f.open]
         /\ \A at \in {"start", "fgets", "lex", "pop"} :
              /\ View([f EXCEPT !.at = at]) = [at |-> at, open |-> f.open]
              /\ View([[f EXCEPT !.at = at] EXCEPT !.toks = 0]) = [at |-> at, open |-> f.open]
         /\ \A open \in BOOLEAN :
              View([f EXCEPT !.toks = @ + 1, !.open = open]) = [at |-> f.at, open |-> open]
<1>1. f \in [fn : {"read"}, at : {"start", "fgets", "lex", "pop"},
             toks : 0..MaxTokens, open : BOOLEAN]
  BY DEF Frame
<1>2. ASSUME NEW at \in {"start", "fgets", "lex", "pop"}
      PROVE  /\ View([f EXCEPT !.at = at]) = [at |-> at, open |-> f.open]
             /\ View([[f EXCEPT !.at = at] EXCEPT !.toks = 0]) = [at |-> at, open |-> f.open]
  BY <1>1 DEF View
<1>3. ASSUME NEW open \in BOOLEAN
      PROVE  View([f EXCEPT !.toks = @ + 1, !.open = open]) = [at |-> f.at, open |-> open]
  BY <1>1 DEF View
<1>. QED  BY <1>1, <1>2, <1>3 DEF View

LEMMA LastOnly ==
  ASSUME NEW c \in Seq(Context), c # <<>>, NEW k \in Context, NEW e, e = Append(Front(c), k)
  PROVE  TopOnly(c, e) /\ e[Len(c)] = k /\ c[Len(c)] = Last(c)
<1>1. /\ Front(c) \in Seq(Context) /\ Len(c) \in Nat \ {0} /\ Len(Front(c)) = Len(c) - 1
      /\ Last(c) = c[Len(c)]
      /\ \A i \in 1..(Len(c) - 1) : Front(c)[i] = c[i]
  BY FrontLast
<1>2. /\ Len(e) = Len(c) /\ e[Len(c)] = k
      /\ \A i \in 1..(Len(c) - 1) : e[i] = c[i]
  BY <1>1, AppendFacts
<1>. QED  BY <1>1, <1>2 DEF TopOnly

LEMMA SameTop ==
  ASSUME NEW c \in Seq(Context)
  PROVE  TopOnly(c, c) /\ Stays(c[Len(c)], c[Len(c)])
<1>1. Len(c) \in Nat
  OBVIOUS
<1>. QED  BY <1>1 DEF TopOnly, Stays

(* lisp_read goes on.                                                      *)
LEMMA ReadOrder ==
  ASSUME StackInv, OrderInv, Running("read"), NEW g \in Frame, g.fn = "read", Goto(g),
         NEW k \in Context, SetTop(k), Fits(Top, View(Last(frames))) => Fits(k, View(g))
  PROVE  OrderInv'
<1>1. frames # <<>> /\ Last(frames).fn = "read" /\ g.fn = Last(frames).fn
  BY DEF Running
<1>2. /\ frames \in Seq(Frame) /\ ichan \in Seq(Context) /\ ichan # <<>>
      /\ frames' = Append(Front(frames), g) /\ ichan' = Append(Front(ichan), k)
  BY <1>1, TopExists, ContextExists DEF Goto, SetTop, Readers
<1>3. TopOnly(ichan, ichan') /\ ichan'[Len(ichan)] = k /\ ichan[Len(ichan)] = Top
  BY <1>2, LastOnly DEF Top
<1>4. Ordered(Append(Front(frames), g), ichan')
  BY <1>1, <1>2, <1>3, GotoOrder DEF OrderInv
<1>. QED  BY <1>2, <1>4 DEF OrderInv

LEMMA TopUnchanged ==
  ASSUME StackInv, Running("read"), UNCHANGED ichan
  PROVE  SetTop(Top) /\ Top \in Context
<1>0. frames # <<>> /\ Last(frames).fn \in Readers
  BY DEF Running, Readers
<1>1. ichan \in Seq(Context) /\ ichan # <<>> /\ Top \in Context
  BY <1>0, TopExists, ContextExists
<1>. QED  BY <1>1, FrontLast DEF SetTop, Top

(* The caller notes where it goes on: the stack below a call.              *)
LEMMA CallerOrder ==
  ASSUME StackInv, OrderInv, frames # <<>>, NEW g \in Frame, g.fn = Last(frames).fn,
         g.fn = "read" => View(g) = View(Last(frames)),
         NEW u, u = Append(Front(frames), g)
  PROVE  u \in Seq(Frame) /\ u # <<>> /\ Ordered(u, ichan)
<1>1. frames \in Seq(Frame) /\ ichan \in Seq(Context)
  BY TopExists
<1>2. TopOnly(ichan, ichan) /\ Stays(ichan[Len(ichan)], ichan[Len(ichan)])
  BY <1>1, SameTop
<1>3. Ordered(Append(Front(frames), g), ichan)
  BY <1>1, <1>2, GotoOrder DEF OrderInv
<1>4. Front(frames) \in Seq(Frame)
  BY <1>1, FrontLast
<1>. QED  BY <1>3, <1>4, AppendFacts

(* A step of a form, or of the parse of -e, that calls nothing.            *)
LEMMA OpOrder ==
  ASSUME StackInv, OrderInv, frames # <<>>, NEW g \in Frame, g.fn = Last(frames).fn,
         g.fn # "read", Goto(g), UNCHANGED ichan
  PROVE  OrderInv'
BY CallerOrder DEF Goto, OrderInv

LEMMA CallOrder ==
  ASSUME StackInv, OrderInv, frames # <<>>, NEW g \in Frame, g.fn = Last(frames).fn,
         g.fn = "read" => View(g) = View(Last(frames)),
         NEW f \in Frame, f.fn \notin Inputs,
         f.fn = "read" => /\ NoReader(Append(Front(frames), g))
                          /\ f.at = "start" /\ ~f.open,
         GotoCall(g, f), UNCHANGED ichan
  PROVE  OrderInv'
<1> DEFINE u == Append(Front(frames), g)
<1>1. u \in Seq(Frame) /\ u # <<>> /\ Ordered(u, ichan)
  BY CallerOrder
<1>2. frames' = Append(u, f) /\ Len(ichan) \in Nat
  BY TopExists DEF GotoCall
<1>3. f.fn = "read" => NoReader(u) /\ f.at = "start" /\ ~f.open
  OBVIOUS
<1>. HIDE DEF u
<1>4. Ordered(Append(u, f), ichan)
  BY <1>1, <1>2, <1>3, PushOrder
<1>. QED  BY <1>2, <1>4 DEF OrderInv

(* The functions of the stack decide whether the top is being read.        *)
LEMMA SameReader ==
  ASSUME NEW s \in Seq(Frame), s # <<>>, NEW g \in Frame, g.fn = Last(s).fn, NoReader(s)
  PROVE  NoReader(Append(Front(s), g))
<1> DEFINE t == Append(Front(s), g)
<1>1. /\ Front(s) \in Seq(Frame) /\ Len(s) \in Nat \ {0} /\ Len(Front(s)) = Len(s) - 1
      /\ Last(s) = s[Len(s)]
      /\ \A i \in 1..(Len(s) - 1) : Front(s)[i] = s[i]
  BY FrontLast
<1>2. /\ Len(t) = Len(s) /\ t[Len(s)] = g
      /\ \A i \in 1..(Len(s) - 1) : t[i] = s[i]
  BY <1>1, AppendFacts
<1>. HIDE DEF t
<1>3. \A i \in 1..Len(s) : i \in 1..(Len(s) - 1) \/ i = Len(s)
  BY <1>1
<1>4. \A i \in 1..Len(s) : t[i].fn = s[i].fn
  BY <1>1, <1>2, <1>3
<1>5. \A i \in 1..Len(s) : \A j \in i..Len(s) : j \in 1..Len(s)
  BY <1>1
<1>6. NoReader(t)
  BY <1>2, <1>4, <1>5 DEF NoReader
<1>. QED  BY <1>6 DEF t

(* The loop learns what lisp_read returned.                                *)
LEMMA LoopTold ==
  ASSUME NEW r \in Seq(Frame), r # <<>>, Last(r).fn \in {"repl", "file"},
         NEW at \in {"value", "null"}
  PROVE  \E g \in Frame : /\ g.fn = Last(r).fn
                          /\ [r EXCEPT ![Len(r)].at = at] = Append(Front(r), g)
<1> DEFINE g == [Last(r) EXCEPT !.at = at]
<1>1. /\ Last(r) \in Frame /\ Last(r) = r[Len(r)] /\ Len(r) \in DOMAIN r
      /\ Len(r) \in Nat \ {0}
  BY FrontLast
<1>2. g \in Frame /\ g.fn = Last(r).fn
  BY <1>1 DEF Frame
<1>3. [r EXCEPT ![Len(r)].at = at] = [r EXCEPT ![Len(r)] = g]
  BY <1>1
<1>. HIDE DEF g
<1>5. ASSUME NEW q \in Seq(Frame), q # <<>>, NEW h \in Frame
      PROVE  [q EXCEPT ![Len(q)] = h] = Append(Front(q), h)
  BY <1>5, LastReplaced
<1>4. [r EXCEPT ![Len(r)] = g] = Append(Front(r), g)
  BY <1>2, <1>5
<1>. QED  BY <1>2, <1>3, <1>4

(* lisp_read returns; k is what it leaves of the context.                  *)
LEMMA ReturnOrder ==
  ASSUME NEW s, StackOK(s), s # <<>>, Last(s).fn = "read",
         NEW c \in Seq(Context), c # <<>>, Ordered(s, c),
         NEW k \in Context, Fits(Last(c), View(Last(s))) => Fits(k, NoRead),
         NEW e, e = Append(Front(c), k)
  PROVE  /\ Ordered(Front(s), e)
         /\ Last(Front(s)).fn \in {"repl", "file"} =>
              \A at \in {"value", "null"} :
                Ordered([Front(s) EXCEPT ![Len(Front(s))].at = at], e)
<1> DEFINE r == Front(s)
<1>1. r # <<>> /\ s \in Seq(Frame) /\ r \in Seq(Frame)
  <2>1. StackOK(r) /\ r # <<>>
    BY Popped DEF Tops
  <2>. QED  BY <2>1 DEF StackOK
<1>2. "read" \notin Inputs
  BY DEF Inputs
<1>3. TopOnly(c, e) /\ e[Len(c)] = k /\ c[Len(c)] = Last(c)
  BY LastOnly
<1>4. Ordered(r, e)
  BY <1>1, <1>2, <1>3, PopOrder
<1>5. e \in Seq(Context) /\ e # <<>>
  <2>1. Front(c) \in Seq(Context)
    BY FrontLast
  <2>. QED  BY <2>1, AppendFacts
<1>6. TopOnly(e, e) /\ Stays(e[Len(e)], e[Len(e)])
  BY <1>5, SameTop
<1>. HIDE DEF r
<1>7. ASSUME Last(r).fn \in {"repl", "file"}, NEW at \in {"value", "null"}
      PROVE  Ordered([r EXCEPT ![Len(r)].at = at], e)
  <2>1. PICK g \in Frame : /\ g.fn = Last(r).fn
                           /\ [r EXCEPT ![Len(r)].at = at] = Append(Front(r), g)
    BY <1>1, <1>7, LoopTold
  <2>2. g.fn # "read"
    BY <2>1, <1>7
  <2>3. Ordered(Append(Front(r), g), e)
    BY <2>1, <2>2, <1>1, <1>4, <1>6, GotoOrder
  <2>. QED  BY <2>1, <2>3
<1>. QED  BY <1>4, <1>7 DEF r

LEMMA LexOrder == ASSUME StackInv, OrderInv, LexStep PROVE OrderInv'
<1> DEFINE f == Last(frames)
<1>0. ReaderStep
  BY DEF LexStep
<1>1. ASSUME Running("read")
      PROVE  /\ f \in Frame /\ f.fn = "read" /\ frames # <<>> /\ Top \in Context
             /\ f.open \in BOOLEAN
             /\ f.at \in {"start", "fgets", "lex", "pop"} => View(f) = [at |-> f.at, open |-> f.open]
  <2>1. frames # <<>> /\ f.fn = "read" /\ Last(frames).fn \in Readers
    BY <1>1 DEF Running, Readers
  <2>2. f \in Frame /\ Top \in Context
    BY <2>1, TopExists, ContextExists
  <2>. QED  BY <2>1, <2>2, ReadViews
<1>2. CASE ReadStart
  <2>1. Running("read") /\ f.at = "start" /\ UNCHANGED ichan
    BY <1>2 DEF ReadStart, Here
  <2>2. PICK at \in {"fgets", "pop"} : Goto(At(at))
    BY <1>2 DEF ReadStart
  <2>3. /\ At(at) \in Frame /\ At(at).fn = "read"
        /\ View(At(at)) = [at |-> at, open |-> f.open]
    BY <1>1, <2>1, ReadFrames, ReadViews DEF At
  <2>4. Fits(Top, View(f)) => Fits(Top, View(At(at)))
    BY <1>1, <2>1, <2>3, StartFits
  <2>5. SetTop(Top)
    BY <1>1, <2>1, TopUnchanged
  <2>. QED  BY <1>1, <2>1, <2>2, <2>3, <2>4, <2>5, ReadOrder
<1>3. CASE FgetsLine
  <2> DEFINE g == [At("lex") EXCEPT !.toks = 0]
             k == [Top EXCEPT !.lines = IF Top.endless THEN @ ELSE @ - 1]
  <2>1. Running("read") /\ f.at = "fgets" /\ Top.lines > 0 /\ Goto(g) /\ SetTop(k)
    BY <1>3 DEF FgetsLine, Here
  <2>2. g \in Frame /\ g.fn = "read" /\ View(g) = [at |-> "lex", open |-> f.open]
    BY <1>1, <2>1, ReadFrames, ReadViews DEF At
  <2>3. k \in Context /\ Top.lines # 0
    BY <1>1, <2>1 DEF Context
  <2>4. Fits(Top, View(f)) => Fits(k, View(g))
    BY <1>1, <2>1, <2>2, <2>3, LineFits
  <2>. HIDE DEF g, k
  <2>. QED  BY <2>1, <2>2, <2>3, <2>4, ReadOrder
<1>4. CASE FgetsEof
  <2> DEFINE k == [Top EXCEPT !.lines = 0]
  <2>1. Running("read") /\ f.at = "fgets" /\ Goto(At("pop")) /\ SetTop(k)
    BY <1>4 DEF FgetsEof, Here
  <2>2. /\ At("pop") \in Frame /\ At("pop").fn = "read"
        /\ View(At("pop")) = [at |-> "pop", open |-> f.open]
    BY <1>1, <2>1, ReadFrames, ReadViews DEF At
  <2>3. k \in Context
    BY <1>1, <2>1 DEF Context
  <2>4. Fits(Top, View(f)) => Fits(k, View(At("pop")))
    BY <1>1, <2>1, <2>2, EofFits
  <2>. HIDE DEF k
  <2>. QED  BY <2>1, <2>2, <2>3, <2>4, ReadOrder
<1>5. CASE LexWhole \/ LexHead \/ LexTail
  <2>1. Running("read") /\ f.at = "lex" /\ f.toks < MaxTokens
    BY <1>5 DEF LexWhole, LexHead, LexTail, MoreTokens, Here
  <2>2. \A open \in BOOLEAN : /\ Lexed(open) \in Frame /\ Lexed(open).fn = "read"
                              /\ View(Lexed(open)) = [at |-> "lex", open |-> open]
    BY <1>1, <2>1, ReadFrames, ReadViews DEF Lexed
  <2>3. /\ Top.begun \in Number /\ Top.buf \in Seq(Number)
        /\ Advance(Top.begun) \in Number
    BY <1>1, <2>1, Numbers DEF Context
  <2>4. CASE LexHead
    <3> DEFINE k == [Top EXCEPT !.begun = Advance(@)]
    <3>1. f.open = FALSE /\ SetTop(k) /\ Goto(Lexed(TRUE))
      BY <1>1, <2>1, <2>4 DEF LexHead
    <3>2. k \in Context
      BY <1>1, <2>1, <2>3 DEF Context
    <3>3. Fits(Top, View(f)) => Fits(k, View(Lexed(TRUE)))
      BY <1>1, <2>1, <2>2, <3>1, HeadFits
    <3>. HIDE DEF k
    <3>. QED  BY <2>1, <2>2, <3>1, <3>2, <3>3, ReadOrder
  <2>5. ASSUME NEW n \in Number, n = IF f.open THEN Top.begun ELSE Advance(Top.begun),
               SetTop([Top EXCEPT !.buf = Append(@, n), !.begun = n]), Goto(Lexed(FALSE))
        PROVE  OrderInv'
    <3> DEFINE k == [Top EXCEPT !.buf = Append(@, n), !.begun = n]
    <3>1. Append(Top.buf, n) \in Seq(Number)
      BY <2>3, AppendFacts
    <3>2. k \in Context /\ SetTop(k)
      BY <1>1, <2>1, <2>5, <3>1 DEF Context
    <3>3. Fits(Top, View(f)) => Fits(k, View(Lexed(FALSE)))
      BY <1>1, <2>1, <2>2, <2>5, ConsumeFits
    <3>. HIDE DEF k
    <3>. QED  BY <2>1, <2>2, <2>5, <3>2, <3>3, ReadOrder
  <2>6. CASE LexWhole
    <3>1. ~f.open /\ Goto(Lexed(FALSE))
          /\ SetTop([Top EXCEPT !.buf = Append(@, Advance(Top.begun)), !.begun = Advance(Top.begun)])
      BY <2>6 DEF LexWhole, Consume
    <3>. QED  BY <2>3, <2>5, <3>1
  <2>7. CASE LexTail
    <3>1. f.open /\ Goto(Lexed(FALSE))
          /\ SetTop([Top EXCEPT !.buf = Append(@, Top.begun), !.begun = Top.begun])
      BY <2>7 DEF LexTail, Consume
    <3>. QED  BY <2>3, <2>5, <3>1
  <2>. QED  BY <1>5, <2>4, <2>6, <2>7
<1>6. CASE LexEval
  <2>1. /\ Running("read") /\ f.at = "lex" /\ f.toks < MaxTokens /\ f.open = TRUE
        /\ GotoCall(Lexed(TRUE), EvalFrame) /\ UNCHANGED ichan
    BY <1>1, <1>6 DEF LexEval, MoreTokens, Here
  <2>2. /\ Lexed(TRUE) \in Frame /\ Lexed(TRUE).fn = "read"
        /\ View(Lexed(TRUE)) = View(f)
    BY <1>1, <2>1, ReadFrames, ReadViews DEF Lexed
  <2>3. EvalFrame.fn \notin Inputs /\ EvalFrame.fn # "read" /\ EvalFrame \in Frame
    BY Callees DEF Inputs
  <2>. QED  BY <1>1, <2>1, <2>2, <2>3, CallOrder
<1>7. CASE LexEnd
  <2> DEFINE at == IF Top.buf = <<>> \/ f.open THEN "fgets" ELSE "pop"
  <2>1. Running("read") /\ f.at = "lex" /\ UNCHANGED ichan /\ Goto(At(at))
    BY <1>7 DEF LexEnd, Here
  <2>2. at \in {"fgets", "pop"}
    OBVIOUS
  <2>3. Fits(Top, View(f)) => Fits(Top, [at |-> at, open |-> f.open])
    BY <1>1, <2>1, EndFits
  <2>. HIDE DEF at
  <2>4. /\ At(at) \in Frame /\ At(at).fn = "read"
        /\ View(At(at)) = [at |-> at, open |-> f.open]
    BY <1>1, <2>1, <2>2, ReadFrames, ReadViews DEF At
  <2>5. SetTop(Top)
    BY <1>1, <2>1, TopUnchanged
  <2>. QED  BY <1>1, <2>1, <2>3, <2>4, <2>5, ReadOrder
<1>8. CASE ReadPop \/ ReadNull
  <2>1. Running("read") /\ f.at = "pop"
    BY <1>8 DEF ReadPop, ReadNull, Here
  <2>2. PICK at \in {"value", "null"} : ReturnRead(at)
    BY <1>8 DEF ReadPop, ReadNull
  <2>3. /\ StackOK(frames) /\ ichan \in Seq(Context) /\ ichan # <<>>
    BY <1>1, <2>1, ContextExists DEF StackInv, StackTypes, Readers
  <2>4. \E k \in Context : SetTop(k) /\ (Fits(Top, View(f)) => Fits(k, NoRead))
    <3>1. CASE ReadPop
      <4> DEFINE k == [Top EXCEPT !.buf = Tail(@), !.taken = Advance(@)]
      <4>1. Top.buf # <<>> /\ SetTop(k)
        BY <3>1 DEF ReadPop
      <4>2. Tail(Top.buf) \in Seq(Number) /\ Advance(Top.taken) \in Number
        BY <1>1, <2>1, <4>1, Numbers DEF Context
      <4>3. k \in Context
        BY <1>1, <2>1, <4>2 DEF Context
      <4>4. Fits(Top, View(f)) => Fits(k, NoRead)
        BY <1>1, <2>1, <4>1, PopFits
      <4>. HIDE DEF k
      <4>. QED  BY <4>1, <4>3, <4>4
    <3>2. CASE ReadNull
      <4>1. SetTop(Top)
        BY <1>1, <2>1, <3>2, TopUnchanged DEF ReadNull
      <4>2. Fits(Top, View(f)) => Fits(Top, NoRead)
        BY <1>1, <2>1, NullFits
      <4>. QED  BY <4>1, <4>2, <1>1, <2>1
    <3>. QED  BY <1>8, <3>1, <3>2
  <2>5. PICK k \in Context : SetTop(k) /\ (Fits(Top, View(f)) => Fits(k, NoRead))
    BY <2>4
  <2>6. ichan' = Append(Front(ichan), k)
    BY <2>5 DEF SetTop
  <2>7. /\ Ordered(Front(frames), ichan')
        /\ Last(Front(frames)).fn \in {"repl", "file"} =>
             \A a \in {"value", "null"} :
               Ordered([Front(frames) EXCEPT ![Len(Front(frames))].at = a], ichan')
    BY <1>1, <2>1, <2>3, <2>5, <2>6, ReturnOrder DEF OrderInv, Top
  <2>. QED  BY <2>2, <2>7 DEF ReturnRead, OrderInv
<1>. QED  BY <1>0, <1>2, <1>3, <1>4, <1>5, <1>6, <1>7, <1>8 DEF ReaderStep

-----------------------------------------------------------------------------
(* A call opens a context for the function it calls.                       *)
LEMMA OpenedOrder ==
  ASSUME StackInv, OrderInv, frames # <<>>, NEW g \in Frame, g.fn = Last(frames).fn,
         g.fn # "read", NEW f \in Frame, f.fn \in Inputs,
         NEW n \in Nat, NEW e \in BOOLEAN, NEW c, c = Append(ichan, Channel(n, e)),
         NEW t, t = Append(Append(Front(frames), g), f)
  PROVE  t \in Seq(Frame) /\ t # <<>> /\ c \in Seq(Context) /\ Ordered(t, c)
<1> DEFINE u == Append(Front(frames), g)
           k == Channel(n, e)
<1>1. u \in Seq(Frame) /\ u # <<>> /\ Ordered(u, ichan)
  BY CallerOrder
<1>2. k \in Context /\ Fits(k, NoRead)
  BY FreshFits
<1>3. ichan \in Seq(Context)
  BY DEF StackInv, StackTypes
<1>4. t = Append(u, f) /\ c = Append(ichan, k)
  OBVIOUS
<1>. HIDE DEF u, k
<1>5. Ordered(Append(u, f), Append(ichan, k))
  BY <1>1, <1>2, <1>3, OpenOrder
<1>. QED  BY <1>1, <1>2, <1>3, <1>4, <1>5, AppendFacts

(* The loops call lisp_read only when it is not running on their context.  *)
LEMMA LoopOrder ==
  ASSUME StackInv, OrderInv, RunRead \/ FileRead \/ RunEval \/ FileEval \/ ExprEval
  PROVE  OrderInv'
<1>1. frames # <<>> /\ UNCHANGED ichan
  BY DEF RunRead, FileRead, RunEval, FileEval, ExprEval, Here, Running
<1>2. frames \in Seq(Frame) /\ Last(frames) \in Frame /\ StackOK(frames)
  BY <1>1, TopExists DEF StackInv, StackTypes
<1>3. CASE RunRead \/ FileRead
  <2>1. Last(frames).fn \in {"repl", "file"} /\ Call(ReadFrame)
    BY <1>3 DEF RunRead, FileRead, Here, Running
  <2>2. Append(Front(frames), Last(frames)) = frames
    BY <1>1, <1>2, FrontLast
  <2>3. GotoCall(Last(frames), ReadFrame)
    BY <2>1, <2>2 DEF GotoCall, Call
  <2>4. /\ Len(frames) \in Nat \ {0} /\ DOMAIN frames = 1..Len(frames)
        /\ Last(frames) = frames[Len(frames)]
    BY <1>1, <1>2, FrontLast
  <2>5. NoReader(frames)
    <3>1. CASE Last(frames).fn = "file"
      <4>1. ASSUME NEW i \in 1..Len(frames)
            PROVE  \E j \in i..Len(frames) : frames[j].fn \in {"in", "file"}
        <5>1. Len(frames) \in i..Len(frames)
          BY <2>4
        <5>. QED  BY <5>1, <3>1, <2>4
      <4>. QED  BY <4>1 DEF NoReader
    <3>2. CASE Last(frames).fn = "repl"
      <4>1. Len(frames) \in DOMAIN frames /\ frames[Len(frames)].fn \in Tops
        BY <3>2, <2>4 DEF Tops
      <4>2. Len(frames) = 1
        BY <4>1, <1>2 DEF StackOK
      <4>3. ASSUME NEW i \in 1..Len(frames) PROVE frames[i].fn # "read"
        <5>1. i = 1
          BY <4>2
        <5>. QED  BY <5>1, <4>2, <3>2, <2>4
      <4>. QED  BY <4>3 DEF NoReader
    <3>. QED  BY <2>1, <3>1, <3>2
  <2>6. ReadFrame \in Frame /\ ReadFrame.fn = "read" /\ ReadFrame.fn \notin Inputs
        /\ ReadFrame.at = "start" /\ ~ReadFrame.open
    BY Callees DEF Inputs, ReadFrame
  <2>. QED  BY <1>1, <1>2, <2>2, <2>3, <2>5, <2>6, CallOrder
<1>4. CASE RunEval \/ FileEval \/ ExprEval
  <2>1. \E g \in Frame : /\ g.fn = Last(frames).fn /\ g.fn # "read"
                         /\ GotoCall(g, EvalFrame)
    <3>1. CASE RunEval \/ FileEval
      <4>1. Last(frames).fn \in {"repl", "file"} /\ GotoCall(At("read"), EvalFrame)
        BY <3>1 DEF RunEval, FileEval, Here, Running
      <4>2. At("read") \in Frame /\ At("read").fn = Last(frames).fn
        BY <4>1, <1>2 DEF At, Frame
      <4>. QED  BY <4>1, <4>2
    <3>2. CASE ExprEval
      <4> DEFINE g == [Last(frames) EXCEPT !.left = @ - 1]
      <4>1. Last(frames).fn = "expr" /\ Last(frames).left > 0 /\ GotoCall(g, EvalFrame)
        BY <3>2 DEF ExprEval, Running
      <4>2. Last(frames) \in [fn : {"expr"}, left : 0..MaxExprs]
        BY <4>1, <1>2 DEF Frame
      <4>3. Last(frames).left - 1 \in 0..MaxExprs
        BY <4>1, <4>2, SessionAssumption
      <4>4. g \in Frame /\ g.fn = "expr"
        BY <4>2, <4>3 DEF Frame
      <4>. HIDE DEF g
      <4>. QED  BY <4>1, <4>4
    <3>. QED  BY <1>4, <3>1, <3>2
  <2>2. EvalFrame \in Frame /\ EvalFrame.fn \notin Inputs /\ EvalFrame.fn # "read"
    BY Callees DEF Inputs
  <2>. QED  BY <1>1, <2>1, <2>2, CallOrder
<1>. QED  BY <1>3, <1>4

(* The parse of -e.                                                        *)
LEMMA ParseOrder ==
  ASSUME StackInv, OrderInv, ParseForm \/ ParseEval
  PROVE  OrderInv'
<1>1. /\ frames # <<>> /\ Last(frames) \in Frame /\ Last(frames).fn = "parse"
  BY NoContextYet DEF ParseForm, ParseEval
<1>2. UNCHANGED ichan
  BY DEF ParseForm, ParseEval
<1>3. CASE ParseForm
  <2>1. PICK g \in Frame : g.fn = "parse" /\ Goto(g)
    BY <1>1, <1>3, ParseFrames DEF ParseForm
  <2>. QED  BY <1>1, <1>2, <2>1, OpOrder
<1>4. CASE ParseEval
  <2>1. PICK g \in Frame : g.fn = "parse" /\ GotoCall(g, EvalFrame)
    BY <1>1, <1>4, ParseFrames DEF ParseEval
  <2>2. EvalFrame \in Frame /\ EvalFrame.fn \notin Inputs /\ EvalFrame.fn # "read"
    BY Callees DEF Inputs
  <2>. QED  BY <1>1, <1>2, <2>1, <2>2, CallOrder
<1>. QED  BY <1>3, <1>4

LEMMA FormOrder ==
  ASSUME StackInv, OrderInv, Op,
         EvalQuit \/ EvalRead \/ EvalReadline \/ EvalModule \/ EvalLoad \/ EvalIn \/ EvalOut
  PROVE  OrderInv'
<1>1. /\ frames # <<>> /\ Last(frames).fn = "eval"
      /\ Counted \in Frame /\ Counted.fn = "eval"
  BY CountedFrame
<1>2. frames \in Seq(Frame) /\ ichan \in Seq(Context) /\ Len(ichan) \in Nat
  BY <1>1, TopExists
<1>3. \E g \in Frame : g = Counted
  BY <1>1
<1>4. PICK g \in Frame : g = Counted
  BY <1>3
<1>5. g.fn = "eval" /\ g.fn = Last(frames).fn /\ g.fn # "read"
  BY <1>1, <1>4
<1>6. EvalFrame \in Frame /\ EvalFrame.fn \notin Inputs /\ EvalFrame.fn # "read"
  BY Callees DEF Inputs
<1>7. CASE UNCHANGED ichan /\ Goto(g)
  BY <1>1, <1>5, <1>7, OpOrder
<1>8. CASE EvalReadline
  <2> DEFINE f == [fn |-> "readline"]
  <2>1. GotoCall(g, f) /\ UNCHANGED ichan
    BY <1>4, <1>8 DEF EvalReadline
  <2>2. f \in Frame /\ f.fn \notin Inputs /\ f.fn # "read"
    BY DEF Frame, Inputs
  <2>. HIDE DEF f
  <2>. QED  BY <1>1, <1>5, <2>1, <2>2, CallOrder
<1>9. CASE EvalRead
  <2>1. GotoCall(g, ReadFrame) /\ UNCHANGED ichan /\ ~ReadingTop
    BY <1>4, <1>9 DEF EvalRead
  <2>2. NoReader(frames)
    <3>1. DOMAIN frames = 1..Len(frames)
      BY <1>2
    <3>. QED  BY <2>1, <3>1 DEF NoReader, ReadingTop
  <2>3. NoReader(Append(Front(frames), g))
    BY <1>1, <1>2, <1>5, <2>2, SameReader
  <2>4. ReadFrame \in Frame /\ ReadFrame.fn = "read" /\ ReadFrame.fn \notin Inputs
        /\ ReadFrame.at = "start" /\ ~ReadFrame.open
    BY Callees DEF Inputs, ReadFrame
  <2>. QED  BY <1>1, <1>5, <2>1, <2>3, <2>4, CallOrder
<1>10. CASE /\ \E n \in 0..MaxLines : ichan' = Append(ichan, Channel(n, FALSE))
            /\ GotoCall(g, FileFrame)
  <2>1. PICK n \in 0..MaxLines : ichan' = Append(ichan, Channel(n, FALSE))
    BY <1>10
  <2>2. n \in Nat /\ FALSE \in BOOLEAN
    BY <2>1, SessionAssumption
  <2>3. FileFrame \in Frame /\ FileFrame.fn \in Inputs
    BY Callees DEF Inputs
  <2>4. Ordered(frames', ichan')
    BY <1>1, <1>5, <1>10, <2>1, <2>2, <2>3, OpenedOrder DEF GotoCall
  <2>. QED  BY <2>4 DEF OrderInv
<1>11. CASE /\ \E n \in 0..MaxLines : ichan' = Append(ichan, Channel(n, FALSE))
            /\ frames' = Front(frames) \o <<g, [fn |-> "in"], EvalFrame>>
  <2> DEFINE f == [fn |-> "in"]
             e == EvalFrame
             t == Append(Append(Front(frames), g), f)
  <2>1. PICK n \in 0..MaxLines : ichan' = Append(ichan, Channel(n, FALSE))
    BY <1>11
  <2>2. n \in Nat /\ FALSE \in BOOLEAN
    BY <2>1, SessionAssumption
  <2>3. f \in Frame /\ f.fn \in Inputs
    BY DEF Frame, Inputs
  <2>4. Front(frames) \in Seq(Frame)
    BY <1>1, <1>2, FrontLast
  <2>5. frames' = Append(t, e)
    BY <1>6, <1>11, <2>3, <2>4, Concat
  <2>6. t = Append(Append(Front(frames), g), f)
    OBVIOUS
  <2>7. e \in Frame /\ e.fn \notin Inputs /\ e.fn # "read"
    BY <1>6
  <2>. HIDE DEF f, e, t
  <2>8. t \in Seq(Frame) /\ t # <<>> /\ ichan' \in Seq(Context) /\ Ordered(t, ichan')
    BY <1>1, <1>5, <2>1, <2>2, <2>3, <2>6, OpenedOrder
  <2>9. Len(ichan') \in Nat
    BY <2>8
  <2>10. Ordered(Append(t, e), ichan')
    BY <2>7, <2>8, <2>9, PushOrder
  <2>. QED  BY <2>5, <2>10 DEF OrderInv
<1>12. CASE /\ UNCHANGED ichan
            /\ frames' = Front(frames) \o <<g, [fn |-> "out"], EvalFrame>>
  <2> DEFINE f == [fn |-> "out"]
             e == EvalFrame
             u == Append(Front(frames), g)
             t == Append(u, f)
  <2>3. f \in Frame /\ f.fn \notin Inputs /\ f.fn # "read"
    BY DEF Frame, Inputs
  <2>4. Front(frames) \in Seq(Frame)
    BY <1>1, <1>2, FrontLast
  <2>5. frames' = Append(t, e)
    BY <1>6, <1>12, <2>3, <2>4, Concat
  <2>6. u \in Seq(Frame) /\ u # <<>> /\ Ordered(u, ichan)
    BY <1>1, <1>5, CallerOrder
  <2>7. e \in Frame /\ e.fn \notin Inputs /\ e.fn # "read"
    BY <1>6
  <2>. HIDE DEF f, e, u
  <2>8. t \in Seq(Frame) /\ t # <<>>
    BY <2>3, <2>6, AppendFacts
  <2>9. Ordered(t, ichan)
    BY <1>2, <2>3, <2>6, PushOrder
  <2>. HIDE DEF t
  <2>10. Ordered(Append(t, e), ichan)
    BY <1>2, <2>7, <2>8, <2>9, PushOrder
  <2>. QED  BY <1>12, <2>5, <2>10 DEF OrderInv
<1>13. CASE EvalQuit \/ EvalModule
  BY <1>4, <1>7, <1>13 DEF EvalQuit, EvalModule
<1>14. CASE EvalLoad
  BY <1>4, <1>7, <1>10, <1>14 DEF EvalLoad
<1>15. CASE EvalIn
  BY <1>4, <1>7, <1>11, <1>15 DEF EvalIn
<1>16. CASE EvalOut
  BY <1>4, <1>7, <1>12, <1>16 DEF EvalOut
<1>. QED  BY <1>8, <1>9, <1>13, <1>14, <1>15, <1>16

(* The returns, and the end of the last function.                          *)
LEMMA EndOrder ==
  ASSUME StackInv, StackInv', OrderInv,
         EvalReturn \/ ReadlineEnd \/ InEnd \/ OutEnd \/ FileEnd \/ LoopEnds \/ Segfault
  PROVE  OrderInv'
<1>1. /\ frames # <<>>
      /\ frames' = <<>> \/ frames' = Front(frames)
      /\ \/ frames' = <<>>
         \/ Last(frames).fn \in {"eval", "out"} /\ UNCHANGED ichan
         \/ Last(frames).fn \in {"file", "in"} /\ ichan' = Front(ichan)
         \/ Last(frames).fn = "readline" /\ ReadlineEnd
  BY DEF EvalReturn, ReadlineEnd, InEnd, OutEnd, FileEnd, LoopEnds, Segfault, Op,
     Running, Here
<1>2. /\ frames \in Seq(Frame) /\ ichan \in Seq(Context)
  BY <1>1, TopExists
<1>3. CASE frames' = <<>>
  <2>1. ichan' \in Seq(Context) /\ Len(ichan') = 0
    BY <1>3, OwnersEmpty DEF StackInv, StackTypes, Counts
  <2>2. ichan' = <<>>
    BY <2>1
  <2>. QED  BY <1>3, <2>2, EmptyOrder DEF OrderInv
<1>4. CASE frames' # <<>> /\ Last(frames).fn \in {"eval", "out"} /\ UNCHANGED ichan
  <2>1. TopOnly(ichan, ichan) /\ Stays(ichan[Len(ichan)], ichan[Len(ichan)])
    BY <1>2, SameTop
  <2>2. Last(frames).fn \notin Inputs /\ Last(frames).fn # "read" /\ Front(frames) # <<>>
    BY <1>1, <1>4 DEF Inputs
  <2>3. Ordered(Front(frames), ichan)
    BY <1>1, <1>2, <2>1, <2>2, PopOrder DEF OrderInv
  <2>. QED  BY <2>3, <1>1, <1>4 DEF OrderInv
<1>5. CASE frames' # <<>> /\ Last(frames).fn \in {"file", "in"} /\ ichan' = Front(ichan)
  <2>1. Last(frames).fn \in Inputs /\ Front(frames) # <<>> /\ ichan # <<>>
    BY <1>1, <1>5, ContextExists DEF Inputs
  <2>2. Ordered(Front(frames), Front(ichan))
    BY <1>1, <1>2, <2>1, CloseOrder DEF OrderInv
  <2>. QED  BY <2>2, <1>1, <1>5 DEF OrderInv
<1>6. CASE frames' # <<>> /\ Last(frames).fn = "readline" /\ ReadlineEnd
  <2> DEFINE k == [Top EXCEPT !.lines = IF @ = 0 \/ Top.endless THEN @ ELSE @ - 1]
  <2>1. Last(frames).fn \notin Inputs /\ Last(frames).fn # "read"
        /\ Last(frames).fn \in Readers /\ Front(frames) # <<>>
    BY <1>1, <1>6 DEF Inputs, Readers
  <2>2. Top \in Context /\ ichan # <<>> /\ ichan' = Append(Front(ichan), k)
    BY <1>1, <1>6, <2>1, ContextExists DEF ReadlineEnd, SetTop
  <2>3. k \in Context
    BY <2>2 DEF Context
  <2>4. Stays(Top, k)
    BY <2>2, ReadlineStays
  <2>. HIDE DEF k
  <2>5. TopOnly(ichan, ichan') /\ ichan'[Len(ichan)] = k /\ ichan[Len(ichan)] = Top
    BY <1>2, <2>2, <2>3, LastOnly DEF Top
  <2>6. Stays(ichan[Len(ichan)], ichan'[Len(ichan)])
    BY <2>4, <2>5
  <2>7. Ordered(Front(frames), ichan')
    BY <1>1, <1>2, <2>1, <2>5, <2>6, PopOrder DEF OrderInv
  <2>. QED  BY <2>7, <1>1, <1>6 DEF OrderInv
<1>. QED  BY <1>1, <1>3, <1>4, <1>5, <1>6

(* The parse of -e begins without a context.                               *)
LEMMA StartExprOrder == ASSUME StackInv, StartExpr PROVE OrderInv'
<1>1. ichan = <<>>
  <2>1. frames = <<>> /\ Len(ichan) = Owners(frames, Inputs) /\ ichan \in Seq(Context)
    BY DEF StartExpr, StackInv, StackTypes, Counts
  <2>2. Len(ichan) = 0
    BY <2>1, OwnersEmpty
  <2>. QED  BY <2>1, <2>2
<1>2. frames' = <<ParseFrame>> /\ ichan' = <<>>
  BY <1>1 DEF StartExpr
<1>3. Depths(<<ParseFrame>>, <<0>>, 0)
  <2>1. /\ Len(<<ParseFrame>>) = 1 /\ <<0>> \in Seq(Nat) /\ Len(<<0>>) = 1
        /\ <<0>>[1] = 0
    OBVIOUS
  <2>2. (\A i, j \in 1..1 : ~(i < j)) /\ (\A i \in 2..1 : FALSE)
    OBVIOUS
  <2>. QED  BY <2>1, <2>2 DEF Depths
<1>4. Len(<<>>) = 0 /\ 1..0 = {}
  OBVIOUS
<1>. QED  BY <1>2, <1>3, <1>4 DEF Ordered, OrderInv

(* main begins a loop with a fresh context.                                *)
LEMMA FreshOrder ==
  ASSUME NEW f \in Frame, f.fn # "read", frames' = <<f>>,
         NEW n \in Nat, NEW e \in BOOLEAN, ichan' = <<Channel(n, e)>>
  PROVE  OrderInv'
<1> DEFINE k == Channel(n, e)
<1>5. k \in Context /\ Fits(k, NoRead) /\ ichan' = <<k>>
  BY FreshFits
<1>. HIDE DEF k
<1>6. /\ <<f>> \in Seq(Frame) /\ Len(<<f>>) = 1 /\ <<f>>[1] = f
      /\ <<1>> \in Seq(Nat) /\ Len(<<1>>) = 1 /\ <<1>>[1] = 1
      /\ Len(<<k>>) = 1 /\ <<k>>[1] = k
  OBVIOUS
<1>7. Depths(<<f>>, <<1>>, 1)
  <2>1. \A i, j \in 1..1 : ~(i < j)
    OBVIOUS
  <2>2. \A i \in 2..1 : FALSE
    OBVIOUS
  <2>. QED  BY <1>6, <2>1, <2>2 DEF Depths
<1>8. Shows(<<f>>, <<1>>, 1, NoRead)
  <2>1. \A i \in 1..1 : i = 1
    OBVIOUS
  <2>. QED  BY <1>6, <2>1 DEF Shows, ReadAt
<1>9. Ordered(<<f>>, <<k>>)
  <2>1. \A d \in 1..1 : d = 1
    OBVIOUS
  <2>. QED  BY <1>5, <1>6, <1>7, <1>8, <2>1 DEF Ordered
<1>. QED  BY <1>5, <1>9 DEF OrderInv

LEMMA StartOrder ==
  ASSUME StackInv, StartRepl \/ StartFile \/ ParseEnds
  PROVE  /\ OrderInv' /\ ichan = <<>>
         /\ \E n \in Nat, e \in BOOLEAN : ichan' = <<Channel(n, e)>>
<1>0. ichan = <<>>
  <2>1. CASE StartRepl \/ StartFile
    <3>1. frames = <<>> /\ Len(ichan) = Owners(frames, Inputs) /\ ichan \in Seq(Context)
      BY <2>1 DEF StartRepl, StartFile, StackInv, StackTypes, Counts
    <3>2. Len(ichan) = 0
      BY <3>1, OwnersEmpty
    <3>. QED  BY <3>1, <3>2
  <2>2. CASE ParseEnds
    BY <2>2, NoContextYet DEF ParseEnds
  <2>. QED  BY <2>1, <2>2
<1>1. \E n \in Nat, e \in BOOLEAN : ichan' = <<Channel(n, e)>>
  <2>1. CASE StartRepl
    <3>1. ichan' = <<Channel(1, TRUE)>>
      BY <2>1 DEF StartRepl
    <3>. QED  BY <3>1
  <2>2. CASE StartFile
    <3>1. PICK n \in 0..MaxLines : ichan' = <<Channel(n, FALSE)>>
      BY <2>2 DEF StartFile
    <3>2. n \in Nat
      BY <3>1, SessionAssumption
    <3>. QED  BY <3>1, <3>2
  <2>3. CASE ParseEnds
    <3>1. ichan' = <<Channel(1, TRUE)>>
      BY <2>3, <1>0 DEF ParseEnds
    <3>. QED  BY <3>1
  <2>. QED  BY <2>1, <2>2, <2>3
<1>2. \E f \in Frame : frames' = <<f>> /\ f.fn # "read"
  <2>1. CASE StartRepl \/ StartFile
    <3>1. frames' = <<ReplFrame>> \/ frames' = <<FileFrame>>
      BY <2>1 DEF StartRepl, StartFile
    <3>. QED  BY <3>1, Callees
  <2>2. CASE ParseEnds
    <3>1. Last(frames) \in Frame /\ Last(frames).fn = "parse"
      BY <2>2, NoContextYet DEF ParseEnds
    <3>2. /\ ExprFrame(Last(frames).left) \in Frame
          /\ ExprFrame(Last(frames).left).fn = "expr"
      BY <3>1, ParseFrames
    <3>. QED  BY <2>2, <3>2 DEF ParseEnds
  <2>. QED  BY <2>1, <2>2
<1>. QED  BY <1>0, <1>1, <1>2, FreshOrder

LEMMA NextOrder == StackInv /\ StackInv' /\ OrderInv /\ [Next]_vars => OrderInv'
<1>. SUFFICES ASSUME StackInv, StackInv', OrderInv, [Next]_vars PROVE OrderInv'
  OBVIOUS
<1>1. CASE BootFails \/ Boot \/ StartFileFails \/ Signal \/ Fini \/ Delete \/ Done \/ UNCHANGED vars
  <2>1. UNCHANGED readerVars
    BY <1>1 DEF BootFails, Boot, StartFileFails, Signal, Fini, Delete, Done, vars
  <2>. QED  BY <2>1 DEF readerVars, OrderInv
<1>2. CASE StartRepl \/ StartFile \/ ParseEnds
  BY <1>2, StartOrder
<1>7. CASE StartExpr \/ ParseForm \/ ParseEval
  BY <1>7, StartExprOrder, ParseOrder
<1>3. CASE LexStep
  BY <1>3, LexOrder
<1>4. CASE RunRead \/ ExprEval \/ FileRead \/ FileEval \/ RunEval
  BY <1>4, LoopOrder
<1>5. CASE EvalQuit \/ EvalRead \/ EvalReadline \/ EvalModule \/ EvalLoad \/ EvalIn \/ EvalOut
  <2>1. Op
    BY <1>5 DEF EvalQuit, EvalRead, EvalReadline, EvalModule, EvalLoad, EvalIn, EvalOut
  <2>. QED  BY <1>5, <2>1, FormOrder
<1>6. CASE \/ EvalReturn \/ ReadlineEnd \/ InEnd \/ OutEnd \/ FileEnd \/ LoopEnds
           \/ Segfault
  BY <1>6, EndOrder
<1>. QED  BY <1>1, <1>2, <1>3, <1>4, <1>5, <1>6, <1>7 DEF Next, Main

-----------------------------------------------------------------------------
(* The contexts as their promise sees them: what is done to the one is     *)
(* done to the other.                                                      *)
TakenOf(c) == [i \in DOMAIN c |-> c[i].taken]

LEMMA TakenAppend ==
  ASSUME NEW c \in Seq(Context), NEW k \in Context
  PROVE  /\ TakenOf(c) \in Seq(Number) /\ Len(TakenOf(c)) = Len(c)
         /\ TakenOf(Append(c, k)) = Append(TakenOf(c), k.taken)
<1>1. \A x \in Context : x.taken \in Number
  BY DEF Context
<1>2. ASSUME NEW q \in Seq(Context)
      PROVE  TakenOf(q) \in Seq(Number) /\ Len(TakenOf(q)) = Len(q)
  <2>1. DOMAIN q = 1..Len(q) /\ Len(q) \in Nat /\ \A i \in 1..Len(q) : q[i] \in Context
    BY ElementOfSeq
  <2>. QED  BY <2>1, <1>1 DEF TakenOf
<1> DEFINE t == TakenOf(c)
           u == Append(c, k)
           v == Append(t, k.taken)
<1>3. /\ u \in Seq(Context) /\ Len(c) \in Nat /\ Len(u) = Len(c) + 1 /\ u[Len(c) + 1] = k
      /\ DOMAIN u = 1..Len(u) /\ DOMAIN c = 1..Len(c)
      /\ \A i \in 1..Len(c) : u[i] = c[i]
  BY AppendFacts
<1>4. /\ t \in Seq(Number) /\ Len(t) = Len(c) /\ k.taken \in Number
      /\ \A i \in 1..Len(c) : t[i] = c[i].taken
  BY <1>1, <1>2, <1>3 DEF TakenOf
<1>. HIDE DEF t, u
<1>5. /\ v \in Seq(Number) /\ Len(v) = Len(c) + 1 /\ v[Len(c) + 1] = k.taken
      /\ \A i \in 1..Len(c) : v[i] = c[i].taken
  BY <1>4, AppendFacts
<1>. HIDE DEF v
<1>6. /\ TakenOf(u) \in Seq(Number) /\ Len(TakenOf(u)) = Len(u)
      /\ \A i \in 1..Len(u) : TakenOf(u)[i] = u[i].taken
  <2>1. DOMAIN u = 1..Len(u)
    BY <1>3
  <2>. QED  BY <1>2, <1>3, <2>1 DEF TakenOf
<1>7. \A i \in 1..Len(u) : TakenOf(u)[i] = v[i]
  <2>1. \A i \in 1..Len(u) : i \in 1..Len(c) \/ i = Len(c) + 1
    BY <1>3
  <2>. QED  BY <2>1, <1>3, <1>5, <1>6
<1>8. TakenOf(u) = v
  BY <1>3, <1>5, <1>6, <1>7
<1>. QED  BY <1>4, <1>8 DEF t, u, v

LEMMA TakenFront ==
  ASSUME NEW c \in Seq(Context), c # <<>>
  PROVE  /\ TakenOf(c) # <<>> /\ Len(TakenOf(c)) = Len(c)
         /\ Last(TakenOf(c)) = Last(c).taken
         /\ TakenOf(Front(c)) = Front(TakenOf(c))
<1>1. /\ Front(c) \in Seq(Context) /\ Last(c) \in Context /\ c = Append(Front(c), Last(c))
  BY FrontLast
<1>2. /\ TakenOf(Front(c)) \in Seq(Number)
      /\ TakenOf(Append(Front(c), Last(c))) = Append(TakenOf(Front(c)), Last(c).taken)
  BY <1>1, TakenAppend
<1>3. TakenOf(c) = Append(TakenOf(Front(c)), Last(c).taken) /\ Len(TakenOf(c)) = Len(c)
  BY <1>1, <1>2, TakenAppend
<1>4. Last(c).taken \in Number
  BY <1>1 DEF Context
<1>. QED  BY <1>2, <1>3, <1>4, AppendFacts

(* What the promise sees of the steps of the contexts.                     *)
LEMMA SameOperators == \A s : Promise!Front(s) = Front(s) /\ Promise!Last(s) = Last(s)
BY DEF Promise!Front, Front, Promise!Last, Last

LEMMA PromisedOpen ==
  ASSUME ichan \in Seq(Context), NEW n \in Nat, NEW e \in BOOLEAN,
         ichan' = Append(ichan, Channel(n, e)), UNCHANGED got
  PROVE  Promise!Open
<1> DEFINE k == Channel(n, e)
<1>1. k \in Context
  BY FreshFits
<1>2. k.taken = 0
  BY DEF Channel
<1>3. ichan' = Append(ichan, k)
  OBVIOUS
<1>. HIDE DEF k
<1>4. TakenOf(ichan') = Append(TakenOf(ichan), 0)
  BY <1>1, <1>2, <1>3, TakenAppend
<1>. QED  BY <1>4 DEF Promise!Open, TakenOf

LEMMA PromisedClose ==
  ASSUME ichan \in Seq(Context), ichan # <<>>, ichan' = Front(ichan), UNCHANGED got
  PROVE  Promise!Close
<1>1. TakenOf(ichan) # <<>> /\ TakenOf(ichan') = Front(TakenOf(ichan))
  BY TakenFront
<1>. QED  BY <1>1, SameOperators DEF Promise!Close, TakenOf

LEMMA PromisedTake ==
  ASSUME ichan \in Seq(Context), ichan # <<>>, NEW k \in Context, SetTop(k),
         k.taken = Advance(Top.taken), got' = <<Len(ichan), Advance(Top.taken)>>
  PROVE  Promise!Take
<1>1. /\ TakenOf(ichan) # <<>> /\ Len(TakenOf(ichan)) = Len(ichan)
      /\ Last(TakenOf(ichan)) = Top.taken
      /\ TakenOf(Front(ichan)) = Front(TakenOf(ichan))
  BY TakenFront DEF Top
<1>2. Front(ichan) \in Seq(Context)
  BY FrontLast
<1>3. TakenOf(ichan') = Append(Front(TakenOf(ichan)), k.taken)
  BY <1>1, <1>2, TakenAppend DEF SetTop
<1>. QED
  BY <1>1, <1>3, SameOperators DEF Promise!Take, Promise!Succ, Advance, TakenOf

LEMMA PromisedNothing ==
  ASSUME ichan \in Seq(Context), ichan # <<>>, NEW k \in Context, SetTop(k),
         k.taken = Top.taken, UNCHANGED got
  PROVE  UNCHANGED Promise!vars
<1>1. TakenOf(Front(ichan)) = Front(TakenOf(ichan)) /\ Last(TakenOf(ichan)) = Top.taken
  BY TakenFront DEF Top
<1>2. Front(ichan) \in Seq(Context) /\ ichan = Append(Front(ichan), Top) /\ Top \in Context
  BY FrontLast DEF Top
<1>3. TakenOf(ichan') = Append(TakenOf(Front(ichan)), k.taken)
  BY <1>2, TakenAppend DEF SetTop
<1>4. TakenOf(ichan) = Append(TakenOf(Front(ichan)), Top.taken)
  BY <1>2, TakenAppend
<1>. QED  BY <1>3, <1>4 DEF Promise!vars, TakenOf

(* The lisp_read on top of the stack is the one of the context on top.     *)
LEMMA TopFits ==
  ASSUME NEW s \in Seq(Frame), s # <<>>, Last(s).fn = "read",
         NEW c, Len(c) \in Nat \ {0}, Ordered(s, c)
  PROVE  Fits(c[Len(c)], View(Last(s)))
<1>1. PICK o : /\ Depths(s, o, Len(c))
               /\ \A d \in 1..Len(c) : \E st : Shows(s, o, d, st) /\ Fits(c[d], st)
  BY DEF Ordered
<1>2. Len(c) \in 1..Len(c)
  OBVIOUS
<1>3. PICK st : Shows(s, o, Len(c), st) /\ Fits(c[Len(c)], st)
  BY <1>1, <1>2
<1>4. Len(s) \in 1..Len(s) /\ Last(s) = s[Len(s)] /\ o[Len(s)] = Len(c)
  <2>1. Len(s) \in Nat \ {0} /\ Last(s) = s[Len(s)]
    BY FrontLast
  <2>. QED  BY <2>1, <1>1 DEF Depths
<1>5. Len(s) \in ReadAt(s, o, Len(c))
  BY <1>4 DEF ReadAt
<1>6. PICK i \in 1..Len(s) : ReadAt(s, o, Len(c)) = {i} /\ st = View(s[i])
  BY <1>3, <1>5 DEF Shows
<1>7. i = Len(s)
  BY <1>5, <1>6
<1>. QED  BY <1>3, <1>4, <1>6, <1>7

LEMMA LexPromised ==
  ASSUME StackInv, OrderInv, LexStep
  PROVE  Promise!Take \/ UNCHANGED Promise!vars
<1>1. /\ Running("read") /\ frames # <<>> /\ Last(frames).fn = "read" /\ ReaderStep
  BY DEF LexStep, ReaderStep, ReadStart, FgetsLine, FgetsEof, LexWhole, LexHead, LexTail,
     LexEval, LexEnd, ReadPop, ReadNull, MoreTokens, Here, Running
<1>2. /\ frames \in Seq(Frame) /\ Last(frames) \in Frame
      /\ ichan \in Seq(Context) /\ ichan # <<>> /\ Top \in Context
      /\ Len(ichan) \in Nat \ {0}
  BY <1>1, TopExists, ContextExists DEF Readers
<1>3. CASE ReadStart \/ LexEval \/ LexEnd \/ ReadNull
  <2>1. UNCHANGED <<ichan, got>>
    BY <1>3 DEF ReadStart, LexEval, LexEnd, ReadNull
  <2>. QED  BY <2>1 DEF Promise!vars
<1>4. CASE FgetsLine \/ FgetsEof \/ LexWhole \/ LexHead \/ LexTail
  <2>1. \E k \in Context : SetTop(k) /\ k.taken = Top.taken
    <3>1. Top.buf \in Seq(Number) /\ Top.begun \in Number /\ Advance(Top.begun) \in Number
      BY <1>2, Numbers DEF Context
    <3>2. CASE FgetsLine
      <4>1. Top.lines > 0 /\ SetTop([Top EXCEPT !.lines = IF Top.endless THEN @ ELSE @ - 1])
        BY <3>2 DEF FgetsLine
      <4>2. [Top EXCEPT !.lines = IF Top.endless THEN @ ELSE @ - 1] \in Context
        <5>1. Top.lines \in Nat
          BY <1>2 DEF Context
        <5>2. (IF Top.endless THEN Top.lines ELSE Top.lines - 1) \in Nat
          BY <4>1, <5>1
        <5>3. \A n \in Nat : [Top EXCEPT !.lines = n] \in Context
          BY <1>2 DEF Context
        <5>. QED  BY <5>2, <5>3
      <4>3. [Top EXCEPT !.lines = IF Top.endless THEN @ ELSE @ - 1].taken = Top.taken
        BY <1>2 DEF Context
      <4>. QED  BY <4>1, <4>2, <4>3
    <3>3. CASE FgetsEof
      <4>1. SetTop([Top EXCEPT !.lines = 0])
        BY <3>3 DEF FgetsEof
      <4>2. [Top EXCEPT !.lines = 0] \in Context /\ [Top EXCEPT !.lines = 0].taken = Top.taken
        BY <1>2 DEF Context
      <4>. QED  BY <4>1, <4>2
    <3>4. ASSUME NEW n \in Number
          PROVE  /\ [Top EXCEPT !.buf = Append(@, n), !.begun = n] \in Context
                 /\ [Top EXCEPT !.buf = Append(@, n), !.begun = n].taken = Top.taken
                 /\ [Top EXCEPT !.begun = n] \in Context
                 /\ [Top EXCEPT !.begun = n].taken = Top.taken
      <4>1. Append(Top.buf, n) \in Seq(Number)
        BY <3>1, AppendFacts
      <4>. QED  BY <4>1, <1>2 DEF Context
    <3>5. CASE LexWhole \/ LexTail
      <4>1. \E n \in Number : SetTop([Top EXCEPT !.buf = Append(@, n), !.begun = n])
        BY <3>1, <3>5 DEF LexWhole, LexTail, Consume
      <4>. QED  BY <3>4, <4>1
    <3>6. CASE LexHead
      <4>1. SetTop([Top EXCEPT !.begun = Advance(Top.begun)])
        BY <3>6 DEF LexHead
      <4>. QED  BY <3>1, <3>4, <4>1
    <3>. QED  BY <1>4, <3>2, <3>3, <3>5, <3>6
  <2>2. UNCHANGED got
    BY <1>4 DEF FgetsLine, FgetsEof, LexWhole, LexHead, LexTail
  <2>. QED  BY <1>2, <2>1, <2>2, PromisedNothing
<1>5. CASE ReadPop
  <2> DEFINE k == [Top EXCEPT !.buf = Tail(@), !.taken = Advance(@)]
             f == Last(frames)
  <2>1. /\ f.at = "pop" /\ Top.buf # <<>> /\ SetTop(k)
        /\ got' = <<Len(ichan), Head(Top.buf)>>
    BY <1>5 DEF ReadPop, Here
  <2>2. Tail(Top.buf) \in Seq(Number) /\ Advance(Top.taken) \in Number
    BY <1>2, <2>1, Numbers DEF Context
  <2>3. k \in Context /\ k.taken = Advance(Top.taken)
    BY <1>2, <2>2 DEF Context
  <2>4. f.open \in BOOLEAN /\ View(f) = [at |-> "pop", open |-> f.open]
    BY <1>1, <1>2, <2>1, ReadViews
  <2>5. Fits(Top, View(f))
    <3>1. Top = ichan[Len(ichan)]
      BY <1>2, FrontLast DEF Top
    <3>. QED  BY <3>1, <1>1, <1>2, TopFits DEF OrderInv
  <2>6. Head(Top.buf) = Advance(Top.taken)
    BY <1>2, <2>1, <2>4, <2>5, PopFits
  <2>. HIDE DEF k
  <2>. QED  BY <1>2, <2>1, <2>3, <2>6, PromisedTake
<1>. QED  BY <1>1, <1>3, <1>4, <1>5 DEF ReaderStep

LEMMA NextPromised ==
  StackInv /\ OrderInv /\ [Next]_vars => [Promise!Next]_(Promise!vars)
<1>. SUFFICES ASSUME StackInv, OrderInv, [Next]_vars
              PROVE  Promise!Next \/ UNCHANGED Promise!vars
  OBVIOUS
<1>1. ichan \in Seq(Context)
  BY DEF StackInv, StackTypes
<1>2. CASE UNCHANGED <<ichan, got>>
  BY <1>2 DEF Promise!vars
<1>3. CASE \/ BootFails \/ Boot \/ StartFileFails \/ Signal \/ Fini \/ Delete \/ Done
           \/ UNCHANGED vars
  <2>1. UNCHANGED <<ichan, got>>
    BY <1>3 DEF BootFails, Boot, StartFileFails, Signal, Fini, Delete, Done, vars,
       readerVars
  <2>. QED  BY <2>1, <1>2
<1>9. CASE \/ StartExpr \/ ParseForm \/ ParseEval \/ Segfault
           \/ RunRead \/ RunEval \/ ExprEval \/ FileRead \/ FileEval
  <2>1. UNCHANGED <<ichan, got>>
    BY <1>9 DEF StartExpr, ParseForm, ParseEval, Segfault,
       RunRead, RunEval, ExprEval, FileRead, FileEval
  <2>. QED  BY <2>1, <1>2
<1>10. CASE \/ EvalQuit \/ EvalRead \/ EvalReadline \/ EvalModule \/ EvalOut
            \/ OutEnd \/ EvalReturn
  <2>1. UNCHANGED <<ichan, got>>
    BY <1>10 DEF EvalQuit, EvalRead, EvalReadline, EvalModule, EvalOut, OutEnd,
       EvalReturn
  <2>. QED  BY <2>1, <1>2
<1>4. CASE LexStep
  BY <1>4, LexPromised DEF Promise!Next
<1>5. CASE StartRepl \/ StartFile \/ ParseEnds
  <2>1. PICK n \in Nat, e \in BOOLEAN : ichan' = <<Channel(n, e)>>
    BY <1>5, StartOrder
  <2>2. ichan = <<>> /\ UNCHANGED got
    BY <1>5, StartOrder DEF StartRepl, StartFile, ParseEnds
  <2>4. Channel(n, e) \in Context
    BY FreshFits
  <2>5. ichan' = Append(ichan, Channel(n, e))
    BY <2>1, <2>2, <2>4
  <2>. QED  BY <1>1, <2>2, <2>5, PromisedOpen DEF Promise!Next
<1>6. CASE EvalLoad \/ EvalIn
  <2>1. /\ UNCHANGED got
        /\ \/ \E n \in 0..MaxLines : ichan' = Append(ichan, Channel(n, FALSE))
           \/ UNCHANGED ichan
    BY <1>6 DEF EvalLoad, EvalIn
  <2>2. CASE \E n \in 0..MaxLines : ichan' = Append(ichan, Channel(n, FALSE))
    <3>1. PICK n \in 0..MaxLines : ichan' = Append(ichan, Channel(n, FALSE))
      BY <2>2
    <3>2. n \in Nat /\ FALSE \in BOOLEAN
      BY <3>1, SessionAssumption
    <3>. QED  BY <1>1, <2>1, <3>1, <3>2, PromisedOpen DEF Promise!Next
  <2>. QED  BY <1>2, <2>1, <2>2
<1>7. CASE InEnd \/ FileEnd \/ LoopEnds
  <2>1. frames # <<>> /\ ichan' = Front(ichan) /\ UNCHANGED got
    BY <1>7 DEF InEnd, FileEnd, LoopEnds, Running, Here
  <2>2. Last(frames).fn \in Inputs
    BY <1>7 DEF InEnd, FileEnd, LoopEnds, Running, Here, Inputs
  <2>3. ichan # <<>>
    BY <2>1, <2>2, ContextExists
  <2>. QED  BY <1>1, <2>1, <2>3, PromisedClose DEF Promise!Next
<1>8. CASE ReadlineEnd
  <2> DEFINE k == [Top EXCEPT !.lines = IF @ = 0 \/ Top.endless THEN @ ELSE @ - 1]
  <2>1. frames # <<>> /\ Last(frames).fn \in Readers /\ SetTop(k) /\ UNCHANGED got
    BY <1>8 DEF ReadlineEnd, Running, Readers
  <2>2. Top \in Context /\ ichan # <<>>
    BY <2>1, ContextExists
  <2>3. k \in Context /\ k.taken = Top.taken
    BY <2>2 DEF Context
  <2>. HIDE DEF k
  <2>. QED  BY <1>1, <2>1, <2>2, <2>3, PromisedNothing
<1>. QED
  BY <1>3, <1>4, <1>5, <1>6, <1>7, <1>8, <1>9, <1>10 DEF Next, Main

LEMMA InitPromised == Init => Promise!Init /\ OrderInv
<1>. SUFFICES ASSUME Init PROVE Promise!Init /\ OrderInv
  OBVIOUS
<1>1. ichan = <<>> /\ frames = <<>> /\ got = <<0, 0>>
  BY DEF Init
<1>2. Channel(0, TRUE) \in Context /\ <<>> \in Seq(Context)
  <2>1. Channel(0, TRUE) \in Context
    BY Numbers DEF Channel, Context
  <2>2. <<>> \in Seq(Context)
    OBVIOUS
  <2>. QED  BY <2>1, <2>2, Zenon
<1>3. TakenOf(<<>>) \in Seq(Number) /\ Len(TakenOf(<<>>)) = Len(<<>>)
  BY <1>2, TakenAppend
<1>4. TakenOf(<<>>) = <<>>
  BY <1>3
<1>. QED  BY <1>1, <1>4, EmptyOrder DEF Promise!Init, TakenOf, OrderInv

(* However reading nests with evaluation, with load and with in, and       *)
(* whatever readline takes away from it, every context yields its forms in *)
(* the order of its text, each once (read.c:48).                           *)
THEOREM FormsOrdered == Spec => FormsInOrder
<1>1. StackInv /\ StackInv' /\ OrderInv /\ [Next]_vars => OrderInv'
  BY NextOrder
<1>. QED
  BY <1>1, InitStack, NextStack, InitPromised, NextPromised, PTL
  DEF Spec, FormsInOrder, Promise!Spec

=============================================================================
