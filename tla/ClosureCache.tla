---------------------------- MODULE ClosureCache -----------------------------
(***************************************************************************)
(* The closures of compiled code (lib/core/closure.c and the C code that   *)
(* share/mnml/cc.l generates).  A compiled function is cut into            *)
(* continuations that find its arguments and intermediate values in a      *)
(* block taken from the C heap.  A block that is done with goes to the     *)
(* cache of its module, a list through the very field, C, that leads from  *)
(* a block to the one of the caller; the next activation takes it from     *)
(* there, and the cache is freed when a call from LISP returns.            *)
(*                                                                         *)
(* A continuation may call LISP back (lisp_eval), which may enter the same *)
(* or another compiled function: stack has the calls from LISP that run.   *)
(* What a block holds is one value here, the last one saved.               *)
(***************************************************************************)
EXTENDS Naturals, Sequences, FiniteSets, SequencesExt

CONSTANTS
  Functions,   \* the compiled functions
  Modules,     \* the generated modules
  Module,      \* the module of each function
  Size,        \* (len REFS) of each function
  Values,      \* what a block can hold
  Blocks,      \* the blocks of the C heap
  NULL,
  MaxCalls     \* bound on the calls from LISP within one another

ASSUME ClosureAssumption ==
  /\ Module \in [Functions -> Modules]
  /\ Size \in [Functions -> Nat \ {0}]
  /\ NULL \notin Blocks
  /\ MaxCalls \in Nat

VARIABLES
  size,    \* for each block the N it was allocated for, 0 when it is not
  link,    \* the field C of the blocks
  value,   \* their field V
  cache,   \* for each module its static variable cache
  stack    \* the calls from LISP, the innermost one last: the function, the
           \* block C of the continuation that runs, and where it is

vars == <<size, link, value, cache, stack>>

Init ==
  /\ size = [b \in Blocks |-> 0]
  /\ link = [b \in Blocks |-> NULL]
  /\ value \in [Blocks -> Values]
  /\ cache = [m \in Modules |-> NULL]
  /\ stack = <<>>

Allocated == {b \in Blocks : size[b] > 0}
Top == Last(stack)
Running == stack # <<>> /\ Top.at = "block"
SetTop(c, at) == stack' = Append(Front(stack), [Top EXCEPT !.C = c, !.at = at])

\* Mutant of CacheOf: the variable cache is not static.
MutCacheOf(f) == CHOOSE m \in Modules : TRUE

CacheOf(f) == Module[f]

\* Mutant of Malloc: the bytes of one value are forgotten.
MutMalloc(f, b) == size' = [size EXCEPT ![b] = Size[f] - 1]

Malloc(f, b) == size' = [size EXCEPT ![b] = Size[f]]

(* lisp_closure_get with the caches ca and the links li, on top of the     *)
(* block up, then the arguments saved in the new block b.                  *)
Get(f, ca, li, up, b, v) ==
  LET m == CacheOf(f)
  IN  /\ IF ca[m] # NULL
         THEN /\ b = ca[m]
              /\ cache' = [ca EXCEPT ![m] = li[b]]
              /\ UNCHANGED size
         ELSE /\ b \notin Allocated
              /\ Malloc(f, b)
              /\ cache' = ca
      /\ link' = [li EXCEPT ![b] = up]
      /\ value' = [value EXCEPT ![b] = v]

(* lisp_closure_put: what it makes of the cache and of the links.          *)
PutCache(f, c) == [cache EXCEPT ![CacheOf(f)] = c]
PutLink(f, c) == [link EXCEPT ![c] = cache[CacheOf(f)]]

-----------------------------------------------------------------------------
(* lisp_function_NAME, called by lisp_eval from outside or from a funcall  *)
(* of the continuation that runs: the default closure is NULL.             *)
Enter(f) ==
  /\ stack = <<>> \/ Running
  /\ Len(stack) < MaxCalls
  /\ \E b \in Blocks, v \in Values :
       /\ Get(f, cache, link, NULL, b, v)
       /\ stack' = Append(stack, [fn |-> f, C |-> b, at |-> "block"])

(* A recursive call whose result goes to a continuation of this function:  *)
(* the new block is on top of C.                                           *)
RecCall ==
  /\ Running
  /\ \E b \in Blocks, v \in Values :
       /\ Get(Top.fn, cache, link, Top.C, b, v)
       /\ SetTop(b, "block")

\* Mutant of TailCall: the block of the caller is not put.
MutTailCall ==
  /\ Running
  /\ \E b \in Blocks, v \in Values :
       /\ Get(Top.fn, cache, link, link[Top.C], b, v)
       /\ SetTop(b, "block")

(* A recursive call in tail position: C is put and the new block is on top *)
(* of C->C.                                                                *)
TailCall ==
  /\ Running
  /\ \E b \in Blocks, v \in Values :
       /\ Get(Top.fn, PutCache(Top.fn, Top.C), PutLink(Top.fn, Top.C),
              link[Top.C], b, v)
       /\ SetTop(b, "block")

(* A continuation saves its argument in the block.                         *)
Save ==
  /\ Running
  /\ \E v \in Values : value' = [value EXCEPT ![Top.C] = v]
  /\ UNCHANGED <<size, link, cache, stack>>

\* Mutant of Return: C->C is read after C was put.
MutReturn ==
  /\ Running
  /\ cache' = PutCache(Top.fn, Top.C)
  /\ link' = PutLink(Top.fn, Top.C)
  /\ SetTop(link'[Top.C], IF link'[Top.C] = NULL THEN "clear" ELSE "block")
  /\ UNCHANGED <<size, value>>

(* The continuation of the caller is called on C->C, after C was put.  The *)
(* last one is the identity, which has no block, and the entry goes on.    *)
Return ==
  /\ Running
  /\ cache' = PutCache(Top.fn, Top.C)
  /\ link' = PutLink(Top.fn, Top.C)
  /\ SetTop(link[Top.C], IF link[Top.C] = NULL THEN "clear" ELSE "block")
  /\ UNCHANGED <<size, value>>

Clearing == stack # <<>> /\ Top.at = "clear"

(* lisp_closure_clear: one block.                                          *)
Clear ==
  /\ Clearing
  /\ LET m == CacheOf(Top.fn)
         b == cache[m]
     IN  /\ b # NULL
         /\ cache' = [cache EXCEPT ![m] = link[b]]
         /\ size' = [size EXCEPT ![b] = 0]
  /\ UNCHANGED <<link, value, stack>>

\* Mutant of Leave: the cache is not cleared.
MutLeave ==
  /\ Clearing
  /\ stack' = Front(stack)
  /\ UNCHANGED <<size, link, value, cache>>

Leave ==
  /\ Clearing
  /\ cache[CacheOf(Top.fn)] = NULL
  /\ stack' = Front(stack)
  /\ UNCHANGED <<size, link, value, cache>>

Next ==
  \/ \E f \in Functions : Enter(f)
  \/ RecCall \/ TailCall \/ Save \/ Return
  \/ Clear \/ Leave

Spec == Init /\ [][Next]_vars

-----------------------------------------------------------------------------
TypeOK ==
  /\ size \in [Blocks -> {0} \cup {Size[f] : f \in Functions}]
  /\ link \in [Blocks -> Blocks \cup {NULL}]
  /\ value \in [Blocks -> Values]
  /\ cache \in [Modules -> Blocks \cup {NULL}]
  /\ stack \in Seq([fn : Functions, C : Blocks \cup {NULL}, at : {"block", "clear"}])
  /\ \A i \in DOMAIN stack : stack[i].C = NULL <=> stack[i].at = "clear"

(* Where a block can be reached from, and the block.                       *)
Places ==
  ({"cache"} \X Modules) \cup ({"stack"} \X DOMAIN stack) \cup ({"link"} \X Allocated)

At(p) ==
  CASE p[1] = "cache" -> cache[p[2]]
    [] p[1] = "stack" -> stack[p[2]].C
    [] p[1] = "link"  -> link[p[2]]

(* The field C links the cache and the callers: each block that was not    *)
(* freed is reached from exactly one place, so that no two activations     *)
(* share a block, none is in a cache while it is used, and none is freed   *)
(* twice or lost.                                                          *)
OneReference ==
  /\ \A p, q \in Places : At(p) = At(q) /\ At(p) # NULL => p = q
  /\ {At(p) : p \in Places} \ {NULL} = Allocated

(* When no compiled code runs every block was freed.                       *)
AllFreed == stack = <<>> => Allocated = {}

(* A continuation writes up to Size[fn] values in the block it runs on: a  *)
(* block from the cache is as large as one from malloc would be.           *)
BlockFits ==
  \A i \in DOMAIN stack : stack[i].C # NULL => size[stack[i].C] >= Size[stack[i].fn]

(* The blocks of the callers of a block and the block, along the field C.  *)
Chain[b \in Allocated \cup {NULL}] ==
  IF b = NULL THEN <<>> ELSE Append(Chain[link[b]], b)

Saved(call) ==
  [i \in DOMAIN Chain[call.C] |-> [fn |-> call.fn, saved |-> value[Chain[call.C][i]]]]

(* The blocks keep what the activations saved.                             *)
Activity == INSTANCE Activations WITH calls <- [i \in DOMAIN stack |-> Saved(stack[i])]
KeepsActivations == Activity!Spec

=============================================================================
