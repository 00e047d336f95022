# Minima.l in TLA+

TLA+ models of the Minima.l interpreter, checked with TLC and proved with
TLAPS. Sections 1 and 2 are the inventory of the program and the plan of the
models; sections 3 to 6 say what is modelled, checked and proved today.

## 1. Inventory

Minima.l is a LISP interpreter in C with one thread. Its core is a pile of
small components, each of which trusts the one below it:

| Component | State | Operations | What makes it correct |
|---|---|---|---|
| Slab allocator (`lib/core/slab.c`) | a region of cells, the list of the free ones (`first`, `entries[i].next`), `n_pages`, `n_alloc`, `n_free` | `slab_new`, `slab_allocate` with `slab_expand`, `slab_deallocate`, `slab_delete` | the free list is exactly the free cells; it stays in committed pages; it gives up only when nothing is free; the counters count |
| Reference-counted heap (`lib/core/lisp.c`, `lisp.h`) | for each cell its type, flags, count, CAR and CDR | makers, `lisp_cons`, `lisp_conc`, `lisp_car`, `lisp_cdr`, `UP`, `X` | counts are exact, nothing dangles, only circular lists leak |
| Red-black tree (`lib/core/tree.c`) | nodes `(KV LEFT PARENT . RIGHT)` made of heap cells, colour and weak-reference flags | `lisp_tree_add`, `_upd`, `_get`, `_dfs`, `_rem` | it is a dictionary, its links are consistent, it is balanced, it owns what it refers to |
| Lookup (`lisp_lookup`, `set.c`, `setq.c`) | the globals tree, the closures (association lists), one cached binding in every symbol cell | lookup, `setq`, `<-`, `let`, `def` | the value found is the one the innermost binding has now, cached or not |
| Evaluator (`lib/core/eval.c`, tail calls in `utils.c`) | the C stack, the closures, the tail-call marks | `lisp_eval`, `lisp_eval_func`, `lisp_bind`, `lisp_prog`, `lisp_mark_tail_calls` | arguments are bound once and in order, currying keeps them, a tail call computes what a call computes |
| Closures of compiled code (`closure.c`) | a list of blocks to reuse | get, put, clear | a block is used by one closure at a time and is large enough |
| Reader (`read.c`, `lexer.rl`, `parser.y`) | the stack of input channels, each with its buffered forms; lexer state | `lisp_read`, `lisp_load_file`, `in`, `out` | forms are evaluated once, in order, from the channel they were read from |
| Module loader (`module.c`) | the tree of open libraries | `module_load`, `module_fini` | a function that can be called is in a library that is open |
| OS functions (`lib/mnml/unix`) | file descriptors, child processes | `select`, `accept`, `fork`, ... | a descriptor is closed once, callbacks see the descriptors that are open |
| REPL (`bin/mnml.c`) | `keep_running`, set by a signal handler | `run`, start and tear-down | it stops when asked, and releases everything (`-d`) |
| Printer, logic, mathematics, debug | none | pure functions | their result |
| Libraries and compiler (`share/mnml`) | none in the interpreter | LISP programs | their result |

How they interact. Everything above the heap takes its cells from the slab
through `lisp_allocate` and gives them back through `X`, whose recursion is
`lisp_deallocate`. Nearly every function *consumes* its arguments: the caller
hands its references over. Trees are made of heap cells, with the parent links
held weakly; the globals and the table of libraries are trees. `lisp_lookup`
keeps an unreferenced pointer to a binding of the globals tree in the symbol it
looked up, and the evaluator calls native functions with the closure as their
argument. Native functions call the evaluator back (`select`, `cond`, `let`,
`load`), and evaluating a form can push and pop the channels the reader reads.

What is hard here is not concurrency between threads (there is none) but long
sequences of legal calls: ownership handed from function to function, the two
meanings of one word of a cell, caches that are valid only because of what
another function never does, destructive operations on shared structure,
callbacks that change what their caller is iterating over, and signals. The
hazards in `PROJECT.json` list each at its line.

## 2. Plan

| State | Module | Subject | Abstract specification, theorems |
|---|---|---|---|
| done | `SlabPool`, `Slab`, `SlabProofs` | the allocator | `Slab` implements `SlabPool`, proved |
| done | `Heap`, `HeapProofs` | references and their release | counts exact, nothing dangles, only cycles leak, proved |
| done | `SymbolMap`, `Tree`, `TreeProofs` | add, upd, get, dfs | `Tree` implements `SymbolMap`, proved with its links and its visit |
| done | `Environment`, `Scope`, `EvaluatorProofs` | closures, `lisp_lookup` with its cache, calls, currying, `let`, `def`, `setq`, `<-` | `Scope` implements `Environment`, proved, with the caches |
| done | `Expressions`, `Evaluation`, `TailCall`, `EvaluatorProofs` | the marks, the loop of `lisp_eval_func`, WHEN and UNLESS | `TailCall` implements `Evaluation`, and needs one activation, proved; one violation |
| done | `Channels`, `Reader`, `Loader`, `Session`, `SessionProofs` | a run of the interpreter: contexts, forms, modules, signals | `Session` implements `Channels`, proved, with the contexts, the libraries and the signal |
| done | `Descriptors`, `Server`, `ServerProofs` | select, its callbacks and its failure in the server of http.l | the list and the callbacks, proved; every connection is finished with, checked |
| done | `Activations`, `ClosureCache`, `ClosureProofs` | the blocks of compiled code | `ClosureCache` implements `Activations`, proved, with the ownership and release of the blocks |
| next | in `Scope` | the closures of native functions and the subject of `match`, with `EnvSpec` for programs whose symbols sort after ANY, and its violation for the others (match.c:67) | |
| next | `Builtins` | the ownership of the native functions over `Heap` (the leaks of set.c and def.c, the rewritten program of match.c) | counts |
| then | `TreeRemove` | `lisp_tree_rem`, which the interpreter does not call | |

The order follows trust: each component is modelled after the ones it stands
on, the most heavily used first. Modules to be proved about use no recursive
operator; the loops and recursions of the C code are unfolded into steps, one
per iteration, so that every intermediate state is a state of the model.

## 3. What is modelled

**`SlabPool`** is what the allocator promises: a pool that hands out cells
nobody holds, takes them back, counts both, and gives up only when all the
cells it has committed are held.

**`Slab`** is the free list. `word` is the first word of every cell, the union
of `next` and `refs` (types.h:75-79): `Use` lets the owner of a cell write any
count there. `Allocate`, `ExpandAndAllocate` and `OutOfMemory` are the three
courses of `slab_allocate`, `Deallocate` is `slab_deallocate`; `OutOfMemory`
can also happen while the region is not exhausted, since `mprotect` can refuse.
`live`, the cells in use, is auxiliary: only the owner's own actions are
guarded by it. The erased payload of a cell and the debug fill are left out.

**`Heap`** is the reference-counted heap. `hold` is what the C code has in its
local variables and in the context: a primitive can be applied to a cell only
by code that holds it, and consumes or returns references as the code does. An
allocation returns any cell that is not live, which is `SlabPool`'s promise.
The stack `todo` unfolds the recursion of `lisp_deallocate` (a `drop` frame is
a call of `X`, a `free` frame the `slab_deallocate` that waits for the calls
above it) and the loop of `lisp_conc` (`walk`, then the `drop` of the old end of
the list, then `link`). Atoms of all types are one kind of cell, since none of
the primitives tells more than pairs from atoms. A weak pair does not own its
CAR: `SetWeak` gives that reference back to the C code and `ClearWeak` takes it,
which is how tree.c passes the NIL above the root from one root to the next. The
innermost call is the last element of `todo`.

**`SymbolMap`** is a dictionary from symbols to values, **`Tree`** the tree of
tree.c. One step is one iteration of a loop: `pc` is `"add"` in the descent of
`tree_add_node`, `"check"` in `tree_add_check`, `"find"` in the descents of
`lisp_tree_upd` and `lisp_tree_get`; `x`, `y` and `node` are the variables of
the code. `LeftRotation` and `RightRotation` are the assignments of
`lisp_tree_lrot` and `lisp_tree_rrot` composed into one update of the links. The
NIL atoms below the leaves are one value `Nil`; the NIL that was the empty tree
and is the parent of every root is `Top`, a different one because it can be
coloured and because somebody must own it. `red` and `weak` are the flags.
Symbols are numbers in the order of `memcmp`. `Dfs` is the visit of
`lisp_tree_dfs` when the callback does not stop it, as in `module_fini`.

**`Environment`** is what bindings promise: an environment is a function from
symbols to bindings, the innermost one hides the others, a call evaluates a body
in the caller's environment, extended with the one of the definition, extended
with the arguments. There are neither lists nor caches in it.

**`Scope`** is how the code does it. A closure is an association list of pairs;
`Sss` and `Merge` are `lisp_sss` and `lisp_merge`, and `Assoc` the first match
that `lisp_lookup` and `<-` take. A frame (`top`, and `below` for the ones that
wait) is one activation of `lisp_let`, `lisp_eval_args` or `lisp_prog` with its
closure, the bindings accumulated so far and the function being called. `value`
is what the last expression returned until something uses it, and `Idle` says
that nothing is left to use: which expression a program evaluates next is any
choice. An atom is the cell of a symbol in the text of a program, with its
cached binding; `NewAtom` reuses such a cell. `Live` is what references keep
alive, the caches not being references: a binding is made in any other cell, so
that a cache that outlived its binding would be found out. (Cells of a cycle are
leaked by the code and reusable here; nothing can read them either way.) The
value of `def`, and the pair `<-` returns for a global, are data like any other.
A pattern binds its symbols one after the other. Left out are catch-all
parameters, the marks `let` and `def` set (they are in `TailCall`), and the
closures of native functions, `((PARAMETER . ARGUMENTS) . C)`. The functions
modelled take `C` out of theirs before they evaluate anything; `match` evaluates
its subject in its own (match.c:67), which is not sorted, and nothing is said of
expressions there: a `let` of a symbol that sorts before ANY leaves an older
binding behind the new one, and a function captured there finds the older one
when its closure is merged.

**`Evaluation`** is what the evaluator promises: the value and the effects of a
function, evaluated without tail calls; an activation that has nothing left to do
may be dropped at any time, and a call need not have one. **`TailCall`** is one
recursive function from its definition to its result; `Expressions` has what
both write down. `Mark` is `lisp_mark_tail_calls` with `Tails` for the
subexpressions that `lisp_collect_tails` looks into. The C stack is unfolded: a
`func` frame is an activation of `lisp_eval_func`, a `prog` frame one of
`lisp_prog`, an `add` frame a native function waiting for its argument. A flagged
call returns a record, `Loop` is a turn of the loop, `LoopEnd` ends it. `log`
orders the effects. `TailCallIsCall` reads a record as the call that is still
due (`Due`). An argument that decreases to 0, where the program stops, stands for
the data of a recursion; `cond` and `match` behave as `if` does. `|>` is left
out: its tails are collected as those of `prog` (utils.c:477), but it builds the
expressions it evaluates (stream.c:30-32), its last stage in the place of a
function. The expressions are a constant, each with a height above those of its
subexpressions, so that what is said of them by recursion is defined. The
function is called by its own name; when a parameter or another symbol stands for
it, the loop does not recognise the record (eval.c:174 compares the symbol of the
call site) and returns it, which `TailCall` can show with two names (`Names`,
`Symbols`) and no run does.

**`Channels`** is what input contexts promise (Reference.md, IN and READ): they
are opened and closed as a stack, and the expressions of each are taken once and
in order. **`Reader`** is `lisp_read` on `lisp->ichan`: `ReadStart` looks at the
buffered forms, `FgetsLine` and `FgetsEof` take a line from the handle, `Lex*`
are the tokens of the line, `LexEnd` is the test of the loop (no form yet, or
`lexer_pending`), `ReadPop` and `ReadNull` the two returns. A form that is
completed goes to the context that is on top then (`Consume`), which matters
because of `LexEval`: a backtick or a tilde evaluates code in the middle of a
line, and that code may open contexts. Texts are chosen as they are read; what
is left of them is a number of lines, or "endless" for a terminal and a pipe.
**`Loader`** is module.c: `Disk` says what each library would answer, `opens`
counts what `dlopen` counts, `modules` is the table of handles, `globals` maps a
native function to the library it is in. `LoadBinary` has one disjunct for each
way out of `module_load_binary`. **`Session`** composes both into main:
`frames` is the C stack (the loop of the REPL, of `-e` or of `lisp_load_file`;
the parse of `-e`; `lisp_read`; the evaluation of a form; `in`; `out`;
`readline`), `phase` how far main is. `-e` is parsed as a whole (`ParseForm`)
before main pushes a context (`ParseEnds`), and its backtick and tilde forms are
evaluated meanwhile (`ParseEval`) with no context but those they open themselves;
`read`, `readline` and `in` without any follow a null pointer (`Segfault`).
`Boot`, `Fini` and `Delete` are `module_init` with `module_load_defaults`,
`module_fini` and `lisp_delete`. Evaluating a form is up to `MaxOps` operations
that touch contexts, modules or the signal (`EvalQuit`, `EvalRead`,
`EvalReadline`, `EvalLoad`, `EvalIn`, `EvalOut`, `EvalModule`); what else it
computes is left out. `Signal` may happen between any two steps. `late` counts,
up to 2, the forms of the outermost loop begun after the signal; for a file
argument that loop is the one of `lisp_load_file`, which never tests
`keep_running`, and any number of forms are begun.

**`Descriptors`** is the table of descriptors, in which the kernel gives out the
lowest free number. **`Server`** is the loop of http.l over it. `Select` is the
call of select(2) with the list of `convert`; `process_r` is a loop over `todo`
that builds `res`, one action for each thing the callback `http/ingress` can
return: `Accept` (a number: put in front), `AcceptFails`, `InFails`,
`NoRequest`, `Answer` (NIL: close and forget), `NotReady` (kept). `In` is the
duplicate that `in` makes, `Request` the lines `http/request` blocks for,
`Answer` the response through the duplicate of `out`. `ProcessError` is the
second pass, over the list as it was before the first: the callback of http.l
being NIL, it keeps everything, and http/serve only uses the first list.
`SelectFails` is the return of -1 (a signal does that: the call is not resumed
as others are), for which `select` returns NIL: http/serve takes it for an empty
list and ends, with the descriptors still open. Clients
connect, send, close or raise urgent data between any two steps of the server.
`accept` may also fail without a reason of ours, hence `AcceptFails` has no guard
on the descriptors.

**`Activations`** is what compiled code needs (Continuations.md): each call from
LISP has a stack of activations, and each keeps what it saved until it returns.
**`ClosureCache`** is how closure.c and the code of cc.l do it, without a stack:
a block has one field C, which leads to the block of the caller while the block
is used and to the next free block while it is in the cache of its module. `Get`
is `lisp_closure_get` with its two courses, `PutCache` and `PutLink` the two
assignments of `lisp_closure_put`, `Clear` one turn of `lisp_closure_clear`.
`Enter` is the native function of a compiled function, called by `lisp_eval`;
`RecCall`, `TailCall`, `Save` and `Return` are the statements cc.l generates for
a call with a continuation, a call in tail position, an intermediate value and
the call of the continuation; `Leave` is the end of the native function. A
continuation can call back into LISP, which may enter any compiled function
(`Enter` while `Running`). A block holds one value, the last one saved; the
failure of `malloc`, which the code does not test, is left out.

## 4. What is checked

| Run | Model | Shows |
|---|---|---|
| `slab` | 1 page, growing to 2 and 4; one cell a page; counts up to 2; 7 allocations | types, committed pages, the exact free list, the counters, and that `Slab` implements `SlabPool` |
| `heap` | 4 interchangeable cells, 2 references in the hands of the C code | exact counts at every step of a release or a concatenation; nothing dangles; only circular lists leak |
| `tree` | every sequence of operations on 3 symbols with 2 values, then growth to 8 symbols, the next one among the 3 smallest left | `Tree` implements `SymbolMap`; every operation ends; the ownership of the NIL above the root; consistent links and types; the grandparent exists when it is recoloured; a visit finds every symbol in order |
| `tree_colour` | 4 symbols, one value | a violation: a red node under a red node |
| `scope` | 2 symbols, 2 bindings, one symbol cell, functions of one or two parameters, 2 waiting activations | `Scope` implements `Environment`; caches are exact; the arguments of a call hide everything; types |
| `scope_curry` | the same with 3 bindings and one waiting activation | a violation: a captured binding hides a curried argument |
| `tail` | every body of up to three levels of the forms, with lists of one expression in WHEN and UNLESS, arguments up to 3 | `TailCall` implements `Evaluation`: the same value and effects with and without marks; no function receives a record; one activation when all calls are tail calls; every call returns |
| `tail_when` | smaller bodies, WHEN and UNLESS with two expressions | a violation: a recursive call that is not the last expression is lost |
| `session` | a REPL on an endless input, `-e` with one form and up to 2 read-time parts, or a file of up to one line; lines of 2 tokens; each form does one operation; one nested context; modules that load, answer a wrong name, or have no name | forms once and in order, also under read-time evaluation (`Promise`); one owner for each context, also while `-e` is parsed; a context to read from for all code but the read-time parts of `-e`; at most one form of the REPL or of `-e` after a signal; the process then ends, unless it waits for a line or for a form to return; libraries are closed as they were opened and never while their functions can be called; types |
| `server` | 3 clients, descriptors 3 to 6, requests of 2 lines, a backlog of 2 | until a select fails: the list of select is exact and every connection is finished with; and always: callbacks get the connection that was ready; responses go to whole requests and connections are closed for good; types |
| `closures` | functions of 2 and 3 values in modules of their own, 4 interchangeable blocks, 2 values, 3 calls from LISP inside one another | `ClosureCache` implements `Activations`; each block has one owner; all are freed; each fits; types |
| `closures_shared` | both functions in one module | a violation: the larger function gets the block of the smaller one |

Why the bounds are enough. For the slab, two successful expansions and one
refusal are all the code distinguishes, and every order of four frees occurs.
For the heap, four cells hold a shared cell, a pair that contains it twice, a
circular list of two pairs and a weak pair; with two references in hand every
primitive can be applied, `lisp_cons` and `lisp_conc` on one cell twice
included. For the tree, three symbols give every shape of up to three nodes with
an existing symbol at every place and every order of the operations; recolouring
that climbs and rotations with three subtrees need more nodes, which the growth
to eight symbols makes in almost sorted orders, the ones with the deepest trees
(the rebalancing of the code being incomplete, as `tree_colour` shows). For the scopes, two symbols are what it takes for an order
and for a symbol to be hidden or not; two bindings and two waiting activations
give a `let` or a call inside a call, a capture, a partial application and the
release of a binding that a cache has seen. The bindings are interchangeable
and the run uses that symmetry, its one temporal property being about steps;
its view forgets the contents of cells that are not live, which no
action reads. For the tail calls, three levels put every form inside every other
one.

For the session, two tokens on a line make a whole form followed by the head of
one that the next lines finish, or a form with a read-time part; one operation
each and one nested context make a form that loads a file while it is
being read, a read inside an `in`, and a signal before, between and after all
of them. `Wrap` exceeds what a buffer holds, so that two forms waiting never
have the same number. For the server, four numbers are less than the socket,
three connections and a duplicate: `in` and `out` fail in some behaviours, and a
number that was closed is given to a client accepted later. For the closures,
three nested calls are two activations that wait and one that runs; four blocks
give a waiting activation a chain, and the cache two blocks. The blocks are
interchangeable, and the run uses that symmetry: its temporal property is about
steps and names no block.

No bound stands for a limit of the code except `SlabPages`, `Backlog` and `Fds`;
`AllocBound`, `MaxRefs`, `MaxHold`, `MaxKey`, `SmallKey`, `Window`, `MaxDepth`
(waiting activations), `MaxArg`, `MaxTokens`, `MaxBuf`, `MaxOps`, `MaxLines`,
`MaxExprs`, `MaxNest`, `MaxOpens`, `Wrap`, `ReqLines` and `MaxCalls` bound what
is unbounded, or very large, in it.

Fairness. `Tree!Spec` assumes weak fairness of `Step`: an operation that runs
goes on, since the interpreter has one thread and nothing can block it. No
fairness is assumed of the calls. `TailCall!TCSpec` assumes weak fairness of its
only process, the evaluation of one call, for the same reason.

`Session!Spec` assumes that the thread goes on where the code alone decides: weak
fairness of the steps of `Main` that neither return from the evaluation of a form
(`Running("eval")`) nor wait for a line (`Waiting`). A form need not return, and
fgets and getline wait for a terminal or a pipe that may stay silent; a signal
does not end that, since `signal` has the read resumed. `QuitEnds` therefore
promises an end unless one of the two lasts for ever. Of an endless text it is
assumed that it again and again completes forms and closes lists (strong fairness
of `LexWhole` and `LexTail` on such a context): without it the reader would wait
in a list that is never closed, where the code tests no signal. Files and the
argument of `-e` are finite, which is what lets a file argument end: its loop
does not test the signal. That a form does at most `MaxOps` operations is a bound
of the model; a form that computes for ever stays in one of its states, and one
that reads or loads for ever is beyond the bound. No fairness is assumed of
`Signal`.

`Server!Spec` assumes weak fairness of `Serve`, the thread, and of each client
that it sends or closes, because a client that does neither blocks the server in
`readline`, which has no time-out. `SelectFails` is outside `Serve`: a select may
fail at any time and need not. The other
specifications assume none.

`CHECK_DEADLOCK FALSE` is in these runs: the process ends (`slab`), every cell
is in a circular list that nobody holds (`heap`), the call has returned (`tail`
and `tail_when`). The other runs check deadlock; the ends of a session and of a
server that stopped are steps that change nothing (`Done`, `Stopped`).

The findings. 1. `tree_add_check` rotates `node` instead of `x` in case 2
(tree.c:288 and 313). A node that was just added has no children, so nothing is
rotated, and case 3 then works on the wrong nodes. Adding the symbols 1, 3, 2
leaves a red child under a red node. The tree remains a correct dictionary with
consistent links (run `tree`); what is lost is the bound on its depth.

2. A partial application puts its arguments in front of the closure of the
definition (eval.c:195), and a merge lets the last binding win, so that a
captured binding of the same name hides the curried argument. With
`(def mk (x) (\ (x y) (+ x y)))`, `((mk 10) 1 2)` is 3 and `(((mk 10) 1) 2)`
is 12; Language.md:104 describes currying without this exception. The
arguments of the last call, by contrast, always win (`LastArgumentsWin`).

3. For WHEN and UNLESS the first expression of the body is marked whatever
follows (utils.c:495); a recursive call there returns a record that `lisp_prog`
releases, so the call does not take place.

4. `lisp_closure_get` returns the first block of the cache whatever its size
(closure.c:15). The cache belongs to the generated module (cc.l:523), which may
hold several functions (`mnmlc -s`), and each asks for as many values as it has
(cc.l:572). A larger function that is entered while the cache has a block of a
smaller one writes past its end.

Every property has a mutant in `PROJECT.json`: a plausible bug of the code that
makes it fail.

## 5. What is proved

`SlabProofs` proves, for all values of the constants that satisfy
`SlabAssumption` (positive numbers of initial pages and cells per page, a region
that holds at least the pages `slab_new` commits), that `Slab!Spec` implies the
type invariant, `CommittedCells`, `FreeListExact`, `Accounting` and the
refinement `SlabPool!Spec`.

`FreeListExact` says that there is a numbering of the free cells that decreases
along the links from the head. It is not inductive alone. The invariant `IInv`
adds the types, the counters, that the chained cells are exactly those of the
first `n_pages` pages and that these are committed. The lemmas show what a pop,
a push and a chain of new cells do to such a numbering (`PopIsList`,
`PushIsList`, `ChainIsList`) and that writing the word of a cell outside the
list does nothing to it (`SameList`): this is where the union of `next` and
`refs` is justified. Each action then preserves `IInv` by one lemma. The
refinement follows action by action: a pop hands out a cell that is not live
because the head of an exact list is free, and an empty exact list means that
all the chained cells are live, which is the guard of `SlabPool!Abort`.

`TreeProofs` proves, for any number of nodes, symbols and values
(`TreeAssumption`), `LinksAgree`, `GrandparentExists`, `RootOwnsTop`,
`DfsInOrder` and the refinement of `SymbolMap`. Order is a property of whole
subtrees, which would need reachability; the proof gives each node a span
instead, two numbers between which its subtree keeps its keys (`Spanned`): the
root has all of them, a left child what is below its parent's key, a right child
what is above it. A rotation changes the spans of two nodes, a new leaf takes
the span that the descent has reached (`Adding`), and a search that reaches a
NIL has narrowed the span to nothing, so that no node has the key (`Finding`).
`TreeInv` adds what the two pointers of `tree_add_check` satisfy: the root is
black or `x` is below a black parent (`Fixing`), which gives the grandparent.
`Visit` is a recursive function on the links; that it is defined on every node
of the tree is a descent on the width of the spans, and its value at a node is
the list of the keys in the span (`VisitLists`).

`EvaluatorProofs` proves, for any symbols, bindings, values, parameters and depth,
the types, `CacheExact`, `LastArgumentsWin` and the refinement of `Environment`. `CacheExact` says that a cached binding is the global binding
of the symbol of that cell: no action replaces the pair of a symbol that is
bound (`SetGlobalKeeps`: `lisp_tree_add` exchanges the values), a lookup fills
the cache from the globals, and a new symbol cell has no cache. `CachedIsGlobal`
draws the consequence: a lookup through a cache reads what the search of the
globals would return. `ScopeInv` says that the closure of every activation of
the model is sorted, as it is when it was made by merges only. The key is what one step of `lisp_merge` leaves, from the last binding
of the list to the first: a sorted list in which a symbol has its last binding
among those merged, or else the one it had (`MergedTo`, `MergeAll`). The
refinement maps a list to the function it means (`MeaningOf`); merging is then
overriding, and the actions map one to one. Besides `ScopeAssumption` it needs
`FunctionsAreNotData`: a number or NIL is not a function, in the lists or in the
environments. That is `IS_FUNC` of the code, which reads the type tag; in TLA+
it has to be said, because values of the two kinds are otherwise unrelated.

About tail calls it proves, for any set of expressions (`TailCallAssumption`),
`RecordsReturned`, `TailCallIsCall` and `TightLoop`. `Mark`, `NoCall` and
`AllTail` are recursive functions; that they are what their definitions say of
every expression is shown first, by their values below each height
(`PartBelow`). The invariant `TailInv` says where flags and records can be:
only where the frames below pass a value on to a `func` frame without looking at
it (`Open`). A flag is never in the argument of a function (`FlaggedSubs`), and a
record reaches the loop frame by frame, so `RecordsReturned` follows for all
bodies. It needs that the function is called by the symbol it is defined with
(`OwnName`): otherwise the loop ends with the record (eval.c:174). `TailInv` has
a second half under `OneExpression`, that the bodies of WHEN and UNLESS are one
expression, which finding 3 shows to be needed: the lists below a record are at
their end. Then a flagged call is a call of `Evaluation` without a frame, a turn
of the loop is no step, and the end of a list or of a loop drops a frame. For
`TightLoop` the expressions that are evaluated or wait are those without calls,
or flagged ones with all their calls in tail position (`FreeExprs`), so that
`PlainCall` is never enabled.

`HeapProofs` proves, for any finite set of cells and any number of references
in hand, the types, `RefsExact` and `NoDangling` (`HeapAssumption`). For each
cell there are four numbers: the references of the C code, the pairs that own it
by CAR, those that own it by CDR, and the calls of `X` still to run. Every step
moves a reference from one to another or changes one together with the count;
the lemmas on `Count` say what a push and a pop do to the calls. `RefsExact`
alone does not say that a cell with the count 0 is not freed twice: `HeapInv`
adds that exactly one deallocation runs of a cell that is allocated with the
count 0 and none of any other (`FreeOnce`), that free cells have the count 0
(`Dead`), and that `lisp_conc` runs alone but for the release of an atom
(`Walks`), so that the pair it is about to link is not released meanwhile.

`OnlyCyclesLeak` follows from `HeapInv` alone. Between two calls a live cell
that nothing holds is owned by a pair (its count is not 0). Suppose some live
cells are reached neither from the C code nor from a circular list; take one to
which the fewest cells lead, in the finite order of the sets of cells that lead
to them. The pair that owns it is such a cell too, and strictly fewer cells lead
to it, since the cell itself leads to no circle: a contradiction.

`SessionProofs` proves `LibrariesExact` for any modules, disk and bounds
(`DiskAssumption`, `MaxOpensAssumption`, `ReaderAssumption`,
`SessionAssumption`). Its invariant `LibInv` adds that the native functions of
the globals come from modules in the table, which is what a later load of
another module preserves, and that the C stack is empty outside the evaluation.

It also proves the types, `ContextsBalanced` and `AtMostOneLate`. The second says
that there is a context to read from wherever code runs, except for the read-time
parts of `-e`; the third is about the REPL and `-e` (what a signal does to a file
argument is said by `QuitEnds` only).
`StackInv` describes the C stack (the loop of main at the
bottom and nowhere else), counts the functions on it that own an input or output
context against the contexts, and says that a form begun after the signal was
the one already due (`LateInv`); lemmas reduce a step to a push, a pop or a
change of the top. `SequenceLemmas` has what these stacks need of sequences.

`FormsInOrder`, the refinement of `Channels`, needs more than that the buffer
of a context continues what was taken from it (`Chain`). The number of the last
form begun is the last one buffered, or the next one while a list is open
(`Fits`), and whether a list is open is known only to the `lisp_read` of that
context, which may be deep in the C stack under a read-time evaluation and what
it loaded. `Ordered` therefore gives each function on the stack the context it
works on (`Depths`) and says that a context has at most one `lisp_read`
(`Shows`): a loop that reads is directly on its own context, and a form reads
only where `ReadingTop` is false. After the end of the text inside an open list
the numbers no longer agree, but then the context has no lines left and nothing
is lexed. TLC checked this invariant on the run `session` before it was proved.

`ServerProofs` proves the types, `ListExact`, `DescriptorsFresh` and
`AnswersRequests` for any number of clients, descriptors, lines and pending
connections (`ServerAssumption`, `FdsAssumption`). `ListExact` holds between two
passes only, and until a select fails; during a pass the part of the list still to see and the part
already built are together the open descriptors, each once, except the duplicate
of `in` (`ListInv`), that duplicate refers to the connection being handled
(`HinInv`), no two other descriptors are one connection (`TableInv`), and the
backlog is not empty when the socket was found readable (`QueueInv`).

`ClosureProofs` proves the types, `OneReference`, `AllFreed` and the refinement
of `Activations` for any functions, modules and blocks (`ClosureAssumption`): the statements of the
compiled code rotate references between caches, fields C and continuations
without copying or dropping any. `AllFreed` needs two things more: a cache holds
blocks only while a call of its module runs (`CachesUsed`), and the fields C
make no circle, for which a rank of the blocks that goes down along them is
carried through the steps (`Ranked`). `BlocksFit` proves `BlockFits`
under the hypothesis that the functions of one module have equally many values,
which finding 4 shows to be needed: a block stays in its module (`ByModule`).

`KeepsActivations` maps the blocks that a call reaches along the fields C to its
activations (`Chain`, a recursive function on the blocks). The rank makes each
chain finite, hence `Chain` defined and equal to the only sequence of blocks
that ends in the block, begins in one with an empty field C and follows the
fields between (`IsChain`, `ChainsAre`). `OneReference` says that no block is in
two chains, or twice in one (`Elsewhere`, `TopOnce`); so a statement that writes
the last block of the running call, or puts it in a cache, leaves the chains and
the saved values of the calls that wait as they are (`ChainStays`), and each
statement is one step of `Activations` on the last activation of the last call.

Left to TLC is liveness, which is beyond the provers used (`Terminates` of
`Tree` and of `TailCall`, `QuitEnds`, `Served`). Every invariant, action property
and refinement that a run checks is also a theorem, for all values of the
constants. The assumptions of the theorems are the named ones of the modules,
which TLC evaluates on the runs, and the hypotheses named above.

## 6. What is not modelled

See `components` in `PROJECT.json`. Left out for good: the printer, the
arithmetic and logic functions, debugging and most LISP libraries, which keep no
state in the interpreter; the grammar of tokens and the rest of the compiler,
which transform text.

Of the reader: parse errors and the purge of the lexer, a token that straddles
the 1023 characters of the buffer (the hazard at read.c:63), an end of file that
a terminal takes back, and a read-time form that reads the very context it was
read from (`ReadingTop`). Of main: the options, the variables ARGV, CONFIG and
ENV, prompts and exit statuses. Of the OS functions: connect, pipe, dup, fork,
wait, exec and unlink, each one system call without a state of the interpreter,
and the client of http.l. Of compiled code: what the continuations compute. Of
the evaluator: catch-all parameters, the positional arguments and closures of
native functions, hence the subject of `match`, and `|>`. The ownership inside the native functions is not modelled yet,
nor `lisp_tree_rem`, which only test/c/tree.c calls.
