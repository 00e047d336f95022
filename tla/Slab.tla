-------------------------------- MODULE Slab --------------------------------
(***************************************************************************)
(* The slab allocator (lib/core/slab.c, include/mnml/slab.h): an array of  *)
(* cells, the free ones chained through their first word.  That word is a  *)
(* union: `next` while the cell is free, `refs` while it is in use, so     *)
(* what the owner of a cell writes there must never be read as a link.     *)
(*                                                                         *)
(* `live` is an auxiliary variable, the cells in the interpreter's hands;  *)
(* no action but the owner's own (Use, Deallocate) is guarded by it.       *)
(***************************************************************************)
EXTENDS Integers, FiniteSets

CONSTANTS
    InitPages,      \* slab->n_pages after slab_new (16)
    CellsPerPage,   \* PAGE_SIZE / sizeof(struct atom) (128)
    SlabPages,      \* SLAB_SIZE / PAGE_SIZE (16384)
    MaxRefs,        \* bound on the reference counts an owner writes
    AllocBound      \* bound on nAlloc, a size_t in the code

ASSUME SlabAssumption ==
    /\ InitPages \in Nat \ {0}
    /\ CellsPerPage \in Nat \ {0}
    /\ SlabPages \in Nat
    /\ 2 * InitPages <= SlabPages
    /\ MaxRefs \in Nat
    /\ AllocBound \in Nat

VARIABLES
    first,          \* slab->first
    word,           \* entries[i].next, the same bytes as entries[i].refs
    nPages,         \* slab->n_pages
    committed,      \* pages made readable by mprotect
    nAlloc,         \* slab->n_alloc
    nFree,          \* slab->n_free
    status,         \* "running", "aborted" or "deleted"
    live            \* auxiliary: cells in use

vars == <<first, word, nPages, committed, nAlloc, nFree, status, live>>

END_MK == -1
TotalCells == SlabPages * CellsPerPage
Cells == 0..(TotalCells - 1)
Links == Cells \cup {END_MK}

\* The CELL_COUNT macro.
CellCount == nPages * CellsPerPage

\* The cells that slab_new and slab_expand have chained so far.
Linked == 0..(CellCount - 1)

Free == Linked \ live

-----------------------------------------------------------------------------

\* Chain the cells lo..hi-1 one after the other, the last one to END_MK.
Chain(w, lo, hi) ==
    [c \in Cells |-> IF c \in lo..(hi - 2) THEN c + 1
                     ELSE IF c = hi - 1 THEN END_MK ELSE w[c]]

\* slab_new: the region is reserved, twice n_pages of it made readable, and
\* the cells of the first n_pages chained.
Init ==
    /\ first = 0
    /\ word = Chain([c \in Cells |-> 0], 0, InitPages * CellsPerPage)
    /\ nPages = InitPages
    /\ committed = 2 * InitPages
    /\ nAlloc = 0
    /\ nFree = 0
    /\ status = "running"
    /\ live = {}

\* The pop at the end of slab_allocate, from a list headed by f in w.  The
\* cell is erased: its word is 0 until its owner writes a reference count.
Pop(f, w) ==
    /\ first' = w[f]
    /\ word' = [w EXCEPT ![f] = 0]
    /\ nAlloc' = nAlloc + 1
    /\ live' = live \cup {f}
    /\ UNCHANGED <<nFree, status>>

\* slab_allocate with a cell on the free list.
Allocate ==
    /\ status = "running"
    /\ nAlloc < AllocBound
    /\ first # END_MK
    /\ Pop(first, word)
    /\ UNCHANGED <<nPages, committed>>

\* Mutant: slab_expand commits the size the slab already has.
MutExpandCommit ==
    /\ status = "running"
    /\ nAlloc < AllocBound
    /\ first = END_MK
    /\ 2 * nPages <= SlabPages
    /\ committed' = nPages
    /\ nPages' = 2 * nPages
    /\ Pop(CellCount, Chain(word, CellCount, 2 * CellCount))

\* Mutant: slab_expand chains the whole region again, cells in use included.
MutExpandRestart ==
    /\ status = "running"
    /\ nAlloc < AllocBound
    /\ first = END_MK
    /\ 2 * nPages <= SlabPages
    /\ committed' = 2 * nPages
    /\ nPages' = 2 * nPages
    /\ Pop(0, Chain(word, 0, 2 * CellCount))

\* slab_allocate on an empty free list: slab_expand commits twice the pages
\* and chains the new half before the pop.
ExpandAndAllocate ==
    /\ status = "running"
    /\ nAlloc < AllocBound
    /\ first = END_MK
    /\ 2 * nPages <= SlabPages
    /\ committed' = 2 * nPages
    /\ nPages' = 2 * nPages
    /\ Pop(CellCount, Chain(word, CellCount, 2 * CellCount))

\* slab_allocate on an empty free list when slab_expand returns false: the
\* region is exhausted, or mprotect fails (any expansion can).
OutOfMemory ==
    /\ status = "running"
    /\ first = END_MK
    /\ status' = "aborted"
    /\ UNCHANGED <<first, word, nPages, committed, nAlloc, nFree, live>>

\* Mutant: the index of the cell is rounded up.
MutDeallocateIndex(c) ==
    /\ status = "running"
    /\ c \in live
    /\ word' = [word EXCEPT ![c] = first]
    /\ first' = c + 1
    /\ nFree' = nFree + 1
    /\ live' = live \ {c}
    /\ UNCHANGED <<nPages, committed, nAlloc, status>>

\* Mutant: the head is moved before the cell is linked to it.
MutDeallocateOrder(c) ==
    /\ status = "running"
    /\ c \in live
    /\ first' = c
    /\ word' = [word EXCEPT ![c] = first']
    /\ nFree' = nFree + 1
    /\ live' = live \ {c}
    /\ UNCHANGED <<nPages, committed, nAlloc, status>>

\* Mutant: a cell that becomes the only free one is not counted.
MutDeallocateCount(c) ==
    /\ status = "running"
    /\ c \in live
    /\ word' = [word EXCEPT ![c] = first]
    /\ first' = c
    /\ nFree' = IF first = END_MK THEN nFree ELSE nFree + 1
    /\ live' = live \ {c}
    /\ UNCHANGED <<nPages, committed, nAlloc, status>>

\* slab_deallocate of a cell its owner holds.
Deallocate(c) ==
    /\ status = "running"
    /\ c \in live
    /\ word' = [word EXCEPT ![c] = first]
    /\ first' = c
    /\ nFree' = nFree + 1
    /\ live' = live \ {c}
    /\ UNCHANGED <<nPages, committed, nAlloc, status>>

\* The owner of a cell writes its reference count (UP, DOWN, lisp_make_*).
Use(c, refs) ==
    /\ status = "running"
    /\ c \in live
    /\ word' = [word EXCEPT ![c] = refs]
    /\ UNCHANGED <<first, nPages, committed, nAlloc, nFree, status, live>>

\* slab_delete: the region is unmapped.
Delete ==
    /\ status = "running"
    /\ status' = "deleted"
    /\ UNCHANGED <<first, word, nPages, committed, nAlloc, nFree, live>>

Next ==
    \/ Allocate
    \/ ExpandAndAllocate
    \/ OutOfMemory
    \/ \E c \in Cells : Deallocate(c)
    \/ \E c \in Cells, refs \in 0..MaxRefs : Use(c, refs)
    \/ Delete

Spec == Init /\ [][Next]_vars

-----------------------------------------------------------------------------

\* The variables keep their types; a word is a link or a reference count.
TypeOK ==
    /\ first \in Links
    /\ word \in [Cells -> Links \cup 0..MaxRefs]
    /\ nPages \in 1..SlabPages
    /\ committed \in 1..SlabPages
    /\ nAlloc \in 0..AllocBound
    /\ nFree \in Nat
    /\ status \in {"running", "aborted", "deleted"}
    /\ live \subseteq Cells

\* Every access of slab.c to a cell (the free ones, the ones in use) falls in
\* pages that mprotect made readable: slab_new commits twice what it chains and
\* slab_expand exactly what it chains, and the two sizes must agree.
CommittedCells ==
    /\ live \subseteq Linked
    /\ nPages <= committed

\* The links w from f on visit the cells of F, each once, and then end: r
\* numbers F down along the links, from |F| at f to 1 at the last cell.
ListOf(F, f, w) ==
    \E r \in [F -> 1..Cardinality(F)] :
        /\ \A c, d \in F : r[c] = r[d] => c = d
        /\ \A c \in F : IF r[c] = 1 THEN w[c] = END_MK
                        ELSE w[c] \in F /\ r[w[c]] = r[c] - 1
        /\ IF F = {} THEN f = END_MK ELSE f \in F /\ r[f] = Cardinality(F)

\* slab_allocate and slab_deallocate keep the free list exact: no free cell is
\* lost, none is in it twice, no cell in use is in it, whatever its owner
\* writes in the shared word and however many times the slab has grown.
FreeListExact == ListOf(Free, first, word)

\* n_alloc - n_free, what `minimal -d` and the tests compare at exit, counts
\* the cells in use.
Accounting == nAlloc - nFree = Cardinality(live)

\* The free list implements the pool.
Pool == INSTANCE SlabPool
PoolSpec == Pool!Spec
=============================================================================
