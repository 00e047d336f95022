------------------------------ MODULE SlabPool ------------------------------
(***************************************************************************)
(* What the slab allocator of lib/core/slab.c promises to the interpreter: *)
(* a pool of numbered cells.  A cell handed out is one that nobody holds,  *)
(* a cell given back can be handed out again, and the two counters of      *)
(* struct slab say how many cells are out.  The allocator gives up only    *)
(* when every cell it has committed so far is in use.                      *)
(*                                                                         *)
(* Slab.tla is the free list that implements this promise.                 *)
(***************************************************************************)
EXTENDS Naturals, FiniteSets

CONSTANTS
    TotalCells,     \* cells that fit in the reserved region (SLAB_SIZE)
    AllocBound      \* bound on nAlloc, a size_t in the code

VARIABLES
    live,           \* cells the interpreter holds
    nAlloc,         \* slab->n_alloc
    nFree,          \* slab->n_free
    status          \* "running", "aborted" (out of memory) or "deleted"

vars == <<live, nAlloc, nFree, status>>

Init ==
    /\ live = {}
    /\ nAlloc = 0
    /\ nFree = 0
    /\ status = "running"

\* A cell nobody holds is handed out.
Allocate(c) ==
    /\ status = "running"
    /\ nAlloc < AllocBound
    /\ c \notin live
    /\ live' = live \cup {c}
    /\ nAlloc' = nAlloc + 1
    /\ UNCHANGED <<nFree, status>>

\* A held cell is given back.
Deallocate(c) ==
    /\ status = "running"
    /\ c \in live
    /\ live' = live \ {c}
    /\ nFree' = nFree + 1
    /\ UNCHANGED <<nAlloc, status>>

\* The process dies, but only with all the committed cells (a prefix of the
\* region that is not empty) in use.
Abort ==
    /\ status = "running"
    /\ \E n \in 1..TotalCells : live = 0..(n - 1)
    /\ status' = "aborted"
    /\ UNCHANGED <<live, nAlloc, nFree>>

Delete ==
    /\ status = "running"
    /\ status' = "deleted"
    /\ UNCHANGED <<live, nAlloc, nFree>>

Next ==
    \/ \E c \in 0..(TotalCells - 1) : Allocate(c) \/ Deallocate(c)
    \/ Abort
    \/ Delete

Spec == Init /\ [][Next]_vars
=============================================================================
