----------------------------- MODULE SlabProofs -----------------------------
(***************************************************************************)
(* Proofs about the slab allocator, for every page count and page size.    *)
(*                                                                         *)
(* The four invariants of Slab are inductive together and not one by one:  *)
(* that `first` stays a link (TypeOK) needs the free list to be exact, the *)
(* free list stays exact on an expansion only because the cells in use lie *)
(* below CELL_COUNT (CommittedCells), and a counter moves by one only for  *)
(* a cell that enters or leaves `live` (FreeListExact).                    *)
(***************************************************************************)
EXTENDS Slab, FiniteSetTheorems, TLAPS

\* The inductive invariant.
IInv == TypeOK /\ CommittedCells /\ FreeListExact /\ Accounting

-----------------------------------------------------------------------------
\* Arithmetic.

LEMMA MulMonotone ==
  ASSUME NEW a \in Nat, NEW b \in Nat, NEW c \in Nat, a <= b
  PROVE  /\ a * c \in Nat
         /\ b * c \in Nat
         /\ a * c <= b * c
<1>1. PICK d \in Nat : b = a + d
  <2> WITNESS b - a \in Nat
  <2> QED OBVIOUS
<1>2. /\ a * c \in Nat /\ d * c \in Nat
  OBVIOUS
<1>3. b * c = a * c + d * c
  BY <1>1
<1> QED BY <1>2, <1>3

\* The region is at least one cell long, and the cells that n pages hold are
\* cells of the region.
LEMMA Sizes ==
  ASSUME NEW n \in 1..SlabPages
  PROVE  /\ TotalCells \in Nat
         /\ n * CellsPerPage \in Nat
         /\ 1 <= n * CellsPerPage
         /\ n * CellsPerPage <= TotalCells
         /\ (2 * n) * CellsPerPage = 2 * (n * CellsPerPage)
<1>1. /\ SlabPages \in Nat /\ CellsPerPage \in Nat /\ CellsPerPage >= 1 /\ n \in Nat
  BY SlabAssumption
<1>2. 1 * CellsPerPage <= n * CellsPerPage
  BY <1>1, MulMonotone
<1>3. n * CellsPerPage <= SlabPages * CellsPerPage
  BY <1>1, MulMonotone
<1>4. /\ SlabPages * CellsPerPage \in Nat /\ n * CellsPerPage \in Nat
  BY <1>1, MulMonotone
<1>5. (2 * n) * CellsPerPage = 2 * (n * CellsPerPage)
  BY <1>1
<1> QED BY <1>1, <1>2, <1>3, <1>4, <1>5 DEF TotalCells

-----------------------------------------------------------------------------
\* Lists of cells.

\* A fresh run of cells is a list headed by its first cell.
LEMMA ChainIsList ==
  ASSUME NEW w, NEW lo \in Nat, NEW hi \in Nat, lo < hi, hi <= TotalCells,
         TotalCells \in Nat
  PROVE  ListOf(lo..(hi - 1), lo, Chain(w, lo, hi))
<1> DEFINE F == lo..(hi - 1)
           r == [c \in F |-> hi - c]
<1>1. Cardinality(F) = hi - lo
  BY FS_Interval
<1>2. r \in [F -> 1..Cardinality(F)]
  BY <1>1
<1>3. \A c \in F : Chain(w, lo, hi)[c] = IF c = hi - 1 THEN END_MK ELSE c + 1
  BY DEF Chain, Cells
<1>4. \A c \in F : IF r[c] = 1 THEN Chain(w, lo, hi)[c] = END_MK
                   ELSE /\ Chain(w, lo, hi)[c] \in F
                        /\ r[Chain(w, lo, hi)[c]] = r[c] - 1
  BY <1>3
<1>5. F # {} /\ lo \in F /\ r[lo] = Cardinality(F)
  BY <1>1
<1>6. \A c, d \in F : r[c] = r[d] => c = d
  OBVIOUS
<1> HIDE DEF F, r
<1> QED BY <1>2, <1>4, <1>5, <1>6 DEF ListOf, F

LEMMA ChainType ==
  ASSUME NEW lo \in Nat, NEW hi \in Nat, hi <= TotalCells, TotalCells \in Nat,
         NEW w \in [Cells -> Links \cup 0..MaxRefs]
  PROVE  Chain(w, lo, hi) \in [Cells -> Links \cup 0..MaxRefs]
<1>1. \A c \in Cells : Chain(w, lo, hi)[c] =
        IF c \in lo..(hi - 2) THEN c + 1 ELSE IF c = hi - 1 THEN END_MK ELSE w[c]
  BY DEF Chain
<1>2. \A c \in lo..(hi - 2) : c + 1 \in Cells
  BY DEF Cells
<1>3. \A c \in Cells : Chain(w, lo, hi)[c] \in Links \cup 0..MaxRefs
  BY <1>1, <1>2 DEF Links
<1> QED BY <1>3 DEF Chain

\* Removing the head of a list leaves the list of the other cells, headed by
\* the link of the cell removed.
LEMMA PopIsList ==
  ASSUME NEW F \in SUBSET Cells, IsFiniteSet(F), NEW f, f # END_MK,
         NEW w, ListOf(F, f, w), NEW w2,
         \A c \in F \ {f} : w2[c] = w[c]
  PROVE  /\ f \in F
         /\ w[f] \in F \cup {END_MK}
         /\ ListOf(F \ {f}, w[f], w2)
<1> DEFINE G == F \ {f}
<1>1. PICK r \in [F -> 1..Cardinality(F)] :
        /\ \A c, d \in F : r[c] = r[d] => c = d
        /\ \A c \in F : IF r[c] = 1 THEN w[c] = END_MK
                        ELSE w[c] \in F /\ r[w[c]] = r[c] - 1
        /\ IF F = {} THEN f = END_MK ELSE f \in F /\ r[f] = Cardinality(F)
  BY DEF ListOf
<1>2. f \in F /\ r[f] = Cardinality(F) /\ w[f] \in F \cup {END_MK}
  BY <1>1
<1>3. /\ Cardinality(F) \in Nat
      /\ Cardinality(G) = Cardinality(F) - 1
  BY <1>2, FS_CardinalityType, FS_RemoveElement
<1>4. \A c \in G : r[c] \in 1..Cardinality(G)
  <2> TAKE c \in G
  <2>1. r[c] \in 1..Cardinality(F)
    BY <1>1
  <2>2. r[c] # Cardinality(F)
    BY <1>1, <1>2
  <2> QED BY <1>3, <2>1, <2>2
<1>5. \A c \in G : IF r[c] = 1 THEN w2[c] = END_MK
                   ELSE w2[c] \in G /\ r[w2[c]] = r[c] - 1
  <2> SUFFICES ASSUME NEW c \in G, r[c] # 1
               PROVE  w[c] \in G /\ r[w[c]] = r[c] - 1
    BY <1>1
  <2>1. w[c] \in F /\ r[w[c]] = r[c] - 1
    BY <1>1
  <2>2. r[c] \in Int /\ r[c] < r[f]
    BY <1>2, <1>3, <1>4
  <2> QED BY <1>2, <1>3, <2>1, <2>2
<1>6. IF G = {} THEN w[f] = END_MK ELSE w[f] \in G /\ r[w[f]] = Cardinality(G)
  <2>1. CASE G = {}
    <3>1. Cardinality(G) = 0
      BY <2>1, FS_EmptySet
    <3> QED BY <1>1, <1>2, <1>3, <2>1, <3>1
  <2>2. CASE G # {}
    <3>1. r[f] # 1
      <4>1. PICK c \in G : TRUE
        BY <2>2
      <4>2. 1 <= r[f] - 1
        BY <1>2, <1>3, <1>4, <4>1
      <4> QED BY <1>2, <1>3, <4>2
    <3>2. w[f] \in F /\ r[w[f]] = r[f] - 1
      BY <1>1, <1>2, <3>1
    <3> QED BY <1>2, <1>3, <2>2, <3>2
  <2> QED BY <2>1, <2>2
<1> DEFINE s == [c \in G |-> r[c]]
<1>7. s \in [G -> 1..Cardinality(G)]
  BY <1>4
<1>8. /\ \A c, d \in G : s[c] = s[d] => c = d
      /\ \A c \in G : IF s[c] = 1 THEN w2[c] = END_MK
                      ELSE w2[c] \in G /\ s[w2[c]] = s[c] - 1
      /\ IF G = {} THEN w[f] = END_MK ELSE w[f] \in G /\ s[w[f]] = Cardinality(G)
  BY <1>1, <1>5, <1>6
<1> HIDE DEF G, s
<1>9. ListOf(G, w[f], w2)
  BY <1>7, <1>8 DEF ListOf
<1> QED BY <1>2, <1>9 DEF G

\* Putting a new cell in front of a list makes a list.
LEMMA PushIsList ==
  ASSUME NEW F \in SUBSET Cells, IsFiniteSet(F), NEW f, NEW c \in Cells \ F,
         NEW w, ListOf(F, f, w), NEW w2, w2[c] = f,
         \A d \in F : w2[d] = w[d]
  PROVE  ListOf(F \cup {c}, c, w2)
<1> DEFINE G == F \cup {c}
<1>1. PICK r \in [F -> 1..Cardinality(F)] :
        /\ \A a, b \in F : r[a] = r[b] => a = b
        /\ \A a \in F : IF r[a] = 1 THEN w[a] = END_MK
                        ELSE w[a] \in F /\ r[w[a]] = r[a] - 1
        /\ IF F = {} THEN f = END_MK ELSE f \in F /\ r[f] = Cardinality(F)
  BY DEF ListOf
<1>2. /\ Cardinality(F) \in Nat
      /\ Cardinality(G) = Cardinality(F) + 1
      /\ F = {} <=> Cardinality(F) = 0
  BY FS_CardinalityType, FS_AddElement, FS_EmptySet
<1> DEFINE s == [a \in G |-> IF a = c THEN Cardinality(G) ELSE r[a]]
<1>3. \A a \in F : a # c /\ s[a] = r[a] /\ s[a] \in 1..Cardinality(F)
  BY <1>1
<1>4. s \in [G -> 1..Cardinality(G)]
  BY <1>2, <1>3
<1>5. \A a, b \in G : s[a] = s[b] => a = b
  BY <1>1, <1>2, <1>3
<1>6. \A a \in G : IF s[a] = 1 THEN w2[a] = END_MK
                   ELSE w2[a] \in G /\ s[w2[a]] = s[a] - 1
  <2> TAKE a \in G
  <2>1. CASE a = c
    <3>1. s[a] = Cardinality(F) + 1
      BY <1>2, <2>1
    <3>2. CASE F = {}
      BY <1>1, <1>2, <2>1, <3>1, <3>2
    <3>3. CASE F # {}
      <4>1. f \in F /\ r[f] = Cardinality(F)
        BY <1>1, <3>3
      <4> QED BY <1>2, <1>3, <2>1, <3>1, <3>3, <4>1
    <3> QED BY <3>2, <3>3
  <2>2. CASE a # c
    BY <1>1, <1>3, <2>2
  <2> QED BY <2>1, <2>2
<1>7. c \in G /\ s[c] = Cardinality(G) /\ G # {}
  OBVIOUS
<1> HIDE DEF G, s
<1>8. ListOf(G, c, w2)
  BY <1>4, <1>5, <1>6, <1>7 DEF ListOf
<1> QED BY <1>8 DEF G

\* What is written in the cells outside a list does not change the list.
LEMMA SameList ==
  ASSUME NEW F, NEW f, NEW w, ListOf(F, f, w), NEW w2,
         \A c \in F : w2[c] = w[c]
  PROVE  ListOf(F, f, w2)
BY DEF ListOf

-----------------------------------------------------------------------------
\* The invariant.

\* Facts about the sizes and the sets of cells in a state of the invariant.
LEMMA StateFacts ==
  ASSUME TypeOK, CommittedCells
  PROVE  /\ TotalCells \in Nat /\ CellCount \in Nat
         /\ 1 <= CellCount /\ CellCount <= TotalCells
         /\ Linked \subseteq Cells
         /\ IsFiniteSet(Linked) /\ IsFiniteSet(live) /\ IsFiniteSet(Free)
         /\ Free \subseteq Cells
         /\ Cardinality(live) \in Nat
<1>1. /\ TotalCells \in Nat /\ CellCount \in Nat
      /\ 1 <= CellCount /\ CellCount <= TotalCells
  BY Sizes DEF TypeOK, CellCount
<1>2. Linked \subseteq Cells
  BY <1>1 DEF Linked, Cells
<1>3. IsFiniteSet(Linked)
  BY <1>1, FS_Interval DEF Linked
<1>4. IsFiniteSet(live) /\ IsFiniteSet(Free)
  BY <1>3, FS_Subset DEF CommittedCells, Free
<1> QED BY <1>1, <1>2, <1>3, <1>4, FS_CardinalityType DEF Free

LEMMA InitIInv == Init => IInv
<1> SUFFICES ASSUME Init PROVE IInv
  OBVIOUS
<1>1. InitPages \in 1..SlabPages
  BY SlabAssumption
<1>2. /\ TotalCells \in Nat /\ CellCount \in Nat
      /\ 1 <= CellCount /\ CellCount <= TotalCells
  BY <1>1, Sizes DEF Init, CellCount
<1>3. Free = 0..(CellCount - 1)
  BY DEF Init, Free, Linked
<1>4. word = Chain([c \in Cells |-> 0], 0, CellCount)
  BY DEF Init, CellCount
<1>5. FreeListExact
  BY <1>2, <1>3, <1>4, ChainIsList DEF FreeListExact, Init
<1>6. word \in [Cells -> Links \cup 0..MaxRefs]
  <2>1. [c \in Cells |-> 0] \in [Cells -> Links \cup 0..MaxRefs]
    BY SlabAssumption
  <2> QED BY <1>2, <1>4, <2>1, ChainType
<1>7. TypeOK
  BY <1>1, <1>2, <1>6, SlabAssumption DEF TypeOK, Init, Links, Cells
<1>8. CommittedCells
  BY SlabAssumption DEF CommittedCells, Init
<1>9. Accounting
  BY FS_EmptySet DEF Accounting, Init
<1> QED BY <1>5, <1>7, <1>8, <1>9 DEF IInv

\* Popping the head f of a list of free cells, chained in w.
LEMMA PopStep ==
  ASSUME IInv, NEW w \in [Cells -> Links \cup 0..MaxRefs], NEW f, f # END_MK,
         nAlloc < AllocBound,
         NEW F \in SUBSET Cells, IsFiniteSet(F), F \cap live = {},
         ListOf(F, f, w), Pop(f, w)
  PROVE  /\ f \in F
         /\ first' \in Links
         /\ word' \in [Cells -> Links \cup 0..MaxRefs]
         /\ nAlloc' \in 0..AllocBound
         /\ live' = live \cup {f}
         /\ ListOf(F \ {f}, first', word')
         /\ Accounting'
<1> USE DEF IInv
<1>1. /\ first' = w[f] /\ word' = [w EXCEPT ![f] = 0]
      /\ nAlloc' = nAlloc + 1 /\ live' = live \cup {f}
      /\ UNCHANGED <<nFree, status>>
  BY DEF Pop
<1>2. \A c \in F \ {f} : word'[c] = w[c]
  BY <1>1
<1>3. /\ f \in F
      /\ w[f] \in F \cup {END_MK}
      /\ ListOf(F \ {f}, w[f], word')
  BY <1>2, PopIsList
<1>4. first' \in Links
  BY <1>1, <1>3 DEF Links
<1>5. word' \in [Cells -> Links \cup 0..MaxRefs]
  <2>1. 0 \in Links \cup 0..MaxRefs
    BY SlabAssumption
  <2> QED BY <1>1, <2>1
<1>6. nAlloc' \in 0..AllocBound
  BY <1>1, SlabAssumption DEF TypeOK
<1>7. Cardinality(live') = Cardinality(live) + 1
  BY <1>1, <1>3, FS_AddElement, StateFacts
<1>8. Accounting'
  BY <1>1, <1>7, StateFacts DEF Accounting, TypeOK
<1> QED BY <1>1, <1>3, <1>4, <1>5, <1>6, <1>8

LEMMA AllocateStep == IInv /\ Allocate => IInv'
<1> SUFFICES ASSUME IInv, Allocate PROVE IInv'
  OBVIOUS
<1> USE DEF IInv
<1>1. Free \in SUBSET Cells /\ IsFiniteSet(Free) /\ Free \cap live = {}
  BY StateFacts DEF Free
<1>2. /\ first \in Free
      /\ first' \in Links
      /\ word' \in [Cells -> Links \cup 0..MaxRefs]
      /\ nAlloc' \in 0..AllocBound
      /\ live' = live \cup {first}
      /\ ListOf(Free \ {first}, first', word')
      /\ Accounting'
  BY <1>1, PopStep DEF Allocate, FreeListExact, TypeOK
<1>3. nPages' = nPages /\ committed' = committed /\ nFree' = nFree /\ status' = status
  BY DEF Allocate, Pop
<1>4. Linked' = Linked /\ Free' = Free \ {first}
  BY <1>2, <1>3 DEF Linked, CellCount, Free
<1>5. TypeOK'
  BY <1>1, <1>2, <1>3 DEF TypeOK
<1>6. CommittedCells'
  BY <1>2, <1>3, <1>4 DEF CommittedCells, Free
<1>7. FreeListExact'
  BY <1>2, <1>4 DEF FreeListExact
<1> QED BY <1>2, <1>5, <1>6, <1>7

LEMMA ExpandStep == IInv /\ ExpandAndAllocate => IInv'
<1> SUFFICES ASSUME IInv, ExpandAndAllocate PROVE IInv'
  OBVIOUS
<1> USE DEF IInv
<1> DEFINE w == Chain(word, CellCount, 2 * CellCount)
           F == CellCount..(2 * CellCount - 1)
<1>1. Free = {}
  BY DEF FreeListExact, ListOf, ExpandAndAllocate, Free, Linked, END_MK
<1>2. /\ nPages' = 2 * nPages /\ nPages' \in 1..SlabPages
      /\ committed' = nPages' /\ nFree' = nFree /\ status' = status
  BY DEF ExpandAndAllocate, Pop, TypeOK
<1>3. /\ CellCount' = 2 * CellCount
      /\ 2 * CellCount <= TotalCells
      /\ TotalCells \in Nat /\ CellCount \in Nat /\ 1 <= CellCount
  BY <1>2, Sizes, StateFacts DEF CellCount, TypeOK
<1>4. ListOf(F, CellCount, w)
  BY <1>3, ChainIsList
<1>5. w \in [Cells -> Links \cup 0..MaxRefs]
  BY <1>3, ChainType DEF TypeOK
<1>6. F \in SUBSET Cells /\ IsFiniteSet(F) /\ F \cap live = {}
  BY <1>3, FS_Interval DEF Cells, CommittedCells, Linked
<1>7. CellCount # END_MK
  BY <1>3 DEF END_MK
<1>8. Pop(CellCount, w) /\ nAlloc < AllocBound
  BY DEF ExpandAndAllocate
<1> HIDE DEF w
<1>9. /\ CellCount \in F
      /\ first' \in Links
      /\ word' \in [Cells -> Links \cup 0..MaxRefs]
      /\ nAlloc' \in 0..AllocBound
      /\ live' = live \cup {CellCount}
      /\ ListOf(F \ {CellCount}, first', word')
      /\ Accounting'
  BY <1>4, <1>5, <1>6, <1>7, <1>8, PopStep
<1>10. Linked' = Linked \cup F
  BY <1>3 DEF Linked
<1>11. Free' = F \ {CellCount}
  BY <1>1, <1>3, <1>6, <1>9, <1>10 DEF Free, Linked
<1>12. TypeOK'
  BY <1>2, <1>6, <1>9 DEF TypeOK
<1>13. CommittedCells'
  BY <1>2, <1>9, <1>10 DEF CommittedCells, TypeOK
<1>14. FreeListExact'
  BY <1>9, <1>11 DEF FreeListExact
<1> QED BY <1>9, <1>12, <1>13, <1>14

LEMMA DeallocateStep ==
  ASSUME IInv, NEW c \in Cells, Deallocate(c)
  PROVE  IInv'
<1> USE DEF IInv
<1>1. /\ c \in live /\ live' = live \ {c}
      /\ first' = c /\ word' = [word EXCEPT ![c] = first]
      /\ nFree' = nFree + 1
      /\ UNCHANGED <<nPages, committed, nAlloc, status>>
  BY DEF Deallocate
<1>2. c \notin Free /\ c \in Linked /\ Linked' = Linked
  BY <1>1 DEF Free, CommittedCells, Linked, CellCount
<1>3. Free' = Free \cup {c}
  BY <1>1, <1>2 DEF Free
<1>4. /\ Free \in SUBSET Cells /\ IsFiniteSet(Free)
      /\ IsFiniteSet(live) /\ Cardinality(live) \in Nat
  BY StateFacts
<1>5. word'[c] = first /\ \A d \in Free : word'[d] = word[d]
  BY <1>1, <1>2, <1>4 DEF TypeOK
<1>6. ListOf(Free, first, word)
  BY DEF FreeListExact
<1>7. ListOf(Free \cup {c}, c, word')
  BY <1>2, <1>4, <1>5, <1>6, PushIsList
<1>8. FreeListExact'
  BY <1>1, <1>3, <1>7 DEF FreeListExact
<1>9. TypeOK'
  BY <1>1 DEF TypeOK, Links
<1>10. CommittedCells'
  BY <1>1, <1>2 DEF CommittedCells
<1>11. Cardinality(live') = Cardinality(live) - 1
  BY <1>1, <1>4, FS_RemoveElement
<1>12. Accounting'
  BY <1>1, <1>4, <1>11 DEF Accounting, TypeOK
<1> QED BY <1>8, <1>9, <1>10, <1>12

LEMMA UseStep ==
  ASSUME IInv, NEW c \in Cells, NEW refs \in 0..MaxRefs, Use(c, refs)
  PROVE  IInv'
<1> USE DEF IInv
<1>1. /\ c \in live /\ word' = [word EXCEPT ![c] = refs]
      /\ UNCHANGED <<first, nPages, committed, nAlloc, nFree, status, live>>
  BY DEF Use
<1>2. Linked' = Linked /\ Free' = Free
  BY <1>1 DEF Free, Linked, CellCount
<1>3. \A d \in Free : word'[d] = word[d]
  BY <1>1 DEF Free, TypeOK
<1>4. ListOf(Free, first, word')
  BY <1>3, SameList DEF FreeListExact
<1>5. FreeListExact'
  BY <1>1, <1>2, <1>4 DEF FreeListExact
<1>6. TypeOK'
  BY <1>1 DEF TypeOK
<1>7. CommittedCells' /\ Accounting'
  BY <1>1, <1>2 DEF CommittedCells, Accounting
<1> QED BY <1>5, <1>6, <1>7

\* The actions that leave the cells alone: out of memory, deletion, stuttering.
LEMMA QuietStep ==
  ASSUME IInv, status' \in {"running", "aborted", "deleted"},
         UNCHANGED <<first, word, nPages, committed, nAlloc, nFree, live>>
  PROVE  IInv'
<1> USE DEF IInv
<1>1. Linked' = Linked /\ Free' = Free
  BY DEF Free, Linked, CellCount
<1>2. TypeOK' /\ CommittedCells' /\ Accounting'
  BY <1>1 DEF TypeOK, CommittedCells, Accounting
<1>3. FreeListExact'
  BY <1>1 DEF FreeListExact
<1> QED BY <1>2, <1>3

LEMMA NextIInv == IInv /\ [Next]_vars => IInv'
<1> SUFFICES ASSUME IInv, [Next]_vars PROVE IInv'
  OBVIOUS
<1>1. CASE Allocate
  BY <1>1, AllocateStep
<1>2. CASE ExpandAndAllocate
  BY <1>2, ExpandStep
<1>3. CASE OutOfMemory
  BY <1>3, QuietStep DEF OutOfMemory
<1>4. ASSUME NEW c \in Cells, Deallocate(c) PROVE IInv'
  BY <1>4, DeallocateStep
<1>5. ASSUME NEW c \in Cells, NEW refs \in 0..MaxRefs, Use(c, refs) PROVE IInv'
  BY <1>5, UseStep
<1>6. CASE Delete
  BY <1>6, QuietStep DEF Delete
<1>7. CASE UNCHANGED vars
  BY <1>7, QuietStep DEF vars, IInv, TypeOK
<1> QED BY <1>1, <1>2, <1>3, <1>4, <1>5, <1>6, <1>7 DEF Next

\* slab.c keeps its inductive invariant.
THEOREM Invariant == Spec => []IInv
<1>1. Init => IInv
  BY InitIInv
<1>2. IInv /\ [Next]_vars => IInv'
  BY NextIInv
<1> QED BY <1>1, <1>2, PTL DEF Spec

\* The variables keep their types.
THEOREM TypeCorrect == Spec => []TypeOK
BY Invariant, PTL DEF IInv

\* slab_allocate and slab_deallocate touch committed pages only.
THEOREM CommittedCorrect == Spec => []CommittedCells
BY Invariant, PTL DEF IInv

\* The free list is exactly the free cells, whatever the owners of the others
\* write in the word that a free cell uses as its link.
THEOREM FreeListCorrect == Spec => []FreeListExact
BY Invariant, PTL DEF IInv

\* n_alloc - n_free counts the cells in use, so their equality at exit (the
\* check of `minimal -d`) means that no cell is left out.
THEOREM AccountingCorrect == Spec => []Accounting
BY Invariant, PTL DEF IInv

-----------------------------------------------------------------------------
\* The free list implements the pool.

\* A pop from a list of cells that nobody holds is an allocation of the pool.
LEMMA PopRefines ==
  ASSUME IInv, status = "running", nAlloc < AllocBound, NEW w, NEW f \in Cells,
         f \notin live, Pop(f, w)
  PROVE  Pool!Next
<1>1. Pool!Allocate(f)
  BY DEF Pool!Allocate, Pop
<1> QED BY <1>1 DEF Pool!Next, Cells

LEMMA AllocateRefines == IInv /\ Allocate => Pool!Next
<1> SUFFICES ASSUME IInv, Allocate PROVE Pool!Next
  OBVIOUS
<1>1. first \in Free
  BY DEF Allocate, IInv, FreeListExact, ListOf
<1>2. first \in Cells /\ first \notin live
  BY <1>1, StateFacts DEF IInv, Free
<1> QED BY <1>2, PopRefines DEF Allocate

LEMMA ExpandRefines == IInv /\ ExpandAndAllocate => Pool!Next
<1> SUFFICES ASSUME IInv, ExpandAndAllocate PROVE Pool!Next
  OBVIOUS
<1>1. nPages' \in 1..SlabPages /\ nPages' = 2 * nPages
  BY DEF ExpandAndAllocate, IInv, TypeOK
<1>2. /\ 2 * CellCount <= TotalCells
      /\ TotalCells \in Nat /\ CellCount \in Nat /\ 1 <= CellCount
  BY <1>1, Sizes, StateFacts DEF CellCount, IInv, TypeOK
<1>3. CellCount \in Cells /\ CellCount \notin live
  BY <1>2 DEF Cells, IInv, CommittedCells, Linked
<1> QED BY <1>3, PopRefines DEF ExpandAndAllocate

\* The pool may give up here: every committed cell is in use.
LEMMA OutOfMemoryRefines == IInv /\ OutOfMemory => Pool!Next
<1> SUFFICES ASSUME IInv, OutOfMemory PROVE Pool!Next
  OBVIOUS
<1>1. Free = {}
  BY DEF OutOfMemory, IInv, FreeListExact, ListOf, Free, Linked, END_MK
<1>2. live = 0..(CellCount - 1)
  BY <1>1 DEF IInv, CommittedCells, Free, Linked
<1>3. CellCount \in 1..TotalCells
  BY StateFacts DEF IInv
<1>4. Pool!Abort
  BY <1>2, <1>3 DEF Pool!Abort, OutOfMemory
<1> QED BY <1>4 DEF Pool!Next

LEMMA NextRefines == IInv /\ [Next]_vars => [Pool!Next]_(Pool!vars)
<1> SUFFICES ASSUME IInv, [Next]_vars PROVE [Pool!Next]_(Pool!vars)
  OBVIOUS
<1>1. CASE Allocate
  BY <1>1, AllocateRefines
<1>2. CASE ExpandAndAllocate
  BY <1>2, ExpandRefines
<1>3. CASE OutOfMemory
  BY <1>3, OutOfMemoryRefines
<1>4. ASSUME NEW c \in Cells, Deallocate(c) PROVE Pool!Next
  <2>1. Pool!Deallocate(c)
    BY <1>4 DEF Deallocate, Pool!Deallocate
  <2> QED BY <2>1 DEF Pool!Next, Cells
<1>5. ASSUME NEW c \in Cells, NEW refs \in 0..MaxRefs, Use(c, refs)
      PROVE  UNCHANGED Pool!vars
  BY <1>5 DEF Use, Pool!vars
<1>6. CASE Delete
  <2>1. Pool!Delete
    BY <1>6 DEF Delete, Pool!Delete
  <2> QED BY <2>1 DEF Pool!Next
<1>7. CASE UNCHANGED vars
  BY <1>7 DEF vars, Pool!vars
<1> QED BY <1>1, <1>2, <1>3, <1>4, <1>5, <1>6, <1>7 DEF Next

\* Every behaviour of the free list is one of the pool: no cell is handed out
\* twice, and the process gives up only with every committed cell in use.
THEOREM Refinement == Spec => PoolSpec
<1>1. Init => Pool!Init
  BY DEF Init, Pool!Init
<1>2. IInv /\ [Next]_vars => [Pool!Next]_(Pool!vars)
  BY NextRefines
<1> QED BY <1>1, <1>2, Invariant, PTL DEF Spec, PoolSpec, Pool!Spec
=============================================================================
