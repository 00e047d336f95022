----------------------------- MODULE HeapProofs ------------------------------
(***************************************************************************)
(* The reference counts of Heap are exact, and nothing dangles, whatever   *)
(* the number of cells and of references that the C code holds.            *)
(*                                                                         *)
(* The counts are made of four numbers for each cell: the references in    *)
(* the hands of the C code, the pairs that own it by their CAR, the pairs  *)
(* that own it by their CDR, and the calls of X that are still to run.     *)
(* Every step moves a reference from one to another, or makes or takes one *)
(* together with the count.  What makes this inductive is that a cell is   *)
(* allocated with the count 0 exactly while one deallocation of it runs.   *)
(* It follows that between two calls only circular lists are lost.         *)
(***************************************************************************)
EXTENDS Heap, SequenceLemmas, FiniteSetTheorems

One(b) == IF b THEN 1 ELSE 0

Places(s, do, c) == {i \in DOMAIN s : s[i].do = do /\ s[i].cell = c}
Count(s, do, c) == Cardinality(Places(s, do, c))

(* What a pair refers to are cells, live or not.                           *)
Linked == \A d \in pairs : car[d] \in Cell /\ cdr[d] \in Cell

Dead == \A c \in Cell \ live : refs[c] = 0

(* One deallocation of a cell runs exactly when its count is 0.            *)
FreeOnce ==
  \A c \in Cell : Count(todo, "free", c) = One(c \in live /\ refs[c] = 0)

(* lisp_conc runs alone, but for the release of an atom, the old end of    *)
(* the list.                                                               *)
Walks ==
  \A i \in DOMAIN todo :
    todo[i].do \in {"walk", "link"} =>
      /\ i = 1 /\ Len(todo) <= 2
      /\ todo[1].cell \in pairs
      /\ todo[1].to \in Cell /\ hold[todo[1].to] > 0
      /\ Len(todo) = 2 => /\ todo[1].do = "link"
                          /\ todo[2].do \in {"drop", "free"}
                          /\ todo[2].cell \notin pairs

HeapInv == TypeOK /\ Linked /\ RefsExact /\ Dead /\ FreeOnce /\ Walks

-----------------------------------------------------------------------------
(* Counting.                                                               *)

LEMMA CardAdd ==
  ASSUME NEW A, IsFiniteSet(A), NEW d, d \notin A
  PROVE  Cardinality(A \cup {d}) = Cardinality(A) + 1 /\ Cardinality(A) \in Nat
<1>1. Cardinality(A \cup {d}) = Cardinality(A) + 1
  BY FS_AddElement
<1>. QED  BY <1>1, FS_CardinalityType

LEMMA CardDrop ==
  ASSUME NEW A, IsFiniteSet(A), NEW d \in A
  PROVE  Cardinality(A \ {d}) = Cardinality(A) - 1 /\ Cardinality(A) \in Nat \ {0}
<1>1. Cardinality(A \ {d}) = Cardinality(A) - 1
  BY FS_RemoveElement
<1>2. Cardinality(A) \in Nat /\ (Cardinality(A) = 0 <=> A = {})
  BY FS_CardinalityType, FS_EmptySet
<1>. QED  BY <1>1, <1>2

LEMMA CardZero ==
  ASSUME NEW A, IsFiniteSet(A)
  PROVE  Cardinality(A) \in Nat /\ (Cardinality(A) = 0 <=> A = {})
BY FS_CardinalityType, FS_EmptySet

(* The places of a stack are finitely many.                                *)
LEMMA PlacesFinite ==
  ASSUME NEW s \in Seq(Calls), NEW do, NEW c
  PROVE  /\ Places(s, do, c) \subseteq 1..Len(s) /\ IsFiniteSet(Places(s, do, c))
         /\ Count(s, do, c) \in Nat
         /\ Count(s, do, c) = 0 <=> Places(s, do, c) = {}
<1>1. Places(s, do, c) \subseteq 1..Len(s)
  BY DEF Places
<1>2. IsFiniteSet(1..Len(s))
  BY FS_Interval
<1>3. IsFiniteSet(Places(s, do, c))
  BY <1>1, <1>2, FS_Subset
<1>. QED  BY <1>1, <1>3, CardZero DEF Count

LEMMA CountEmpty ==
  ASSUME NEW do, NEW c
  PROVE  Count(<<>>, do, c) = 0
<1>1. Places(<<>>, do, c) = {}
  BY DEF Places
<1>. QED  BY <1>1, FS_EmptySet DEF Count

(* A call that is pushed counts once, for its own kind and cell.           *)
LEMMA CountAppend ==
  ASSUME NEW s \in Seq(Calls), NEW f \in Calls, NEW do, NEW c
  PROVE  /\ Count(s, do, c) \in Nat
         /\ Count(Append(s, f), do, c)
              = Count(s, do, c) + One(f.do = do /\ f.cell = c)
<1> DEFINE t == Append(s, f)
           n == Len(s) + 1
<1>1. /\ t \in Seq(Calls) /\ Len(s) \in Nat
      /\ DOMAIN s = 1..Len(s) /\ DOMAIN t = 1..n
      /\ \A i \in 1..Len(s) : t[i] = s[i]
      /\ t[n] = f
  BY AppendFacts
<1>2. \A i : i \in 1..n <=> i \in 1..Len(s) \/ i = n
  BY <1>1
<1>3. n \notin Places(s, do, c)
  BY <1>1 DEF Places
<1>. HIDE DEF t, n
<1>4. CASE f.do = do /\ f.cell = c
  <2>1. Places(t, do, c) = Places(s, do, c) \cup {n}
    BY <1>1, <1>2, <1>4 DEF Places
  <2>. QED  BY <2>1, <1>3, <1>4, PlacesFinite, CardAdd DEF Count, One, t
<1>5. CASE ~(f.do = do /\ f.cell = c)
  <2>1. Places(t, do, c) = Places(s, do, c)
    BY <1>1, <1>2, <1>5 DEF Places
  <2>2. Count(t, do, c) = Count(s, do, c) /\ Count(s, do, c) \in Nat
    BY <2>1, PlacesFinite DEF Count
  <2>. QED  BY <2>2, <1>5 DEF One, t
<1>. QED  BY <1>4, <1>5

(* A call of one kind is at the cells that are counted.                    *)
LEMMA DoingCount ==
  ASSUME NEW s \in Seq(Calls), NEW do, NEW c \in Cell
  PROVE  (\E i \in DOMAIN s : s[i].do = do /\ s[i].cell = c) <=> Count(s, do, c) > 0
<1> DEFINE n == Count(s, do, c)
<1>1. (\E i \in DOMAIN s : s[i].do = do /\ s[i].cell = c) <=> Places(s, do, c) # {}
  BY DEF Places
<1>2. n \in Nat /\ (n = 0 <=> Places(s, do, c) = {})
  BY PlacesFinite
<1>. HIDE DEF n
<1>3. (\E i \in DOMAIN s : s[i].do = do /\ s[i].cell = c) <=> n > 0
  BY <1>1, <1>2
<1>. QED  BY <1>3 DEF n

LEMMA DoingNow ==
  ASSUME NEW s \in Seq(Calls), NEW c \in Cell
  PROVE  /\ todo = s => \A do : c \in Doing(do) <=> Count(s, do, c) > 0
         /\ todo' = s => \A do : c \in Doing(do)' <=> Count(s, do, c) > 0
<1>1. \A do : (\E i \in DOMAIN s : s[i].do = do /\ s[i].cell = c) <=> Count(s, do, c) > 0
  BY DoingCount
<1>2. ASSUME todo = s, NEW do
      PROVE  c \in Doing(do) <=> \E i \in DOMAIN s : s[i].do = do /\ s[i].cell = c
  BY <1>2 DEF Doing
<1>3. ASSUME todo' = s, NEW do
      PROVE  c \in Doing(do)' <=> \E i \in DOMAIN s : s[i].do = do /\ s[i].cell = c
  BY <1>3 DEF Doing
<1>. QED  BY <1>1, <1>2, <1>3

(* A single call.                                                          *)
LEMMA CountOne ==
  ASSUME NEW f \in Calls, NEW do, NEW c
  PROVE  /\ <<f>> \in Seq(Calls)
         /\ Count(<<f>>, do, c) = One(f.do = do /\ f.cell = c)
<1> DEFINE e == <<>>
<1>1. e \in Seq(Calls) /\ <<f>> \in Seq(Calls)
  OBVIOUS
<1>2. Append(e, f) = <<f>>
  OBVIOUS
<1>. HIDE DEF e
<1>3. Count(Append(e, f), do, c) = Count(e, do, c) + One(f.do = do /\ f.cell = c)
  BY <1>1, CountAppend
<1>4. Count(e, do, c) = 0
  BY CountEmpty DEF e
<1>5. One(f.do = do /\ f.cell = c) \in Nat
  BY DEF One
<1>6. Count(Append(e, f), do, c) = One(f.do = do /\ f.cell = c)
  BY <1>3, <1>4, <1>5
<1>. QED  BY <1>1, <1>2, <1>6

LEMMA OwnersFinite ==
  ASSUME TypeOK, NEW c
  PROVE  /\ IsFiniteSet(CarOf(c)) /\ IsFiniteSet(CdrOf(c))
         /\ Cardinality(CarOf(c)) \in Nat /\ Cardinality(CdrOf(c)) \in Nat
         /\ Cardinality(CarOf(c)) = 0 <=> CarOf(c) = {}
         /\ Cardinality(CdrOf(c)) = 0 <=> CdrOf(c) = {}
<1>1. IsFiniteSet(Cell)
  BY HeapAssumption
<1>2. CarOf(c) \subseteq Cell /\ CdrOf(c) \subseteq Cell
  BY DEF CarOf, CdrOf, Owners, TypeOK
<1>3. IsFiniteSet(CarOf(c)) /\ IsFiniteSet(CdrOf(c))
  BY <1>1, <1>2, FS_Subset
<1>. QED  BY <1>3, CardZero

(* The sum behind a count.                                                 *)
LEMMA RefsSum ==
  ASSUME HeapInv, NEW c \in Cell
  PROVE  /\ refs[c] = hold[c] + Cardinality(CarOf(c)) + Cardinality(CdrOf(c))
                     + Count(todo, "drop", c)
         /\ refs[c] \in Nat /\ hold[c] \in Nat
         /\ Cardinality(CarOf(c)) \in Nat /\ Cardinality(CdrOf(c)) \in Nat
         /\ Count(todo, "drop", c) \in Nat
<1>1. Drops(c) = Places(todo, "drop", c)
  BY DEF Drops, Places
<1>2. refs[c] = hold[c] + Cardinality(CarOf(c)) + Cardinality(CdrOf(c))
                + Count(todo, "drop", c)
  BY <1>1 DEF HeapInv, RefsExact, Count
<1>3. refs[c] \in Nat /\ hold[c] \in Nat
  BY DEF HeapInv, TypeOK
<1>4. Count(todo, "drop", c) \in Nat
  BY PlacesFinite DEF HeapInv, TypeOK
<1>. QED  BY <1>2, <1>3, <1>4, OwnersFinite DEF HeapInv

(* What is referred to is allocated, with a positive count.                *)
LEMMA Positive ==
  ASSUME HeapInv, NEW c \in Cell,
         \/ hold[c] > 0
         \/ CarOf(c) # {} \/ CdrOf(c) # {}
         \/ Count(todo, "drop", c) > 0
  PROVE  refs[c] \in Nat /\ refs[c] > 0 /\ c \in live
<1>1. /\ Cardinality(CarOf(c)) = 0 <=> CarOf(c) = {}
      /\ Cardinality(CdrOf(c)) = 0 <=> CdrOf(c) = {}
  BY OwnersFinite DEF HeapInv
<1>2. refs[c] \in Nat /\ refs[c] > 0
  <2> DEFINE m == Cardinality(CarOf(c))
             n == Cardinality(CdrOf(c))
             k == Count(todo, "drop", c)
  <2>1. /\ refs[c] \in Nat /\ hold[c] \in Nat /\ m \in Nat /\ n \in Nat /\ k \in Nat
        /\ refs[c] = hold[c] + m + n + k
    BY RefsSum
  <2>2. hold[c] > 0 \/ m # 0 \/ n # 0 \/ k > 0
    BY <1>1
  <2>. HIDE DEF m, n, k
  <2>. QED  BY <2>1, <2>2
<1>3. c \in live
  BY <1>2 DEF HeapInv, Dead
<1>. QED  BY <1>2, <1>3

(* Between two calls every pair owns what it refers to.                    *)
IdleCar(c) == {d \in pairs \ weak : car[d] = c}
IdleCdr(c) == {d \in pairs : cdr[d] = c}

LEMMA IdleOwners ==
  ASSUME Idle
  PROVE  /\ \A do : Doing(do) = {}
         /\ \A c : CarOf(c) = IdleCar(c) /\ CdrOf(c) = IdleCdr(c)
         /\ \A do, c : Count(todo, do, c) = 0
<1>1. \A do : Doing(do) = {}
  BY DEF Idle, Doing
<1>2. Owners = pairs
  BY <1>1 DEF Owners
<1>3. \A c : CarOf(c) = IdleCar(c) /\ CdrOf(c) = IdleCdr(c)
  BY <1>1, <1>2 DEF CarOf, CdrOf, IdleCar, IdleCdr
<1>4. \A do, c : Count(todo, do, c) = 0
  BY CountEmpty DEF Idle
<1>. QED  BY <1>1, <1>3, <1>4

LEMMA IdleFacts ==
  ASSUME HeapInv, Idle
  PROVE  /\ \A c \in Cell :
              /\ refs[c] = hold[c] + Cardinality(IdleCar(c)) + Cardinality(IdleCdr(c))
              /\ refs[c] \in Nat /\ hold[c] \in Nat
              /\ IsFiniteSet(IdleCar(c)) /\ IsFiniteSet(IdleCdr(c))
              /\ Cardinality(IdleCar(c)) \in Nat /\ Cardinality(IdleCdr(c)) \in Nat
              /\ c \in live <=> refs[c] > 0
              /\ hold[c] > 0 => c \in live
         /\ \A d \in pairs : cdr[d] \in live
         /\ \A d \in pairs \ weak : car[d] \in live
<1>1. \A c : CarOf(c) = IdleCar(c) /\ CdrOf(c) = IdleCdr(c) /\ Count(todo, "drop", c) = 0
  BY IdleOwners
<1>2. ASSUME NEW c \in Cell
      PROVE  /\ refs[c] = hold[c] + Cardinality(IdleCar(c)) + Cardinality(IdleCdr(c))
             /\ refs[c] \in Nat /\ hold[c] \in Nat
             /\ IsFiniteSet(IdleCar(c)) /\ IsFiniteSet(IdleCdr(c))
             /\ Cardinality(IdleCar(c)) \in Nat /\ Cardinality(IdleCdr(c)) \in Nat
  BY <1>1, RefsSum, OwnersFinite DEF HeapInv
<1>3. ASSUME NEW c \in Cell
      PROVE  c \in live <=> refs[c] > 0
  <2>1. Count(todo, "free", c) = 0
    BY IdleOwners
  <2>2. ~(c \in live /\ refs[c] = 0)
    BY <2>1 DEF HeapInv, FreeOnce, One
  <2>. QED  BY <2>2, <1>2 DEF HeapInv, Dead
<1>4. \A c \in Cell : hold[c] > 0 => c \in live
  BY Positive
<1>5. ASSUME NEW d \in pairs
      PROVE  cdr[d] \in live
  <2>1. cdr[d] \in Cell /\ d \in IdleCdr(cdr[d])
    BY DEF HeapInv, Linked, IdleCdr
  <2>. QED  BY <2>1, <1>1, Positive
<1>6. ASSUME NEW d \in pairs \ weak
      PROVE  car[d] \in live
  <2>1. car[d] \in Cell /\ d \in IdleCar(car[d])
    BY DEF HeapInv, Linked, IdleCar
  <2>. QED  BY <2>1, <1>1, Positive
<1>. QED  BY <1>2, <1>3, <1>4, <1>5, <1>6

(* A step that ends between two calls keeps the invariant if the counts    *)
(* are the sums.                                                           *)
LEMMA IdleNext ==
  ASSUME todo' = <<>>, TypeOK', Linked',
         \A c \in Cell : /\ refs'[c] = hold'[c] + Cardinality(IdleCar(c)')
                                                + Cardinality(IdleCdr(c)')
                         /\ c \in live' <=> refs'[c] > 0
  PROVE  HeapInv'
<1>1. \A do : Doing(do)' = {}
  BY DEF Doing
<1>2. /\ \A c : CarOf(c)' = IdleCar(c)' /\ CdrOf(c)' = IdleCdr(c)'
      /\ \A do, c : Count(todo', do, c) = 0
  <2>1. Owners' = pairs'
    BY <1>1 DEF Owners
  <2>. QED  BY <2>1, <1>1, CountEmpty DEF CarOf, CdrOf, IdleCar, IdleCdr
<1>3. RefsExact'
  <2>1. \A c : Drops(c)' = {}
    BY DEF Drops
  <2>2. Cardinality({}) = 0
    BY FS_EmptySet
  <2>3. \A c \in Cell : refs'[c] \in Nat /\ hold'[c] \in Nat
    BY DEF TypeOK
  <2>4. ASSUME NEW c \in Cell
        PROVE  /\ Cardinality(IdleCar(c)') \in Nat
               /\ Cardinality(IdleCdr(c)') \in Nat
    <3>1. IdleCar(c)' \subseteq Cell /\ IdleCdr(c)' \subseteq Cell
      BY DEF IdleCar, IdleCdr, TypeOK
    <3>2. IsFiniteSet(Cell)
      BY HeapAssumption
    <3>. QED  BY <3>1, <3>2, FS_Subset, FS_CardinalityType
  <2>5. ASSUME NEW c \in Cell
        PROVE  refs'[c] = hold'[c] + Cardinality(CarOf(c)')
                          + Cardinality(CdrOf(c)') + Cardinality(Drops(c)')
    <3> DEFINE m == Cardinality(IdleCar(c)')
               n == Cardinality(IdleCdr(c)')
    <3>1. /\ Cardinality(CarOf(c)') = m /\ Cardinality(CdrOf(c)') = n
          /\ Cardinality(Drops(c)') = 0
      BY <2>1, <2>2, <1>2
    <3>2. m \in Nat /\ n \in Nat /\ refs'[c] = hold'[c] + m + n
      BY <2>4
    <3>. HIDE DEF m, n
    <3>. QED  BY <3>1, <3>2, <2>3
  <2>. QED  BY <2>5 DEF RefsExact
<1>4. \A c \in Cell : refs'[c] \in Nat
  BY DEF TypeOK
<1>5. Dead'
  BY <1>4 DEF Dead
<1>6. FreeOnce'
  BY <1>2, <1>4 DEF FreeOnce, One
<1>7. Walks'
  BY DEF Walks
<1>. QED  BY <1>3, <1>5, <1>6, <1>7 DEF HeapInv

-----------------------------------------------------------------------------
(* The steps between two calls.                                            *)

LEMMA MakeKeeps ==
  ASSUME HeapInv, Make
  PROVE  HeapInv'
<1>1. Idle
  BY DEF Make
<1>2. PICK c \in Cell \ live :
        /\ live' = live \cup {c}
        /\ refs' = [refs EXCEPT ![c] = 1]
        /\ hold' = [hold EXCEPT ![c] = 1]
  BY DEF Make
<1>3. TypeOK'
  BY <1>2 DEF Make, HeapInv, TypeOK
<1>4. Linked'
  BY DEF Make, HeapInv, Linked
<1>5. \A x : IdleCar(x)' = IdleCar(x) /\ IdleCdr(x)' = IdleCdr(x)
  BY DEF Make, IdleCar, IdleCdr
<1>6. ASSUME NEW x \in Cell
      PROVE  /\ refs'[x] = hold'[x] + Cardinality(IdleCar(x)') + Cardinality(IdleCdr(x)')
             /\ x \in live' <=> refs'[x] > 0
  <2> DEFINE m == Cardinality(IdleCar(x))
             n == Cardinality(IdleCdr(x))
  <2>1. /\ refs[x] \in Nat /\ hold[x] \in Nat /\ m \in Nat /\ n \in Nat
        /\ refs[x] = hold[x] + m + n
        /\ x \in live <=> refs[x] > 0
    BY <1>1, IdleFacts
  <2>2. /\ refs'[x] = IF x = c THEN 1 ELSE refs[x]
        /\ hold'[x] = IF x = c THEN 1 ELSE hold[x]
    BY <1>2 DEF HeapInv, TypeOK
  <2>3. x = c => x \notin live
    BY <1>2
  <2>. HIDE DEF m, n
  <2>4. refs'[x] = hold'[x] + m + n
    BY <2>1, <2>2, <2>3
  <2>5. x \in live' <=> refs'[x] > 0
    BY <2>1, <2>2, <1>2
  <2>. QED  BY <2>4, <2>5, <1>5 DEF m, n
<1>7. todo' = <<>>
  BY <1>1 DEF Make, Idle
<1>. QED  BY <1>3, <1>4, <1>6, <1>7, IdleNext

LEMMA ConsKeeps ==
  ASSUME HeapInv, NEW a \in live, NEW b \in live, LispCons(a, b)
  PROVE  HeapInv'
<1>1. Idle /\ todo' = <<>>
  BY DEF LispCons, Idle
<1>2. PICK c \in Cell \ live :
        /\ live' = live \cup {c}
        /\ pairs' = pairs \cup {c}
        /\ refs' = [refs EXCEPT ![c] = 1]
        /\ car' = [car EXCEPT ![c] = a]
        /\ cdr' = [cdr EXCEPT ![c] = b]
        /\ hold' = [Passed(hold, a, b) EXCEPT ![c] = 1]
  BY DEF LispCons
<1>3. /\ a \in Cell /\ b \in Cell /\ a # c /\ b # c
      /\ c \notin pairs /\ c \notin weak /\ weak' = weak
  BY <1>2 DEF HeapInv, TypeOK, LispCons
<1>4. ASSUME NEW x \in Cell
      PROVE  /\ hold'[x] = IF x = c THEN 1 ELSE hold[x] - One(x = a) - One(x = b)
             /\ hold'[x] \in Nat
  <2>1. hold[x] \in Nat
    BY DEF HeapInv, TypeOK
  <2>2. Passed(hold, a, b)[x] = hold[x] - One(x = a) - One(x = b)
    BY DEF Passed, One
  <2>3. Passed(hold, a, b)[x] >= 0
    BY DEF LispCons, Holds
  <2>4. hold'[x] = IF x = c THEN 1 ELSE Passed(hold, a, b)[x]
    BY <1>2 DEF Passed
  <2>5. One(x = a) \in 0..1 /\ One(x = b) \in 0..1
    BY DEF One
  <2>. QED  BY <2>1, <2>2, <2>3, <2>4, <2>5
<1>5. hold' \in [Cell -> Nat]
  <2>1. DOMAIN hold' = Cell /\ hold' = [x \in Cell |-> hold'[x]]
    BY <1>2 DEF Passed
  <2>. QED  BY <2>1, <1>4
<1>6. TypeOK'
  <2>1. live' \subseteq Cell /\ pairs' \subseteq live' /\ weak' \subseteq pairs'
    BY <1>2, <1>3 DEF HeapInv, TypeOK
  <2>2. refs' \in [Cell -> Nat]
    BY <1>2 DEF HeapInv, TypeOK
  <2>3. car' \in [Cell -> Cell \cup {Nowhere}] /\ cdr' \in [Cell -> Cell \cup {Nowhere}]
    BY <1>2, <1>3 DEF HeapInv, TypeOK
  <2>4. todo' \in Seq(Calls)
    BY <1>1
  <2>. QED  BY <2>1, <2>2, <2>3, <2>4, <1>5 DEF TypeOK
<1>7. \A d \in Cell : /\ car'[d] = IF d = c THEN a ELSE car[d]
                      /\ cdr'[d] = IF d = c THEN b ELSE cdr[d]
  BY <1>2 DEF HeapInv, TypeOK
<1>8. pairs \subseteq Cell
  BY DEF HeapInv, TypeOK
<1>9. Linked'
  BY <1>2, <1>3, <1>7, <1>8 DEF HeapInv, Linked
<1>10. ASSUME NEW x \in Cell
       PROVE  /\ IdleCar(x)' = IF x = a THEN IdleCar(x) \cup {c} ELSE IdleCar(x)
              /\ IdleCdr(x)' = IF x = b THEN IdleCdr(x) \cup {c} ELSE IdleCdr(x)
              /\ c \notin IdleCar(x) /\ c \notin IdleCdr(x)
  BY <1>2, <1>3, <1>7, <1>8 DEF IdleCar, IdleCdr
<1>11. ASSUME NEW x \in Cell
       PROVE  /\ refs'[x] = hold'[x] + Cardinality(IdleCar(x)') + Cardinality(IdleCdr(x)')
              /\ x \in live' <=> refs'[x] > 0
  <2> DEFINE m == Cardinality(IdleCar(x))
             n == Cardinality(IdleCdr(x))
             mm == Cardinality(IdleCar(x)')
             nn == Cardinality(IdleCdr(x)')
  <2>1. /\ refs[x] \in Nat /\ hold[x] \in Nat /\ m \in Nat /\ n \in Nat
        /\ refs[x] = hold[x] + m + n
        /\ x \in live <=> refs[x] > 0
        /\ IsFiniteSet(IdleCar(x)) /\ IsFiniteSet(IdleCdr(x))
    BY <1>1, IdleFacts
  <2>2. mm = m + One(x = a)
    BY <1>10, <2>1, CardAdd DEF One
  <2>3. nn = n + One(x = b)
    BY <1>10, <2>1, CardAdd DEF One
  <2>4. refs'[x] = IF x = c THEN 1 ELSE refs[x]
    BY <1>2 DEF HeapInv, TypeOK
  <2>5. x = c => x \notin live /\ One(x = a) = 0 /\ One(x = b) = 0
    BY <1>2, <1>3 DEF One
  <2>6. One(x = a) \in 0..1 /\ One(x = b) \in 0..1
    BY DEF One
  <2>7. hold'[x] = IF x = c THEN 1 ELSE hold[x] - One(x = a) - One(x = b)
    BY <1>4
  <2>. HIDE DEF m, n, mm, nn
  <2>8. refs'[x] = hold'[x] + mm + nn
    <3>1. CASE x = c
      <4>1. m = 0 /\ n = 0
        BY <2>1, <2>5, <3>1
      <4>. QED  BY <4>1, <3>1, <2>2, <2>3, <2>4, <2>5, <2>7
    <3>2. CASE x # c
      BY <3>2, <2>1, <2>2, <2>3, <2>4, <2>6, <2>7
    <3>. QED  BY <3>1, <3>2
  <2>9. x \in live' <=> refs'[x] > 0
    BY <2>1, <2>4, <1>2
  <2>. QED  BY <2>8, <2>9 DEF mm, nn
<1>. QED  BY <1>1, <1>6, <1>9, <1>11, IdleNext

(* The C code gets a reference on a cell that is allocated.                *)
LEMMA ShareKeeps ==
  ASSUME HeapInv, Idle, NEW c \in live, Share(c)
  PROVE  HeapInv'
<1>1. todo' = <<>>
  BY DEF Share, Idle
<1>2. c \in Cell
  BY DEF HeapInv, TypeOK
<1>3. TypeOK'
  BY <1>2 DEF Share, HeapInv, TypeOK
<1>4. Linked'
  BY DEF Share, HeapInv, Linked
<1>5. \A x : IdleCar(x)' = IdleCar(x) /\ IdleCdr(x)' = IdleCdr(x)
  BY DEF Share, IdleCar, IdleCdr
<1>6. ASSUME NEW x \in Cell
      PROVE  /\ refs'[x] = hold'[x] + Cardinality(IdleCar(x)') + Cardinality(IdleCdr(x)')
             /\ x \in live' <=> refs'[x] > 0
  <2> DEFINE m == Cardinality(IdleCar(x))
             n == Cardinality(IdleCdr(x))
  <2>1. /\ refs[x] \in Nat /\ hold[x] \in Nat /\ m \in Nat /\ n \in Nat
        /\ refs[x] = hold[x] + m + n
        /\ x \in live <=> refs[x] > 0
    BY IdleFacts
  <2>2. /\ refs'[x] = IF x = c THEN refs[x] + 1 ELSE refs[x]
        /\ hold'[x] = IF x = c THEN hold[x] + 1 ELSE hold[x]
        /\ live' = live
    BY DEF Share, HeapInv, TypeOK
  <2>. HIDE DEF m, n
  <2>3. refs'[x] = hold'[x] + m + n
    BY <2>1, <2>2
  <2>4. x \in live' <=> refs'[x] > 0
    BY <2>1, <2>2
  <2>. QED  BY <2>3, <2>4, <1>5 DEF m, n
<1>. QED  BY <1>1, <1>3, <1>4, <1>6, IdleNext

LEMMA ReferKeeps ==
  ASSUME HeapInv, NEW c \in live, Up(c) \/ Car(c) \/ Cdr(c)
  PROVE  HeapInv'
<1>1. CASE Up(c)
  BY <1>1, ShareKeeps DEF Up
<1>2. CASE Car(c)
  <2>1. Idle /\ c \in pairs \ weak /\ Share(car[c])
    BY <1>2 DEF Car
  <2>2. car[c] \in live
    BY <2>1, IdleFacts
  <2>. QED  BY <2>1, <2>2, ShareKeeps
<1>3. CASE Cdr(c)
  <2>1. Idle /\ c \in pairs /\ Share(cdr[c])
    BY <1>3 DEF Cdr
  <2>2. cdr[c] \in live
    BY <2>1, IdleFacts
  <2>. QED  BY <2>1, <2>2, ShareKeeps
<1>. QED  BY <1>1, <1>2, <1>3

(* A reference goes from the pair c to the hands of the C code.            *)
LEMMA SetWeakKeeps ==
  ASSUME HeapInv, NEW c \in live, SetWeak(c)
  PROVE  HeapInv'
<1> DEFINE y == car[c]
<1>1. Idle /\ todo' = <<>> /\ c \in pairs \ weak /\ live' = live /\ refs' = refs
  BY DEF SetWeak, Idle
<1>2. y \in Cell /\ y \in live
  BY <1>1, IdleFacts DEF HeapInv, TypeOK
<1>3. hold' = [hold EXCEPT ![y] = @ + 1] /\ weak' = weak \cup {c}
  BY DEF SetWeak
<1>. HIDE DEF y
<1>4. TypeOK'
  BY <1>1, <1>2, <1>3 DEF SetWeak, HeapInv, TypeOK
<1>5. Linked'
  BY DEF SetWeak, HeapInv, Linked
<1>6. \A x : /\ IdleCar(x)' = IF x = y THEN IdleCar(x) \ {c} ELSE IdleCar(x)
             /\ IdleCdr(x)' = IdleCdr(x)
             /\ x = y => c \in IdleCar(x)
  BY <1>1, <1>3 DEF SetWeak, IdleCar, IdleCdr, y
<1>7. ASSUME NEW x \in Cell
      PROVE  /\ refs'[x] = hold'[x] + Cardinality(IdleCar(x)') + Cardinality(IdleCdr(x)')
             /\ x \in live' <=> refs'[x] > 0
  <2> DEFINE m == Cardinality(IdleCar(x))
             mm == Cardinality(IdleCar(x)')
             n == Cardinality(IdleCdr(x))
  <2>1. /\ refs[x] \in Nat /\ hold[x] \in Nat /\ m \in Nat /\ n \in Nat
        /\ refs[x] = hold[x] + m + n
        /\ x \in live <=> refs[x] > 0
        /\ IsFiniteSet(IdleCar(x))
    BY <1>1, IdleFacts
  <2>2. hold'[x] = IF x = y THEN hold[x] + 1 ELSE hold[x]
    BY <1>2, <1>3 DEF HeapInv, TypeOK
  <2>3. mm = IF x = y THEN m - 1 ELSE m
    BY <2>1, <1>6, CardDrop
  <2>. HIDE DEF m, mm, n
  <2>4. refs'[x] = hold'[x] + mm + n
    BY <2>1, <2>2, <2>3, <1>1
  <2>5. x \in live' <=> refs'[x] > 0
    BY <2>1, <1>1
  <2>. QED  BY <2>4, <2>5, <1>6 DEF mm, n
<1>. QED  BY <1>1, <1>4, <1>5, <1>7, IdleNext

(* And back.                                                               *)
LEMMA ClearWeakKeeps ==
  ASSUME HeapInv, NEW c \in live, ClearWeak(c)
  PROVE  HeapInv'
<1> DEFINE y == car[c]
<1>1. /\ Idle /\ todo' = <<>> /\ c \in pairs /\ c \in weak
      /\ live' = live /\ refs' = refs
  BY DEF ClearWeak, Idle, HeapInv, TypeOK
<1>2. y \in Cell /\ hold[y] > 0
  BY <1>1 DEF HeapInv, Linked, ClearWeak
<1>3. hold' = [hold EXCEPT ![y] = @ - 1] /\ weak' = weak \ {c}
  BY DEF ClearWeak
<1>. HIDE DEF y
<1>4. TypeOK'
  BY <1>1, <1>2, <1>3 DEF ClearWeak, HeapInv, TypeOK
<1>5. Linked'
  BY DEF ClearWeak, HeapInv, Linked
<1>6. \A x : /\ IdleCar(x)' = IF x = y THEN IdleCar(x) \cup {c} ELSE IdleCar(x)
             /\ IdleCdr(x)' = IdleCdr(x)
             /\ c \notin IdleCar(x)
  BY <1>1, <1>3 DEF ClearWeak, IdleCar, IdleCdr, y
<1>7. ASSUME NEW x \in Cell
      PROVE  /\ refs'[x] = hold'[x] + Cardinality(IdleCar(x)') + Cardinality(IdleCdr(x)')
             /\ x \in live' <=> refs'[x] > 0
  <2> DEFINE m == Cardinality(IdleCar(x))
             mm == Cardinality(IdleCar(x)')
             n == Cardinality(IdleCdr(x))
  <2>1. /\ refs[x] \in Nat /\ hold[x] \in Nat /\ m \in Nat /\ n \in Nat
        /\ refs[x] = hold[x] + m + n
        /\ x \in live <=> refs[x] > 0
        /\ IsFiniteSet(IdleCar(x))
    BY <1>1, IdleFacts
  <2>2. hold'[x] = IF x = y THEN hold[x] - 1 ELSE hold[x]
    BY <1>2, <1>3 DEF HeapInv, TypeOK
  <2>3. mm = IF x = y THEN m + 1 ELSE m
    BY <2>1, <1>6, CardAdd
  <2>. HIDE DEF m, mm, n
  <2>4. refs'[x] = hold'[x] + mm + n
    BY <2>1, <2>2, <2>3, <1>1
  <2>5. x \in live' <=> refs'[x] > 0
    BY <2>1, <1>1
  <2>. QED  BY <2>4, <2>5, <1>6 DEF mm, n
<1>. QED  BY <1>1, <1>4, <1>5, <1>7, IdleNext

-----------------------------------------------------------------------------
(* The steps of a call.                                                    *)

(* The counts after a step, with the calls of X counted.                   *)
LEMMA RefsNext ==
  ASSUME \A c \in Cell :
           refs'[c] = hold'[c] + Cardinality(CarOf(c)') + Cardinality(CdrOf(c)')
                      + Count(todo', "drop", c)
  PROVE  RefsExact'
<1>1. \A c : Drops(c)' = Places(todo', "drop", c)
  BY DEF Drops, Places
<1>. QED  BY <1>1 DEF RefsExact, Count

(* A call that begins.                                                     *)
LEMMA CallKeeps ==
  ASSUME HeapInv, Idle, NEW f \in Calls, f.do \in {"drop", "walk"},
         todo' = <<f>>, UNCHANGED <<live, pairs, weak, refs, car, cdr>>,
         hold' \in [Cell -> Nat],
         \A x \in Cell : hold'[x] = hold[x] - One(f.do = "drop" /\ f.cell = x),
         f.do = "walk" => f.cell \in pairs /\ f.to \in Cell /\ hold'[f.to] > 0
  PROVE  HeapInv'
<1>1. /\ DOMAIN todo' = {1} /\ todo'[1] = f /\ Len(todo') = 1 /\ todo' \in Seq(Calls)
  OBVIOUS
<1>2. \A do, x : Count(todo', do, x) = One(f.do = do /\ f.cell = x)
  BY CountOne
<1>3. TypeOK'
  BY <1>1 DEF HeapInv, TypeOK
<1>4. Linked' /\ Dead'
  BY DEF HeapInv, Linked, Dead
<1>5. Doing("free")' = {} /\ Doing("link")' = {}
  BY <1>1 DEF Doing
<1>6. \A x : CarOf(x)' = IdleCar(x) /\ CdrOf(x)' = IdleCdr(x)
  <2>1. Owners' = pairs
    BY <1>5 DEF Owners
  <2>. QED  BY <2>1, <1>5 DEF CarOf, CdrOf, IdleCar, IdleCdr
<1>7. RefsExact'
  <2>1. ASSUME NEW x \in Cell
        PROVE  refs'[x] = hold'[x] + Cardinality(CarOf(x)') + Cardinality(CdrOf(x)')
                          + Count(todo', "drop", x)
    <3> DEFINE m == Cardinality(IdleCar(x))
               n == Cardinality(IdleCdr(x))
               k == One(f.do = "drop" /\ f.cell = x)
    <3>1. /\ refs[x] \in Nat /\ hold[x] \in Nat /\ m \in Nat /\ n \in Nat
          /\ refs[x] = hold[x] + m + n
      BY IdleFacts
    <3>2. k \in Nat /\ hold'[x] = hold[x] - k /\ Count(todo', "drop", x) = k
      BY <1>2 DEF One
    <3>3. Cardinality(CarOf(x)') = m /\ Cardinality(CdrOf(x)') = n
      BY <1>6
    <3>. HIDE DEF m, n, k
    <3>. QED  BY <3>1, <3>2, <3>3
  <2>. QED  BY <2>1, RefsNext
<1>8. FreeOnce'
  <2>1. ASSUME NEW x \in Cell
        PROVE  Count(todo', "free", x) = One(x \in live /\ refs[x] = 0)
    <3>1. Count(todo', "free", x) = 0
      BY <1>2 DEF One
    <3>2. ~(x \in live /\ refs[x] = 0)
      BY IdleFacts
    <3>. QED  BY <3>1, <3>2 DEF One
  <2>. QED  BY <2>1 DEF FreeOnce
<1>9. Walks'
  BY <1>1 DEF Walks
<1>. QED  BY <1>3, <1>4, <1>7, <1>8, <1>9 DEF HeapInv

LEMMA ReleaseKeeps ==
  ASSUME HeapInv, NEW c \in live, Release(c)
  PROVE  HeapInv'
<1> DEFINE f == Frame("drop", c)
<1>1. c \in Cell /\ hold[c] > 0 /\ Idle
  BY DEF Release, HeapInv, TypeOK
<1>2. f \in Calls /\ f.do = "drop" /\ f.cell = c
  BY <1>1 DEF Calls, Frame
<1>3. hold' = [hold EXCEPT ![c] = @ - 1]
  BY DEF Release
<1>4. hold' \in [Cell -> Nat]
  BY <1>1, <1>3 DEF HeapInv, TypeOK
<1>5. \A x \in Cell : hold'[x] = hold[x] - One(f.do = "drop" /\ f.cell = x)
  BY <1>2, <1>3 DEF HeapInv, TypeOK, One
<1>6. todo' = <<f>> /\ UNCHANGED <<live, pairs, weak, refs, car, cdr>>
  BY DEF Release
<1>. HIDE DEF f
<1>. QED  BY <1>1, <1>2, <1>4, <1>5, <1>6, CallKeeps

LEMMA ConcKeeps ==
  ASSUME HeapInv, NEW a \in live, NEW b \in live, Conc(a, b)
  PROVE  HeapInv'
<1>1. /\ Idle /\ a \in Cell /\ b \in Cell
      /\ UNCHANGED <<live, pairs, weak, refs, car, cdr>>
  BY DEF Conc, HeapInv, TypeOK
<1>2. hold[a] > 0 /\ hold[b] > 0
  <2>1. Passed(hold, a, b)[a] >= 0 /\ Passed(hold, a, b)[b] >= 0
    BY <1>1 DEF Conc, Holds
  <2>2. /\ Passed(hold, a, b)[a] = hold[a] - 1 - (IF a = b THEN 1 ELSE 0)
        /\ Passed(hold, a, b)[b] = hold[b] - (IF b = a THEN 1 ELSE 0) - 1
    BY <1>1 DEF Passed
  <2>3. hold[a] \in Nat /\ hold[b] \in Nat
    BY <1>1 DEF HeapInv, TypeOK
  <2>. QED  BY <2>1, <2>2, <2>3
<1>3. CASE a \in pairs
  <2> DEFINE f == Walk(a, b)
  <2>1. f \in Calls /\ f.do = "walk" /\ f.cell = a /\ f.to = b
    BY <1>1 DEF Calls, Walk
  <2>2. todo' = <<f>> /\ hold' = hold
    BY <1>3 DEF Conc
  <2>3. hold' \in [Cell -> Nat]
    BY <2>2 DEF HeapInv, TypeOK
  <2>4. \A x \in Cell : hold'[x] = hold[x] - One(f.do = "drop" /\ f.cell = x)
    BY <2>1, <2>2 DEF HeapInv, TypeOK, One
  <2>. HIDE DEF f
  <2>. QED  BY <1>1, <1>2, <1>3, <2>1, <2>2, <2>3, <2>4, CallKeeps
<1>4. CASE a \notin pairs
  <2> DEFINE f == Frame("drop", a)
  <2>1. f \in Calls /\ f.do = "drop" /\ f.cell = a
    BY <1>1 DEF Calls, Frame
  <2>2. todo' = <<f>> /\ hold' = [hold EXCEPT ![a] = @ - 1]
    BY <1>4 DEF Conc
  <2>3. hold' \in [Cell -> Nat]
    BY <2>2, <1>1, <1>2 DEF HeapInv, TypeOK
  <2>4. \A x \in Cell : hold'[x] = hold[x] - One(f.do = "drop" /\ f.cell = x)
    BY <2>1, <2>2 DEF HeapInv, TypeOK, One
  <2>. HIDE DEF f
  <2>. QED  BY <1>1, <2>1, <2>2, <2>3, <2>4, CallKeeps
<1>. QED  BY <1>3, <1>4

(* lisp_conc runs alone while it walks and when it links.                  *)
LEMMA WalkTop ==
  ASSUME HeapInv, Running("walk") \/ Running("link")
  PROVE  /\ todo = <<Top>> /\ Top \in Calls
         /\ Top.cell \in pairs /\ Top.cell \in Cell
         /\ Top.to \in Cell /\ hold[Top.to] > 0
         /\ \A do : Running(do) => Top.do = do
<1>0. \A do : Running(do) => Top.do = do
  BY DEF Running, Top
<1>1. /\ todo \in Seq(Calls) /\ todo # <<>> /\ Top.do \in {"walk", "link"}
  BY <1>0 DEF HeapInv, TypeOK, Running, Idle
<1>2. /\ Len(todo) \in Nat \ {0} /\ DOMAIN todo = 1..Len(todo)
      /\ Top = todo[Len(todo)] /\ Top \in Calls
  BY <1>1, FrontLast DEF Top
<1>3. Len(todo) \in DOMAIN todo
  BY <1>2
<1>4. /\ Len(todo) = 1
      /\ todo[1].cell \in pairs /\ todo[1].to \in Cell /\ hold[todo[1].to] > 0
  BY <1>1, <1>2, <1>3 DEF HeapInv, Walks
<1>5. todo = <<Top>>
  BY <1>1, <1>2, <1>4
<1>6. Top.cell \in Cell
  BY <1>2 DEF Calls
<1>. QED  BY <1>0, <1>2, <1>4, <1>5, <1>6

(* While it runs alone nothing is being released.                          *)
LEMMA WalkFacts ==
  ASSUME HeapInv, Running("walk") \/ Running("link"), NEW c \in Cell
  PROVE  /\ Count(todo, "drop", c) = 0 /\ Count(todo, "free", c) = 0
         /\ Doing("free") = {}
         /\ c \in live <=> refs[c] > 0
<1>1. todo = <<Top>> /\ Top \in Calls /\ Top.do \in {"walk", "link"}
  BY WalkTop
<1>2. /\ Count(todo, "drop", c) = One(Top.do = "drop" /\ Top.cell = c)
      /\ Count(todo, "free", c) = One(Top.do = "free" /\ Top.cell = c)
  BY <1>1, CountOne
<1>3. Count(todo, "drop", c) = 0 /\ Count(todo, "free", c) = 0
  BY <1>1, <1>2 DEF One
<1>4. Doing("free") = {}
  BY <1>1 DEF Doing
<1>5. ~(c \in live /\ refs[c] = 0)
  BY <1>3 DEF HeapInv, FreeOnce, One
<1>6. refs[c] \in Nat
  BY DEF HeapInv, TypeOK
<1>. QED  BY <1>3, <1>4, <1>5, <1>6 DEF HeapInv, Dead

LEMMA ConcNextKeeps ==
  ASSUME HeapInv, ConcNext
  PROVE  HeapInv'
<1> DEFINE f == Walk(cdr[Top.cell], Top.to)
<1>1. /\ Running("walk") /\ todo' = <<f>>
      /\ UNCHANGED <<live, pairs, weak, refs, car, cdr, hold>>
  BY DEF ConcNext
<1>2. todo = <<Top>> /\ Top.to \in Cell /\ hold[Top.to] > 0 /\ Top.do = "walk"
  BY <1>1, WalkTop
<1>3. /\ f \in Calls /\ f.do = "walk" /\ f.cell \in pairs /\ f.to = Top.to
  BY <1>2 DEF ConcNext, Walk, Calls, HeapInv, TypeOK
<1>. HIDE DEF f
<1>4. \A do, x : Count(todo', do, x) = One(f.do = do /\ f.cell = x)
  BY <1>1, <1>3, CountOne
<1>5. \A x \in Cell : Count(todo', "drop", x) = 0 /\ Count(todo', "free", x) = 0
  BY <1>3, <1>4 DEF One
<1>6. /\ Doing("free")' = Doing("free") /\ Doing("link")' = Doing("link")
  BY <1>1, <1>2, <1>3 DEF Doing
<1>7. \A x : CarOf(x)' = CarOf(x) /\ CdrOf(x)' = CdrOf(x)
  BY <1>1, <1>6 DEF CarOf, CdrOf, Owners
<1>8. RefsExact'
  <2>1. ASSUME NEW x \in Cell
        PROVE  refs'[x] = hold'[x] + Cardinality(CarOf(x)') + Cardinality(CdrOf(x)')
                          + Count(todo', "drop", x)
    BY <1>1, <1>5, <1>7, RefsSum, WalkFacts
  <2>. QED  BY <2>1, RefsNext
<1>9. FreeOnce'
  BY <1>1, <1>5, WalkFacts DEF HeapInv, FreeOnce
<1>10. TypeOK'
  BY <1>1, <1>3 DEF HeapInv, TypeOK
<1>11. Linked' /\ Dead'
  BY <1>1 DEF HeapInv, Linked, Dead
<1>12. Walks'
  BY <1>1, <1>2, <1>3 DEF Walks
<1>. QED  BY <1>8, <1>9, <1>10, <1>11, <1>12 DEF HeapInv

(* The reference on the old end of the list goes from the last pair to a   *)
(* call of X.                                                              *)
LEMMA ConcLastKeeps ==
  ASSUME HeapInv, ConcLast
  PROVE  HeapInv'
<1> DEFINE c == Top.cell
           y == cdr[c]
           f == Link(c, Top.to)
           h == Frame("drop", y)
<1>1. /\ Running("walk") /\ todo' = <<f, h>> /\ y \notin pairs
      /\ UNCHANGED <<live, pairs, weak, refs, car, cdr, hold>>
  BY DEF ConcLast
<1>2. /\ todo = <<Top>> /\ Top.to \in Cell /\ hold[Top.to] > 0 /\ Top.do = "walk"
      /\ c \in pairs /\ c \in Cell
  BY <1>1, WalkTop
<1>3. y \in Cell
  BY <1>2 DEF HeapInv, Linked
<1>4. /\ f \in Calls /\ f.do = "link" /\ f.cell = c /\ f.to = Top.to
      /\ h \in Calls /\ h.do = "drop" /\ h.cell = y
  BY <1>2, <1>3 DEF Link, Frame, Calls
<1>. HIDE DEF c, y, f, h
<1>5. /\ todo' \in Seq(Calls) /\ todo' = Append(<<f>>, h)
      /\ Len(todo') = 2 /\ DOMAIN todo' = {1, 2} /\ todo'[1] = f /\ todo'[2] = h
  BY <1>1, <1>4
<1>6. ASSUME NEW do, NEW x
      PROVE  Count(todo', do, x) = One(f.do = do /\ f.cell = x)
                                   + One(h.do = do /\ h.cell = x)
  <2> DEFINE e == <<f>>
  <2>1. e \in Seq(Calls) /\ Count(e, do, x) = One(f.do = do /\ f.cell = x)
    BY <1>4, CountOne
  <2>2. todo' = Append(e, h)
    BY <1>5
  <2>. HIDE DEF e
  <2>3. Count(Append(e, h), do, x) = Count(e, do, x) + One(h.do = do /\ h.cell = x)
    BY <2>1, <1>4, CountAppend
  <2>. QED  BY <2>1, <2>2, <2>3
<1>7. \A x \in Cell : Count(todo', "drop", x) = One(x = y) /\ Count(todo', "free", x) = 0
  BY <1>4, <1>6 DEF One
<1>8. /\ Doing("free")' = {} /\ Doing("link")' = {c}
      /\ Doing("free") = {} /\ Doing("link") = {}
  BY <1>2, <1>4, <1>5 DEF Doing
<1>9. \A x : /\ CarOf(x)' = CarOf(x)
             /\ CdrOf(x)' = IF x = y THEN CdrOf(x) \ {c} ELSE CdrOf(x)
             /\ x = y => c \in CdrOf(x)
  BY <1>1, <1>2, <1>8 DEF CarOf, CdrOf, Owners, y
<1>10. RefsExact'
  <2>1. ASSUME NEW x \in Cell
        PROVE  refs'[x] = hold'[x] + Cardinality(CarOf(x)') + Cardinality(CdrOf(x)')
                          + Count(todo', "drop", x)
    <3> DEFINE m == Cardinality(CarOf(x))
               n == Cardinality(CdrOf(x))
               nn == Cardinality(CdrOf(x)')
               k == Count(todo', "drop", x)
    <3>1. /\ refs[x] \in Nat /\ hold[x] \in Nat /\ m \in Nat /\ n \in Nat
          /\ refs[x] = hold[x] + m + n
      BY <1>1, RefsSum, WalkFacts
    <3>2. nn = IF x = y THEN n - 1 ELSE n
      BY <1>9, OwnersFinite, CardDrop DEF HeapInv
    <3>3. k = IF x = y THEN 1 ELSE 0
      BY <1>7 DEF One
    <3>. HIDE DEF m, n, nn, k
    <3>4. refs'[x] = hold'[x] + m + nn + k
      BY <3>1, <3>2, <3>3, <1>1
    <3>. QED  BY <3>4, <1>9 DEF m, nn, k
  <2>. QED  BY <2>1, RefsNext
<1>11. FreeOnce'
  BY <1>1, <1>7, WalkFacts DEF HeapInv, FreeOnce
<1>12. TypeOK'
  BY <1>1, <1>5 DEF HeapInv, TypeOK
<1>13. Linked' /\ Dead'
  BY <1>1 DEF HeapInv, Linked, Dead
<1>14. Walks'
  BY <1>1, <1>2, <1>4, <1>5 DEF Walks
<1>. QED  BY <1>10, <1>11, <1>12, <1>13, <1>14 DEF HeapInv

(* The reference on the second argument goes from the C code to the pair.  *)
LEMMA ConcLinkKeeps ==
  ASSUME HeapInv, ConcLink
  PROVE  HeapInv'
<1> DEFINE c == Top.cell
           b == Top.to
<1>1. /\ Running("link") /\ todo' = Front(todo)
      /\ cdr' = [cdr EXCEPT ![c] = b] /\ hold' = [hold EXCEPT ![b] = @ - 1]
      /\ UNCHANGED <<live, pairs, weak, refs, car>>
  BY DEF ConcLink
<1>2. /\ todo = <<Top>> /\ Top \in Calls /\ Top.do = "link"
      /\ b \in Cell /\ hold[b] > 0 /\ c \in pairs /\ c \in Cell
  BY <1>1, WalkTop
<1>3. todo' = <<>>
  <2> DEFINE e == <<>>
  <2>1. e \in Seq(Calls) /\ todo = Append(e, Top)
    BY <1>2
  <2>. HIDE DEF e
  <2>2. Front(Append(e, Top)) = e
    BY <2>1, <1>2, AppendFacts
  <2>3. todo' = e
    BY <1>1, <2>1, <2>2
  <2>. QED  BY <2>3 DEF e
<1>4. Doing("free") = {} /\ Doing("link") = {c}
  BY <1>2 DEF Doing
<1>. HIDE DEF c, b
<1>5. TypeOK'
  BY <1>1, <1>2, <1>3 DEF HeapInv, TypeOK
<1>6. \A d \in Cell : cdr'[d] = IF d = c THEN b ELSE cdr[d]
  BY <1>1 DEF HeapInv, TypeOK
<1>7. pairs \subseteq Cell
  BY DEF HeapInv, TypeOK
<1>8. Linked'
  BY <1>1, <1>2, <1>6, <1>7 DEF HeapInv, Linked
<1>9. \A x : /\ IdleCar(x)' = CarOf(x)
             /\ IdleCdr(x)' = IF x = b THEN CdrOf(x) \cup {c} ELSE CdrOf(x)
             /\ c \notin CdrOf(x)
  BY <1>1, <1>2, <1>4, <1>6, <1>7 DEF IdleCar, IdleCdr, CarOf, CdrOf, Owners
<1>10. ASSUME NEW x \in Cell
       PROVE  /\ refs'[x] = hold'[x] + Cardinality(IdleCar(x)') + Cardinality(IdleCdr(x)')
              /\ x \in live' <=> refs'[x] > 0
  <2> DEFINE m == Cardinality(CarOf(x))
             n == Cardinality(CdrOf(x))
             nn == Cardinality(IdleCdr(x)')
  <2>1. /\ refs[x] \in Nat /\ hold[x] \in Nat /\ m \in Nat /\ n \in Nat
        /\ refs[x] = hold[x] + m + n
        /\ x \in live <=> refs[x] > 0
    BY <1>1, RefsSum, WalkFacts
  <2>2. nn = IF x = b THEN n + 1 ELSE n
    BY <1>9, OwnersFinite, CardAdd DEF HeapInv
  <2>3. hold'[x] = IF x = b THEN hold[x] - 1 ELSE hold[x]
    BY <1>1 DEF HeapInv, TypeOK
  <2>. HIDE DEF m, n, nn
  <2>4. refs'[x] = hold'[x] + m + nn
    BY <2>1, <2>2, <2>3, <1>1
  <2>5. x \in live' <=> refs'[x] > 0
    BY <2>1, <1>1
  <2>. QED  BY <2>4, <2>5, <1>9 DEF m, nn
<1>. QED  BY <1>3, <1>5, <1>8, <1>10, IdleNext

-----------------------------------------------------------------------------
(* The release of a cell.                                                  *)

(* The call on top, c the cell it is at, and the calls below.              *)
LEMMA TopCall ==
  ASSUME HeapInv, NEW do0, Running(do0)
  PROVE  /\ Front(todo) \in Seq(Calls) /\ Top \in Calls /\ Top.do = do0
         /\ Top.cell \in Cell
         /\ Len(todo) \in Nat \ {0} /\ Len(Front(todo)) = Len(todo) - 1
         /\ DOMAIN todo = 1..Len(todo)
         /\ DOMAIN Front(todo) = 1..(Len(todo) - 1)
         /\ Top = todo[Len(todo)]
         /\ \A i \in 1..(Len(todo) - 1) : Front(todo)[i] = todo[i]
         /\ \A do, x : /\ Count(Front(todo), do, x) \in Nat
                       /\ Count(todo, do, x) = Count(Front(todo), do, x)
                                              + One(do0 = do /\ Top.cell = x)
<1> DEFINE s == Front(todo)
<1>1. todo \in Seq(Calls) /\ todo # <<>> /\ Top.do = do0
  BY DEF HeapInv, TypeOK, Running, Idle, Top
<1>2. /\ s \in Seq(Calls) /\ Top \in Calls /\ Top = todo[Len(todo)]
      /\ Len(todo) \in Nat \ {0} /\ Len(s) = Len(todo) - 1
      /\ DOMAIN todo = 1..Len(todo) /\ DOMAIN s = 1..(Len(todo) - 1)
      /\ \A i \in 1..(Len(todo) - 1) : s[i] = todo[i]
      /\ todo = Append(s, Top)
  BY <1>1, FrontLast DEF Top
<1>. HIDE DEF s
<1>3. ASSUME NEW do, NEW x
      PROVE  /\ Count(s, do, x) \in Nat
             /\ Count(todo, do, x) = Count(s, do, x) + One(do0 = do /\ Top.cell = x)
  BY <1>1, <1>2, CountAppend
<1>4. Top.cell \in Cell
  BY <1>2 DEF Calls
<1>. QED  BY <1>1, <1>2, <1>3, <1>4 DEF s

(* What a release pushes is what the pair owned.                           *)
LEMMA InsideCount ==
  ASSUME HeapInv, NEW c \in Cell, NEW s \in Seq(Calls)
  PROVE  /\ Inside(c, s) \in Seq(Calls)
         /\ \A x : /\ Count(s, "drop", x) \in Nat
                   /\ Count(Inside(c, s), "drop", x)
                        = Count(s, "drop", x)
                          + One(c \in pairs /\ cdr[c] = x)
                          + One(c \in pairs \ weak /\ car[c] = x)
         /\ \A x : Count(Inside(c, s), "free", x) = Count(s, "free", x)
         /\ \A x : Count(Inside(c, s), "link", x) = Count(s, "link", x)
<1> DEFINE f == Frame("drop", cdr[c])
           h == Frame("drop", car[c])
<1>1. CASE c \notin pairs
  <2>1. Inside(c, s) = s
    BY <1>1 DEF Inside
  <2>2. ASSUME NEW x
        PROVE  /\ Count(s, "drop", x) \in Nat
               /\ One(c \in pairs /\ cdr[c] = x) = 0
               /\ One(c \in pairs \ weak /\ car[c] = x) = 0
    BY <1>1, PlacesFinite DEF One
  <2>. QED  BY <2>1, <2>2
<1>2. CASE c \in pairs
  <2>1. /\ f \in Calls /\ f.do = "drop" /\ f.cell = cdr[c]
        /\ h \in Calls /\ h.do = "drop" /\ h.cell = car[c]
    BY <1>2 DEF HeapInv, Linked, Frame, Calls
  <2>. HIDE DEF f, h
  <2> DEFINE t == Append(s, f)
             u == Append(t, h)
  <2>2. t \in Seq(Calls) /\ u \in Seq(Calls)
    BY <2>1
  <2>3. Inside(c, s) = IF c \in weak THEN t ELSE u
    BY <1>2 DEF Inside, f, h
  <2>4. \A do, x : /\ Count(s, do, x) \in Nat
                   /\ Count(t, do, x) = Count(s, do, x) + One(f.do = do /\ f.cell = x)
    BY <2>1, CountAppend
  <2>. HIDE DEF t
  <2>5. \A do, x : Count(u, do, x) = Count(t, do, x) + One(h.do = do /\ h.cell = x)
    BY <2>1, <2>2, CountAppend
  <2>. HIDE DEF u
  <2>6. \A x : /\ Count(t, "free", x) = Count(s, "free", x)
               /\ Count(t, "link", x) = Count(s, "link", x)
               /\ Count(u, "free", x) = Count(s, "free", x)
               /\ Count(u, "link", x) = Count(s, "link", x)
    BY <2>1, <2>4, <2>5 DEF One
  <2>7. \A x : /\ Count(t, "drop", x) = Count(s, "drop", x) + One(cdr[c] = x)
               /\ Count(u, "drop", x) = Count(s, "drop", x) + One(cdr[c] = x) + One(car[c] = x)
    BY <2>1, <2>4, <2>5 DEF One
  <2>8. CASE c \in weak
    <3>1. \A x : /\ One(c \in pairs \ weak /\ car[c] = x) = 0
                 /\ One(c \in pairs /\ cdr[c] = x) = One(cdr[c] = x)
                 /\ One(cdr[c] = x) \in Nat
      BY <1>2, <2>8 DEF One
    <3>2. Inside(c, s) = t
      BY <2>3, <2>8
    <3>3. \A x : Count(s, "drop", x) \in Nat
      BY <2>4
    <3>4. \A x : Count(t, "drop", x)
                   = Count(s, "drop", x) + One(c \in pairs /\ cdr[c] = x)
                     + One(c \in pairs \ weak /\ car[c] = x)
      <4> TAKE x
      <4> DEFINE k == Count(s, "drop", x)
                 p == One(cdr[c] = x)
                 q == One(c \in pairs \ weak /\ car[c] = x)
      <4>1. /\ k \in Nat /\ p \in Nat /\ q = 0
            /\ Count(t, "drop", x) = k + p
            /\ One(c \in pairs /\ cdr[c] = x) = p
        BY <2>7, <3>1, <3>3
      <4>. HIDE DEF k, p, q
      <4>2. Count(t, "drop", x) = k + p + q
        BY <4>1
      <4>. QED  BY <4>1, <4>2 DEF k, q
    <3>. QED  BY <2>2, <2>6, <3>2, <3>3, <3>4
  <2>9. CASE c \notin weak
    <3>1. \A x : /\ One(c \in pairs \ weak /\ car[c] = x) = One(car[c] = x)
                 /\ One(c \in pairs /\ cdr[c] = x) = One(cdr[c] = x)
      BY <1>2, <2>9 DEF One
    <3>2. Inside(c, s) = u
      BY <2>3, <2>9
    <3>3. \A x : Count(s, "drop", x) \in Nat
      BY <2>4
    <3>4. \A x : Count(u, "drop", x)
                   = Count(s, "drop", x) + One(c \in pairs /\ cdr[c] = x)
                     + One(c \in pairs \ weak /\ car[c] = x)
      BY <2>7, <3>1
    <3>. QED  BY <2>2, <2>6, <3>2, <3>3, <3>4
  <2>. QED  BY <2>8, <2>9
<1>. QED  BY <1>1, <1>2

(* While a pair is released lisp_conc does not run; while it waits for a   *)
(* release it is alone below.                                              *)
LEMMA NoWalkBelow ==
  ASSUME HeapInv, Running("drop") \/ Running("free"),
         NEW i \in DOMAIN todo, todo[i].do \in {"walk", "link"}
  PROVE  /\ i = 1 /\ Len(todo) = 2 /\ todo[1].do = "link"
         /\ todo[1].cell \in pairs /\ todo[1].to \in Cell /\ hold[todo[1].to] > 0
         /\ Top.cell \notin pairs
<1>1. /\ Len(todo) \in Nat \ {0} /\ DOMAIN todo = 1..Len(todo)
      /\ Top = todo[Len(todo)] /\ Top.do \in {"drop", "free"}
  BY TopCall
<1>2. /\ i = 1 /\ Len(todo) <= 2
      /\ todo[1].cell \in pairs /\ todo[1].to \in Cell /\ hold[todo[1].to] > 0
      /\ Len(todo) = 2 => todo[1].do = "link" /\ todo[2].cell \notin pairs
  BY DEF HeapInv, Walks
<1>3. Len(todo) # 1
  BY <1>1, <1>2
<1>4. Len(todo) = 2
  BY <1>1, <1>2, <1>3
<1>. QED  BY <1>1, <1>2, <1>4

(* X: the count falls by one; when it falls to 0 what the cell owned is    *)
(* handed to calls of X, above the end of its deallocation.                *)
LEMMA DropKeeps ==
  ASSUME HeapInv, Drop
  PROVE  HeapInv'
<1> DEFINE c == Top.cell
           s == Front(todo)
           f == Frame("free", c)
           g == Append(s, f)
<1>1. /\ Running("drop") /\ refs' = [refs EXCEPT ![c] = @ - 1]
      /\ todo' = IF refs[c] = 1 THEN Inside(c, g) ELSE s
      /\ UNCHANGED <<live, pairs, weak, car, cdr, hold>>
  BY DEF Drop
<1>2. /\ s \in Seq(Calls) /\ c \in Cell /\ Len(todo) \in Nat \ {0}
      /\ Len(s) = Len(todo) - 1
      /\ DOMAIN todo = 1..Len(todo) /\ DOMAIN s = 1..(Len(todo) - 1)
      /\ Top = todo[Len(todo)] /\ Top.do = "drop"
      /\ \A i \in 1..(Len(todo) - 1) : s[i] = todo[i]
  BY <1>1, TopCall
<1>3. \A x : /\ Count(s, "drop", x) \in Nat /\ Count(s, "free", x) \in Nat
             /\ Count(s, "link", x) \in Nat
             /\ Count(todo, "drop", x) = Count(s, "drop", x) + One(c = x)
             /\ Count(todo, "free", x) = Count(s, "free", x)
             /\ Count(todo, "link", x) = Count(s, "link", x)
  <2>1. \A do, x : /\ Count(s, do, x) \in Nat
                   /\ Count(todo, do, x) = Count(s, do, x) + One("drop" = do /\ c = x)
    BY <1>1, TopCall
  <2>2. \A x : /\ One("drop" = "drop" /\ c = x) = One(c = x)
               /\ One("drop" = "free" /\ c = x) = 0
               /\ One("drop" = "link" /\ c = x) = 0
    BY DEF One
  <2>. QED  BY <2>1, <2>2
<1>4. f \in Calls /\ f.do = "free" /\ f.cell = c
  BY <1>2 DEF Frame, Calls
<1>. HIDE DEF f
<1>5. /\ g \in Seq(Calls)
      /\ \A x : /\ Count(g, "drop", x) = Count(s, "drop", x)
                /\ Count(g, "free", x) = Count(s, "free", x) + One(c = x)
                /\ Count(g, "link", x) = Count(s, "link", x)
  <2>1. \A do, x : /\ Count(s, do, x) \in Nat
                   /\ Count(g, do, x) = Count(s, do, x) + One(f.do = do /\ f.cell = x)
    BY <1>2, <1>4, CountAppend
  <2>2. \A x : /\ One(f.do = "free" /\ f.cell = x) = One(c = x)
               /\ One(f.do = "drop" /\ f.cell = x) = 0
               /\ One(f.do = "link" /\ f.cell = x) = 0
    BY <1>4 DEF One
  <2>. QED  BY <1>2, <1>4, <2>1, <2>2
<1>6. c \in live /\ refs[c] \in Nat /\ refs[c] > 0
  <2>1. Count(s, "drop", c) \in Nat /\ Count(todo, "drop", c) = Count(s, "drop", c) + One(c = c)
    BY <1>3
  <2>2. One(c = c) = 1
    BY DEF One
  <2>3. Count(todo, "drop", c) > 0
    BY <2>1, <2>2
  <2>. QED  BY <1>2, <2>3, Positive
<1>7. \A i \in DOMAIN todo :
        todo[i].do \in {"walk", "link"} =>
          /\ i = 1 /\ Len(todo) = 2 /\ todo[1].do = "link"
          /\ todo[1].cell \in pairs /\ todo[1].to \in Cell /\ hold[todo[1].to] > 0
          /\ c \notin pairs
  BY <1>1, NoWalkBelow
<1>. HIDE DEF c, s, g
<1>8. refs' \in [Cell -> Nat] /\ \A x \in Cell : refs'[x] = refs[x] - One(c = x)
  <2>1. \A x \in Cell : refs'[x] = IF x = c THEN refs[x] - 1 ELSE refs[x]
    BY <1>1 DEF HeapInv, TypeOK
  <2>2. \A x \in Cell : refs[x] \in Nat
    BY DEF HeapInv, TypeOK
  <2>3. \A x \in Cell : refs'[x] \in Nat /\ refs'[x] = refs[x] - One(c = x)
    BY <2>1, <2>2, <1>6 DEF One
  <2>. QED  BY <2>3, <1>1 DEF HeapInv, TypeOK
<1>9. Linked' /\ Dead'
  <2>1. Linked'
    BY <1>1 DEF HeapInv, Linked
  <2>2. Dead'
    BY <1>1, <1>6 DEF HeapInv, Dead, TypeOK
  <2>. QED  BY <2>1, <2>2
\* The cell is still referred to.
<1>10. CASE refs[c] # 1
  <2>1. todo' = s
    BY <1>1, <1>10
  <2>2. TypeOK'
    BY <1>1, <1>2, <1>8, <2>1 DEF HeapInv, TypeOK
  <2>3. \A x \in Cell : /\ x \in Doing("free") <=> Count(todo, "free", x) > 0
                        /\ x \in Doing("link") <=> Count(todo, "link", x) > 0
                        /\ x \in Doing("free")' <=> Count(s, "free", x) > 0
                        /\ x \in Doing("link")' <=> Count(s, "link", x) > 0
    <3>1. todo \in Seq(Calls)
      BY DEF HeapInv, TypeOK
    <3>. QED  BY <3>1, <1>2, <2>1, DoingNow
  <2>4. Doing("free")' = Doing("free") /\ Doing("link")' = Doing("link")
    <3>1. /\ Doing("free")' \subseteq Cell /\ Doing("free") \subseteq Cell
          /\ Doing("link")' \subseteq Cell /\ Doing("link") \subseteq Cell
      BY DEF Doing
    <3>2. \A x \in Cell : /\ x \in Doing("free")' <=> x \in Doing("free")
                          /\ x \in Doing("link")' <=> x \in Doing("link")
      BY <2>3, <1>3
    <3>3. Doing("free")' = Doing("free")
      BY <3>1, <3>2
    <3>4. Doing("link")' = Doing("link")
      BY <3>1, <3>2
    <3>. QED  BY <3>3, <3>4
  <2>5. \A x : CarOf(x)' = CarOf(x) /\ CdrOf(x)' = CdrOf(x)
    BY <1>1, <2>4 DEF CarOf, CdrOf, Owners
  <2>6. RefsExact'
    <3>1. ASSUME NEW x \in Cell
          PROVE  refs'[x] = hold'[x] + Cardinality(CarOf(x)') + Cardinality(CdrOf(x)')
                            + Count(todo', "drop", x)
      <4> DEFINE m == Cardinality(CarOf(x))
                 n == Cardinality(CdrOf(x))
                 k == Count(s, "drop", x)
                 o == One(c = x)
      <4>1. /\ refs[x] \in Nat /\ hold[x] \in Nat /\ m \in Nat /\ n \in Nat
            /\ refs[x] = hold[x] + m + n + Count(todo, "drop", x)
        BY RefsSum
      <4>2. k \in Nat /\ Count(todo, "drop", x) = k + o /\ o \in Nat
        BY <1>3 DEF One
      <4>3. refs'[x] = refs[x] - o
        BY <1>8
      <4>. HIDE DEF m, n, k, o
      <4>4. refs'[x] = hold'[x] + m + n + k
        BY <4>1, <4>2, <4>3, <1>1
      <4>. QED  BY <4>4, <2>5, <2>1 DEF m, n, k
    <3>. QED  BY <3>1, RefsNext
  <2>7. FreeOnce'
    <3>1. ASSUME NEW x \in Cell
          PROVE  Count(todo', "free", x) = One(x \in live' /\ refs'[x] = 0)
      <4>1. Count(todo', "free", x) = One(x \in live /\ refs[x] = 0)
        BY <2>1, <1>3 DEF HeapInv, FreeOnce
      <4>2. (x \in live /\ refs[x] = 0) <=> (x \in live' /\ refs'[x] = 0)
        BY <1>1, <1>6, <1>8, <1>10 DEF One
      <4>. QED  BY <4>1, <4>2 DEF One
    <3>. QED  BY <3>1 DEF FreeOnce
  <2>8. Walks'
    <3>1. \A i \in DOMAIN s : i \in DOMAIN todo /\ s[i] = todo[i]
      BY <1>2
    <3>2. ASSUME NEW i \in DOMAIN s, s[i].do \in {"walk", "link"}
          PROVE  /\ i = 1 /\ Len(s) = 1 /\ s[1].cell \in pairs
                 /\ s[1].to \in Cell /\ hold[s[1].to] > 0
      BY <3>1, <3>2, <1>2, <1>7
    <3>. QED  BY <3>2, <2>1, <1>1 DEF Walks
  <2>. QED  BY <2>2, <2>6, <2>7, <2>8, <1>9 DEF HeapInv
\* The cell is released.
<1>11. CASE refs[c] = 1
  <2>1. todo' = Inside(c, g)
    BY <1>1, <1>11
  <2>2. /\ todo' \in Seq(Calls)
        /\ \A x : /\ Count(todo', "drop", x)
                       = Count(s, "drop", x) + One(c \in pairs /\ cdr[c] = x)
                         + One(c \in pairs \ weak /\ car[c] = x)
                  /\ Count(todo', "free", x) = Count(s, "free", x) + One(c = x)
                  /\ Count(todo', "link", x) = Count(s, "link", x)
    BY <2>1, <1>2, <1>5, InsideCount
  <2>3. TypeOK'
    BY <1>1, <1>8, <2>2 DEF HeapInv, TypeOK
  <2>4. \A x \in Cell : /\ x \in Doing("free") <=> Count(todo, "free", x) > 0
                        /\ x \in Doing("link") <=> Count(todo, "link", x) > 0
                        /\ x \in Doing("free")' <=> Count(todo', "free", x) > 0
                        /\ x \in Doing("link")' <=> Count(todo', "link", x) > 0
    BY <2>2, DoingCount DEF Doing, HeapInv, TypeOK
  <2>5. /\ Doing("free")' = Doing("free") \cup {c} /\ c \notin Doing("free")
        /\ Doing("link")' = Doing("link")
    <3>1. /\ Doing("free")' \subseteq Cell /\ Doing("free") \subseteq Cell
          /\ Doing("link")' \subseteq Cell /\ Doing("link") \subseteq Cell
      BY DEF Doing
    <3>2. \A x \in Cell : Count(todo', "free", x) > 0 <=> Count(todo, "free", x) > 0 \/ x = c
      BY <2>2, <1>3 DEF One
    <3>3. Count(todo, "free", c) = 0
      BY <1>2, <1>11 DEF HeapInv, FreeOnce, One
    <3>4. \A x \in Cell : Count(todo', "link", x) > 0 <=> Count(todo, "link", x) > 0
      BY <2>2, <1>3
    <3>5. c \notin Doing("free")
      BY <3>3, <2>4, <1>2
    <3>. QED  BY <3>1, <3>2, <3>4, <3>5, <2>4, <1>2
  <2>6. c \in pairs => Doing("link") = {}
    BY <1>7 DEF Doing
  <2>7. c \in pairs => /\ c \in Owners /\ c \in Owners \ Doing("link")
    BY <2>5, <2>6 DEF Owners
  <2>8. Owners' = Owners \ {c}
    BY <1>1, <2>5 DEF Owners
  <2>9. \A x : /\ CarOf(x)' = IF c \in pairs \ weak /\ car[c] = x
                              THEN CarOf(x) \ {c} ELSE CarOf(x)
               /\ c \in pairs \ weak /\ car[c] = x => c \in CarOf(x)
    <3>1. \A x : CarOf(x)' = CarOf(x) \ {c}
      BY <1>1, <2>8 DEF CarOf
    <3>2. \A x : c \in CarOf(x) <=> c \in pairs \ weak /\ car[c] = x
      BY <2>7 DEF CarOf, Owners
    <3>. QED  BY <3>1, <3>2
  <2>10. \A x : /\ CdrOf(x)' = IF c \in pairs /\ cdr[c] = x
                               THEN CdrOf(x) \ {c} ELSE CdrOf(x)
                /\ c \in pairs /\ cdr[c] = x => c \in CdrOf(x)
    <3>1. \A x : CdrOf(x)' = CdrOf(x) \ {c}
      BY <1>1, <2>5, <2>8 DEF CdrOf
    <3>2. \A x : c \in CdrOf(x) <=> c \in pairs /\ cdr[c] = x
      BY <2>7 DEF CdrOf, Owners
    <3>. QED  BY <3>1, <3>2
  <2>11. RefsExact'
    <3>1. ASSUME NEW x \in Cell
          PROVE  refs'[x] = hold'[x] + Cardinality(CarOf(x)') + Cardinality(CdrOf(x)')
                            + Count(todo', "drop", x)
      <4> DEFINE m == Cardinality(CarOf(x))
                 n == Cardinality(CdrOf(x))
                 mm == Cardinality(CarOf(x)')
                 nn == Cardinality(CdrOf(x)')
                 k == Count(s, "drop", x)
                 o == One(c = x)
                 p == One(c \in pairs \ weak /\ car[c] = x)
                 q == One(c \in pairs /\ cdr[c] = x)
      <4>1. /\ refs[x] \in Nat /\ hold[x] \in Nat /\ m \in Nat /\ n \in Nat
            /\ refs[x] = hold[x] + m + n + Count(todo, "drop", x)
        BY RefsSum
      <4>2. /\ k \in Nat /\ Count(todo, "drop", x) = k + o
            /\ Count(todo', "drop", x) = k + q + p
            /\ o \in Nat /\ p \in Nat /\ q \in Nat
        BY <1>3, <2>2 DEF One
      <4>3. refs'[x] = refs[x] - o
        BY <1>8
      <4>4. mm = m - p
        BY <2>9, <4>1, OwnersFinite, CardDrop DEF One, HeapInv
      <4>5. nn = n - q
        BY <2>10, <4>1, OwnersFinite, CardDrop DEF One, HeapInv
      <4>. HIDE DEF m, n, mm, nn, k, o, p, q
      <4>6. refs'[x] = hold'[x] + mm + nn + Count(todo', "drop", x)
        BY <4>1, <4>2, <4>3, <4>4, <4>5, <1>1
      <4>. QED  BY <4>6 DEF mm, nn
    <3>. QED  BY <3>1, RefsNext
  <2>12. FreeOnce'
    <3>1. ASSUME NEW x \in Cell
          PROVE  Count(todo', "free", x) = One(x \in live' /\ refs'[x] = 0)
      <4>1. Count(todo', "free", x) = One(x \in live /\ refs[x] = 0) + One(c = x)
        BY <2>2, <1>3 DEF HeapInv, FreeOnce
      <4>2. CASE x = c
        <5>1. One(x \in live /\ refs[x] = 0) = 0 /\ One(c = x) = 1
          BY <4>2, <1>11 DEF One
        <5>2. x \in live' /\ refs'[x] = 0
          BY <4>2, <1>1, <1>6, <1>8, <1>11 DEF One
        <5>. QED  BY <4>1, <5>1, <5>2 DEF One
      <4>3. CASE x # c
        <5>1. One(c = x) = 0 /\ refs'[x] = refs[x] /\ live' = live
          BY <4>3, <1>1, <1>8 DEF HeapInv, TypeOK, One
        <5>2. One(x \in live /\ refs[x] = 0) \in Nat
          BY DEF One
        <5>. QED  BY <4>1, <5>1, <5>2
      <4>. QED  BY <4>2, <4>3
    <3>. QED  BY <3>1 DEF FreeOnce
  <2>13. Walks'
    <3>1. CASE c \in pairs
      <4>1. \A i \in DOMAIN todo : todo[i].do \notin {"walk", "link"}
        BY <3>1, <1>7
      <4>2. \A i \in DOMAIN todo' : todo'[i].do \notin {"walk", "link"}
        <5>1. \A i \in DOMAIN s : s[i].do \notin {"walk", "link"}
          BY <4>1, <1>2
        <5>2. \A i \in DOMAIN g : g[i].do \notin {"walk", "link"}
          <6>1. /\ DOMAIN s = 1..Len(s) /\ DOMAIN g = 1..(Len(s) + 1) /\ Len(s) \in Nat
                /\ \A i \in 1..Len(s) : g[i] = s[i]
                /\ g[Len(s) + 1] = f
            BY <1>2, <1>4, AppendFacts DEF g
          <6>2. \A i \in 1..(Len(s) + 1) : i \in 1..Len(s) \/ i = Len(s) + 1
            BY <6>1
          <6>. QED  BY <6>1, <6>2, <5>1, <1>4
        <5>3. ASSUME NEW w \in Seq(Calls), NEW d \in Cell,
                     \A i \in DOMAIN w : w[i].do \notin {"walk", "link"}
              PROVE  /\ Append(w, Frame("drop", d)) \in Seq(Calls)
                     /\ \A i \in DOMAIN Append(w, Frame("drop", d)) :
                          Append(w, Frame("drop", d))[i].do \notin {"walk", "link"}
          <6> DEFINE h == Frame("drop", d)
                     v == Append(w, h)
          <6>1. h \in Calls /\ h.do = "drop"
            BY DEF Frame, Calls
          <6>. HIDE DEF h
          <6>2. /\ DOMAIN w = 1..Len(w) /\ DOMAIN v = 1..(Len(w) + 1) /\ Len(w) \in Nat
                /\ \A i \in 1..Len(w) : v[i] = w[i]
                /\ v[Len(w) + 1] = h /\ v \in Seq(Calls)
            BY <6>1, AppendFacts
          <6>3. \A i \in 1..(Len(w) + 1) : i \in 1..Len(w) \/ i = Len(w) + 1
            BY <6>2
          <6>. HIDE DEF v
          <6>4. \A i \in DOMAIN v : v[i].do \notin {"walk", "link"}
            BY <6>1, <6>2, <6>3, <5>3
          <6>. QED  BY <6>2, <6>4 DEF v, h
        <5>4. car[c] \in Cell /\ cdr[c] \in Cell
          BY <3>1 DEF HeapInv, Linked
        <5>. DEFINE w1 == Append(g, Frame("drop", cdr[c]))
                    w2 == Append(w1, Frame("drop", car[c]))
        <5>5. /\ w1 \in Seq(Calls)
              /\ \A i \in DOMAIN w1 : w1[i].do \notin {"walk", "link"}
          BY <1>5, <5>2, <5>3, <5>4
        <5>6. todo' = w1 \/ todo' = w2
          BY <3>1, <2>1 DEF Inside
        <5>. HIDE DEF w1
        <5>7. \A i \in DOMAIN w2 : w2[i].do \notin {"walk", "link"}
          BY <5>3, <5>4, <5>5
        <5>. HIDE DEF w2
        <5>. QED  BY <5>5, <5>6, <5>7
      <4>. QED  BY <4>2 DEF Walks
    <3>2. CASE c \notin pairs
      <4>1. todo' = Append(s, f)
        BY <3>2, <2>1 DEF Inside, g
      <4>2. /\ DOMAIN todo' = 1..Len(todo) /\ Len(todo') = Len(todo)
            /\ \A i \in 1..(Len(todo) - 1) : todo'[i] = todo[i]
            /\ todo'[Len(todo)] = f
        BY <4>1, <1>2, <1>4, AppendFacts
      <4>3. ASSUME NEW i \in DOMAIN todo', todo'[i].do \in {"walk", "link"}
            PROVE  /\ i = 1 /\ Len(todo') = 2 /\ todo'[1] = todo[1] /\ todo'[2] = f
                   /\ todo[1].do = "link" /\ todo[1].cell \in pairs
                   /\ todo[1].to \in Cell /\ hold[todo[1].to] > 0
        <5>1. i # Len(todo)
          BY <4>2, <4>3, <1>4
        <5>2. i \in 1..(Len(todo) - 1)
          BY <5>1, <4>2, <1>2
        <5>3. i \in DOMAIN todo /\ todo[i].do \in {"walk", "link"}
          BY <5>2, <4>2, <4>3, <1>2
        <5>4. /\ i = 1 /\ Len(todo) = 2
              /\ todo[1].do = "link" /\ todo[1].cell \in pairs
              /\ todo[1].to \in Cell /\ hold[todo[1].to] > 0
          BY <5>3, <1>7
        <5>. QED  BY <5>2, <5>4, <4>2
      <4>4. c \notin pairs' /\ f.do \in {"drop", "free"} /\ f.cell \notin pairs'
        BY <3>2, <1>1, <1>4
      <4>5. ASSUME NEW i \in DOMAIN todo', todo'[i].do \in {"walk", "link"}
            PROVE  /\ i = 1 /\ Len(todo') <= 2
                   /\ todo'[1].cell \in pairs'
                   /\ todo'[1].to \in Cell /\ hold'[todo'[1].to] > 0
                   /\ todo'[1].do = "link"
                   /\ todo'[2].do \in {"drop", "free"} /\ todo'[2].cell \notin pairs'
        <5>1. /\ i = 1 /\ Len(todo') = 2 /\ todo'[1] = todo[1] /\ todo'[2] = f
              /\ todo[1].do = "link" /\ todo[1].cell \in pairs
              /\ todo[1].to \in Cell /\ hold[todo[1].to] > 0
          BY <4>3, <4>5
        <5>2. pairs' = pairs /\ hold' = hold
          BY <1>1
        <5>. QED  BY <5>1, <5>2, <4>4
      <4>6. \A i \in DOMAIN todo' :
              todo'[i].do \in {"walk", "link"} =>
                /\ i = 1 /\ Len(todo') <= 2
                /\ todo'[1].cell \in pairs'
                /\ todo'[1].to \in Cell /\ hold'[todo'[1].to] > 0
                /\ (Len(todo') = 2 => todo'[1].do = "link"
                                     /\ todo'[2].do \in {"drop", "free"}
                                     /\ todo'[2].cell \notin pairs')
        BY <4>5
      <4>. QED  BY <4>6 DEF Walks
    <3>. QED  BY <3>1, <3>2
  <2>. QED  BY <2>3, <2>11, <2>12, <2>13, <1>9 DEF HeapInv
<1>. QED  BY <1>10, <1>11

(* The end of a deallocation: what the cell owned is gone already.         *)
LEMMA FreeKeeps ==
  ASSUME HeapInv, Free
  PROVE  HeapInv'
<1> DEFINE c == Top.cell
           s == Front(todo)
<1>1. /\ Running("free") /\ todo' = s
      /\ live' = live \ {c} /\ pairs' = pairs \ {c} /\ weak' = weak \ {c}
      /\ car' = [car EXCEPT ![c] = Nowhere] /\ cdr' = [cdr EXCEPT ![c] = Nowhere]
      /\ UNCHANGED <<refs, hold>>
  BY DEF Free
<1>2. /\ s \in Seq(Calls) /\ todo \in Seq(Calls) /\ c \in Cell
      /\ Len(todo) \in Nat \ {0} /\ Len(s) = Len(todo) - 1
      /\ DOMAIN todo = 1..Len(todo) /\ DOMAIN s = 1..(Len(todo) - 1)
      /\ \A i \in 1..(Len(todo) - 1) : s[i] = todo[i]
  BY <1>1, TopCall DEF HeapInv, TypeOK
<1>3. \A x : /\ Count(s, "drop", x) = Count(todo, "drop", x)
             /\ Count(s, "link", x) = Count(todo, "link", x)
             /\ Count(s, "free", x) \in Nat
             /\ Count(todo, "free", x) = Count(s, "free", x) + One(c = x)
  <2>1. \A do, x : /\ Count(s, do, x) \in Nat
                   /\ Count(todo, do, x) = Count(s, do, x) + One("free" = do /\ c = x)
    BY <1>1, TopCall
  <2>2. \A x : /\ One("free" = "free" /\ c = x) = One(c = x)
               /\ One("free" = "drop" /\ c = x) = 0
               /\ One("free" = "link" /\ c = x) = 0
    BY DEF One
  <2>. QED  BY <2>1, <2>2
<1>4. \A i \in DOMAIN todo :
        todo[i].do \in {"walk", "link"} =>
          /\ i = 1 /\ Len(todo) = 2 /\ todo[1].do = "link"
          /\ todo[1].cell \in pairs /\ todo[1].to \in Cell /\ hold[todo[1].to] > 0
          /\ c \notin pairs
  BY <1>1, NoWalkBelow
<1>. HIDE DEF c, s
<1>5. /\ c \in live /\ refs[c] = 0
      /\ Count(s, "free", c) = 0 /\ Count(todo, "free", c) = 1
  <2>1. /\ Count(s, "free", c) \in Nat
        /\ Count(todo, "free", c) = Count(s, "free", c) + One(c = c)
    BY <1>3
  <2>2. Count(todo, "free", c) = One(c \in live /\ refs[c] = 0)
    BY <1>2 DEF HeapInv, FreeOnce
  <2>. QED  BY <2>1, <2>2 DEF One
<1>6. /\ Doing("free")' = Doing("free") \ {c} /\ c \in Doing("free")
      /\ Doing("link")' = Doing("link")
  <2>1. /\ Doing("free")' \subseteq Cell /\ Doing("free") \subseteq Cell
        /\ Doing("link")' \subseteq Cell /\ Doing("link") \subseteq Cell
    BY DEF Doing
  <2>2. \A x \in Cell : /\ x \in Doing("free") <=> Count(todo, "free", x) > 0
                        /\ x \in Doing("link") <=> Count(todo, "link", x) > 0
                        /\ x \in Doing("free")' <=> Count(s, "free", x) > 0
                        /\ x \in Doing("link")' <=> Count(s, "link", x) > 0
    BY <1>1, <1>2, DoingNow
  <2>3. c \in Doing("free")
    BY <2>2, <1>2, <1>5
  <2>4. \A x \in Cell : Count(s, "free", x) > 0 <=> Count(todo, "free", x) > 0 /\ x # c
    BY <1>3, <1>5 DEF One
  <2>5. Doing("free")' = Doing("free") \ {c}
    BY <2>1, <2>2, <2>4
  <2>6. \A x \in Cell : x \in Doing("link")' <=> x \in Doing("link")
    BY <2>2, <1>3
  <2>7. Doing("link")' = Doing("link")
    BY <2>1, <2>6
  <2>. QED  BY <2>3, <2>5, <2>7
<1>7. Owners' = Owners /\ c \notin Owners
  BY <1>1, <1>6 DEF Owners
<1>8. pairs \subseteq Cell /\ \A d \in Cell : d # c => car'[d] = car[d] /\ cdr'[d] = cdr[d]
  BY <1>1 DEF HeapInv, TypeOK
<1>9. \A x : CarOf(x)' = CarOf(x) /\ CdrOf(x)' = CdrOf(x)
  <2>1. \A d \in Owners : /\ d \in Cell /\ d # c
                          /\ car'[d] = car[d] /\ cdr'[d] = cdr[d]
                          /\ d \in weak' <=> d \in weak
    BY <1>1, <1>7, <1>8 DEF Owners
  <2>. QED  BY <2>1, <1>6, <1>7 DEF CarOf, CdrOf
<1>10. RefsExact'
  <2>1. ASSUME NEW x \in Cell
        PROVE  refs'[x] = hold'[x] + Cardinality(CarOf(x)') + Cardinality(CdrOf(x)')
                          + Count(todo', "drop", x)
    BY <1>1, <1>3, <1>9, RefsSum
  <2>. QED  BY <2>1, RefsNext
<1>11. FreeOnce'
  <2>1. ASSUME NEW x \in Cell
        PROVE  Count(todo', "free", x) = One(x \in live' /\ refs'[x] = 0)
    <3>1. CASE x = c
      BY <3>1, <1>1, <1>5 DEF One
    <3>2. CASE x # c
      <4>1. Count(s, "free", x) = Count(todo, "free", x)
        BY <3>2, <1>3 DEF One
      <4>2. Count(todo, "free", x) = One(x \in live /\ refs[x] = 0)
        BY DEF HeapInv, FreeOnce
      <4>. QED  BY <3>2, <4>1, <4>2, <1>1 DEF One
    <3>. QED  BY <3>1, <3>2
  <2>. QED  BY <2>1 DEF FreeOnce
<1>12. TypeOK'
  <2>1. live' \subseteq Cell /\ pairs' \subseteq live' /\ weak' \subseteq pairs'
    BY <1>1 DEF HeapInv, TypeOK
  <2>2. /\ car' \in [Cell -> Cell \cup {Nowhere}]
        /\ cdr' \in [Cell -> Cell \cup {Nowhere}]
    BY <1>1 DEF HeapInv, TypeOK
  <2>. QED  BY <2>1, <2>2, <1>1, <1>2 DEF HeapInv, TypeOK
<1>13. Linked' /\ Dead'
  <2>1. Linked'
    BY <1>1, <1>8 DEF HeapInv, Linked
  <2>2. Dead'
    BY <1>1, <1>5 DEF HeapInv, Dead
  <2>. QED  BY <2>1, <2>2
<1>14. Walks'
  <2>1. ASSUME NEW i \in DOMAIN s, s[i].do \in {"walk", "link"}
        PROVE  /\ i = 1 /\ Len(s) = 1
               /\ s[1].cell \in pairs' /\ s[1].to \in Cell /\ hold'[s[1].to] > 0
    <3>1. i \in DOMAIN todo /\ s[i] = todo[i]
      BY <1>2
    <3>. QED  BY <2>1, <3>1, <1>1, <1>2, <1>4
  <2>2. \A i \in DOMAIN todo' :
          todo'[i].do \in {"walk", "link"} =>
            /\ i = 1 /\ Len(todo') <= 2
            /\ todo'[1].cell \in pairs'
            /\ todo'[1].to \in Cell /\ hold'[todo'[1].to] > 0
            /\ (Len(todo') = 2 => todo'[1].do = "link"
                                 /\ todo'[2].do \in {"drop", "free"}
                                 /\ todo'[2].cell \notin pairs')
    <3>1. \A i \in DOMAIN s :
            s[i].do \in {"walk", "link"} =>
              /\ i = 1 /\ Len(s) = 1
              /\ s[1].cell \in pairs' /\ s[1].to \in Cell /\ hold'[s[1].to] > 0
      BY <2>1
    <3>2. todo' = s
      BY <1>1
    <3>3. Len(s) = 1 => Len(s) <= 2 /\ Len(s) # 2
      OBVIOUS
    <3>. QED  BY <3>1, <3>2, <3>3
  <2>. QED  BY <2>2 DEF Walks
<1>. QED  BY <1>10, <1>11, <1>12, <1>13, <1>14 DEF HeapInv

-----------------------------------------------------------------------------
(* The theorems.                                                           *)

LEMMA InitHeap == Init => HeapInv
<1>. SUFFICES ASSUME Init
              PROVE  HeapInv
  OBVIOUS
<1>1. TypeOK
  BY DEF Init, TypeOK
<1>2. Linked /\ Dead /\ Walks
  BY DEF Init, Linked, Dead, Walks
<1>3. FreeOnce
  <2>1. \A c : Count(todo, "free", c) = 0
    BY CountEmpty DEF Init
  <2>. QED  BY <2>1 DEF FreeOnce, Init, One
<1>4. RefsExact
  <2>1. \A c : CarOf(c) = {} /\ CdrOf(c) = {} /\ Drops(c) = {}
    BY DEF Init, CarOf, CdrOf, Drops, Owners
  <2>2. Cardinality({}) = 0
    BY FS_EmptySet
  <2>3. \A c \in Cell : refs[c] = 0 /\ hold[c] = 0
    BY DEF Init
  <2>. QED  BY <2>1, <2>2, <2>3 DEF RefsExact
<1>. QED  BY <1>1, <1>2, <1>3, <1>4 DEF HeapInv

LEMMA StutterHeap == HeapInv /\ UNCHANGED vars => HeapInv'
<1>. SUFFICES ASSUME HeapInv, UNCHANGED vars
              PROVE  HeapInv'
  OBVIOUS
<1>1. \A x : CarOf(x)' = CarOf(x) /\ CdrOf(x)' = CdrOf(x) /\ Drops(x)' = Drops(x)
  BY DEF vars, CarOf, CdrOf, Drops, Owners, Doing
<1>2. RefsExact'
  BY <1>1 DEF vars, HeapInv, RefsExact
<1>3. TypeOK' /\ Linked' /\ Dead' /\ FreeOnce' /\ Walks'
  BY DEF vars, HeapInv, TypeOK, Linked, Dead, FreeOnce, Walks
<1>. QED  BY <1>2, <1>3 DEF HeapInv

LEMMA NextHeap == HeapInv /\ [Next]_vars => HeapInv'
<1>. SUFFICES ASSUME HeapInv, [Next]_vars
              PROVE  HeapInv'
  OBVIOUS
<1>1. ASSUME Make  PROVE HeapInv'
  BY <1>1, MakeKeeps
<1>2. ASSUME NEW a \in live, NEW b \in live, LispCons(a, b)  PROVE HeapInv'
  BY <1>2, ConsKeeps
<1>3. ASSUME NEW a \in live, NEW b \in live, Conc(a, b)  PROVE HeapInv'
  BY <1>3, ConcKeeps
<1>4. ASSUME NEW c \in live, Up(c) \/ Car(c) \/ Cdr(c)  PROVE HeapInv'
  BY <1>4, ReferKeeps
<1>5. ASSUME NEW c \in live, SetWeak(c)  PROVE HeapInv'
  BY <1>5, SetWeakKeeps
<1>6. ASSUME NEW c \in live, ClearWeak(c)  PROVE HeapInv'
  BY <1>6, ClearWeakKeeps
<1>7. ASSUME NEW c \in live, Release(c)  PROVE HeapInv'
  BY <1>7, ReleaseKeeps
<1>8. ASSUME Step  PROVE HeapInv'
  BY <1>8, DropKeeps, FreeKeeps, ConcNextKeeps, ConcLastKeeps, ConcLinkKeeps DEF Step
<1>9. ASSUME UNCHANGED vars  PROVE HeapInv'
  BY <1>9, StutterHeap
<1>. QED  BY <1>1, <1>2, <1>3, <1>4, <1>5, <1>6, <1>7, <1>8, <1>9 DEF Next

(* A count above 0 is an allocated cell, and one deallocation of a cell    *)
(* runs at a time: nothing dangles.                                        *)
LEMMA HeapSafe == HeapInv => NoDangling
<1>. SUFFICES ASSUME HeapInv
              PROVE  NoDangling
  OBVIOUS
<1>1. \A c \in Cell : hold[c] > 0 => c \in live
  BY Positive
<1>2. \A d \in Owners \ weak : car[d] \in live
  <2>1. \A d \in Owners \ weak : car[d] \in Cell /\ d \in CarOf(car[d])
    BY DEF HeapInv, Linked, Owners, CarOf
  <2>. QED  BY <2>1, Positive
<1>3. \A d \in Owners \ Doing("link") : cdr[d] \in live
  <2>1. \A d \in Owners \ Doing("link") : cdr[d] \in Cell /\ d \in CdrOf(cdr[d])
    BY DEF HeapInv, Linked, Owners, CdrOf
  <2>. QED  BY <2>1, Positive
<1>4. ASSUME NEW i \in DOMAIN todo
      PROVE  todo[i].cell \in live
  <2> DEFINE c == todo[i].cell
  <2>1. todo \in Seq(Calls) /\ todo[i] \in Calls
    BY DEF HeapInv, TypeOK
  <2>2. c \in Cell /\ todo[i].do \in {"drop", "free", "walk", "link"}
    BY <2>1 DEF Calls
  <2>3. CASE todo[i].do = "drop"
    <3>1. Count(todo, "drop", c) > 0
      BY <2>1, <2>2, <2>3, DoingCount
    <3>. QED  BY <3>1, <2>2, Positive
  <2>4. CASE todo[i].do = "free"
    <3>1. Count(todo, "free", c) > 0
      BY <2>1, <2>2, <2>4, DoingCount
    <3>2. Count(todo, "free", c) = One(c \in live /\ refs[c] = 0)
      BY <2>2 DEF HeapInv, FreeOnce
    <3>. QED  BY <3>1, <3>2 DEF One
  <2>5. CASE todo[i].do \in {"walk", "link"}
    BY <2>5 DEF HeapInv, Walks, TypeOK
  <2>. QED  BY <2>2, <2>3, <2>4, <2>5
<1>5. ASSUME NEW i \in DOMAIN todo, NEW j \in DOMAIN todo,
             todo[i].do = "free", todo[j] = todo[i]
      PROVE  i = j
  <2> DEFINE c == todo[i].cell
             P == Places(todo, "free", c)
  <2>1. todo \in Seq(Calls) /\ todo[i] \in Calls
    BY DEF HeapInv, TypeOK
  <2>2. c \in Cell
    BY <2>1 DEF Calls
  <2>3. i \in P /\ j \in P
    BY <1>5 DEF Places
  <2>4. IsFiniteSet(P)
    BY <2>1, PlacesFinite
  <2>5. Cardinality(P) = 0 \/ Cardinality(P) = 1
    <3>1. Cardinality(P) = One(c \in live /\ refs[c] = 0)
      BY <2>2 DEF HeapInv, FreeOnce, Count
    <3>. QED  BY <3>1 DEF One
  <2>. HIDE DEF P
  <2>6. Cardinality(P) = 1
    BY <2>3, <2>4, <2>5, CardZero
  <2>7. \E x : P = {x}
    BY <2>4, <2>6, FS_Singleton
  <2>. QED  BY <2>3, <2>7
<1>. QED  BY <1>1, <1>2, <1>3, <1>4, <1>5 DEF NoDangling

-----------------------------------------------------------------------------
(* Cells that are reached.                                                 *)

LEMMA ReachBase ==
  ASSUME NEW S \in SUBSET live
  PROVE  S \subseteq Reach(S)
BY DEF Reach

(* What a reached pair owns is reached.                                    *)
LEMMA ReachStep ==
  ASSUME NEW S, NEW d \in Reach(S), NEW c \in live, d \in CarOf(c) \/ d \in CdrOf(c)
  PROVE  c \in Reach(S)
<1>. SUFFICES ASSUME NEW T \in SUBSET live, S \subseteq T, Owned(T) \subseteq T
              PROVE  c \in T
  BY DEF Reach
<1>1. d \in T
  BY DEF Reach
<1>2. c \in Owned(T)
  BY <1>1 DEF Owned
<1>. QED  BY <1>2

(* Between two calls a cell that nothing holds is owned by a pair.         *)
LEMMA IdleOwned ==
  ASSUME HeapInv, Idle, NEW c \in live, c \notin Held
  PROVE  \E d \in live : d \in CarOf(c) \/ d \in CdrOf(c)
<1>1. c \in Cell /\ pairs \subseteq live
  BY DEF HeapInv, TypeOK
<1>2. /\ refs[c] = hold[c] + Cardinality(IdleCar(c)) + Cardinality(IdleCdr(c))
      /\ hold[c] \in Nat /\ refs[c] > 0
      /\ IsFiniteSet(IdleCar(c)) /\ IsFiniteSet(IdleCdr(c))
      /\ Cardinality(IdleCar(c)) \in Nat /\ Cardinality(IdleCdr(c)) \in Nat
  BY <1>1, IdleFacts
<1>3. hold[c] = 0
  BY <1>2 DEF Held
<1>4. Cardinality(IdleCar(c)) # 0 \/ Cardinality(IdleCdr(c)) # 0
  BY <1>2, <1>3
<1>5. IdleCar(c) # {} \/ IdleCdr(c) # {}
  BY <1>2, <1>4, CardZero
<1>6. CarOf(c) = IdleCar(c) /\ CdrOf(c) = IdleCdr(c)
  BY IdleOwners
<1>7. PICK d : d \in IdleCar(c) \/ d \in IdleCdr(c)
  BY <1>5
<1>8. d \in live
  BY <1>1, <1>7 DEF IdleCar, IdleCdr
<1>. QED  BY <1>6, <1>7, <1>8

(* Of the cells that are lost without a circle, take one that the fewest   *)
(* of them lead to: a pair owns it, is lost as well, and fewer lead to it. *)
LEMMA OnlyCycles == HeapInv => OnlyCyclesLeak
<1>. SUFFICES ASSUME HeapInv, Idle
              PROVE  live \subseteq Reach(Held) \cup Reach(Circular)
  BY DEF OnlyCyclesLeak
<1> DEFINE W == live \ (Reach(Held) \cup Reach(Circular))
           To(x) == {y \in W : x \in Reach(Owned({y}))}
           Family == {To(x) : x \in W}
<1>. SUFFICES ASSUME W # {}  PROVE FALSE
  OBVIOUS
<1>1. Held \subseteq Reach(Held) /\ Circular \subseteq Reach(Circular)
  BY ReachBase DEF Held, Circular
<1>2. ASSUME NEW x \in W
      PROVE  \E d \in W : x \in Owned({d}) /\ (d \in CarOf(x) \/ d \in CdrOf(x))
  <2>1. x \in live /\ x \notin Held
    BY <1>1, <1>2
  <2>2. PICK d \in live : d \in CarOf(x) \/ d \in CdrOf(x)
    BY <2>1, IdleOwned
  <2>3. d \notin Reach(Held) /\ d \notin Reach(Circular)
    BY <1>2, <2>1, <2>2, ReachStep
  <2>. QED  BY <2>1, <2>2, <2>3 DEF Owned
<1>3. IsFiniteSet(W)
  <2>1. W \subseteq Cell
    BY DEF HeapInv, TypeOK
  <2>. QED  BY <2>1, FS_Subset, HeapAssumption
<1>4. Family \subseteq FiniteSubsetsOf(W) /\ Family # {}
  <2>1. \A x \in W : To(x) \in SUBSET W
    OBVIOUS
  <2>2. Family \subseteq SUBSET W
    BY <2>1
  <2>3. Family # {}
    <3>1. PICK x \in W : TRUE
      OBVIOUS
    <3>2. To(x) \in Family
      BY <3>1
    <3>. QED  BY <3>2
  <2>. HIDE DEF W, Family
  <2>. QED  BY <2>2, <2>3, <1>3, FS_FiniteSubsetsOfFinite
<1>5. PICK A \in Family : \A B \in Family : ~(<<B, A>> \in StrictSubsetOrdering(W))
  <2>. HIDE DEF W, Family
  <2>. QED  BY <1>4, FS_StrictSubsetOrderingWellFounded, WFMin
<1>6. PICK x \in W : A = To(x)
  OBVIOUS
<1>7. PICK d \in W : x \in Owned({d}) /\ (d \in CarOf(x) \/ d \in CdrOf(x))
  BY <1>2
<1>8. d \in To(x)
  <2>1. Owned({d}) \subseteq Reach(Owned({d}))
    BY ReachBase DEF Owned
  <2>. QED  BY <1>7, <2>1
<1>9. d \notin To(d)
  BY <1>1 DEF Circular
<1>10. To(d) \subseteq To(x)
  BY <1>7, ReachStep
<1>11. To(d) \in Family /\ <<To(d), To(x)>> \in StrictSubsetOrdering(W)
  <2>1. To(d) \in Family /\ To(d) \in SUBSET W /\ To(x) \in SUBSET W
    OBVIOUS
  <2>2. To(d) # To(x)
    BY <1>8, <1>9
  <2>. HIDE DEF W, Family, To
  <2>. QED  BY <2>1, <2>2, <1>10 DEF StrictSubsetOrdering
<1>. QED  BY <1>5, <1>6, <1>11

-----------------------------------------------------------------------------
(* The variables keep their types: no count falls below 0, whatever the    *)
(* order of the primitives.                                                *)
THEOREM HeapTypes == Spec => []TypeOK
<1>1. HeapInv => TypeOK
  BY DEF HeapInv
<1>. QED  BY <1>1, InitHeap, NextHeap, PTL DEF Spec

(* The reference counts are exact, between two calls and in the middle of  *)
(* a release and of lisp_conc.                                             *)
THEOREM CountsExact == Spec => []RefsExact
<1>1. HeapInv => RefsExact
  BY DEF HeapInv
<1>. QED  BY <1>1, InitHeap, NextHeap, PTL DEF Spec

(* No reference dangles and no cell is freed twice.                        *)
THEOREM NothingDangles == Spec => []NoDangling
BY HeapSafe, InitHeap, NextHeap, PTL DEF Spec

(* Between two calls every cell that the C code cannot reach any more is   *)
(* back in the slab, but for what a circular list keeps.                   *)
THEOREM NothingElseLeaks == Spec => []OnlyCyclesLeak
BY OnlyCycles, InitHeap, NextHeap, PTL DEF Spec

=============================================================================
