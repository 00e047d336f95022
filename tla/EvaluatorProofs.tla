-------------------------- MODULE EvaluatorProofs ---------------------------
(***************************************************************************)
(* The evaluator.  First, the closures and caches of Scope, for all        *)
(* symbols, cells and programs: the caches are exact, the closure of every *)
(* activation is sorted, the last of several arguments wins, and together  *)
(* they are an Environment.  The refinement maps an association list to    *)
(* the function it means; sorting it changes nothing, and merging two      *)
(* overrides one by the other.                                             *)
(*                                                                         *)
(* Then the tail calls of TailCall, for all bodies: flags and records are  *)
(* only where a value goes straight to the loop of lisp_eval_func; hence   *)
(* no function is given a record, tail calls compute what calls compute,   *)
(* and a function whose calls are all tail calls needs one activation.     *)
(***************************************************************************)
EXTENDS Scope, TailCall, SequenceLemmas, WellFoundedInduction, FiniteSetTheorems

\* The types CacheExact depends on.
CacheTypes ==
    /\ globals \in [Symbols -> Pairs \cup {None}]
    /\ name \in [Atoms -> Symbols]
    /\ cache \in [Atoms -> Pairs \cup {None}]

CacheInv == CacheTypes /\ CacheExact

\* A symbol that is bound keeps its pair: this is what no operation on the
\* globals may break (tree.c:233, lisp.c:212).
BoundStays ==
    \A s \in Symbols : globals[s] # None => globals'[s] = globals[s]

LEMMA InitCache == Init => CacheInv
  BY DEF Init, CacheInv, CacheTypes, CacheExact

\* lisp_setq binds a new symbol or leaves the tree of the globals as it is.
LEMMA SetGlobalKeeps ==
    ASSUME CacheTypes, NEW s \in Symbols, NEW v, SetGlobal(s, v)
    PROVE  /\ globals' \in [Symbols -> Pairs \cup {None}]
           /\ BoundStays
<1>1. CASE globals[s] # None
  BY <1>1 DEF SetGlobal, CacheTypes, BoundStays
<1>2. CASE globals[s] = None
  <2>1. PICK b \in Fresh : globals' = [globals EXCEPT ![s] = b]
    BY <1>2 DEF SetGlobal
  <2>2. b \in Pairs
    BY DEF Fresh
  <2> QED
    BY <1>2, <2>1, <2>2 DEF CacheTypes, BoundStays
<1> QED
  BY <1>1, <1>2

\* When bound symbols stay bound to their pairs and the atoms do not change,
\* the caches remain exact.
LEMMA CachesStay ==
    ASSUME CacheInv, BoundStays,
           globals' \in [Symbols -> Pairs \cup {None}],
           UNCHANGED <<name, cache>>
    PROVE  CacheInv'
  BY DEF CacheInv, CacheTypes, CacheExact, BoundStays

LEMMA NextCache == CacheInv /\ [Next]_vars => CacheInv'
<1> SUFFICES ASSUME CacheInv, [Next]_vars PROVE CacheInv'
  OBVIOUS
<1>1. CASE UNCHANGED <<globals, name, cache>>
  BY <1>1 DEF CacheInv, CacheTypes, CacheExact
<1>2. ASSUME NEW a \in Atoms, NEW s \in Symbols, NewAtom(a, s) PROVE CacheInv'
  BY <1>2 DEF NewAtom, CacheInv, CacheTypes, CacheExact
<1>3. ASSUME NEW a \in Atoms, LookupGlobal(a) PROVE CacheInv'
  <2>1. /\ cache' = [cache EXCEPT ![a] = globals[name[a]]]
        /\ UNCHANGED <<globals, name>>
    BY <1>3 DEF LookupGlobal, stack
  <2>2. globals[name[a]] \in Pairs \cup {None}
    BY DEF CacheInv, CacheTypes
  <2> QED
    BY <2>1, <2>2 DEF CacheInv, CacheTypes, CacheExact
<1>4. ASSUME NEW s \in Symbols, NEW v, SetGlobal(s, v), UNCHANGED <<name, cache>>
      PROVE  CacheInv'
  BY <1>4, SetGlobalKeeps, CachesStay DEF CacheInv
<1>5. ASSUME NEW s \in Symbols, Setq(s) \/ Def(s) PROVE CacheInv'
  BY <1>4, <1>5 DEF Setq, Def
<1>6. ASSUME NEW a \in Atoms,
             LookupClosure(a) \/ LookupCached(a) \/ LookupUnbound(a)
      PROVE  CacheInv'
  BY <1>1, <1>6 DEF LookupClosure, LookupCached, LookupUnbound
<1>7. ASSUME NEW s \in Symbols,
             UpdateClosure(s) \/ UpdateGlobal(s) \/ UpdateUnbound(s) \/ LetBind(s)
      PROVE  CacheInv'
  BY <1>1, <1>7 DEF UpdateClosure, UpdateGlobal, UpdateUnbound, LetBind
<1>8. ASSUME Literal \/ Lambda \/ Let \/ LetBody \/ Call \/ Refuse
      PROVE  CacheInv'
  BY <1>1, <1>8 DEF Literal, Lambda, Let, LetBody, Call, Refuse, Begin
<1>9. ASSUME ArgBind \/ Enter \/ Curry \/ Discard \/ Return PROVE CacheInv'
  BY <1>1, <1>9 DEF ArgBind, Enter, Curry, Discard, Return
<1> QED
  BY <1>1, <1>2, <1>3, <1>5, <1>6, <1>7, <1>8, <1>9 DEF Next, vars

\* Whatever is bound, set, updated or released, a cached binding is the global
\* binding of the symbol, so that lisp_lookup may read it (lisp.c:110).
THEOREM CachesExact == Spec => []CacheExact
<1>1. CacheInv => CacheExact
  BY DEF CacheInv
<1> QED
  BY InitCache, NextCache, <1>1, PTL DEF Spec

\* The value read through a cache is the one the search of the globals would
\* return, hence LookupCached is only a faster LookupGlobal.
THEOREM CachedIsGlobal ==
    Spec => [][\A a \in Atoms : LookupCached(a) =>
                  value' = cdr[globals[name[a]]]]_vars
<1>1. CacheInv /\ [Next]_vars =>
        [\A a \in Atoms : LookupCached(a) =>
            value' = cdr[globals[name[a]]]]_vars
  BY DEF CacheInv, CacheExact, LookupCached
<1> QED
  BY InitCache, NextCache, <1>1, PTL DEF Spec

-----------------------------------------------------------------------------
\* Association lists.  One that is sorted has one element for a symbol.
Binding == [sym : Symbols, kvp : Pairs]

LEMMA ListFacts ==
  ASSUME NEW c \in Closures
  PROVE  /\ DOMAIN c = 1..Len(c) /\ Len(c) \in Nat /\ c \in Seq(Binding)
         /\ \A i \in 1..Len(c) : /\ c[i] \in Binding /\ c[i].sym \in Symbols
                                 /\ c[i].sym \in Nat /\ c[i].kvp \in Pairs
                                 /\ c[i].kvp # None
<1>1. c \in Seq(Binding)
  BY DEF Closures, Binding
<1>2. DOMAIN c = 1..Len(c) /\ Len(c) \in Nat /\ \A i \in 1..Len(c) : c[i] \in Binding
  BY <1>1, LenProperties, ElementOfSeq
<1>. QED  BY <1>1, <1>2, ScopeAssumption DEF Binding

LEMMA AssocNone ==
  ASSUME NEW c \in Closures, NEW s, \A i \in 1..Len(c) : c[i].sym # s
  PROVE  Assoc(c, s) = None /\ Matches(c, s) = {}
<1>1. Matches(c, s) = {}
  BY ListFacts DEF Matches
<1>. QED  BY <1>1 DEF Assoc

Sorted(alst) == \A i, j \in DOMAIN alst : i < j => alst[i].sym < alst[j].sym

LEMMA AssocSorted ==
  ASSUME NEW c \in Closures, Sorted(c), NEW i \in 1..Len(c)
  PROVE  Assoc(c, c[i].sym) = c[i].kvp /\ Matches(c, c[i].sym) = {i}
<1>1. \A j, h \in 1..Len(c) : j < h => c[j].sym < c[h].sym
  BY ListFacts DEF Sorted
<1>2. \A j \in 1..Len(c) : j \in Int /\ c[j].sym \in Nat
  BY ListFacts
<1>3. Matches(c, c[i].sym) = {i}
  <2>1. \A j \in 1..Len(c) : c[j].sym = c[i].sym => j = i
    BY <1>1, <1>2
  <2>. QED  BY <2>1, ListFacts DEF Matches
<1>4. Min({i}) = i
  <2>1. {i} \in SUBSET Nat /\ {i} # {}
    OBVIOUS
  <2>. QED  BY <2>1, MinOf
<1>. QED  BY <1>3, <1>4 DEF Assoc

\* lisp_sss keeps a list sorted, binds the symbol of kv to its pair, and leaves
\* the other bindings alone.
LEMMA SssElements ==
  ASSUME NEW root \in Closures, Sorted(root), NEW kv \in Binding
  PROVE  /\ Sss(root, kv) \in Closures
         /\ Sorted(Sss(root, kv))
         /\ \E j \in 1..Len(Sss(root, kv)) : Sss(root, kv)[j] = kv
         /\ \A j \in 1..Len(Sss(root, kv)) :
              \/ Sss(root, kv)[j] = kv
              \/ \E i \in 1..Len(root) : Sss(root, kv)[j] = root[i]
         /\ \A i \in 1..Len(root) : root[i].sym # kv.sym =>
              \E j \in 1..Len(Sss(root, kv)) : Sss(root, kv)[j] = root[i]
<1> DEFINE stop == {i \in DOMAIN root : root[i].sym >= kv.sym}
           m == Min(stop)
           u == Sss(root, kv)
           n == Len(root)
<1>1. /\ DOMAIN root = 1..n /\ n \in Nat /\ root \in Seq(Binding)
      /\ \A i \in 1..n : root[i] \in Binding /\ root[i].sym \in Nat
  BY ListFacts
<1>2. kv.sym \in Nat
  BY ScopeAssumption DEF Binding
<1>3. \A i, j \in 1..n : i < j => root[i].sym < root[j].sym
  BY <1>1 DEF Sorted
<1>4. CASE stop = {}
  <2>1. u = Append(root, kv)
    BY <1>4 DEF Sss
  <2>2. /\ u \in Seq(Binding) /\ Len(u) = n + 1
        /\ \A j \in 1..n : u[j] = root[j]
        /\ u[n + 1] = kv
    BY <2>1, <1>1, AppendProperties
  <2>3. \A i \in 1..n : root[i].sym < kv.sym
    BY <1>1, <1>2, <1>4
  <2>. HIDE DEF u, stop, m, n
  <2>4. u \in Closures /\ DOMAIN u = 1..(n + 1)
    BY <2>2, <1>1, LenProperties DEF Closures, Binding
  <2>5. Sorted(u)
    <3>1. ASSUME NEW i \in 1..(n + 1), NEW j \in 1..(n + 1), i < j
          PROVE  u[i].sym < u[j].sym
      <4>1. i \in 1..n /\ (j \in 1..n \/ j = n + 1)
        BY <3>1, <1>1
      <4>. QED  BY <4>1, <3>1, <2>2, <2>3, <1>3
    <3>. QED  BY <3>1, <2>4 DEF Sorted
  <2>6. n + 1 \in 1..Len(u) /\ \A j \in 1..Len(u) : j = n + 1 \/ j \in 1..n
    BY <2>2, <1>1
  <2>7. \A j \in 1..n : j \in 1..Len(u)
    BY <2>2, <1>1
  <2>. QED  BY <2>2, <2>4, <2>5, <2>6, <2>7 DEF u, n
<1>5. ASSUME stop # {}
      PROVE  /\ m \in 1..n /\ root[m].sym >= kv.sym
             /\ \A i \in 1..n : i < m => root[i].sym < kv.sym
  <2>1. stop \in SUBSET Nat
    BY <1>1
  <2>2. m \in stop /\ \A i \in stop : m <= i
    BY <2>1, <1>5, MinOf
  <2>3. m \in 1..n /\ root[m].sym >= kv.sym
    BY <2>2, <1>1
  <2>4. ASSUME NEW i \in 1..n, i < m  PROVE root[i].sym < kv.sym
    <3>1. i \notin stop
      <4>. HIDE DEF stop, m
      <4>1. m \in Nat /\ i \in Nat
        BY <2>1, <2>2, <1>1
      <4>. QED  BY <4>1, <2>2, <2>4
    <3>. HIDE DEF m
    <3>. QED  BY <3>1, <1>1, <1>2
  <2>. QED  BY <2>3, <2>4
<1>6. CASE stop # {} /\ root[m].sym = kv.sym
  <2>1. u = [root EXCEPT ![m] = kv]
    BY <1>6 DEF Sss
  <2>2. m \in 1..n /\ \A i \in 1..n : i < m => root[i].sym < kv.sym
    BY <1>5, <1>6
  <2>. HIDE DEF stop, m, n
  <2>3. /\ u \in Seq(Binding) /\ Len(u) = n
        /\ \A j \in 1..n : u[j] = IF j = m THEN kv ELSE root[j]
    BY <2>1, <2>2, <1>1, ExceptSeq DEF n
  <2>. HIDE DEF u
  <2>4. u \in Closures /\ DOMAIN u = 1..n
    BY <2>3, LenProperties DEF Closures, Binding
  <2>5. \A j \in 1..n : u[j].sym = root[j].sym
    BY <2>3, <1>6
  <2>6. Sorted(u)
    BY <2>4, <2>5, <1>3 DEF Sorted
  <2>7. \A i \in 1..n : root[i].sym # kv.sym => u[i] = root[i]
    BY <2>3, <1>6
  <2>. QED  BY <2>2, <2>3, <2>4, <2>6, <2>7 DEF u, n
<1>7. CASE stop # {} /\ root[m].sym # kv.sym
  <2>1. u = InsertAt(root, m, kv)
    BY <1>7 DEF Sss
  <2>2. /\ m \in 1..n /\ root[m].sym >= kv.sym
        /\ \A i \in 1..n : i < m => root[i].sym < kv.sym
    BY <1>5, <1>7
  <2>. HIDE DEF stop, m, n
  <2>3. /\ u \in Seq(Binding) /\ Len(u) = n + 1
        /\ \A j \in 1..(n + 1) : u[j] = IF j < m THEN root[j]
                                        ELSE IF j = m THEN kv ELSE root[j - 1]
    <3>1. m \in 1..Len(root)
      BY <2>2 DEF n
    <3>2. /\ InsertAt(root, m, kv) \in Seq(Binding) /\ Len(InsertAt(root, m, kv)) = n + 1
          /\ \A j \in 1..(n + 1) : InsertAt(root, m, kv)[j] =
                IF j < m THEN root[j] ELSE IF j = m THEN kv ELSE root[j - 1]
      <4>1. root \in Seq(Binding)
        BY <1>1 DEF Closures, Binding
      <4>2. /\ InsertAt(root, m, kv) \in Seq(Binding)
            /\ Len(InsertAt(root, m, kv)) = Len(root) + 1
            /\ \A j \in 1..(Len(root) + 1) : InsertAt(root, m, kv)[j] =
                  IF j < m THEN root[j] ELSE IF j = m THEN kv ELSE root[j - 1]
        BY <3>1, <4>1, InsertFacts
      <4>. QED  BY <4>2 DEF n
    <3>. HIDE DEF u
    <3>. QED  BY <2>1, <3>2
  <2>. HIDE DEF u
  <2>4. u \in Closures /\ DOMAIN u = 1..(n + 1)
    BY <2>3, LenProperties DEF Closures, Binding
  <2>5. \A i \in 1..n : i >= m => kv.sym < root[i].sym
    BY <2>2, <1>1, <1>2, <1>3, <1>7
  <2>6. ASSUME NEW j \in 1..(n + 1)
        PROVE  \/ j \in 1..n /\ j < m /\ u[j] = root[j]
               \/ j = m /\ u[j] = kv
               \/ j - 1 \in 1..n /\ j > m /\ u[j] = root[j - 1]
    <3>1. CASE j < m
      BY <3>1, <2>2, <2>3, <1>1
    <3>2. CASE j = m
      BY <3>2, <2>2, <2>3, <1>1
    <3>3. CASE j > m
      BY <3>3, <2>2, <2>3, <1>1
    <3>. QED  BY <3>1, <3>2, <3>3, <2>2, <1>1
  <2>7. Sorted(u)
    <3>1. ASSUME NEW i \in 1..(n + 1), NEW j \in 1..(n + 1), i < j
          PROVE  u[i].sym < u[j].sym
      <4>1. CASE i \in 1..n /\ i < m /\ u[i] = root[i]
        <5>1. CASE j \in 1..n /\ j < m /\ u[j] = root[j]
          BY <4>1, <5>1, <3>1, <1>3
        <5>2. CASE j = m /\ u[j] = kv
          BY <4>1, <5>2, <2>2
        <5>3. CASE j - 1 \in 1..n /\ j > m /\ u[j] = root[j - 1]
          BY <4>1, <5>3, <2>2, <1>1, <1>3
        <5>. QED  BY <5>1, <5>2, <5>3, <2>6
      <4>2. CASE i = m /\ u[i] = kv
        <5>1. j - 1 \in 1..n /\ u[j] = root[j - 1] /\ j - 1 >= m
          BY <4>2, <3>1, <2>2, <2>6
        <5>. QED  BY <4>2, <5>1, <2>5
      <4>3. CASE i - 1 \in 1..n /\ i > m /\ u[i] = root[i - 1]
        <5>1. j - 1 \in 1..n /\ u[j] = root[j - 1] /\ i - 1 < j - 1
          BY <4>3, <3>1, <2>2, <2>6
        <5>. QED  BY <4>3, <5>1, <1>3
      <4>. QED  BY <4>1, <4>2, <4>3, <2>6
    <3>. QED  BY <3>1, <2>4 DEF Sorted
  <2>8. m \in 1..Len(u) /\ u[m] = kv
    <3>1. m \in 1..(n + 1)
      BY <2>2, <1>1
    <3>. QED  BY <3>1, <2>3, <2>2
  <2>9. \A j \in 1..Len(u) : u[j] = kv \/ \E i \in 1..n : u[j] = root[i]
    BY <2>3, <2>6
  <2>10. ASSUME NEW i \in 1..n  PROVE \E j \in 1..Len(u) : u[j] = root[i]
    <3>1. CASE i < m
      <4>1. i \in 1..(n + 1) /\ u[i] = root[i]
        BY <3>1, <2>3, <1>1
      <4>. QED  BY <4>1, <2>3
    <3>2. CASE i >= m
      <4>1. i + 1 \in 1..(n + 1) /\ ~(i + 1 < m) /\ i + 1 # m /\ (i + 1) - 1 = i
        BY <3>2, <2>2, <1>1
      <4>2. u[i + 1] = root[i]
        BY <4>1, <2>3
      <4>. QED  BY <4>1, <4>2, <2>3
    <3>. QED  BY <3>1, <3>2, <2>2
  <2>. QED  BY <2>4, <2>7, <2>8, <2>9, <2>10 DEF u, n
<1>. QED  BY <1>4, <1>6, <1>7

LEMMA SssFacts ==
  ASSUME NEW root \in Closures, Sorted(root), NEW kv \in Binding
  PROVE  /\ Sss(root, kv) \in Closures
         /\ Sorted(Sss(root, kv))
         /\ \A s \in Symbols : Assoc(Sss(root, kv), s) =
                                 IF s = kv.sym THEN kv.kvp ELSE Assoc(root, s)
<1> DEFINE u == Sss(root, kv)
<1>1. /\ u \in Closures /\ Sorted(u)
      /\ \E j \in 1..Len(u) : u[j] = kv
      /\ \A j \in 1..Len(u) : u[j] = kv \/ \E i \in 1..Len(root) : u[j] = root[i]
      /\ \A i \in 1..Len(root) : root[i].sym # kv.sym => \E j \in 1..Len(u) : u[j] = root[i]
  BY SssElements
<1>. HIDE DEF u
<1>2. ASSUME NEW s \in Symbols
      PROVE  Assoc(u, s) = IF s = kv.sym THEN kv.kvp ELSE Assoc(root, s)
  <2>1. CASE s = kv.sym
    <3>1. PICK j \in 1..Len(u) : u[j] = kv
      BY <1>1
    <3>. QED  BY <3>1, <2>1, <1>1, AssocSorted
  <2>2. CASE s # kv.sym /\ \E i \in 1..Len(root) : root[i].sym = s
    <3>1. PICK i \in 1..Len(root) : root[i].sym = s
      BY <2>2
    <3>2. PICK j \in 1..Len(u) : u[j] = root[i]
      BY <3>1, <2>2, <1>1
    <3>3. Assoc(root, s) = root[i].kvp
      BY <3>1, AssocSorted
    <3>4. Assoc(u, s) = u[j].kvp
      BY <3>1, <3>2, <1>1, AssocSorted
    <3>. QED  BY <3>2, <3>3, <3>4, <2>2
  <2>3. CASE s # kv.sym /\ \A i \in 1..Len(root) : root[i].sym # s
    <3>1. \A j \in 1..Len(u) : u[j].sym # s
      BY <2>3, <1>1
    <3>. QED  BY <3>1, <2>3, <1>1, AssocNone
  <2>. QED  BY <2>1, <2>2, <2>3
<1>. QED  BY <1>1, <1>2 DEF u

\* lisp_merge puts one element after the other.
MergeStep(g, root, alst, i) == IF i = 0 THEN root ELSE Sss(g[i - 1], alst[i])

Merging(g, root, alst) ==
  g = [i \in 0..Len(alst) |-> MergeStep(g, root, alst, i)]

LEMMA MergeEnds ==
  ASSUME NEW root, NEW alst, Len(alst) \in Nat
  PROVE  \E g : Merging(g, root, alst)
<1> DEFINE Part(g, n) == g = [i \in 0..n |-> MergeStep(g, root, alst, i)]
           T == {n \in Nat : ~\E g : Part(g, n)}
<1>1. ASSUME T # {}  PROVE FALSE
  <2>1. PICK n \in T : \A j \in T : ~(<<j, n>> \in OpToRel(<, Nat))
    BY <1>1, NatLessThanWellFounded, WFMin
  <2>2. n \in Nat /\ ~(\E g : Part(g, n))
    OBVIOUS
  <2>3. n # 0
    <3> DEFINE g == [i \in 0..0 |-> root]
    <3>1. Part(g, 0)
      BY DEF MergeStep
    <3>. HIDE DEF Part, g
    <3>. QED  BY <3>1, <2>2
  <2>4. n - 1 \notin T
    <3>1. n - 1 \in Nat /\ n - 1 < n
      BY <2>2, <2>3
    <3>2. <<n - 1, n>> \in OpToRel(<, Nat)
      BY <3>1, <2>2 DEF OpToRel
    <3>. HIDE DEF T
    <3>. QED  BY <3>2, <2>1
  <2>5. n - 1 \in Nat
    BY <2>2, <2>3
  <2>6. PICK g : Part(g, n - 1)
    BY <2>4, <2>5
  <2> DEFINE h == [i \in 0..n |-> IF i = n THEN Sss(g[n - 1], alst[n]) ELSE g[i]]
  <2>7. ASSUME NEW i \in 0..n  PROVE h[i] = MergeStep(h, root, alst, i)
    <3>1. CASE i = n
      <4>1. n - 1 \in 0..n /\ n - 1 # n
        BY <2>2, <2>3
      <4>. QED  BY <4>1, <3>1, <2>3 DEF MergeStep
    <3>2. CASE i # n
      <4>1. i \in 0..(n - 1) /\ h[i] = g[i]
        BY <3>2, <2>2
      <4>2. g[i] = MergeStep(g, root, alst, i)
        BY <4>1, <2>6
      <4>3. i # 0 => i - 1 \in 0..n /\ i - 1 # n
        BY <4>1, <2>2
      <4>. QED  BY <4>1, <4>2, <4>3 DEF MergeStep
    <3>. QED  BY <3>1, <3>2
  <2>8. h = [i \in 0..n |-> h[i]]
    OBVIOUS
  <2>. HIDE DEF h
  <2>9. h = [i \in 0..n |-> MergeStep(h, root, alst, i)]
    BY <2>7, <2>8
  <2>. QED  BY <2>2, <2>9
<1>2. \E g : Part(g, Len(alst))
  BY <1>1
<1>. QED  BY <1>2 DEF Merging

LEMMA MergeIs ==
  ASSUME NEW root, NEW alst, Len(alst) \in Nat
  PROVE  \E g : /\ Merge(root, alst) = g[Len(alst)]
                /\ \A i \in 0..Len(alst) : g[i] = MergeStep(g, root, alst, i)
<1> DEFINE g == CHOOSE f : Merging(f, root, alst)
<1>1. Merging(g, root, alst)
  BY MergeEnds
<1>2. Merge(root, alst) = g[Len(alst)]
  BY DEF Merge, Merging, MergeStep
<1>. HIDE DEF g
<1>3. \A i \in 0..Len(alst) : g[i] = MergeStep(g, root, alst, i)
  BY <1>1 DEF Merging
<1>. QED  BY <1>2, <1>3

\* The matches in the first n elements.
Among(alst, n, s) == {i \in 1..n : alst[i].sym = s}

MergedTo(c, root, alst, n) ==
  /\ c \in Closures /\ Sorted(c)
  /\ \A s \in Symbols : Assoc(c, s) = IF Among(alst, n, s) = {} THEN Assoc(root, s)
                                      ELSE alst[Max(Among(alst, n, s))].kvp

LEMMA MergeMore ==
  ASSUME NEW root \in Closures, NEW alst \in Closures, NEW n \in 1..Len(alst),
         NEW c, MergedTo(c, root, alst, n - 1)
  PROVE  MergedTo(Sss(c, alst[n]), root, alst, n)
<1>1. n \in Nat /\ n - 1 \in Nat /\ alst[n] \in Binding
  BY ListFacts
<1> DEFINE u == Sss(c, alst[n])
<1>2. /\ u \in Closures /\ Sorted(u)
      /\ \A s \in Symbols : Assoc(u, s) = IF s = alst[n].sym THEN alst[n].kvp ELSE Assoc(c, s)
  BY <1>1, SssFacts DEF MergedTo
<1>. HIDE DEF u
<1>3. ASSUME NEW s \in Symbols
      PROVE  Assoc(u, s) = IF Among(alst, n, s) = {} THEN Assoc(root, s)
                           ELSE alst[Max(Among(alst, n, s))].kvp
  <2>1. CASE s = alst[n].sym
    <3>1. n \in Among(alst, n, s) /\ Among(alst, n, s) \in SUBSET (1..n)
      BY <2>1, <1>1 DEF Among
    <3>2. /\ Max(Among(alst, n, s)) \in Among(alst, n, s)
          /\ \A i \in Among(alst, n, s) : Max(Among(alst, n, s)) >= i
      BY <3>1, <1>1, MaxOf
    <3> DEFINE m == Max(Among(alst, n, s))
    <3>3. m \in 1..n /\ m >= n
      BY <3>1, <3>2
    <3>. HIDE DEF m
    <3>4. m = n
      BY <3>3, <1>1
    <3>. QED  BY <3>1, <3>4, <2>1, <1>2 DEF m
  <2>2. CASE s # alst[n].sym
    <3>1. Among(alst, n, s) = Among(alst, n - 1, s)
      <4>1. \A i \in 1..n : i = n \/ i \in 1..(n - 1)
        BY <1>1
      <4>2. \A i \in 1..(n - 1) : i \in 1..n
        BY <1>1
      <4>. QED  BY <4>1, <4>2, <2>2 DEF Among
    <3>. QED  BY <3>1, <2>2, <1>2 DEF MergedTo
  <2>. QED  BY <2>1, <2>2
<1>. QED  BY <1>2, <1>3 DEF MergedTo, u

LEMMA MergeAll ==
  ASSUME NEW root \in Closures, Sorted(root), NEW alst \in Closures
  PROVE  MergedTo(Merge(root, alst), root, alst, Len(alst))
<1>1. Len(alst) \in Nat
  BY ListFacts
<1>2. PICK g : /\ Merge(root, alst) = g[Len(alst)]
               /\ \A i \in 0..Len(alst) : g[i] = MergeStep(g, root, alst, i)
  BY <1>1, MergeIs
<1> DEFINE T == {n \in Nat : n <= Len(alst) /\ ~MergedTo(g[n], root, alst, n)}
<1>3. ASSUME T # {}  PROVE FALSE
  <2>1. PICK n \in T : \A j \in T : ~(<<j, n>> \in OpToRel(<, Nat))
    BY <1>3, NatLessThanWellFounded, WFMin
  <2>2. n \in Nat /\ n <= Len(alst) /\ ~MergedTo(g[n], root, alst, n)
    OBVIOUS
  <2>3. n # 0
    <3>1. g[0] = root
      BY <1>1, <1>2 DEF MergeStep
    <3>2. \A s : Among(alst, 0, s) = {}
      BY DEF Among
    <3>3. MergedTo(g[0], root, alst, 0)
      BY <3>1, <3>2 DEF MergedTo
    <3>. QED  BY <3>3, <2>2
  <2>4. n \in 1..Len(alst) /\ n - 1 \in Nat /\ n - 1 <= Len(alst) /\ n \in 0..Len(alst)
    BY <2>2, <2>3, <1>1
  <2>5. <<n - 1, n>> \in OpToRel(<, Nat)
    BY <2>2, <2>4 DEF OpToRel
  <2>6. n - 1 \notin T
    <3>. HIDE DEF T
    <3>. QED  BY <2>1, <2>5
  <2>7. MergedTo(g[n - 1], root, alst, n - 1)
    BY <2>4, <2>6
  <2>8. g[n] = Sss(g[n - 1], alst[n])
    BY <2>3, <2>4, <1>2 DEF MergeStep
  <2>. QED  BY <2>2, <2>4, <2>7, <2>8, MergeMore
<1>4. MergedTo(g[Len(alst)], root, alst, Len(alst))
  BY <1>1, <1>3
<1>. QED  BY <1>2, <1>4

\* What a list means: nothing for a symbol that it does not have, otherwise one
\* of its pairs.
LEMMA MeaningIs ==
  ASSUME NEW alst \in Closures, NEW s \in Symbols
  PROVE  /\ Matches(alst, s) = Among(alst, Len(alst), s)
         /\ Matches(alst, s) = {} => Meaning(alst)[s] = None
         /\ Matches(alst, s) # {} =>
              /\ Max(Matches(alst, s)) \in Matches(alst, s)
              /\ \A i \in Matches(alst, s) : Max(Matches(alst, s)) >= i
              /\ Meaning(alst)[s] = alst[Max(Matches(alst, s))].kvp
              /\ Meaning(alst)[s] # None
         /\ Meaning(alst)[s] \in Pairs \cup {None}
<1>1. /\ DOMAIN alst = 1..Len(alst) /\ Len(alst) \in Nat
      /\ \A i \in 1..Len(alst) : alst[i].kvp \in Pairs /\ alst[i].kvp # None
  BY ListFacts
<1>2. Matches(alst, s) = Among(alst, Len(alst), s)
  BY <1>1 DEF Matches, Among
<1>3. Matches(alst, s) \in SUBSET (1..Len(alst))
  BY <1>2 DEF Among
<1>4. Matches(alst, s) # {} => /\ Max(Matches(alst, s)) \in Matches(alst, s)
                               /\ \A i \in Matches(alst, s) : Max(Matches(alst, s)) >= i
  BY <1>1, <1>3, MaxOf
<1>5. /\ Matches(alst, s) = {} => Meaning(alst)[s] = None
      /\ Matches(alst, s) # {} => Meaning(alst)[s] = alst[Max(Matches(alst, s))].kvp
  BY DEF Meaning
<1>. QED  BY <1>1, <1>2, <1>3, <1>4, <1>5

\* A closure stays sorted when a list is merged into it, and has the bindings of
\* the list before its own.
LEMMA MergeFacts ==
  ASSUME NEW root \in Closures, Sorted(root), NEW alst \in Closures
  PROVE  /\ Merge(root, alst) \in Closures
         /\ Sorted(Merge(root, alst))
         /\ \A s \in Symbols : Assoc(Merge(root, alst), s) =
              IF Meaning(alst)[s] # None THEN Meaning(alst)[s] ELSE Assoc(root, s)
<1>1. MergedTo(Merge(root, alst), root, alst, Len(alst))
  BY MergeAll
<1>. QED  BY <1>1, MeaningIs DEF MergedTo

-----------------------------------------------------------------------------
\* The types, and what is inductive about the closures: the closure of every
\* activation is sorted, since a closure is only ever the empty list with lists
\* merged into it.
Values == Data \cup Functions_

GoodFrames == {f \in Frames : /\ Sorted(f.closure)
                              /\ f.do = "args" => f.fn \in Functions_}

ScopeInv ==
    /\ cdr \in [Pairs -> Values]
    /\ globals \in [Symbols -> Pairs \cup {None}]
    /\ top \in GoodFrames
    /\ below \in Seq(GoodFrames) /\ Len(below) <= MaxDepth
    /\ value \in Values \cup {None}
    /\ name \in [Atoms -> Symbols]
    /\ cache \in [Atoms -> Pairs \cup {None}]

LEMMA EmptyClosure == << >> \in Closures /\ Sorted(<< >>)
BY DEF Closures, Sorted

LEMMA GoodFrame ==
  ASSUME NEW do \in {"body", "let", "args"}, NEW closure \in Closures, Sorted(closure),
         NEW fn \in Functions_ \cup {None}, do = "args" => fn \in Functions_
  PROVE  Frame(do, closure, fn) \in GoodFrames
BY EmptyClosure DEF Frame, GoodFrames, Frames

LEMMA FrameFacts ==
  ASSUME NEW f \in GoodFrames
  PROVE  /\ f.closure \in Closures /\ Sorted(f.closure) /\ f.acc \in Closures
         /\ f.do \in {"body", "let", "args"} /\ f.fn \in Functions_ \cup {None}
         /\ f.do = "args" => f.fn \in Functions_
BY DEF GoodFrames, Frames

LEMMA FunctionFacts ==
  ASSUME NEW f \in Functions_
  PROVE  f.args \in Seq(Symbols) /\ f.closure \in Closures /\ f.given \in Nat
BY DEF Functions_

LEMMA NewFunction ==
  ASSUME NEW args \in Seq(Symbols), NEW closure \in Closures, NEW given \in Nat
  PROVE  Function(args, closure, given) \in Functions_
BY DEF Function, Functions_

LEMMA ClosureFacts ==
  ASSUME top \in GoodFrames
  PROVE  /\ Closure \in Closures /\ Sorted(Closure)
         /\ top.do # "let" => Closure = top.closure
BY FrameFacts, MergeFacts DEF Closure

LEMMA AssocType ==
  ASSUME NEW c \in Closures, Sorted(c), NEW s
  PROVE  Assoc(c, s) \in Pairs \cup {None}
<1>1. CASE \E i \in 1..Len(c) : c[i].sym = s
  BY <1>1, AssocSorted, ListFacts
<1>2. CASE \A i \in 1..Len(c) : c[i].sym # s
  BY <1>2, AssocNone
<1>. QED  BY <1>1, <1>2

\* Steps that only compute a value, or fill a cache.
LEMMA ValueTypes ==
  ASSUME ScopeInv, UNCHANGED <<cdr, globals, top, below>>,
         value' \in Values \cup {None},
         name' \in [Atoms -> Symbols],
         cache' \in [Atoms -> Pairs \cup {None}]
  PROVE  ScopeInv'
BY DEF ScopeInv

LEMMA ReadTypes ==
  ASSUME ScopeInv, NEW a \in Atoms,
         \/ LookupClosure(a) \/ LookupCached(a) \/ LookupGlobal(a) \/ LookupUnbound(a)
         \/ \E s \in Symbols : NewAtom(a, s)
  PROVE  ScopeInv'
<1>1. \A b \in Pairs : cdr[b] \in Values
  BY DEF ScopeInv
<1>2. UNCHANGED <<cdr, globals, top, below>>
  BY DEF LookupClosure, LookupCached, LookupGlobal, LookupUnbound, NewAtom, stack
<1>3. value' \in Values \cup {None}
  <2>1. ASSUME LookupClosure(a)  PROVE value' \in Values
    <3>1. Assoc(Closure, name[a]) \in Pairs
      BY <2>1, ClosureFacts, AssocType DEF LookupClosure, ScopeInv
    <3>. QED  BY <3>1, <2>1, <1>1 DEF LookupClosure
  <2>2. ASSUME LookupCached(a)  PROVE value' \in Values
    BY <2>2, <1>1 DEF LookupCached, ScopeInv
  <2>3. ASSUME LookupGlobal(a)  PROVE value' \in Values
    <3>1. globals[name[a]] \in Pairs
      BY <2>3 DEF LookupGlobal, ScopeInv
    <3>. QED  BY <3>1, <2>3, <1>1 DEF LookupGlobal
  <2>4. ASSUME LookupUnbound(a)  PROVE value' \in Values
    BY <2>4, ScopeAssumption DEF LookupUnbound, Values
  <2>5. ASSUME NEW s \in Symbols, NewAtom(a, s)  PROVE value' \in Values \cup {None}
    BY <2>5 DEF NewAtom, ScopeInv
  <2>. QED  BY <2>1, <2>2, <2>3, <2>4, <2>5
<1>4. name' \in [Atoms -> Symbols]
  BY DEF LookupClosure, LookupCached, LookupGlobal, LookupUnbound, NewAtom, ScopeInv
<1>5. cache' \in [Atoms -> Pairs \cup {None}]
  <2>1. ASSUME LookupGlobal(a)  PROVE cache' \in [Atoms -> Pairs \cup {None}]
    BY <2>1 DEF LookupGlobal, ScopeInv
  <2>2. ASSUME \/ LookupClosure(a) \/ LookupCached(a) \/ LookupUnbound(a)
               \/ \E s \in Symbols : NewAtom(a, s)
        PROVE  cache' \in [Atoms -> Pairs \cup {None}]
    BY <2>2 DEF LookupClosure, LookupCached, LookupUnbound, NewAtom, ScopeInv
  <2>. QED  BY <2>1, <2>2
<1>. QED  BY <1>2, <1>3, <1>4, <1>5, ValueTypes

LEMMA PlainTypes ==
  ASSUME ScopeInv, Literal \/ Lambda \/ Refuse \/ Discard
  PROVE  ScopeInv'
<1>1. UNCHANGED <<cdr, globals, top, below, name, cache>>
  BY DEF Literal, Lambda, Refuse, Discard, stack
<1>2. value' \in Values \cup {None}
  <2>1. ASSUME Lambda  PROVE value' \in Values
    <3>1. PICK p \in Params : value' = Function(p, Closure, 0)
      BY <2>1 DEF Lambda
    <3>2. p \in Seq(Symbols) /\ Closure \in Closures
      BY ScopeAssumption, ClosureFacts DEF ScopeInv
    <3>. QED  BY <3>1, <3>2, NewFunction DEF Values
  <2>2. ASSUME Literal \/ Refuse \/ Discard  PROVE value' \in Values \cup {None}
    BY <2>2, ScopeAssumption DEF Literal, Refuse, Discard, Values
  <2>. QED  BY <2>1, <2>2
<1>3. name' \in [Atoms -> Symbols] /\ cache' \in [Atoms -> Pairs \cup {None}]
  BY <1>1 DEF ScopeInv
<1>. QED  BY <1>1, <1>2, <1>3, ValueTypes

LEMMA SetGlobalTypes ==
  ASSUME ScopeInv, NEW s \in Symbols, NEW v \in Values, SetGlobal(s, v)
  PROVE  /\ cdr' \in [Pairs -> Values]
         /\ globals' \in [Symbols -> Pairs \cup {None}]
<1>1. cdr \in [Pairs -> Values] /\ globals \in [Symbols -> Pairs \cup {None}]
  BY DEF ScopeInv
<1>2. CASE globals[s] # None
  BY <1>1, <1>2 DEF SetGlobal
<1>3. CASE globals[s] = None
  <2>1. PICK b \in Fresh : /\ cdr' = [cdr EXCEPT ![b] = v]
                           /\ globals' = [globals EXCEPT ![s] = b]
    BY <1>3 DEF SetGlobal
  <2>2. b \in Pairs
    BY DEF Fresh
  <2>. QED  BY <1>1, <2>1, <2>2
<1>. QED  BY <1>2, <1>3

LEMMA UpdateTypes ==
  ASSUME ScopeInv, NEW s \in Symbols,
         Setq(s) \/ Def(s) \/ UpdateClosure(s) \/ UpdateGlobal(s) \/ UpdateUnbound(s)
  PROVE  ScopeInv'
<1>1. /\ cdr \in [Pairs -> Values] /\ globals \in [Symbols -> Pairs \cup {None}]
      /\ value \in Values \cup {None} /\ top \in GoodFrames
  BY DEF ScopeInv
<1>2. UNCHANGED <<top, below, name, cache>>
  BY DEF Setq, Def, UpdateClosure, UpdateGlobal, UpdateUnbound, stack
<1>3. ASSUME Setq(s)
      PROVE  /\ cdr' \in [Pairs -> Values] /\ globals' \in [Symbols -> Pairs \cup {None}]
             /\ value' \in Values \cup {None}
  <2>1. value \in Values /\ SetGlobal(s, value) /\ value' = value
    BY <1>1, <1>3 DEF Setq
  <2>. QED  BY <2>1, SetGlobalTypes
<1>4. ASSUME Def(s)
      PROVE  /\ cdr' \in [Pairs -> Values] /\ globals' \in [Symbols -> Pairs \cup {None}]
             /\ value' \in Values \cup {None}
  <2>1. PICK p \in Params : SetGlobal(s, Function(p, << >>, 0))
    BY <1>4 DEF Def
  <2>2. p \in Seq(Symbols)
    BY ScopeAssumption
  <2>3. Function(p, << >>, 0) \in Values
    BY <2>2, EmptyClosure, NewFunction DEF Values
  <2>4. value' \in Values
    BY <1>4 DEF Def, Values
  <2>. QED  BY <2>1, <2>3, <2>4, SetGlobalTypes
<1>5. ASSUME UpdateClosure(s)
      PROVE  /\ cdr' \in [Pairs -> Values] /\ globals' \in [Symbols -> Pairs \cup {None}]
             /\ value' \in Values \cup {None}
  <2>1. Assoc(Closure, s) \in Pairs
    BY <1>1, <1>5, ClosureFacts, AssocType DEF UpdateClosure
  <2>. QED  BY <2>1, <1>1, <1>5 DEF UpdateClosure, Idle
<1>6. ASSUME UpdateGlobal(s)
      PROVE  /\ cdr' \in [Pairs -> Values] /\ globals' \in [Symbols -> Pairs \cup {None}]
             /\ value' \in Values \cup {None}
  BY <1>1, <1>6 DEF UpdateGlobal, Idle, Values
<1>7. ASSUME UpdateUnbound(s)
      PROVE  /\ cdr' \in [Pairs -> Values] /\ globals' \in [Symbols -> Pairs \cup {None}]
             /\ value' \in Values \cup {None}
  BY <1>1, <1>7, ScopeAssumption DEF UpdateUnbound, Values
<1>8. /\ cdr' \in [Pairs -> Values] /\ globals' \in [Symbols -> Pairs \cup {None}]
      /\ value' \in Values \cup {None}
  BY <1>3, <1>4, <1>5, <1>6, <1>7
<1>. QED  BY <1>2, <1>8 DEF ScopeInv

\* Steps that change the innermost activation.
LEMMA TopTypes ==
  ASSUME ScopeInv, UNCHANGED <<globals, below, name, cache>>,
         cdr' \in [Pairs -> Values], value' \in Values \cup {None}, top' \in GoodFrames
  PROVE  ScopeInv'
BY DEF ScopeInv

LEMMA BindTypes ==
  ASSUME ScopeInv, NEW s \in Symbols, NEW b \in Pairs
  PROVE  Bind(s, b) \in Closures
<1>1. top.acc \in Seq(Binding)
  BY FrameFacts DEF ScopeInv, Closures, Binding
<1>2. <<[sym |-> s, kvp |-> b]>> \in Seq(Binding)
  BY DEF Binding
<1>. QED  BY <1>1, <1>2, ConcatProperties DEF Bind, Closures, Binding

LEMMA LetBindTypes ==
  ASSUME ScopeInv, NEW s \in Symbols, LetBind(s)
  PROVE  ScopeInv'
<1>1. PICK b \in Fresh : /\ cdr' = [cdr EXCEPT ![b] = value]
                         /\ top' = [top EXCEPT !.acc = Bind(s, b)]
  BY DEF LetBind, Replace
<1>2. b \in Pairs /\ value \in Values
  BY DEF Fresh, LetBind, Idle, ScopeInv
<1>3. top \in GoodFrames /\ cdr \in [Pairs -> Values]
  BY DEF ScopeInv
<1>4. Bind(s, b) \in Closures
  BY <1>2, BindTypes
<1>5. top' \in GoodFrames
  BY <1>1, <1>3, <1>4 DEF GoodFrames, Frames
<1>6. cdr' \in [Pairs -> Values]
  BY <1>1, <1>2, <1>3
<1>7. UNCHANGED <<globals, below, name, cache>> /\ value' = None
  BY DEF LetBind, Replace
<1>. QED  BY <1>5, <1>6, <1>7, TopTypes

LEMMA ArgBindTypes ==
  ASSUME ScopeInv, ArgBind
  PROVE  ScopeInv'
<1>1. PICK b \in Fresh : /\ cdr' = [cdr EXCEPT ![b] = value]
                         /\ top' = [top EXCEPT !.acc = Bind(Head(top.fn.args), b),
                                               !.fn.args = Tail(@)]
  BY DEF ArgBind, Replace
<1>2. b \in Pairs /\ value \in Values /\ top.do = "args" /\ top.fn.args # << >>
  BY DEF Fresh, ArgBind, Idle, ScopeInv
<1>3. top \in GoodFrames /\ cdr \in [Pairs -> Values]
  BY DEF ScopeInv
<1>4. top.fn \in Functions_ /\ top.fn.args \in Seq(Symbols)
  BY <1>2, <1>3, FrameFacts, FunctionFacts
<1>5. Head(top.fn.args) \in Symbols /\ Tail(top.fn.args) \in Seq(Symbols)
  BY <1>2, <1>4, HeadTailProperties
<1>6. Bind(Head(top.fn.args), b) \in Closures
  BY <1>2, <1>5, BindTypes
<1>7. [top.fn EXCEPT !.args = Tail(top.fn.args)] \in Functions_
  BY <1>4, <1>5 DEF Functions_
<1>8. top' = [top EXCEPT !.acc = Bind(Head(top.fn.args), b),
                         !.fn = [top.fn EXCEPT !.args = Tail(top.fn.args)]]
  BY <1>1, <1>3 DEF GoodFrames, Frames
<1>9. top' \in GoodFrames
  BY <1>3, <1>6, <1>7, <1>8 DEF GoodFrames, Frames
<1>10. cdr' \in [Pairs -> Values]
  BY <1>1, <1>2, <1>3
<1>11. UNCHANGED <<globals, below, name, cache>> /\ value' = None
  BY DEF ArgBind, Replace
<1>. QED  BY <1>9, <1>10, <1>11, TopTypes

LEMMA BodyClosureTypes ==
  ASSUME NEW f \in GoodFrames, f.fn \in Functions_
  PROVE  BodyClosure(f) \in Closures /\ Sorted(BodyClosure(f))
BY FrameFacts, FunctionFacts, MergeFacts DEF BodyClosure

LEMMA BodyTypes ==
  ASSUME ScopeInv, LetBody \/ Enter
  PROVE  ScopeInv'
<1>1. top \in GoodFrames
  BY DEF ScopeInv
<1>2. ASSUME LetBody  PROVE top' \in GoodFrames
  <2>1. top' = Frame("body", Merge(top.closure, top.acc), None)
    BY <1>2 DEF LetBody, Replace
  <2>2. /\ Merge(top.closure, top.acc) \in Closures
        /\ Sorted(Merge(top.closure, top.acc))
    BY <1>1, FrameFacts, MergeFacts
  <2>. QED  BY <2>1, <2>2, GoodFrame
<1>3. ASSUME Enter  PROVE top' \in GoodFrames
  <2>1. top' = Frame("body", BodyClosure(top), None) /\ top.do = "args"
    BY <1>3 DEF Enter, Replace
  <2>2. BodyClosure(top) \in Closures /\ Sorted(BodyClosure(top))
    BY <1>1, <2>1, FrameFacts, BodyClosureTypes
  <2>. QED  BY <2>1, <2>2, GoodFrame
<1>4. UNCHANGED <<cdr, globals, below, value, name, cache>>
  BY DEF LetBody, Enter, Replace
<1>5. cdr' \in [Pairs -> Values] /\ value' \in Values \cup {None}
  BY <1>4 DEF ScopeInv
<1>. QED  BY <1>2, <1>3, <1>4, <1>5, TopTypes

\* Steps that begin or end an activation.
LEMMA BeginTypes ==
  ASSUME ScopeInv, Let \/ Call
  PROVE  ScopeInv'
<1>1. top \in GoodFrames /\ below \in Seq(GoodFrames) /\ Closure \in Closures /\ Sorted(Closure)
  BY ClosureFacts DEF ScopeInv
<1>2. PICK f \in GoodFrames : Begin(f)
  <2>1. ASSUME Let  PROVE \E f \in GoodFrames : Begin(f)
    BY <2>1, <1>1, GoodFrame DEF Let
  <2>2. ASSUME Call  PROVE \E f \in GoodFrames : Begin(f)
    <3>1. value \in Functions_
      BY <2>2 DEF Call, Callee, ScopeInv, Values
    <3>. QED  BY <2>2, <3>1, <1>1, GoodFrame DEF Call
  <2>. QED  BY <2>1, <2>2
<1>3. /\ top' = f /\ below' = Append(below, top) /\ Len(below) < MaxDepth /\ value' = None
      /\ UNCHANGED <<cdr, globals, name, cache>>
  BY <1>2 DEF Begin, Push
<1>4. below' \in Seq(GoodFrames) /\ Len(below') = Len(below) + 1 /\ Len(below) \in Nat
  BY <1>1, <1>3, AppendFacts
<1>5. Len(below') <= MaxDepth
  BY <1>3, <1>4, ScopeAssumption
<1>. QED  BY <1>2, <1>3, <1>4, <1>5 DEF ScopeInv

LEMMA PopTypes ==
  ASSUME ScopeInv, Pop
  PROVE  top' \in GoodFrames /\ below' \in Seq(GoodFrames) /\ Len(below') <= MaxDepth
<1>1. below \in Seq(GoodFrames) /\ below # << >> /\ top' = Last(below) /\ below' = Front(below)
  BY DEF ScopeInv, Pop
<1>2. /\ Front(below) \in Seq(GoodFrames) /\ Last(below) \in GoodFrames
      /\ Len(below) \in Nat \ {0} /\ Len(Front(below)) = Len(below) - 1
  BY <1>1, FrontLast
<1>3. Len(below) <= MaxDepth
  BY DEF ScopeInv
<1>. QED  BY <1>1, <1>2, <1>3, ScopeAssumption

LEMMA CurryValue ==
  ASSUME ScopeInv, Curry
  PROVE  value' \in Functions_
<1>1. /\ top \in GoodFrames /\ top.do = "args"
      /\ value' = Function(top.fn.args, top.acc \o top.fn.closure, Len(top.acc) + top.fn.given)
  BY DEF Curry, ScopeInv
<1>2. top.fn \in Functions_ /\ top.acc \in Closures
  BY <1>1, FrameFacts
<1>3. /\ top.fn.args \in Seq(Symbols) /\ top.fn.closure \in Closures
      /\ top.fn.given \in Nat /\ Len(top.acc) \in Nat
  BY <1>2, FunctionFacts, ListFacts
<1>4. top.acc \o top.fn.closure \in Closures
  BY <1>2, <1>3, ConcatProperties DEF Closures
<1>. QED  BY <1>1, <1>3, <1>4, NewFunction

LEMMA EndTypes ==
  ASSUME ScopeInv, Curry \/ Return
  PROVE  ScopeInv'
<1>1. Pop /\ UNCHANGED <<cdr, globals, name, cache>>
  BY DEF Curry, Return
<1>2. value' \in Values \cup {None}
  BY CurryValue, ScopeAssumption DEF Return, Values, ScopeInv
<1>3. top' \in GoodFrames /\ below' \in Seq(GoodFrames) /\ Len(below') <= MaxDepth
  BY <1>1, PopTypes
<1>. QED  BY <1>1, <1>2, <1>3 DEF ScopeInv

LEMMA InitScope == Init => ScopeInv
<1>. SUFFICES ASSUME Init  PROVE ScopeInv
  OBVIOUS
<1>1. top \in GoodFrames
  BY EmptyClosure, GoodFrame DEF Init
<1>2. below \in Seq(GoodFrames) /\ Len(below) <= MaxDepth
  BY ScopeAssumption DEF Init
<1>3. cdr \in [Pairs -> Values]
  BY ScopeAssumption DEF Init, Values
<1>. QED  BY <1>1, <1>2, <1>3 DEF Init, ScopeInv

LEMMA NextScope == ScopeInv /\ [Next]_vars => ScopeInv'
<1>. SUFFICES ASSUME ScopeInv, [Next]_vars  PROVE ScopeInv'
  OBVIOUS
<1>1. CASE UNCHANGED vars
  BY <1>1 DEF vars, stack, ScopeInv
<1>2. CASE Literal \/ Lambda \/ Refuse \/ Discard
  BY <1>2, PlainTypes
<1>3. CASE \E a \in Atoms : \/ \E s \in Symbols : NewAtom(a, s)
                            \/ LookupClosure(a) \/ LookupCached(a)
                            \/ LookupGlobal(a) \/ LookupUnbound(a)
  BY <1>3, ReadTypes
<1>4. CASE \E s \in Symbols : \/ Setq(s) \/ Def(s)
                              \/ UpdateClosure(s) \/ UpdateGlobal(s) \/ UpdateUnbound(s)
                              \/ LetBind(s)
  BY <1>4, UpdateTypes, LetBindTypes
<1>5. CASE Let \/ Call
  BY <1>5, BeginTypes
<1>6. CASE LetBody \/ Enter
  BY <1>6, BodyTypes
<1>7. CASE ArgBind
  BY <1>7, ArgBindTypes
<1>8. CASE Curry \/ Return
  BY <1>8, EndTypes
<1>. QED  BY <1>1, <1>2, <1>3, <1>4, <1>5, <1>6, <1>7, <1>8 DEF Next

LEMMA ScopeTypes == ScopeInv => TypeOK
<1>. SUFFICES ASSUME ScopeInv  PROVE TypeOK
  OBVIOUS
<1>1. /\ below \in Seq(GoodFrames) /\ DOMAIN below = 1..Len(below)
      /\ \A i \in 1..Len(below) : below[i] \in GoodFrames
  BY LenProperties, ElementOfSeq DEF ScopeInv
<1>2. GoodFrames \subseteq Frames
  BY DEF GoodFrames
<1>3. below \in Seq(Frames)
  BY <1>1, <1>2, SeqMonotonic
<1>4. top \in Frames
  BY <1>2 DEF ScopeInv
<1>. QED  BY <1>3, <1>4 DEF ScopeInv, TypeOK, IsValue, Values

\* The types, for any symbols, bindings, values and depth.
THEOREM ScopeTyped == Spec => []TypeOK
BY InitScope, NextScope, ScopeTypes, PTL DEF Spec

-----------------------------------------------------------------------------
\* What a call binds.  The arguments are merged last, and of several ones for
\* the same parameter one remains.
LEMMA BodyArguments ==
  ASSUME NEW f \in GoodFrames, f.fn \in Functions_, NEW i \in DOMAIN f.acc
  PROVE  Assoc(BodyClosure(f), f.acc[i].sym) \in
           {f.acc[j].kvp : j \in Matches(f.acc, f.acc[i].sym)}
<1> DEFINE s == f.acc[i].sym
<1>1. f.acc \in Closures /\ s \in Symbols
  BY FrameFacts, ListFacts
<1>2. i \in Matches(f.acc, s)
  BY DEF Matches
<1>3. /\ Max(Matches(f.acc, s)) \in Matches(f.acc, s)
      /\ Meaning(f.acc)[s] = f.acc[Max(Matches(f.acc, s))].kvp
      /\ Meaning(f.acc)[s] # None
  BY <1>1, <1>2, MeaningIs
<1>4. /\ Merge(f.closure, f.fn.closure) \in Closures
      /\ Sorted(Merge(f.closure, f.fn.closure))
  BY FrameFacts, FunctionFacts, MergeFacts
<1>5. Assoc(BodyClosure(f), s) = Meaning(f.acc)[s]
  BY <1>1, <1>3, <1>4, MergeFacts DEF BodyClosure
<1>. QED  BY <1>3, <1>5

\* A body sees the arguments of the call that completed them, whatever the
\* caller and the definition call by the same names (eval.c:164).
THEOREM ArgumentsWin == Spec => LastArgumentsWin
<1>1. ScopeInv /\ [Next]_vars =>
        [Enter => \A i \in DOMAIN top.acc :
           Assoc(top'.closure, top.acc[i].sym) \in
             {top.acc[j].kvp : j \in Matches(top.acc, top.acc[i].sym)}]_vars
  <2>. SUFFICES ASSUME ScopeInv, Enter, NEW i \in DOMAIN top.acc
                PROVE  Assoc(top'.closure, top.acc[i].sym) \in
                         {top.acc[j].kvp : j \in Matches(top.acc, top.acc[i].sym)}
    OBVIOUS
  <2>1. top \in GoodFrames /\ top.fn \in Functions_
    BY FrameFacts DEF ScopeInv, Enter
  <2>2. top'.closure = BodyClosure(top)
    BY DEF Enter, Replace, Frame
  <2>. QED  BY <2>1, <2>2, BodyArguments
<1>. QED  BY InitScope, NextScope, <1>1, PTL DEF Spec, LastArgumentsWin

-----------------------------------------------------------------------------
\* The meaning of a list, by the last element with the symbol.
LEMMA MeaningAt ==
  ASSUME NEW alst \in Closures, NEW m \in 1..Len(alst),
         \A i \in 1..Len(alst) : i > m => alst[i].sym # alst[m].sym
  PROVE  Meaning(alst)[alst[m].sym] = alst[m].kvp
<1> DEFINE s == alst[m].sym
           M == Matches(alst, s)
<1>1. DOMAIN alst = 1..Len(alst) /\ Len(alst) \in Nat /\ s \in Symbols
  BY ListFacts
<1>2. m \in M /\ M \in SUBSET (1..Len(alst)) /\ \A i \in M : alst[i].sym = s
  BY <1>1 DEF Matches
<1>3. Max(M) \in M /\ Max(M) >= m /\ Meaning(alst)[s] = alst[Max(M)].kvp
  BY <1>1, <1>2, MeaningIs
<1>4. Max(M) = m
  <2>1. Max(M) \in 1..Len(alst) /\ alst[Max(M)].sym = s
    BY <1>2, <1>3
  <2>. HIDE DEF M
  <2>. QED  BY <2>1, <1>3, <1>1
<1>. QED  BY <1>3, <1>4

LEMMA MeaningSome ==
  ASSUME NEW alst \in Closures, NEW s \in Symbols
  PROVE  \/ /\ Meaning(alst)[s] = None
            /\ \A i \in 1..Len(alst) : alst[i].sym # s
         \/ \E m \in 1..Len(alst) :
              /\ alst[m].sym = s /\ Meaning(alst)[s] = alst[m].kvp
              /\ \A i \in 1..Len(alst) : i > m => alst[i].sym # s
              /\ Meaning(alst)[s] \in Pairs /\ Meaning(alst)[s] # None
<1> DEFINE M == Matches(alst, s)
           m == Max(M)
<1>1. DOMAIN alst = 1..Len(alst) /\ Len(alst) \in Nat
  BY ListFacts
<1>2. M = {i \in 1..Len(alst) : alst[i].sym = s}
  BY <1>1 DEF Matches
<1>3. CASE M = {}
  BY <1>2, <1>3, MeaningIs
<1>4. CASE M # {}
  <2>1. m \in M /\ \A i \in M : m >= i
    BY <1>4, MeaningIs
  <2>2. Meaning(alst)[s] = alst[m].kvp /\ Meaning(alst)[s] # None
    BY <1>4, MeaningIs
  <2>3. Meaning(alst)[s] \in Pairs
    BY <2>2, MeaningIs
  <2>. HIDE DEF m
  <2>4. m \in 1..Len(alst) /\ alst[m].sym = s
    BY <2>1, <1>2
  <2>5. \A i \in 1..Len(alst) : i > m => alst[i].sym # s
    <3>1. \A i \in 1..Len(alst) : alst[i].sym = s => m >= i
      BY <2>1, <1>2
    <3>. QED  BY <3>1, <2>4
  <2>. QED  BY <2>2, <2>3, <2>4, <2>5
<1>. QED  BY <1>3, <1>4

LEMMA MeaningNone ==
  ASSUME NEW alst \in Closures, NEW s \in Symbols, \A i \in 1..Len(alst) : alst[i].sym # s
  PROVE  Meaning(alst)[s] = None
BY MeaningSome

LEMMA MeaningType ==
  ASSUME NEW alst \in Closures
  PROVE  Meaning(alst) \in [Symbols -> Pairs \cup {None}]
<1>1. \A s \in Symbols : Meaning(alst)[s] \in Pairs \cup {None}
  BY MeaningIs
<1>. QED  BY <1>1 DEF Meaning

\* In a sorted list lisp_lookup finds what the list means.
LEMMA MeaningSorted ==
  ASSUME NEW c \in Closures, Sorted(c), NEW s \in Symbols
  PROVE  Meaning(c)[s] = Assoc(c, s)
<1>1. CASE Meaning(c)[s] = None /\ \A i \in 1..Len(c) : c[i].sym # s
  BY <1>1, AssocNone
<1>2. CASE \E m \in 1..Len(c) : c[m].sym = s /\ Meaning(c)[s] = c[m].kvp
  BY <1>2, AssocSorted
<1>. QED  BY <1>1, <1>2, MeaningSome

\* A merge is the extension of an environment by another one.
LEMMA MeaningMerge ==
  ASSUME NEW root \in Closures, Sorted(root), NEW alst \in Closures
  PROVE  Meaning(Merge(root, alst)) = Env!Over(Meaning(root), Meaning(alst))
<1> DEFINE c == Merge(root, alst)
<1>1. /\ c \in Closures /\ Sorted(c)
      /\ \A s \in Symbols : Assoc(c, s) =
           IF Meaning(alst)[s] # None THEN Meaning(alst)[s] ELSE Assoc(root, s)
  BY MergeFacts
<1>. HIDE DEF c
<1>2. \A s \in Symbols : Meaning(c)[s] =
        IF Meaning(alst)[s] # None THEN Meaning(alst)[s] ELSE Meaning(root)[s]
  BY <1>1, MeaningSorted
<1>3. Meaning(c) = [s \in Symbols |-> Meaning(c)[s]]
  BY DEF Meaning
<1>. QED  BY <1>2, <1>3 DEF Env!Over, c

\* Of two lists one after the other the second one hides the first one.
LEMMA MeaningJoin ==
  ASSUME NEW a \in Closures, NEW b \in Closures
  PROVE  a \o b \in Closures /\ Meaning(a \o b) = Env!Over(Meaning(a), Meaning(b))
<1> DEFINE c == a \o b
           k == Len(a)
           n == Len(b)
<1>1. a \in Seq(Binding) /\ b \in Seq(Binding) /\ k \in Nat /\ n \in Nat
  BY ListFacts
<1>2. /\ c \in Seq(Binding) /\ Len(c) = k + n
      /\ \A i \in 1..(k + n) : c[i] = IF i <= k THEN a[i] ELSE b[i - k]
  BY <1>1, ConcatProperties
<1>3. c \in Closures
  BY <1>2 DEF Closures, Binding
<1>. HIDE DEF c, k, n
<1>4. \A i \in 1..k : i \in 1..Len(c) /\ c[i] = a[i]
  BY <1>1, <1>2
<1>5. \A i \in 1..n : k + i \in 1..Len(c) /\ c[k + i] = b[i]
  <2>1. ASSUME NEW i \in 1..n  PROVE k + i \in 1..(k + n) /\ ~(k + i <= k) /\ (k + i) - k = i
    BY <1>1
  <2>. QED  BY <2>1, <1>2
<1>6. \A i \in 1..Len(c) : i \in 1..k \/ \E j \in 1..n : i = k + j
  <2>1. ASSUME NEW i \in 1..Len(c), i \notin 1..k  PROVE i - k \in 1..n /\ i = k + (i - k)
    BY <2>1, <1>1, <1>2
  <2>. QED  BY <2>1
<1>7. ASSUME NEW s \in Symbols
      PROVE  Meaning(c)[s] = IF Meaning(b)[s] # None THEN Meaning(b)[s] ELSE Meaning(a)[s]
  <2>1. ASSUME NEW m \in 1..n, b[m].sym = s, Meaning(b)[s] = b[m].kvp, Meaning(b)[s] # None,
               \A i \in 1..n : i > m => b[i].sym # s
        PROVE  Meaning(c)[s] = Meaning(b)[s]
    <3>1. k + m \in 1..Len(c) /\ c[k + m] = b[m]
      BY <1>5
    <3>2. ASSUME NEW i \in 1..Len(c), i > k + m  PROVE c[i].sym # s
      <4>1. PICK j \in 1..n : i = k + j
        BY <3>2, <1>1, <1>6
      <4>2. j > m
        BY <4>1, <3>2, <1>1
      <4>. QED  BY <4>1, <4>2, <2>1, <1>5
    <3>. QED  BY <3>1, <3>2, <2>1, <1>3, MeaningAt
  <2>2. ASSUME Meaning(b)[s] = None, \A i \in 1..n : b[i].sym # s,
               NEW m \in 1..k, a[m].sym = s, Meaning(a)[s] = a[m].kvp,
               \A i \in 1..k : i > m => a[i].sym # s
        PROVE  Meaning(c)[s] = Meaning(a)[s]
    <3>1. m \in 1..Len(c) /\ c[m] = a[m]
      BY <1>4
    <3>2. ASSUME NEW i \in 1..Len(c), i > m  PROVE c[i].sym # s
      <4>1. CASE i \in 1..k
        BY <4>1, <3>2, <2>2, <1>4
      <4>2. CASE \E j \in 1..n : i = k + j
        BY <4>2, <2>2, <1>5
      <4>. QED  BY <4>1, <4>2, <1>6
    <3>. QED  BY <3>1, <3>2, <2>2, <1>3, MeaningAt
  <2>3. ASSUME Meaning(b)[s] = None, \A i \in 1..n : b[i].sym # s,
               Meaning(a)[s] = None, \A i \in 1..k : a[i].sym # s
        PROVE  Meaning(c)[s] = Meaning(a)[s]
    <3>1. \A i \in 1..Len(c) : c[i].sym # s
      BY <2>3, <1>4, <1>5, <1>6
    <3>. QED  BY <3>1, <2>3, <1>3, MeaningNone
  <2>4. \/ Meaning(b)[s] = None /\ \A i \in 1..n : b[i].sym # s
        \/ \E m \in 1..n : /\ b[m].sym = s /\ Meaning(b)[s] = b[m].kvp
                           /\ \A i \in 1..n : i > m => b[i].sym # s
                           /\ Meaning(b)[s] # None
    BY MeaningSome DEF n
  <2>5. \/ Meaning(a)[s] = None /\ \A i \in 1..k : a[i].sym # s
        \/ \E m \in 1..k : /\ a[m].sym = s /\ Meaning(a)[s] = a[m].kvp
                           /\ \A i \in 1..k : i > m => a[i].sym # s
    BY MeaningSome DEF k
  <2>6. CASE Meaning(b)[s] = None /\ \A i \in 1..n : b[i].sym # s
    BY <2>2, <2>3, <2>5, <2>6
  <2>7. CASE \E m \in 1..n : /\ b[m].sym = s /\ Meaning(b)[s] = b[m].kvp
                             /\ \A i \in 1..n : i > m => b[i].sym # s
                             /\ Meaning(b)[s] # None
    BY <2>1, <2>7
  <2>. QED  BY <2>4, <2>6, <2>7
<1>8. Meaning(c) = [s \in Symbols |-> Meaning(c)[s]]
  BY DEF Meaning
<1>. QED  BY <1>3, <1>7, <1>8 DEF Env!Over, c

LEMMA MeaningBind ==
  ASSUME NEW acc \in Closures, NEW s \in Symbols, NEW b \in Pairs
  PROVE  /\ <<[sym |-> s, kvp |-> b]>> \o acc \in Closures
         /\ Meaning(<<[sym |-> s, kvp |-> b]>> \o acc) =
              [Meaning(acc) EXCEPT ![s] = IF @ = None THEN b ELSE @]
<1> DEFINE e == <<[sym |-> s, kvp |-> b]>>
<1>1. e \in Closures /\ Len(e) = 1 /\ e[1].sym = s /\ e[1].kvp = b
  BY DEF Closures
<1>2. e \o acc \in Closures /\ Meaning(e \o acc) = Env!Over(Meaning(e), Meaning(acc))
  BY <1>1, MeaningJoin
<1>. HIDE DEF e
<1>3. Meaning(e)[s] = b
  <2>1. 1 \in 1..Len(e) /\ \A i \in 1..Len(e) : ~(i > 1)
    BY <1>1
  <2>. QED  BY <1>1, <2>1, MeaningAt
<1>4. ASSUME NEW r \in Symbols, r # s  PROVE Meaning(e)[r] = None
  <2>1. \A i \in 1..Len(e) : e[i].sym # r
    BY <1>1, <1>4
  <2>. QED  BY <1>1, <2>1, MeaningNone
<1>5. Meaning(acc) \in [Symbols -> Pairs \cup {None}]
  BY MeaningType
<1>6. Env!Over(Meaning(e), Meaning(acc)) =
        [Meaning(acc) EXCEPT ![s] = IF @ = None THEN b ELSE @]
  BY <1>3, <1>4, <1>5 DEF Env!Over
<1>. QED  BY <1>2, <1>6 DEF e

-----------------------------------------------------------------------------
\* Bindings are found where functional environments have them.  First, what
\* the state of Scope means.
LEMMA DataMeans ==
  ASSUME NEW d \in Data \cup {None}
  PROVE  MeaningOf(d) = d /\ ~Callee(d) /\ ~Env!Callee(d)
BY DEF MeaningOf, Callee, Env!Callee

LEMMA FunctionMeans ==
  ASSUME NEW f \in Functions_
  PROVE  /\ Callee(f) /\ MeaningOf(f) = Env!Function(f.args, Meaning(f.closure))
         /\ Env!Callee(MeaningOf(f))
         /\ MeaningOf(f) # None /\ MeaningOf(f) # Nil
<1>1. f \notin Data \cup {None}
  BY FunctionsAreNotData
<1>2. MeaningOf(f) = [args |-> f.args, env |-> Meaning(f.closure)]
  BY <1>1 DEF MeaningOf, Callee
<1>3. f.args \in Seq(Symbols) /\ Meaning(f.closure) \in [Symbols -> Pairs \cup {None}]
  BY FunctionFacts, MeaningType
<1>4. MeaningOf(f) \in [args : Seq(Symbols), env : [Symbols -> Pairs \cup {None}]]
  BY <1>2, <1>3
<1>5. MeaningOf(f) \notin Data \cup {None}
  BY <1>4, FunctionsAreNotData
<1>. QED  BY <1>1, <1>2, <1>5, ScopeAssumption DEF Callee, Env!Callee, Env!Function

LEMMA NewMeans ==
  ASSUME NEW args \in Seq(Symbols), NEW closure \in Closures, NEW given \in Nat
  PROVE  MeaningOf(Function(args, closure, given)) = Env!Function(args, Meaning(closure))
<1> DEFINE f == Function(args, closure, given)
<1>1. f \in Functions_ /\ f.args = args /\ f.closure = closure
  BY NewFunction DEF Function
<1>. HIDE DEF f
<1>2. MeaningOf(f) = Env!Function(f.args, Meaning(f.closure))
  BY <1>1, FunctionMeans
<1>. QED  BY <1>1, <1>2 DEF f

LEMMA ValueMeans ==
  ASSUME NEW v \in Values \cup {None}
  PROVE  /\ MeaningOf(v) = None <=> v = None
         /\ MeaningOf(v) = Nil <=> v = Nil
         /\ Env!Callee(MeaningOf(v)) <=> Callee(v)
<1>1. CASE v \in Data \cup {None}
  BY <1>1, DataMeans
<1>2. CASE v \in Functions_
  BY <1>2, FunctionMeans, FunctionsAreNotData, ScopeAssumption
<1>. QED  BY <1>1, <1>2 DEF Values

LEMMA ScopeMeans ==
  ASSUME top \in GoodFrames
  PROVE  /\ Env!Scope = Meaning(Closure)
         /\ \A s \in Symbols : Meaning(Closure)[s] = Assoc(Closure, s)
<1>1. /\ top.closure \in Closures /\ Sorted(top.closure) /\ top.acc \in Closures
      /\ Closure \in Closures /\ Sorted(Closure)
  BY FrameFacts, ClosureFacts
<1>2. Env!Scope = Meaning(Closure)
  BY <1>1, MeaningMerge DEF Env!Scope, Closure
<1>. QED  BY <1>1, <1>2, MeaningSorted

\* An environment reaches nothing that the list does not reach, since a merge
\* and a sort only drop bindings: a cell that is released is unbound.
LEMMA InMeans ==
  ASSUME NEW c \in Closures
  PROVE  Env!In(Meaning(c)) \subseteq In(c)
<1>1. ASSUME NEW s \in Symbols, Meaning(c)[s] # None
      PROVE  Meaning(c)[s] \in In(c)
  <2>1. PICK m \in 1..Len(c) : Meaning(c)[s] = c[m].kvp
    BY <1>1, MeaningSome
  <2>. QED  BY <2>1, ListFacts DEF In
<1>. QED  BY <1>1 DEF Env!In

LEMMA RefsMeans ==
  ASSUME NEW v \in Values \cup {None}
  PROVE  Env!Refs(MeaningOf(v)) \subseteq Refs(v)
<1>1. CASE v \in Data \cup {None}
  BY <1>1, DataMeans DEF Env!Refs
<1>2. CASE v \in Functions_
  <2>1. Callee(v) /\ MeaningOf(v) = [args |-> v.args, env |-> Meaning(v.closure)]
    BY <1>2, FunctionMeans DEF Env!Function
  <2>2. Env!Refs(MeaningOf(v)) \subseteq Env!In(Meaning(v.closure))
    BY <2>1 DEF Env!Refs
  <2>3. Env!In(Meaning(v.closure)) \subseteq In(v.closure)
    BY <1>2, FunctionFacts, InMeans
  <2>. QED  BY <2>1, <2>2, <2>3 DEF Refs
<1>. QED  BY <1>1, <1>2 DEF Values

LEMMA FrameRefsMeans ==
  ASSUME NEW f \in GoodFrames
  PROVE  Env!FrameRefs(FrameMeaning(f)) \subseteq FrameRefs(f)
<1>1. /\ f.closure \in Closures /\ f.acc \in Closures /\ f.fn \in Values \cup {None}
  BY FrameFacts DEF Values
<1>2. /\ Env!In(Meaning(f.closure)) \subseteq In(f.closure)
      /\ Env!In(Meaning(f.acc)) \subseteq In(f.acc)
      /\ Env!Refs(MeaningOf(f.fn)) \subseteq Refs(f.fn)
  BY <1>1, InMeans, RefsMeans
<1>3. /\ FrameMeaning(f).env = Meaning(f.closure)
      /\ FrameMeaning(f).acc = Meaning(f.acc)
      /\ FrameMeaning(f).fn = MeaningOf(f.fn)
  BY DEF FrameMeaning
<1>. QED  BY <1>2, <1>3 DEF Env!FrameRefs, FrameRefs

Waiting(b) == [i \in DOMAIN b |-> FrameMeaning(b[i])]

LEMMA RootsMeans ==
  ASSUME ScopeInv
  PROVE  Env!Roots \subseteq Roots
<1>1. Env!In(globals) \subseteq {globals[s] : s \in Symbols} \ {None}
  BY DEF Env!In
<1>2. Env!Refs(MeaningOf(value)) \subseteq Refs(value)
  BY RefsMeans DEF ScopeInv
<1>3. Env!Frame = FrameMeaning(top)
  BY DEF Env!Frame, FrameMeaning
<1>4. Env!FrameRefs(Env!Frame) \subseteq FrameRefs(top)
  BY <1>3, FrameRefsMeans DEF ScopeInv
<1>5. /\ DOMAIN Waiting(below) = DOMAIN below
      /\ \A i \in DOMAIN below : Waiting(below)[i] = FrameMeaning(below[i])
  BY DEF Waiting
<1>6. \A i \in DOMAIN below : below[i] \in GoodFrames
  BY LenProperties, ElementOfSeq DEF ScopeInv
<1>7. \A i \in DOMAIN below :
        Env!FrameRefs(Waiting(below)[i]) \subseteq FrameRefs(below[i])
  BY <1>5, <1>6, FrameRefsMeans
<1>8. UNION {Env!FrameRefs(Waiting(below)[i]) : i \in DOMAIN Waiting(below)}
        \subseteq UNION {FrameRefs(below[i]) : i \in DOMAIN below}
  BY <1>5, <1>7
<1>9. Env!Roots = Env!In(globals) \cup Env!Refs(MeaningOf(value)) \cup
                  Env!FrameRefs(Env!Frame) \cup
                  UNION {Env!FrameRefs(Waiting(below)[i]) : i \in DOMAIN Waiting(below)}
  BY DEF Env!Roots, Waiting
<1>. QED  BY <1>1, <1>2, <1>4, <1>8, <1>9 DEF Roots

LEMMA FreshMeans ==
  ASSUME ScopeInv
  PROVE  Fresh \subseteq Env!Fresh
<1>1. ASSUME NEW S \in SUBSET Pairs, Closed(Roots, S)
      PROVE  Env!Closed(Env!Roots, S)
  <2>1. Env!Roots \subseteq S
    BY <1>1, RootsMeans DEF Closed
  <2>2. ASSUME NEW c \in S
        PROVE  Env!Refs([b \in Pairs |-> MeaningOf(cdr[b])][c]) \subseteq S
    <3>1. [b \in Pairs |-> MeaningOf(cdr[b])][c] = MeaningOf(cdr[c]) /\ cdr[c] \in Values
      BY DEF ScopeInv
    <3>2. Env!Refs(MeaningOf(cdr[c])) \subseteq Refs(cdr[c])
      BY <3>1, RefsMeans
    <3>3. Refs(cdr[c]) \subseteq S
      BY <1>1 DEF Closed
    <3>. QED  BY <3>1, <3>2, <3>3
  <2>. QED  BY <2>1, <2>2 DEF Env!Closed
<1>2. ASSUME NEW b \in Pairs, b \in Env!Live  PROVE b \in Live
  <2>1. \A S \in SUBSET Pairs : Env!Closed(Env!Roots, S) => b \in S
    BY <1>2 DEF Env!Live
  <2>. QED  BY <2>1, <1>1 DEF Live
<1>. QED  BY <1>2 DEF Fresh, Env!Fresh

\* What is written to a binding, and the stack of what waits.
LEMMA CdrMeans ==
  ASSUME cdr \in [Pairs -> Values], NEW b \in Pairs, NEW v, NEW w, w = [cdr EXCEPT ![b] = v]
  PROVE  [p \in Pairs |-> MeaningOf(w[p])] =
           [[p \in Pairs |-> MeaningOf(cdr[p])] EXCEPT ![b] = MeaningOf(v)]
<1>1. \A p \in Pairs : w[p] = IF p = b THEN v ELSE cdr[p]
  OBVIOUS
<1>. QED  BY <1>1

FramesMeant == {FrameMeaning(f) : f \in GoodFrames}

LEMMA WaitingIs ==
  ASSUME NEW s \in Seq(GoodFrames)
  PROVE  /\ Waiting(s) \in Seq(FramesMeant) /\ Len(Waiting(s)) = Len(s) /\ Len(s) \in Nat
         /\ \A i \in 1..Len(s) : s[i] \in GoodFrames /\ Waiting(s)[i] = FrameMeaning(s[i])
<1>1. DOMAIN s = 1..Len(s) /\ Len(s) \in Nat /\ \A i \in 1..Len(s) : s[i] \in GoodFrames
  BY LenProperties, ElementOfSeq
<1>2. \A i \in 1..Len(s) : FrameMeaning(s[i]) \in FramesMeant
  BY <1>1 DEF FramesMeant
<1>3. Waiting(s) = [i \in 1..Len(s) |-> FrameMeaning(s[i])]
  BY <1>1 DEF Waiting
<1>. QED  BY <1>1, <1>2, <1>3

LEMMA WaitingAppend ==
  ASSUME NEW s \in Seq(GoodFrames), NEW f \in GoodFrames
  PROVE  Waiting(Append(s, f)) = Append(Waiting(s), FrameMeaning(f))
<1> DEFINE u == Waiting(Append(s, f))
           w == Append(Waiting(s), FrameMeaning(f))
<1>1. /\ Append(s, f) \in Seq(GoodFrames) /\ Len(Append(s, f)) = Len(s) + 1 /\ Len(s) \in Nat
      /\ \A i \in 1..Len(s) : Append(s, f)[i] = s[i]
      /\ Append(s, f)[Len(s) + 1] = f
  BY AppendFacts
<1>2. /\ u \in Seq(FramesMeant) /\ Len(u) = Len(s) + 1
      /\ \A i \in 1..(Len(s) + 1) : u[i] = FrameMeaning(Append(s, f)[i])
  BY <1>1, WaitingIs
<1>3. FrameMeaning(f) \in FramesMeant
  BY DEF FramesMeant
<1>4. /\ w \in Seq(FramesMeant) /\ Len(w) = Len(s) + 1
      /\ \A i \in 1..Len(s) : w[i] = FrameMeaning(s[i])
      /\ w[Len(s) + 1] = FrameMeaning(f)
  BY <1>3, WaitingIs, AppendFacts
<1>. HIDE DEF u, w
<1>5. \A i \in 1..(Len(s) + 1) : u[i] = w[i]
  <2>1. \A i \in 1..(Len(s) + 1) : i \in 1..Len(s) \/ i = Len(s) + 1
    BY <1>1
  <2>. QED  BY <2>1, <1>1, <1>2, <1>4
<1>6. u = w
  BY <1>2, <1>4, <1>5, SeqEqual
<1>. QED  BY <1>6 DEF u, w

LEMMA WaitingPop ==
  ASSUME NEW s \in Seq(GoodFrames), s # << >>
  PROVE  /\ Waiting(s) # << >> /\ Len(Waiting(s)) = Len(s)
         /\ Waiting(s)[Len(Waiting(s))] = FrameMeaning(Last(s))
         /\ Waiting(Front(s)) = SubSeq(Waiting(s), 1, Len(Waiting(s)) - 1)
<1> DEFINE n == Len(s)
           u == Waiting(Front(s))
           w == SubSeq(Waiting(s), 1, n - 1)
<1>1. /\ Front(s) \in Seq(GoodFrames) /\ Last(s) = s[n] /\ n \in Nat \ {0}
      /\ Len(Front(s)) = n - 1
      /\ \A i \in 1..(n - 1) : Front(s)[i] = s[i]
  BY FrontLast
<1>2. /\ Waiting(s) \in Seq(FramesMeant) /\ Len(Waiting(s)) = n
      /\ \A i \in 1..n : Waiting(s)[i] = FrameMeaning(s[i])
  BY WaitingIs
<1>3. Waiting(s) # << >> /\ Waiting(s)[n] = FrameMeaning(Last(s))
  BY <1>1, <1>2
<1>4. /\ u \in Seq(FramesMeant) /\ Len(u) = n - 1
      /\ \A i \in 1..(n - 1) : u[i] = FrameMeaning(s[i])
  BY <1>1, WaitingIs
<1>5. /\ w \in Seq(FramesMeant) /\ Len(w) = n - 1
      /\ \A i \in 1..(n - 1) : w[i] = Waiting(s)[i]
  BY <1>1, <1>2, SubSeqProperties
<1>. HIDE DEF u, w, n
<1>6. \A i \in 1..(n - 1) : u[i] = w[i]
  <2>1. \A i \in 1..(n - 1) : i \in 1..n
    BY <1>1
  <2>. QED  BY <2>1, <1>2, <1>4, <1>5
<1>7. u = w
  BY <1>4, <1>5, <1>6, SeqEqual
<1>. QED  BY <1>2, <1>3, <1>7 DEF u, w, n

-----------------------------------------------------------------------------
\* Then each action of Scope is the one of Environment with its name, or a
\* stutter.
CdrMeant == [b \in Pairs |-> MeaningOf(cdr[b])]

LEMMA IdleMeans ==
  ASSUME ScopeInv
  PROVE  /\ Env!Idle <=> Idle
         /\ MeaningOf(value) = None <=> value = None
         /\ MeaningOf(value) = Nil <=> value = Nil
         /\ Env!Callee(MeaningOf(value)) <=> Callee(value)
         /\ \A b \in Pairs : CdrMeant[b] = MeaningOf(cdr[b])
         /\ Env!Scope = Meaning(Closure)
         /\ \A s \in Symbols : Meaning(Closure)[s] = Assoc(Closure, s)
         /\ Fresh \subseteq Env!Fresh
<1>1. value \in Values \cup {None} /\ top \in GoodFrames
  BY DEF ScopeInv
<1>2. /\ MeaningOf(value) = None <=> value = None
      /\ MeaningOf(value) = Nil <=> value = Nil
      /\ Env!Callee(MeaningOf(value)) <=> Callee(value)
  BY <1>1, ValueMeans
<1>3. Env!Idle <=> Idle
  BY <1>2 DEF Env!Idle, Idle
<1>4. /\ Env!Scope = Meaning(Closure)
      /\ \A s \in Symbols : Meaning(Closure)[s] = Assoc(Closure, s)
  BY <1>1, ScopeMeans
<1>. QED  BY <1>2, <1>3, <1>4, FreshMeans DEF CdrMeant

LEMMA SameStack ==
  ASSUME UNCHANGED <<top, below>>
  PROVE  UNCHANGED Env!stack
BY DEF Env!stack

\* Expressions.
LEMMA LiteralMeans == ScopeInv /\ Literal => Env!Literal
<1>. SUFFICES ASSUME ScopeInv, Literal  PROVE Env!Literal
  OBVIOUS
<1>1. PICK d \in Data : value' = d
  BY DEF Literal
<1>2. MeaningOf(value') = d
  BY <1>1, DataMeans
<1>3. Env!Idle
  BY IdleMeans DEF Literal
<1>4. UNCHANGED <<cdr, globals, top, below>>
  BY DEF Literal, stack
<1>5. UNCHANGED Env!stack
  BY <1>4, SameStack
<1>. QED  BY <1>2, <1>3, <1>4, <1>5 DEF Env!Literal

LEMMA LambdaMeans == ScopeInv /\ Lambda => Env!Lambda
<1>. SUFFICES ASSUME ScopeInv, Lambda  PROVE Env!Lambda
  OBVIOUS
<1>1. PICK p \in Params : value' = Function(p, Closure, 0)
  BY DEF Lambda
<1>2. p \in Seq(Symbols) /\ Closure \in Closures
  BY ScopeAssumption, ClosureFacts DEF ScopeInv
<1>3. MeaningOf(value') = Env!Function(p, Meaning(Closure))
  BY <1>1, <1>2, NewMeans
<1>4. MeaningOf(value') = Env!Function(p, Env!Scope)
  BY <1>3, IdleMeans
<1>5. Env!Idle
  BY IdleMeans DEF Lambda
<1>6. UNCHANGED <<cdr, globals, top, below>>
  BY DEF Lambda, stack
<1>7. UNCHANGED Env!stack
  BY <1>6, SameStack
<1>. QED  BY <1>4, <1>5, <1>6, <1>7 DEF Env!Lambda

\* The four courses of lisp_lookup are one.
LEMMA LookupMeans ==
  ASSUME ScopeInv, CacheInv, NEW a \in Atoms,
         LookupClosure(a) \/ LookupCached(a) \/ LookupGlobal(a) \/ LookupUnbound(a)
  PROVE  Env!Lookup(name[a])
<1> DEFINE s == name[a]
           bound == IF Env!Scope[s] # None THEN Env!Scope[s] ELSE globals[s]
<1>1. /\ s \in Symbols /\ Idle /\ UNCHANGED <<cdr, globals, top, below>>
      /\ \A b \in Pairs : cdr[b] \in Values
      /\ globals[s] \in Pairs \cup {None}
  BY DEF LookupClosure, LookupCached, LookupGlobal, LookupUnbound, ScopeInv, stack
<1>2. Env!Scope[s] = Assoc(Closure, s)
  BY <1>1, IdleMeans
<1>3. Assoc(Closure, s) \in Pairs \cup {None}
  BY ClosureFacts, AssocType DEF ScopeInv
<1>4. cache[a] # None => cache[a] = globals[s]
  BY DEF CacheInv, CacheExact
<1>5. MeaningOf(value') = IF bound # None THEN CdrMeant[bound] ELSE Nil
  <2>1. CASE LookupClosure(a)
    <3>1. bound = Assoc(Closure, s) /\ bound # None /\ value' = cdr[bound]
      BY <2>1, <1>2 DEF LookupClosure
    <3>. QED  BY <3>1, <1>3, IdleMeans
  <2>2. CASE LookupCached(a) \/ LookupGlobal(a)
    <3>1. bound = globals[s] /\ bound # None /\ value' = cdr[bound]
      BY <2>2, <1>2, <1>4 DEF LookupCached, LookupGlobal
    <3>. QED  BY <3>1, <1>1, IdleMeans
  <2>3. CASE LookupUnbound(a)
    <3>1. bound = None /\ value' = Nil
      BY <2>3, <1>2 DEF LookupUnbound
    <3>. QED  BY <3>1, DataMeans, ScopeAssumption
  <2>. QED  BY <2>1, <2>2, <2>3
<1>6. Env!Idle
  BY <1>1, IdleMeans
<1>7. UNCHANGED Env!stack
  BY <1>1, SameStack
<1>. QED  BY <1>1, <1>5, <1>6, <1>7 DEF Env!Lookup, CdrMeant

\* Global bindings and updates.
LEMMA WriteMeans ==
  ASSUME ScopeInv, NEW b \in Pairs, NEW v, cdr' = [cdr EXCEPT ![b] = v]
  PROVE  CdrMeant' = [CdrMeant EXCEPT ![b] = MeaningOf(v)]
<1>1. cdr \in [Pairs -> Values]
  BY DEF ScopeInv
<1>2. [p \in Pairs |-> MeaningOf(cdr'[p])] =
        [[p \in Pairs |-> MeaningOf(cdr[p])] EXCEPT ![b] = MeaningOf(v)]
  BY <1>1, CdrMeans
<1>. QED  BY <1>2 DEF CdrMeant

LEMMA SetGlobalMeans ==
  ASSUME ScopeInv, NEW s \in Symbols, NEW v, SetGlobal(s, v)
  PROVE  Env!SetGlobal(s, MeaningOf(v))
<1>1. CASE globals[s] # None
  <2>1. globals[s] \in Pairs /\ cdr' = [cdr EXCEPT ![globals[s]] = v] /\ UNCHANGED globals
    BY <1>1 DEF SetGlobal, ScopeInv
  <2>2. CdrMeant' = [CdrMeant EXCEPT ![globals[s]] = MeaningOf(v)]
    BY <2>1, WriteMeans
  <2>. QED  BY <1>1, <2>1, <2>2 DEF Env!SetGlobal, CdrMeant
<1>2. CASE globals[s] = None
  <2>1. PICK b \in Fresh : /\ cdr' = [cdr EXCEPT ![b] = v]
                           /\ globals' = [globals EXCEPT ![s] = b]
    BY <1>2 DEF SetGlobal
  <2>2. b \in Pairs /\ b \in Env!Fresh
    BY IdleMeans DEF Fresh
  <2>3. CdrMeant' = [CdrMeant EXCEPT ![b] = MeaningOf(v)]
    BY <2>1, <2>2, WriteMeans
  <2>. QED  BY <1>2, <2>1, <2>2, <2>3 DEF Env!SetGlobal, CdrMeant
<1>. QED  BY <1>1, <1>2

LEMMA SetqMeans ==
  ASSUME ScopeInv, NEW s \in Symbols, Setq(s)
  PROVE  Env!Setq(s)
<1>1. Env!SetGlobal(s, MeaningOf(value))
  BY SetGlobalMeans DEF Setq
<1>2. MeaningOf(value) \notin {None, Nil}
  BY IdleMeans DEF Setq
<1>3. UNCHANGED <<top, below, value>>
  BY DEF Setq, stack
<1>4. UNCHANGED Env!stack
  BY <1>3, SameStack
<1>. QED  BY <1>1, <1>2, <1>3, <1>4 DEF Env!Setq

LEMMA EmptyMeans == Meaning(<< >>) = Env!Empty
<1>1. \A s \in Symbols : Meaning(<< >>)[s] = None
  <2>1. \A s : Matches(<< >>, s) = {}
    BY DEF Matches
  <2>. QED  BY <2>1 DEF Meaning
<1>. QED  BY <1>1 DEF Env!Empty, Meaning

LEMMA DefMeans ==
  ASSUME ScopeInv, NEW s \in Symbols, Def(s)
  PROVE  Env!Def(s)
<1>1. PICK p \in Params : SetGlobal(s, Function(p, << >>, 0))
  BY DEF Def
<1>2. MeaningOf(Function(p, << >>, 0)) = Env!Function(p, Env!Empty)
  BY ScopeAssumption, EmptyClosure, EmptyMeans, NewMeans
<1>3. Env!SetGlobal(s, Env!Function(p, Env!Empty))
  BY <1>1, <1>2, SetGlobalMeans
<1>4. Env!Idle
  BY IdleMeans DEF Def
<1>5. MeaningOf(value') \in Data \ {Nil}
  BY DataMeans DEF Def
<1>6. UNCHANGED Env!stack
  BY SameStack DEF Def, stack
<1>. QED  BY <1>3, <1>4, <1>5, <1>6 DEF Env!Def

LEMMA UpdateMeans ==
  ASSUME ScopeInv, NEW s \in Symbols,
         UpdateClosure(s) \/ UpdateGlobal(s) \/ UpdateUnbound(s)
  PROVE  Env!Update(s)
<1>1. /\ ~Env!Idle /\ Env!Scope[s] = Assoc(Closure, s)
      /\ Assoc(Closure, s) \in Pairs \cup {None}
      /\ globals[s] \in Pairs \cup {None}
  BY IdleMeans, ClosureFacts, AssocType
     DEF UpdateClosure, UpdateGlobal, UpdateUnbound, ScopeInv
<1>2. UNCHANGED <<globals, top, below>>
  BY DEF UpdateClosure, UpdateGlobal, UpdateUnbound, stack
<1>3. UNCHANGED Env!stack
  BY <1>2, SameStack
<1>4. CASE UpdateClosure(s)
  <2>1. /\ Env!Scope[s] \in Pairs /\ Env!Scope[s] # None
        /\ cdr' = [cdr EXCEPT ![Env!Scope[s]] = value]
        /\ value' = cdr[Env!Scope[s]]
    BY <1>1, <1>4 DEF UpdateClosure
  <2>2. /\ CdrMeant' = [CdrMeant EXCEPT ![Env!Scope[s]] = MeaningOf(value)]
        /\ MeaningOf(value') = CdrMeant[Env!Scope[s]]
    BY <2>1, WriteMeans, IdleMeans
  <2>. QED  BY <1>1, <1>2, <1>3, <2>1, <2>2 DEF Env!Update, CdrMeant
<1>5. CASE UpdateGlobal(s)
  <2>1. /\ Env!Scope[s] = None /\ globals[s] # None /\ globals[s] \in Pairs
        /\ cdr' = [cdr EXCEPT ![globals[s]] = value]
        /\ value' \in Data \ {Nil}
    BY <1>1, <1>5 DEF UpdateGlobal
  <2>2. /\ CdrMeant' = [CdrMeant EXCEPT ![globals[s]] = MeaningOf(value)]
        /\ MeaningOf(value') \in Data \ {Nil}
    BY <2>1, WriteMeans, DataMeans
  <2>. QED  BY <1>1, <1>2, <1>3, <2>1, <2>2 DEF Env!Update, CdrMeant
<1>6. CASE UpdateUnbound(s)
  <2>1. Env!Scope[s] = None /\ globals[s] = None /\ UNCHANGED cdr
    BY <1>1, <1>6 DEF UpdateUnbound
  <2>2. MeaningOf(value') = Nil
    BY <1>6, DataMeans, ScopeAssumption DEF UpdateUnbound
  <2>. QED  BY <1>1, <1>2, <1>3, <2>1, <2>2 DEF Env!Update
<1>. QED  BY <1>4, <1>5, <1>6

\* Bindings and calls.
LEMMA FrameMeans == Env!Frame = FrameMeaning(top)
BY DEF Env!Frame, FrameMeaning

LEMMA BeginMeans ==
  ASSUME ScopeInv, NEW do, NEW fn, Begin(Frame(do, Closure, fn))
  PROVE  Env!Begin(do, MeaningOf(fn))
<1>1. /\ top' = Frame(do, Closure, fn) /\ below' = Append(below, top)
      /\ Len(below) < MaxDepth /\ value' = None /\ UNCHANGED <<cdr, globals>>
  BY DEF Begin, Push
<1>2. below \in Seq(GoodFrames) /\ top \in GoodFrames
  BY DEF ScopeInv
<1>3. Len(Waiting(below)) = Len(below)
  BY <1>2, WaitingIs
<1>4. Waiting(below') = Append(Waiting(below), Env!Frame)
  BY <1>1, <1>2, WaitingAppend, FrameMeans
<1>5. /\ top'.do = do /\ Meaning(top'.closure) = Env!Scope
      /\ Meaning(top'.acc) = Env!Empty /\ MeaningOf(top'.fn) = MeaningOf(fn)
  BY <1>1, EmptyMeans, IdleMeans DEF Frame
<1>6. Env!Become(do, Env!Scope, Env!Empty, MeaningOf(fn))
  BY <1>5 DEF Env!Become
<1>7. MeaningOf(value') = None
  BY <1>1, DataMeans
<1>. QED  BY <1>1, <1>3, <1>4, <1>6, <1>7 DEF Env!Begin, Waiting

LEMMA LetMeans == ScopeInv /\ Let => Env!Let
<1>. SUFFICES ASSUME ScopeInv, Let  PROVE Env!Let
  OBVIOUS
<1>1. Env!Begin("let", MeaningOf(None))
  BY BeginMeans DEF Let
<1>2. MeaningOf(None) = None
  BY DataMeans
<1>3. Env!Idle
  BY IdleMeans DEF Let
<1>. QED  BY <1>1, <1>2, <1>3 DEF Env!Let

LEMMA CallMeans == ScopeInv /\ Call => Env!Call
BY BeginMeans, IdleMeans DEF Call, Env!Call

LEMMA RefuseMeans == ScopeInv /\ Refuse => Env!Refuse
<1>. SUFFICES ASSUME ScopeInv, Refuse  PROVE Env!Refuse
  OBVIOUS
<1>1. UNCHANGED <<cdr, globals, top, below>>
  BY DEF Refuse, stack
<1>2. UNCHANGED Env!stack
  BY <1>1, SameStack
<1>3. MeaningOf(value') = Nil
  BY DataMeans, ScopeAssumption DEF Refuse
<1>4. Env!Callee(MeaningOf(value))
  BY IdleMeans DEF Refuse
<1>. QED  BY <1>1, <1>2, <1>3, <1>4 DEF Env!Refuse

LEMMA LetBindMeans ==
  ASSUME ScopeInv, NEW s \in Symbols, LetBind(s)
  PROVE  Env!LetBind(s)
<1>1. PICK b \in Fresh : /\ cdr' = [cdr EXCEPT ![b] = value]
                         /\ top' = [top EXCEPT !.acc = Bind(s, b)]
  BY DEF LetBind, Replace
<1>2. b \in Pairs /\ b \in Env!Fresh
  BY IdleMeans DEF Fresh
<1>3. top \in Frames /\ top.acc \in Closures
  BY FrameFacts DEF ScopeInv, GoodFrames
<1>4. /\ top'.do = top.do /\ top'.closure = top.closure /\ top'.fn = top.fn
      /\ top'.acc = Bind(s, b)
  BY <1>1, <1>3 DEF Frames
<1>5. Meaning(top'.acc) = Env!Bound(s, b)
  BY <1>2, <1>3, <1>4, MeaningBind DEF Bind, Env!Bound
<1>6. CdrMeant' = [CdrMeant EXCEPT ![b] = MeaningOf(value)]
  BY <1>1, <1>2, WriteMeans
<1>7. UNCHANGED <<globals, below>> /\ value' = None /\ top.do = "let"
  BY DEF LetBind, Replace
<1>8. ~Env!Idle /\ MeaningOf(value') = None
  BY <1>7, IdleMeans, DataMeans DEF LetBind
<1>. QED  BY <1>2, <1>4, <1>5, <1>6, <1>7, <1>8 DEF Env!LetBind, CdrMeant

LEMMA LetBodyMeans == ScopeInv /\ LetBody => Env!LetBody
<1>. SUFFICES ASSUME ScopeInv, LetBody  PROVE Env!LetBody
  OBVIOUS
<1>1. top' = Frame("body", Merge(top.closure, top.acc), None) /\ top.do = "let"
  BY DEF LetBody, Replace
<1>2. Meaning(Merge(top.closure, top.acc)) = Env!Over(Meaning(top.closure), Meaning(top.acc))
  BY FrameFacts, MeaningMerge DEF ScopeInv
<1>3. /\ top'.do = "body"
      /\ Meaning(top'.closure) = Env!Over(Meaning(top.closure), Meaning(top.acc))
      /\ Meaning(top'.acc) = Env!Empty /\ MeaningOf(top'.fn) = None
  BY <1>1, <1>2, EmptyMeans, DataMeans DEF Frame
<1>4. UNCHANGED <<cdr, globals, value, below>>
  BY DEF LetBody, Replace
<1>5. Env!Idle
  BY IdleMeans DEF LetBody
<1>. QED  BY <1>1, <1>3, <1>4, <1>5 DEF Env!LetBody, Env!Become

\* The function of a call.
LEMMA CalleeMeans ==
  ASSUME ScopeInv, top.do = "args"
  PROVE  /\ top.fn \in Functions_
         /\ MeaningOf(top.fn).args = top.fn.args
         /\ MeaningOf(top.fn).env = Meaning(top.fn.closure)
<1>1. top.fn \in Functions_
  BY FrameFacts DEF ScopeInv
<1>2. MeaningOf(top.fn) = [args |-> top.fn.args, env |-> Meaning(top.fn.closure)]
  BY <1>1, FunctionMeans DEF Env!Function
<1>. QED  BY <1>1, <1>2

LEMMA ArgBindMeans == ScopeInv /\ ArgBind => Env!ArgBind
<1>. SUFFICES ASSUME ScopeInv, ArgBind  PROVE Env!ArgBind
  OBVIOUS
<1>1. PICK b \in Fresh : /\ cdr' = [cdr EXCEPT ![b] = value]
                         /\ top' = [top EXCEPT !.acc = Bind(Head(top.fn.args), b),
                                               !.fn.args = Tail(@)]
  BY DEF ArgBind, Replace
<1>2. b \in Pairs /\ b \in Env!Fresh
  BY IdleMeans DEF Fresh
<1>3. top \in Frames /\ top.acc \in Closures /\ top.do = "args" /\ top.fn.args # << >>
  BY FrameFacts DEF ScopeInv, GoodFrames, ArgBind
<1>4. /\ top.fn \in Functions_
      /\ MeaningOf(top.fn).args = top.fn.args
      /\ MeaningOf(top.fn).env = Meaning(top.fn.closure)
  BY <1>3, CalleeMeans
<1>5. /\ top.fn.args \in Seq(Symbols) /\ Head(top.fn.args) \in Symbols
      /\ Tail(top.fn.args) \in Seq(Symbols)
      /\ top.fn.closure \in Closures /\ top.fn.given \in Nat
  BY <1>3, <1>4, FunctionFacts, HeadTailProperties
<1>6. /\ top'.do = top.do /\ top'.closure = top.closure
      /\ top'.acc = Bind(Head(top.fn.args), b)
      /\ top'.fn = [top.fn EXCEPT !.args = Tail(top.fn.args)]
  BY <1>1, <1>3 DEF Frames
<1>7. top'.fn = Function(Tail(top.fn.args), top.fn.closure, top.fn.given)
  BY <1>4, <1>6 DEF Functions_, Function
<1>8. MeaningOf(top'.fn) = Env!Function(Tail(top.fn.args), Meaning(top.fn.closure))
  BY <1>5, <1>7, NewMeans
<1>9. Meaning(top'.acc) = Env!Bound(Head(top.fn.args), b)
  BY <1>2, <1>3, <1>5, <1>6, MeaningBind DEF Bind, Env!Bound
<1>10. CdrMeant' = [CdrMeant EXCEPT ![b] = MeaningOf(value)]
  BY <1>1, <1>2, WriteMeans
<1>11. UNCHANGED <<globals, below>> /\ value' = None
  BY DEF ArgBind, Replace
<1>12. ~Env!Idle /\ MeaningOf(value') = None
  BY <1>11, IdleMeans, DataMeans DEF ArgBind
<1>. QED  BY <1>2, <1>3, <1>4, <1>6, <1>8, <1>9, <1>10, <1>11, <1>12
             DEF Env!ArgBind, CdrMeant

LEMMA EnterMeans == ScopeInv /\ Enter => Env!Enter
<1>. SUFFICES ASSUME ScopeInv, Enter  PROVE Env!Enter
  OBVIOUS
<1>1. top' = Frame("body", BodyClosure(top), None) /\ top.do = "args" /\ top.fn.args = << >>
  BY DEF Enter, Replace
<1>2. /\ top.fn \in Functions_
      /\ MeaningOf(top.fn).args = << >>
      /\ MeaningOf(top.fn).env = Meaning(top.fn.closure)
  BY <1>1, CalleeMeans
<1>3. /\ top.closure \in Closures /\ Sorted(top.closure) /\ top.acc \in Closures
      /\ top.fn.closure \in Closures
  BY <1>2, FrameFacts, FunctionFacts DEF ScopeInv
<1> DEFINE c == Merge(top.closure, top.fn.closure)
<1>4. /\ c \in Closures /\ Sorted(c)
      /\ Meaning(c) = Env!Over(Meaning(top.closure), Meaning(top.fn.closure))
  BY <1>3, MergeFacts, MeaningMerge
<1>5. Meaning(BodyClosure(top)) = Env!Over(Meaning(c), Meaning(top.acc))
  BY <1>3, <1>4, MeaningMerge DEF BodyClosure
<1>6. /\ top'.do = "body" /\ Meaning(top'.closure) = Meaning(BodyClosure(top))
      /\ Meaning(top'.acc) = Env!Empty /\ MeaningOf(top'.fn) = None
  BY <1>1, EmptyMeans, DataMeans DEF Frame
<1>7. UNCHANGED <<cdr, globals, value, below>>
  BY DEF Enter, Replace
<1>8. Env!Idle
  BY IdleMeans DEF Enter
<1>. HIDE DEF c
<1>. QED  BY <1>1, <1>2, <1>4, <1>5, <1>6, <1>7, <1>8 DEF Env!Enter, Env!Become

LEMMA PopMeans == ScopeInv /\ Pop => Env!Pop
<1>. SUFFICES ASSUME ScopeInv, Pop  PROVE Env!Pop
  OBVIOUS
<1>1. below \in Seq(GoodFrames) /\ below # << >> /\ top' = Last(below) /\ below' = Front(below)
  BY DEF Pop, ScopeInv
<1>2. /\ Waiting(below) # << >>
      /\ Waiting(below)[Len(Waiting(below))] = FrameMeaning(Last(below))
      /\ Waiting(Front(below)) = SubSeq(Waiting(below), 1, Len(Waiting(below)) - 1)
  BY <1>1, WaitingPop
<1>3. /\ Waiting(below)[Len(Waiting(below))] = FrameMeaning(top')
      /\ Waiting(below') = SubSeq(Waiting(below), 1, Len(Waiting(below)) - 1)
  BY <1>1, <1>2
<1>4. /\ FrameMeaning(top').do = top'.do /\ FrameMeaning(top').env = Meaning(top'.closure)
      /\ FrameMeaning(top').acc = Meaning(top'.acc)
      /\ FrameMeaning(top').fn = MeaningOf(top'.fn)
  BY DEF FrameMeaning
<1>. QED  BY <1>2, <1>3, <1>4 DEF Env!Pop, Env!Become, Waiting

LEMMA CurryMeans == ScopeInv /\ Curry => Env!Curry
<1>. SUFFICES ASSUME ScopeInv, Curry  PROVE Env!Curry
  OBVIOUS
<1>1. /\ top.do = "args" /\ top.fn.args # << >>
      /\ value' = Function(top.fn.args, top.acc \o top.fn.closure,
                           Len(top.acc) + top.fn.given)
  BY DEF Curry
<1>2. /\ top.fn \in Functions_
      /\ MeaningOf(top.fn).args = top.fn.args
      /\ MeaningOf(top.fn).env = Meaning(top.fn.closure)
  BY <1>1, CalleeMeans
<1>3. /\ top.fn.args \in Seq(Symbols) /\ top.fn.closure \in Closures /\ top.fn.given \in Nat
      /\ top.acc \in Closures /\ Len(top.acc) \in Nat
  BY <1>2, FunctionFacts, FrameFacts, ListFacts DEF ScopeInv
<1>4. /\ top.acc \o top.fn.closure \in Closures
      /\ Meaning(top.acc \o top.fn.closure) =
           Env!Over(Meaning(top.acc), Meaning(top.fn.closure))
  BY <1>3, MeaningJoin
<1>5. Len(top.acc) + top.fn.given \in Nat
  BY <1>3
<1>6. MeaningOf(value') =
        Env!Function(top.fn.args, Env!Over(Meaning(top.acc), Meaning(top.fn.closure)))
  BY <1>1, <1>3, <1>4, <1>5, NewMeans
<1>7. Env!Pop
  BY PopMeans DEF Curry
<1>8. Env!Idle /\ UNCHANGED <<cdr, globals>>
  BY IdleMeans DEF Curry
<1>. QED  BY <1>1, <1>2, <1>6, <1>7, <1>8 DEF Env!Curry

LEMMA DiscardMeans == ScopeInv /\ Discard => Env!Discard
<1>. SUFFICES ASSUME ScopeInv, Discard  PROVE Env!Discard
  OBVIOUS
<1>1. UNCHANGED <<cdr, globals, top, below>>
  BY DEF Discard, stack
<1>2. UNCHANGED Env!stack
  BY <1>1, SameStack
<1>3. MeaningOf(value') = None
  BY DataMeans DEF Discard
<1>4. ~Env!Idle
  BY IdleMeans DEF Discard
<1>. QED  BY <1>1, <1>2, <1>3, <1>4 DEF Env!Discard

LEMMA ReturnMeans == ScopeInv /\ Return => Env!Return
<1>. SUFFICES ASSUME ScopeInv, Return  PROVE Env!Return
  OBVIOUS
<1>1. MeaningOf(value') = IF Env!Idle THEN Nil ELSE MeaningOf(value)
  BY IdleMeans, DataMeans, ScopeAssumption DEF Return
<1>2. Env!Pop
  BY PopMeans DEF Return
<1>3. top.do = "body" /\ UNCHANGED <<cdr, globals>>
  BY DEF Return
<1>. QED  BY <1>1, <1>2, <1>3 DEF Env!Return

\* A new atom, and the caches, are no part of an environment.
LEMMA SameMeaning ==
  ASSUME UNCHANGED <<cdr, globals, top, below, value>>
  PROVE  UNCHANGED Env!vars
<1>1. UNCHANGED Env!stack
  BY SameStack
<1>. QED  BY <1>1 DEF Env!vars

LEMMA InitMeans == Init => Env!Init
<1>. SUFFICES ASSUME Init  PROVE Env!Init
  OBVIOUS
<1>1. /\ cdr = [b \in Pairs |-> Nil] /\ globals = Env!Empty
      /\ top = Frame("body", << >>, None) /\ below = << >> /\ value = None
  BY DEF Init, Env!Empty
<1>2. MeaningOf(Nil) = Nil /\ MeaningOf(None) = None
  BY DataMeans, ScopeAssumption
<1>3. CdrMeant = [b \in Pairs |-> Nil]
  BY <1>1, <1>2 DEF CdrMeant
<1>4. /\ top.do = "body" /\ Meaning(top.closure) = Env!Empty
      /\ Meaning(top.acc) = Env!Empty /\ MeaningOf(top.fn) = None
  BY <1>1, <1>2, EmptyMeans DEF Frame
<1>5. Waiting(below) = << >>
  BY <1>1 DEF Waiting
<1>. QED  BY <1>1, <1>2, <1>3, <1>4, <1>5 DEF Env!Init, CdrMeant, Waiting

LEMMA NextMeans == ScopeInv /\ CacheInv /\ [Next]_vars => [Env!Next]_Env!vars
<1>. SUFFICES ASSUME ScopeInv, CacheInv, [Next]_vars
              PROVE  Env!Next \/ UNCHANGED Env!vars
  OBVIOUS
<1>1. CASE UNCHANGED vars
  <2>1. UNCHANGED <<cdr, globals, top, below, value>>
    BY <1>1 DEF vars, stack
  <2>. QED  BY <2>1, SameMeaning
<1>2. ASSUME NEW a \in Atoms, NEW s \in Symbols, NewAtom(a, s)
      PROVE  UNCHANGED Env!vars
  <2>1. UNCHANGED <<cdr, globals, top, below, value>>
    BY <1>2 DEF NewAtom, stack
  <2>. QED  BY <2>1, SameMeaning
<1>3. ASSUME NEW a \in Atoms,
             LookupClosure(a) \/ LookupCached(a) \/ LookupGlobal(a) \/ LookupUnbound(a)
      PROVE  Env!Next
  <2>1. name[a] \in Symbols
    BY DEF ScopeInv
  <2>2. Env!Lookup(name[a])
    BY <1>3, LookupMeans
  <2>. QED  BY <2>1, <2>2 DEF Env!Next
<1>4. ASSUME NEW s \in Symbols,
             \/ Setq(s) \/ Def(s)
             \/ UpdateClosure(s) \/ UpdateGlobal(s) \/ UpdateUnbound(s)
             \/ LetBind(s)
      PROVE  Env!Next
  <2>1. Env!Setq(s) \/ Env!Def(s) \/ Env!Update(s) \/ Env!LetBind(s)
    BY <1>4, SetqMeans, DefMeans, UpdateMeans, LetBindMeans
  <2>. QED  BY <2>1 DEF Env!Next
<1>5. CASE Literal \/ Lambda \/ Let \/ LetBody \/ Call \/ Refuse
  BY <1>5, LiteralMeans, LambdaMeans, LetMeans, LetBodyMeans, CallMeans, RefuseMeans
     DEF Env!Next
<1>6. CASE ArgBind \/ Enter \/ Curry \/ Discard \/ Return
  BY <1>6, ArgBindMeans, EnterMeans, CurryMeans, DiscardMeans, ReturnMeans
     DEF Env!Next
<1>. QED  BY <1>1, <1>2, <1>3, <1>4, <1>5, <1>6 DEF Next

\* A program finds the innermost binding of a symbol with the value it was last
\* given, whatever the lists, the merges and the caches of the code do.
THEOREM ScopeIsEnvironment == Spec => EnvSpec
BY InitScope, NextScope, InitCache, NextCache, InitMeans, NextMeans, PTL
   DEF Spec, EnvSpec, Env!Spec

-----------------------------------------------------------------------------
(***************************************************************************)
(* Tail calls.  First, the functions on expressions are well defined: each *)
(* looks only at expressions that are lower.                               *)
(***************************************************************************)
Leaf == {"emit", "call"}

\* What the functions make of e, where g says what they make of its
\* subexpressions.
MarkStep(g, e) ==
    CASE e.k = "call" -> [e EXCEPT !.tail = (e.symb = Own)]
      [] e.k = "emit" -> e
      [] OTHER        -> [e EXCEPT !.sub =
            [i \in DOMAIN e.sub |-> IF i \in Tails(e) THEN g[e.sub[i]] ELSE e.sub[i]]]

NoCallStep(g, e) ==
    CASE e.k = "emit" -> TRUE
      [] e.k = "call" -> FALSE
      [] OTHER        -> \A i \in DOMAIN e.sub : g[e.sub[i]]

AllTailStep(no, g, e) ==
    CASE e.k \in {"emit", "call"} -> TRUE
      [] e.k = "if"               -> g[e.sub[1]] /\ g[e.sub[2]]
      [] e.k \in Sequenced        -> /\ \A i \in 1..(Len(e.sub) - 1) : no[e.sub[i]]
                                     /\ g[e.sub[Len(e.sub)]]
      [] OTHER                    -> no[e.sub[1]]

\* The subexpressions of e.
Subs(e) == IF e.k \in Leaf THEN {} ELSE {e.sub[i] : i \in DOMAIN e.sub}

LEMMA ExprFacts ==
    ASSUME NEW e \in Exprs
    PROVE  /\ e.k \in Leaf \cup {"if", "add"} \cup Sequenced
           /\ e.k = "emit" => e = [k |-> "emit"]
           /\ e.k = "call" => e = [k |-> "call", symb |-> e.symb, tail |-> FALSE] /\ e.symb \in Names
           /\ e.k \notin Leaf =>
                /\ e = [k |-> e.k, test |-> e.test, sub |-> e.sub]
                /\ e.test \in Int /\ e.sub \in Seq(Exprs)
                /\ Len(e.sub) \in Nat \ {0} /\ DOMAIN e.sub = 1..Len(e.sub)
                /\ WellFormed(e)
                /\ \A i \in 1..Len(e.sub) :
                      e.sub[i] \in Exprs /\ Height[e.sub[i]] < Height[e]
<1>1. e \in Emits \/ e \in Calls(Names, {FALSE}) \/ e \in Forms(Exprs)
  BY TailCallAssumption
<1>2. CASE e \in Emits
  BY <1>2 DEF Emits, Leaf
<1>3. CASE e \in Calls(Names, {FALSE})
  BY <1>3 DEF Calls, Leaf
<1>4. CASE e \in Forms(Exprs)
  <2>1. /\ e.k \in {"if", "add"} \cup Sequenced /\ e.test \in Int /\ e.sub \in Seq(Exprs)
        /\ e = [k |-> e.k, test |-> e.test, sub |-> e.sub]
    BY <1>4 DEF Forms
  <2>2. e.k \notin Leaf
    BY <2>1 DEF Leaf, Sequenced
  <2>3. WellFormed(e) /\ \A i \in DOMAIN e.sub : Height[e.sub[i]] < Height[e]
    BY <2>2, TailCallAssumption DEF Leaf
  <2>4. Len(e.sub) \in Nat /\ DOMAIN e.sub = 1..Len(e.sub) /\ \A i \in 1..Len(e.sub) : e.sub[i] \in Exprs
    BY <2>1
  <2>5. Len(e.sub) # 0
    <3>1. Len(e.sub) \in Nat
      BY <2>4
    <3>2. e.k = "if" \/ e.k = "add" \/ e.k \in Sequenced
      BY <2>1
    <3>. QED  BY <3>1, <3>2, <2>3 DEF WellFormed
  <2>6. e.k # "emit" /\ e.k # "call"
    BY <2>2 DEF Leaf
  <2>7. \A i \in 1..Len(e.sub) : e.sub[i] \in Exprs /\ Height[e.sub[i]] < Height[e]
    BY <2>3, <2>4
  <2>. QED  BY <2>1, <2>3, <2>4, <2>5, <2>6, <2>7
<1>. QED  BY <1>1, <1>2, <1>3, <1>4

LEMMA SubsFacts ==
    ASSUME NEW e \in Exprs
    PROVE  /\ Subs(e) \subseteq Exprs
           /\ \A d \in Subs(e) : Height[d] < Height[e]
BY ExprFacts DEF Subs

\* A least height.
LEMMA LeastHeight ==
    ASSUME NEW T \in SUBSET Exprs, T # {}
    PROVE  \E e \in T : \A d \in T : ~(Height[d] < Height[e])
<1> DEFINE R == {Height[e] : e \in T}
<1>1. R \subseteq Nat /\ R # {}
  BY TailCallAssumption
<1>2. PICK x \in R : \A y \in R : ~(<<y, x>> \in OpToRel(<, Nat))
  BY <1>1, NatLessThanWellFounded, WFMin
<1>3. PICK e \in T : Height[e] = x
  BY <1>2
<1>4. ASSUME NEW d \in T, Height[d] < Height[e]  PROVE FALSE
  <2>1. Height[d] \in R /\ Height[d] \in Nat /\ Height[e] \in Nat
    BY TailCallAssumption
  <2>2. <<Height[d], Height[e]>> \in OpToRel(<, Nat)
    BY <2>1, <1>4 DEF OpToRel
  <2>. QED  BY <2>1, <2>2, <1>2, <1>3
<1>. QED  BY <1>4

\* The three functions at once, as far as the height n.
Step(g, e) == <<MarkStep([d \in Subs(e) |-> g[d][1]], e),
                NoCallStep([d \in Subs(e) |-> g[d][2]], e),
                AllTailStep(NoCall, [d \in Subs(e) |-> g[d][3]], e)>>
Below(n) == {e \in Exprs : Height[e] < n}
Part(g, n) == g = [e \in Below(n) |-> Step(g, e)]

LEMMA StepSame ==
    ASSUME NEW e, NEW g, NEW h, \A d \in Subs(e) : g[d] = h[d]
    PROVE  Step(g, e) = Step(h, e)
<1>1. [d \in Subs(e) |-> g[d][1]] = [d \in Subs(e) |-> h[d][1]]
  OBVIOUS
<1>2. [d \in Subs(e) |-> g[d][2]] = [d \in Subs(e) |-> h[d][2]]
  OBVIOUS
<1>3. [d \in Subs(e) |-> g[d][3]] = [d \in Subs(e) |-> h[d][3]]
  OBVIOUS
<1>. QED  BY <1>1, <1>2, <1>3 DEF Step

LEMMA PartsAgree ==
    ASSUME NEW m \in Nat, NEW n \in Nat, NEW g, NEW h, Part(g, m), Part(h, n)
    PROVE  \A e \in Below(m) \cap Below(n) : g[e] = h[e]
<1> DEFINE Bad == {e \in Below(m) \cap Below(n) : g[e] # h[e]}
<1>. SUFFICES ASSUME Bad # {}  PROVE FALSE
  OBVIOUS
<1>1. PICK e \in Bad : \A d \in Bad : ~(Height[d] < Height[e])
  <2>1. Bad \in SUBSET Exprs
    BY DEF Below
  <2>. HIDE DEF Bad
  <2>. QED  BY <2>1, LeastHeight
<1>2. ASSUME NEW d \in Subs(e)  PROVE g[d] = h[d]
  <2>1. e \in Exprs /\ Height[e] < m /\ Height[e] < n
    BY <1>1 DEF Below
  <2>2. d \in Exprs /\ Height[d] < Height[e] /\ Height[d] \in Nat /\ Height[e] \in Nat
    BY <2>1, SubsFacts, TailCallAssumption
  <2>3. d \in Below(m) \cap Below(n)
    BY <2>1, <2>2 DEF Below
  <2>. QED  BY <2>2, <2>3, <1>1
<1>3. g[e] = Step(g, e) /\ h[e] = Step(h, e)
  <2>1. e \in Below(m) /\ e \in Below(n)
    OBVIOUS
  <2>. QED  BY <2>1 DEF Part
<1>. QED  BY <1>2, <1>3, StepSame

LEMMA PartBelow ==
    ASSUME NEW n \in Nat
    PROVE  \E g : Part(g, n)
<1> DEFINE Bad == {k \in Nat : ~\E g : Part(g, k)}
<1>. SUFFICES ASSUME Bad # {}  PROVE FALSE
  OBVIOUS
<1>1. PICK k \in Bad : \A j \in Bad : ~(<<j, k>> \in OpToRel(<, Nat))
  <2>1. Bad \subseteq Nat
    OBVIOUS
  <2>. HIDE DEF Bad
  <2>. QED  BY <2>1, NatLessThanWellFounded, WFMin
<1>0. k \in Nat
  OBVIOUS
<1>2. k # 0
  <2>1. Below(0) = {}
    BY TailCallAssumption DEF Below
  <2>2. Part(<<>>, 0)
    BY <2>1 DEF Part
  <2>. QED  BY <2>2
<1>3. PICK g : Part(g, k - 1)
  <2>1. k - 1 \in Nat /\ <<k - 1, k>> \in OpToRel(<, Nat)
    BY <1>2 DEF OpToRel
  <2>. QED  BY <2>1, <1>1
<1> DEFINE h == [e \in Below(k) |-> Step(g, e)]
<1>4. ASSUME NEW e \in Below(k)  PROVE h[e] = Step(h, e)
  <2>1. ASSUME NEW d \in Subs(e)  PROVE g[d] = h[d]
    <3>1. e \in Exprs /\ Height[e] < k /\ Height[e] \in Nat
      BY TailCallAssumption DEF Below
    <3>2. d \in Exprs /\ Height[d] < Height[e] /\ Height[d] \in Nat
      BY <3>1, SubsFacts, TailCallAssumption
    <3>3. d \in Below(k) /\ d \in Below(k - 1)
      <4>. HIDE DEF Bad, h
      <4>. QED  BY <3>1, <3>2, <1>0 DEF Below
    <3>4. g[d] = Step(g, d)
      BY <3>3, <1>3 DEF Part
    <3>. QED  BY <3>3, <3>4
  <2>2. h[e] = Step(g, e)
    OBVIOUS
  <2>. HIDE DEF h
  <2>. QED  BY <2>1, <2>2, StepSame
<1>5. Part(h, k)
  BY <1>4 DEF Part
<1>. HIDE DEF h
<1>. QED  BY <1>5

\* All of them.
LEMMA StepEverywhere ==
    \E g : g = [e \in Exprs |-> Step(g, e)]
<1> DEFINE P(n) == CHOOSE g : Part(g, n)
           g == [e \in Exprs |-> P(Height[e] + 1)[e]]
<1>1. \A n \in Nat : Part(P(n), n)
  BY PartBelow
<1>. HIDE DEF P
<1>2. ASSUME NEW e \in Exprs  PROVE g[e] = Step(g, e)
  <2> DEFINE n == Height[e] + 1
             h == P(n)
  <2>1. n \in Nat /\ e \in Below(n) /\ Height[e] \in Nat
    BY TailCallAssumption DEF Below
  <2>2. Part(h, n)
    BY <2>1, <1>1
  <2>3. g[e] = Step(h, e)
    <3>1. h[e] = Step(h, e)
      <4>. HIDE DEF h, n
      <4>. QED  BY <2>1, <2>2 DEF Part
    <3>. QED  BY <3>1
  <2>4. ASSUME NEW d \in Subs(e)  PROVE g[d] = h[d]
    <3>1. d \in Exprs /\ Height[d] < Height[e] /\ Height[d] \in Nat
      BY SubsFacts, TailCallAssumption
    <3>2. /\ Height[d] + 1 \in Nat /\ d \in Below(Height[d] + 1) /\ d \in Below(n)
      BY <2>1, <3>1 DEF Below
    <3>3. Part(P(Height[d] + 1), Height[d] + 1)
      BY <3>2, <1>1
    <3>4. P(Height[d] + 1)[d] = h[d]
      <4>. HIDE DEF h, n
      <4>. QED  BY <2>1, <2>2, <3>2, <3>3, PartsAgree
    <3>. QED  BY <3>1, <3>4
  <2>. HIDE DEF h, g, n
  <2>. QED  BY <2>3, <2>4, StepSame
<1>. HIDE DEF g
<1>3. g = [e \in Exprs |-> g[e]]
  BY DEF g
<1>. QED  BY <1>2, <1>3

LEMMA MarkIs == Mark = [e \in Exprs |-> MarkStep(Mark, e)]
<1>1. PICK g : g = [e \in Exprs |-> Step(g, e)]
  BY StepEverywhere
<1> DEFINE f == [e \in Exprs |-> g[e][1]]
<1>2. ASSUME NEW e \in Exprs  PROVE f[e] = MarkStep(f, e)
  <2> DEFINE h == [d \in Subs(e) |-> g[d][1]]
  <2>1. f[e] = MarkStep(h, e)
    <3>1. f[e] = g[e][1]
      OBVIOUS
    <3>2. g[e] = Step(g, e)
      <4>. HIDE DEF f, h
      <4>. QED  BY <1>1
    <3>3. Step(g, e)[1] = MarkStep(h, e)
      <4>1. Step(g, e)[1] = MarkStep([d \in Subs(e) |-> g[d][1]], e)
        BY DEF Step
      <4>. QED  BY <4>1
    <3>. HIDE DEF f, h
    <3>. QED  BY <3>1, <3>2, <3>3
  <2>2. \A d \in Subs(e) : h[d] = f[d]
    BY SubsFacts
  <2>3. MarkStep(h, e) = MarkStep(f, e)
    <3>. HIDE DEF h, f
    <3>1. CASE e.k \in Leaf
      BY <3>1 DEF MarkStep, Leaf
    <3>2. CASE e.k \notin Leaf
      <4>1. \A i \in DOMAIN e.sub : h[e.sub[i]] = f[e.sub[i]]
        BY <3>2, <2>2 DEF Subs
      <4>2. [i \in DOMAIN e.sub |-> IF i \in Tails(e) THEN h[e.sub[i]] ELSE e.sub[i]]
            = [i \in DOMAIN e.sub |-> IF i \in Tails(e) THEN f[e.sub[i]] ELSE e.sub[i]]
        BY <4>1
      <4>. QED  BY <3>2, <4>2 DEF MarkStep, Leaf
    <3>. QED  BY <3>1, <3>2
  <2>. QED  BY <2>1, <2>3
<1>. HIDE DEF f
<1>3. f = [e \in Exprs |-> MarkStep(f, e)]
  BY <1>2 DEF f
<1>4. \E m : m = [e \in Exprs |-> MarkStep(m, e)]
  BY <1>3
<1>. QED  BY <1>4 DEF Mark, MarkStep

LEMMA NoCallIs == NoCall = [e \in Exprs |-> NoCallStep(NoCall, e)]
<1>1. PICK g : g = [e \in Exprs |-> Step(g, e)]
  BY StepEverywhere
<1> DEFINE f == [e \in Exprs |-> g[e][2]]
<1>2. ASSUME NEW e \in Exprs  PROVE f[e] = NoCallStep(f, e)
  <2> DEFINE h == [d \in Subs(e) |-> g[d][2]]
  <2>1. f[e] = NoCallStep(h, e)
    <3>1. f[e] = g[e][2]
      OBVIOUS
    <3>2. g[e] = Step(g, e)
      <4>. HIDE DEF f, h
      <4>. QED  BY <1>1
    <3>3. Step(g, e)[2] = NoCallStep(h, e)
      <4>1. Step(g, e)[2] = NoCallStep([d \in Subs(e) |-> g[d][2]], e)
        BY DEF Step
      <4>. QED  BY <4>1
    <3>. HIDE DEF f, h
    <3>. QED  BY <3>1, <3>2, <3>3
  <2>2. \A d \in Subs(e) : h[d] = f[d]
    BY SubsFacts
  <2>3. NoCallStep(h, e) = NoCallStep(f, e)
    <3>. HIDE DEF h, f
    <3>1. CASE e.k \in Leaf
      BY <3>1 DEF NoCallStep, Leaf
    <3>2. CASE e.k \notin Leaf
      <4>1. \A i \in DOMAIN e.sub : h[e.sub[i]] = f[e.sub[i]]
        BY <3>2, <2>2 DEF Subs
      <4>. QED  BY <3>2, <4>1 DEF NoCallStep, Leaf
    <3>. QED  BY <3>1, <3>2
  <2>. QED  BY <2>1, <2>3
<1>. HIDE DEF f
<1>3. f = [e \in Exprs |-> NoCallStep(f, e)]
  BY <1>2 DEF f
<1>4. \E m : m = [e \in Exprs |-> NoCallStep(m, e)]
  BY <1>3
<1>. QED  BY <1>4 DEF NoCall, NoCallStep

LEMMA AllTailIs == AllTail = [e \in Exprs |-> AllTailStep(NoCall, AllTail, e)]
<1>1. PICK g : g = [e \in Exprs |-> Step(g, e)]
  BY StepEverywhere
<1> DEFINE f == [e \in Exprs |-> g[e][3]]
<1>2. ASSUME NEW e \in Exprs  PROVE f[e] = AllTailStep(NoCall, f, e)
  <2> DEFINE h == [d \in Subs(e) |-> g[d][3]]
  <2>1. f[e] = AllTailStep(NoCall, h, e)
    <3>1. f[e] = g[e][3]
      OBVIOUS
    <3>2. g[e] = Step(g, e)
      <4>. HIDE DEF f, h
      <4>. QED  BY <1>1
    <3>3. Step(g, e)[3] = AllTailStep(NoCall, h, e)
      <4>1. Step(g, e)[3] = AllTailStep(NoCall, [d \in Subs(e) |-> g[d][3]], e)
        BY DEF Step
      <4>. QED  BY <4>1
    <3>. HIDE DEF f, h
    <3>. QED  BY <3>1, <3>2, <3>3
  <2>2. \A d \in Subs(e) : h[d] = f[d]
    BY SubsFacts
  <2>3. AllTailStep(NoCall, h, e) = AllTailStep(NoCall, f, e)
    <3>. HIDE DEF h, f
    <3>1. CASE e.k \in Leaf
      BY <3>1 DEF AllTailStep, Leaf
    <3>2. CASE e.k \notin Leaf
      <4>1. \A i \in 1..Len(e.sub) : h[e.sub[i]] = f[e.sub[i]]
        BY <3>2, <2>2, ExprFacts DEF Subs
      <4>2. WellFormed(e) /\ Len(e.sub) \in Nat \ {0}
        BY <3>2, ExprFacts
      <4>3. e.k = "if" => h[e.sub[1]] = f[e.sub[1]] /\ h[e.sub[2]] = f[e.sub[2]]
        BY <4>1, <4>2 DEF WellFormed
      <4>4. h[e.sub[Len(e.sub)]] = f[e.sub[Len(e.sub)]]
        BY <4>1, <4>2
      <4>. QED  BY <3>2, <4>3, <4>4 DEF AllTailStep, Leaf
    <3>. QED  BY <3>1, <3>2
  <2>. QED  BY <2>1, <2>3
<1>. HIDE DEF f
<1>3. f = [e \in Exprs |-> AllTailStep(NoCall, f, e)]
  BY <1>2 DEF f
<1>4. \E m : m = [e \in Exprs |-> AllTailStep(NoCall, m, e)]
  BY <1>3
<1>. QED  BY <1>4 DEF AllTail, AllTailStep

\* The expressions after lisp_mark_tail_calls, and all that is evaluated.
Marks == {Mark[e] : e \in Exprs}
Cells == Exprs \cup Marks

LEMMA MarkFacts ==
    ASSUME NEW x \in Exprs
    PROVE  /\ Mark[x] \in Cells /\ Mark[x].k = x.k
           /\ x.k = "call" => Mark[x].symb = x.symb /\ (Mark[x].tail <=> x.symb = Own)
           /\ x.k \notin Leaf =>
                /\ Mark[x].test = x.test /\ Mark[x].sub \in Seq(Cells)
                /\ Len(Mark[x].sub) = Len(x.sub)
                /\ \A i \in 1..Len(x.sub) :
                      Mark[x].sub[i] = IF i \in Tails(x) THEN Mark[x.sub[i]] ELSE x.sub[i]
<1>1. Mark[x] = MarkStep(Mark, x)
  BY MarkIs
<1>2. Mark[x] \in Cells
  BY DEF Cells, Marks
<1>3. CASE x.k = "call"
  <2>1. Mark[x] = [x EXCEPT !.tail = (x.symb = Own)]
    BY <1>1, <1>3 DEF MarkStep
  <2>2. x = [k |-> "call", symb |-> x.symb, tail |-> FALSE]
    BY <1>3, ExprFacts
  <2>. QED  BY <1>2, <1>3, <2>1, <2>2 DEF Leaf
<1>4. CASE x.k = "emit"
  BY <1>1, <1>2, <1>4 DEF MarkStep, Leaf
<1>5. CASE x.k \notin Leaf
  <2> DEFINE t == [i \in DOMAIN x.sub |-> IF i \in Tails(x) THEN Mark[x.sub[i]] ELSE x.sub[i]]
             n == Len(x.sub)
  <2>1. Mark[x] = [x EXCEPT !.sub = t]
    BY <1>1, <1>5 DEF MarkStep, Leaf
  <2>2. /\ x = [k |-> x.k, test |-> x.test, sub |-> x.sub]
        /\ n \in Nat \ {0} /\ DOMAIN x.sub = 1..n /\ \A i \in 1..n : x.sub[i] \in Exprs
    BY <1>5, ExprFacts
  <2>3. t \in Seq(Cells) /\ Len(t) = n
    <3>1. \A i \in 1..n : t[i] \in Cells
      BY <2>2 DEF Cells, Marks
    <3>2. t = [i \in 1..n |-> t[i]]
      BY <2>2
    <3>. HIDE DEF t
    <3>. QED  BY <2>2, <3>1, <3>2
  <2>4. \A i \in 1..n : t[i] = IF i \in Tails(x) THEN Mark[x.sub[i]] ELSE x.sub[i]
    BY <2>2
  <2>. HIDE DEF t
  <2>5. Mark[x].k = x.k /\ Mark[x].test = x.test /\ Mark[x].sub = t
    BY <2>1, <2>2
  <2>. QED  BY <1>2, <1>5, <2>3, <2>4, <2>5 DEF Leaf
<1>. QED  BY <1>3, <1>4, <1>5 DEF Leaf

LEMMA CellFacts ==
    ASSUME NEW e \in Cells
    PROVE  /\ e.k \in Leaf \cup {"if", "add"} \cup Sequenced
           /\ e.k = "call" => e.symb \in Names
           /\ e.k \notin Leaf =>
                /\ e.test \in Int /\ e.sub \in Seq(Cells) /\ Len(e.sub) \in Nat \ {0}
                /\ e.k = "if" => Len(e.sub) = 2
                /\ e.k = "add" => Len(e.sub) = 1
                /\ \A i \in 1..Len(e.sub) : e.sub[i] \in Cells
<1>1. CASE e \in Exprs
  <2>1. e.k \notin Leaf => e.sub \in Seq(Cells)
    <3>1. e.k \notin Leaf => e.sub \in Seq(Exprs)
      BY <1>1, ExprFacts
    <3>2. Exprs \subseteq Cells
      BY DEF Cells
    <3>. QED  BY <3>1, <3>2
  <2>2. e.k \notin Leaf => \A i \in 1..Len(e.sub) : e.sub[i] \in Cells
    BY <1>1, ExprFacts DEF Cells
  <2>. QED  BY <1>1, <2>1, <2>2, ExprFacts DEF WellFormed
<1>2. CASE e \in Marks
  <2>1. PICK x \in Exprs : e = Mark[x]
    BY <1>2 DEF Marks
  <2>2. e.k \notin Leaf => e.sub \in Seq(Cells) /\ \A i \in 1..Len(e.sub) : e.sub[i] \in Cells
    <3>1. e.k \notin Leaf => e.sub \in Seq(Cells)
      BY <2>1, MarkFacts
    <3>. QED  BY <3>1
  <2>. QED  BY <2>1, <2>2, MarkFacts, ExprFacts DEF WellFormed
<1>. QED  BY <1>1, <1>2 DEF Cells

\* Where a flag can be: not in the argument of a function, and when bodies
\* are one expression, only at the end of a list.
LEMMA FlaggedSubs ==
    ASSUME NEW e \in Cells, e.k \notin Leaf, NEW i \in 1..Len(e.sub), e.sub[i] \notin Exprs
    PROVE  /\ e \notin Exprs /\ e.k # "add"
           /\ OneExpression /\ e.k \in Sequenced => i = Len(e.sub)
<1>1. e \notin Exprs
  BY ExprFacts
<1>2. PICK x \in Exprs : e = Mark[x]
  BY <1>1 DEF Cells, Marks
<1>3. e.k = x.k /\ Len(e.sub) = Len(x.sub) /\ i \in 1..Len(x.sub)
  BY <1>2, MarkFacts
<1>4. i \in Tails(x)
  BY <1>2, <1>3, MarkFacts, ExprFacts
<1>5. e.k # "add"
  BY <1>3, <1>4 DEF Tails, Sequenced
<1>6. ASSUME OneExpression, e.k \in Sequenced  PROVE i = Len(e.sub)
  <2>1. CASE e.k = "prog"
    BY <2>1, <1>3, <1>4 DEF Tails
  <2>2. CASE e.k \in {"when", "unless"}
    <3>1. Len(x.sub) = 1
      BY <2>2, <1>3, <1>6 DEF OneExpression
    <3>2. i = 1
      BY <2>2, <1>3, <1>4 DEF Tails
    <3>. QED  BY <3>1, <3>2, <1>3
  <2>. QED  BY <1>6, <2>1, <2>2 DEF Sequenced
<1>. QED  BY <1>1, <1>5, <1>6

-----------------------------------------------------------------------------
\* The types of the evaluation.
TailValues == [t : {"num", "nil", "tail"}, v : Int]
Controls == [do : {"eval"}, e : Cells, n : Int] \cup [do : {"ret"}, val : TailValues]
Waits == [at : {"func"}, symb : Names] \cup [at : {"add"}]
            \cup [at : {"prog"}, rest : Seq(Cells), n : Int]

TailTypes ==
    /\ program \in Programs /\ body = Mark[program]
    /\ control \in Controls
    /\ frames \in Seq(Waits)

\* An activation that returns the value it is given, a record too ...
Passes(f) == f.at = "prog" /\ (OneExpression => f.rest = << >>)

\* ... so that a record given to the activation i of s gets to a loop.
Open(s, i) ==
    \E j \in 1..i : s[j].at = "func" /\ \A l \in (j + 1)..i : Passes(s[l])

\* Flags and records are only there.
FlagsOpen(c, s) ==
    /\ c.do = "eval" /\ c.e \notin Exprs => Open(s, Len(s))
    /\ c.do = "ret" /\ c.val.t = "tail" => Open(s, Len(s))

RestOpen(s, i) ==
    s[i].at = "prog" => \A j \in 1..Len(s[i].rest) : s[i].rest[j] \notin Exprs =>
        Open(s, i - 1) /\ (OneExpression => j = Len(s[i].rest))

TailInv ==
    /\ TailTypes
    /\ FlagsOpen(control, frames)
    /\ \A i \in 1..Len(frames) : RestOpen(frames, i)

LEMMA WaitFacts ==
    /\ \A s \in Names : Func(s) \in Waits /\ Func(s).at = "func" /\ Func(s).symb = s
    /\ Add \in Waits /\ Add.at = "add"
    /\ \A r \in Seq(Cells), n \in Int : Prog(r, n) \in Waits /\ Prog(r, n).at = "prog"
                                        /\ Prog(r, n).rest = r /\ Prog(r, n).n = n
    /\ \A f \in Waits : /\ f.at \in {"func", "add", "prog"}
                        /\ f.at = "func" => f.symb \in Names
                        /\ f.at = "prog" => f.rest \in Seq(Cells) /\ f.n \in Int
BY DEF Waits, Func, Add, Prog

LEMMA ControlFacts ==
    /\ \A e \in Cells, n \in Int : Eval(e, n) \in Controls /\ Eval(e, n).do = "eval"
                                   /\ Eval(e, n).e = e /\ Eval(e, n).n = n
    /\ \A v \in TailValues : Ret(v) \in Controls /\ Ret(v).do = "ret" /\ Ret(v).val = v
    /\ \A i \in Int : /\ Num(i) \in TailValues /\ Num(i).t # "tail"
                      /\ Record(i) \in TailValues /\ Record(i).t = "tail" /\ Record(i).v = i
    /\ NilValue \in TailValues /\ NilValue.t # "tail"
    /\ \A c \in Controls : \/ c.do = "eval" /\ c.e \in Cells /\ c.n \in Int /\ c = Eval(c.e, c.n)
                           \/ c.do = "ret" /\ c.val \in TailValues /\ c = Ret(c.val)
BY DEF Controls, Eval, Ret, TailValues, Num, Record, NilValue

\* How the activations that are open change.
LEMMA OpenPrefix ==
    ASSUME NEW s, NEW t, NEW i \in Nat, \A j \in 1..i : s[j] = t[j]
    PROVE  Open(s, i) <=> Open(t, i)
<1>1. \A j \in 1..i : \A l \in (j + 1)..i : l \in 1..i
  OBVIOUS
<1>. QED  BY <1>1 DEF Open

LEMMA OpenLoop ==
    ASSUME NEW s, NEW i \in Nat \ {0}, s[i].at = "func"
    PROVE  Open(s, i)
<1>1. i \in 1..i /\ (i + 1)..i = {}
  OBVIOUS
<1>. QED  BY <1>1 DEF Open

LEMMA OpenUp ==
    ASSUME NEW s, NEW i \in Nat \ {0}, Open(s, i - 1), Passes(s[i])
    PROVE  Open(s, i)
<1>1. PICK j \in 1..(i - 1) : s[j].at = "func" /\ \A l \in (j + 1)..(i - 1) : Passes(s[l])
  BY DEF Open
<1>2. j \in 1..i /\ \A l \in (j + 1)..i : l = i \/ l \in (j + 1)..(i - 1)
  OBVIOUS
<1>. QED  BY <1>1, <1>2 DEF Open

LEMMA OpenDown ==
    ASSUME NEW s, NEW i \in Nat, Open(s, i), s[i].at # "func"
    PROVE  i # 0 /\ Open(s, i - 1) /\ Passes(s[i])
<1>1. PICK j \in 1..i : s[j].at = "func" /\ \A l \in (j + 1)..i : Passes(s[l])
  BY DEF Open
<1>2. j # i
  BY <1>1
<1>3. i \in (j + 1)..i /\ j \in 1..(i - 1) /\ \A l \in (j + 1)..(i - 1) : l \in (j + 1)..i
  BY <1>2
<1>. QED  BY <1>1, <1>3 DEF Open

LEMMA RestPrefix ==
    ASSUME NEW s, NEW t, NEW i \in Nat \ {0}, \A j \in 1..i : s[j] = t[j], RestOpen(s, i)
    PROVE  RestOpen(t, i)
<1>1. s[i] = t[i] /\ i - 1 \in Nat /\ \A j \in 1..(i - 1) : s[j] = t[j]
  OBVIOUS
<1>2. Open(s, i - 1) <=> Open(t, i - 1)
  BY <1>1, OpenPrefix
<1>. QED  BY <1>1, <1>2 DEF RestOpen

LEMMA PushOpen ==
    ASSUME NEW s \in Seq(Waits), NEW f \in Waits, NEW t, t = Append(s, f),
           \A i \in 1..Len(s) : RestOpen(s, i),
           f.at = "prog" => \A j \in 1..Len(f.rest) : f.rest[j] \notin Exprs =>
                Open(s, Len(s)) /\ (OneExpression => j = Len(f.rest))
    PROVE  /\ t \in Seq(Waits) /\ Len(t) = Len(s) + 1 /\ Len(s) \in Nat /\ t[Len(t)] = f
           /\ \A i \in 1..Len(t) : RestOpen(t, i)
           /\ Open(t, Len(s)) <=> Open(s, Len(s))
<1> DEFINE n == Len(s)
<1>1. /\ t \in Seq(Waits) /\ n \in Nat /\ Len(t) = n + 1 /\ t[n + 1] = f
      /\ \A i \in 1..n : s[i] = t[i]
  BY AppendFacts
<1>. HIDE DEF n
<1>2. Open(t, n) <=> Open(s, n)
  BY <1>1, OpenPrefix
<1>3. ASSUME NEW i \in 1..n  PROVE RestOpen(t, i)
  <2>1. i \in Nat \ {0} /\ \A j \in 1..i : s[j] = t[j]
    BY <1>1
  <2>2. RestOpen(s, i)
    BY DEF n
  <2>. QED  BY <2>1, <2>2, RestPrefix
<1>4. RestOpen(t, n + 1)
  <2>1. (n + 1) - 1 = n
    BY <1>1
  <2>2. f.at = "prog" => \A j \in 1..Len(f.rest) : f.rest[j] \notin Exprs =>
                Open(t, n) /\ (OneExpression => j = Len(f.rest))
    BY <1>2 DEF n
  <2>. QED  BY <1>1, <2>1, <2>2 DEF RestOpen
<1>5. \A i \in 1..Len(t) : i \in 1..n \/ i = n + 1
  BY <1>1
<1>. QED  BY <1>1, <1>2, <1>3, <1>4, <1>5 DEF n

LEMMA PopOpen ==
    ASSUME NEW s \in Seq(Waits), s # << >>, NEW t, t = Front(s),
           \A i \in 1..Len(s) : RestOpen(s, i)
    PROVE  /\ t \in Seq(Waits) /\ Len(t) = Len(s) - 1 /\ Len(s) \in Nat \ {0}
           /\ Last(s) = s[Len(s)] /\ Last(s) \in Waits /\ RestOpen(s, Len(s))
           /\ \A i \in 1..Len(t) : RestOpen(t, i)
           /\ Open(t, Len(t)) <=> Open(s, Len(s) - 1)
<1> DEFINE n == Len(s)
<1>1. /\ t \in Seq(Waits) /\ n \in Nat \ {0} /\ Len(t) = n - 1
      /\ Last(s) = s[n] /\ Last(s) \in Waits
      /\ \A i \in 1..(n - 1) : s[i] = t[i]
  BY FrontLast
<1>. HIDE DEF n
<1>2. Open(t, n - 1) <=> Open(s, n - 1)
  BY <1>1, OpenPrefix
<1>3. ASSUME NEW i \in 1..(n - 1)  PROVE RestOpen(t, i)
  <2>1. i \in Nat \ {0} /\ i \in 1..n /\ \A j \in 1..i : s[j] = t[j]
    BY <1>1
  <2>2. RestOpen(s, i)
    BY <2>1 DEF n
  <2>. QED  BY <2>1, <2>2, RestPrefix
<1>4. RestOpen(s, n)
  BY <1>1 DEF n
<1>. QED  BY <1>1, <1>2, <1>3, <1>4 DEF n

\* A step that leaves the activations as they are.
LEMMA SameFrames ==
    ASSUME TailInv, NEW c \in Controls, control' = c, UNCHANGED <<defined, frames>>,
           FlagsOpen(c, frames)
    PROVE  TailInv'
<1>1. /\ program' = program /\ body' = body /\ frames' = frames
      /\ control' = c
  BY DEF defined
<1>. QED  BY <1>1 DEF TailInv, TailTypes, FlagsOpen, RestOpen, Open

\* A step to the activations t.
LEMMA OtherFrames ==
    ASSUME TailInv, NEW c \in Controls, control' = c, UNCHANGED defined,
           NEW t \in Seq(Waits), frames' = t,
           FlagsOpen(c, t), \A i \in 1..Len(t) : RestOpen(t, i)
    PROVE  TailInv'
<1>1. program' = program /\ body' = body
  BY DEF defined
<1>. QED  BY <1>1 DEF TailInv, TailTypes, FlagsOpen, RestOpen, Open

LEMMA Evaluating ==
    ASSUME TailInv, NEW k, Evaluates(k)
    PROVE  /\ control.e \in Cells /\ control.e.k = k /\ control.n \in Int
           /\ control.e \notin Exprs => Open(frames, Len(frames))
BY ControlFacts DEF TailInv, TailTypes, Evaluates, FlagsOpen

LEMMA Returning ==
    ASSUME TailInv, control.do = "ret"
    PROVE  /\ control.val \in TailValues
           /\ control.val.t = "tail" => Open(frames, Len(frames))
BY ControlFacts DEF TailInv, TailTypes, FlagsOpen

LEMMA TailFrames ==
    ASSUME TailInv
    PROVE  /\ frames \in Seq(Waits) /\ \A i \in 1..Len(frames) : RestOpen(frames, i)
           /\ body \in Cells
BY MarkFacts, TailCallAssumption DEF TailInv, TailTypes

LEMMA PlainValue ==
    ASSUME NEW v \in TailValues, v.t # "tail", NEW s
    PROVE  Ret(v) \in Controls /\ FlagsOpen(Ret(v), s)
BY ControlFacts DEF FlagsOpen

LEMMA SubOpen ==
    ASSUME NEW e \in Cells, e.k \notin Leaf, NEW i \in 1..Len(e.sub), NEW n \in Int, NEW s,
           e \notin Exprs => Open(s, Len(s))
    PROVE  Eval(e.sub[i], n) \in Controls /\ FlagsOpen(Eval(e.sub[i], n), s)
<1>1. e.sub[i] \in Cells /\ (e.sub[i] \notin Exprs => Open(s, Len(s)))
  BY CellFacts, FlaggedSubs
<1>. QED  BY <1>1, ControlFacts DEF FlagsOpen

LEMMA EmitKeeps == ASSUME TailInv, Emit  PROVE TailInv'
<1>1. control.n \in Int
  BY Evaluating DEF Emit
<1>2. Ret(Num(control.n)) \in Controls /\ FlagsOpen(Ret(Num(control.n)), frames)
  BY <1>1, ControlFacts, PlainValue
<1>. QED  BY <1>2, SameFrames DEF Emit

LEMMA PlainCallKeeps == ASSUME TailInv, PlainCall  PROVE TailInv'
<1> DEFINE f == Func(control.e.symb)
           t == Append(frames, f)
<1>1. control.e \in Cells /\ control.e.symb \in Names /\ control.n - 1 \in Int
  BY Evaluating, CellFacts DEF PlainCall
<1>2. f \in Waits /\ f.at = "func" /\ f.at # "prog"
  BY <1>1, WaitFacts
<1>3. /\ t \in Seq(Waits) /\ Len(t) = Len(frames) + 1 /\ Len(frames) \in Nat /\ t[Len(t)] = f
      /\ \A i \in 1..Len(t) : RestOpen(t, i)
  <2>. HIDE DEF f
  <2>. QED  BY <1>2, TailFrames, PushOpen
<1>4. Open(t, Len(t))
  <2>. HIDE DEF t
  <2>1. Len(t) \in Nat \ {0} /\ t[Len(t)].at = "func"
    BY <1>2, <1>3
  <2>. QED  BY <2>1, OpenLoop
<1>5. Eval(body, control.n - 1) \in Controls /\ FlagsOpen(Eval(body, control.n - 1), t)
  BY <1>1, <1>4, TailFrames, ControlFacts DEF FlagsOpen
<1>. QED  BY <1>3, <1>5, OtherFrames DEF PlainCall

LEMMA FlaggedOpen ==
    ASSUME TailInv, TailCall
    PROVE  Open(frames, Len(frames)) /\ control.n - 1 \in Int /\ control.e \in Cells /\ control.e \notin Exprs
<1>1. control.e \notin Exprs
  BY ExprFacts DEF TailCall, Evaluates
<1>. QED  BY <1>1, Evaluating DEF TailCall

LEMMA FlaggedCallKeeps == ASSUME TailInv, TailCall  PROVE TailInv'
<1> DEFINE c == Ret(Record(control.n - 1))
<1>1. c \in Controls /\ FlagsOpen(c, frames)
  BY FlaggedOpen, ControlFacts DEF FlagsOpen
<1>. QED  BY <1>1, SameFrames DEF TailCall

LEMMA IfKeeps == ASSUME TailInv, If  PROVE TailInv'
<1> DEFINE i == IF control.n = control.e.test THEN 1 ELSE 2
           c == Eval(control.e.sub[i], control.n)
<1>1. /\ control.e \in Cells /\ control.e.k = "if" /\ control.n \in Int
      /\ control.e \notin Exprs => Open(frames, Len(frames))
  BY Evaluating DEF If
<1>2. control.e.k \notin Leaf
  BY <1>1 DEF Leaf
<1>3. i \in 1..Len(control.e.sub)
  <2>1. Len(control.e.sub) = 2
    BY <1>1, <1>2, CellFacts
  <2>2. i \in 1..2
    OBVIOUS
  <2>. QED  BY <2>1, <2>2
<1>4. control' = c
  BY DEF If
<1>. HIDE DEF i
<1>5. c \in Controls /\ FlagsOpen(c, frames)
  BY <1>1, <1>2, <1>3, SubOpen
<1>. QED  BY <1>4, <1>5, SameFrames DEF If

LEMMA SkipListKeeps == ASSUME TailInv, SkipList  PROVE TailInv'
<1>1. Ret(NilValue) \in Controls /\ FlagsOpen(Ret(NilValue), frames)
  BY ControlFacts, PlainValue
<1>. QED  BY <1>1, SameFrames DEF SkipList

LEMMA AddArgumentKeeps == ASSUME TailInv, AddArgument  PROVE TailInv'
<1> DEFINE e == control.e
           t == Append(frames, Add)
           c == Eval(e.sub[1], control.n)
<1>1. e \in Cells /\ e.k = "add" /\ control.n \in Int
  BY Evaluating DEF AddArgument
<1>2. e.k \notin Leaf /\ 1 \in 1..Len(e.sub)
  BY <1>1, CellFacts DEF Leaf
<1>3. e.sub[1] \in Exprs
  BY <1>1, <1>2, FlaggedSubs
<1>4. c \in Controls /\ FlagsOpen(c, t)
  BY <1>1, <1>3, ControlFacts DEF FlagsOpen, Cells
<1>5. t \in Seq(Waits) /\ \A i \in 1..Len(t) : RestOpen(t, i)
  BY WaitFacts, TailFrames, PushOpen
<1>. HIDE DEF c, t
<1>6. control' = c /\ frames' = t
  BY DEF AddArgument, c, t
<1>. QED  BY <1>4, <1>5, <1>6, OtherFrames DEF AddArgument

\* What a list pushes: its first expression is evaluated, and only the last
\* one of the others can have a flag.
LEMMA TailOfList ==
    ASSUME NEW q \in Seq(Cells), q # << >>
    PROVE  /\ Tail(q) \in Seq(Cells) /\ Head(q) = q[1] /\ Len(q) \in Nat \ {0}
           /\ Len(Tail(q)) = Len(q) - 1 /\ \A j \in 1..Len(q) : q[j] \in Cells
           /\ \A j \in 1..Len(Tail(q)) : j + 1 \in 1..Len(q) /\ Tail(q)[j] = q[j + 1]
<1>1. /\ Len(q) \in Nat \ {0} /\ \A j \in 1..Len(q) : q[j] \in Cells
  BY EmptySeq
<1>2. Tail(q) \in Seq(Cells) /\ Head(q) = q[1] /\ Len(Tail(q)) = Len(q) - 1
  BY HeadTailProperties
<1>3. \A j \in 1..Len(Tail(q)) : Tail(q)[j] = q[j + 1]
  BY HeadTailProperties
<1>. QED  BY <1>1, <1>2, <1>3

\* The activation of lisp_prog goes on with q, after it took its head.
LEMMA ListOpen ==
    ASSUME NEW q \in Seq(Cells), q # << >>, NEW n \in Int,
           NEW s \in Seq(Waits), \A i \in 1..Len(s) : RestOpen(s, i),
           \A j \in 1..Len(q) : q[j] \notin Exprs =>
                Open(s, Len(s)) /\ (OneExpression => j = Len(q)),
           NEW t, t = Append(s, Prog(Tail(q), n)),
           NEW c, c = Eval(Head(q), n)
    PROVE  /\ t \in Seq(Waits) /\ \A i \in 1..Len(t) : RestOpen(t, i)
           /\ c \in Controls /\ FlagsOpen(c, t)
<1> DEFINE r == Tail(q)
           f == Prog(r, n)
<1>1. /\ r \in Seq(Cells) /\ Head(q) = q[1] /\ Len(q) \in Nat \ {0} /\ Len(r) = Len(q) - 1
      /\ q[1] \in Cells
      /\ \A j \in 1..Len(r) : j + 1 \in 1..Len(q) /\ r[j] = q[j + 1]
  BY TailOfList
<1>2. f \in Waits /\ f.at = "prog" /\ f.rest = r
  BY <1>1, WaitFacts
<1>. HIDE DEF f, r
<1>3. \A j \in 1..Len(f.rest) : f.rest[j] \notin Exprs =>
                Open(s, Len(s)) /\ (OneExpression => j = Len(f.rest))
  BY <1>1, <1>2
<1>4. t = Append(s, f)
  BY DEF f, r
<1>5. /\ t \in Seq(Waits) /\ Len(t) = Len(s) + 1 /\ Len(s) \in Nat /\ t[Len(t)] = f
      /\ \A i \in 1..Len(t) : RestOpen(t, i)
      /\ Open(t, Len(s)) <=> Open(s, Len(s))
  BY <1>2, <1>3, <1>4, PushOpen
<1>6. ASSUME Head(q) \notin Exprs  PROVE Open(t, Len(t))
  <2>1. Open(s, Len(s)) /\ (OneExpression => 1 = Len(q))
    BY <1>1, <1>6
  <2>2. OneExpression => r = << >>
    <3>1. OneExpression => Len(r) = 0
      BY <2>1, <1>1
    <3>2. Len(r) = 0 => r = << >>
      BY <1>1, EmptySeq
    <3>. QED  BY <3>1, <3>2
  <2>3. Passes(f)
    BY <2>2, <1>2 DEF Passes
  <2>4. Len(t) \in Nat \ {0} /\ Len(t) - 1 = Len(s)
    BY <1>5
  <2>. QED  BY <2>1, <2>3, <2>4, <1>5, OpenUp
<1>7. c \in Controls /\ c.do = "eval" /\ c.e = Head(q)
  BY <1>1, ControlFacts
<1>. QED  BY <1>5, <1>6, <1>7 DEF FlagsOpen

LEMMA ListKeeps == ASSUME TailInv, List  PROVE TailInv'
<1> DEFINE q == control.e.sub
           n == control.n
           t == Append(frames, Prog(Tail(q), n))
           c == Eval(Head(q), n)
<1>1. PICK k \in Sequenced : Evaluates(k)
  BY DEF List
<1>2. /\ control.e \in Cells /\ control.e.k = k /\ n \in Int
      /\ control.e \notin Exprs => Open(frames, Len(frames))
  BY <1>1, Evaluating
<1>3. control.e.k \notin Leaf /\ control.e.k \in Sequenced
  BY <1>2 DEF Leaf, Sequenced
<1>4. q \in Seq(Cells) /\ q # << >>
  <2>1. q \in Seq(Cells) /\ Len(q) \in Nat \ {0}
    BY <1>2, <1>3, CellFacts
  <2>. QED  BY <2>1, EmptySeq
<1>5. \A j \in 1..Len(q) : q[j] \notin Exprs =>
                Open(frames, Len(frames)) /\ (OneExpression => j = Len(q))
  BY <1>2, <1>3, FlaggedSubs
<1>6. control' = c /\ frames' = t /\ UNCHANGED defined
  BY DEF List
<1>7. /\ t \in Seq(Waits) /\ \A i \in 1..Len(t) : RestOpen(t, i)
      /\ c \in Controls /\ FlagsOpen(c, t)
  <2>. HIDE DEF q, n
  <2>. QED  BY <1>2, <1>4, <1>5, TailFrames, ListOpen DEF n
<1>. HIDE DEF c, t
<1>. QED  BY <1>6, <1>7, OtherFrames

\* A value is returned to the last activation.
LEMMA Popping ==
    ASSUME TailInv, NEW at, Returns(at)
    PROVE  /\ frames \in Seq(Waits) /\ frames # << >> /\ Top \in Waits /\ Top.at = at
           /\ Len(frames) \in Nat \ {0} /\ Top = frames[Len(frames)]
           /\ Front(frames) \in Seq(Waits) /\ Len(Front(frames)) = Len(frames) - 1
           /\ \A i \in 1..Len(Front(frames)) : RestOpen(Front(frames), i)
           /\ RestOpen(frames, Len(frames))
           /\ Open(Front(frames), Len(Front(frames))) <=> Open(frames, Len(frames) - 1)
           /\ control.val \in TailValues /\ control \in Controls /\ control = Ret(control.val)
           /\ control.val.t = "tail" /\ at # "func" =>
                /\ at = "prog" /\ (OneExpression => Top.rest = << >>)
                /\ Open(Front(frames), Len(Front(frames)))
<1> DEFINE t == Front(frames)
<1>1. frames # << >> /\ Top.at = at /\ control.do = "ret"
  BY DEF Returns
<1>2. /\ frames \in Seq(Waits) /\ \A i \in 1..Len(frames) : RestOpen(frames, i)
  BY TailFrames
<1>3. /\ t \in Seq(Waits) /\ Len(t) = Len(frames) - 1 /\ Len(frames) \in Nat \ {0}
      /\ Top = frames[Len(frames)] /\ Top \in Waits /\ RestOpen(frames, Len(frames))
      /\ \A i \in 1..Len(t) : RestOpen(t, i)
      /\ Open(t, Len(t)) <=> Open(frames, Len(frames) - 1)
  BY <1>1, <1>2, PopOpen DEF Top
<1>4. /\ control.val \in TailValues /\ control \in Controls /\ control = Ret(control.val)
      /\ control.val.t = "tail" => Open(frames, Len(frames))
  <2>1. control \in Controls
    BY DEF TailInv, TailTypes
  <2>. QED  BY <2>1, <1>1, Returning, ControlFacts
<1>5. ASSUME control.val.t = "tail", at # "func"
      PROVE  Open(frames, Len(frames) - 1) /\ Passes(Top)
  BY <1>1, <1>3, <1>4, <1>5, OpenDown
<1>6. control.val.t = "tail" /\ at # "func" => at = "prog" /\ (OneExpression => Top.rest = << >>)
  BY <1>1, <1>5 DEF Passes
<1>. QED  BY <1>1, <1>2, <1>3, <1>4, <1>5, <1>6

LEMMA NextOfListKeeps == ASSUME TailInv, NextOfList  PROVE TailInv'
<1> DEFINE q == Top.rest
           n == Top.n
           s == Front(frames)
           t == Append(s, Prog(Tail(q), n))
           c == Eval(Head(q), n)
<1>1. /\ Top \in Waits /\ Top.at = "prog" /\ Len(frames) \in Nat \ {0} /\ Top = frames[Len(frames)]
      /\ s \in Seq(Waits) /\ \A i \in 1..Len(s) : RestOpen(s, i)
      /\ RestOpen(frames, Len(frames))
      /\ Open(s, Len(s)) <=> Open(frames, Len(frames) - 1)
  BY Popping DEF NextOfList
<1>2. q \in Seq(Cells) /\ q # << >> /\ n \in Int
  BY <1>1, WaitFacts DEF NextOfList
<1>3. \A j \in 1..Len(q) : q[j] \notin Exprs =>
                Open(s, Len(s)) /\ (OneExpression => j = Len(q))
  BY <1>1 DEF RestOpen
<1>4. control' = c /\ frames' = t /\ UNCHANGED defined
  BY DEF NextOfList
<1>5. /\ t \in Seq(Waits) /\ \A i \in 1..Len(t) : RestOpen(t, i)
      /\ c \in Controls /\ FlagsOpen(c, t)
  <2>. HIDE DEF q, n, s
  <2>. QED  BY <1>1, <1>2, <1>3, ListOpen
<1>. HIDE DEF c, t
<1>. QED  BY <1>4, <1>5, OtherFrames

LEMMA EndOfListKeeps == ASSUME TailInv, EndOfList  PROVE TailInv'
<1>1. /\ Front(frames) \in Seq(Waits) /\ \A i \in 1..Len(Front(frames)) : RestOpen(Front(frames), i)
      /\ control \in Controls /\ control = Ret(control.val) /\ control.val \in TailValues
      /\ control.val.t = "tail" => Open(Front(frames), Len(Front(frames)))
  BY Popping DEF EndOfList
<1>2. FlagsOpen(control, Front(frames))
  BY <1>1, ControlFacts DEF FlagsOpen
<1>3. control' = control /\ frames' = Front(frames) /\ UNCHANGED defined
  BY DEF EndOfList
<1>. QED  BY <1>1, <1>2, <1>3, OtherFrames

LEMMA AddReturnKeeps == ASSUME TailInv, AddReturn  PROVE TailInv'
<1> DEFINE v == [control.val EXCEPT !.v = @ + 1]
<1>1. /\ Front(frames) \in Seq(Waits) /\ \A i \in 1..Len(Front(frames)) : RestOpen(Front(frames), i)
      /\ control.val \in TailValues /\ control.val.t # "tail"
  BY Popping DEF AddReturn
<1>2. v \in TailValues /\ v.t # "tail"
  BY <1>1 DEF TailValues
<1>3. control' = Ret(v) /\ frames' = Front(frames) /\ UNCHANGED defined
  BY DEF AddReturn
<1>. HIDE DEF v
<1>4. Ret(v) \in Controls /\ FlagsOpen(Ret(v), Front(frames))
  BY <1>2, PlainValue
<1>. QED  BY <1>1, <1>3, <1>4, OtherFrames

LEMMA LoopKeeps == ASSUME TailInv, Loop  PROVE TailInv'
<1> DEFINE c == Eval(body, control.val.v)
<1>1. /\ Len(frames) \in Nat \ {0} /\ Top = frames[Len(frames)] /\ Top.at = "func"
      /\ control.val \in TailValues
  BY Popping DEF Loop
<1>2. Open(frames, Len(frames))
  BY <1>1, OpenLoop
<1>3. control.val.v \in Int /\ body \in Cells
  BY <1>1, TailFrames DEF TailValues
<1>4. c \in Controls /\ FlagsOpen(c, frames)
  BY <1>2, <1>3, ControlFacts DEF FlagsOpen
<1>. QED  BY <1>4, SameFrames DEF Loop

\* A loop that ends has no record: it is called by its own name.
LEMMA NoRecordLeft ==
    ASSUME OwnName, TailInv, LoopEnd
    PROVE  control.val.t # "tail"
<1>1. Top \in Waits /\ Top.at = "func"
  BY Popping DEF LoopEnd
<1>2. Top.symb \in Names
  BY <1>1, WaitFacts
<1>. QED  BY <1>2 DEF LoopEnd, Again, OwnName

LEMMA LoopEndKeeps == ASSUME OwnName, TailInv, LoopEnd  PROVE TailInv'
<1>1. /\ Front(frames) \in Seq(Waits) /\ \A i \in 1..Len(Front(frames)) : RestOpen(Front(frames), i)
      /\ control \in Controls /\ control.val \in TailValues /\ control = Ret(control.val)
  BY Popping DEF LoopEnd
<1>2. FlagsOpen(control, Front(frames))
  BY <1>1, NoRecordLeft, PlainValue
<1>3. control' = control /\ frames' = Front(frames) /\ UNCHANGED defined
  BY DEF LoopEnd
<1>. QED  BY <1>1, <1>2, <1>3, OtherFrames

LEMMA InitTail == TCInit => TailInv
<1>. SUFFICES ASSUME TCInit  PROVE TailInv
  OBVIOUS
<1>1. /\ program \in Programs /\ body = Mark[program] /\ first.symb \in Names
      /\ first.arg \in Int /\ control = Eval(body, first.arg) /\ frames = <<Func(first.symb)>>
  BY TailCallAssumption DEF TCInit
<1>2. body \in Cells
  BY <1>1, MarkFacts, TailCallAssumption
<1>3. Func(first.symb) \in Waits /\ Func(first.symb).at = "func"
  BY <1>1, WaitFacts
<1>4. /\ frames \in Seq(Waits) /\ Len(frames) = 1 /\ frames[1] = Func(first.symb)
  BY <1>1, <1>3
<1>5. Open(frames, 1)
  BY <1>3, <1>4, OpenLoop
<1>6. control \in Controls /\ FlagsOpen(control, frames)
  BY <1>1, <1>2, <1>4, <1>5, ControlFacts DEF FlagsOpen
<1>7. \A i \in 1..Len(frames) : RestOpen(frames, i)
  BY <1>3, <1>4 DEF RestOpen
<1>. QED  BY <1>1, <1>4, <1>6, <1>7 DEF TailInv, TailTypes

LEMMA NextTail == ASSUME OwnName  PROVE TailInv /\ [TCNext]_tcVars => TailInv'
<1>. SUFFICES ASSUME TailInv, [TCNext]_tcVars  PROVE TailInv'
  OBVIOUS
<1>1. CASE UNCHANGED tcVars
  BY <1>1 DEF tcVars, TailInv, TailTypes, FlagsOpen, RestOpen, Open
<1>2. CASE TCNext
  BY <1>2, EmitKeeps, PlainCallKeeps, FlaggedCallKeeps, IfKeeps, ListKeeps, SkipListKeeps,
     AddArgumentKeeps, NextOfListKeeps, EndOfListKeeps, AddReturnKeeps, LoopKeeps,
     LoopEndKeeps DEF TCNext
<1>. QED  BY <1>1, <1>2

LEMMA TailInvHolds == ASSUME OwnName  PROVE TCSpec => []TailInv
<1>. QED  BY InitTail, NextTail, PTL DEF TCSpec

\* No function is given a record of a tail call, when the function is called
\* by its own name: a flag is only where the value goes straight to the loop
\* (eval.c:141-148), whatever the bodies are.
THEOREM RecordsStay == ASSUME OwnName  PROVE TCSpec => []RecordsReturned
<1>1. TailInv => RecordsReturned
  <2>. SUFFICES ASSUME TailInv, Returns("add"), control.val.t = "tail"  PROVE FALSE
    BY DEF RecordsReturned
  <2>. QED  BY Popping
<1>. QED  BY <1>1, TailInvHolds, PTL

-----------------------------------------------------------------------------
\* The expressions without a call that is not flagged.
FreeExprs == {e \in Exprs : NoCall[e]} \cup {Mark[e] : e \in {d \in Exprs : AllTail[d]}}

LEMMA FreeCells == FreeExprs \subseteq Cells
BY DEF FreeExprs, Cells, Marks

LEMMA FreeCall ==
    ASSUME OwnName, NEW e \in FreeExprs, e.k = "call"
    PROVE  e.tail
<1>1. CASE e \in Exprs /\ NoCall[e]
  <2>1. NoCall[e] = NoCallStep(NoCall, e)
    BY <1>1, NoCallIs
  <2>. QED  BY <1>1, <2>1 DEF NoCallStep
<1>2. CASE \E x \in Exprs : e = Mark[x]
  <2>1. PICK x \in Exprs : e = Mark[x]
    BY <1>2
  <2>2. x.k = "call" /\ x.symb \in Names
    BY <2>1, MarkFacts, ExprFacts
  <2>. QED  BY <2>1, <2>2, MarkFacts DEF OwnName
<1>. QED  BY <1>1, <1>2 DEF FreeExprs

LEMMA FreeSubs ==
    ASSUME OneExpression, NEW e \in FreeExprs, e.k \notin Leaf, NEW i \in 1..Len(e.sub)
    PROVE  e.sub[i] \in FreeExprs
<1>1. CASE e \in Exprs /\ NoCall[e]
  <2>1. NoCall[e] = NoCallStep(NoCall, e)
    BY <1>1, NoCallIs
  <2>2. i \in DOMAIN e.sub /\ e.sub[i] \in Exprs
    BY <1>1, ExprFacts
  <2>3. NoCall[e.sub[i]]
    BY <1>1, <2>1, <2>2 DEF NoCallStep, Leaf
  <2>. QED  BY <2>2, <2>3 DEF FreeExprs
<1>2. CASE \E x \in Exprs : AllTail[x] /\ e = Mark[x]
  <2>1. PICK x \in Exprs : AllTail[x] /\ e = Mark[x]
    BY <1>2
  <2> DEFINE n == Len(x.sub)
             y == x.sub[i]
  <2>2. /\ e.k = x.k /\ x.k \notin Leaf /\ n \in Nat \ {0} /\ i \in 1..n /\ WellFormed(x)
        /\ x.k \in {"if", "add"} \cup Sequenced /\ y \in Exprs
        /\ e.sub[i] = IF i \in Tails(x) THEN Mark[y] ELSE y
    BY <2>1, MarkFacts, ExprFacts
  <2>3. AllTailStep(NoCall, AllTail, x)
    <3>1. AllTail[x] = AllTailStep(NoCall, AllTail, x)
      BY AllTailIs
    <3>. QED  BY <3>1, <2>1
  <2>4. (i \in Tails(x) /\ AllTail[y]) \/ (i \notin Tails(x) /\ NoCall[y])
    <3>1. CASE x.k = "if"
      <4>1. i = 1 \/ i = 2
        BY <2>2, <3>1 DEF WellFormed
      <4>2. i \in Tails(x)
        BY <4>1, <3>1 DEF Tails
      <4>3. AllTail[x.sub[1]] /\ AllTail[x.sub[2]]
        <5>1. x.k \notin {"emit", "call"}
          BY <3>1
        <5>2. AllTailStep(NoCall, AllTail, x) = (AllTail[x.sub[1]] /\ AllTail[x.sub[2]])
          BY <3>1, <5>1 DEF AllTailStep, Sequenced
        <5>. QED  BY <2>3, <5>2
      <4>. QED  BY <4>1, <4>2, <4>3
    <3>2. CASE x.k = "add"
      <4>1. i = 1 /\ i \notin Tails(x)
        BY <2>2, <3>2 DEF WellFormed, Tails
      <4>2. NoCall[x.sub[1]]
        BY <2>3, <3>2 DEF AllTailStep, Sequenced
      <4>. QED  BY <4>1, <4>2
    <3>3. CASE x.k \in Sequenced
      <4>1. (\A j \in 1..(n - 1) : NoCall[x.sub[j]]) /\ AllTail[x.sub[n]]
        BY <2>3, <3>3 DEF AllTailStep, Sequenced
      <4>2. i \in Tails(x) <=> i = n
        <5>1. CASE x.k = "prog"
          BY <5>1 DEF Tails
        <5>2. CASE x.k \in {"when", "unless"}
          <6>1. n = 1 /\ i = 1
            BY <5>2, <2>2 DEF OneExpression
          <6>2. Tails(x) = {1}
            BY <5>2 DEF Tails
          <6>. QED  BY <6>1, <6>2
        <5>. QED  BY <5>1, <5>2, <3>3 DEF Sequenced
      <4>3. i = n \/ i \in 1..(n - 1)
        BY <2>2
      <4>. QED  BY <4>1, <4>2, <4>3, <2>2
    <3>. QED  BY <2>2, <3>1, <3>2, <3>3
  <2>. QED  BY <2>2, <2>4 DEF FreeExprs
<1>. QED  BY <1>1, <1>2 DEF FreeExprs

\* One activation of lisp_eval_func, and only expressions that need no other.
FreeWait(s, i) ==
    /\ s[i].at = "func" => i = 1
    /\ s[i].at = "prog" => \A j \in 1..Len(s[i].rest) : s[i].rest[j] \in FreeExprs

FreeControl(c) == c.do = "eval" => c.e \in FreeExprs

TightInv ==
    AllTail[program] => /\ FreeControl(control)
                        /\ \A i \in 1..Len(frames) : FreeWait(frames, i)

LEMMA PushFree ==
    ASSUME NEW s \in Seq(Waits), NEW f \in Waits, NEW t, t = Append(s, f), f.at # "func",
           \A i \in 1..Len(s) : FreeWait(s, i),
           f.at = "prog" => \A j \in 1..Len(f.rest) : f.rest[j] \in FreeExprs
    PROVE  \A i \in 1..Len(t) : FreeWait(t, i)
<1> DEFINE n == Len(s)
<1>1. /\ n \in Nat /\ Len(t) = n + 1 /\ t[n + 1] = f /\ \A i \in 1..n : s[i] = t[i]
  BY AppendFacts
<1>2. \A i \in 1..n : FreeWait(t, i)
  BY <1>1 DEF FreeWait
<1>3. FreeWait(t, n + 1)
  BY <1>1 DEF FreeWait
<1>4. \A i \in 1..Len(t) : i \in 1..n \/ i = n + 1
  BY <1>1
<1>. QED  BY <1>2, <1>3, <1>4

LEMMA PopFree ==
    ASSUME NEW s \in Seq(Waits), s # << >>, \A i \in 1..Len(s) : FreeWait(s, i)
    PROVE  \A i \in 1..Len(Front(s)) : FreeWait(Front(s), i)
<1>1. /\ Len(s) \in Nat \ {0} /\ Len(Front(s)) = Len(s) - 1
      /\ \A i \in 1..(Len(s) - 1) : Front(s)[i] = s[i]
  BY FrontLast
<1>. QED  BY <1>1 DEF FreeWait

LEMMA ListFree ==
    ASSUME NEW q \in Seq(Cells), q # << >>, NEW n \in Int,
           NEW s \in Seq(Waits), \A i \in 1..Len(s) : FreeWait(s, i),
           \A j \in 1..Len(q) : q[j] \in FreeExprs
    PROVE  /\ FreeControl(Eval(Head(q), n))
           /\ \A i \in 1..Len(Append(s, Prog(Tail(q), n))) : FreeWait(Append(s, Prog(Tail(q), n)), i)
<1> DEFINE f == Prog(Tail(q), n)
           t == Append(s, f)
<1>1. /\ Tail(q) \in Seq(Cells) /\ Head(q) = q[1] /\ Len(q) \in Nat \ {0}
      /\ \A j \in 1..Len(Tail(q)) : j + 1 \in 1..Len(q) /\ Tail(q)[j] = q[j + 1]
  BY TailOfList
<1>2. f \in Waits /\ f.at = "prog" /\ f.rest = Tail(q)
  BY <1>1, WaitFacts
<1>3. \A j \in 1..Len(Tail(q)) : Tail(q)[j] \in FreeExprs
  BY <1>1
<1>4. FreeControl(Eval(Head(q), n))
  <2>1. Head(q) \in FreeExprs
    BY <1>1
  <2>. QED  BY <2>1 DEF FreeControl, Eval
<1>5. \A i \in 1..Len(t) : FreeWait(t, i)
  <2>. HIDE DEF f
  <2>. QED  BY <1>2, <1>3, PushFree
<1>. QED  BY <1>4, <1>5

\* A step of a program whose calls are all tail calls.
LEMMA TightStep ==
    ASSUME OwnName, OneExpression, TailInv, AllTail[program], TCNext,
           FreeControl(control), \A i \in 1..Len(frames) : FreeWait(frames, i)
    PROVE  /\ FreeControl(control') /\ program' = program
           /\ \A i \in 1..Len(frames') : FreeWait(frames', i)
<1>1. body \in FreeExprs
  BY TailCallAssumption DEF TailInv, TailTypes, FreeExprs
<1>2. frames \in Seq(Waits) /\ program' = program
  BY DEF TailInv, TailTypes, TCNext, Emit, PlainCall, TailCall, If, List, SkipList, AddArgument,
         NextOfList, EndOfList, AddReturn, Loop, LoopEnd, defined
<1>3. \A v : FreeControl(Ret(v))
  BY DEF FreeControl, Ret
<1>4. \A e \in FreeExprs : \A n : FreeControl(Eval(e, n))
  BY DEF FreeControl, Eval
<1>5. ASSUME NEW k, Evaluates(k)
      PROVE  /\ control.e \in FreeExprs /\ control.e \in Cells /\ control.e.k = k /\ control.n \in Int
             /\ k \notin Leaf => /\ control.e.sub \in Seq(Cells) /\ Len(control.e.sub) \in Nat \ {0}
                                 /\ control.e.sub # << >>
                                 /\ \A j \in 1..Len(control.e.sub) : control.e.sub[j] \in FreeExprs
  <2>1. control.e \in FreeExprs /\ control.e \in Cells /\ control.e.k = k /\ control.n \in Int
    BY <1>5, Evaluating DEF Evaluates, FreeControl
  <2>2. ASSUME k \notin Leaf
        PROVE  control.e.sub \in Seq(Cells) /\ Len(control.e.sub) \in Nat \ {0}
    BY <2>1, <2>2, CellFacts
  <2>3. k \notin Leaf => control.e.sub # << >>
    BY <2>2, EmptySeq
  <2>4. k \notin Leaf => \A j \in 1..Len(control.e.sub) : control.e.sub[j] \in FreeExprs
    BY <2>1, FreeSubs
  <2>. QED  BY <2>1, <2>2, <2>3, <2>4
<1>6. CASE Emit
  BY <1>2, <1>3, <1>6 DEF Emit
<1>7. CASE PlainCall
  BY <1>5, <1>7, FreeCall DEF PlainCall
<1>8. CASE TailCall
  BY <1>2, <1>3, <1>8 DEF TailCall
<1>9. CASE If
  <2> DEFINE i == IF control.n = control.e.test THEN 1 ELSE 2
  <2>1. Evaluates("if") /\ control' = Eval(control.e.sub[i], control.n) /\ frames' = frames
    BY <1>9 DEF If
  <2>2. i \in 1..Len(control.e.sub)
    <3>1. Len(control.e.sub) = 2
      BY <2>1, <1>5, CellFacts DEF Leaf
    <3>2. i \in 1..2
      OBVIOUS
    <3>. QED  BY <3>1, <3>2
  <2>. HIDE DEF i
  <2>3. control.e.sub[i] \in FreeExprs
    BY <2>1, <2>2, <1>5 DEF Leaf
  <2>. QED  BY <2>1, <2>3, <1>2, <1>4
<1>10. CASE List
  <2>1. PICK k \in Sequenced : Evaluates(k)
    BY <1>10 DEF List
  <2>2. k \notin Leaf
    BY <2>1 DEF Leaf, Sequenced
  <2>3. /\ control' = Eval(Head(control.e.sub), control.n)
        /\ frames' = Append(frames, Prog(Tail(control.e.sub), control.n))
    BY <1>10 DEF List
  <2>4. /\ control.e.sub \in Seq(Cells) /\ control.e.sub # << >> /\ control.n \in Int
        /\ \A j \in 1..Len(control.e.sub) : control.e.sub[j] \in FreeExprs
    BY <2>1, <2>2, <1>5
  <2>. QED  BY <2>3, <2>4, <1>2, ListFree
<1>11. CASE SkipList
  BY <1>2, <1>3, <1>11 DEF SkipList
<1>12. CASE AddArgument
  <2>1. /\ Evaluates("add") /\ control' = Eval(control.e.sub[1], control.n)
        /\ frames' = Append(frames, Add)
    BY <1>12 DEF AddArgument
  <2>2. control.e.sub[1] \in FreeExprs
    BY <2>1, <1>5 DEF Leaf
  <2>3. \A i \in 1..Len(frames') : FreeWait(frames', i)
    BY <2>1, <1>2, WaitFacts, PushFree
  <2>. QED  BY <2>1, <2>2, <2>3, <1>2, <1>4
<1>13. CASE NextOfList
  <2>1. /\ Returns("prog") /\ Top.rest # << >> /\ control' = Eval(Head(Top.rest), Top.n)
        /\ frames' = Append(Front(frames), Prog(Tail(Top.rest), Top.n))
    BY <1>13 DEF NextOfList
  <2>2. /\ Top \in Waits /\ Top.at = "prog" /\ frames # << >> /\ Front(frames) \in Seq(Waits)
        /\ Len(frames) \in Nat \ {0} /\ Top = frames[Len(frames)]
    BY <2>1, Popping
  <2>3. /\ Top.rest \in Seq(Cells) /\ Top.n \in Int
        /\ \A j \in 1..Len(Top.rest) : Top.rest[j] \in FreeExprs
    BY <2>2, WaitFacts DEF FreeWait
  <2>4. \A i \in 1..Len(Front(frames)) : FreeWait(Front(frames), i)
    BY <2>2, <1>2, PopFree
  <2>. QED  BY <2>1, <2>2, <2>3, <2>4, <1>2, ListFree
<1>14. CASE EndOfList
  <2>1. frames # << >> /\ frames' = Front(frames) /\ control' = control
    BY <1>14 DEF EndOfList, Returns
  <2>. QED  BY <2>1, <1>2, PopFree
<1>15. CASE AddReturn
  <2>1. frames # << >> /\ frames' = Front(frames) /\ FreeControl(control')
    BY <1>15, <1>3 DEF AddReturn, Returns
  <2>. QED  BY <2>1, <1>2, PopFree
<1>16. CASE Loop
  BY <1>1, <1>2, <1>4, <1>16 DEF Loop
<1>17. CASE LoopEnd
  <2>1. frames # << >> /\ frames' = Front(frames) /\ control' = control
    BY <1>17 DEF LoopEnd, Returns
  <2>. QED  BY <2>1, <1>2, PopFree
<1>. QED
  BY <1>6, <1>7, <1>8, <1>9, <1>10, <1>11, <1>12, <1>13, <1>14, <1>15, <1>16, <1>17 DEF TCNext

LEMMA TightHolds == ASSUME OwnName, OneExpression  PROVE TCSpec => []TightInv
<1>1. TCInit => TightInv
  <2>. SUFFICES ASSUME TCInit, AllTail[program]
                PROVE  FreeControl(control) /\ \A i \in 1..Len(frames) : FreeWait(frames, i)
    BY DEF TightInv
  <2>1. body \in FreeExprs
    BY TailCallAssumption DEF TCInit, FreeExprs
  <2>2. control = Eval(body, first.arg) /\ frames = <<Func(first.symb)>>
    BY DEF TCInit
  <2>3. FreeControl(control)
    BY <2>1, <2>2 DEF FreeControl, Eval
  <2>4. \A i \in 1..Len(frames) : i = 1 /\ frames[i].at = "func"
    <3>1. Len(frames) = 1 /\ frames[1] = Func(first.symb)
      BY <2>2
    <3>2. \A i \in 1..1 : i = 1
      OBVIOUS
    <3>. QED  BY <3>1, <3>2 DEF Func
  <2>. QED  BY <2>3, <2>4 DEF FreeWait
<1>2. TailInv /\ TightInv /\ [TCNext]_tcVars => TightInv'
  <2>. SUFFICES ASSUME TailInv, TightInv, [TCNext]_tcVars  PROVE TightInv'
    OBVIOUS
  <2>1. CASE UNCHANGED tcVars
    <3>1. program' = program /\ control' = control /\ frames' = frames
      BY <2>1 DEF tcVars
    <3>. QED  BY <3>1 DEF TightInv, FreeControl, FreeWait
  <2>2. CASE TCNext
    <3>1. program' = program
      BY <2>2 DEF TCNext, Emit, PlainCall, TailCall, If, List, SkipList, AddArgument,
         NextOfList, EndOfList, AddReturn, Loop, LoopEnd, defined
    <3>2. ASSUME AllTail[program]
          PROVE  /\ FreeControl(control')
                 /\ \A i \in 1..Len(frames') : FreeWait(frames', i)
      BY <2>2, <3>2, TightStep DEF TightInv
    <3>3. /\ FreeControl(control)' <=> FreeControl(control')
          /\ (\A i \in 1..Len(frames) : FreeWait(frames, i))'
              <=> \A i \in 1..Len(frames') : FreeWait(frames', i)
      BY DEF FreeControl, FreeWait
    <3>. QED  BY <3>1, <3>2, <3>3 DEF TightInv
  <2>. QED  BY <2>1, <2>2
<1>. QED  BY <1>1, <1>2, TailInvHolds, PTL DEF TCSpec

\* When all the calls of a function are tail calls, and the function is called
\* by its own name, one activation of lisp_eval_func evaluates them all: the
\* stack does not grow with their number (eval.c:161).
THEOREM LoopIsTight == ASSUME OwnName, OneExpression  PROVE TCSpec => []TightLoop
<1>1. TailInv /\ TightInv => TightLoop
  <2>. SUFFICES ASSUME TailInv, TightInv, AllTail[program]
                PROVE  Cardinality({i \in DOMAIN frames : frames[i].at = "func"}) <= 1
    BY DEF TightLoop
  <2> DEFINE S == {i \in DOMAIN frames : frames[i].at = "func"}
  <2>1. DOMAIN frames = 1..Len(frames)
    BY TailFrames
  <2>2. S \subseteq {1}
    BY <2>1 DEF TightInv, FreeWait
  <2>. HIDE DEF S
  <2>3. IsFiniteSet({1}) /\ Cardinality({1}) = 1
    BY FS_Singleton
  <2>4. Cardinality(S) <= 1
    <3>1. IsFiniteSet(S) /\ Cardinality(S) <= Cardinality({1})
      BY <2>2, <2>3, FS_Subset
    <3>. QED  BY <3>1, <2>3
  <2>. QED  BY <2>4 DEF S
<1>. QED  BY <1>1, TailInvHolds, TightHolds, PTL

-----------------------------------------------------------------------------
\* The refinement: TailCall does what Evaluation does.
DueOf(c, b) == IF c.do = "ret" /\ c.val.t = "tail" THEN Eval(b, c.val.v) ELSE c

LEMMA DueFacts ==
    /\ Due = DueOf(control, body)
    /\ \A b, e, n : DueOf(Eval(e, n), b) = Eval(e, n)
    /\ \A b, v : DueOf(Ret(v), b) = IF v.t = "tail" THEN Eval(b, v.v) ELSE Ret(v)
    /\ \A b, c : c.do = "eval" => DueOf(c, b) = c
BY DEF Due, DueOf, Eval, Ret

LEMMA DueNext == Due' = DueOf(control', body')
BY DEF Due, DueOf, Eval

\* Evaluation writes expressions and activations as TailCall does.
LEMMA SameWords ==
    /\ \A e, n : Plain!Eval(e, n) = Eval(e, n)
    /\ \A v : Plain!Ret(v) = Ret(v)
    /\ \A s : Plain!Func(s) = Func(s)
    /\ \A r, n : Plain!Prog(r, n) = Prog(r, n)
    /\ Plain!Add = Add
    /\ \A i : Plain!Num(i) = Num(i)
    /\ Plain!NilValue = NilValue
    /\ \A e, n : Plain!Runs(e, n) <=> Runs(e, n)
    /\ Plain!Sequenced = Sequenced
    /\ Plain!Top = Top
    /\ \A s : Plain!Front(s) = Front(s)
BY DEF Plain!Eval, Eval, Plain!Ret, Ret, Plain!Func, Func, Plain!Prog, Prog, Plain!Add, Add,
       Plain!Num, Num, Plain!NilValue, NilValue, Plain!Runs, Runs, Plain!Sequenced, Sequenced,
       Plain!Top, Top, Plain!Last, Last, Plain!Front, Front

LEMMA PlainEvaluates ==
    ASSUME NEW k, Evaluates(k)
    PROVE  Plain!Evaluates(k) /\ Due = control
BY DueFacts DEF Evaluates, Plain!Evaluates

LEMMA PlainReturns ==
    ASSUME NEW at, Returns(at), control = Ret(control.val), control.val.t # "tail"
    PROVE  Plain!Returns(at) /\ Due = control
<1>1. Due = control
  BY DueFacts
<1>. QED  BY <1>1, SameWords DEF Returns, Plain!Returns

\* Every step is a step of Evaluation, or none.
LEMMA PlainStep ==
    ASSUME OwnName, OneExpression, TailInv, TCNext
    PROVE  Plain!Next \/ UNCHANGED <<body, Due, frames, log>>
<1>1. body' = body
  BY DEF TCNext, Emit, PlainCall, TailCall, If, List, SkipList, AddArgument,
         NextOfList, EndOfList, AddReturn, Loop, LoopEnd, defined
<1>2. Due' = DueOf(control', body)
  BY <1>1, DueNext
<1>3. CASE Emit
  <2>1. Plain!Evaluates("emit") /\ Due = control
    BY <1>3, PlainEvaluates DEF Emit
  <2>2. Due' = Ret(Num(Due.n))
    BY <1>2, <1>3, <2>1, DueFacts DEF Emit, Num
  <2>3. Plain!Emit
    BY <1>1, <1>3, <2>1, <2>2, SameWords DEF Emit, Plain!Emit
  <2>. QED  BY <2>3 DEF Plain!Next
<1>4. CASE PlainCall
  <2>1. Plain!Evaluates("call") /\ Due = control
    BY <1>4, PlainEvaluates DEF PlainCall
  <2>2. Due' = Eval(body, Due.n - 1)
    <3>1. control' = Eval(body, control.n - 1)
      BY <1>4 DEF PlainCall
    <3>2. DueOf(Eval(body, control.n - 1), body) = Eval(body, control.n - 1)
      BY DueFacts
    <3>. QED  BY <1>2, <2>1, <3>1, <3>2
  <2>3. Plain!Call
    BY <1>1, <1>4, <2>1, <2>2, SameWords DEF PlainCall, Plain!Call
  <2>. QED  BY <2>3 DEF Plain!Next
<1>5. CASE TailCall
  <2>1. Plain!Evaluates("call") /\ Due = control
    BY <1>5, PlainEvaluates DEF TailCall
  <2>2. control' = Ret(Record(control.n - 1))
    BY <1>5 DEF TailCall
  <2>3. Due' = Eval(body, Due.n - 1)
    BY <1>2, <2>1, <2>2, DueFacts DEF Record
  <2>4. Plain!Call
    BY <1>1, <1>5, <2>1, <2>3, SameWords DEF TailCall, Plain!Call
  <2>. QED  BY <2>4 DEF Plain!Next
<1>6. CASE If
  <2>1. Plain!Evaluates("if") /\ Due = control
    BY <1>6, PlainEvaluates DEF If
  <2>2. Due' = control'
    BY <1>2, <1>6, DueFacts DEF If
  <2>3. Plain!If
    BY <1>1, <1>6, <2>1, <2>2, SameWords DEF If, Plain!If
  <2>. QED  BY <2>3 DEF Plain!Next
<1>7. CASE List
  <2>1. PICK k \in Sequenced : Plain!Evaluates(k) /\ Due = control
    BY <1>7, PlainEvaluates DEF List
  <2>2. Due' = control'
    BY <1>2, <1>7, DueFacts DEF List
  <2>3. Plain!List
    BY <1>1, <1>7, <2>1, <2>2, SameWords DEF List, Plain!List
  <2>. QED  BY <2>3 DEF Plain!Next
<1>8. CASE SkipList
  <2>1. PICK k \in Sequenced : Plain!Evaluates(k) /\ Due = control
    BY <1>8, PlainEvaluates DEF SkipList
  <2>2. Due' = control'
    BY <1>2, <1>8, DueFacts DEF SkipList, NilValue
  <2>3. Plain!List
    BY <1>1, <1>8, <2>1, <2>2, SameWords DEF SkipList, Plain!List
  <2>. QED  BY <2>3 DEF Plain!Next
<1>9. CASE AddArgument
  <2>1. Plain!Evaluates("add") /\ Due = control
    BY <1>9, PlainEvaluates DEF AddArgument
  <2>2. Due' = control'
    BY <1>2, <1>9, DueFacts DEF AddArgument
  <2>3. Plain!Argument
    BY <1>1, <1>9, <2>1, <2>2, SameWords DEF AddArgument, Plain!Argument
  <2>. QED  BY <2>3 DEF Plain!Next
<1>10. CASE NextOfList
  <2>1. control = Ret(control.val) /\ control.val.t # "tail"
    BY <1>10, Popping DEF NextOfList
  <2>2. Plain!Returns("prog") /\ Due = control
    BY <1>10, <2>1, PlainReturns DEF NextOfList
  <2>3. Due' = control'
    BY <1>2, <1>10, DueFacts DEF NextOfList
  <2>4. Plain!NextOfList
    BY <1>1, <1>10, <2>2, <2>3, SameWords DEF NextOfList, Plain!NextOfList
  <2>. QED  BY <2>4 DEF Plain!Next
<1>11. CASE EndOfList
  <2>1. Due' = Due
    BY <1>2, <1>11, DueFacts DEF EndOfList
  <2>2. Plain!Drop
    BY <1>1, <1>11, <2>1, SameWords DEF EndOfList, Returns, Plain!Drop
  <2>. QED  BY <2>2 DEF Plain!Next
<1>12. CASE AddReturn
  <2>1. control = Ret(control.val) /\ control.val.t # "tail" /\ control.val \in TailValues
    BY <1>12, Popping DEF AddReturn
  <2>2. Plain!Returns("add") /\ Due = control
    BY <1>12, <2>1, PlainReturns DEF AddReturn
  <2>3. Due' = control'
    <3> DEFINE v == [control.val EXCEPT !.v = @ + 1]
    <3>1. v.t # "tail"
      BY <2>1 DEF TailValues
    <3>2. control' = Ret(v)
      BY <1>12 DEF AddReturn
    <3>. HIDE DEF v
    <3>. QED  BY <1>2, <3>1, <3>2, DueFacts
  <2>4. Plain!Sum
    BY <1>1, <1>12, <2>2, <2>3, SameWords DEF AddReturn, Plain!Sum
  <2>. QED  BY <2>4 DEF Plain!Next
<1>13. CASE Loop
  <2>1. control = Ret(control.val) /\ control.val.t = "tail"
    BY <1>13, Popping DEF Loop, Again
  <2>2. Due = Eval(body, control.val.v)
    BY <2>1, DueFacts
  <2>3. control' = Eval(body, control.val.v)
    BY <1>13 DEF Loop
  <2>4. Due' = Due
    BY <1>2, <2>2, <2>3, DueFacts
  <2>. QED  BY <1>1, <1>13, <2>4 DEF Loop
<1>14. CASE LoopEnd
  <2>1. Due' = Due
    BY <1>2, <1>14, DueFacts DEF LoopEnd
  <2>2. Plain!Drop
    BY <1>1, <1>14, <2>1, SameWords DEF LoopEnd, Returns, Plain!Drop
  <2>. QED  BY <2>2 DEF Plain!Next
<1>. QED
  BY <1>3, <1>4, <1>5, <1>6, <1>7, <1>8, <1>9, <1>10, <1>11, <1>12, <1>13, <1>14 DEF TCNext

LEMMA PlainInit == TCInit => Plain!Init
<1>. SUFFICES ASSUME TCInit  PROVE Plain!Init
  OBVIOUS
<1>1. Due = control
  BY DueFacts DEF TCInit
<1>2. first.symb \in Names /\ first.arg \in 0..MaxArg
  BY DEF TCInit
<1>3. body \in Marked
  BY DEF TCInit, Marked
<1>. QED  BY <1>1, <1>2, <1>3, SameWords DEF TCInit, Plain!Init

\* Tail calls are calls: when the function is called by its own name and the
\* bodies of its when and unless are one expression, it has the effects and
\* the value it would have without tail calls (utils.c:520, eval.c:161).
THEOREM TailCallsAreCalls == ASSUME OwnName, OneExpression  PROVE TCSpec => TailCallIsCall
<1>1. TailInv /\ [TCNext]_tcVars => [Plain!Next]_(Plain!vars)
  <2>. SUFFICES ASSUME TailInv, [TCNext]_tcVars  PROVE [Plain!Next]_(Plain!vars)
    OBVIOUS
  <2>1. CASE UNCHANGED tcVars
    <3>1. UNCHANGED <<body, control, frames, log>>
      BY <2>1 DEF tcVars
    <3>2. Due' = Due
      BY <3>1, DueFacts, DueNext
    <3>. QED  BY <3>1, <3>2 DEF Plain!vars
  <2>2. CASE TCNext
    BY <2>2, PlainStep DEF Plain!vars
  <2>. QED  BY <2>1, <2>2
<1>. QED  BY <1>1, PlainInit, TailInvHolds, PTL DEF TCSpec, TailCallIsCall, Plain!Spec
=============================================================================
