---------------------------- MODULE ClosureProofs ----------------------------
(***************************************************************************)
(* The closures of compiled code, for any functions, modules and blocks:   *)
(* no block is lost, shared or used after it was freed, and when the       *)
(* functions of a module have as many values each, all of them fit.  When  *)
(* all calls have returned, every block is free again.  And the blocks     *)
(* keep what the activations saved (Activations): the chain of blocks of a *)
(* call is its recursion, and no step of another call changes it.          *)
(***************************************************************************)
EXTENDS ClosureCache, SequenceLemmas, WellFoundedInduction

Call == [fn : Functions, C : Blocks \cup {NULL}, at : {"block", "clear"}]

(* The blocks of the continuations.                                        *)
Conts == [i \in DOMAIN stack |-> stack[i].C]

BlockOrNull == Blocks \cup {NULL}

(* Caches c, links l of the blocks A and blocks t of calls.                *)
Shape(c, l, A, t, n) ==
  /\ c \in [Modules -> BlockOrNull] /\ l \in [Blocks -> BlockOrNull]
  /\ A \subseteq Blocks
  /\ n \in Nat /\ t \in [1..n -> BlockOrNull]

(* No block is reached from two places ...                                 *)
Apart(c, l, A, t, n) ==
  /\ \A x, y \in Modules : c[x] # NULL /\ c[x] = c[y] => x = y
  /\ \A a, b \in A : l[a] # NULL /\ l[a] = l[b] => a = b
  /\ \A i, j \in 1..n : t[i] # NULL /\ t[i] = t[j] => i = j
  /\ \A x \in Modules, a \in A : c[x] # NULL => c[x] # l[a]
  /\ \A x \in Modules, i \in 1..n : c[x] # NULL => c[x] # t[i]
  /\ \A a \in A, i \in 1..n : l[a] # NULL => l[a] # t[i]

(* ... and the blocks reached are those of A.                              *)
Reached(c, l, A, t, n) ==
  /\ \A x \in Modules : c[x] # NULL => c[x] \in A
  /\ \A a \in A : l[a] # NULL => l[a] \in A
  /\ \A i \in 1..n : t[i] # NULL => t[i] \in A
  /\ \A b \in A : \/ \E x \in Modules : c[x] = b
                  \/ \E a \in A : l[a] = b
                  \/ \E i \in 1..n : t[i] = b

Exact(c, l, A, t, n) == Apart(c, l, A, t, n) /\ Reached(c, l, A, t, n)

(* The module own[b] each block belongs to: the caches and the links stay  *)
(* inside it, and it has the size of one of its functions ...              *)
Coloured(own) ==
  /\ own \in [Blocks -> Modules \cup {NULL}]
  /\ \A x \in Modules : cache[x] # NULL => own[cache[x]] = x
  /\ \A a \in Allocated : link[a] # NULL => own[link[a]] = own[a]
  /\ \A b \in Allocated : \E f \in Functions : Module[f] = own[b] /\ size[b] = Size[f]

(* ... and calls use the blocks of the module of their function.           *)
Used(own) ==
  \A i \in 1..Len(stack) : stack[i].C # NULL => own[stack[i].C] = Module[stack[i].fn]

ByModule == \E own : Coloured(own) /\ Used(own)

Local == Exact(cache, link, Allocated, Conts, Len(stack))

ClosureInv == TypeOK /\ Local /\ ByModule

-----------------------------------------------------------------------------
LEMMA TopFacts ==
  ASSUME TypeOK, stack # <<>>
  PROVE  /\ Len(stack) \in Nat \ {0} /\ DOMAIN stack = 1..Len(stack)
         /\ Top = stack[Len(stack)] /\ Top \in Call
         /\ Top.fn \in Functions /\ Top.C \in Blocks \cup {NULL}
         /\ Top.at \in {"block", "clear"}
         /\ Top.C = NULL <=> Top.at = "clear"
         /\ Front(stack) \in Seq(Call)
         /\ Module[Top.fn] \in Modules
<1>1. stack \in Seq(Call)
  BY DEF TypeOK, Call
<1>2. /\ Len(stack) \in Nat \ {0} /\ DOMAIN stack = 1..Len(stack)
      /\ Last(stack) = stack[Len(stack)] /\ Last(stack) \in Call
      /\ Front(stack) \in Seq(Call)
  BY <1>1, FrontLast
<1>3. Len(stack) \in DOMAIN stack
  BY <1>2
<1>. QED  BY <1>2, <1>3, ClosureAssumption DEF TypeOK, Top, Call

(* What SetTop does to the calls.                                          *)
LEMMA SetTopFacts ==
  ASSUME TypeOK, stack # <<>>, NEW c \in Blocks \cup {NULL}, NEW at \in {"block", "clear"},
         SetTop(c, at)
  PROVE  /\ stack' \in Seq(Call) /\ Len(stack') = Len(stack)
         /\ DOMAIN stack' = 1..Len(stack)
         /\ \A i \in 1..(Len(stack) - 1) : stack'[i] = stack[i]
         /\ stack'[Len(stack)] = [Top EXCEPT !.C = c, !.at = at]
         /\ stack'[Len(stack)].C = c /\ stack'[Len(stack)].at = at
         /\ stack'[Len(stack)].fn = Top.fn
<1> DEFINE e == [Top EXCEPT !.C = c, !.at = at]
<1>1. Top \in Call /\ e \in Call /\ e.C = c /\ e.at = at /\ e.fn = Top.fn
  BY TopFacts DEF Call
<1>2. /\ Front(stack) \in Seq(Call) /\ Len(Front(stack)) = Len(stack) - 1
      /\ Len(stack) \in Nat \ {0}
      /\ \A i \in 1..(Len(stack) - 1) : Front(stack)[i] = stack[i]
  BY FrontLast DEF TypeOK, Call
<1>3. stack' = Append(Front(stack), e)
  BY DEF SetTop
<1>. HIDE DEF e
<1>4. /\ stack' \in Seq(Call) /\ Len(stack') = Len(stack) - 1 + 1
      /\ DOMAIN stack' = 1..(Len(stack) - 1 + 1)
      /\ \A i \in 1..(Len(stack) - 1) : stack'[i] = Front(stack)[i]
      /\ stack'[Len(stack) - 1 + 1] = e
  BY <1>1, <1>2, <1>3, AppendFacts
<1>5. Len(stack) - 1 + 1 = Len(stack)
  BY <1>2
<1>. QED  BY <1>1, <1>2, <1>4, <1>5 DEF e

-----------------------------------------------------------------------------
(* One reference from the local form.                                      *)
LEMMA LocalIsOne == TypeOK /\ Local => OneReference
<1>. SUFFICES ASSUME TypeOK, Local  PROVE OneReference
  OBVIOUS
<1>. USE DEF Local, Exact, Apart, Reached
<1>1. DOMAIN stack = 1..Len(stack) /\ \A i \in 1..Len(stack) : Conts[i] = stack[i].C
  BY DEF TypeOK, Conts
<1>2. ASSUME NEW p \in Places
      PROVE  \/ p[1] = "cache" /\ p = <<"cache", p[2]>> /\ p[2] \in Modules /\ At(p) = cache[p[2]]
             \/ p[1] = "stack" /\ p = <<"stack", p[2]>> /\ p[2] \in 1..Len(stack) /\ At(p) = Conts[p[2]]
             \/ p[1] = "link" /\ p = <<"link", p[2]>> /\ p[2] \in Allocated /\ At(p) = link[p[2]]
  BY <1>1 DEF Places, At
<1>3. ASSUME NEW p \in Places, NEW q \in Places, At(p) = At(q), At(p) # NULL
      PROVE  p = q
  <2>1. p[1] = q[1] /\ p[2] = q[2]
    BY <1>2, <1>3
  <2>. QED  BY <1>2, <2>1
<1>4. ASSUME NEW p \in Places, At(p) # NULL  PROVE At(p) \in Allocated
  BY <1>2, <1>4
<1>5. ASSUME NEW b \in Allocated  PROVE \E p \in Places : At(p) = b
  <2>1. CASE \E x \in Modules : cache[x] = b
    <3>1. PICK x \in Modules : cache[x] = b
      BY <2>1
    <3>. QED  BY <3>1, <<"cache", x>> \in Places DEF Places, At
  <2>2. CASE \E a \in Allocated : link[a] = b
    <3>1. PICK a \in Allocated : link[a] = b
      BY <2>2
    <3>. QED  BY <3>1, <<"link", a>> \in Places DEF Places, At
  <2>3. CASE \E i \in 1..Len(stack) : Conts[i] = b
    <3>1. PICK i \in 1..Len(stack) : Conts[i] = b
      BY <2>3
    <3>. QED  BY <3>1, <1>1, <<"stack", i>> \in Places DEF Places, At
  <2>. QED  BY <2>1, <2>2, <2>3
<1>6. \A b \in Allocated : b # NULL
  BY ClosureAssumption DEF Allocated
<1>. QED  BY <1>3, <1>4, <1>5, <1>6 DEF OneReference

-----------------------------------------------------------------------------
(* The six moves.  A call without a block.                                 *)
LEMMA OneMoreCall ==
  ASSUME NEW c, NEW l, NEW A, NEW n, NEW t, NEW u,
         Shape(c, l, A, t, n), Exact(c, l, A, t, n),
         \A i \in 1..n : u[i] = t[i], u[n + 1] = NULL
  PROVE  Exact(c, l, A, u, n + 1)
<1>1. \A i \in 1..(n + 1) : i \in 1..n \/ i = n + 1
  BY DEF Shape
<1>2. \A i \in 1..n : i \in 1..(n + 1)
  BY DEF Shape
<1>3. NULL \notin A
  BY ClosureAssumption DEF Shape
<1>. QED  BY <1>1, <1>2, <1>3 DEF Exact, Apart, Reached

(* The last call has no block and goes.                                    *)
LEMMA OneLessCall ==
  ASSUME NEW c, NEW l, NEW A, NEW n \in Nat \ {0}, NEW t, NEW u,
         Shape(c, l, A, t, n), Exact(c, l, A, t, n), t[n] = NULL,
         \A i \in 1..(n - 1) : u[i] = t[i]
  PROVE  Exact(c, l, A, u, n - 1)
<1>1. \A i \in 1..n : i \in 1..(n - 1) \/ i = n
  OBVIOUS
<1>2. \A i \in 1..(n - 1) : i \in 1..n
  OBVIOUS
<1>3. NULL \notin A
  BY ClosureAssumption DEF Shape
<1>. QED  BY <1>1, <1>2, <1>3 DEF Exact, Apart, Reached

(* lisp_closure_get from the cache of m, for the call k.                   *)
LEMMA TakeCached ==
  ASSUME NEW c, NEW l, NEW A, NEW n, NEW t,
         Shape(c, l, A, t, n), Exact(c, l, A, t, n),
         NEW m \in Modules, NEW k \in 1..n, c[m] # NULL
  PROVE  Exact([c EXCEPT ![m] = l[c[m]]], [l EXCEPT ![c[m]] = t[k]], A,
               [t EXCEPT ![k] = c[m]], n)
<1> DEFINE b == c[m]
           c2 == [c EXCEPT ![m] = l[b]]
           l2 == [l EXCEPT ![b] = t[k]]
           t2 == [t EXCEPT ![k] = b]
<1>1. b \in A /\ b # NULL /\ A \subseteq Blocks
  BY DEF Exact, Reached, Shape
<1>2. \A x \in Modules : c2[x] = IF x = m THEN l[b] ELSE c[x]
  BY DEF Shape
<1>3. \A a \in A : l2[a] = IF a = b THEN t[k] ELSE l[a]
  BY <1>1 DEF Shape
<1>4. \A i \in 1..n : t2[i] = IF i = k THEN b ELSE t[i]
  BY DEF Shape
<1>. HIDE DEF c2, l2, t2
<1>5. Apart(c2, l2, A, t2, n)
  BY <1>1, <1>2, <1>3, <1>4 DEF Exact, Apart
<1>6. Reached(c2, l2, A, t2, n)
  <2>1. /\ \A x \in Modules : c2[x] # NULL => c2[x] \in A
        /\ \A a \in A : l2[a] # NULL => l2[a] \in A
        /\ \A i \in 1..n : t2[i] # NULL => t2[i] \in A
    BY <1>1, <1>2, <1>3, <1>4 DEF Exact, Reached
  <2>2. ASSUME NEW e \in A
        PROVE  \/ \E x \in Modules : c2[x] = e
               \/ \E a \in A : l2[a] = e
               \/ \E i \in 1..n : t2[i] = e
    BY <1>1, <1>2, <1>3, <1>4 DEF Exact, Reached
  <2>. QED  BY <2>1, <2>2 DEF Reached
<1>. QED  BY <1>5, <1>6 DEF Exact, c2, l2, t2

(* lisp_closure_get from malloc, for the call k.                           *)
LEMMA TakeFresh ==
  ASSUME NEW c, NEW l, NEW A, NEW n, NEW t,
         Shape(c, l, A, t, n), Exact(c, l, A, t, n),
         NEW b \in Blocks \ A, NEW k \in 1..n
  PROVE  Exact(c, [l EXCEPT ![b] = t[k]], A \cup {b}, [t EXCEPT ![k] = b], n)
<1> DEFINE B == A \cup {b}
           l2 == [l EXCEPT ![b] = t[k]]
           t2 == [t EXCEPT ![k] = b]
<1>1. b # NULL /\ B \subseteq Blocks /\ \A a \in A : a # b
  BY ClosureAssumption DEF Shape
<1>3. \A a \in B : l2[a] = IF a = b THEN t[k] ELSE l[a]
  BY <1>1 DEF Shape
<1>4. \A i \in 1..n : t2[i] = IF i = k THEN b ELSE t[i]
  BY DEF Shape
<1>. HIDE DEF l2, t2
<1>5. Apart(c, l2, B, t2, n)
  BY <1>1, <1>3, <1>4 DEF Exact, Apart, Reached
<1>6. Reached(c, l2, B, t2, n)
  <2>1. /\ \A x \in Modules : c[x] # NULL => c[x] \in B
        /\ \A a \in B : l2[a] # NULL => l2[a] \in B
        /\ \A i \in 1..n : t2[i] # NULL => t2[i] \in B
    BY <1>1, <1>3, <1>4 DEF Exact, Reached
  <2>2. ASSUME NEW e \in B
        PROVE  \/ \E x \in Modules : c[x] = e
               \/ \E a \in B : l2[a] = e
               \/ \E i \in 1..n : t2[i] = e
    BY <1>1, <1>3, <1>4 DEF Exact, Reached
  <2>. QED  BY <2>1, <2>2 DEF Reached
<1>. QED  BY <1>5, <1>6 DEF Exact, l2, t2

(* lisp_closure_put of the block of the call k in the cache of m.          *)
LEMMA PutBlock ==
  ASSUME NEW c, NEW l, NEW A, NEW n, NEW t,
         Shape(c, l, A, t, n), Exact(c, l, A, t, n),
         NEW m \in Modules, NEW k \in 1..n, t[k] # NULL
  PROVE  Exact([c EXCEPT ![m] = t[k]], [l EXCEPT ![t[k]] = c[m]], A,
               [t EXCEPT ![k] = l[t[k]]], n)
<1> DEFINE b == t[k]
           c2 == [c EXCEPT ![m] = b]
           l2 == [l EXCEPT ![b] = c[m]]
           t2 == [t EXCEPT ![k] = l[b]]
<1>1. b \in A /\ b # NULL /\ A \subseteq Blocks
  BY DEF Exact, Reached, Shape
<1>2. \A x \in Modules : c2[x] = IF x = m THEN b ELSE c[x]
  BY DEF Shape
<1>3. \A a \in A : l2[a] = IF a = b THEN c[m] ELSE l[a]
  BY <1>1 DEF Shape
<1>4. \A i \in 1..n : t2[i] = IF i = k THEN l[b] ELSE t[i]
  BY DEF Shape
<1>. HIDE DEF c2, l2, t2
<1>5. Apart(c2, l2, A, t2, n)
  BY <1>1, <1>2, <1>3, <1>4 DEF Exact, Apart
<1>6. Reached(c2, l2, A, t2, n)
  <2>1. /\ \A x \in Modules : c2[x] # NULL => c2[x] \in A
        /\ \A a \in A : l2[a] # NULL => l2[a] \in A
        /\ \A i \in 1..n : t2[i] # NULL => t2[i] \in A
    BY <1>1, <1>2, <1>3, <1>4 DEF Exact, Reached
  <2>2. ASSUME NEW e \in A
        PROVE  \/ \E x \in Modules : c2[x] = e
               \/ \E a \in A : l2[a] = e
               \/ \E i \in 1..n : t2[i] = e
    BY <1>1, <1>2, <1>3, <1>4 DEF Exact, Reached
  <2>. QED  BY <2>1, <2>2 DEF Reached
<1>. QED  BY <1>5, <1>6 DEF Exact, c2, l2, t2

(* One turn of lisp_closure_clear on the cache of m.                       *)
LEMMA FreeCached ==
  ASSUME NEW c, NEW l, NEW A, NEW n, NEW t,
         Shape(c, l, A, t, n), Exact(c, l, A, t, n),
         NEW m \in Modules, c[m] # NULL
  PROVE  Exact([c EXCEPT ![m] = l[c[m]]], l, A \ {c[m]}, t, n)
<1> DEFINE b == c[m]
           B == A \ {b}
           c2 == [c EXCEPT ![m] = l[b]]
<1>1. b \in A /\ b # NULL
  BY DEF Exact, Reached
<1>2. \A x \in Modules : c2[x] = IF x = m THEN l[b] ELSE c[x]
  BY DEF Shape
<1>. HIDE DEF c2
<1>3. l[b] # b
  BY <1>1 DEF Exact, Apart
<1>5. Apart(c2, l, B, t, n)
  BY <1>1, <1>2 DEF Exact, Apart
<1>6. Reached(c2, l, B, t, n)
  <2>1. /\ \A x \in Modules : c2[x] # NULL => c2[x] \in B
        /\ \A a \in B : l[a] # NULL => l[a] \in B
        /\ \A i \in 1..n : t[i] # NULL => t[i] \in B
    BY <1>1, <1>2, <1>3 DEF Exact, Apart, Reached
  <2>2. ASSUME NEW e \in B
        PROVE  \/ \E x \in Modules : c2[x] = e
               \/ \E a \in B : l[a] = e
               \/ \E i \in 1..n : t[i] = e
    BY <1>1, <1>2 DEF Exact, Reached
  <2>. QED  BY <2>1, <2>2 DEF Reached
<1>. QED  BY <1>5, <1>6 DEF Exact, c2

-----------------------------------------------------------------------------
LEMMA ShapeHolds ==
  TypeOK => /\ Shape(cache, link, Allocated, Conts, Len(stack))
            /\ stack \in Seq(Call)
            /\ DOMAIN stack = 1..Len(stack) /\ Len(stack) \in Nat
<1>. SUFFICES ASSUME TypeOK
              PROVE  /\ Shape(cache, link, Allocated, Conts, Len(stack))
                     /\ stack \in Seq(Call)
                     /\ DOMAIN stack = 1..Len(stack) /\ Len(stack) \in Nat
  OBVIOUS
<1>1. stack \in Seq(Call) /\ DOMAIN stack = 1..Len(stack) /\ Len(stack) \in Nat
  BY DEF TypeOK, Call
<1>2. \A i \in 1..Len(stack) : stack[i].C \in BlockOrNull
  <2>1. \A i \in 1..Len(stack) : stack[i] \in Call
    BY <1>1
  <2>. QED  BY <2>1 DEF Call, BlockOrNull
<1>. QED  BY <1>1, <1>2 DEF TypeOK, Shape, Allocated, Conts, BlockOrNull

(* The blocks of the calls after SetTop.                                   *)
LEMMA SetTopConts ==
  ASSUME TypeOK, stack # <<>>, NEW c \in Blocks \cup {NULL}, NEW at \in {"block", "clear"},
         SetTop(c, at)
  PROVE  Conts' = [Conts EXCEPT ![Len(stack)] = c] /\ Len(stack') = Len(stack)
         /\ Len(stack) \in 1..Len(stack) /\ Conts[Len(stack)] = Top.C
<1>1. /\ Len(stack') = Len(stack) /\ DOMAIN stack' = 1..Len(stack)
      /\ \A i \in 1..(Len(stack) - 1) : stack'[i] = stack[i]
      /\ stack'[Len(stack)].C = c
  BY SetTopFacts
<1>2. /\ Len(stack) \in Nat \ {0} /\ DOMAIN stack = 1..Len(stack)
      /\ Top = stack[Len(stack)]
  BY TopFacts
<1>3. Len(stack) \in 1..Len(stack)
      /\ \A i \in 1..Len(stack) : i \in 1..(Len(stack) - 1) \/ i = Len(stack)
  <2>. DEFINE n == Len(stack)
  <2>1. n \in Nat \ {0}
    BY <1>2
  <2>. HIDE DEF n
  <2>2. n \in 1..n /\ \A i \in 1..n : i \in 1..(n - 1) \/ i = n
    BY <2>1
  <2>. QED  BY <2>2 DEF n
<1>4. \A i \in 1..Len(stack) : stack'[i].C = IF i = Len(stack) THEN c ELSE stack[i].C
  BY <1>1, <1>3
<1>. QED  BY <1>1, <1>2, <1>3, <1>4 DEF Conts

(* What lisp_closure_get does, on top of the block of the call k in t.     *)
LEMMA GetExact ==
  ASSUME TypeOK, NEW f \in Functions, NEW b \in Blocks, NEW v, NEW n, NEW t, NEW k \in 1..n,
         Shape(cache, link, Allocated, t, n), Exact(cache, link, Allocated, t, n),
         Get(f, cache, link, t[k], b, v)
  PROVE  Exact(cache', link', Allocated', [t EXCEPT ![k] = b], n)
<1>1. CacheOf(f) \in Modules
  BY ClosureAssumption DEF CacheOf
<1>2. CASE cache[CacheOf(f)] # NULL
  <2>1. /\ b = cache[CacheOf(f)] /\ cache' = [cache EXCEPT ![CacheOf(f)] = link[b]]
        /\ link' = [link EXCEPT ![b] = t[k]] /\ size' = size
    BY <1>2 DEF Get
  <2>2. Allocated' = Allocated
    BY <2>1 DEF Allocated
  <2>. QED  BY <1>1, <1>2, <2>1, <2>2, TakeCached
<1>3. CASE cache[CacheOf(f)] = NULL
  <2>1. /\ b \notin Allocated /\ size' = [size EXCEPT ![b] = Size[f]]
        /\ cache' = cache /\ link' = [link EXCEPT ![b] = t[k]]
    BY <1>3 DEF Get, Malloc
  <2>2. Allocated' = Allocated \cup {b}
    BY <2>1, ClosureAssumption DEF Allocated, TypeOK
  <2>. QED  BY <2>1, <2>2, TakeFresh
<1>. QED  BY <1>2, <1>3

(* What lisp_closure_get keeps.                                            *)
LEMMA GetTypes ==
  ASSUME TypeOK, NEW f \in Functions, NEW b \in Blocks, NEW v \in Values,
         NEW up \in BlockOrNull, Get(f, cache, link, up, b, v)
  PROVE  /\ size' \in [Blocks -> {0} \cup {Size[g] : g \in Functions}]
         /\ link' \in [Blocks -> Blocks \cup {NULL}]
         /\ value' \in [Blocks -> Values]
         /\ cache' \in [Modules -> Blocks \cup {NULL}]
<1>1. link' \in [Blocks -> Blocks \cup {NULL}] /\ value' \in [Blocks -> Values]
  BY DEF TypeOK, Get, BlockOrNull
<1>2. CASE cache[CacheOf(f)] # NULL
  <2>1. size' = size /\ cache' = [cache EXCEPT ![CacheOf(f)] = link[b]]
    BY <1>2 DEF Get
  <2>. QED  BY <1>1, <2>1 DEF TypeOK
<1>3. CASE cache[CacheOf(f)] = NULL
  <2>1. size' = [size EXCEPT ![b] = Size[f]] /\ cache' = cache
    BY <1>3 DEF Get, Malloc
  <2>. QED  BY <1>1, <2>1 DEF TypeOK
<1>. QED  BY <1>2, <1>3

(* A tail call gets the block it puts.                                     *)
LEMMA TailCallSame ==
  ASSUME TypeOK, Running, NEW b \in Blocks, NEW v \in Values,
         Get(Top.fn, PutCache(Top.fn, Top.C), PutLink(Top.fn, Top.C), link[Top.C], b, v)
  PROVE  /\ b = Top.C /\ cache' = cache /\ link' = link /\ size' = size
         /\ value' = [value EXCEPT ![b] = v]
<1>1. Top.fn \in Functions /\ Top.C \in Blocks /\ CacheOf(Top.fn) \in Modules
  BY TopFacts DEF Running, CacheOf
<1>2. Top.C # NULL
  BY <1>1, ClosureAssumption
<1>3. PutCache(Top.fn, Top.C)[CacheOf(Top.fn)] = Top.C
  BY <1>1 DEF PutCache, TypeOK
<1>4. /\ b = Top.C
      /\ cache' = [PutCache(Top.fn, Top.C) EXCEPT ![CacheOf(Top.fn)] = PutLink(Top.fn, Top.C)[b]]
      /\ link' = [PutLink(Top.fn, Top.C) EXCEPT ![b] = link[Top.C]]
      /\ size' = size /\ value' = [value EXCEPT ![b] = v]
  BY <1>2, <1>3 DEF Get
<1>5. PutLink(Top.fn, Top.C)[b] = cache[CacheOf(Top.fn)]
  BY <1>1, <1>4 DEF PutLink, TypeOK
<1>6. cache' = cache
  BY <1>1, <1>4, <1>5 DEF PutCache, TypeOK
<1>7. link' = link
  BY <1>1, <1>4 DEF PutLink, TypeOK
<1>. QED  BY <1>4, <1>6, <1>7

(* The module of the block that lisp_closure_get returns.                  *)
LEMMA GetColoured ==
  ASSUME TypeOK, Local, NEW own, Coloured(own),
         NEW f \in Functions, NEW b \in Blocks, NEW v,
         NEW up \in Allocated \cup {NULL}, up # NULL => own[up] = Module[f],
         Get(f, cache, link, up, b, v)
  PROVE  \E new : /\ Coloured(new)' /\ new[b] = Module[f]
                  /\ \A e \in Allocated : new[e] = own[e]
<1>1. Module[f] \in Modules /\ CacheOf(f) = Module[f]
  BY ClosureAssumption DEF CacheOf
<1>2. CASE cache[CacheOf(f)] # NULL
  <2>1. /\ b = cache[Module[f]] /\ cache' = [cache EXCEPT ![Module[f]] = link[b]]
        /\ link' = [link EXCEPT ![b] = up] /\ size' = size
    BY <1>1, <1>2 DEF Get
  <2>2. Allocated' = Allocated /\ b \in Allocated /\ own[b] = Module[f]
    BY <1>1, <1>2, <2>1 DEF Allocated, Local, Exact, Reached, Coloured
  <2>3. Coloured(own)'
    <3>1. \A x \in Modules : cache'[x] # NULL => own[cache'[x]] = x
      BY <1>1, <2>1, <2>2 DEF Coloured, TypeOK
    <3>2. \A a \in Allocated : link'[a] # NULL => own[link'[a]] = own[a]
      BY <1>1, <2>1, <2>2 DEF Coloured, TypeOK
    <3>. QED  BY <2>1, <2>2, <3>1, <3>2 DEF Coloured
  <2>. QED  BY <2>2, <2>3
<1>3. CASE cache[CacheOf(f)] = NULL
  <2>1. /\ b \notin Allocated /\ size' = [size EXCEPT ![b] = Size[f]]
        /\ cache' = cache /\ link' = [link EXCEPT ![b] = up]
    BY <1>3 DEF Get, Malloc
  <2> DEFINE new == [own EXCEPT ![b] = Module[f]]
  <2>2. /\ Allocated' = Allocated \cup {b} /\ size'[b] = Size[f]
        /\ \A e \in Allocated : size'[e] = size[e]
    BY <2>1, ClosureAssumption DEF Allocated, TypeOK
  <2>3. /\ new \in [Blocks -> Modules \cup {NULL}] /\ new[b] = Module[f]
        /\ \A e \in Blocks : e # b => new[e] = own[e]
    BY <1>1 DEF Coloured
  <2>4. Allocated \subseteq Blocks /\ NULL \notin Blocks
    BY ClosureAssumption DEF Allocated
  <2>. HIDE DEF new
  <2>5. \A e \in Allocated : new[e] = own[e]
    BY <2>1, <2>3, <2>4
  <2>6. \A x \in Modules : cache'[x] # NULL => new[cache'[x]] = x
    BY <2>1, <2>5 DEF Coloured, Local, Exact, Reached
  <2>7. \A a \in Allocated \cup {b} : link'[a] # NULL => new[link'[a]] = new[a]
    <3>1. ASSUME NEW a \in Allocated, link'[a] # NULL  PROVE new[link'[a]] = new[a]
      <4>1. link'[a] = link[a]
        BY <2>1, <2>4 DEF TypeOK
      <4>2. link[a] \in Allocated /\ own[link[a]] = own[a]
        BY <3>1, <4>1 DEF Coloured, Local, Exact, Reached
      <4>. QED  BY <2>5, <4>1, <4>2
    <3>2. ASSUME link'[b] # NULL  PROVE new[link'[b]] = new[b]
      <4>1. link'[b] = up
        BY <2>1 DEF TypeOK
      <4>. QED  BY <2>3, <2>5, <3>2, <4>1
    <3>. QED  BY <3>1, <3>2
  <2>8. \A e \in Allocated \cup {b} :
          \E g \in Functions : Module[g] = new[e] /\ size'[e] = Size[g]
    <3>1. \A e \in Allocated : \E g \in Functions : Module[g] = own[e] /\ size[e] = Size[g]
      BY DEF Coloured
    <3>. QED  BY <3>1, <2>2, <2>3, <2>5
  <2>9. Coloured(new)'
    BY <2>2, <2>3, <2>6, <2>7, <2>8 DEF Coloured
  <2>. QED  BY <2>3, <2>5, <2>9
<1>. QED  BY <1>2, <1>3

LEMMA InitInv == Init => ClosureInv
<1>. SUFFICES ASSUME Init  PROVE ClosureInv
  OBVIOUS
<1>1. TypeOK
  BY DEF Init, TypeOK
<1>2. Allocated = {} /\ Len(stack) = 0
  BY DEF Init, Allocated
<1>3. Local
  BY <1>2 DEF Init, Local, Exact, Apart, Reached
<1>4. ByModule
  <2> DEFINE own == [b \in Blocks |-> NULL]
  <2>1. Coloured(own) /\ Used(own)
    BY <1>2 DEF Init, Coloured, Used
  <2>. QED  BY <2>1 DEF ByModule
<1>. QED  BY <1>1, <1>3, <1>4 DEF ClosureInv

(* A call from LISP: one more call, without a block at first.              *)
LEMMA EnterInv ==
  ASSUME ClosureInv, NEW f \in Functions, Enter(f)
  PROVE  ClosureInv'
<1>1. PICK b \in Blocks, v \in Values :
        /\ Get(f, cache, link, NULL, b, v)
        /\ stack' = Append(stack, [fn |-> f, C |-> b, at |-> "block"])
  BY DEF Enter
<1> DEFINE e == [fn |-> f, C |-> b, at |-> "block"]
           n == Len(stack)
<1>2. e \in Call /\ e.C = b /\ e.fn = f /\ e.at = "block" /\ b # NULL
  BY ClosureAssumption DEF Call
<1>3. TypeOK /\ Local /\ stack \in Seq(Call) /\ NULL \in BlockOrNull /\ stack' = Append(stack, e)
      /\ Shape(cache, link, Allocated, Conts, n)
  BY <1>1, ShapeHolds DEF ClosureInv, BlockOrNull
<1>. HIDE DEF e
<1>4. /\ stack' \in Seq(Call) /\ n \in Nat /\ Len(stack') = n + 1
      /\ DOMAIN stack = 1..n /\ DOMAIN stack' = 1..(n + 1)
      /\ \A i \in 1..n : stack'[i] = stack[i]
      /\ stack'[n + 1] = e
  BY <1>3, <1>2, AppendFacts
<1>. HIDE DEF n
<1>5. n + 1 \in 1..(n + 1) /\ \A i \in 1..(n + 1) : i \in 1..n \/ i = n + 1
  BY <1>4
<1>6. \A i \in 1..n : i \in 1..(n + 1) /\ i # n + 1
  BY <1>4
<1>7. TypeOK'
  <2>1. \A i \in 1..(n + 1) : stack'[i].C = NULL <=> stack'[i].at = "clear"
    <3>1. \A i \in 1..n : stack[i].C = NULL <=> stack[i].at = "clear"
      BY <1>3, <1>4 DEF TypeOK
    <3>. QED  BY <3>1, <1>2, <1>4, <1>5
  <2>2. /\ size' \in [Blocks -> {0} \cup {Size[g] : g \in Functions}]
        /\ link' \in [Blocks -> Blocks \cup {NULL}]
        /\ value' \in [Blocks -> Values]
        /\ cache' \in [Modules -> Blocks \cup {NULL}]
    BY <1>1, <1>3, GetTypes
  <2>. QED  BY <2>1, <2>2, <1>4 DEF TypeOK, Call
<1>8. Local'
  <2> DEFINE t == [i \in 1..(n + 1) |-> IF i = n + 1 THEN NULL ELSE Conts[i]]
  <2>1. /\ \A i \in 1..n : t[i] = Conts[i]
        /\ t[n + 1] = NULL
        /\ t \in [1..(n + 1) -> BlockOrNull]
    <3>1. \A i \in 1..n : Conts[i] \in BlockOrNull
      BY <1>3 DEF Shape
    <3>. QED  BY <3>1, <1>3, <1>5, <1>6
  <2>2. Conts' = [t EXCEPT ![n + 1] = b]
    <3>1. \A i \in 1..(n + 1) : stack'[i].C = IF i = n + 1 THEN b ELSE Conts[i]
      BY <1>2, <1>4, <1>5 DEF Conts
    <3>2. Conts' = [i \in 1..(n + 1) |-> stack'[i].C]
      BY <1>4 DEF Conts
    <3>. QED  BY <3>1, <3>2
  <2>. HIDE DEF t
  <2>3. Shape(cache, link, Allocated, t, n + 1)
    BY <2>1, <1>3, <1>4 DEF Shape
  <2>4. Exact(cache, link, Allocated, Conts, n)
    BY <1>3 DEF Local, n
  <2>5. Exact(cache, link, Allocated, t, n + 1)
    BY <2>1, <2>4, <1>3, OneMoreCall
  <2>6. Get(f, cache, link, t[n + 1], b, v)
    BY <1>1, <2>1
  <2>7. Exact(cache', link', Allocated', [t EXCEPT ![n + 1] = b], n + 1)
    BY <1>3, <1>5, <2>3, <2>5, <2>6, GetExact
  <2>. QED  BY <2>2, <2>7, <1>4 DEF Local
<1>9. ByModule'
  <2>1. PICK own : Coloured(own) /\ Used(own)
    BY DEF ClosureInv, ByModule
  <2>2. PICK new : /\ Coloured(new)' /\ new[b] = Module[f]
                   /\ \A d \in Allocated : new[d] = own[d]
    BY <1>1, <1>3, <2>1, GetColoured
  <2>3. \A i \in 1..n : stack[i].C # NULL => stack[i].C \in Allocated
    BY <1>3, <1>4 DEF Local, Exact, Reached, Conts, n
  <2>4. \A i \in 1..(n + 1) : stack'[i].C # NULL => new[stack'[i].C] = Module[stack'[i].fn]
    <3>1. ASSUME NEW i \in 1..n, stack[i].C # NULL
          PROVE  new[stack[i].C] = Module[stack[i].fn]
      BY <2>1, <2>2, <2>3, <3>1 DEF Used, n
    <3>. QED  BY <3>1, <2>2, <1>2, <1>4, <1>5
  <2>. QED  BY <2>2, <2>4, <1>4 DEF ByModule, Used
<1>. QED  BY <1>7, <1>8, <1>9 DEF ClosureInv

(* What SetTop does to the types and to the modules of the blocks in use.  *)
LEMMA SetTopKeeps ==
  ASSUME TypeOK, stack # <<>>, NEW c \in Blocks \cup {NULL}, NEW at \in {"block", "clear"},
         c = NULL <=> at = "clear", SetTop(c, at)
  PROVE  /\ stack' \in Seq(Call)
         /\ \A i \in DOMAIN stack' : stack'[i].C = NULL <=> stack'[i].at = "clear"
         /\ \A own : (\A i \in 1..(Len(stack) - 1) : stack[i].C # NULL =>
                         own[stack[i].C] = Module[stack[i].fn])
                     /\ (c # NULL => own[c] = Module[Top.fn])
                   => Used(own)'
<1>1. /\ stack' \in Seq(Call) /\ Len(stack') = Len(stack) /\ DOMAIN stack' = 1..Len(stack)
      /\ \A i \in 1..(Len(stack) - 1) : stack'[i] = stack[i]
      /\ stack'[Len(stack)].C = c /\ stack'[Len(stack)].at = at
      /\ stack'[Len(stack)].fn = Top.fn
  BY SetTopFacts
<1>2. Len(stack) \in Nat \ {0} /\ DOMAIN stack = 1..Len(stack)
  BY TopFacts
<1>3. \A i \in 1..Len(stack) : i \in 1..(Len(stack) - 1) \/ i = Len(stack)
  <2>. DEFINE n == Len(stack)
  <2>1. n \in Nat \ {0}
    BY <1>2
  <2>. HIDE DEF n
  <2>2. \A i \in 1..n : i \in 1..(n - 1) \/ i = n
    BY <2>1
  <2>. QED  BY <2>2 DEF n
<1>4. \A i \in 1..(Len(stack) - 1) : i \in DOMAIN stack
  BY <1>2
<1>5. \A i \in DOMAIN stack' : stack'[i].C = NULL <=> stack'[i].at = "clear"
  <2>1. \A i \in 1..(Len(stack) - 1) : stack'[i].C = NULL <=> stack'[i].at = "clear"
    BY <1>1, <1>4 DEF TypeOK
  <2>. QED  BY <2>1, <1>1, <1>3
<1>6. ASSUME NEW own,
             \A i \in 1..(Len(stack) - 1) : stack[i].C # NULL =>
               own[stack[i].C] = Module[stack[i].fn],
             c # NULL => own[c] = Module[Top.fn]
      PROVE  Used(own)'
  <2>1. \A i \in 1..Len(stack) : stack'[i].C # NULL => own[stack'[i].C] = Module[stack'[i].fn]
    BY <1>6, <1>1, <1>3
  <2>. QED  BY <2>1, <1>1 DEF Used
<1>. QED  BY <1>1, <1>5, <1>6

(* The blocks in use are allocated and belong to the module of their call. *)
LEMMA UsedBlocks ==
  ASSUME ClosureInv, NEW own, Used(own)
  PROVE  \A i \in 1..Len(stack) : stack[i].C # NULL =>
           stack[i].C \in Allocated /\ own[stack[i].C] = Module[stack[i].fn]
BY ShapeHolds DEF ClosureInv, Local, Exact, Reached, Conts, Used

LEMMA RunningTop ==
  ASSUME ClosureInv, Running
  PROVE  /\ stack # <<>> /\ Top.C \in Allocated /\ Top.C # NULL /\ Top.C \in Blocks
         /\ Top.fn \in Functions
         /\ Len(stack) \in 1..Len(stack) /\ Conts[Len(stack)] = Top.C
         /\ \A own : Used(own) => own[Top.C] = Module[Top.fn]
<1>1. TypeOK /\ stack # <<>> /\ Top.at = "block"
  BY DEF ClosureInv, Running
<1>2. /\ Len(stack) \in Nat \ {0} /\ DOMAIN stack = 1..Len(stack)
      /\ Top = stack[Len(stack)] /\ Top.fn \in Functions /\ Top.C \in Blocks \cup {NULL}
      /\ Top.C = NULL <=> Top.at = "clear"
  BY <1>1, TopFacts
<1>3. Len(stack) \in 1..Len(stack)
  BY <1>2
<1>4. Top.C # NULL
  BY <1>1, <1>2
<1>5. Top.C \in Allocated
  BY <1>2, <1>3, <1>4 DEF ClosureInv, Local, Exact, Reached, Conts
<1>. QED  BY <1>1, <1>2, <1>3, <1>4, <1>5 DEF Conts, Used, Allocated

LEMMA RecCallInv ==
  ASSUME ClosureInv, RecCall
  PROVE  ClosureInv'
<1>1. PICK b \in Blocks, v \in Values :
        Get(Top.fn, cache, link, Top.C, b, v) /\ SetTop(b, "block")
  BY DEF RecCall
<1>2. /\ stack # <<>> /\ Top.C \in Allocated /\ Top.C # NULL /\ Top.C \in Blocks
      /\ Top.fn \in Functions
      /\ Len(stack) \in 1..Len(stack) /\ Conts[Len(stack)] = Top.C
      /\ \A own : Used(own) => own[Top.C] = Module[Top.fn]
  BY RunningTop DEF RecCall
<1>3. TypeOK /\ Local /\ b # NULL /\ Shape(cache, link, Allocated, Conts, Len(stack))
  BY ShapeHolds, ClosureAssumption DEF ClosureInv
<1>4. TypeOK'
  <2>1. Top.C \in BlockOrNull
    BY <1>2 DEF BlockOrNull
  <2>2. /\ size' \in [Blocks -> {0} \cup {Size[g] : g \in Functions}]
        /\ link' \in [Blocks -> Blocks \cup {NULL}]
        /\ value' \in [Blocks -> Values]
        /\ cache' \in [Modules -> Blocks \cup {NULL}]
    BY <1>1, <1>2, <1>3, <2>1, GetTypes
  <2>. QED  BY <2>2, <1>1, <1>2, <1>3, SetTopKeeps DEF TypeOK, Call
<1>5. Local'
  <2>1. Conts' = [Conts EXCEPT ![Len(stack)] = b] /\ Len(stack') = Len(stack)
    BY <1>1, <1>2, <1>3, SetTopConts
  <2>2. Exact(cache', link', Allocated', [Conts EXCEPT ![Len(stack)] = b], Len(stack))
    <3>1. Get(Top.fn, cache, link, Conts[Len(stack)], b, v)
      BY <1>1, <1>2
    <3>. QED  BY <3>1, <1>2, <1>3, GetExact DEF Local
  <2>. QED  BY <2>1, <2>2 DEF Local
<1>6. ByModule'
  <2>1. PICK own : Coloured(own) /\ Used(own)
    BY DEF ClosureInv, ByModule
  <2>2. PICK new : /\ Coloured(new)' /\ new[b] = Module[Top.fn]
                   /\ \A d \in Allocated : new[d] = own[d]
    BY <1>1, <1>2, <1>3, <2>1, GetColoured
  <2>3. \A i \in 1..(Len(stack) - 1) : i \in 1..Len(stack)
    BY TopFacts, <1>2, <1>3
  <2>4. \A i \in 1..(Len(stack) - 1) : stack[i].C # NULL =>
          new[stack[i].C] = Module[stack[i].fn]
    BY <2>1, <2>2, <2>3, UsedBlocks
  <2>. QED  BY <2>2, <2>4, <1>1, <1>2, <1>3, SetTopKeeps DEF ByModule
<1>. QED  BY <1>4, <1>5, <1>6 DEF ClosureInv

LEMMA TailCallInv ==
  ASSUME ClosureInv, TailCall
  PROVE  ClosureInv'
<1>1. PICK b \in Blocks, v \in Values :
        /\ Get(Top.fn, PutCache(Top.fn, Top.C), PutLink(Top.fn, Top.C), link[Top.C], b, v)
        /\ SetTop(b, "block")
  BY DEF TailCall
<1>2. /\ stack # <<>> /\ Top.C # NULL /\ Top.C \in Blocks
      /\ Len(stack) \in 1..Len(stack) /\ Conts[Len(stack)] = Top.C
      /\ \A own : Used(own) => own[Top.C] = Module[Top.fn]
  BY RunningTop DEF TailCall
<1>3. TypeOK /\ Local /\ Shape(cache, link, Allocated, Conts, Len(stack))
  BY ShapeHolds DEF ClosureInv
<1>4. /\ b = Top.C /\ cache' = cache /\ link' = link /\ size' = size
      /\ value' = [value EXCEPT ![b] = v]
  BY <1>1, <1>3, TailCallSame DEF TailCall
<1>5. TypeOK'
  <2>1. value' \in [Blocks -> Values]
    BY <1>3, <1>4 DEF TypeOK
  <2>. QED  BY <2>1, <1>1, <1>2, <1>3, <1>4, SetTopKeeps DEF TypeOK, Call
<1>6. Local'
  <2>1. Conts' = [Conts EXCEPT ![Len(stack)] = b] /\ Len(stack') = Len(stack)
    BY <1>1, <1>2, <1>3, SetTopConts
  <2>2. Conts' = Conts
    BY <2>1, <1>2, <1>3, <1>4 DEF Shape
  <2>. QED  BY <2>1, <2>2, <1>3, <1>4 DEF Local, Allocated
<1>7. ByModule'
  <2>1. PICK own : Coloured(own) /\ Used(own)
    BY DEF ClosureInv, ByModule
  <2>2. Coloured(own)'
    BY <2>1, <1>4 DEF Coloured, Allocated
  <2>3. \A i \in 1..(Len(stack) - 1) : i \in 1..Len(stack)
    BY TopFacts, <1>2, <1>3
  <2>4. Used(own)'
    BY <2>1, <2>3, <1>1, <1>2, <1>3, <1>4, UsedBlocks, SetTopKeeps
  <2>. QED  BY <2>2, <2>4 DEF ByModule
<1>. QED  BY <1>5, <1>6, <1>7 DEF ClosureInv

LEMMA ReturnInv ==
  ASSUME ClosureInv, Return
  PROVE  ClosureInv'
<1> DEFINE c == Top.C
           m == Module[Top.fn]
           up == link[c]
           at == IF up = NULL THEN "clear" ELSE "block"
<1>1. /\ cache' = [cache EXCEPT ![m] = c] /\ link' = [link EXCEPT ![c] = cache[m]]
      /\ SetTop(up, at) /\ size' = size /\ value' = value
  BY DEF Return, PutCache, PutLink, CacheOf
<1>2. /\ stack # <<>> /\ c \in Allocated /\ c # NULL /\ c \in Blocks
      /\ Top.fn \in Functions
      /\ Len(stack) \in 1..Len(stack) /\ Conts[Len(stack)] = c
      /\ \A own : Used(own) => own[c] = m
  BY RunningTop DEF Return
<1>3. /\ TypeOK /\ Local /\ Shape(cache, link, Allocated, Conts, Len(stack))
      /\ m \in Modules
  BY <1>2, ShapeHolds, ClosureAssumption DEF ClosureInv
<1>4. up \in Blocks \cup {NULL} /\ at \in {"block", "clear"} /\ (up = NULL <=> at = "clear")
  BY <1>2, <1>3 DEF TypeOK
<1>. HIDE DEF c, m, up, at
<1>5. TypeOK'
  <2>1. /\ link' \in [Blocks -> Blocks \cup {NULL}]
        /\ cache' \in [Modules -> Blocks \cup {NULL}]
    BY <1>1, <1>2, <1>3 DEF TypeOK
  <2>. QED  BY <2>1, <1>1, <1>2, <1>3, <1>4, SetTopKeeps DEF TypeOK, Call
<1>6. Local'
  <2>1. Conts' = [Conts EXCEPT ![Len(stack)] = up] /\ Len(stack') = Len(stack)
    BY <1>1, <1>2, <1>3, <1>4, SetTopConts
  <2>2. Exact([cache EXCEPT ![m] = c], [link EXCEPT ![c] = cache[m]], Allocated,
              [Conts EXCEPT ![Len(stack)] = link[c]], Len(stack))
    BY <1>2, <1>3, PutBlock DEF Local
  <2>. QED  BY <2>1, <2>2, <1>1 DEF Local, Allocated, up
<1>7. ByModule'
  <2>1. PICK own : Coloured(own) /\ Used(own)
    BY DEF ClosureInv, ByModule
  <2>2. own[c] = m /\ (up # NULL => own[up] = m)
    BY <2>1, <1>2 DEF Coloured, up
  <2>3. Coloured(own)'
    <3>1. \A x \in Modules : cache'[x] # NULL => own[cache'[x]] = x
      BY <2>1, <2>2, <1>1, <1>3 DEF Coloured, TypeOK
    <3>2. \A a \in Allocated : link'[a] # NULL => own[link'[a]] = own[a]
      BY <2>1, <2>2, <1>1, <1>2, <1>3 DEF Coloured, TypeOK, Allocated
    <3>3. Allocated' = Allocated
      BY <1>1 DEF Allocated
    <3>. QED  BY <2>1, <3>1, <3>2, <3>3, <1>1 DEF Coloured
  <2>4. \A i \in 1..(Len(stack) - 1) : i \in 1..Len(stack)
    BY TopFacts, <1>2, <1>3
  <2>5. Used(own)'
    BY <2>1, <2>2, <2>4, <1>1, <1>2, <1>3, <1>4, UsedBlocks, SetTopKeeps DEF m
  <2>. QED  BY <2>3, <2>5 DEF ByModule
<1>. QED  BY <1>5, <1>6, <1>7 DEF ClosureInv

LEMMA SaveInv ==
  ASSUME ClosureInv, Save
  PROVE  ClosureInv'
<1>1. PICK v \in Values : value' = [value EXCEPT ![Top.C] = v]
  BY DEF Save
<1>2. size' = size /\ link' = link /\ cache' = cache /\ stack' = stack
  BY DEF Save
<1>3. TypeOK'
  BY <1>1, <1>2 DEF ClosureInv, TypeOK
<1>4. Local' /\ ByModule'
  BY <1>2 DEF ClosureInv, Local, ByModule, Coloured, Used, Allocated, Conts
<1>. QED  BY <1>3, <1>4 DEF ClosureInv

LEMMA ClearInv ==
  ASSUME ClosureInv, Clear
  PROVE  ClosureInv'
<1> DEFINE m == CacheOf(Top.fn)
           b == cache[m]
<1>1. /\ b # NULL /\ cache' = [cache EXCEPT ![m] = link[b]]
      /\ size' = [size EXCEPT ![b] = 0]
      /\ link' = link /\ value' = value /\ stack' = stack
  BY DEF Clear
<1>2. /\ TypeOK /\ Local /\ m \in Modules
      /\ Shape(cache, link, Allocated, Conts, Len(stack))
  BY TopFacts, ShapeHolds DEF ClosureInv, Clear, Clearing, CacheOf
<1>. HIDE DEF m
<1>3. b \in Allocated /\ b \in Blocks
  BY <1>1, <1>2 DEF Local, Exact, Reached, Allocated
<1>4. TypeOK'
  BY <1>1, <1>2, <1>3 DEF TypeOK
<1>5. Allocated' = Allocated \ {b}
  BY <1>1, <1>2, <1>3 DEF Allocated, TypeOK
<1>6. Local'
  <2>1. Exact([cache EXCEPT ![m] = link[cache[m]]], link, Allocated \ {cache[m]},
              Conts, Len(stack))
    BY <1>1, <1>2, FreeCached DEF Local
  <2>2. Conts' = Conts /\ Len(stack') = Len(stack)
    BY <1>1 DEF Conts
  <2>. QED  BY <2>1, <2>2, <1>1, <1>5 DEF Local
<1>7. ByModule'
  <2>1. PICK own : Coloured(own) /\ Used(own)
    BY DEF ClosureInv, ByModule
  <2>2. \A x \in Modules : cache'[x] # NULL => own[cache'[x]] = x
    BY <2>1, <1>1, <1>2, <1>3 DEF Coloured, TypeOK
  <2>3. \A e \in Allocated \ {b} : size'[e] = size[e]
    BY <1>1, <1>2 DEF TypeOK, Allocated
  <2>4. Coloured(own)'
    BY <2>1, <2>2, <2>3, <1>1, <1>5 DEF Coloured
  <2>5. Used(own)'
    BY <2>1, <1>1 DEF Used
  <2>. QED  BY <2>4, <2>5 DEF ByModule
<1>. QED  BY <1>4, <1>6, <1>7 DEF ClosureInv

LEMMA LeaveInv ==
  ASSUME ClosureInv, Leave
  PROVE  ClosureInv'
<1> DEFINE n == Len(stack)
<1>1. /\ stack # <<>> /\ Top.at = "clear" /\ stack' = Front(stack)
      /\ size' = size /\ link' = link /\ value' = value /\ cache' = cache
  BY DEF Leave, Clearing
<1>2. /\ TypeOK /\ Local /\ stack \in Seq(Call)
      /\ Shape(cache, link, Allocated, Conts, n)
  BY ShapeHolds DEF ClosureInv
<1>3. /\ n \in Nat \ {0} /\ DOMAIN stack = 1..n /\ Top = stack[n] /\ Top.C = NULL
  BY <1>1, <1>2, TopFacts
<1>4. /\ stack' \in Seq(Call) /\ Len(stack') = n - 1
      /\ DOMAIN stack' = 1..(n - 1)
      /\ \A i \in 1..(n - 1) : stack'[i] = stack[i]
  BY <1>1, <1>2, FrontLast
<1>. HIDE DEF n
<1>5. n \in 1..n /\ \A i \in 1..(n - 1) : i \in 1..n
  BY <1>3
<1>6. TypeOK'
  <2>1. \A i \in 1..(n - 1) : stack'[i].C = NULL <=> stack'[i].at = "clear"
    BY <1>2, <1>3, <1>4, <1>5 DEF TypeOK
  <2>. QED  BY <2>1, <1>1, <1>2, <1>4 DEF TypeOK, Call
<1>7. Local'
  <2>1. Conts[n] = NULL /\ \A i \in 1..(n - 1) : Conts'[i] = Conts[i]
    BY <1>3, <1>4, <1>5 DEF Conts
  <2>2. Exact(cache, link, Allocated, Conts', n - 1)
    <3>1. Exact(cache, link, Allocated, Conts, n)
      BY <1>2 DEF Local, n
    <3>. QED  BY <2>1, <3>1, <1>2, <1>3, OneLessCall
  <2>. QED  BY <2>2, <1>1, <1>4 DEF Local, Allocated
<1>8. ByModule'
  <2>1. PICK own : Coloured(own) /\ Used(own)
    BY DEF ClosureInv, ByModule
  <2>2. Coloured(own)'
    BY <2>1, <1>1 DEF Coloured, Allocated
  <2>3. Used(own)'
    BY <2>1, <1>4, <1>5 DEF Used, n
  <2>. QED  BY <2>2, <2>3 DEF ByModule
<1>. QED  BY <1>6, <1>7, <1>8 DEF ClosureInv

(* Every step of the compiled code keeps the invariant.                    *)
LEMMA NextInv == ClosureInv /\ [Next]_vars => ClosureInv'
<1>. SUFFICES ASSUME ClosureInv, [Next]_vars  PROVE ClosureInv'
  OBVIOUS
<1>1. CASE \E f \in Functions : Enter(f)
  BY <1>1, EnterInv
<1>2. CASE RecCall
  BY <1>2, RecCallInv
<1>3. CASE TailCall
  BY <1>3, TailCallInv
<1>4. CASE Save
  BY <1>4, SaveInv
<1>5. CASE Return
  BY <1>5, ReturnInv
<1>6. CASE Clear
  BY <1>6, ClearInv
<1>7. CASE Leave
  BY <1>7, LeaveInv
<1>8. CASE UNCHANGED vars
  BY <1>8 DEF vars, ClosureInv, TypeOK, Local, ByModule, Coloured, Used, Allocated, Conts
<1>. QED  BY <1>1, <1>2, <1>3, <1>4, <1>5, <1>6, <1>7, <1>8 DEF Next

-----------------------------------------------------------------------------
(* Only a module with a call that runs keeps blocks in its cache ...       *)
CachesUsed ==
  \A m \in Modules : cache[m] # NULL => \E i \in 1..Len(stack) : Module[stack[i].fn] = m

(* ... and no block leads back to itself: along the links l of the blocks  *)
(* A, the ranks r go down.                                                 *)
Descends(l, A, r, n) ==
  /\ n \in Nat /\ r \in [Blocks -> Nat]
  /\ \A a \in A : r[a] <= n /\ (l[a] # NULL => r[l[a]] < r[a])

Ranked == \E r, n : Descends(link, Allocated, r, n)

FreeInv == ClosureInv /\ CachesUsed /\ Ranked

(* A block nothing links to goes on top of the block up.                   *)
LEMMA PushKeepsRank ==
  ASSUME NEW l \in [Blocks -> BlockOrNull], NEW A \in SUBSET Blocks, NEW r, NEW n,
         Descends(l, A, r, n), NEW b \in Blocks, NEW up \in A \cup {NULL}, up # b,
         \A a \in A : l[a] # b
  PROVE  \E s, k : Descends([l EXCEPT ![b] = up], A \cup {b}, s, k)
<1> DEFINE s == [r EXCEPT ![b] = n + 1]
           l2 == [l EXCEPT ![b] = up]
<1>1. /\ n \in Nat /\ r \in [Blocks -> Nat] /\ n + 1 \in Nat
      /\ \A a \in A : r[a] <= n /\ (l[a] # NULL => r[l[a]] < r[a])
  BY DEF Descends
<1>2. /\ s \in [Blocks -> Nat] /\ s[b] = n + 1
      /\ \A a \in Blocks : a # b => s[a] = r[a]
      /\ l2[b] = up /\ \A a \in Blocks : a # b => l2[a] = l[a]
  BY <1>1
<1>. HIDE DEF s, l2
<1>3. \A a \in A \cup {b} : s[a] <= n + 1
  BY <1>1, <1>2
<1>4. ASSUME NEW a \in A \cup {b}, l2[a] # NULL  PROVE s[l2[a]] < s[a]
  <2>1. CASE a = b
    <3>1. up \in A /\ l2[a] = up /\ s[up] = r[up] /\ s[a] = n + 1
      BY <1>2, <1>4, <2>1
    <3>. QED  BY <3>1, <1>1
  <2>2. CASE a # b
    <3>1. a \in A /\ l2[a] = l[a] /\ l[a] # b /\ l[a] \in Blocks
      BY <1>2, <1>4, <2>2 DEF BlockOrNull
    <3>. QED  BY <3>1, <1>1, <1>2, <1>4, <2>2
  <2>. QED  BY <2>1, <2>2
<1>5. Descends(l2, A \cup {b}, s, n + 1)
  BY <1>1, <1>2, <1>3, <1>4 DEF Descends
<1>. QED  BY <1>5 DEF l2

(* lisp_closure_get keeps the ranks and fills no cache.                    *)
LEMMA GetRanked ==
  ASSUME TypeOK, Local, Ranked, NEW f \in Functions, NEW b \in Blocks, NEW v,
         NEW up \in Allocated \cup {NULL}, up = NULL \/ (\E i \in 1..Len(stack) : Conts[i] = up),
         Get(f, cache, link, up, b, v)
  PROVE  /\ Ranked'
         /\ \A m \in Modules : cache'[m] # NULL => cache[m] # NULL
<1>1. CacheOf(f) \in Modules /\ b # NULL /\ Allocated \in SUBSET Blocks
      /\ link \in [Blocks -> BlockOrNull]
  BY ClosureAssumption DEF CacheOf, Allocated, TypeOK, BlockOrNull
<1>2. link' = [link EXCEPT ![b] = up]
  BY DEF Get
<1>3. PICK r, n : Descends(link, Allocated, r, n)
  BY DEF Ranked
<1>4. CASE cache[CacheOf(f)] # NULL
  <2>1. /\ b = cache[CacheOf(f)] /\ cache' = [cache EXCEPT ![CacheOf(f)] = link[b]]
        /\ size' = size
    BY <1>4 DEF Get
  <2>2. Allocated' = Allocated /\ b \in Allocated
    BY <1>1, <2>1 DEF Allocated, Local, Exact, Reached
  <2>3. up # b /\ \A a \in Allocated : link[a] # b
    BY <1>1, <1>4, <2>1 DEF Local, Exact, Apart
  <2>4. \E s, k : Descends(link', Allocated \cup {b}, s, k)
    BY <1>1, <1>2, <1>3, <2>3, PushKeepsRank
  <2>5. Allocated \cup {b} = Allocated'
    BY <2>2
  <2>6. Ranked'
    BY <2>4, <2>5 DEF Ranked
  <2>7. \A m \in Modules : cache'[m] # NULL => cache[m] # NULL
    BY <1>1, <1>4, <2>1 DEF TypeOK
  <2>. QED  BY <2>6, <2>7
<1>5. CASE cache[CacheOf(f)] = NULL
  <2>1. b \notin Allocated /\ size' = [size EXCEPT ![b] = Size[f]] /\ cache' = cache
    BY <1>5 DEF Get, Malloc
  <2>2. Allocated \cup {b} = Allocated'
    BY <2>1, ClosureAssumption DEF Allocated, TypeOK
  <2>3. up # b /\ \A a \in Allocated : link[a] # b
    BY <1>1, <2>1 DEF Local, Exact, Reached
  <2>4. \E s, k : Descends(link', Allocated \cup {b}, s, k)
    BY <1>1, <1>2, <1>3, <2>3, PushKeepsRank
  <2>5. Ranked'
    BY <2>2, <2>4 DEF Ranked
  <2>. QED  BY <2>1, <2>5
<1>. QED  BY <1>4, <1>5

(* The calls after SetTop are of the same functions.                       *)
LEMMA SetTopCalls ==
  ASSUME TypeOK, stack # <<>>, NEW c \in Blocks \cup {NULL}, NEW at \in {"block", "clear"},
         SetTop(c, at)
  PROVE  /\ Len(stack') = Len(stack)
         /\ \A i \in 1..Len(stack) : stack'[i].fn = stack[i].fn
<1>1. /\ Len(stack') = Len(stack)
      /\ \A i \in 1..(Len(stack) - 1) : stack'[i] = stack[i]
      /\ stack'[Len(stack)].fn = Top.fn
  BY SetTopFacts
<1>2. Len(stack) \in Nat \ {0} /\ Top = stack[Len(stack)]
  BY TopFacts
<1> DEFINE n == Len(stack)
<1>. HIDE DEF n
<1>3. \A i \in 1..n : i \in 1..(n - 1) \/ i = n
  BY <1>2 DEF n
<1>. QED  BY <1>1, <1>2, <1>3 DEF n

LEMMA EnterFree ==
  ASSUME FreeInv, NEW f \in Functions, Enter(f)
  PROVE  CachesUsed' /\ Ranked'
<1>1. PICK b \in Blocks, v \in Values :
        /\ Get(f, cache, link, NULL, b, v)
        /\ stack' = Append(stack, [fn |-> f, C |-> b, at |-> "block"])
  BY DEF Enter
<1> DEFINE e == [fn |-> f, C |-> b, at |-> "block"]
           n == Len(stack)
<1>2. TypeOK /\ Local /\ Ranked /\ CachesUsed /\ stack \in Seq(Call) /\ e \in Call
  BY ShapeHolds DEF FreeInv, ClosureInv, Call
<1>3. stack' = Append(stack, e)
  BY <1>1
<1>. HIDE DEF e
<1>4. n \in Nat /\ Len(stack') = n + 1 /\ \A i \in 1..n : stack'[i] = stack[i]
  BY <1>2, <1>3, AppendFacts
<1>5. Ranked' /\ \A m \in Modules : cache'[m] # NULL => cache[m] # NULL
  BY <1>1, <1>2, GetRanked
<1>. HIDE DEF n
<1>6. \A i \in 1..n : i \in 1..(n + 1)
  BY <1>4
<1>7. CachesUsed'
  <2>1. \A m \in Modules : cache[m] # NULL => \E i \in 1..n : Module[stack[i].fn] = m
    BY <1>2 DEF CachesUsed, n
  <2>2. \A m \in Modules : cache'[m] # NULL =>
          \E i \in 1..(n + 1) : Module[stack'[i].fn] = m
    BY <2>1, <1>4, <1>5, <1>6
  <2>. QED  BY <2>2, <1>4 DEF CachesUsed
<1>. QED  BY <1>5, <1>7

LEMMA RecCallFree ==
  ASSUME FreeInv, RecCall
  PROVE  CachesUsed' /\ Ranked'
<1>1. PICK b \in Blocks, v \in Values :
        Get(Top.fn, cache, link, Top.C, b, v) /\ SetTop(b, "block")
  BY DEF RecCall
<1>2. /\ stack # <<>> /\ Top.C \in Allocated /\ Top.fn \in Functions
      /\ Len(stack) \in 1..Len(stack) /\ Conts[Len(stack)] = Top.C
  BY RunningTop DEF RecCall, FreeInv
<1>3. TypeOK /\ Local /\ Ranked /\ CachesUsed
  BY DEF FreeInv, ClosureInv
<1>4. Ranked' /\ \A m \in Modules : cache'[m] # NULL => cache[m] # NULL
  BY <1>1, <1>2, <1>3, GetRanked
<1>5. /\ Len(stack') = Len(stack)
      /\ \A i \in 1..Len(stack) : stack'[i].fn = stack[i].fn
  BY <1>1, <1>2, <1>3, SetTopCalls
<1>6. CachesUsed'
  BY <1>3, <1>4, <1>5 DEF CachesUsed
<1>. QED  BY <1>4, <1>6

LEMMA TailCallFree ==
  ASSUME FreeInv, TailCall
  PROVE  CachesUsed' /\ Ranked'
<1>1. PICK b \in Blocks, v \in Values :
        /\ Get(Top.fn, PutCache(Top.fn, Top.C), PutLink(Top.fn, Top.C), link[Top.C], b, v)
        /\ SetTop(b, "block")
  BY DEF TailCall
<1>2. TypeOK /\ Ranked /\ CachesUsed /\ stack # <<>>
  BY DEF FreeInv, ClosureInv, TailCall, Running
<1>3. cache' = cache /\ link' = link /\ size' = size
  BY <1>1, <1>2, TailCallSame DEF TailCall
<1>4. /\ Len(stack') = Len(stack)
      /\ \A i \in 1..Len(stack) : stack'[i].fn = stack[i].fn
  BY <1>1, <1>2, SetTopCalls
<1>5. CachesUsed'
  BY <1>2, <1>3, <1>4 DEF CachesUsed
<1>6. Ranked'
  BY <1>2, <1>3 DEF Ranked, Allocated
<1>. QED  BY <1>5, <1>6

LEMMA ReturnFree ==
  ASSUME FreeInv, Return
  PROVE  CachesUsed' /\ Ranked'
<1> DEFINE c == Top.C
           m == Module[Top.fn]
           up == link[c]
           at == IF up = NULL THEN "clear" ELSE "block"
<1>1. /\ cache' = [cache EXCEPT ![m] = c] /\ link' = [link EXCEPT ![c] = cache[m]]
      /\ SetTop(up, at) /\ size' = size
  BY DEF Return, PutCache, PutLink, CacheOf
<1>2. /\ stack # <<>> /\ c \in Allocated /\ c # NULL /\ c \in Blocks
      /\ Top.fn \in Functions
      /\ Len(stack) \in 1..Len(stack) /\ Conts[Len(stack)] = c
  BY RunningTop DEF Return, FreeInv
<1>3. TypeOK /\ Local /\ Ranked /\ CachesUsed /\ m \in Modules /\ Top = stack[Len(stack)]
  BY <1>2, TopFacts, ClosureAssumption DEF FreeInv, ClosureInv
<1>4. up \in Blocks \cup {NULL} /\ at \in {"block", "clear"}
  BY <1>2, <1>3 DEF TypeOK
<1>. HIDE DEF c, up, at
<1>5. /\ Len(stack') = Len(stack)
      /\ \A i \in 1..Len(stack) : stack'[i].fn = stack[i].fn
  BY <1>1, <1>2, <1>3, <1>4, SetTopCalls
<1>6. CachesUsed'
  <2>1. \A x \in Modules : x # m => cache'[x] = cache[x]
    BY <1>1, <1>3 DEF TypeOK
  <2>2. Module[stack'[Len(stack)].fn] = m
    BY <1>2, <1>3, <1>5
  <2>. QED  BY <2>1, <2>2, <1>2, <1>3, <1>5 DEF CachesUsed
<1>. HIDE DEF m
<1>7. Ranked'
  <2>1. PICK r, n : Descends(link, Allocated, r, n)
    BY <1>3 DEF Ranked
  <2>2. cache[m] \in Allocated \cup {NULL} /\ cache[m] # c /\ \A a \in Allocated : link[a] # c
    BY <1>2, <1>3 DEF Local, Exact, Apart, Reached
  <2>3. link \in [Blocks -> BlockOrNull] /\ Allocated \in SUBSET Blocks
    BY <1>3 DEF TypeOK, BlockOrNull, Allocated
  <2>4. \E s, k : Descends(link', Allocated \cup {c}, s, k)
    BY <1>1, <1>2, <2>1, <2>2, <2>3, PushKeepsRank
  <2>5. Allocated \cup {c} = Allocated'
    BY <1>1, <1>2 DEF Allocated
  <2>. QED  BY <2>4, <2>5 DEF Ranked
<1>. QED  BY <1>6, <1>7

LEMMA ClearFree ==
  ASSUME FreeInv, Clear
  PROVE  CachesUsed' /\ Ranked'
<1> DEFINE m == CacheOf(Top.fn)
           b == cache[m]
<1>1. /\ b # NULL /\ cache' = [cache EXCEPT ![m] = link[b]]
      /\ size' = [size EXCEPT ![b] = 0] /\ link' = link /\ stack' = stack
  BY DEF Clear
<1>2. TypeOK /\ Ranked /\ CachesUsed /\ m \in Modules
  BY TopFacts DEF FreeInv, ClosureInv, Clear, Clearing, CacheOf
<1>. HIDE DEF m
<1>3. CachesUsed'
  <2>1. \A x \in Modules : cache'[x] # NULL => cache[x] # NULL
    BY <1>1, <1>2 DEF TypeOK
  <2>. QED  BY <2>1, <1>1, <1>2 DEF CachesUsed
<1>4. Ranked'
  <2>1. PICK r, n : Descends(link, Allocated, r, n)
    BY <1>2 DEF Ranked
  <2>2. Allocated' \subseteq Allocated
    BY <1>1, <1>2 DEF Allocated, TypeOK
  <2>3. Descends(link', Allocated', r, n)
    BY <2>1, <2>2, <1>1 DEF Descends
  <2>. QED  BY <2>3 DEF Ranked
<1>. QED  BY <1>3, <1>4

LEMMA LeaveFree ==
  ASSUME FreeInv, Leave
  PROVE  CachesUsed' /\ Ranked'
<1> DEFINE n == Len(stack)
<1>1. /\ stack # <<>> /\ stack' = Front(stack) /\ cache[Module[Top.fn]] = NULL
      /\ size' = size /\ link' = link /\ cache' = cache
  BY DEF Leave, Clearing, CacheOf
<1>2. TypeOK /\ Ranked /\ CachesUsed /\ stack \in Seq(Call)
  BY ShapeHolds DEF FreeInv, ClosureInv
<1>3. n \in Nat \ {0} /\ Top = stack[n]
  BY <1>1, <1>2, TopFacts
<1>4. Len(stack') = n - 1 /\ \A i \in 1..(n - 1) : stack'[i] = stack[i]
  BY <1>1, <1>2, FrontLast
<1>5. \A m \in Modules : cache[m] # NULL => \E i \in 1..n : Module[stack[i].fn] = m
  BY <1>2 DEF CachesUsed
<1>. HIDE DEF n
<1>6. \A i \in 1..n : i \in 1..(n - 1) \/ i = n
  BY <1>3
<1>7. \A m \in Modules : cache'[m] # NULL => \E i \in 1..(n - 1) : Module[stack'[i].fn] = m
  BY <1>1, <1>3, <1>4, <1>5, <1>6
<1>8. CachesUsed'
  BY <1>4, <1>7 DEF CachesUsed
<1>9. Ranked'
  BY <1>1, <1>2 DEF Ranked, Allocated
<1>. QED  BY <1>8, <1>9

LEMMA FreeInit == Init => FreeInv
<1>. SUFFICES ASSUME Init  PROVE FreeInv
  OBVIOUS
<1>1. CachesUsed
  BY DEF Init, CachesUsed
<1>2. Ranked
  <2>1. Allocated = {}
    BY DEF Init, Allocated
  <2>2. Descends(link, Allocated, [b \in Blocks |-> 0], 0)
    BY <2>1 DEF Descends
  <2>. QED  BY <2>2 DEF Ranked
<1>. QED  BY <1>1, <1>2, InitInv DEF FreeInv

LEMMA FreeNext == FreeInv /\ [Next]_vars => FreeInv'
<1>. SUFFICES ASSUME FreeInv, [Next]_vars  PROVE FreeInv'
  OBVIOUS
<1>1. ClosureInv'
  BY NextInv DEF FreeInv
<1>2. CachesUsed' /\ Ranked'
  <2>1. CASE \E f \in Functions : Enter(f)
    BY <2>1, EnterFree
  <2>2. CASE RecCall
    BY <2>2, RecCallFree
  <2>3. CASE TailCall
    BY <2>3, TailCallFree
  <2>4. CASE Save
    BY <2>4 DEF Save, FreeInv, CachesUsed, Ranked, Allocated
  <2>5. CASE Return
    BY <2>5, ReturnFree
  <2>6. CASE Clear
    BY <2>6, ClearFree
  <2>7. CASE Leave
    BY <2>7, LeaveFree
  <2>8. CASE UNCHANGED vars
    BY <2>8 DEF vars, FreeInv, CachesUsed, Ranked, Allocated
  <2>. QED  BY <2>1, <2>2, <2>3, <2>4, <2>5, <2>6, <2>7, <2>8 DEF Next
<1>. QED  BY <1>1, <1>2 DEF FreeInv

(* With no call and no cache each block is in the field C of a block of    *)
(* greater rank, and there is no greatest rank left for any of them.       *)
LEMMA FreeIsAll == FreeInv => AllFreed
<1>. SUFFICES ASSUME FreeInv, stack = <<>>, NEW x \in Allocated  PROVE FALSE
  BY DEF AllFreed
<1>1. PICK r, n : Descends(link, Allocated, r, n)
  BY DEF FreeInv, Ranked
<1>2. Len(stack) = 0 /\ TypeOK /\ Local
  BY DEF FreeInv, ClosureInv
<1>3. \A m \in Modules : cache[m] = NULL
  BY <1>2 DEF FreeInv, CachesUsed
<1>4. \A b \in Allocated : b # NULL /\ b \in Blocks
  BY ClosureAssumption DEF Allocated
<1>5. \A b \in Allocated : \E a \in Allocated : link[a] = b /\ r[b] < r[a]
  <2>1. \A b \in Allocated : \E a \in Allocated : link[a] = b
    BY <1>2, <1>3, <1>4 DEF Local, Exact, Reached
  <2>. QED  BY <2>1, <1>1, <1>4 DEF Descends
<1>6. n \in Nat /\ \A b \in Allocated : r[b] \in Nat /\ r[b] <= n
  BY <1>1, <1>4 DEF Descends
<1> DEFINE T == {n - r[b] : b \in Allocated}
<1>7. T \subseteq Nat /\ T # {}
  BY <1>6
<1>8. PICK y \in T : \A z \in T : ~(<<z, y>> \in OpToRel(<, Nat))
  BY <1>7, NatLessThanWellFounded, WFMin
<1>9. PICK b \in Allocated : y = n - r[b]
  BY <1>8
<1>10. PICK a \in Allocated : r[b] < r[a]
  BY <1>5
<1>11. n - r[a] \in T /\ n - r[a] \in Nat /\ y \in Nat /\ n - r[a] < y
  BY <1>6, <1>7, <1>9, <1>10
<1>. QED  BY <1>8, <1>11 DEF OpToRel

-----------------------------------------------------------------------------
(* s is the chain of the block b: it ends with b, and leads to b along the *)
(* links l from a block that has none.  All of its blocks are in A.        *)
IsChain(s, b, l, A) ==
  /\ s \in Seq(A)
  /\ b = NULL => s = <<>>
  /\ b # NULL => /\ s # <<>> /\ s[Len(s)] = b /\ l[s[1]] = NULL
                 /\ \A i \in 1..(Len(s) - 1) : l[s[i + 1]] = s[i]

(* The chain of a block is the one of its link and the block.              *)
LEMMA ChainAppend ==
  ASSUME NEW l, NEW A \in SUBSET Blocks, NEW b \in A, NEW s, IsChain(s, l[b], l, A)
  PROVE  IsChain(Append(s, b), b, l, A)
<1> DEFINE u == Append(s, b)
           n == Len(s)
<1>1. s \in Seq(A) /\ b # NULL
  BY ClosureAssumption DEF IsChain
<1>2. /\ u \in Seq(A) /\ n \in Nat /\ Len(u) = n + 1 /\ u # <<>>
      /\ \A i \in 1..n : u[i] = s[i]
      /\ u[n + 1] = b
  BY <1>1, AppendFacts
<1>3. CASE l[b] = NULL
  <2>1. s = <<>> /\ n = 0
    BY <1>3 DEF IsChain
  <2>. HIDE DEF u, n
  <2>2. u[1] = b /\ Len(u) = 1
    BY <1>2, <2>1
  <2>. QED  BY <1>1, <1>2, <1>3, <2>2 DEF IsChain, u
<1>4. CASE l[b] # NULL
  <2>1. /\ s # <<>> /\ s[n] = l[b] /\ l[s[1]] = NULL
        /\ \A i \in 1..(n - 1) : l[s[i + 1]] = s[i]
    BY <1>4 DEF IsChain
  <2>2. n \in Nat \ {0}
    BY <1>1, <2>1
  <2>. HIDE DEF u, n
  <2>3. l[u[1]] = NULL
    BY <1>2, <2>1, <2>2
  <2>4. ASSUME NEW i \in 1..n  PROVE l[u[i + 1]] = u[i]
    <3>1. CASE i = n
      BY <3>1, <1>2, <2>1, <2>2
    <3>2. CASE i \in 1..(n - 1)
      <4>1. i + 1 \in 1..n /\ i \in 1..n
        BY <3>2, <2>2
      <4>. QED  BY <4>1, <3>2, <1>2, <2>1
    <3>. QED  BY <3>1, <3>2, <2>2
  <2>5. Len(u) - 1 = n
    BY <1>2, <2>2
  <2>. QED  BY <1>1, <1>2, <2>3, <2>4, <2>5 DEF IsChain, u
<1>. QED  BY <1>3, <1>4

LEMMA ChainFront ==
  ASSUME NEW l, NEW A \in SUBSET Blocks, NEW b, b # NULL, NEW s, IsChain(s, b, l, A),
         NULL \notin A
  PROVE  /\ b \in A /\ s \in Seq(A) /\ s # <<>> /\ s = Append(Front(s), b)
         /\ Front(s) \in Seq(A) /\ IsChain(Front(s), l[b], l, A)
<1> DEFINE n == Len(s)
           u == Front(s)
<1>1. /\ s \in Seq(A) /\ s # <<>> /\ s[n] = b /\ l[s[1]] = NULL
      /\ \A i \in 1..(n - 1) : l[s[i + 1]] = s[i]
  BY DEF IsChain
<1>2. /\ u \in Seq(A) /\ Last(s) \in A /\ n \in Nat \ {0} /\ Len(u) = n - 1
      /\ Last(s) = s[n] /\ \A i \in 1..(n - 1) : u[i] = s[i]
      /\ s = Append(u, Last(s))
  BY <1>1, FrontLast
<1>3. CASE n = 1
  <2>1. l[b] = NULL
    BY <1>1, <1>3
  <2>2. u = <<>>
    BY <1>2, <1>3
  <2>3. IsChain(u, l[b], l, A)
    BY <2>1, <2>2, <1>2 DEF IsChain
  <2>. QED  BY <2>3, <1>1, <1>2
<1>4. CASE n # 1
  <2>. HIDE DEF u, n
  <2>1. n - 1 \in 1..(n - 1) /\ n - 1 + 1 = n /\ 1 \in 1..(n - 1)
    BY <1>2, <1>4
  <2>2. l[b] = s[n - 1]
    BY <2>1, <1>1
  <2>3. u[Len(u)] = l[b] /\ u # <<>> /\ l[u[1]] = NULL
    BY <2>1, <2>2, <1>1, <1>2
  <2>4. l[b] # NULL
    <3>1. u[n - 1] \in A
      BY <2>1, <1>2
    <3>. QED  BY <3>1, <2>3, <1>2
  <2>5. \A i \in 1..(n - 1 - 1) : l[u[i + 1]] = u[i]
    <3>1. \A i \in 1..(n - 1 - 1) : i \in 1..(n - 1) /\ i + 1 \in 1..(n - 1)
      BY <1>2
    <3>. QED  BY <3>1, <1>1, <1>2
  <2>6. IsChain(u, l[b], l, A)
    BY <1>2, <2>3, <2>4, <2>5 DEF IsChain
  <2>. QED  BY <2>6, <1>1, <1>2 DEF u
<1>. QED  BY <1>3, <1>4

LEMMA NoChain ==
  ASSUME NEW l, NEW A
  PROVE  /\ IsChain(<<>>, NULL, l, A)
         /\ \A s : IsChain(s, NULL, l, A) => s = <<>>
<1>1. <<>> \in Seq(A)
  OBVIOUS
<1>. QED  BY <1>1 DEF IsChain

(* Among some blocks there is one of the least rank.                       *)
LEMMA LeastRank ==
  ASSUME NEW A \in SUBSET Blocks, NEW r \in [Blocks -> Nat], NEW T \in SUBSET A, T # {}
  PROVE  \E b \in T : \A a \in T : ~(r[a] < r[b])
<1> DEFINE R == {r[b] : b \in T}
<1>1. R \subseteq Nat /\ R # {}
  OBVIOUS
<1>2. PICK x \in R : \A y \in R : ~(<<y, x>> \in OpToRel(<, Nat))
  BY <1>1, NatLessThanWellFounded, WFMin
<1>3. PICK b \in T : r[b] = x
  BY <1>2
<1>4. ASSUME NEW a \in T, r[a] < r[b]  PROVE FALSE
  <2>1. r[a] \in R /\ r[a] \in Nat /\ r[b] \in Nat
    OBVIOUS
  <2>2. <<r[a], r[b]>> \in OpToRel(<, Nat)
    BY <2>1, <1>4 DEF OpToRel
  <2>. QED  BY <2>1, <2>2, <1>2, <1>3
<1>. QED  BY <1>4

(* Links that go down in rank and stay in A give every block one chain.    *)
Grounded(l, A) ==
  /\ A \subseteq Blocks
  /\ \A a \in A : l[a] # NULL => l[a] \in A
  /\ \E r, n : Descends(l, A, r, n)

LEMMA OneChain ==
  ASSUME NEW l, NEW A, Grounded(l, A)
  PROVE  /\ \A b \in A \cup {NULL} : \E s : IsChain(s, b, l, A)
         /\ \A b \in A \cup {NULL} : \A s, u :
              IsChain(s, b, l, A) /\ IsChain(u, b, l, A) => s = u
<1>1. PICK r, n : Descends(l, A, r, n)
  BY DEF Grounded
<1>2. /\ A \in SUBSET Blocks /\ NULL \notin A /\ r \in [Blocks -> Nat]
      /\ \A a \in A : l[a] # NULL => l[a] \in A /\ r[l[a]] < r[a]
  BY <1>1, ClosureAssumption DEF Grounded, Descends
<1>3. \A b \in A : \E s : IsChain(s, b, l, A)
  <2> DEFINE Bad == {b \in A : ~\E s : IsChain(s, b, l, A)}
  <2>. SUFFICES ASSUME Bad # {}  PROVE FALSE
    OBVIOUS
  <2>1. PICK b \in Bad : \A a \in Bad : ~(r[a] < r[b])
    BY <1>2, LeastRank
  <2>2. b \in A /\ ~\E s : IsChain(s, b, l, A)
    OBVIOUS
  <2>3. \E s : IsChain(s, l[b], l, A)
    <3>1. CASE l[b] = NULL
      BY <3>1, NoChain
    <3>2. CASE l[b] # NULL
      <4>1. l[b] \in A /\ r[l[b]] < r[b]
        BY <3>2, <2>2, <1>2
      <4>2. l[b] \notin Bad
        BY <4>1, <2>1
      <4>. QED  BY <4>1, <4>2
    <3>. QED  BY <3>1, <3>2
  <2>. QED  BY <2>2, <2>3, <1>2, ChainAppend
<1>4. \A b \in A : \A s, u : IsChain(s, b, l, A) /\ IsChain(u, b, l, A) => s = u
  <2> DEFINE Same(b) == \A s, u : IsChain(s, b, l, A) /\ IsChain(u, b, l, A) => s = u
             Bad == {b \in A : ~Same(b)}
  <2>. SUFFICES ASSUME Bad # {}  PROVE FALSE
    OBVIOUS
  <2>1. PICK b \in Bad : \A a \in Bad : ~(r[a] < r[b])
    BY <1>2, LeastRank
  <2>2. b \in A /\ b # NULL
    BY <1>2
  <2>3. Same(l[b])
    <3>1. CASE l[b] = NULL
      BY <3>1, NoChain
    <3>2. CASE l[b] # NULL
      <4>1. l[b] \in A /\ r[l[b]] < r[b]
        BY <3>2, <2>2, <1>2
      <4>. HIDE DEF Same
      <4>2. l[b] \notin Bad
        BY <4>1, <2>1
      <4>. QED  BY <4>1, <4>2
    <3>. QED  BY <3>1, <3>2
  <2>4. Same(b)
    <3>. SUFFICES ASSUME NEW s, NEW u, IsChain(s, b, l, A), IsChain(u, b, l, A)
                  PROVE  s = u
      OBVIOUS
    <3>1. s = Append(Front(s), b) /\ IsChain(Front(s), l[b], l, A)
      BY <1>2, <2>2, ChainFront
    <3>2. u = Append(Front(u), b) /\ IsChain(Front(u), l[b], l, A)
      BY <1>2, <2>2, ChainFront
    <3>3. Front(s) = Front(u)
      BY <3>1, <3>2, <2>3
    <3>. QED  BY <3>1, <3>2, <3>3
  <2>. QED  BY <2>4
<1>. QED  BY <1>3, <1>4, NoChain

(* The recursion of Chain ends, and Chain gives the chain of each block.   *)
Chains(h, l, A) ==
  h = [b \in A \cup {NULL} |-> IF b = NULL THEN <<>> ELSE Append(h[l[b]], b)]

LEMMA ChainsAre ==
  ASSUME NEW l, NEW A, Grounded(l, A), NEW h, h = CHOOSE g : Chains(g, l, A)
  PROVE  \A b \in A \cup {NULL} : IsChain(h[b], b, l, A)
<1> DEFINE D == A \cup {NULL}
           L(b) == CHOOSE s : IsChain(s, b, l, A)
           f == [b \in D |-> L(b)]
<1>1. \A b \in D : IsChain(L(b), b, l, A)
  BY OneChain
<1>2. /\ A \in SUBSET Blocks /\ NULL \notin A
      /\ \A a \in A : l[a] \in D
  BY ClosureAssumption DEF Grounded
<1>3. ASSUME NEW b \in D
      PROVE  L(b) = IF b = NULL THEN <<>> ELSE Append(f[l[b]], b)
  <2>1. CASE b = NULL
    <3>. HIDE DEF L
    <3>. QED  BY <2>1, <1>1, NoChain
  <2>2. CASE b # NULL
    <3>1. b \in A /\ l[b] \in D
      BY <2>2, <1>2
    <3>2. f[l[b]] = L(l[b])
      BY <3>1
    <3>. HIDE DEF L, f
    <3>3. IsChain(L(l[b]), l[b], l, A) /\ IsChain(L(b), b, l, A)
      BY <3>1, <1>1
    <3>4. IsChain(Append(L(l[b]), b), b, l, A)
      BY <3>1, <3>3, <1>2, ChainAppend
    <3>5. L(b) = Append(L(l[b]), b)
      BY <3>1, <3>3, <3>4, OneChain
    <3>. QED  BY <2>2, <3>2, <3>5
  <2>. QED  BY <2>1, <2>2
<1>4. Chains(f, l, A)
  <2>1. f = [b \in D |-> f[b]] /\ \A b \in D : f[b] = L(b)
    OBVIOUS
  <2>. HIDE DEF f, L
  <2>2. f = [b \in D |-> IF b = NULL THEN <<>> ELSE Append(f[l[b]], b)]
    BY <2>1, <1>3
  <2>. QED  BY <2>2 DEF Chains
<1>5. Chains(h, l, A)
  BY <1>4
<1>6. \A b \in A : h[b] = Append(h[l[b]], b)
  BY <1>5, <1>2 DEF Chains
<1>7. h[NULL] = <<>>
  BY <1>5 DEF Chains
<1>8. PICK r, n : Descends(l, A, r, n)
  BY DEF Grounded
<1>9. r \in [Blocks -> Nat] /\ \A a \in A : l[a] # NULL => l[a] \in A /\ r[l[a]] < r[a]
  BY <1>8 DEF Descends, Grounded
<1>10. \A b \in A : IsChain(h[b], b, l, A)
  <2> DEFINE Bad == {b \in A : ~IsChain(h[b], b, l, A)}
  <2>. SUFFICES ASSUME Bad # {}  PROVE FALSE
    OBVIOUS
  <2>1. PICK b \in Bad : \A a \in Bad : ~(r[a] < r[b])
    BY <1>2, <1>9, LeastRank
  <2>2. b \in A /\ ~IsChain(h[b], b, l, A)
    OBVIOUS
  <2>3. IsChain(h[l[b]], l[b], l, A)
    <3>1. CASE l[b] = NULL
      BY <3>1, <1>7, NoChain
    <3>2. CASE l[b] # NULL
      BY <3>2, <2>1, <2>2, <1>9
    <3>. QED  BY <3>1, <3>2
  <2>. HIDE DEF Bad
  <2>4. IsChain(Append(h[l[b]], b), b, l, A)
    BY <2>2, <2>3, <1>2, ChainAppend
  <2>. QED  BY <2>2, <2>4, <1>6
<1>. QED  BY <1>7, <1>10, NoChain

(* A block outside the chain of a call: a free one, the first of a cache,  *)
(* or the one another call runs on.                                        *)
LEMMA Elsewhere ==
  ASSUME NEW c, NEW l, NEW A, NEW n, NEW t, Shape(c, l, A, t, n), Exact(c, l, A, t, n),
         NEW i \in 1..n, NEW s, IsChain(s, t[i], l, A), NEW x, x # NULL,
         x \notin A \/ (\E m \in Modules : x = c[m]) \/ (\E k \in 1..n : k # i /\ x = t[k])
  PROVE  \A j \in 1..Len(s) : s[j] # x
<1>. SUFFICES ASSUME NEW j \in 1..Len(s), s[j] = x  PROVE FALSE
  OBVIOUS
<1>1. s \in Seq(A) /\ s[j] \in A /\ Len(s) \in Nat
  BY DEF IsChain
<1>2. t[i] # NULL
  BY DEF IsChain
<1>3. CASE j = Len(s)
  BY <1>1, <1>2, <1>3 DEF IsChain, Exact, Apart
<1>4. CASE j # Len(s)
  <2>1. j \in 1..(Len(s) - 1) /\ j + 1 \in 1..Len(s)
    BY <1>1, <1>4
  <2>2. l[s[j + 1]] = x /\ s[j + 1] \in A
    BY <2>1, <1>1, <1>2 DEF IsChain
  <2>. QED  BY <2>2, <1>1 DEF Exact, Apart
<1>. QED  BY <1>3, <1>4

(* The block a call runs on is the last of its chain only.                 *)
LEMMA TopOnce ==
  ASSUME NEW c, NEW l, NEW A, NEW n, NEW t, Shape(c, l, A, t, n), Exact(c, l, A, t, n),
         NEW i \in 1..n, NEW s, IsChain(s, t[i], l, A)
  PROVE  \A j \in 1..(Len(s) - 1) : s[j] # t[i]
<1>. SUFFICES ASSUME NEW j \in 1..(Len(s) - 1), s[j] = t[i]  PROVE FALSE
  OBVIOUS
<1>1. s \in Seq(A) /\ Len(s) \in Nat /\ j + 1 \in 1..Len(s) /\ t[i] # NULL
  BY DEF IsChain
<1>2. l[s[j + 1]] = t[i] /\ s[j + 1] \in A
  BY <1>1 DEF IsChain
<1>. QED  BY <1>1, <1>2 DEF Exact, Apart

(* A chain whose blocks keep their links is the chain it was.              *)
LEMMA ChainStays ==
  ASSUME NEW l, NEW A, NEW b, NEW s, IsChain(s, b, l, A), NEW l2, NEW B,
         \A j \in 1..Len(s) : s[j] \in B /\ l2[s[j]] = l[s[j]]
  PROVE  IsChain(s, b, l2, B)
<1>1. s \in Seq(A) /\ Len(s) \in Nat
  BY DEF IsChain
<1>2. s \in Seq(B)
  BY <1>1
<1>3. ASSUME s # <<>>  PROVE 1 \in 1..Len(s)
  BY <1>1, <1>3
<1>4. \A j \in 1..(Len(s) - 1) : j + 1 \in 1..Len(s)
  BY <1>1
<1>. QED  BY <1>2, <1>3, <1>4 DEF IsChain

-----------------------------------------------------------------------------
ChainFacts ==
  /\ Grounded(link, Allocated)
  /\ \A b \in Allocated \cup {NULL} :
       /\ IsChain(Chain[b], b, link, Allocated)
       /\ \A s : IsChain(s, b, link, Allocated) => Chain[b] = s

LEMMA ChainHere == FreeInv => ChainFacts
<1>. SUFFICES ASSUME FreeInv  PROVE ChainFacts
  OBVIOUS
<1>1. Grounded(link, Allocated)
  BY DEF FreeInv, ClosureInv, Local, Exact, Reached, Ranked, Grounded, Allocated
<1>2. Chain = CHOOSE g : Chains(g, link, Allocated)
  BY DEF Chain, Chains
<1>3. \A b \in Allocated \cup {NULL} : IsChain(Chain[b], b, link, Allocated)
  BY <1>1, <1>2, ChainsAre
<1>4. \A b \in Allocated \cup {NULL} : \A s :
        IsChain(s, b, link, Allocated) => Chain[b] = s
  BY <1>1, <1>3, OneChain
<1>. QED  BY <1>1, <1>3, <1>4 DEF ChainFacts

LEMMA ChainNext == FreeInv' => ChainFacts'
BY ChainHere, PTL

(* What the blocks of a chain s keep for the activations of f.             *)
Saves(f, s, v) == [j \in DOMAIN s |-> [fn |-> f, saved |-> v[s[j]]]]

Acts == [i \in DOMAIN stack |-> Saved(stack[i])]

Act == [fn : Functions, saved : Values]

ActsFacts ==
  /\ Acts \in Seq(Seq(Act)) /\ Len(Acts) = Len(stack) /\ Len(stack) \in Nat
  /\ \A i \in 1..Len(stack) :
       /\ stack[i].C \in Allocated \cup {NULL}
       /\ IsChain(Chain[stack[i].C], stack[i].C, link, Allocated)
       /\ Acts[i] = Saves(stack[i].fn, Chain[stack[i].C], value)
       /\ stack[i].fn \in Functions /\ Acts[i] \in Seq(Act)

LEMMA ActsHere == FreeInv => ActsFacts
<1>. SUFFICES ASSUME FreeInv  PROVE ActsFacts
  OBVIOUS
<1>1. /\ TypeOK /\ stack \in Seq(Call) /\ DOMAIN stack = 1..Len(stack) /\ Len(stack) \in Nat
      /\ Local
  BY ShapeHolds DEF FreeInv, ClosureInv
<1>2. \A i \in 1..Len(stack) : stack[i] \in Call
  BY <1>1
<1>3. \A i \in 1..Len(stack) : stack[i].fn \in Functions
  BY <1>2 DEF Call
<1>4. \A i \in 1..Len(stack) : stack[i].C \in Allocated \cup {NULL}
  BY <1>1 DEF Local, Exact, Reached, Conts
<1>5. \A i \in 1..Len(stack) : IsChain(Chain[stack[i].C], stack[i].C, link, Allocated)
  BY <1>4, ChainHere DEF ChainFacts
<1>6. \A i \in 1..Len(stack) : Acts[i] = Saves(stack[i].fn, Chain[stack[i].C], value)
  BY <1>1 DEF Acts, Saved, Saves
<1>7. ASSUME NEW f \in Functions, NEW s \in Seq(Allocated)
      PROVE  Saves(f, s, value) \in Seq(Act)
  <2>1. DOMAIN s = 1..Len(s) /\ Len(s) \in Nat /\ \A j \in 1..Len(s) : s[j] \in Blocks
    BY DEF Allocated
  <2>2. \A j \in 1..Len(s) : [fn |-> f, saved |-> value[s[j]]] \in Act
    BY <2>1, <1>1 DEF Act, TypeOK
  <2>. QED  BY <2>1, <2>2 DEF Saves
<1>8. \A i \in 1..Len(stack) : Acts[i] \in Seq(Act)
  BY <1>3, <1>5, <1>6, <1>7 DEF IsChain
<1>9. Acts \in Seq(Seq(Act)) /\ Len(Acts) = Len(stack)
  <2>1. DOMAIN Acts = 1..Len(stack)
    BY <1>1 DEF Acts
  <2>2. Acts = [i \in 1..Len(stack) |-> Acts[i]]
    BY <2>1 DEF Acts
  <2>. HIDE DEF Acts
  <2>. QED  BY <2>1, <2>2, <1>1, <1>8
<1>. QED  BY <1>1, <1>3, <1>4, <1>5, <1>6, <1>8, <1>9 DEF ActsFacts

LEMMA ActsNext == FreeInv' => ActsFacts'
BY ActsHere, PTL

(* What is saved changes with the values of the blocks of the chain only.  *)
LEMMA SavedStay ==
  ASSUME NEW f, NEW A, NEW s \in Seq(A), NEW v, NEW w,
         \A j \in 1..Len(s) : v[s[j]] = w[s[j]]
  PROVE  Saves(f, s, v) = Saves(f, s, w)
BY DEF Saves

LEMMA SavedPush ==
  ASSUME NEW f \in Functions, NEW A \in SUBSET Blocks, NEW s \in Seq(A), NEW b \in A,
         NEW v \in [Blocks -> Values]
  PROVE  Saves(f, Append(s, b), v) = Append(Saves(f, s, v), [fn |-> f, saved |-> v[b]])
<1> DEFINE u == Append(s, b)
           n == Len(s)
           x == [fn |-> f, saved |-> v[b]]
           p == Saves(f, s, v)
           q == Saves(f, u, v)
<1>1. /\ u \in Seq(A) /\ n \in Nat /\ Len(u) = n + 1
      /\ DOMAIN s = 1..n /\ DOMAIN u = 1..(n + 1)
      /\ \A i \in 1..n : u[i] = s[i]
      /\ u[n + 1] = b
  BY AppendFacts
<1>2. x \in Act /\ \A i \in 1..n : [fn |-> f, saved |-> v[s[i]]] \in Act
  <2>1. \A i \in 1..n : s[i] \in Blocks
    BY <1>1
  <2>. QED  BY <2>1 DEF Act
<1>3. /\ p \in Seq(Act) /\ Len(p) = n /\ DOMAIN p = 1..n
      /\ \A i \in 1..n : p[i] = [fn |-> f, saved |-> v[s[i]]]
  BY <1>1, <1>2 DEF Saves
<1>4. /\ DOMAIN q = 1..(n + 1)
      /\ \A i \in 1..(n + 1) : q[i] = [fn |-> f, saved |-> v[u[i]]]
  BY <1>1 DEF Saves
<1>. HIDE DEF n, u, p, q, x
<1>5. \A i \in 1..(n + 1) : i \in 1..n \/ i = n + 1
  BY <1>1
<1>6. q[n + 1] = x /\ \A i \in 1..n : q[i] = p[i]
  BY <1>1, <1>3, <1>4 DEF x
<1>7. /\ Append(p, x) \in Seq(Act) /\ Len(Append(p, x)) = n + 1
      /\ \A i \in 1..n : Append(p, x)[i] = p[i]
      /\ Append(p, x)[n + 1] = x /\ DOMAIN Append(p, x) = 1..(n + 1)
  BY <1>2, <1>3, AppendFacts
<1>8. q = [i \in 1..(n + 1) |-> q[i]]
  BY <1>4 DEF q, Saves
<1>9. \A i \in 1..(n + 1) : q[i] = Append(p, x)[i]
  BY <1>5, <1>6, <1>7
<1>10. q \in Seq(Act) /\ Len(q) = n + 1
  <2>1. \A i \in 1..(n + 1) : q[i] \in Act
    BY <1>9, <1>7
  <2>. QED  BY <2>1, <1>8, <1>1
<1>11. q = Append(p, x)
  BY <1>7, <1>9, <1>10, SeqEqual
<1>. QED  BY <1>11 DEF n, u, p, q, x

-----------------------------------------------------------------------------
(* lisp_closure_get takes a block that is on no chain, and leaves chains.  *)
LEMMA GetBlock ==
  ASSUME TypeOK, Local, NEW f \in Functions, NEW b \in Blocks, NEW v \in Values,
         NEW up \in BlockOrNull, Get(f, cache, link, up, b, v)
  PROVE  /\ b \in Allocated' /\ Allocated \subseteq Allocated' /\ Allocated' \subseteq Blocks
         /\ link'[b] = up /\ \A a \in Blocks : a # b => link'[a] = link[a]
         /\ value' \in [Blocks -> Values]
         /\ value'[b] = v /\ \A a \in Blocks : a # b => value'[a] = value[a]
         /\ b \notin Allocated \/ \E m \in Modules : b = cache[m]
<1>1. /\ link' = [link EXCEPT ![b] = up] /\ value' = [value EXCEPT ![b] = v]
      /\ CacheOf(f) \in Modules
  BY ClosureAssumption DEF Get, CacheOf
<1>2. CASE cache[CacheOf(f)] # NULL
  <2>1. b = cache[CacheOf(f)] /\ size' = size
    BY <1>2 DEF Get
  <2>2. b \in Allocated /\ Allocated' = Allocated
    BY <1>1, <1>2, <2>1 DEF Local, Exact, Reached, Allocated
  <2>. QED  BY <1>1, <2>1, <2>2 DEF TypeOK, Allocated
<1>3. CASE cache[CacheOf(f)] = NULL
  <2>1. b \notin Allocated /\ size' = [size EXCEPT ![b] = Size[f]]
    BY <1>3 DEF Get, Malloc
  <2>2. Allocated' = Allocated \cup {b}
    BY <2>1, ClosureAssumption DEF Allocated, TypeOK
  <2>. QED  BY <1>1, <2>1, <2>2 DEF TypeOK, Allocated
<1>. QED  BY <1>2, <1>3

LEMMA GetChains ==
  ASSUME TypeOK, Local, NEW f \in Functions, NEW b \in Blocks, NEW v \in Values,
         NEW up \in BlockOrNull, Get(f, cache, link, up, b, v),
         NEW i \in 1..Len(stack), NEW s, IsChain(s, Conts[i], link, Allocated)
  PROVE  /\ \A j \in 1..Len(s) : s[j] # b
         /\ IsChain(s, Conts[i], link', Allocated')
<1>1. Shape(cache, link, Allocated, Conts, Len(stack)) /\ b # NULL
  BY ShapeHolds, ClosureAssumption
<1>2. /\ b \in Allocated' /\ Allocated \subseteq Allocated' /\ Allocated' \subseteq Blocks
      /\ link'[b] = up /\ \A a \in Blocks : a # b => link'[a] = link[a]
      /\ b \notin Allocated \/ \E m \in Modules : b = cache[m]
  BY GetBlock
<1>3. \A j \in 1..Len(s) : s[j] # b
  BY <1>1, <1>2, Elsewhere DEF Local
<1>4. \A j \in 1..Len(s) : s[j] \in Allocated
  BY DEF IsChain
<1>5. \A j \in 1..Len(s) : s[j] \in Allocated' /\ link'[s[j]] = link[s[j]]
  BY <1>2, <1>3, <1>4
<1>. QED  BY <1>3, <1>5, ChainStays

(* The calls that run keep their chains and what they save, and the new    *)
(* block goes on top of the chain of up.                                   *)
LEMMA GetSaves ==
  ASSUME FreeInv, FreeInv', NEW f \in Functions, NEW b \in Blocks, NEW v \in Values,
         NEW up \in BlockOrNull, up = NULL \/ (\E k \in 1..Len(stack) : up = stack[k].C),
         Get(f, cache, link, up, b, v)
  PROVE  /\ \A i \in 1..Len(stack) :
              Saves(stack[i].fn, Chain'[stack[i].C], value') = Acts[i]
         /\ Saves(f, Chain'[b], value')
              = Append(Saves(f, Chain[up], value), [fn |-> f, saved |-> v])
<1>1. /\ TypeOK /\ Local /\ DOMAIN stack = 1..Len(stack)
      /\ \A i \in 1..Len(stack) : Conts[i] = stack[i].C
  BY ShapeHolds DEF FreeInv, ClosureInv, Conts
<1>2. ActsFacts /\ ChainFacts'
  BY ActsHere, ChainNext
<1>3. /\ b \in Allocated' /\ Allocated \subseteq Allocated' /\ Allocated' \subseteq Blocks
      /\ Allocated \subseteq Blocks
      /\ link'[b] = up /\ value'[b] = v /\ \A a \in Blocks : a # b => value'[a] = value[a]
      /\ value' \in [Blocks -> Values]
  BY <1>1, GetBlock DEF Allocated
<1>4. ASSUME NEW c \in Allocated \cup {NULL}, c = NULL \/ (\E k \in 1..Len(stack) : c = stack[k].C)
      PROVE  /\ IsChain(Chain[c], c, link', Allocated') /\ Chain'[c] = Chain[c]
             /\ Chain[c] \in Seq(Allocated)
             /\ \A g : Saves(g, Chain[c], value') = Saves(g, Chain[c], value)
  <2>1. /\ IsChain(Chain[c], c, link, Allocated) /\ IsChain(Chain[c], c, link', Allocated')
        /\ \A j \in 1..Len(Chain[c]) : Chain[c][j] # b
    <3>1. CASE c = NULL
      <4>1. IsChain(Chain[c], c, link, Allocated)
        BY ChainHere DEF ChainFacts
      <4>2. Chain[c] = <<>>
        BY <4>1, <3>1, NoChain
      <4>. QED  BY <4>1, <4>2, <3>1, NoChain
    <3>2. CASE c # NULL
      <4>1. PICK k \in 1..Len(stack) : c = stack[k].C
        BY <1>4, <3>2
      <4>2. IsChain(Chain[c], Conts[k], link, Allocated) /\ c = Conts[k]
        BY <4>1, <1>1, <1>2 DEF ActsFacts
      <4>. QED  BY <4>2, <1>1, GetChains
    <3>. QED  BY <3>1, <3>2
  <2>2. Chain[c] \in Seq(Allocated)
    BY <2>1 DEF IsChain
  <2>3. \A j \in 1..Len(Chain[c]) : value'[Chain[c][j]] = value[Chain[c][j]]
    <3>1. \A j \in 1..Len(Chain[c]) : Chain[c][j] \in Blocks
      BY <2>2, <1>3
    <3>. QED  BY <3>1, <2>1, <1>3
  <2>4. \A g : Saves(g, Chain[c], value') = Saves(g, Chain[c], value)
    BY <2>2, <2>3, SavedStay
  <2>5. Chain'[c] = Chain[c]
    BY <2>1, <1>2, <1>3 DEF ChainFacts
  <2>. QED  BY <2>1, <2>2, <2>4, <2>5
<1>5. ASSUME NEW i \in 1..Len(stack)
      PROVE  Saves(stack[i].fn, Chain'[stack[i].C], value') = Acts[i]
  <2>1. /\ stack[i].C \in Allocated \cup {NULL}
        /\ Acts[i] = Saves(stack[i].fn, Chain[stack[i].C], value)
    BY <1>2 DEF ActsFacts
  <2>2. /\ Chain'[stack[i].C] = Chain[stack[i].C]
        /\ Saves(stack[i].fn, Chain[stack[i].C], value')
             = Saves(stack[i].fn, Chain[stack[i].C], value)
    BY <2>1, <1>4
  <2>. QED  BY <2>1, <2>2
<1>6. Saves(f, Chain'[b], value') = Append(Saves(f, Chain[up], value), [fn |-> f, saved |-> v])
  <2>1. up \in Allocated \cup {NULL}
    BY <1>2 DEF ActsFacts
  <2>2. /\ IsChain(Chain[up], up, link', Allocated') /\ Chain[up] \in Seq(Allocated)
        /\ Saves(f, Chain[up], value') = Saves(f, Chain[up], value)
    BY <2>1, <1>4
  <2>3. IsChain(Append(Chain[up], b), b, link', Allocated')
    BY <2>2, <1>3, ChainAppend
  <2>4. Chain'[b] = Append(Chain[up], b)
    BY <2>3, <1>2, <1>3 DEF ChainFacts
  <2>5. Chain[up] \in Seq(Allocated')
    BY <2>2 DEF IsChain
  <2>6. Saves(f, Append(Chain[up], b), value')
          = Append(Saves(f, Chain[up], value'), [fn |-> f, saved |-> value'[b]])
    BY <2>5, <1>3, SavedPush
  <2>. QED  BY <2>2, <2>4, <2>6, <1>3
<1>. QED  BY <1>5, <1>6

-----------------------------------------------------------------------------
LEMMA SameActivity ==
  /\ \A s : Activity!Front(s) = Front(s) /\ Activity!Last(s) = Last(s)
  /\ Activity!Activation = Act
BY DEF Activity!Front, Front, Activity!Last, Last, Activity!Activation, Act

(* Two lists that differ in their last element.                            *)
LEMMA LastDiffers ==
  ASSUME NEW S, NEW u \in Seq(S), NEW w \in Seq(S), u # <<>>, Len(w) = Len(u),
         \A i \in 1..(Len(u) - 1) : w[i] = u[i]
  PROVE  /\ w = Append(Front(u), w[Len(u)]) /\ Last(u) = u[Len(u)]
         /\ Len(u) \in 1..Len(u)
<1>1. /\ Front(u) \in Seq(S) /\ Len(Front(u)) = Len(u) - 1 /\ Last(u) = u[Len(u)]
      /\ \A i \in 1..(Len(u) - 1) : Front(u)[i] = u[i]
      /\ Len(u) \in Nat \ {0}
  BY FrontLast
<1>2. w # <<>>
  BY <1>1
<1>3. /\ Front(w) \in Seq(S) /\ Len(Front(w)) = Len(u) - 1 /\ Last(w) = w[Len(u)]
      /\ \A i \in 1..(Len(u) - 1) : Front(w)[i] = w[i]
      /\ w = Append(Front(w), Last(w))
  BY <1>2, FrontLast
<1>4. Front(w) = Front(u)
  BY <1>1, <1>3, SeqEqual
<1>. QED  BY <1>1, <1>3, <1>4

(* The calls, but for the last one, are what they were.                    *)
LEMMA LastActs ==
  ASSUME FreeInv, FreeInv', stack # <<>>, Len(stack') = Len(stack),
         \A i \in 1..(Len(stack) - 1) : Acts'[i] = Acts[i]
  PROVE  /\ Acts' = Append(Front(Acts), Acts'[Len(stack)])
         /\ Acts # <<>> /\ Last(Acts) = Acts[Len(stack)]
         /\ Len(stack) \in 1..Len(stack)
<1>1. /\ Acts \in Seq(Seq(Act)) /\ Len(Acts) = Len(stack)
      /\ Acts' \in Seq(Seq(Act)) /\ Len(Acts') = Len(stack)
  BY ActsHere, ActsNext DEF ActsFacts
<1>2. Len(stack) \in Nat \ {0}
  BY TopFacts DEF FreeInv, ClosureInv
<1>3. Acts # <<>>
  BY <1>1, <1>2
<1> DEFINE u == Acts
           w == Acts'
<1>4. /\ u \in Seq(Seq(Act)) /\ w \in Seq(Seq(Act)) /\ u # <<>> /\ Len(w) = Len(u)
      /\ Len(u) = Len(stack) /\ \A i \in 1..(Len(u) - 1) : w[i] = u[i]
  BY <1>1, <1>3
<1>. HIDE DEF u, w
<1>5. w = Append(Front(u), w[Len(u)]) /\ Last(u) = u[Len(u)] /\ Len(u) \in 1..Len(u)
  BY <1>4, LastDiffers
<1>. QED  BY <1>3, <1>4, <1>5 DEF u, w

-----------------------------------------------------------------------------
(* The continuation that runs: its chain ends with its block, and the last *)
(* activation of its call is what that block keeps.                        *)
LEMMA RunningChain ==
  ASSUME FreeInv, Running, NEW n, n = Len(stack), NEW s, s = Chain[Top.C]
  PROVE  /\ n \in Nat \ {0} /\ n \in 1..n /\ Top = stack[n] /\ Conts[n] = Top.C
         /\ Top.fn \in Functions /\ Top.C \in Allocated
         /\ s \in Seq(Allocated) /\ s # <<>> /\ s = Append(Front(s), Top.C)
         /\ Front(s) \in Seq(Allocated)
         /\ IsChain(s, Top.C, link, Allocated)
         /\ IsChain(Front(s), link[Top.C], link, Allocated)
         /\ Acts[n] = Saves(Top.fn, s, value)
         /\ Acts[n] # <<>> /\ Front(Acts[n]) = Saves(Top.fn, Front(s), value)
<1>1. /\ ClosureInv /\ stack # <<>> /\ TypeOK
      /\ Top.C \in Allocated /\ Top.C # NULL /\ Top.fn \in Functions
      /\ n \in 1..n /\ Conts[n] = Top.C
  BY RunningTop DEF FreeInv, ClosureInv
<1>2. n \in Nat \ {0} /\ Top = stack[n]
  BY <1>1, TopFacts
<1>3. Allocated \in SUBSET Blocks /\ NULL \notin Allocated /\ value \in [Blocks -> Values]
  BY <1>1, ClosureAssumption DEF Allocated, TypeOK
<1>4. IsChain(s, Top.C, link, Allocated) /\ Acts[n] = Saves(Top.fn, s, value)
  BY <1>1, <1>2, ActsHere DEF ActsFacts
<1>5. /\ s \in Seq(Allocated) /\ s # <<>> /\ s = Append(Front(s), Top.C)
      /\ Front(s) \in Seq(Allocated) /\ IsChain(Front(s), link[Top.C], link, Allocated)
  <2>1. ASSUME NEW q, IsChain(q, Top.C, link, Allocated)
        PROVE  /\ q \in Seq(Allocated) /\ q # <<>> /\ q = Append(Front(q), Top.C)
               /\ Front(q) \in Seq(Allocated)
               /\ IsChain(Front(q), link[Top.C], link, Allocated)
    BY <2>1, <1>1, <1>3, ChainFront
  <2>. QED  BY <2>1, <1>4
<1> DEFINE p == Saves(Top.fn, Front(s), value)
           a == [fn |-> Top.fn, saved |-> value[Top.C]]
<1>6. Acts[n] = Append(p, a)
  <2>1. Saves(Top.fn, Append(Front(s), Top.C), value) = Append(p, a)
    BY <1>1, <1>3, <1>5, SavedPush
  <2>. QED  BY <2>1, <1>4, <1>5
<1>7. a \in Act /\ p \in Seq(Act)
  <2>1. a \in Act
    BY <1>1, <1>3 DEF Act
  <2>2. DOMAIN Front(s) = 1..Len(Front(s)) /\ Len(Front(s)) \in Nat
        /\ \A j \in 1..Len(Front(s)) : Front(s)[j] \in Blocks
    BY <1>3, <1>5
  <2>3. \A j \in 1..Len(Front(s)) : [fn |-> Top.fn, saved |-> value[Front(s)[j]]] \in Act
    BY <2>2, <1>1, <1>3 DEF Act
  <2>4. p = [j \in 1..Len(Front(s)) |-> [fn |-> Top.fn, saved |-> value[Front(s)[j]]]]
    BY <2>2 DEF Saves
  <2>. HIDE DEF p
  <2>5. p \in Seq(Act)
    BY <2>2, <2>3, <2>4
  <2>. QED  BY <2>1, <2>5
<1>. HIDE DEF p, a
<1>8. Acts[n] # <<>> /\ Front(Acts[n]) = p
  BY <1>6, <1>7, AppendFacts
<1>. QED  BY <1>1, <1>2, <1>4, <1>5, <1>8 DEF p

(* The blocks of the other calls are not the one that runs.                *)
LEMMA OtherChains ==
  ASSUME FreeInv, Running, NEW n, n = Len(stack)
  PROVE  /\ \A i \in 1..(n - 1) : \A j \in 1..Len(Chain[stack[i].C]) :
              Chain[stack[i].C][j] # Top.C
         /\ \A j \in 1..(Len(Chain[Top.C]) - 1) : Chain[Top.C][j] # Top.C
<1>1. /\ Shape(cache, link, Allocated, Conts, n)
      /\ Exact(cache, link, Allocated, Conts, n)
      /\ n \in 1..n /\ Conts[n] = Top.C /\ Top.C # NULL /\ n \in Nat \ {0}
      /\ Top = stack[n]
  BY ShapeHolds, RunningTop, RunningChain DEF FreeInv, ClosureInv, Local
<1>2. \A i \in 1..n : IsChain(Chain[stack[i].C], stack[i].C, link, Allocated)
                      /\ Conts[i] = stack[i].C
  BY ActsHere, ShapeHolds DEF ActsFacts, Conts, FreeInv, ClosureInv
<1>3. ASSUME NEW i \in 1..(n - 1)
      PROVE  \A j \in 1..Len(Chain[stack[i].C]) : Chain[stack[i].C][j] # Top.C
  <2>1. i \in 1..n /\ n # i
    BY <1>1
  <2>2. IsChain(Chain[stack[i].C], Conts[i], link, Allocated)
    BY <2>1, <1>2
  <2> DEFINE c == Top.C
             s == Chain[stack[i].C]
  <2>3. /\ c # NULL /\ IsChain(s, Conts[i], link, Allocated)
        /\ \E k \in 1..n : k # i /\ c = Conts[k]
    BY <2>1, <2>2, <1>1
  <2>. HIDE DEF c, s
  <2>4. \A j \in 1..Len(s) : s[j] # c
    BY <2>1, <2>3, <1>1, Elsewhere
  <2>. QED  BY <2>4 DEF c, s
<1>4. \A j \in 1..(Len(Chain[Top.C]) - 1) : Chain[Top.C][j] # Top.C
  <2>1. IsChain(Chain[Top.C], Conts[n], link, Allocated)
    BY <1>1, <1>2
  <2>. QED  BY <2>1, <1>1, TopOnce
<1>. QED  BY <1>3, <1>4

(* A call from LISP begins a list of activations.                          *)
LEMMA EnterKeeps ==
  ASSUME FreeInv, FreeInv', NEW f \in Functions, Enter(f)
  PROVE  \E a \in Act : Acts' = Append(Acts, <<a>>)
<1>1. PICK b \in Blocks, v \in Values :
        /\ Get(f, cache, link, NULL, b, v)
        /\ stack' = Append(stack, [fn |-> f, C |-> b, at |-> "block"])
  BY DEF Enter
<1> DEFINE e == [fn |-> f, C |-> b, at |-> "block"]
           n == Len(stack)
           a == [fn |-> f, saved |-> v]
<1>2. e \in Call /\ e.C = b /\ e.fn = f /\ a \in Act
  BY DEF Call, Act
<1>3. stack \in Seq(Call) /\ stack' = Append(stack, e) /\ NULL \in BlockOrNull
  BY <1>1, ShapeHolds DEF FreeInv, ClosureInv, BlockOrNull
<1>4. /\ ActsFacts /\ ActsFacts'
      /\ IsChain(Chain[NULL], NULL, link, Allocated)
  BY ActsHere, ActsNext, ChainHere DEF ChainFacts
<1>5. /\ \A i \in 1..n : Saves(stack[i].fn, Chain'[stack[i].C], value') = Acts[i]
      /\ Saves(f, Chain'[b], value') = Append(Saves(f, Chain[NULL], value), a)
  BY <1>1, <1>3, GetSaves
<1>. HIDE DEF e, a
<1>6. /\ n \in Nat /\ Len(stack') = n + 1
      /\ \A i \in 1..n : stack'[i] = stack[i]
      /\ stack'[n + 1] = e
  BY <1>2, <1>3, AppendFacts
<1>7. Saves(f, Chain[NULL], value) = <<>>
  <2>1. Chain[NULL] = <<>>
    BY <1>4, NoChain
  <2>. QED  BY <2>1 DEF Saves
<1>8. /\ Acts \in Seq(Seq(Act)) /\ Len(Acts) = n
      /\ Acts' \in Seq(Seq(Act)) /\ Len(Acts') = n + 1
      /\ \A i \in 1..(n + 1) :
           Acts'[i] = Saves(stack'[i].fn, Chain'[stack'[i].C], value')
  BY <1>4, <1>6 DEF ActsFacts
<1>. HIDE DEF n
<1>9. /\ n + 1 \in 1..(n + 1) /\ \A i \in 1..n : i \in 1..(n + 1)
      /\ \A i \in 1..(n + 1) : i \in 1..n \/ i = n + 1
  BY <1>6
<1>10. Acts'[n + 1] = <<a>>
  <2>1. Append(<<>>, a) = <<a>>
    OBVIOUS
  <2>. QED  BY <2>1, <1>2, <1>5, <1>6, <1>7, <1>8, <1>9
<1>11. \A i \in 1..n : Acts'[i] = Acts[i]
  BY <1>5, <1>6, <1>8, <1>9
<1>12. <<a>> \in Seq(Act)
  BY <1>2
<1>13. /\ Append(Acts, <<a>>) \in Seq(Seq(Act)) /\ Len(Append(Acts, <<a>>)) = n + 1
       /\ \A i \in 1..n : Append(Acts, <<a>>)[i] = Acts[i]
       /\ Append(Acts, <<a>>)[n + 1] = <<a>>
  BY <1>8, <1>12, AppendFacts
<1>14. Acts' = Append(Acts, <<a>>)
  <2> DEFINE u == Acts'
             w == Append(Acts, <<a>>)
  <2>1. u \in Seq(Seq(Act)) /\ w \in Seq(Seq(Act)) /\ Len(u) = Len(w) /\ Len(u) = n + 1
    BY <1>8, <1>13
  <2>2. \A i \in 1..(n + 1) : u[i] = w[i]
    BY <1>9, <1>10, <1>11, <1>13
  <2>. HIDE DEF u, w
  <2>3. u = w
    BY <2>1, <2>2, SeqEqual
  <2>. QED  BY <2>3 DEF u, w
<1>. QED  BY <1>2, <1>14

(* The call that runs has its last list of activations changed.            *)
LEMMA TopChanges ==
  ASSUME FreeInv, FreeInv', Running, NEW c \in Blocks \cup {NULL},
         NEW at \in {"block", "clear"}, SetTop(c, at), NEW x, NEW n, n = Len(stack),
         \A i \in 1..(n - 1) : Saves(stack[i].fn, Chain'[stack[i].C], value') = Acts[i],
         Saves(Top.fn, Chain'[c], value') = x
  PROVE  Acts # <<>> /\ Acts' = Append(Front(Acts), x) /\ Last(Acts) = Acts[n]
<1>1. TypeOK /\ stack # <<>> /\ n \in Nat \ {0}
  BY TopFacts DEF FreeInv, ClosureInv, Running
<1>2. /\ Len(stack') = n /\ \A i \in 1..(n - 1) : stack'[i] = stack[i]
      /\ stack'[n].C = c /\ stack'[n].fn = Top.fn
  BY <1>1, SetTopFacts
<1>3. \A i \in 1..n : Acts'[i] = Saves(stack'[i].fn, Chain'[stack'[i].C], value')
  BY <1>2, ActsNext DEF ActsFacts
<1>4. n \in 1..n /\ \A i \in 1..(n - 1) : i \in 1..n
  BY <1>1
<1>5. Acts'[n] = x /\ \A i \in 1..(n - 1) : Acts'[i] = Acts[i]
  BY <1>2, <1>3, <1>4
<1>. QED  BY <1>1, <1>2, <1>5, LastActs

LEMMA RecCallKeeps ==
  ASSUME FreeInv, FreeInv', RecCall
  PROVE  /\ Acts # <<>> /\ Last(Acts) # <<>>
         /\ \E a \in Act : Acts' = Append(Front(Acts), Append(Last(Acts), a))
<1>1. PICK b \in Blocks, v \in Values :
        Get(Top.fn, cache, link, Top.C, b, v) /\ SetTop(b, "block")
  BY DEF RecCall
<1> DEFINE n == Len(stack)
           a == [fn |-> Top.fn, saved |-> v]
           s == Chain[Top.C]
<1>. HIDE DEF n, s
<1>2. /\ n \in Nat \ {0} /\ n \in 1..n /\ Top = stack[n] /\ Top.C \in Allocated
      /\ Top.fn \in Functions /\ Acts[n] = Saves(Top.fn, s, value) /\ Acts[n] # <<>>
      /\ Running
  BY RunningChain DEF RecCall, n, s
<1>3. a \in Act /\ Top.C \in BlockOrNull
  BY <1>2 DEF Act, Allocated, BlockOrNull
<1>4. /\ \A i \in 1..n : Saves(stack[i].fn, Chain'[stack[i].C], value') = Acts[i]
      /\ Saves(Top.fn, Chain'[b], value') = Append(Saves(Top.fn, s, value), a)
  BY <1>1, <1>2, <1>3, GetSaves DEF n, s
<1>. HIDE DEF a
<1>5. \A i \in 1..(n - 1) : i \in 1..n
  BY <1>2
<1>6. Acts # <<>> /\ Acts' = Append(Front(Acts), Append(Acts[n], a)) /\ Last(Acts) = Acts[n]
  <2>1. /\ \A i \in 1..(n - 1) : Saves(stack[i].fn, Chain'[stack[i].C], value') = Acts[i]
        /\ Saves(Top.fn, Chain'[b], value') = Append(Acts[n], a)
    BY <1>2, <1>4, <1>5
  <2>. QED  BY <2>1, <1>1, <1>2, TopChanges DEF n
<1>. QED  BY <1>2, <1>3, <1>6

(* A save, and a tail call, which gets the block it puts: the last         *)
(* activation of the call is replaced.                                     *)
LEMMA OverwriteKeeps ==
  ASSUME FreeInv, FreeInv', Running, NEW v \in Values, SetTop(Top.C, "block"),
         link' = link, size' = size, value'[Top.C] = v,
         \A b \in Blocks : b # Top.C => value'[b] = value[b]
  PROVE  /\ Acts # <<>> /\ Last(Acts) # <<>>
         /\ \E a \in Act : Acts' = Append(Front(Acts), Append(Front(Last(Acts)), a))
<1> DEFINE n == Len(stack)
           a == [fn |-> Top.fn, saved |-> v]
           s == Chain[Top.C]
           c == Top.C
<1>. HIDE DEF n, s, c
<1>1. /\ n \in Nat \ {0} /\ n \in 1..n /\ Top.fn \in Functions /\ c \in Allocated
      /\ s \in Seq(Allocated) /\ s # <<>> /\ s = Append(Front(s), c)
      /\ Front(s) \in Seq(Allocated)
      /\ Acts[n] # <<>> /\ Front(Acts[n]) = Saves(Top.fn, Front(s), value)
  BY RunningChain DEF n, s, c
<1>2. /\ \A i \in 1..(n - 1) : \A j \in 1..Len(Chain[stack[i].C]) : Chain[stack[i].C][j] # c
      /\ \A j \in 1..(Len(s) - 1) : s[j] # c
  BY OtherChains DEF n, s, c
<1>3. /\ a \in Act /\ Allocated' = Allocated /\ Allocated \in SUBSET Blocks
      /\ value \in [Blocks -> Values] /\ value' \in [Blocks -> Values]
      /\ value'[c] = v /\ \A b \in Blocks : b # c => value'[b] = value[b]
  BY <1>1 DEF Act, Allocated, FreeInv, ClosureInv, TypeOK, c
<1>4. Chain' = Chain
  BY <1>3 DEF Chain
<1>5. ASSUME NEW i \in 1..(n - 1)
      PROVE  Saves(stack[i].fn, Chain'[stack[i].C], value') = Acts[i]
  <2>1. i \in 1..n
    BY <1>1
  <2>2. /\ Chain[stack[i].C] \in Seq(Allocated)
        /\ Acts[i] = Saves(stack[i].fn, Chain[stack[i].C], value)
    BY <2>1, ActsHere DEF ActsFacts, IsChain, n
  <2>3. \A j \in 1..Len(Chain[stack[i].C]) : Chain[stack[i].C][j] \in Blocks
    BY <2>2, <1>3
  <2>4. \A j \in 1..Len(Chain[stack[i].C]) :
          value'[Chain[stack[i].C][j]] = value[Chain[stack[i].C][j]]
    BY <2>3, <1>2, <1>3
  <2>. QED  BY <2>2, <2>4, <1>4, SavedStay
<1>6. Saves(Top.fn, Chain'[c], value') = Append(Front(Acts[n]), a)
  <2> DEFINE u == Front(s)
  <2>1. Len(u) = Len(s) - 1 /\ \A j \in 1..(Len(s) - 1) : u[j] = s[j]
    BY <1>1, FrontLast
  <2>2. \A j \in 1..Len(u) : u[j] \in Blocks /\ u[j] # c
    BY <2>1, <1>1, <1>2, <1>3
  <2>3. \A j \in 1..Len(u) : value'[u[j]] = value[u[j]]
    BY <2>2, <1>3
  <2>4. u \in Seq(Allocated)
    BY <1>1
  <2>5. Saves(Top.fn, u, value') = Front(Acts[n])
    <3>. HIDE DEF u
    <3>1. Saves(Top.fn, u, value') = Saves(Top.fn, u, value)
      BY <2>3, <2>4, SavedStay
    <3>. QED  BY <3>1, <1>1 DEF u
  <2>6. Saves(Top.fn, Append(u, c), value')
          = Append(Saves(Top.fn, u, value'), [fn |-> Top.fn, saved |-> value'[c]])
    <3>. HIDE DEF u
    <3>. QED  BY <2>4, <1>1, <1>3, SavedPush
  <2>7. Chain'[c] = Append(u, c)
    BY <1>1, <1>4 DEF s, c
  <2>. QED  BY <2>5, <2>6, <2>7, <1>3
<1>. HIDE DEF a
<1>7. c \in Blocks \cup {NULL} /\ SetTop(c, "block")
  BY <1>1, <1>3 DEF c
<1>8. Acts # <<>> /\ Acts' = Append(Front(Acts), Append(Front(Acts[n]), a)) /\ Last(Acts) = Acts[n]
  BY <1>5, <1>6, <1>7, TopChanges DEF n
<1>. QED  BY <1>1, <1>3, <1>8

LEMMA TailCallKeeps ==
  ASSUME FreeInv, FreeInv', TailCall
  PROVE  /\ Acts # <<>> /\ Last(Acts) # <<>>
         /\ \E a \in Act : Acts' = Append(Front(Acts), Append(Front(Last(Acts)), a))
<1>1. PICK b \in Blocks, v \in Values :
        /\ Get(Top.fn, PutCache(Top.fn, Top.C), PutLink(Top.fn, Top.C), link[Top.C], b, v)
        /\ SetTop(b, "block")
  BY DEF TailCall
<1>2. TypeOK /\ Running
  BY DEF TailCall, FreeInv, ClosureInv
<1>3. b = Top.C /\ link' = link /\ size' = size /\ value' = [value EXCEPT ![b] = v]
  BY <1>1, <1>2, TailCallSame
<1>4. /\ SetTop(Top.C, "block") /\ value'[Top.C] = v
      /\ \A c \in Blocks : c # Top.C => value'[c] = value[c]
  BY <1>1, <1>2, <1>3 DEF TypeOK
<1>. QED  BY <1>2, <1>3, <1>4, OverwriteKeeps

LEMMA SaveKeeps ==
  ASSUME FreeInv, FreeInv', Save
  PROVE  /\ Acts # <<>> /\ Last(Acts) # <<>>
         /\ \E a \in Act : Acts' = Append(Front(Acts), Append(Front(Last(Acts)), a))
<1>1. PICK v \in Values : value' = [value EXCEPT ![Top.C] = v]
  BY DEF Save
<1>2. Running /\ link' = link /\ size' = size /\ stack' = stack
  BY DEF Save
<1>3. SetTop(Top.C, "block")
  <2>1. stack \in Seq(Call) /\ stack # <<>> /\ TypeOK /\ Top.at = "block"
    BY <1>2, ShapeHolds DEF FreeInv, ClosureInv, Running
  <2>2. stack = Append(Front(stack), Top) /\ Top \in Call
    BY <2>1, FrontLast DEF Top
  <2>3. [Top EXCEPT !.C = Top.C, !.at = "block"] = Top
    BY <2>1, <2>2 DEF Call
  <2>. QED  BY <2>2, <2>3, <1>2 DEF SetTop
<1>4. /\ value'[Top.C] = v
      /\ \A c \in Blocks : c # Top.C => value'[c] = value[c]
  <2>1. value \in [Blocks -> Values] /\ Top.C \in Blocks
    BY <1>2, RunningChain DEF FreeInv, ClosureInv, TypeOK, Allocated
  <2>. QED  BY <2>1, <1>1
<1>. QED  BY <1>1, <1>2, <1>3, <1>4, OverwriteKeeps

(* A return: the last activation of the call is gone.                      *)
LEMMA ReturnKeeps ==
  ASSUME FreeInv, FreeInv', Return
  PROVE  /\ Acts # <<>> /\ Last(Acts) # <<>>
         /\ Acts' = Append(Front(Acts), Front(Last(Acts)))
<1> DEFINE n == Len(stack)
           s == Chain[Top.C]
           c == Top.C
           m == Module[Top.fn]
           up == link[c]
           at == IF up = NULL THEN "clear" ELSE "block"
<1>1. /\ link' = [link EXCEPT ![c] = cache[m]] /\ SetTop(up, at)
      /\ size' = size /\ value' = value /\ Running
  BY DEF Return, PutLink, CacheOf
<1>. HIDE DEF n, s, c, m
<1>2. /\ n \in Nat \ {0} /\ n \in 1..n /\ c \in Allocated
      /\ s \in Seq(Allocated) /\ s # <<>> /\ Front(s) \in Seq(Allocated)
      /\ IsChain(Front(s), up, link, Allocated)
      /\ Acts[n] # <<>> /\ Front(Acts[n]) = Saves(Top.fn, Front(s), value)
  BY <1>1, RunningChain DEF n, s, c
<1>3. /\ \A i \in 1..(n - 1) : \A j \in 1..Len(Chain[stack[i].C]) : Chain[stack[i].C][j] # c
      /\ \A j \in 1..(Len(s) - 1) : s[j] # c
  BY <1>1, OtherChains DEF n, s, c
<1>4. /\ Allocated' = Allocated /\ Allocated \in SUBSET Blocks
      /\ \A b \in Allocated : b # c => link'[b] = link[b]
  BY <1>1, <1>2 DEF Allocated, FreeInv, ClosureInv, TypeOK
<1>5. ChainFacts' /\ ActsFacts
  BY ChainNext, ActsHere
<1>6. ASSUME NEW i \in 1..(n - 1)
      PROVE  Saves(stack[i].fn, Chain'[stack[i].C], value') = Acts[i]
  <2>1. i \in 1..n
    BY <1>2
  <2> DEFINE d == stack[i].C
             u == Chain[d]
  <2>2. /\ d \in Allocated \cup {NULL} /\ IsChain(u, d, link, Allocated)
        /\ Acts[i] = Saves(stack[i].fn, u, value)
    BY <2>1, <1>5 DEF ActsFacts, n
  <2>3. \A j \in 1..Len(u) : u[j] # c
    BY <1>3
  <2>. HIDE DEF d, u
  <2>4. \A j \in 1..Len(u) : u[j] \in Allocated' /\ link'[u[j]] = link[u[j]]
    <3>1. \A j \in 1..Len(u) : u[j] \in Allocated
      BY <2>2 DEF IsChain
    <3>. QED  BY <3>1, <2>3, <1>4
  <2>5. IsChain(u, d, link', Allocated')
    BY <2>2, <2>4, ChainStays
  <2>6. Chain'[d] = u
    BY <2>2, <2>5, <1>4, <1>5 DEF ChainFacts
  <2>. QED  BY <2>2, <2>6, <1>1 DEF d
<1>7. up \in Allocated \cup {NULL} /\ up \in Blocks \cup {NULL} /\ at \in {"block", "clear"}
  BY <1>2, <1>4 DEF FreeInv, ClosureInv, Local, Exact, Reached
<1>8. Saves(Top.fn, Chain'[up], value') = Front(Acts[n])
  <2> DEFINE u == Front(s)
  <2>1. Len(u) = Len(s) - 1 /\ \A j \in 1..(Len(s) - 1) : u[j] = s[j]
    BY <1>2, FrontLast
  <2>2. \A j \in 1..Len(u) : u[j] # c
    BY <2>1, <1>3
  <2>3. u \in Seq(Allocated) /\ IsChain(u, up, link, Allocated)
    BY <1>2
  <2>. HIDE DEF u, up
  <2>4. \A j \in 1..Len(u) : u[j] \in Allocated' /\ link'[u[j]] = link[u[j]]
    BY <2>2, <2>3, <1>4
  <2>5. IsChain(u, up, link', Allocated')
    BY <2>3, <2>4, ChainStays
  <2>6. Chain'[up] = u
    BY <2>5, <1>4, <1>5, <1>7 DEF ChainFacts
  <2>. QED  BY <2>6, <1>1, <1>2 DEF u
<1>. HIDE DEF up, at
<1>9. /\ Acts # <<>> /\ Acts' = Append(Front(Acts), Front(Acts[n])) /\ Last(Acts) = Acts[n]
  BY <1>1, <1>6, <1>7, <1>8, TopChanges DEF n
<1>. QED  BY <1>2, <1>9

(* What lisp_closure_clear frees is on no chain.                           *)
LEMMA ClearKeeps ==
  ASSUME FreeInv, FreeInv', Clear
  PROVE  Acts' = Acts
<1> DEFINE m == CacheOf(Top.fn)
           b == cache[m]
           n == Len(stack)
<1>1. /\ b # NULL /\ size' = [size EXCEPT ![b] = 0]
      /\ link' = link /\ value' = value /\ stack' = stack
  BY DEF Clear
<1>2. /\ TypeOK /\ m \in Modules /\ DOMAIN stack = 1..n
      /\ Shape(cache, link, Allocated, Conts, n) /\ Exact(cache, link, Allocated, Conts, n)
      /\ \A i \in 1..n : Conts[i] = stack[i].C
  BY TopFacts, ShapeHolds DEF FreeInv, ClosureInv, Clear, Clearing, CacheOf, Local, Conts
<1>. HIDE DEF m, n
<1>3. \A a \in Allocated : a # b => a \in Allocated'
  BY <1>1, <1>2 DEF Allocated, TypeOK
<1>4. ChainFacts' /\ ActsFacts /\ ActsFacts'
  BY ChainNext, ActsHere, ActsNext
<1>5. ASSUME NEW i \in 1..n  PROVE Chain'[stack[i].C] = Chain[stack[i].C]
  <2> DEFINE d == stack[i].C
             u == Chain[d]
  <2>1. /\ IsChain(u, d, link, Allocated) /\ d = Conts[i]
        /\ d \in Allocated' \cup {NULL}
    BY <1>1, <1>2, <1>4 DEF ActsFacts, n
  <2>. HIDE DEF d, u, b
  <2>2. \A j \in 1..Len(u) : u[j] # b
    <3>1. \E x \in Modules : b = cache[x]
      BY <1>2 DEF b
    <3>2. b # NULL /\ IsChain(u, Conts[i], link, Allocated)
      BY <2>1, <1>1
    <3>. QED  BY <3>1, <3>2, <1>2, Elsewhere
  <2>3. \A j \in 1..Len(u) : u[j] \in Allocated' /\ link'[u[j]] = link[u[j]]
    <3>1. \A j \in 1..Len(u) : u[j] \in Allocated
      BY <2>1 DEF IsChain
    <3>. QED  BY <3>1, <2>2, <1>1, <1>3
  <2>4. IsChain(u, d, link', Allocated')
    BY <2>1, <2>3, ChainStays
  <2>5. Chain'[d] = u
    BY <2>1, <2>4, <1>4 DEF ChainFacts
  <2>. QED  BY <2>5 DEF d, u
<1>. QED  BY <1>1, <1>2, <1>5 DEF Acts, Saved

(* A call without a block has no activation left.                          *)
LEMMA LeaveKeeps ==
  ASSUME FreeInv, FreeInv', Leave
  PROVE  Acts # <<>> /\ Last(Acts) = <<>> /\ Acts' = Front(Acts)
<1> DEFINE n == Len(stack)
<1>1. /\ stack # <<>> /\ Top.at = "clear" /\ stack' = Front(stack)
      /\ size' = size /\ link' = link /\ value' = value
  BY DEF Leave, Clearing
<1>2. TypeOK /\ stack \in Seq(Call)
  BY ShapeHolds DEF FreeInv, ClosureInv
<1>3. n \in Nat \ {0} /\ Top = stack[n] /\ Top.C = NULL
  BY <1>1, <1>2, TopFacts
<1>4. Len(stack') = n - 1 /\ \A i \in 1..(n - 1) : stack'[i] = stack[i]
  BY <1>1, <1>2, FrontLast
<1>5. ActsFacts /\ ActsFacts'
  BY ActsHere, ActsNext
<1>6. Chain' = Chain
  BY <1>1 DEF Chain, Allocated
<1>. HIDE DEF n
<1>7. /\ Acts \in Seq(Seq(Act)) /\ Len(Acts) = n
      /\ Acts' \in Seq(Seq(Act)) /\ Len(Acts') = n - 1
      /\ n \in 1..n /\ \A i \in 1..(n - 1) : i \in 1..n
  BY <1>3, <1>4, <1>5 DEF ActsFacts, n
<1>8. Acts[n] = <<>>
  <2>1. IsChain(Chain[NULL], NULL, link, Allocated) /\ Acts[n] = Saves(Top.fn, Chain[NULL], value)
    BY <1>3, <1>5, <1>7 DEF ActsFacts, n
  <2>2. Chain[NULL] = <<>>
    BY <2>1, NoChain
  <2>. QED  BY <2>1, <2>2 DEF Saves
<1>9. \A i \in 1..(n - 1) : Acts'[i] = Acts[i]
  <2>1. ASSUME NEW i \in 1..(n - 1)  PROVE Acts'[i] = Acts[i]
    <3>1. Acts[i] = Saves(stack[i].fn, Chain[stack[i].C], value)
      BY <1>5, <1>7 DEF ActsFacts, n
    <3>2. Acts'[i] = Saves(stack'[i].fn, Chain'[stack'[i].C], value')
      BY <1>4, <1>5 DEF ActsFacts
    <3>. QED  BY <3>1, <3>2, <1>1, <1>4, <1>6
  <2>. QED  BY <2>1
<1>10. Acts # <<>>
  BY <1>3, <1>7
<1> DEFINE u == Acts
           w == Acts'
<1>11. /\ u \in Seq(Seq(Act)) /\ w \in Seq(Seq(Act)) /\ u # <<>> /\ Len(u) = n /\ Len(w) = n - 1
       /\ \A i \in 1..(n - 1) : w[i] = u[i]
  BY <1>7, <1>9, <1>10
<1>. HIDE DEF u, w
<1>12. /\ Front(u) \in Seq(Seq(Act)) /\ Len(Front(u)) = n - 1 /\ Last(u) = u[n]
       /\ \A i \in 1..(n - 1) : Front(u)[i] = u[i]
  BY <1>11, FrontLast
<1>13. w = Front(u)
  BY <1>11, <1>12, SeqEqual
<1>. QED  BY <1>8, <1>10, <1>12, <1>13 DEF u, w

(* Every step is one of the activations or none.                           *)
LEMMA StepKeeps == FreeInv /\ FreeInv' /\ [Next]_vars => [Activity!Next]_Acts
<1>. SUFFICES ASSUME FreeInv, FreeInv', [Next]_vars  PROVE [Activity!Next]_Acts
  OBVIOUS
<1>. USE SameActivity
<1>1. CASE \E f \in Functions : Enter(f)
  <2>1. Activity!Enter
    BY <1>1, EnterKeeps DEF Activity!Enter, Acts
  <2>. QED  BY <2>1 DEF Activity!Next
<1>2. CASE RecCall
  <2>1. Activity!Within
    BY <1>2, RecCallKeeps DEF Activity!Within, Activity!Update, Acts
  <2>. QED  BY <2>1 DEF Activity!Next
<1>3. CASE TailCall
  <2>1. Activity!Within
    BY <1>3, TailCallKeeps DEF Activity!Within, Activity!Update, Acts
  <2>. QED  BY <2>1 DEF Activity!Next
<1>4. CASE Save
  <2>1. Activity!Within
    BY <1>4, SaveKeeps DEF Activity!Within, Activity!Update, Acts
  <2>. QED  BY <2>1 DEF Activity!Next
<1>5. CASE Return
  <2>1. Activity!Within
    BY <1>5, ReturnKeeps DEF Activity!Within, Activity!Update, Acts
  <2>. QED  BY <2>1 DEF Activity!Next
<1>6. CASE Clear
  BY <1>6, ClearKeeps
<1>7. CASE Leave
  <2>1. Activity!Leave
    BY <1>7, LeaveKeeps DEF Activity!Leave, Acts
  <2>. QED  BY <2>1 DEF Activity!Next
<1>8. CASE UNCHANGED vars
  BY <1>8 DEF vars, Acts, Saved, Chain, Allocated
<1>. QED  BY <1>1, <1>2, <1>3, <1>4, <1>5, <1>6, <1>7, <1>8 DEF Next

-----------------------------------------------------------------------------
(* The type invariant of the compiled code.                                *)
THEOREM ClosureTypes == Spec => []TypeOK
<1>1. ClosureInv => TypeOK
  BY DEF ClosureInv
<1>. QED  BY <1>1, InitInv, NextInv, PTL DEF Spec

(* A block that was not freed is reached from one place: from one cache,   *)
(* one continuation that runs, or the field C of one block.                *)
THEOREM BlocksOwned == Spec => []OneReference
<1>1. ClosureInv => OneReference
  BY LocalIsOne DEF ClosureInv
<1>. QED  BY <1>1, InitInv, NextInv, PTL DEF Spec

(* When the functions of a module have as many values, for example because *)
(* there is one function in each, a block from the cache is large enough.  *)
THEOREM BlocksFit ==
  ASSUME \A f, g \in Functions : Module[f] = Module[g] => Size[f] = Size[g]
  PROVE  Spec => []BlockFits
<1>1. ClosureInv => BlockFits
  <2>. SUFFICES ASSUME ClosureInv, NEW i \in DOMAIN stack, stack[i].C # NULL
                PROVE  size[stack[i].C] >= Size[stack[i].fn]
    BY DEF BlockFits
  <2>1. PICK own : Coloured(own) /\ Used(own)
    BY DEF ClosureInv, ByModule
  <2>2. i \in 1..Len(stack) /\ stack[i] \in Call
    BY ShapeHolds DEF ClosureInv
  <2>3. stack[i].fn \in Functions
    BY <2>2 DEF Call
  <2>4. stack[i].C \in Allocated /\ own[stack[i].C] = Module[stack[i].fn]
    BY <2>1, <2>2, UsedBlocks
  <2>5. PICK f \in Functions : Module[f] = own[stack[i].C] /\ size[stack[i].C] = Size[f]
    BY <2>1, <2>4 DEF Coloured
  <2>6. size[stack[i].C] = Size[stack[i].fn] /\ Size[stack[i].fn] \in Nat
    BY <2>3, <2>4, <2>5, ClosureAssumption
  <2>. QED  BY <2>6
<1>. QED  BY <1>1, InitInv, NextInv, PTL DEF Spec

(* When no call from LISP runs every block was freed: none is left in a    *)
(* cache, and none is kept by a block that is lost itself.                 *)
THEOREM EveryBlockFreed == Spec => []AllFreed
<1>. QED  BY FreeInit, FreeNext, FreeIsAll, PTL DEF Spec

(* The blocks keep what the activations saved: the field C, the caches and *)
(* the reuse of a block by a tail call implement activations that each     *)
(* have a store of their own.                                              *)
THEOREM BlocksKeepActivations == Spec => KeepsActivations
<1>1. Init => Activity!Init
  BY DEF Init, Activity!Init
<1>2. FreeInv /\ FreeInv' /\ [Next]_vars => [Activity!Next]_Acts
  BY StepKeeps
<1>3. Acts = [i \in DOMAIN stack |-> Saved(stack[i])]
  BY DEF Acts
<1>. QED  BY <1>1, <1>2, <1>3, FreeInit, FreeNext, PTL DEF Spec, KeepsActivations, Activity!Spec, Acts

=============================================================================
