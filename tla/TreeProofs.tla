----------------------------- MODULE TreeProofs ------------------------------
(***************************************************************************)
(* The tree of lib/core/tree.c, for any number of symbols, values and      *)
(* nodes: the links agree, the grandparent that tree_add_check reads       *)
(* exists, the root owns Top, and the tree is a dictionary.                *)
(*                                                                         *)
(* What makes this inductive is a span for each node, the symbols that its *)
(* subtree may hold: the root may hold all, the left child of a node what  *)
(* is below its key and the right child what is above it.  A rotation      *)
(* changes the spans of two nodes, a new leaf takes the span that the      *)
(* search for its key has reached.                                         *)
(***************************************************************************)
EXTENDS Tree, SequenceLemmas

Links == [left   : [Node -> Node \cup {Nil}],
          right  : [Node -> Node \cup {Nil}],
          parent : [Node -> Node \cup {Top}]]

(* The links s make a tree of the nodes N, with the root r.                *)
Linked(N, r, s) ==
  /\ N \subseteq Node /\ s \in Links
  /\ N = {} => r = Top
  /\ N # {} => r \in N /\ s.parent[r] = Top
  /\ \A n \in N : n # r => /\ s.parent[n] \in N
                           /\ s.left[s.parent[n]] = n \/ s.right[s.parent[n]] = n
  /\ \A n \in N : s.left[n] # Nil => s.left[n] \in N /\ s.parent[s.left[n]] = n
  /\ \A n \in N : s.right[n] # Nil => s.right[n] \in N /\ s.parent[s.right[n]] = n

(* The subtree of n holds keys between lo[n] and hi[n].                    *)
Spanned(N, r, s, k, lo, hi) ==
  /\ k \in [Node -> Int] /\ lo \in [Node -> Int] /\ hi \in [Node -> Int]
  /\ N # {} => lo[r] = 0 /\ hi[r] = MaxKey + 1
  /\ \A n \in N : 0 <= lo[n] /\ lo[n] < k[n] /\ k[n] < hi[n] /\ hi[n] <= MaxKey + 1
  /\ \A n \in N : s.left[n] # Nil => lo[s.left[n]] = lo[n] /\ hi[s.left[n]] = k[n]
  /\ \A n \in N : s.right[n] # Nil => lo[s.right[n]] = k[n] /\ hi[s.right[n]] = hi[n]

Ordered(N, r, s, k) == \E lo, hi : Spanned(N, r, s, k, lo, hi)

-----------------------------------------------------------------------------
(* A node that is not the root is one of the two children of its parent.   *)
LEMMA ParentSpan ==
  ASSUME NEW N, NEW r, NEW s, NEW k, NEW lo, NEW hi,
         Linked(N, r, s), Spanned(N, r, s, k, lo, hi), NEW n \in N, n # r
  PROVE  /\ s.parent[n] \in N /\ s.parent[n] # n
         /\ \/ s.left[s.parent[n]] = n /\ s.right[s.parent[n]] # n
               /\ lo[n] = lo[s.parent[n]] /\ hi[n] = k[s.parent[n]]
            \/ s.right[s.parent[n]] = n /\ s.left[s.parent[n]] # n
               /\ lo[n] = k[s.parent[n]] /\ hi[n] = hi[s.parent[n]]
<1> DEFINE q == s.parent[n]
<1>1. q \in N /\ (s.left[q] = n \/ s.right[q] = n) /\ n # Nil
  BY TreeAssumption DEF Linked
<1>2. /\ lo[q] \in Int /\ hi[q] \in Int /\ k[q] \in Int /\ lo[q] < k[q] /\ k[q] < hi[q]
      /\ lo[n] \in Int /\ hi[n] \in Int /\ k[n] \in Int /\ lo[n] < k[n] /\ k[n] < hi[n]
  BY <1>1 DEF Linked, Spanned
<1>3. /\ s.left[q] = n => lo[n] = lo[q] /\ hi[n] = k[q]
      /\ s.right[q] = n => lo[n] = k[q] /\ hi[n] = hi[q]
  BY <1>1 DEF Spanned
<1>. HIDE DEF q
<1>4. q # n /\ ~(s.left[q] = n /\ s.right[q] = n)
  BY <1>1, <1>2, <1>3
<1>. QED  BY <1>1, <1>3, <1>4 DEF q

(* Two nodes: one is on a side of the other, or their spans are apart.     *)
Apart(m, n, s, k, lo, hi) ==
  \/ s.left[n] # Nil /\ hi[m] <= k[n] /\ lo[n] <= lo[m]
  \/ s.right[n] # Nil /\ k[n] <= lo[m] /\ hi[m] <= hi[n]
  \/ s.left[m] # Nil /\ hi[n] <= k[m] /\ lo[m] <= lo[n]
  \/ s.right[m] # Nil /\ k[m] <= lo[n] /\ hi[n] <= hi[m]
  \/ hi[m] <= lo[n]
  \/ hi[n] <= lo[m]

Wide(m, lo, hi) == hi[m] - lo[m]

(* If all wider pairs are apart, so is this one: the narrower node is a    *)
(* child, and its parent is apart from the other node or is that node.     *)
LEMMA ApartStep ==
  ASSUME NEW N, NEW r, NEW s, NEW k, NEW lo, NEW hi,
         Linked(N, r, s), Spanned(N, r, s, k, lo, hi),
         NEW m \in N, NEW n \in N, m # n, Wide(m, lo, hi) <= Wide(n, lo, hi),
         \A a, b \in N :
           /\ a # b
           /\ Wide(m, lo, hi) + Wide(n, lo, hi) < Wide(a, lo, hi) + Wide(b, lo, hi)
           => Apart(a, b, s, k, lo, hi)
  PROVE  Apart(m, n, s, k, lo, hi)
<1>1. \A a \in N : /\ lo[a] \in Int /\ hi[a] \in Int /\ k[a] \in Int
                   /\ 0 <= lo[a] /\ lo[a] < k[a] /\ k[a] < hi[a] /\ hi[a] <= MaxKey + 1
  BY DEF Linked, Spanned
<1>2. r \in N /\ lo[r] = 0 /\ hi[r] = MaxKey + 1 /\ MaxKey \in Int
  BY TreeAssumption DEF Linked, Spanned
<1>3. \A a \in N : a # r =>
        /\ s.parent[a] \in N /\ Wide(a, lo, hi) < Wide(s.parent[a], lo, hi)
        /\ \/ s.left[s.parent[a]] = a /\ lo[a] = lo[s.parent[a]] /\ hi[a] = k[s.parent[a]]
           \/ s.right[s.parent[a]] = a /\ lo[a] = k[s.parent[a]] /\ hi[a] = hi[s.parent[a]]
  BY <1>1, ParentSpan DEF Wide
<1>4. \A a \in N : Wide(a, lo, hi) \in Int /\ Wide(a, lo, hi) <= MaxKey + 1
  BY <1>1, <1>2 DEF Wide
<1>5. m # r
  <2>1. Wide(r, lo, hi) = MaxKey + 1
    BY <1>2 DEF Wide
  <2>. QED  BY <2>1, <1>2, <1>3, <1>4
<1> DEFINE q == s.parent[m]
<1>6. /\ q \in N /\ Wide(m, lo, hi) < Wide(q, lo, hi)
      /\ \/ s.left[q] = m /\ lo[m] = lo[q] /\ hi[m] = k[q]
         \/ s.right[q] = m /\ lo[m] = k[q] /\ hi[m] = hi[q]
  BY <1>3, <1>5
<1>. HIDE DEF q
<1>7. m # Nil
  BY TreeAssumption DEF Linked
<1>8. CASE q = n
  BY <1>1, <1>6, <1>7, <1>8 DEF Apart
<1>9. CASE q # n
  <2>1. Apart(q, n, s, k, lo, hi)
    BY <1>4, <1>6, <1>9
  <2>2. CASE \/ s.left[n] # Nil /\ hi[q] <= k[n] /\ lo[n] <= lo[q]
             \/ s.right[n] # Nil /\ k[n] <= lo[q] /\ hi[q] <= hi[n]
             \/ hi[q] <= lo[n]
             \/ hi[n] <= lo[q]
    BY <1>1, <1>6, <2>2 DEF Apart
  <2>3. CASE /\ hi[n] <= k[q] /\ lo[q] <= lo[n]
             /\ s.right[q] = m /\ lo[m] = k[q] /\ hi[m] = hi[q]
    BY <1>1, <1>6, <2>3 DEF Apart
  <2>4. CASE /\ k[q] <= lo[n] /\ hi[n] <= hi[q]
             /\ s.left[q] = m /\ lo[m] = lo[q] /\ hi[m] = k[q]
    BY <1>1, <1>6, <2>4 DEF Apart
  <2>5. CASE lo[n] = lo[m] /\ hi[n] = hi[m]
    <3> DEFINE u == s.parent[n]
    <3>1. Wide(n, lo, hi) = Wide(m, lo, hi)
      BY <2>5 DEF Wide
    <3>2. n # r
      <4>1. Wide(r, lo, hi) = MaxKey + 1
        BY <1>2 DEF Wide
      <4>. QED  BY <3>1, <4>1, <1>2, <1>4, <1>6
    <3>3. /\ u \in N /\ Wide(n, lo, hi) < Wide(u, lo, hi)
          /\ \/ s.left[u] = n /\ lo[n] = lo[u] /\ hi[n] = k[u]
             \/ s.right[u] = n /\ lo[n] = k[u] /\ hi[n] = hi[u]
      BY <3>2, <1>3
    <3>. HIDE DEF u
    <3>4. CASE u = q
      BY <3>3, <3>4, <2>5, <1>1, <1>6
    <3>5. CASE u # q
      <4>1. Apart(q, u, s, k, lo, hi)
        BY <3>1, <3>3, <3>5, <1>4, <1>6
      <4>. QED  BY <4>1, <3>3, <2>5, <1>1, <1>6 DEF Apart
    <3>. QED  BY <3>4, <3>5
  <2>6. CASE /\ hi[n] <= k[q] /\ lo[q] <= lo[n]
             /\ s.left[q] = m /\ lo[m] = lo[q] /\ hi[m] = k[q]
    <3>1. lo[n] = lo[m] /\ hi[n] = hi[m]
      BY <2>6, <1>1, <1>6 DEF Wide
    <3>. QED  BY <3>1, <2>5
  <2>7. CASE /\ k[q] <= lo[n] /\ hi[n] <= hi[q]
             /\ s.right[q] = m /\ lo[m] = k[q] /\ hi[m] = hi[q]
    <3>1. lo[n] = lo[m] /\ hi[n] = hi[m]
      BY <2>7, <1>1, <1>6 DEF Wide
    <3>. QED  BY <3>1, <2>5
  <2>. QED  BY <2>1, <2>2, <2>3, <2>4, <2>6, <2>7, <1>6 DEF Apart
<1>. QED  BY <1>8, <1>9

LEMMA AllApart ==
  ASSUME NEW N, NEW r, NEW s, NEW k, NEW lo, NEW hi,
         Linked(N, r, s), Spanned(N, r, s, k, lo, hi)
  PROVE  \A m, n \in N : m # n => Apart(m, n, s, k, lo, hi)
<1> DEFINE w(m) == Wide(m, lo, hi)
           Bad == {z \in N \X N : z[1] # z[2] /\ ~Apart(z[1], z[2], s, k, lo, hi)}
           T == {(MaxKey + 1) + (MaxKey + 1) - (w(z[1]) + w(z[2])) : z \in Bad}
<1>. SUFFICES ASSUME NEW i \in N, NEW j \in N, i # j, ~Apart(i, j, s, k, lo, hi)
              PROVE  FALSE
  OBVIOUS
<1>0. <<i, j>> \in Bad
  OBVIOUS
<1>1. \A a \in N : w(a) \in Int /\ w(a) <= MaxKey + 1
  BY TreeAssumption DEF Linked, Spanned, Wide
<1>2. MaxKey \in Int
  BY TreeAssumption
<1>3. \A z \in Bad : /\ z[1] \in N /\ z[2] \in N /\ z[1] # z[2]
                     /\ ~Apart(z[1], z[2], s, k, lo, hi)
  OBVIOUS
<1>4. \A m, n \in N : m # n /\ ~Apart(m, n, s, k, lo, hi) => <<m, n>> \in Bad
  OBVIOUS
<1>. HIDE DEF Bad, w
<1>5. T \subseteq Nat /\ T # {}
  BY <1>0, <1>1, <1>2, <1>3
<1>6. PICK e \in T : \A f \in T : ~(<<f, e>> \in OpToRel(<, Nat))
  BY <1>5, NatLessThanWellFounded, WFMin
<1>7. PICK z \in Bad : e = (MaxKey + 1) + (MaxKey + 1) - (w(z[1]) + w(z[2]))
  BY <1>6
<1> DEFINE m == z[1]
           n == z[2]
<1>8. m \in N /\ n \in N /\ m # n /\ ~Apart(m, n, s, k, lo, hi) /\ ~Apart(n, m, s, k, lo, hi)
  BY <1>3, <1>7 DEF Apart
<1>9. ASSUME NEW a \in N, NEW b \in N, a # b, w(m) + w(n) < w(a) + w(b)
      PROVE  Apart(a, b, s, k, lo, hi)
  <2>. SUFFICES ASSUME <<a, b>> \in Bad  PROVE FALSE
    BY <1>4, <1>9
  <2> DEFINE f == (MaxKey + 1) + (MaxKey + 1) - (w(a) + w(b))
  <2>1. f \in T
    <3>1. <<a, b>>[1] = a /\ <<a, b>>[2] = b
      OBVIOUS
    <3>. QED  BY <3>1
  <2>2. f < e /\ f \in Nat /\ e \in Nat
    BY <2>1, <1>1, <1>2, <1>5, <1>7, <1>8, <1>9
  <2>. HIDE DEF f
  <2>. QED  BY <2>1, <2>2, <1>6 DEF OpToRel
<1>. HIDE DEF m, n
<1>10. w(m) <= w(n) \/ w(n) <= w(m)
  BY <1>1, <1>8
<1>11. w(m) + w(n) = w(n) + w(m)
  BY <1>1, <1>8
<1>. QED  BY <1>8, <1>9, <1>10, <1>11, ApartStep DEF w

(* The symbols are bound once, and where a child is missing no node has a  *)
(* key for it.                                                             *)
LEMMA SpanFacts ==
  ASSUME NEW N, NEW r, NEW s, NEW k, NEW lo, NEW hi,
         Linked(N, r, s), Spanned(N, r, s, k, lo, hi), NEW m \in N, NEW n \in N
  PROVE  /\ k[m] = k[n] => m = n
         /\ s.left[n] = Nil => ~(lo[n] < k[m] /\ k[m] < k[n])
         /\ s.right[n] = Nil => ~(k[n] < k[m] /\ k[m] < hi[n])
<1>1. \A a \in N : /\ lo[a] \in Int /\ hi[a] \in Int /\ k[a] \in Int
                   /\ lo[a] < k[a] /\ k[a] < hi[a]
  BY DEF Linked, Spanned
<1>2. m # n => Apart(m, n, s, k, lo, hi)
  BY AllApart
<1>. QED  BY <1>1, <1>2 DEF Apart

-----------------------------------------------------------------------------
(* Rotations.  The links and the root that lisp_tree_lrot makes when b is  *)
(* the right child of a ...                                                *)
LeftTurned(s, r, a, b, u, v) ==
  /\ u \in Links
  /\ v = IF s.parent[a] = Top THEN b ELSE r
  /\ \A n \in Node : u.left[n] = IF n = b THEN a
                                ELSE IF n = s.parent[a] /\ s.left[n] = a THEN b
                                ELSE s.left[n]
  /\ \A n \in Node : u.right[n] = IF n = a THEN s.left[b]
                                 ELSE IF n = s.parent[a] /\ s.left[n] # a THEN b
                                 ELSE s.right[n]
  /\ \A n \in Node : u.parent[n] = IF n = a THEN b
                                  ELSE IF n = b THEN s.parent[a]
                                  ELSE IF n = s.left[b] THEN a
                                  ELSE s.parent[n]

LEMMA LeftRotationTurns ==
  ASSUME NEW s \in Links, NEW r, NEW a \in Node, s.right[a] # Nil
  PROVE  LeftTurned(s, r, a, s.right[a],
                    LeftRotation(s, r, a).links, LeftRotation(s, r, a).root)
<1> DEFINE b == s.right[a]
           c == s.left[b]
           h == s.parent[a]
           onLeft == ~IsNull(h) /\ s.left[h] = a
           lf == [n \in Node |-> IF n = b THEN a
                                 ELSE IF n = h /\ onLeft THEN b ELSE s.left[n]]
           rt == [n \in Node |-> IF n = a THEN c
                                 ELSE IF n = h /\ ~onLeft THEN b ELSE s.right[n]]
           pt == [n \in Node |-> IF n = a THEN b
                                 ELSE IF n = b THEN h
                                 ELSE IF n = c THEN a ELSE s.parent[n]]
           u == [left |-> lf, right |-> rt, parent |-> pt]
           v == IF IsNull(h) THEN b ELSE r
<1>1. /\ s.left \in [Node -> Node \cup {Nil}] /\ s.right \in [Node -> Node \cup {Nil}]
      /\ s.parent \in [Node -> Node \cup {Top}]
  BY DEF Links
<1>2. b \in Node /\ c \in Node \cup {Nil} /\ h \in Node \cup {Top}
  BY <1>1
<1>3. ~IsNull(a) /\ ~IsNull(b) /\ (IsNull(h) <=> h = Top)
  BY <1>2, TreeAssumption DEF IsNull
<1>4. LeftRotation(s, r, a) = Rotated(u, v)
  BY <1>3 DEF LeftRotation
<1>5. LeftRotation(s, r, a).links = u /\ LeftRotation(s, r, a).root = v
  BY <1>4 DEF Rotated
<1>6. /\ lf \in [Node -> Node \cup {Nil}] /\ rt \in [Node -> Node \cup {Nil}]
      /\ pt \in [Node -> Node \cup {Top}]
  BY <1>1, <1>2
<1>7. \A n \in Node : n = h => (onLeft <=> s.left[n] = a)
  BY <1>3, TreeAssumption DEF IsNull
<1>8. /\ \A n \in Node : lf[n] = IF n = b THEN a
                                 ELSE IF n = h /\ s.left[n] = a THEN b ELSE s.left[n]
      /\ \A n \in Node : rt[n] = IF n = a THEN c
                                 ELSE IF n = h /\ s.left[n] # a THEN b ELSE s.right[n]
      /\ \A n \in Node : pt[n] = IF n = a THEN b ELSE IF n = b THEN h
                                 ELSE IF n = c THEN a ELSE s.parent[n]
  BY <1>7
<1>. HIDE DEF lf, rt, pt
<1>9. u \in Links /\ u.left = lf /\ u.right = rt /\ u.parent = pt
  BY <1>6 DEF Links
<1>10. v = IF s.parent[a] = Top THEN b ELSE r
  BY <1>3
<1>11. LeftTurned(s, r, a, b, u, v)
  BY <1>8, <1>9, <1>10 DEF LeftTurned
<1>. QED  BY <1>5, <1>11

(* ... make a tree again, in the same order: b has the span of a, and a    *)
(* what is below the key of b.                                             *)
LEMMA LeftTurnKeeps ==
  ASSUME NEW N, NEW r, NEW s, NEW k, NEW lo, NEW hi,
         Linked(N, r, s), Spanned(N, r, s, k, lo, hi),
         NEW a \in N, s.right[a] # Nil, NEW u, NEW v,
         LeftTurned(s, r, a, s.right[a], u, v)
  PROVE  Linked(N, v, u) /\ Ordered(N, v, u, k)
<1> DEFINE b == s.right[a]
           c == s.left[b]
           h == s.parent[a]
<1>1. /\ N \subseteq Node /\ Nil \notin N /\ Top \notin N /\ r \in N /\ s.parent[r] = Top
      /\ b \in N /\ s.parent[b] = a
      /\ c # Nil => c \in N /\ s.parent[c] = b
      /\ a # r => h \in N /\ (s.left[h] = a \/ s.right[h] = a)
      /\ a = r <=> h = Top
      /\ \A n \in N : s.left[n] # Nil => s.left[n] \in N /\ s.parent[s.left[n]] = n
      /\ \A n \in N : s.right[n] # Nil => s.right[n] \in N /\ s.parent[s.right[n]] = n
      /\ \A n \in N : n # r => /\ s.parent[n] \in N
                               /\ s.left[s.parent[n]] = n \/ s.right[s.parent[n]] = n
  BY TreeAssumption DEF Linked
<1>2. /\ \A n \in N : /\ lo[n] \in Int /\ hi[n] \in Int /\ k[n] \in Int
                      /\ 0 <= lo[n] /\ lo[n] < k[n] /\ k[n] < hi[n] /\ hi[n] <= MaxKey + 1
      /\ \A n \in N : s.left[n] # Nil => lo[s.left[n]] = lo[n] /\ hi[s.left[n]] = k[n]
      /\ \A n \in N : s.right[n] # Nil => lo[s.right[n]] = k[n] /\ hi[s.right[n]] = hi[n]
      /\ lo[r] = 0 /\ hi[r] = MaxKey + 1
  BY <1>1 DEF Spanned
<1>3. /\ u \in Links
      /\ v = IF h = Top THEN b ELSE r
      /\ \A n \in N : u.left[n] = IF n = b THEN a
                                ELSE IF n = h /\ s.left[n] = a THEN b ELSE s.left[n]
      /\ \A n \in N : u.right[n] = IF n = a THEN c
                                 ELSE IF n = h /\ s.left[n] # a THEN b ELSE s.right[n]
      /\ \A n \in N : u.parent[n] = IF n = a THEN b ELSE IF n = b THEN h
                                  ELSE IF n = c THEN a ELSE s.parent[n]
  BY <1>1 DEF LeftTurned
<1>4. /\ lo[b] = k[a] /\ hi[b] = hi[a]
      /\ c # Nil => lo[c] = k[a] /\ hi[c] = k[b]
      /\ \A n \in N : s.left[n] # Nil => s.left[n] # n /\ s.left[n] # s.right[n]
      /\ \A n \in N : s.right[n] # Nil => s.right[n] # n
  BY <1>1, <1>2
<1>5. a # b /\ c # a /\ c # b /\ b # r /\ h # a
  BY <1>1, <1>2, <1>4
<1>6. h # b
  <2>1. CASE h \in N
    BY <2>1, <1>1, <1>2, <1>4
  <2>. QED  BY <2>1, <1>1
<1>7. /\ \A n \in N : s.left[n] = a => n = h
      /\ \A n \in N : s.right[n] = a => n = h
      /\ \A n \in N : s.left[n] = b => n = a
      /\ \A n \in N : s.right[n] = b => n = a
      /\ \A n \in N : s.left[n] = c /\ c # Nil => n = b
      /\ \A n \in N : s.right[n] = c /\ c # Nil => n = b
  BY <1>1
<1>8. k \in [Node -> Int] /\ lo \in [Node -> Int] /\ hi \in [Node -> Int]
  BY DEF Spanned
<1>. HIDE DEF b, c, h
<1>10. \A n \in N : n # v => /\ u.parent[n] \in N
                             /\ u.left[u.parent[n]] = n \/ u.right[u.parent[n]] = n
  <2>. SUFFICES ASSUME NEW n \in N, n # v
                PROVE  /\ u.parent[n] \in N
                       /\ u.left[u.parent[n]] = n \/ u.right[u.parent[n]] = n
    OBVIOUS
  <2>1. CASE n = a \/ n = c
    BY <2>1, <1>1, <1>3, <1>5, <1>6
  <2>2. CASE n = b
    BY <2>2, <1>1, <1>3, <1>5, <1>6
  <2>3. CASE n # a /\ n # b /\ n # c
    <3> DEFINE q == s.parent[n]
    <3>1. q \in N /\ (s.left[q] = n \/ s.right[q] = n) /\ u.parent[n] = q
      BY <2>3, <1>1, <1>3
    <3>. HIDE DEF q
    <3>2. q = b => s.left[q] = c
      BY DEF c
    <3>3. q = a => s.right[q] = b
      BY DEF b
    <3>. QED  BY <3>1, <3>2, <3>3, <2>3, <1>1, <1>3
  <2>. QED  BY <2>1, <2>2, <2>3
<1>11. \A n \in N : u.left[n] # Nil => u.left[n] \in N /\ u.parent[u.left[n]] = n
  BY <1>1, <1>3, <1>4, <1>5, <1>6, <1>7 DEF b, c
<1>12. \A n \in N : u.right[n] # Nil => u.right[n] \in N /\ u.parent[u.right[n]] = n
  BY <1>1, <1>3, <1>4, <1>5, <1>6, <1>7 DEF b, c
<1>13. v \in N /\ u.parent[v] = Top
  BY <1>1, <1>3, <1>5, <1>6, <1>7
<1>14. Linked(N, v, u)
  BY <1>1, <1>3, <1>10, <1>11, <1>12, <1>13 DEF Linked
<1> DEFINE lo2 == [lo EXCEPT ![b] = lo[a]]
           hi2 == [hi EXCEPT ![a] = k[b]]
<1>15. /\ lo2 \in [Node -> Int] /\ hi2 \in [Node -> Int]
       /\ \A n \in N : lo2[n] = IF n = b THEN lo[a] ELSE lo[n]
       /\ \A n \in N : hi2[n] = IF n = a THEN k[b] ELSE hi[n]
  BY <1>1, <1>2, <1>8
<1>. HIDE DEF lo2, hi2
<1>16. \A n \in N : /\ 0 <= lo2[n] /\ lo2[n] < k[n] /\ k[n] < hi2[n]
                    /\ hi2[n] <= MaxKey + 1
  BY <1>1, <1>2, <1>4, <1>15, TreeAssumption
<1>17. \A n \in N : u.left[n] # Nil => lo2[u.left[n]] = lo2[n] /\ hi2[u.left[n]] = k[n]
  BY <1>1, <1>2, <1>3, <1>4, <1>5, <1>6, <1>7, <1>15 DEF b, c
<1>18. \A n \in N : u.right[n] # Nil => lo2[u.right[n]] = k[n] /\ hi2[u.right[n]] = hi2[n]
  BY <1>1, <1>2, <1>3, <1>4, <1>5, <1>6, <1>7, <1>15 DEF b, c
<1>19. lo2[v] = 0 /\ hi2[v] = MaxKey + 1
  BY <1>1, <1>2, <1>3, <1>4, <1>5, <1>15
<1>20. Spanned(N, v, u, k, lo2, hi2)
  BY <1>8, <1>15, <1>16, <1>17, <1>18, <1>19 DEF Spanned
<1>. QED  BY <1>14, <1>20 DEF Ordered

(* The mirror image: lisp_tree_rrot, when b is the left child of a.        *)
RightTurned(s, r, a, b, u, v) ==
  /\ u \in Links
  /\ v = IF s.parent[a] = Top THEN b ELSE r
  /\ \A n \in Node : u.right[n] = IF n = b THEN a
                                ELSE IF n = s.parent[a] /\ s.right[n] = a THEN b
                                ELSE s.right[n]
  /\ \A n \in Node : u.left[n] = IF n = a THEN s.right[b]
                                 ELSE IF n = s.parent[a] /\ s.right[n] # a THEN b
                                 ELSE s.left[n]
  /\ \A n \in Node : u.parent[n] = IF n = a THEN b
                                  ELSE IF n = b THEN s.parent[a]
                                  ELSE IF n = s.right[b] THEN a
                                  ELSE s.parent[n]

LEMMA RightRotationTurns ==
  ASSUME NEW s \in Links, NEW r, NEW a \in Node, s.left[a] # Nil
  PROVE  RightTurned(s, r, a, s.left[a],
                    RightRotation(s, r, a).links, RightRotation(s, r, a).root)
<1> DEFINE b == s.left[a]
           c == s.right[b]
           h == s.parent[a]
           onRight == ~IsNull(h) /\ s.right[h] = a
           rt == [n \in Node |-> IF n = b THEN a
                                 ELSE IF n = h /\ onRight THEN b ELSE s.right[n]]
           lf == [n \in Node |-> IF n = a THEN c
                                 ELSE IF n = h /\ ~onRight THEN b ELSE s.left[n]]
           pt == [n \in Node |-> IF n = a THEN b
                                 ELSE IF n = b THEN h
                                 ELSE IF n = c THEN a ELSE s.parent[n]]
           u == [left |-> lf, right |-> rt, parent |-> pt]
           v == IF IsNull(h) THEN b ELSE r
<1>1. /\ s.right \in [Node -> Node \cup {Nil}] /\ s.left \in [Node -> Node \cup {Nil}]
      /\ s.parent \in [Node -> Node \cup {Top}]
  BY DEF Links
<1>2. b \in Node /\ c \in Node \cup {Nil} /\ h \in Node \cup {Top}
  BY <1>1
<1>3. ~IsNull(a) /\ ~IsNull(b) /\ (IsNull(h) <=> h = Top)
  BY <1>2, TreeAssumption DEF IsNull
<1>4. RightRotation(s, r, a) = Rotated(u, v)
  BY <1>3 DEF RightRotation
<1>5. RightRotation(s, r, a).links = u /\ RightRotation(s, r, a).root = v
  BY <1>4 DEF Rotated
<1>6. /\ rt \in [Node -> Node \cup {Nil}] /\ lf \in [Node -> Node \cup {Nil}]
      /\ pt \in [Node -> Node \cup {Top}]
  BY <1>1, <1>2
<1>7. \A n \in Node : n = h => (onRight <=> s.right[n] = a)
  BY <1>3, TreeAssumption DEF IsNull
<1>8. /\ \A n \in Node : rt[n] = IF n = b THEN a
                                 ELSE IF n = h /\ s.right[n] = a THEN b ELSE s.right[n]
      /\ \A n \in Node : lf[n] = IF n = a THEN c
                                 ELSE IF n = h /\ s.right[n] # a THEN b ELSE s.left[n]
      /\ \A n \in Node : pt[n] = IF n = a THEN b ELSE IF n = b THEN h
                                 ELSE IF n = c THEN a ELSE s.parent[n]
  BY <1>7
<1>. HIDE DEF rt, lf, pt
<1>9. u \in Links /\ u.right = rt /\ u.left = lf /\ u.parent = pt
  BY <1>6 DEF Links
<1>10. v = IF s.parent[a] = Top THEN b ELSE r
  BY <1>3
<1>11. RightTurned(s, r, a, b, u, v)
  BY <1>8, <1>9, <1>10 DEF RightTurned
<1>. QED  BY <1>5, <1>11

LEMMA RightTurnKeeps ==
  ASSUME NEW N, NEW r, NEW s, NEW k, NEW lo, NEW hi,
         Linked(N, r, s), Spanned(N, r, s, k, lo, hi),
         NEW a \in N, s.left[a] # Nil, NEW u, NEW v,
         RightTurned(s, r, a, s.left[a], u, v)
  PROVE  Linked(N, v, u) /\ Ordered(N, v, u, k)
<1> DEFINE b == s.left[a]
           c == s.right[b]
           h == s.parent[a]
<1>1. /\ N \subseteq Node /\ Nil \notin N /\ Top \notin N /\ r \in N /\ s.parent[r] = Top
      /\ b \in N /\ s.parent[b] = a
      /\ c # Nil => c \in N /\ s.parent[c] = b
      /\ a # r => h \in N /\ (s.right[h] = a \/ s.left[h] = a)
      /\ a = r <=> h = Top
      /\ \A n \in N : s.right[n] # Nil => s.right[n] \in N /\ s.parent[s.right[n]] = n
      /\ \A n \in N : s.left[n] # Nil => s.left[n] \in N /\ s.parent[s.left[n]] = n
      /\ \A n \in N : n # r => /\ s.parent[n] \in N
                               /\ s.right[s.parent[n]] = n \/ s.left[s.parent[n]] = n
  BY TreeAssumption DEF Linked
<1>2. /\ \A n \in N : /\ hi[n] \in Int /\ lo[n] \in Int /\ k[n] \in Int
                      /\ 0 <= lo[n] /\ lo[n] < k[n] /\ k[n] < hi[n] /\ hi[n] <= MaxKey + 1
      /\ \A n \in N : s.right[n] # Nil => hi[s.right[n]] = hi[n] /\ lo[s.right[n]] = k[n]
      /\ \A n \in N : s.left[n] # Nil => hi[s.left[n]] = k[n] /\ lo[s.left[n]] = lo[n]
      /\ lo[r] = 0 /\ hi[r] = MaxKey + 1
  BY <1>1 DEF Spanned
<1>3. /\ u \in Links
      /\ v = IF h = Top THEN b ELSE r
      /\ \A n \in N : u.right[n] = IF n = b THEN a
                                ELSE IF n = h /\ s.right[n] = a THEN b ELSE s.right[n]
      /\ \A n \in N : u.left[n] = IF n = a THEN c
                                 ELSE IF n = h /\ s.right[n] # a THEN b ELSE s.left[n]
      /\ \A n \in N : u.parent[n] = IF n = a THEN b ELSE IF n = b THEN h
                                  ELSE IF n = c THEN a ELSE s.parent[n]
  BY <1>1 DEF RightTurned
<1>4. /\ hi[b] = k[a] /\ lo[b] = lo[a]
      /\ c # Nil => hi[c] = k[a] /\ lo[c] = k[b]
      /\ \A n \in N : s.right[n] # Nil => s.right[n] # n /\ s.right[n] # s.left[n]
      /\ \A n \in N : s.left[n] # Nil => s.left[n] # n
  BY <1>1, <1>2
<1>5. a # b /\ c # a /\ c # b /\ b # r /\ h # a
  BY <1>1, <1>2, <1>4
<1>6. h # b
  <2>1. CASE h \in N
    BY <2>1, <1>1, <1>2, <1>4
  <2>. QED  BY <2>1, <1>1
<1>7. /\ \A n \in N : s.right[n] = a => n = h
      /\ \A n \in N : s.left[n] = a => n = h
      /\ \A n \in N : s.right[n] = b => n = a
      /\ \A n \in N : s.left[n] = b => n = a
      /\ \A n \in N : s.right[n] = c /\ c # Nil => n = b
      /\ \A n \in N : s.left[n] = c /\ c # Nil => n = b
  BY <1>1
<1>8. k \in [Node -> Int] /\ hi \in [Node -> Int] /\ lo \in [Node -> Int]
  BY DEF Spanned
<1>. HIDE DEF b, c, h
<1>10. \A n \in N : n # v => /\ u.parent[n] \in N
                             /\ u.right[u.parent[n]] = n \/ u.left[u.parent[n]] = n
  <2>. SUFFICES ASSUME NEW n \in N, n # v
                PROVE  /\ u.parent[n] \in N
                       /\ u.right[u.parent[n]] = n \/ u.left[u.parent[n]] = n
    OBVIOUS
  <2>1. CASE n = a \/ n = c
    BY <2>1, <1>1, <1>3, <1>5, <1>6
  <2>2. CASE n = b
    BY <2>2, <1>1, <1>3, <1>5, <1>6
  <2>3. CASE n # a /\ n # b /\ n # c
    <3> DEFINE q == s.parent[n]
    <3>1. q \in N /\ (s.right[q] = n \/ s.left[q] = n) /\ u.parent[n] = q
      BY <2>3, <1>1, <1>3
    <3>. HIDE DEF q
    <3>2. q = b => s.right[q] = c
      BY DEF c
    <3>3. q = a => s.left[q] = b
      BY DEF b
    <3>. QED  BY <3>1, <3>2, <3>3, <2>3, <1>1, <1>3
  <2>. QED  BY <2>1, <2>2, <2>3
<1>11. \A n \in N : u.right[n] # Nil => u.right[n] \in N /\ u.parent[u.right[n]] = n
  BY <1>1, <1>3, <1>4, <1>5, <1>6, <1>7 DEF b, c
<1>12. \A n \in N : u.left[n] # Nil => u.left[n] \in N /\ u.parent[u.left[n]] = n
  BY <1>1, <1>3, <1>4, <1>5, <1>6, <1>7 DEF b, c
<1>13. v \in N /\ u.parent[v] = Top
  BY <1>1, <1>3, <1>5, <1>6, <1>7
<1>14. Linked(N, v, u)
  BY <1>1, <1>3, <1>10, <1>11, <1>12, <1>13 DEF Linked
<1> DEFINE hi2 == [hi EXCEPT ![b] = hi[a]]
           lo2 == [lo EXCEPT ![a] = k[b]]
<1>15. /\ hi2 \in [Node -> Int] /\ lo2 \in [Node -> Int]
       /\ \A n \in N : hi2[n] = IF n = b THEN hi[a] ELSE hi[n]
       /\ \A n \in N : lo2[n] = IF n = a THEN k[b] ELSE lo[n]
  BY <1>1, <1>2, <1>8
<1>. HIDE DEF hi2, lo2
<1>16. \A n \in N : /\ 0 <= lo2[n] /\ lo2[n] < k[n] /\ k[n] < hi2[n]
                    /\ hi2[n] <= MaxKey + 1
  BY <1>1, <1>2, <1>4, <1>15, TreeAssumption
<1>17. \A n \in N : u.right[n] # Nil => hi2[u.right[n]] = hi2[n] /\ lo2[u.right[n]] = k[n]
  BY <1>1, <1>2, <1>3, <1>4, <1>5, <1>6, <1>7, <1>15 DEF b, c
<1>18. \A n \in N : u.left[n] # Nil => hi2[u.left[n]] = k[n] /\ lo2[u.left[n]] = lo2[n]
  BY <1>1, <1>2, <1>3, <1>4, <1>5, <1>6, <1>7, <1>15 DEF b, c
<1>19. lo2[v] = 0 /\ hi2[v] = MaxKey + 1
  BY <1>1, <1>2, <1>3, <1>4, <1>5, <1>15
<1>20. Spanned(N, v, u, k, lo2, hi2)
  BY <1>8, <1>15, <1>16, <1>17, <1>18, <1>19 DEF Spanned
<1>. QED  BY <1>14, <1>20 DEF Ordered

(* Case 2 of tree_add_check.  lisp_tree_lrot of a node d in the subtree of *)
(* x leaves the parent h and the grandparent j of x where they are.        *)
LEMMA Case2Left ==
  ASSUME NEW N, NEW r, NEW s, NEW k, NEW lo, NEW hi,
         Linked(N, r, s), Spanned(N, r, s, k, lo, hi),
         NEW d \in N, NEW e \in N, lo[e] <= lo[d], hi[d] <= hi[e],
         NEW h \in N, NEW j \in N, e # r, h # r, s.parent[e] = h, s.parent[h] = j,
         NEW u, NEW v, u = LeftRotation(s, r, d).links, v = LeftRotation(s, r, d).root
  PROVE  /\ Linked(N, v, u) /\ Ordered(N, v, u, k)
         /\ u.parent[h] = j /\ u.parent[j] = s.parent[j]
         /\ s.left[j] = h => u.left[j] = h
         /\ s.right[j] = h => u.right[j] = h
<1>1. CASE s.right[d] = Nil
  <2>1. u = s /\ v = r
    BY <1>1 DEF LeftRotation, Rotated, IsNull
  <2>. QED  BY <2>1 DEF Ordered
<1>2. CASE s.right[d] # Nil
  <2> DEFINE b == s.right[d]
             c == s.left[b]
  <2>1. s \in Links /\ d \in Node /\ h \in Node /\ j \in Node
    BY DEF Linked
  <2>2. LeftTurned(s, r, d, b, u, v)
    BY <1>2, <2>1, LeftRotationTurns
  <2>3. Linked(N, v, u) /\ Ordered(N, v, u, k)
    BY <1>2, <2>2, LeftTurnKeeps
  <2>4. /\ \A n \in N : lo[n] \in Int /\ hi[n] \in Int /\ k[n] \in Int
                        /\ lo[n] < k[n] /\ k[n] < hi[n]
        /\ b \in N /\ s.parent[b] = d /\ (c # Nil => c \in N) /\ j # Nil /\ h # Nil
    BY <1>2, TreeAssumption DEF Linked, Spanned
  <2>5. /\ lo[b] = k[d] /\ hi[b] = hi[d]
        /\ c # Nil => lo[c] = lo[b] /\ hi[c] = k[b]
    BY <1>2, <2>4 DEF Spanned
  <2>6. /\ lo[h] <= lo[e] /\ hi[e] <= hi[h] /\ (lo[h] < lo[e] \/ hi[e] < hi[h])
        /\ lo[j] <= lo[h] /\ hi[h] <= hi[j] /\ (lo[j] < lo[h] \/ hi[h] < hi[j])
    BY <2>4, ParentSpan
  <2>7. d # s.parent[d] /\ (d = r \/ s.left[s.parent[d]] = d \/ s.right[s.parent[d]] = d)
        /\ (d = r => s.parent[d] = Top)
    BY <2>1, TreeAssumption, ParentSpan DEF Linked
  <2>. HIDE DEF b, c
  <2>8. h # d /\ h # b /\ h # c /\ j # d /\ j # b /\ j # c
    BY <2>4, <2>5, <2>6
  <2>9. u.parent[h] = j /\ u.parent[j] = s.parent[j]
    BY <2>1, <2>2, <2>8 DEF LeftTurned, c
  <2>10. j # Top
    BY <2>1, TreeAssumption
  <2>11. s.left[j] = h => u.left[j] = h
    BY <2>1, <2>2, <2>8 DEF LeftTurned
  <2>12. s.right[j] = h => u.right[j] = h
    BY <2>1, <2>2, <2>7, <2>8, <2>10 DEF LeftTurned
  <2>. QED  BY <2>3, <2>9, <2>11, <2>12
<1>. QED  BY <1>1, <1>2

(* Case 3.  lisp_tree_lrot of c, the parent of b, leaves its right child a *)
(* below b.                                                                *)
LEMMA Case3Left ==
  ASSUME NEW N, NEW r, NEW s, NEW k, Linked(N, r, s), Ordered(N, r, s, k),
         NEW a \in N, NEW b \in N, s.parent[a] = b, s.right[b] = a,
         NEW c \in N \cup {Top}, s.parent[b] = c,
         NEW u, NEW v, u = LeftRotation(s, r, c).links, v = LeftRotation(s, r, c).root
  PROVE  /\ Linked(N, v, u) /\ Ordered(N, v, u, k)
         /\ u.parent[a] = b /\ a # v
<1>1. CASE c = Top \/ s.right[c] = Nil
  <2>1. u = s /\ v = r
    BY <1>1 DEF LeftRotation, Rotated, IsNull
  <2>2. a # r
    BY TreeAssumption DEF Linked
  <2>. QED  BY <2>1, <2>2
<1>2. CASE c # Top /\ s.right[c] # Nil
  <2> DEFINE d == s.right[c]
             f == s.left[d]
  <2>1. s \in Links /\ c \in N /\ c \in Node /\ a \in Node
    BY <1>2 DEF Linked
  <2>2. LeftTurned(s, r, c, d, u, v)
    BY <1>2, <2>1, LeftRotationTurns
  <2>3. PICK lo, hi : Spanned(N, r, s, k, lo, hi)
    BY DEF Ordered
  <2>4. Linked(N, v, u) /\ Ordered(N, v, u, k)
    BY <1>2, <2>1, <2>2, <2>3, LeftTurnKeeps
  <2>5. a # r /\ b # r
    BY <2>1, TreeAssumption DEF Linked
  <2>6. a # b /\ b # c /\ s.left[b] # a
    BY <2>1, <2>3, <2>5, ParentSpan
  <2>7. a # c
    <3>1. \A n \in N : lo[n] \in Int /\ hi[n] \in Int /\ k[n] \in Int
                       /\ lo[n] < k[n] /\ k[n] < hi[n]
      BY <2>3 DEF Linked, Spanned
    <3>2. /\ lo[b] <= lo[a] /\ hi[a] <= hi[b] /\ (lo[b] < lo[a] \/ hi[a] < hi[b])
          /\ lo[c] <= lo[b] /\ hi[b] <= hi[c]
      BY <3>1, <2>1, <2>3, <2>5, ParentSpan
    <3>. QED  BY <3>1, <3>2, <2>1
  <2>8. d \in N /\ s.parent[d] = c /\ (f # Nil => f \in N /\ s.parent[f] = d) /\ a # Nil
    BY <1>2, <2>1, TreeAssumption DEF Linked
  <2>9. a # d /\ a # f
    BY <2>6, <2>7, <2>8
  <2>. HIDE DEF d
  <2>10. u.parent[a] = b
    BY <2>1, <2>2, <2>7, <2>9 DEF LeftTurned
  <2>11. b # Top
    BY TreeAssumption DEF Linked
  <2>12. a # v
    BY <2>4, <2>10, <2>11 DEF Linked
  <2>. QED  BY <2>4, <2>10, <2>12
<1>. QED  BY <1>1, <1>2

(* The mirror images.                                                      *)
LEMMA Case2Right ==
  ASSUME NEW N, NEW r, NEW s, NEW k, NEW lo, NEW hi,
         Linked(N, r, s), Spanned(N, r, s, k, lo, hi),
         NEW d \in N, NEW e \in N, hi[d] <= hi[e], lo[e] <= lo[d],
         NEW h \in N, NEW j \in N, e # r, h # r, s.parent[e] = h, s.parent[h] = j,
         NEW u, NEW v, u = RightRotation(s, r, d).links, v = RightRotation(s, r, d).root
  PROVE  /\ Linked(N, v, u) /\ Ordered(N, v, u, k)
         /\ u.parent[h] = j /\ u.parent[j] = s.parent[j]
         /\ s.right[j] = h => u.right[j] = h
         /\ s.left[j] = h => u.left[j] = h
<1>1. CASE s.left[d] = Nil
  <2>1. u = s /\ v = r
    BY <1>1 DEF RightRotation, Rotated, IsNull
  <2>. QED  BY <2>1 DEF Ordered
<1>2. CASE s.left[d] # Nil
  <2> DEFINE b == s.left[d]
             c == s.right[b]
  <2>1. s \in Links /\ d \in Node /\ h \in Node /\ j \in Node
    BY DEF Linked
  <2>2. RightTurned(s, r, d, b, u, v)
    BY <1>2, <2>1, RightRotationTurns
  <2>3. Linked(N, v, u) /\ Ordered(N, v, u, k)
    BY <1>2, <2>2, RightTurnKeeps
  <2>4. /\ \A n \in N : hi[n] \in Int /\ lo[n] \in Int /\ k[n] \in Int
                        /\ lo[n] < k[n] /\ k[n] < hi[n]
        /\ b \in N /\ s.parent[b] = d /\ (c # Nil => c \in N) /\ j # Nil /\ h # Nil
    BY <1>2, TreeAssumption DEF Linked, Spanned
  <2>5. /\ hi[b] = k[d] /\ lo[b] = lo[d]
        /\ c # Nil => hi[c] = hi[b] /\ lo[c] = k[b]
    BY <1>2, <2>4 DEF Spanned
  <2>6. /\ hi[e] <= hi[h] /\ lo[h] <= lo[e] /\ (hi[e] < hi[h] \/ lo[h] < lo[e])
        /\ hi[h] <= hi[j] /\ lo[j] <= lo[h] /\ (hi[h] < hi[j] \/ lo[j] < lo[h])
    BY <2>4, ParentSpan
  <2>7. d # s.parent[d] /\ (d = r \/ s.right[s.parent[d]] = d \/ s.left[s.parent[d]] = d)
        /\ (d = r => s.parent[d] = Top)
    BY <2>1, TreeAssumption, ParentSpan DEF Linked
  <2>. HIDE DEF b, c
  <2>8. h # d /\ h # b /\ h # c /\ j # d /\ j # b /\ j # c
    BY <2>4, <2>5, <2>6
  <2>9. u.parent[h] = j /\ u.parent[j] = s.parent[j]
    BY <2>1, <2>2, <2>8 DEF RightTurned, c
  <2>10. j # Top
    BY <2>1, TreeAssumption
  <2>11. s.right[j] = h => u.right[j] = h
    BY <2>1, <2>2, <2>8 DEF RightTurned
  <2>12. s.left[j] = h => u.left[j] = h
    BY <2>1, <2>2, <2>7, <2>8, <2>10 DEF RightTurned
  <2>. QED  BY <2>3, <2>9, <2>11, <2>12
<1>. QED  BY <1>1, <1>2

LEMMA Case3Right ==
  ASSUME NEW N, NEW r, NEW s, NEW k, Linked(N, r, s), Ordered(N, r, s, k),
         NEW a \in N, NEW b \in N, s.parent[a] = b, s.left[b] = a,
         NEW c \in N \cup {Top}, s.parent[b] = c,
         NEW u, NEW v, u = RightRotation(s, r, c).links, v = RightRotation(s, r, c).root
  PROVE  /\ Linked(N, v, u) /\ Ordered(N, v, u, k)
         /\ u.parent[a] = b /\ a # v
<1>1. CASE c = Top \/ s.left[c] = Nil
  <2>1. u = s /\ v = r
    BY <1>1 DEF RightRotation, Rotated, IsNull
  <2>2. a # r
    BY TreeAssumption DEF Linked
  <2>. QED  BY <2>1, <2>2
<1>2. CASE c # Top /\ s.left[c] # Nil
  <2> DEFINE d == s.left[c]
             f == s.right[d]
  <2>1. s \in Links /\ c \in N /\ c \in Node /\ a \in Node
    BY <1>2 DEF Linked
  <2>2. RightTurned(s, r, c, d, u, v)
    BY <1>2, <2>1, RightRotationTurns
  <2>3. PICK lo, hi : Spanned(N, r, s, k, lo, hi)
    BY DEF Ordered
  <2>4. Linked(N, v, u) /\ Ordered(N, v, u, k)
    BY <1>2, <2>1, <2>2, <2>3, RightTurnKeeps
  <2>5. a # r /\ b # r
    BY <2>1, TreeAssumption DEF Linked
  <2>6. a # b /\ b # c /\ s.right[b] # a
    BY <2>1, <2>3, <2>5, ParentSpan
  <2>7. a # c
    <3>1. \A n \in N : hi[n] \in Int /\ lo[n] \in Int /\ k[n] \in Int
                       /\ lo[n] < k[n] /\ k[n] < hi[n]
      BY <2>3 DEF Linked, Spanned
    <3>2. /\ hi[a] <= hi[b] /\ lo[b] <= lo[a] /\ (hi[a] < hi[b] \/ lo[b] < lo[a])
          /\ hi[b] <= hi[c] /\ lo[c] <= lo[b]
      BY <3>1, <2>1, <2>3, <2>5, ParentSpan
    <3>. QED  BY <3>1, <3>2, <2>1
  <2>8. d \in N /\ s.parent[d] = c /\ (f # Nil => f \in N /\ s.parent[f] = d) /\ a # Nil
    BY <1>2, <2>1, TreeAssumption DEF Linked
  <2>9. a # d /\ a # f
    BY <2>6, <2>7, <2>8
  <2>. HIDE DEF d
  <2>10. u.parent[a] = b
    BY <2>1, <2>2, <2>7, <2>9 DEF RightTurned
  <2>11. b # Top
    BY TreeAssumption DEF Linked
  <2>12. a # v
    BY <2>4, <2>10, <2>11 DEF Linked
  <2>. QED  BY <2>4, <2>10, <2>12
<1>. QED  BY <1>1, <1>2

-----------------------------------------------------------------------------
(* A new leaf d under the node h: the search for its key ended there.      *)
LEMMA LeafKeeps ==
  ASSUME NEW N, NEW r, NEW s, NEW k, NEW lo, NEW hi,
         Linked(N, r, s), Spanned(N, r, s, k, lo, hi),
         NEW d \in Node \ N, s.left[d] = Nil, s.right[d] = Nil, NEW h \in N,
         lo[h] < k[d], k[d] < hi[h], k[d] # k[h],
         k[d] < k[h] => s.left[h] = Nil, k[d] > k[h] => s.right[h] = Nil,
         NEW u \in Links,
         \A n \in Node : u.parent[n] = IF n = d THEN h ELSE s.parent[n],
         \A n \in Node : u.left[n] = IF n = h /\ k[d] < k[h] THEN d ELSE s.left[n],
         \A n \in Node : u.right[n] = IF n = h /\ ~(k[d] < k[h]) THEN d ELSE s.right[n]
  PROVE  Linked(N \cup {d}, r, u) /\ Ordered(N \cup {d}, r, u, k)
<1> DEFINE M == N \cup {d}
           side == k[d] < k[h]
           lo2 == [lo EXCEPT ![d] = IF side THEN lo[h] ELSE k[h]]
           hi2 == [hi EXCEPT ![d] = IF side THEN k[h] ELSE hi[h]]
<1>1. /\ N \subseteq Node /\ d \notin N /\ Nil \notin M /\ Top \notin M /\ d # h
      /\ M \subseteq Node
      /\ r \in N /\ s.parent[r] = Top
      /\ \A n \in N : n # r => /\ s.parent[n] \in N
                               /\ s.left[s.parent[n]] = n \/ s.right[s.parent[n]] = n
      /\ \A n \in N : s.left[n] # Nil => s.left[n] \in N /\ s.parent[s.left[n]] = n
      /\ \A n \in N : s.right[n] # Nil => s.right[n] \in N /\ s.parent[s.right[n]] = n
  BY TreeAssumption DEF Linked
<1>2. /\ \A n \in N : /\ lo[n] \in Int /\ hi[n] \in Int
                      /\ 0 <= lo[n] /\ lo[n] < k[n] /\ k[n] < hi[n] /\ hi[n] <= MaxKey + 1
      /\ \A n \in N : s.left[n] # Nil => lo[s.left[n]] = lo[n] /\ hi[s.left[n]] = k[n]
      /\ \A n \in N : s.right[n] # Nil => lo[s.right[n]] = k[n] /\ hi[s.right[n]] = hi[n]
      /\ lo[r] = 0 /\ hi[r] = MaxKey + 1
      /\ \A n \in Node : k[n] \in Int
  BY <1>1 DEF Spanned
<1>3. /\ k \in [Node -> Int] /\ lo2 \in [Node -> Int] /\ hi2 \in [Node -> Int]
      /\ \A n \in M : lo2[n] = IF n = d THEN IF side THEN lo[h] ELSE k[h] ELSE lo[n]
      /\ \A n \in M : hi2[n] = IF n = d THEN IF side THEN k[h] ELSE hi[h] ELSE hi[n]
  BY <1>1, <1>2 DEF Spanned
<1>4. /\ \A n \in M : u.parent[n] = IF n = d THEN h ELSE s.parent[n]
      /\ \A n \in M : u.left[n] = IF n = h /\ side THEN d ELSE s.left[n]
      /\ \A n \in M : u.right[n] = IF n = h /\ ~side THEN d ELSE s.right[n]
  BY <1>1
<1>5. /\ side => s.left[h] = Nil
      /\ ~side => s.right[h] = Nil /\ k[h] < k[d]
  BY <1>1, <1>2
<1>. HIDE DEF side, lo2, hi2
<1>6. \A n \in M : n # r => /\ u.parent[n] \in M
                            /\ u.left[u.parent[n]] = n \/ u.right[u.parent[n]] = n
  BY <1>1, <1>4, <1>5
<1>7. /\ \A n \in M : u.left[n] # Nil => u.left[n] \in M /\ u.parent[u.left[n]] = n
      /\ \A n \in M : u.right[n] # Nil => u.right[n] \in M /\ u.parent[u.right[n]] = n
  BY <1>1, <1>4, <1>5
<1>8. Linked(M, r, u)
  BY <1>1, <1>4, <1>6, <1>7 DEF Linked
<1>9. \A n \in M : /\ 0 <= lo2[n] /\ lo2[n] < k[n] /\ k[n] < hi2[n]
                   /\ hi2[n] <= MaxKey + 1
  BY <1>1, <1>2, <1>3, <1>5, TreeAssumption DEF side
<1>10. /\ \A n \in M : u.left[n] # Nil => lo2[u.left[n]] = lo2[n] /\ hi2[u.left[n]] = k[n]
       /\ \A n \in M : u.right[n] # Nil => lo2[u.right[n]] = k[n] /\ hi2[u.right[n]] = hi2[n]
  BY <1>1, <1>2, <1>3, <1>4, <1>5
<1>11. lo2[r] = 0 /\ hi2[r] = MaxKey + 1
  BY <1>1, <1>2, <1>3
<1>12. Spanned(M, r, u, k, lo2, hi2)
  BY <1>1, <1>3, <1>9, <1>10, <1>11 DEF Spanned
<1>. QED  BY <1>8, <1>12 DEF Ordered

-----------------------------------------------------------------------------
(* The nodes that are not in the tree have no children.                    *)
Fresh == \A n \in Node \ nodes : t.left[n] = Nil /\ t.right[n] = Nil

(* Only lisp_tree_add has a coloured root.                                 *)
RootBlack == pc # "check" => ~red[root]

(* While lisp_tree_add runs, no parent link of the tree is strong.         *)
ParentLinks ==
  /\ pc \in {"idle", "find"} => \A n \in nodes : weak[n] <=> n # root
  /\ pc \in {"add", "check"} => \A n \in nodes \cup {node} : weak[n]

ValuesBound == \A n \in nodes : val[n] \in Vals

(* The place that tree_add_node has reached for the key of its node ...    *)
Adding(lo, hi) ==
  pc = "add" =>
    /\ node \in Node \ nodes /\ t.parent[node] = Top
    /\ op.op = "add" /\ op.key \in Keys /\ op.val \in Vals
    /\ op = [op |-> "add", key |-> op.key, val |-> op.val]
    /\ key[node] = op.key /\ val[node] = op.val
    /\ x \in nodes => lo[x] < op.key /\ op.key < hi[x]
    /\ nodes = {} => x = Top
    /\ nodes # {} /\ x \notin nodes =>
         /\ x = Nil /\ y \in nodes
         /\ lo[y] < op.key /\ op.key < hi[y] /\ op.key # key[y]
         /\ op.key < key[y] => t.left[y] = Nil
         /\ op.key > key[y] => t.right[y] = Nil

(* ... that a search has reached ...                                       *)
Finding(lo, hi) ==
  pc = "find" =>
    /\ op.op \in {"upd", "get"} /\ op.key \in Keys
    /\ op.op = "upd" => op.val \in Vals
    /\ x \in nodes => lo[x] < op.key /\ op.key < hi[x]
    /\ x \notin nodes => \A n \in nodes : key[n] # op.key

(* ... and tree_add_check: it has climbed from the new node, below a black *)
(* root, or its loop is at its end.                                        *)
Fixing(lo, hi) ==
  pc = "check" =>
    /\ x \in nodes /\ node \in nodes
    /\ op = [op |-> "add", key |-> op.key, val |-> op.val]
    /\ op.key \in Keys /\ op.val \in Vals
    /\ key[node] = op.key /\ val[node] = op.val
    /\ \/ lo[x] <= lo[node] /\ hi[node] <= hi[x] /\ (x = root \/ ~red[root])
       \/ x # root /\ ~red[t.parent[x]]

Search ==
  \E lo, hi : /\ Spanned(nodes, root, t, key, lo, hi)
              /\ Adding(lo, hi) /\ Finding(lo, hi) /\ Fixing(lo, hi)

TreeInv ==
  /\ TypeOK /\ Linked(nodes, root, t) /\ Fresh
  /\ RootBlack /\ ParentLinks /\ ValuesBound /\ Search

LEMMA InitTree == Init => TreeInv
<1>. SUFFICES ASSUME Init  PROVE TreeInv
  OBVIOUS
<1>1. TypeOK
  BY TreeAssumption DEF Init, TypeOK
<1>2. Linked(nodes, root, t)
  BY DEF Init, Linked, Links
<1>3. Fresh /\ RootBlack /\ ParentLinks /\ ValuesBound
  BY DEF Init, Fresh, RootBlack, ParentLinks, ValuesBound
<1>4. Search
  <2> DEFINE z == [n \in Node |-> 0]
  <2>1. Spanned(nodes, root, t, key, z, z)
    BY DEF Init, Spanned
  <2>2. Adding(z, z) /\ Finding(z, z) /\ Fixing(z, z)
    BY DEF Init, Adding, Finding, Fixing
  <2>. QED  BY <2>1, <2>2 DEF Search
<1>. QED  BY <1>1, <1>2, <1>3, <1>4 DEF TreeInv

-----------------------------------------------------------------------------
(* A tree is made of the links and the keys of its nodes only.             *)
LEMMA SameTree ==
  ASSUME NEW N, NEW r, NEW s, NEW k, NEW lo, NEW hi,
         Linked(N, r, s), Spanned(N, r, s, k, lo, hi),
         NEW u \in Links, NEW j \in [Node -> Int],
         \A n \in N : /\ u.left[n] = s.left[n] /\ u.right[n] = s.right[n]
                      /\ u.parent[n] = s.parent[n] /\ j[n] = k[n]
  PROVE  Linked(N, r, u) /\ Spanned(N, r, u, j, lo, hi)
<1>1. Linked(N, r, u)
  BY DEF Linked
<1>2. Spanned(N, r, u, j, lo, hi)
  BY DEF Linked, Spanned
<1>. QED  BY <1>1, <1>2

LEMMA TreeTypes ==
  ASSUME TypeOK
  PROVE  /\ t \in Links /\ key \in [Node -> Int] /\ Nil \notin nodes /\ Top \notin nodes
         /\ nodes \subseteq Node /\ (nodes = {} <=> root = Top) /\ (nodes # {} => root \in nodes)
         /\ \A n \in nodes \cup {Nil, Top} : IsNull(n) <=> n \notin nodes
         /\ IsNull(root) <=> nodes = {}
<1>1. t \in Links /\ nodes \subseteq Node /\ Nil \notin nodes /\ Top \notin nodes
  BY TreeAssumption DEF TypeOK, Links
<1>2. key \in [Node -> Int]
  BY TreeAssumption DEF TypeOK
<1>3. nodes = {} => root = Top
  BY DEF TypeOK
<1>4. nodes # {} => root \in nodes
  BY DEF TypeOK
<1>5. \A n \in nodes \cup {Nil, Top} : IsNull(n) <=> n \notin nodes
  BY <1>1 DEF IsNull
<1>. QED  BY <1>1, <1>2, <1>3, <1>4, <1>5 DEF IsNull

LEMMA CallAddKeeps ==
  ASSUME TreeInv, NEW k \in Keys, NEW v \in Vals, CallAdd(k, v)
  PROVE  TreeInv'
<1> DEFINE n == CHOOSE m \in Node \ nodes : TRUE
<1>1. n \in Node \ nodes
  BY DEF CallAdd
<1>2. /\ pc = "idle" /\ pc' = "add" /\ node' = n /\ x' = root /\ y' = Nil
      /\ op' = [op |-> "add", key |-> k, val |-> v]
      /\ nodes' = nodes /\ root' = root /\ last' = last
  BY DEF CallAdd
<1>3. /\ key' = [key EXCEPT ![n] = k] /\ val' = [val EXCEPT ![n] = v]
      /\ red' = [red EXCEPT ![n] = TRUE]
      /\ weak' = [m \in Node |-> IF m \in {n, root} THEN TRUE ELSE weak[m]]
      /\ t' = [t EXCEPT !.left[n] = Nil, !.right[n] = Nil,
                        !.parent[n] = IF IsNull(root) THEN root ELSE t.parent[root]]
  BY DEF CallAdd
<1>. HIDE DEF n
<1>4. TypeOK /\ Linked(nodes, root, t) /\ Fresh /\ k \in 0..MaxKey /\ k \in Int
  BY TreeAssumption DEF TreeInv, Keys
<1>5. (IF IsNull(root) THEN root ELSE t.parent[root]) = Top
  BY <1>4, TreeTypes DEF Linked
<1>6. /\ t' \in Links
      /\ \A m \in Node : /\ t'.left[m] = t.left[m] /\ t'.right[m] = t.right[m]
                         /\ t'.parent[m] = IF m = n THEN Top ELSE t.parent[m]
  <2>1. t' = [t EXCEPT !.left[n] = Nil, !.right[n] = Nil, !.parent[n] = Top]
    BY <1>3, <1>5
  <2>2. t \in Links /\ t.left[n] = Nil /\ t.right[n] = Nil
    BY <1>1, <1>4, TreeTypes DEF Fresh
  <2>. QED  BY <2>1, <2>2, <1>1 DEF Links
<1>7. TypeOK'
  <2>1. /\ key' \in [Node -> 0..MaxKey] /\ val' \in [Node -> Vals \cup {Missing}]
        /\ red' \in [Node \cup {Nil, Top} -> BOOLEAN] /\ ~red'[Nil]
        /\ weak' \in [Node -> BOOLEAN]
    BY <1>1, <1>3, <1>4, TreeAssumption DEF TypeOK
  <2>. QED  BY <2>1, <1>1, <1>2, <1>4, <1>6 DEF TypeOK, Links
<1>8. \A m \in nodes : /\ m # n /\ key'[m] = key[m] /\ val'[m] = val[m]
                       /\ red'[m] = red[m] /\ weak'[m] = IF m = root THEN TRUE ELSE weak[m]
  BY <1>1, <1>3, <1>4 DEF TypeOK
<1>9. key' \in [Node -> Int]
  BY <1>7, TreeAssumption DEF TypeOK
<1>10. PICK lo, hi : Spanned(nodes, root, t, key, lo, hi)
  BY DEF TreeInv, Search
<1>11. Linked(nodes, root, t') /\ Spanned(nodes, root, t', key', lo, hi)
  <2>1. \A m \in nodes : /\ t'.left[m] = t.left[m] /\ t'.right[m] = t.right[m]
                          /\ t'.parent[m] = t.parent[m] /\ key'[m] = key[m]
    BY <1>4, <1>6, <1>8 DEF Linked
  <2>. QED  BY <2>1, <1>4, <1>6, <1>9, <1>10, SameTree
<1>12. Fresh'
  BY <1>2, <1>4, <1>6 DEF Fresh
<1>13. RootBlack'
  BY <1>1, <1>2, <1>3, <1>4, TreeTypes, TreeAssumption DEF TypeOK, TreeInv, RootBlack
<1>14. ParentLinks'
  <2>1. weak'[n] /\ \A m \in nodes : weak[m] <=> m # root
    BY <1>1, <1>2, <1>3 DEF TreeInv, ParentLinks
  <2>. QED  BY <2>1, <1>2, <1>8 DEF ParentLinks
<1>15. ValuesBound'
  BY <1>2, <1>8 DEF TreeInv, ValuesBound
<1>16. Adding(lo, hi)'
  <2>1. key'[n] = k /\ val'[n] = v /\ t'.parent[n] = Top
    BY <1>1, <1>3, <1>4, <1>6 DEF TypeOK
  <2>2. nodes # {} => root \in nodes /\ lo[root] = 0 /\ hi[root] = MaxKey + 1
    BY <1>4, <1>10, TreeTypes DEF Spanned
  <2>3. 0 < k /\ k < MaxKey + 1
    BY TreeAssumption DEF Keys
  <2>4. nodes = {} => root = Top
    BY <1>4, TreeTypes
  <2>. QED  BY <2>1, <2>2, <2>3, <2>4, <1>1, <1>2 DEF Adding
<1>17. Finding(lo, hi)' /\ Fixing(lo, hi)'
  BY <1>2 DEF Finding, Fixing
<1>18. Search'
  BY <1>2, <1>11, <1>16, <1>17 DEF Search
<1>. QED  BY <1>2, <1>7, <1>11, <1>12, <1>13, <1>14, <1>15, <1>18 DEF TreeInv

(* Steps that change only where the operation is.                          *)
LEMMA MoveKeeps ==
  ASSUME TreeInv, UNCHANGED <<nodes, root, t, red, weak, key, val>>,
         TypeOK', RootBlack', ParentLinks',
         \A lo, hi : /\ Spanned(nodes, root, t, key, lo, hi)
                     /\ Adding(lo, hi) /\ Finding(lo, hi) /\ Fixing(lo, hi)
                     => Adding(lo, hi)' /\ Finding(lo, hi)' /\ Fixing(lo, hi)'
  PROVE  TreeInv'
<1>1. PICK lo, hi : /\ Spanned(nodes, root, t, key, lo, hi)
                    /\ Adding(lo, hi) /\ Finding(lo, hi) /\ Fixing(lo, hi)
  BY DEF TreeInv, Search
<1>2. Adding(lo, hi)' /\ Finding(lo, hi)' /\ Fixing(lo, hi)'
  BY <1>1
<1>3. Spanned(nodes, root, t, key, lo, hi)' /\ Linked(nodes, root, t)'
  BY <1>1 DEF TreeInv
<1>4. Search'
  BY <1>2, <1>3 DEF Search
<1>. QED  BY <1>3, <1>4 DEF TreeInv, Fresh, ValuesBound

LEMMA AddDescendKeeps ==
  ASSUME TreeInv, AddDescend
  PROVE  TreeInv'
<1>1. /\ pc = "add" /\ pc' = "add" /\ ~IsNull(x) /\ key[node] # key[x] /\ y' = x
      /\ x' = IF key[node] < key[x] THEN t.left[x] ELSE t.right[x]
      /\ nodes' = nodes /\ root' = root /\ t' = t /\ red' = red /\ weak' = weak
      /\ key' = key /\ val' = val /\ op' = op /\ node' = node /\ last' = last
  BY DEF AddDescend
<1>2. TypeOK /\ Linked(nodes, root, t) /\ x \in nodes /\ Nil \notin nodes
  BY <1>1, TreeTypes DEF TreeInv, TypeOK, IsNull
<1>3. x' \in nodes \cup {Nil}
  BY <1>1, <1>2 DEF Linked
<1>4. TypeOK'
  BY <1>1, <1>2, <1>3 DEF TypeOK
<1>5. RootBlack' /\ ParentLinks'
  BY <1>1 DEF TreeInv, RootBlack, ParentLinks
<1>6. ASSUME NEW lo, NEW hi, Spanned(nodes, root, t, key, lo, hi), Adding(lo, hi)
      PROVE  Adding(lo, hi)' /\ Finding(lo, hi)' /\ Fixing(lo, hi)'
  <2>1. /\ node \in Node \ nodes /\ t.parent[node] = Top
        /\ op.op = "add" /\ op.key \in Keys /\ op.val \in Vals
        /\ op = [op |-> "add", key |-> op.key, val |-> op.val]
        /\ key[node] = op.key /\ val[node] = op.val
        /\ lo[x] < op.key /\ op.key < hi[x]
    BY <1>1, <1>2, <1>6 DEF Adding
  <2>2. op.key \in Int /\ key[x] \in Int /\ lo[x] \in Int /\ hi[x] \in Int
    BY <2>1, <1>2, <1>6, TreeTypes DEF Keys, Spanned
  <2>3. /\ t.left[x] # Nil => lo[t.left[x]] = lo[x] /\ hi[t.left[x]] = key[x]
        /\ t.right[x] # Nil => lo[t.right[x]] = key[x] /\ hi[t.right[x]] = hi[x]
    BY <1>2, <1>6 DEF Spanned
  <2>4. x' \in nodes => lo[x'] < op.key /\ op.key < hi[x']
    <3>1. CASE op.key < key[x]
      BY <3>1, <2>1, <2>2, <2>3, <1>1, <1>2
    <3>2. CASE ~(op.key < key[x])
      BY <3>2, <2>1, <2>2, <2>3, <1>1, <1>2
    <3>. QED  BY <3>1, <3>2
  <2>5. x' \notin nodes => /\ x' = Nil
                           /\ op.key < key[x] => t.left[x] = Nil
                           /\ op.key > key[x] => t.right[x] = Nil
    BY <1>1, <1>3, <2>1, <2>2
  <2>6. Adding(lo, hi)'
    BY <2>1, <2>4, <2>5, <1>1, <1>2 DEF Adding
  <2>. QED  BY <2>6, <1>1 DEF Finding, Fixing
<1>. QED  BY <1>1, <1>4, <1>5, <1>6, MoveKeeps

LEMMA AddExistingKeeps ==
  ASSUME TreeInv, AddExisting
  PROVE  TreeInv'
<1>1. /\ pc = "add" /\ pc' = "idle" /\ ~IsNull(x) /\ key[node] = key[x]
      /\ op' = None /\ x' = Nil /\ y' = Nil /\ node' = Nil
      /\ nodes' = nodes /\ root' = root /\ t' = t
      /\ val' = [val EXCEPT ![x] = val[node], ![node] = Missing]
      /\ weak' = [weak EXCEPT ![root] = FALSE, ![node] = FALSE]
      /\ key' = [key EXCEPT ![node] = 0] /\ red' = [red EXCEPT ![node] = FALSE]
  BY DEF AddExisting, Return
<1>2. /\ TypeOK /\ Linked(nodes, root, t) /\ x \in nodes /\ nodes \subseteq Node
      /\ root \in nodes /\ t \in Links
  BY <1>1, TreeTypes DEF TreeInv, TypeOK, IsNull
<1>3. PICK lo, hi : Spanned(nodes, root, t, key, lo, hi) /\ Adding(lo, hi)
  BY DEF TreeInv, Search
<1>4. node \in Node \ nodes /\ val[node] \in Vals
  BY <1>1, <1>3 DEF Adding
<1>5. \A n \in nodes : /\ val'[n] = IF n = x THEN val[node] ELSE val[n]
                       /\ weak'[n] = IF n = root THEN FALSE ELSE weak[n]
                       /\ key'[n] = key[n] /\ red'[n] = red[n]
  BY <1>1, <1>2, <1>4 DEF TypeOK
<1>6. TypeOK'
  <2>1. key' \in [Node -> 0..MaxKey]
    BY <1>1, <1>2, <1>4, TreeAssumption DEF TypeOK
  <2>2. val' \in [Node -> Vals \cup {Missing}]
    BY <1>1, <1>2, <1>4 DEF TypeOK
  <2>3. red' \in [Node \cup {Nil, Top} -> BOOLEAN] /\ ~red'[Nil]
    BY <1>1, <1>2, <1>4, TreeAssumption DEF TypeOK
  <2>4. weak' \in [Node -> BOOLEAN]
    BY <1>1, <1>2, <1>4 DEF TypeOK
  <2>. QED  BY <2>1, <2>2, <2>3, <2>4, <1>1, <1>2 DEF TypeOK
<1>7. RootBlack' /\ ParentLinks' /\ ValuesBound' /\ Fresh'
  BY <1>1, <1>2, <1>4, <1>5 DEF TreeInv, RootBlack, ParentLinks, ValuesBound, Fresh
<1>8. key' \in [Node -> Int]
  BY <1>6, TreeAssumption DEF TypeOK
<1>9. Linked(nodes, root, t) /\ Spanned(nodes, root, t, key', lo, hi)
  BY <1>2, <1>3, <1>5, <1>8, SameTree
<1>10. Search'
  BY <1>1, <1>9 DEF Search, Adding, Finding, Fixing
<1>. QED  BY <1>1, <1>6, <1>7, <1>9, <1>10 DEF TreeInv

LEMMA AddRootKeeps ==
  ASSUME TreeInv, AddRoot
  PROVE  TreeInv'
<1>1. /\ pc = "add" /\ pc' = "check" /\ IsNull(root)
      /\ root' = node /\ nodes' = nodes \cup {node} /\ x' = node
      /\ t' = t /\ red' = red /\ weak' = weak /\ key' = key /\ val' = val
      /\ op' = op /\ y' = y /\ node' = node
  BY DEF AddRoot
<1>2. TypeOK /\ nodes = {} /\ t \in Links /\ key \in [Node -> Int]
  BY <1>1, TreeTypes DEF TreeInv
<1>3. PICK lo, hi : Spanned(nodes, root, t, key, lo, hi) /\ Adding(lo, hi)
  BY DEF TreeInv, Search
<1>4. /\ node \in Node /\ t.parent[node] = Top /\ t.left[node] = Nil /\ t.right[node] = Nil
      /\ op = [op |-> "add", key |-> op.key, val |-> op.val]
      /\ op.key \in Keys /\ op.val \in Vals
      /\ key[node] = op.key /\ val[node] = op.val
  BY <1>1, <1>3 DEF Adding, TreeInv, Fresh
<1>5. nodes' = {node}
  BY <1>1, <1>2
<1>6. TypeOK'
  BY <1>1, <1>2, <1>4, <1>5 DEF TypeOK
<1>7. RootBlack' /\ ParentLinks' /\ ValuesBound' /\ Fresh'
  BY <1>1, <1>2, <1>4, <1>5 DEF TreeInv, RootBlack, ParentLinks, ValuesBound, Fresh
<1>8. Linked(nodes', root', t')
  BY <1>1, <1>2, <1>4, <1>5 DEF Linked
<1> DEFINE lo2 == [n \in Node |-> 0]
           hi2 == [n \in Node |-> MaxKey + 1]
<1>9. Spanned(nodes', root', t', key', lo2, hi2)
  <2>1. op.key \in Int /\ 0 < op.key /\ op.key < MaxKey + 1 /\ MaxKey + 1 \in Int
    BY <1>4, TreeAssumption DEF Keys
  <2>. QED  BY <2>1, <1>1, <1>2, <1>4, <1>5 DEF Spanned
<1>10. Fixing(lo2, hi2)'
  <2>1. lo2[node] <= lo2[node] /\ hi2[node] <= hi2[node]
    BY <1>4, TreeAssumption
  <2>. HIDE DEF lo2, hi2
  <2>. QED  BY <2>1, <1>1, <1>4, <1>5 DEF Fixing
<1>. HIDE DEF lo2, hi2
<1>11. Search'
  BY <1>1, <1>9, <1>10 DEF Search, Adding, Finding
<1>. QED  BY <1>6, <1>7, <1>8, <1>11 DEF TreeInv

LEMMA AddLeafKeeps ==
  ASSUME TreeInv, AddLeaf
  PROVE  TreeInv'
<1>1. /\ pc = "add" /\ pc' = "check" /\ ~IsNull(root) /\ IsNull(x)
      /\ root' = root /\ nodes' = nodes \cup {node} /\ x' = node
      /\ red' = red /\ weak' = weak /\ key' = key /\ val' = val
      /\ op' = op /\ y' = y /\ node' = node
      /\ t' = IF key[node] < key[y]
              THEN [t EXCEPT !.parent[node] = y, !.left[y] = node]
              ELSE [t EXCEPT !.parent[node] = y, !.right[y] = node]
  BY DEF AddLeaf
<1>2. /\ TypeOK /\ Linked(nodes, root, t) /\ nodes # {} /\ t \in Links
      /\ key \in [Node -> Int] /\ nodes \subseteq Node /\ root \in nodes /\ x \notin nodes
  BY <1>1, TreeTypes DEF TreeInv, TypeOK, IsNull
<1>3. PICK lo, hi : Spanned(nodes, root, t, key, lo, hi) /\ Adding(lo, hi)
  BY DEF TreeInv, Search
<1>4. /\ node \in Node \ nodes /\ t.left[node] = Nil /\ t.right[node] = Nil
      /\ op = [op |-> "add", key |-> op.key, val |-> op.val]
      /\ op.key \in Keys /\ op.val \in Vals
      /\ key[node] = op.key /\ val[node] = op.val
      /\ y \in nodes /\ lo[y] < key[node] /\ key[node] < hi[y] /\ key[node] # key[y]
      /\ key[node] < key[y] => t.left[y] = Nil
      /\ key[node] > key[y] => t.right[y] = Nil
  BY <1>1, <1>2, <1>3 DEF Adding, TreeInv, Fresh
<1>5. y # node /\ y \in Node
  BY <1>2, <1>4
<1>6. /\ t' \in Links
      /\ \A n \in Node : t'.parent[n] = IF n = node THEN y ELSE t.parent[n]
      /\ \A n \in Node : t'.left[n] = IF n = y /\ key[node] < key[y] THEN node ELSE t.left[n]
      /\ \A n \in Node : t'.right[n] = IF n = y /\ ~(key[node] < key[y]) THEN node
                                       ELSE t.right[n]
  <2>1. CASE key[node] < key[y]
    <3>1. t' = [t EXCEPT !.parent[node] = y, !.left[y] = node]
      BY <2>1, <1>1
    <3>. QED  BY <3>1, <2>1, <1>2, <1>4, <1>5 DEF Links
  <2>2. CASE ~(key[node] < key[y])
    <3>1. t' = [t EXCEPT !.parent[node] = y, !.right[y] = node]
      BY <2>2, <1>1
    <3>. QED  BY <3>1, <2>2, <1>2, <1>4, <1>5 DEF Links
  <2>. QED  BY <2>1, <2>2
<1>7. Linked(nodes \cup {node}, root, t') /\ Ordered(nodes \cup {node}, root, t', key)
  BY <1>2, <1>3, <1>4, <1>6, LeafKeeps
<1>8. TypeOK'
  BY <1>1, <1>2, <1>4, <1>6 DEF TypeOK, Links
<1>9. RootBlack' /\ ParentLinks' /\ ValuesBound'
  BY <1>1, <1>4 DEF TreeInv, RootBlack, ParentLinks, ValuesBound
<1>10. Fresh'
  BY <1>1, <1>2, <1>4, <1>6 DEF TreeInv, Fresh
<1>11. Search'
  <2>1. PICK lo2, hi2 : Spanned(nodes', root', t', key', lo2, hi2)
    BY <1>1, <1>7 DEF Ordered
  <2>2. lo2[node] <= lo2[node] /\ hi2[node] <= hi2[node]
    BY <2>1, <1>4 DEF Spanned
  <2>3. ~red[root]
    BY <1>1 DEF TreeInv, RootBlack
  <2>4. Fixing(lo2, hi2)'
    BY <2>2, <2>3, <1>1, <1>4 DEF Fixing
  <2>. QED  BY <2>1, <2>4, <1>1 DEF Search, Adding, Finding
<1>. QED  BY <1>1, <1>7, <1>8, <1>9, <1>10, <1>11 DEF TreeInv

(* A rotation changes no child of the nodes outside of the tree.           *)
LEMMA LeftRotationRest ==
  ASSUME NEW N, NEW r, NEW s, Linked(N, r, s), NEW a \in N \cup {Top},
         NEW n \in Node \ N
  PROVE  /\ LeftRotation(s, r, a).links.left[n] = s.left[n]
         /\ LeftRotation(s, r, a).links.right[n] = s.right[n]
<1>1. CASE a = Top \/ s.right[a] = Nil
  BY <1>1 DEF LeftRotation, Rotated, IsNull
<1>2. CASE a # Top /\ s.right[a] # Nil
  <2>1. a \in N /\ a \in Node /\ s \in Links /\ s.right[a] \in N
        /\ (s.parent[a] \in N \/ s.parent[a] = Top)
    BY <1>2 DEF Linked
  <2>2. LeftTurned(s, r, a, s.right[a],
                   LeftRotation(s, r, a).links, LeftRotation(s, r, a).root)
    BY <1>2, <2>1, LeftRotationTurns
  <2>. QED  BY <2>1, <2>2, TreeAssumption DEF LeftTurned
<1>. QED  BY <1>1, <1>2
LEMMA RightRotationRest ==
  ASSUME NEW N, NEW r, NEW s, Linked(N, r, s), NEW a \in N \cup {Top},
         NEW n \in Node \ N
  PROVE  /\ RightRotation(s, r, a).links.right[n] = s.right[n]
         /\ RightRotation(s, r, a).links.left[n] = s.left[n]
<1>1. CASE a = Top \/ s.left[a] = Nil
  BY <1>1 DEF RightRotation, Rotated, IsNull
<1>2. CASE a # Top /\ s.left[a] # Nil
  <2>1. a \in N /\ a \in Node /\ s \in Links /\ s.left[a] \in N
        /\ (s.parent[a] \in N \/ s.parent[a] = Top)
    BY <1>2 DEF Linked
  <2>2. RightTurned(s, r, a, s.left[a],
                   RightRotation(s, r, a).links, RightRotation(s, r, a).root)
    BY <1>2, <2>1, RightRotationTurns
  <2>. QED  BY <2>1, <2>2, TreeAssumption DEF RightTurned
<1>. QED  BY <1>1, <1>2

-----------------------------------------------------------------------------
(* In the loop of tree_add_check: the root is black, so that a coloured    *)
(* parent is not the root.                                                 *)
LEMMA CheckingFacts ==
  ASSUME TreeInv, Checking
  PROVE  /\ x \in nodes /\ p \in nodes /\ g \in nodes /\ node \in nodes
         /\ x # root /\ p # root /\ ~red[root] /\ t.parent[x] = p /\ t.parent[p] = g
         /\ \E lo, hi : /\ Spanned(nodes, root, t, key, lo, hi) /\ Fixing(lo, hi)
                        /\ lo[x] <= lo[node] /\ hi[node] <= hi[x]
<1>1. pc = "check" /\ x # root /\ red[p]
  BY DEF Checking
<1>2. PICK lo, hi : Spanned(nodes, root, t, key, lo, hi) /\ Fixing(lo, hi)
  BY DEF TreeInv, Search
<1>3. /\ x \in nodes /\ node \in nodes
      /\ lo[x] <= lo[node] /\ hi[node] <= hi[x] /\ ~red[root]
  BY <1>1, <1>2 DEF Fixing, p
<1>4. Linked(nodes, root, t)
  BY DEF TreeInv
<1>5. p \in nodes
  BY <1>1, <1>3, <1>4 DEF Linked, p
<1>6. p # root
  BY <1>1, <1>3
<1>7. g \in nodes
  BY <1>4, <1>5, <1>6 DEF Linked, g
<1>. QED  BY <1>1, <1>2, <1>3, <1>5, <1>6, <1>7 DEF p, g

LEMMA CheckRecolorKeeps ==
  ASSUME TreeInv, CheckRecolor
  PROVE  TreeInv'
<1>1. /\ Checking /\ red' = [red EXCEPT ![p] = FALSE, ![Uncle] = FALSE, ![g] = TRUE]
      /\ x' = g /\ nodes' = nodes /\ root' = root /\ t' = t /\ weak' = weak
      /\ key' = key /\ val' = val /\ pc' = pc /\ op' = op /\ y' = y /\ node' = node
  BY DEF CheckRecolor
<1>2. /\ x \in nodes /\ p \in nodes /\ g \in nodes /\ node \in nodes
      /\ x # root /\ p # root /\ ~red[root] /\ t.parent[x] = p /\ t.parent[p] = g
  BY <1>1, CheckingFacts
<1>3. PICK lo, hi : /\ Spanned(nodes, root, t, key, lo, hi) /\ Fixing(lo, hi)
                    /\ lo[x] <= lo[node] /\ hi[node] <= hi[x]
  BY <1>1, CheckingFacts
<1>4. TypeOK /\ Linked(nodes, root, t) /\ pc = "check" /\ nodes \subseteq Node /\ root \in nodes
  BY <1>1, <1>2, TreeTypes DEF TreeInv, Checking
<1> DEFINE e == Uncle
           h == g
           q == p
<1>5. red' = [red EXCEPT ![q] = FALSE, ![e] = FALSE, ![h] = TRUE] /\ h \in nodes /\ q \in nodes
  BY <1>1, <1>2
<1>6. h # Nil
  BY <1>2, <1>4, TreeAssumption
<1>. HIDE DEF e, h, q
<1>7. red' \in [Node \cup {Nil, Top} -> BOOLEAN] /\ ~red'[Nil]
  BY <1>4, <1>5, <1>6, TreeAssumption DEF TypeOK
<1>8. h # root => ~red'[root]
  BY <1>2, <1>4, <1>5 DEF TypeOK
<1>9. TypeOK'
  BY <1>1, <1>2, <1>4, <1>7 DEF TypeOK
<1>10. RootBlack' /\ ParentLinks' /\ ValuesBound' /\ Fresh'
  BY <1>1, <1>4 DEF TreeInv, RootBlack, ParentLinks, ValuesBound, Fresh
<1>11. lo[g] <= lo[node] /\ hi[node] <= hi[g]
  <2>1. \A n \in nodes : lo[n] \in Int /\ hi[n] \in Int /\ key[n] \in Int
                         /\ lo[n] < key[n] /\ key[n] < hi[n]
    BY <1>3, <1>4 DEF Spanned
  <2>2. /\ lo[p] <= lo[x] /\ hi[x] <= hi[p]
        /\ lo[g] <= lo[p] /\ hi[p] <= hi[g]
    BY <2>1, <1>2, <1>3, <1>4, ParentSpan
  <2>. QED  BY <2>1, <2>2, <1>2, <1>3
<1>12. Search'
  <2>1. Fixing(lo, hi)'
    BY <1>1, <1>2, <1>3, <1>4, <1>8, <1>11 DEF Fixing, h
  <2>. QED  BY <2>1, <1>1, <1>3, <1>4 DEF Search, Adding, Finding
<1>. QED  BY <1>1, <1>4, <1>9, <1>10, <1>12 DEF TreeInv

(* What case 3 leaves: the loop is at its end, under the black b.          *)
LEMMA Case3Keeps ==
  ASSUME TreeInv, Checking, NEW a \in nodes, NEW b \in nodes, NEW c \in nodes \cup {Top},
         b # c, NEW u, NEW v, Linked(nodes, v, u), Ordered(nodes, v, u, key),
         u.parent[a] = b, a # v,
         \A n \in Node \ nodes : u.left[n] = Nil /\ u.right[n] = Nil,
         x' = a, red' = [red EXCEPT ![b] = FALSE, ![c] = TRUE], t' = u, root' = v,
         UNCHANGED <<nodes, weak, key, val, pc, op, y, node, last>>
  PROVE  TreeInv'
<1>1. /\ nodes' = nodes /\ weak' = weak /\ key' = key /\ val' = val /\ pc' = pc /\ op' = op
      /\ y' = y /\ node' = node /\ pc = "check" /\ TypeOK /\ nodes \subseteq Node /\ node \in nodes
  BY CheckingFacts, TreeTypes DEF TreeInv, Checking
<1>2. /\ red' \in [Node \cup {Nil, Top} -> BOOLEAN] /\ ~red'[Nil] /\ ~red'[b]
  BY <1>1, TreeAssumption DEF TypeOK
<1>3. TypeOK'
  <2>1. u \in Links /\ v \in nodes
    BY DEF Linked
  <2>. QED  BY <2>1, <1>1, <1>2 DEF TypeOK, Links
<1>4. RootBlack' /\ ParentLinks' /\ ValuesBound' /\ Fresh'
  BY <1>1 DEF TreeInv, RootBlack, ParentLinks, ValuesBound, Fresh
<1>5. PICK lo, hi : Spanned(nodes', root', t', key', lo, hi)
  BY <1>1 DEF Ordered
<1>6. Search'
  <2>1. /\ op = [op |-> "add", key |-> op.key, val |-> op.val]
        /\ op.key \in Keys /\ op.val \in Vals
        /\ key[node] = op.key /\ val[node] = op.val
    BY <1>1 DEF TreeInv, Search, Fixing
  <2>2. Fixing(lo, hi)'
    BY <2>1, <1>1, <1>2 DEF Fixing
  <2>. QED  BY <2>2, <1>1, <1>5 DEF Search, Adding, Finding
<1>. QED  BY <1>1, <1>3, <1>4, <1>6 DEF TreeInv

LEMMA CheckRotateLeftKeeps ==
  ASSUME TreeInv, CheckRotateLeft
  PROVE  TreeInv'
<1> DEFINE case2 == x = t.right[p]
           first == IF case2 THEN LeftRotation(t, root, node) ELSE Rotated(t, root)
           a == IF case2 THEN p ELSE x
           b == first.links.parent[a]
           c == first.links.parent[b]
           last3 == RightRotation(first.links, first.root, c)
<1>1. /\ Checking /\ p = t.left[g]
      /\ x' = a /\ red' = [red EXCEPT ![b] = FALSE, ![c] = TRUE]
      /\ t' = last3.links /\ root' = last3.root
      /\ UNCHANGED <<nodes, weak, key, val, pc, op, y, node, last>>
  BY DEF CheckRotateLeft, Case3
<1>2. /\ x \in nodes /\ p \in nodes /\ g \in nodes /\ node \in nodes
      /\ x # root /\ p # root /\ t.parent[x] = p /\ t.parent[p] = g
  BY <1>1, CheckingFacts
<1>3. PICK lo, hi : /\ Spanned(nodes, root, t, key, lo, hi)
                    /\ lo[x] <= lo[node] /\ hi[node] <= hi[x]
  BY <1>1, CheckingFacts
<1>4. Linked(nodes, root, t)
  BY DEF TreeInv
<1>5. /\ Linked(nodes, first.root, first.links) /\ Ordered(nodes, first.root, first.links, key)
      /\ a \in nodes /\ b \in nodes /\ first.links.left[b] = a
      /\ \A n \in Node \ nodes : first.links.left[n] = Nil /\ first.links.right[n] = Nil
  <2>0. \A n \in Node \ nodes : t.left[n] = Nil /\ t.right[n] = Nil
    BY DEF TreeInv, Fresh
  <2>1. CASE case2
    <3>1. first = LeftRotation(t, root, node) /\ a = p
      BY <2>1
    <3>. HIDE DEF case2, first, a
    <3> DEFINE u == first.links
               v == first.root
    <3>2. u = LeftRotation(t, root, node).links /\ v = LeftRotation(t, root, node).root
      BY <3>1
    <3>. HIDE DEF u, v
    <3>3. /\ Linked(nodes, v, u) /\ Ordered(nodes, v, u, key)
          /\ u.parent[p] = g /\ (t.left[g] = p => u.left[g] = p)
      BY <3>2, <1>2, <1>3, <1>4, Case2Left
    <3>4. \A n \in Node \ nodes : u.left[n] = Nil /\ u.right[n] = Nil
      BY <2>0, <3>2, <1>2, <1>4, LeftRotationRest
    <3>. QED  BY <3>1, <3>3, <3>4, <1>1, <1>2 DEF u, v
  <2>2. CASE ~case2
    <3>1. first.links = t /\ first.root = root /\ a = x
      BY <2>2 DEF Rotated
    <3>2. t.left[p] = x
      BY <2>2, <1>2, <1>4 DEF Linked
    <3>. HIDE DEF case2, first, a
    <3>. QED  BY <2>0, <3>1, <3>2, <1>2, <1>3, <1>4 DEF Ordered
  <2>. QED  BY <2>1, <2>2
<1>. HIDE DEF case2, first, a
<1> DEFINE s == first.links
           r == first.root
           u == last3.links
           v == last3.root
<1>6. s.parent[a] = b /\ s.parent[b] = c /\ Linked(nodes, r, s) /\ Ordered(nodes, r, s, key)
      /\ a \in nodes /\ b \in nodes /\ s.left[b] = a
      /\ \A n \in Node \ nodes : s.left[n] = Nil /\ s.right[n] = Nil
  BY <1>5
<1>7. u = RightRotation(s, r, c).links /\ v = RightRotation(s, r, c).root
  OBVIOUS
<1>. HIDE DEF s, r, b, c
<1>8. a # r
  BY <1>6, TreeAssumption DEF Linked
<1>9. c \in nodes \cup {Top} /\ b # c
  <2>1. CASE b = r
    BY <2>1, <1>6, TreeAssumption DEF Linked
  <2>2. CASE b # r
    BY <2>2, <1>6, ParentSpan DEF Ordered
  <2>. QED  BY <2>1, <2>2
<1>. HIDE DEF u, v
<1>10. /\ Linked(nodes, v, u) /\ Ordered(nodes, v, u, key)
       /\ u.parent[a] = b /\ a # v
  BY <1>6, <1>7, <1>9, Case3Right
<1>11. \A n \in Node \ nodes : u.left[n] = Nil /\ u.right[n] = Nil
  BY <1>6, <1>7, <1>9, RightRotationRest
<1>12. t' = u /\ root' = v
  BY <1>1 DEF u, v
<1>. QED  BY <1>1, <1>6, <1>9, <1>10, <1>11, <1>12, Case3Keeps

LEMMA CheckRotateRightKeeps ==
  ASSUME TreeInv, CheckRotateRight
  PROVE  TreeInv'
<1> DEFINE case2 == x = t.left[p]
           first == IF case2 THEN RightRotation(t, root, node) ELSE Rotated(t, root)
           a == IF case2 THEN p ELSE x
           b == first.links.parent[a]
           c == first.links.parent[b]
           last3 == LeftRotation(first.links, first.root, c)
<1>1. /\ Checking /\ p # t.left[g] /\ p = t.right[g]
      /\ x' = a /\ red' = [red EXCEPT ![b] = FALSE, ![c] = TRUE]
      /\ t' = last3.links /\ root' = last3.root
      /\ UNCHANGED <<nodes, weak, key, val, pc, op, y, node, last>>
  <2>1. Checking /\ p # t.left[g]
    BY DEF CheckRotateRight
  <2>2. p = t.right[g]
    BY <2>1, CheckingFacts DEF TreeInv, Linked
  <2>. QED  BY <2>1, <2>2 DEF CheckRotateRight, Case3
<1>2. /\ x \in nodes /\ p \in nodes /\ g \in nodes /\ node \in nodes
      /\ x # root /\ p # root /\ t.parent[x] = p /\ t.parent[p] = g
  BY <1>1, CheckingFacts
<1>3. PICK lo, hi : /\ Spanned(nodes, root, t, key, lo, hi)
                    /\ lo[x] <= lo[node] /\ hi[node] <= hi[x]
  BY <1>1, CheckingFacts
<1>4. Linked(nodes, root, t)
  BY DEF TreeInv
<1>5. /\ Linked(nodes, first.root, first.links) /\ Ordered(nodes, first.root, first.links, key)
      /\ a \in nodes /\ b \in nodes /\ first.links.right[b] = a
      /\ \A n \in Node \ nodes : first.links.right[n] = Nil /\ first.links.left[n] = Nil
  <2>0. \A n \in Node \ nodes : t.right[n] = Nil /\ t.left[n] = Nil
    BY DEF TreeInv, Fresh
  <2>1. CASE case2
    <3>1. first = RightRotation(t, root, node) /\ a = p
      BY <2>1
    <3>. HIDE DEF case2, first, a
    <3> DEFINE u == first.links
               v == first.root
    <3>2. u = RightRotation(t, root, node).links /\ v = RightRotation(t, root, node).root
      BY <3>1
    <3>. HIDE DEF u, v
    <3>3. /\ Linked(nodes, v, u) /\ Ordered(nodes, v, u, key)
          /\ u.parent[p] = g /\ (t.right[g] = p => u.right[g] = p)
      BY <3>2, <1>2, <1>3, <1>4, Case2Right
    <3>4. \A n \in Node \ nodes : u.right[n] = Nil /\ u.left[n] = Nil
      BY <2>0, <3>2, <1>2, <1>4, RightRotationRest
    <3>. QED  BY <3>1, <3>3, <3>4, <1>1, <1>2 DEF u, v
  <2>2. CASE ~case2
    <3>1. first.links = t /\ first.root = root /\ a = x
      BY <2>2 DEF Rotated
    <3>2. t.right[p] = x
      BY <2>2, <1>2, <1>4 DEF Linked
    <3>. HIDE DEF case2, first, a
    <3>. QED  BY <2>0, <3>1, <3>2, <1>2, <1>3, <1>4 DEF Ordered
  <2>. QED  BY <2>1, <2>2
<1>. HIDE DEF case2, first, a
<1> DEFINE s == first.links
           r == first.root
           u == last3.links
           v == last3.root
<1>6. s.parent[a] = b /\ s.parent[b] = c /\ Linked(nodes, r, s) /\ Ordered(nodes, r, s, key)
      /\ a \in nodes /\ b \in nodes /\ s.right[b] = a
      /\ \A n \in Node \ nodes : s.right[n] = Nil /\ s.left[n] = Nil
  BY <1>5
<1>7. u = LeftRotation(s, r, c).links /\ v = LeftRotation(s, r, c).root
  OBVIOUS
<1>. HIDE DEF s, r, b, c
<1>8. a # r
  BY <1>6, TreeAssumption DEF Linked
<1>9. c \in nodes \cup {Top} /\ b # c
  <2>1. CASE b = r
    BY <2>1, <1>6, TreeAssumption DEF Linked
  <2>2. CASE b # r
    BY <2>2, <1>6, ParentSpan DEF Ordered
  <2>. QED  BY <2>1, <2>2
<1>. HIDE DEF u, v
<1>10. /\ Linked(nodes, v, u) /\ Ordered(nodes, v, u, key)
       /\ u.parent[a] = b /\ a # v
  BY <1>6, <1>7, <1>9, Case3Left
<1>11. \A n \in Node \ nodes : u.right[n] = Nil /\ u.left[n] = Nil
  BY <1>6, <1>7, <1>9, LeftRotationRest
<1>12. t' = u /\ root' = v
  BY <1>1 DEF u, v
<1>. QED  BY <1>1, <1>6, <1>9, <1>10, <1>11, <1>12, Case3Keeps


LEMMA CheckDoneKeeps ==
  ASSUME TreeInv, CheckDone
  PROVE  TreeInv'
<1>1. /\ pc = "check" /\ pc' = "idle" /\ op' = None /\ x' = Nil /\ y' = Nil /\ node' = Nil
      /\ red' = [red EXCEPT ![root] = FALSE] /\ weak' = [weak EXCEPT ![root] = FALSE]
      /\ nodes' = nodes /\ root' = root /\ t' = t /\ key' = key /\ val' = val
  BY DEF CheckDone, Return
<1>2. TypeOK /\ Linked(nodes, root, t) /\ root \in nodes /\ nodes \subseteq Node
  BY <1>1, TreeTypes DEF TreeInv, TypeOK
<1>3. PICK lo, hi : Spanned(nodes, root, t, key, lo, hi) /\ Fixing(lo, hi)
  BY DEF TreeInv, Search
<1>4. TypeOK'
  <2>1. red' \in [Node \cup {Nil, Top} -> BOOLEAN] /\ ~red'[Nil]
    BY <1>1, <1>2 DEF TypeOK
  <2>2. weak' \in [Node -> BOOLEAN]
    BY <1>1, <1>2 DEF TypeOK
  <2>. QED  BY <2>1, <2>2, <1>1, <1>2 DEF TypeOK
<1>5. RootBlack' /\ Fresh'
  BY <1>1, <1>2 DEF TreeInv, TypeOK, RootBlack, Fresh
<1>6. ParentLinks'
  BY <1>1, <1>2 DEF TreeInv, TypeOK, ParentLinks
<1>7. ValuesBound'
  BY <1>1 DEF TreeInv, ValuesBound
<1>8. Search'
  BY <1>1, <1>3 DEF Search, Adding, Finding, Fixing
<1>. QED  BY <1>1, <1>2, <1>4, <1>5, <1>6, <1>7, <1>8 DEF TreeInv

LEMMA CallFindKeeps ==
  ASSUME TreeInv, NEW o, CallFind(o), o.op \in {"upd", "get"}, o.key \in Keys,
         o.op = "upd" => o.val \in Vals
  PROVE  TreeInv'
<1>1. /\ pc = "idle" /\ pc' = "find" /\ op' = o /\ x' = root
      /\ nodes' = nodes /\ root' = root /\ t' = t /\ red' = red /\ weak' = weak
      /\ key' = key /\ val' = val /\ y' = y /\ node' = node
  BY DEF CallFind
<1>2. TypeOK /\ (nodes = {} => root = Top) /\ (nodes # {} => root \in nodes)
  BY TreeTypes DEF TreeInv
<1>3. TypeOK'
  BY <1>1, <1>2 DEF TypeOK
<1>4. RootBlack' /\ ParentLinks'
  BY <1>1 DEF TreeInv, RootBlack, ParentLinks
<1>5. ASSUME NEW lo, NEW hi, Spanned(nodes, root, t, key, lo, hi)
      PROVE  Adding(lo, hi)' /\ Finding(lo, hi)' /\ Fixing(lo, hi)'
  <2>1. 0 < o.key /\ o.key < MaxKey + 1
    BY TreeAssumption DEF Keys
  <2>2. nodes # {} => lo[root] = 0 /\ hi[root] = MaxKey + 1
    BY <1>5 DEF Spanned
  <2>3. Finding(lo, hi)'
    BY <2>1, <2>2, <1>1, <1>2 DEF Finding
  <2>. QED  BY <2>3, <1>1 DEF Adding, Fixing
<1>. QED  BY <1>1, <1>3, <1>4, <1>5, MoveKeeps

LEMMA FindDescendKeeps ==
  ASSUME TreeInv, FindDescend
  PROVE  TreeInv'
<1>1. /\ pc = "find" /\ pc' = "find" /\ ~IsNull(x) /\ key[x] # op.key
      /\ x' = IF key[x] >= op.key THEN t.left[x] ELSE t.right[x]
      /\ nodes' = nodes /\ root' = root /\ t' = t /\ red' = red /\ weak' = weak
      /\ key' = key /\ val' = val /\ op' = op /\ y' = y /\ node' = node
  BY DEF FindDescend
<1>2. /\ TypeOK /\ Linked(nodes, root, t) /\ x \in nodes /\ nodes \subseteq Node
      /\ Nil \notin nodes /\ key \in [Node -> Int]
  BY <1>1, TreeTypes DEF TreeInv, TypeOK, IsNull
<1>3. x' \in nodes \cup {Nil}
  BY <1>1, <1>2 DEF Linked
<1>4. TypeOK'
  BY <1>1, <1>2, <1>3 DEF TypeOK
<1>5. RootBlack' /\ ParentLinks'
  BY <1>1 DEF TreeInv, RootBlack, ParentLinks
<1>6. ASSUME NEW lo, NEW hi, Spanned(nodes, root, t, key, lo, hi), Finding(lo, hi)
      PROVE  Adding(lo, hi)' /\ Finding(lo, hi)' /\ Fixing(lo, hi)'
  <2>1. /\ op.op \in {"upd", "get"} /\ op.key \in Keys /\ (op.op = "upd" => op.val \in Vals)
        /\ lo[x] < op.key /\ op.key < hi[x]
    BY <1>1, <1>2, <1>6 DEF Finding
  <2>2. op.key \in Int /\ key[x] \in Int /\ lo[x] \in Int /\ hi[x] \in Int
    BY <2>1, <1>2, <1>6 DEF Keys, Spanned
  <2>3. /\ t.left[x] # Nil => lo[t.left[x]] = lo[x] /\ hi[t.left[x]] = key[x]
        /\ t.right[x] # Nil => lo[t.right[x]] = key[x] /\ hi[t.right[x]] = hi[x]
    BY <1>2, <1>6 DEF Spanned
  <2>4. \A n \in nodes : /\ t.left[x] = Nil => ~(lo[x] < key[n] /\ key[n] < key[x])
                         /\ t.right[x] = Nil => ~(key[x] < key[n] /\ key[n] < hi[x])
    BY <1>2, <1>6, SpanFacts
  <2>5. x' \in nodes => lo[x'] < op.key /\ op.key < hi[x']
    <3>1. CASE op.key < key[x]
      BY <3>1, <2>1, <2>2, <2>3, <1>1, <1>2
    <3>2. CASE op.key > key[x]
      BY <3>2, <2>1, <2>2, <2>3, <1>1, <1>2
    <3>. QED  BY <3>1, <3>2, <2>2, <1>1
  <2>6. x' \notin nodes => \A n \in nodes : key[n] # op.key
    <3>1. CASE op.key < key[x]
      BY <3>1, <2>1, <2>2, <2>4, <1>1, <1>3
    <3>2. CASE op.key > key[x]
      BY <3>2, <2>1, <2>2, <2>4, <1>1, <1>3
    <3>. QED  BY <3>1, <3>2, <2>2, <1>1
  <2>7. Finding(lo, hi)'
    BY <2>1, <2>5, <2>6, <1>1 DEF Finding
  <2>. QED  BY <2>7, <1>1 DEF Adding, Fixing
<1>. QED  BY <1>1, <1>4, <1>5, <1>6, MoveKeeps

LEMMA FindHitKeeps ==
  ASSUME TreeInv, FindHit
  PROVE  TreeInv'
<1>1. /\ pc = "find" /\ pc' = "idle" /\ ~IsNull(x)
      /\ op' = None /\ x' = Nil /\ y' = Nil /\ node' = Nil
      /\ nodes' = nodes /\ root' = root /\ t' = t /\ red' = red /\ weak' = weak /\ key' = key
      /\ val' = IF op.op = "upd" THEN [val EXCEPT ![x] = op.val] ELSE val
  BY DEF FindHit, Return
<1>2. TypeOK /\ x \in nodes /\ nodes \subseteq Node /\ Linked(nodes, root, t)
  BY <1>1, TreeTypes DEF TreeInv, TypeOK, IsNull
<1>3. PICK lo, hi : Spanned(nodes, root, t, key, lo, hi) /\ Finding(lo, hi)
  BY DEF TreeInv, Search
<1>4. op.op = "upd" => op.val \in Vals
  BY <1>1, <1>3 DEF Finding
<1>5. val' \in [Node -> Vals \cup {Missing}] /\ ValuesBound'
  BY <1>1, <1>2, <1>4 DEF TypeOK, TreeInv, ValuesBound
<1>6. TypeOK'
  BY <1>1, <1>2, <1>5 DEF TypeOK
<1>7. RootBlack' /\ ParentLinks' /\ Fresh'
  BY <1>1 DEF TreeInv, RootBlack, ParentLinks, Fresh
<1>8. Search'
  BY <1>1, <1>3 DEF Search, Adding, Finding, Fixing
<1>. QED  BY <1>1, <1>2, <1>5, <1>6, <1>7, <1>8 DEF TreeInv

LEMMA FindMissKeeps ==
  ASSUME TreeInv, FindMiss
  PROVE  TreeInv'
<1>1. /\ pc = "find" /\ pc' = "idle" /\ op' = None /\ x' = Nil /\ y' = Nil /\ node' = Nil
      /\ nodes' = nodes /\ root' = root /\ t' = t /\ red' = red /\ weak' = weak
      /\ key' = key /\ val' = val
  BY DEF FindMiss, Return
<1>2. TypeOK'
  BY <1>1 DEF TreeInv, TypeOK
<1>3. RootBlack' /\ ParentLinks'
  BY <1>1 DEF TreeInv, RootBlack, ParentLinks
<1>. QED  BY <1>1, <1>2, <1>3, MoveKeeps DEF Adding, Finding, Fixing

LEMMA NextTree == TreeInv /\ [Next]_vars => TreeInv'
<1>. SUFFICES ASSUME TreeInv, [Next]_vars  PROVE TreeInv'
  OBVIOUS
<1>1. ASSUME NEW k \in Keys, NEW v \in Vals, CallAdd(k, v)  PROVE TreeInv'
  BY <1>1, CallAddKeeps
<1>2. ASSUME NEW k \in Keys, NEW v \in Vals, CallUpd(k, v)  PROVE TreeInv'
  <2> DEFINE o == [op |-> "upd", key |-> k, val |-> v]
  <2>1. CallFind(o) /\ o.op = "upd" /\ o.key = k /\ o.val = v
    BY <1>2 DEF CallUpd
  <2>. HIDE DEF o
  <2>. QED  BY <2>1, CallFindKeeps
<1>3. ASSUME NEW k \in Keys, CallGet(k)  PROVE TreeInv'
  <2> DEFINE o == [op |-> "get", key |-> k]
  <2>1. CallFind(o) /\ o.op = "get" /\ o.key = k
    BY <1>3 DEF CallGet
  <2>. HIDE DEF o
  <2>. QED  BY <2>1, CallFindKeeps
<1>4. CASE Step
  BY <1>4, AddDescendKeeps, AddExistingKeeps, AddRootKeeps, AddLeafKeeps,
     CheckRecolorKeeps, CheckRotateLeftKeeps, CheckRotateRightKeeps, CheckDoneKeeps,
     FindDescendKeeps, FindHitKeeps, FindMissKeeps DEF Step
<1>5. CASE UNCHANGED vars
  BY <1>5 DEF vars, TreeInv, TypeOK, Fresh, RootBlack, ParentLinks, ValuesBound, Search,
     Adding, Finding, Fixing, p
<1>. QED  BY <1>1, <1>2, <1>3, <1>4, <1>5 DEF Next

-----------------------------------------------------------------------------
(* The children and the parents agree, whatever rotations were made.       *)
LEMMA TreeLinks == TreeInv => LinksAgree
<1>. SUFFICES ASSUME TreeInv  PROVE LinksAgree
  OBVIOUS
<1>1. TypeOK /\ Linked(nodes, root, t) /\ (nodes # {} => root \in nodes)
  BY TreeTypes DEF TreeInv
<1>2. PICK lo, hi : Spanned(nodes, root, t, key, lo, hi)
  BY DEF TreeInv, Search
<1>3. ASSUME NEW n \in nodes
      PROVE  IF n = root THEN t.parent[n] = Top
             ELSE /\ t.parent[n] \in nodes
                  /\ (t.left[t.parent[n]] = n) # (t.right[t.parent[n]] = n)
  <2>1. CASE n = root
    BY <2>1, <1>1 DEF Linked
  <2>2. CASE n # root
    <3>1. /\ t.parent[n] \in nodes
          /\ \/ t.left[t.parent[n]] = n /\ t.right[t.parent[n]] # n
             \/ t.right[t.parent[n]] = n /\ t.left[t.parent[n]] # n
      BY <2>2, <1>1, <1>2, ParentSpan
    <3>. QED  BY <3>1, <2>2
  <2>. QED  BY <2>1, <2>2
<1>4. ASSUME NEW n \in nodes, NEW c \in {t.left[n], t.right[n]} \ {Nil}
      PROVE  c \in nodes /\ t.parent[c] = n
  BY <1>1, <1>4 DEF Linked
<1>. QED  BY <1>1, <1>3, <1>4 DEF LinksAgree

(* The links agree with one another at every step of a rotation, of any    *)
(* number of nodes.                                                        *)
THEOREM TreeLinked == Spec => []LinksAgree
BY TreeLinks, InitTree, NextTree, PTL DEF Spec

(* tree_add_check always finds a grandparent to read.                      *)
THEOREM GrandparentFound == Spec => []GrandparentExists
<1>1. TreeInv => GrandparentExists
  BY CheckingFacts DEF GrandparentExists
<1>. QED  BY <1>1, InitTree, NextTree, PTL DEF Spec

(* Between two operations only the root owns its parent, the NIL Top.      *)
THEOREM OneStrongLink == Spec => []RootOwnsTop
<1>1. TreeInv => RootOwnsTop
  BY DEF TreeInv, ParentLinks, RootOwnsTop
<1>. QED  BY <1>1, InitTree, NextTree, PTL DEF Spec

-----------------------------------------------------------------------------
(* The dictionary of the nodes N with the keys k and the values v.         *)
MapOf(N, k, v) == [i \in Keys |-> IF \E n \in N : k[n] = i
                                  THEN v[CHOOSE n \in N : k[n] = i] ELSE Missing]

LEMMA MapOfNode ==
  ASSUME NEW N, NEW k, NEW v, NEW a \in N, k[a] \in Keys,
         \A n \in N : k[n] = k[a] => n = a
  PROVE  MapOf(N, k, v)[k[a]] = v[a]
<1>1. (CHOOSE n \in N : k[n] = k[a]) = a
  OBVIOUS
<1>. QED  BY <1>1 DEF MapOf

(* Nothing changes for a symbol whose node keeps its value.                *)
SameAt(N, k, v, M, j, w, i) ==
  /\ \A n \in N : k[n] = i => n \in M /\ j[n] = i /\ w[n] = v[n]
  /\ \A n \in M : j[n] = i => n \in N /\ k[n] = i

LEMMA MapOfRest ==
  ASSUME NEW N, NEW M, NEW k, NEW j, NEW v, NEW w, NEW i \in Keys,
         SameAt(N, k, v, M, j, w, i)
  PROVE  MapOf(M, j, w)[i] = MapOf(N, k, v)[i]
<1>0. /\ \A n \in N : k[n] = i => n \in M /\ j[n] = i /\ w[n] = v[n]
      /\ \A n \in M : j[n] = i => n \in N /\ k[n] = i
  BY DEF SameAt
<1>1. CASE \E n \in N : k[n] = i
  <2>1. (CHOOSE n \in N : k[n] = i) = CHOOSE n \in M : j[n] = i
    <3>1. \A n : (n \in N /\ k[n] = i) <=> (n \in M /\ j[n] = i)
      BY <1>0
    <3>. QED  BY <3>1
  <2>2. \E n \in M : j[n] = i
    BY <1>0, <1>1
  <2> DEFINE c == CHOOSE n \in N : k[n] = i
  <2>3. c \in N /\ k[c] = i
    BY <1>1
  <2>4. w[c] = v[c]
    BY <1>0, <2>3
  <2>. QED  BY <1>1, <2>1, <2>2, <2>4 DEF MapOf
<1>2. CASE ~\E n \in N : k[n] = i
  BY <1>0, <1>2 DEF MapOf
<1>. QED  BY <1>1, <1>2

LEMMA MapOfFunction ==
  ASSUME NEW N, NEW k, NEW v
  PROVE  MapOf(N, k, v) = [i \in Keys |-> MapOf(N, k, v)[i]]
BY DEF MapOf

LEMMA MapOfSame ==
  ASSUME NEW N, NEW k, NEW j, NEW v, NEW w,
         \A n \in N : j[n] = k[n] /\ w[n] = v[n]
  PROVE  MapOf(N, j, w) = MapOf(N, k, v)
<1>1. ASSUME NEW i \in Keys  PROVE MapOf(N, j, w)[i] = MapOf(N, k, v)[i]
  <2>1. SameAt(N, k, v, N, j, w, i)
    BY DEF SameAt
  <2>. QED  BY <2>1, MapOfRest
<1>2. /\ MapOf(N, j, w) = [i \in Keys |-> MapOf(N, j, w)[i]]
      /\ MapOf(N, k, v) = [i \in Keys |-> MapOf(N, k, v)[i]]
  BY MapOfFunction
<1>. QED  BY <1>1, <1>2

(* A binding that is added or changed.                                     *)
Binds(N, k, v, M, j, w, a, i, o) ==
  /\ M = N \cup {a} /\ j[a] = i /\ w[a] = o
  /\ \A n \in N : j[n] = k[n] /\ (n # a => w[n] = v[n])
  /\ \A n \in M : j[n] = i => n = a

LEMMA MapOfAdd ==
  ASSUME NEW N, NEW M, NEW k, NEW j, NEW v, NEW w, NEW a, NEW i \in Keys, NEW o,
         Binds(N, k, v, M, j, w, a, i, o)
  PROVE  MapOf(M, j, w) = [MapOf(N, k, v) EXCEPT ![i] = o]
<1>0. /\ M = N \cup {a} /\ j[a] = i /\ w[a] = o
      /\ \A n \in N : j[n] = k[n] /\ (n # a => w[n] = v[n])
      /\ \A n \in M : j[n] = i => n = a
  BY DEF Binds
<1>1. MapOf(M, j, w)[i] = o
  BY <1>0, MapOfNode
<1>2. ASSUME NEW h \in Keys, h # i
      PROVE  MapOf(M, j, w)[h] = MapOf(N, k, v)[h]
  <2>1. SameAt(N, k, v, M, j, w, h)
    BY <1>0, <1>2 DEF SameAt
  <2>. QED  BY <2>1, MapOfRest
<1>3. /\ MapOf(M, j, w) = [h \in Keys |-> MapOf(M, j, w)[h]]
      /\ MapOf(N, k, v) = [h \in Keys |-> MapOf(N, k, v)[h]]
  BY MapOfFunction
<1> DEFINE P == MapOf(M, j, w)
           Q == MapOf(N, k, v)
<1>. HIDE DEF P, Q
<1>4. P = [h \in Keys |-> P[h]] /\ Q = [h \in Keys |-> Q[h]] /\ P[i] = o
  BY <1>1, <1>3 DEF P, Q
<1>5. \A h \in Keys : h # i => P[h] = Q[h]
  BY <1>2 DEF P, Q
<1>6. [Q EXCEPT ![i] = o] = [h \in Keys |-> IF h = i THEN o ELSE Q[h]]
  BY <1>4
<1>7. P = [h \in Keys |-> IF h = i THEN o ELSE Q[h]]
  BY <1>4, <1>5
<1>. QED  BY <1>6, <1>7 DEF P, Q

LEMMA DictMap == Dict = MapOf(Bound, key, val)
BY DEF Dict, MapOf

LEMMA DictMapNext == Dict' = MapOf(Bound', key', val')
BY DEF Dict, MapOf

(* Two nodes have two keys, and each is a symbol.                          *)
LEMMA KeysDiffer ==
  ASSUME TreeInv
  PROVE  \A n \in nodes : key[n] \in Keys /\ \A m \in nodes : key[m] = key[n] => m = n
<1>1. PICK lo, hi : Spanned(nodes, root, t, key, lo, hi)
  BY DEF TreeInv, Search
<1>2. Linked(nodes, root, t)
  BY DEF TreeInv
<1>3. \A n \in nodes : key[n] \in Keys
  BY <1>1, <1>2, TreeAssumption DEF Linked, Spanned, Keys
<1>. QED  BY <1>1, <1>2, <1>3, SpanFacts

(* Steps that leave the bindings as they are.                              *)
LEMMA SameBindings ==
  ASSUME Bound' = Bound, last' = last,
         \A n \in Bound : key'[n] = key[n] /\ val'[n] = val[n]
  PROVE  UNCHANGED Map!vars
<1>1. Dict' = Dict
  BY DictMap, DictMapNext, MapOfSame
<1>. QED  BY <1>1 DEF Map!vars

LEMMA CallAddMaps ==
  ASSUME TreeInv, NEW k \in Keys, NEW v \in Vals, CallAdd(k, v)
  PROVE  UNCHANGED Map!vars
<1> DEFINE n == CHOOSE m \in Node \ nodes : TRUE
<1>1. n \in Node \ nodes
  BY DEF CallAdd
<1>2. /\ pc = "idle" /\ pc' = "add" /\ nodes' = nodes /\ last' = last
      /\ key' = [key EXCEPT ![n] = k] /\ val' = [val EXCEPT ![n] = v]
  BY DEF CallAdd
<1>. HIDE DEF n
<1>3. TypeOK
  BY DEF TreeInv
<1>4. Bound' = nodes /\ Bound = nodes
  BY <1>2 DEF Bound
<1>5. \A m \in nodes : key'[m] = key[m] /\ val'[m] = val[m]
  BY <1>1, <1>2, <1>3 DEF TypeOK
<1>. QED  BY <1>2, <1>4, <1>5, SameBindings

LEMMA LinkMaps ==
  ASSUME TreeInv, AddRoot \/ AddLeaf
  PROVE  UNCHANGED Map!vars
<1>1. /\ pc = "add" /\ pc' = "check" /\ nodes' = nodes \cup {node} /\ node' = node
      /\ key' = key /\ val' = val /\ last' = last
  BY DEF AddRoot, AddLeaf
<1>2. node \notin nodes
  BY <1>1 DEF TreeInv, Search, Adding
<1>3. Bound' = Bound
  BY <1>1, <1>2 DEF Bound
<1>. QED  BY <1>1, <1>3, SameBindings

(* The loops do not bind anything.                                         *)
LEMMA LoopMaps ==
  ASSUME \/ AddDescend \/ FindDescend
         \/ CheckRecolor \/ CheckRotateLeft \/ CheckRotateRight
         \/ \E o : CallFind(o)
  PROVE  UNCHANGED Map!vars
<1>1. CASE AddDescend \/ FindDescend
  <2>1. pc' = pc /\ nodes' = nodes /\ node' = node /\ key' = key /\ val' = val /\ last' = last
    BY <1>1 DEF AddDescend, FindDescend
  <2>2. Bound' = Bound
    BY <2>1 DEF Bound
  <2>. QED  BY <2>1, <2>2, SameBindings
<1>2. CASE CheckRecolor \/ CheckRotateLeft \/ CheckRotateRight
  <2>1. pc' = pc /\ nodes' = nodes /\ node' = node /\ key' = key /\ val' = val /\ last' = last
    BY <1>2 DEF CheckRecolor, CheckRotateLeft, CheckRotateRight
  <2>2. Bound' = Bound
    BY <2>1 DEF Bound
  <2>. QED  BY <2>1, <2>2, SameBindings
<1>3. ASSUME NEW o, CallFind(o)
      PROVE  UNCHANGED Map!vars
  <2>1. /\ pc = "idle" /\ pc' = "find" /\ nodes' = nodes /\ key' = key /\ val' = val
        /\ last' = last
    BY <1>3 DEF CallFind
  <2>2. Bound' = Bound
    BY <2>1 DEF Bound
  <2>. QED  BY <2>1, <2>2, SameBindings
<1>. QED  BY <1>1, <1>2, <1>3

(* An insertion takes effect when the key is found, or at its end.         *)
LEMMA AddExistingMaps ==
  ASSUME TreeInv, AddExisting
  PROVE  Map!Next
<1>1. /\ pc = "add" /\ pc' = "idle" /\ ~IsNull(x) /\ key[node] = key[x]
      /\ nodes' = nodes /\ last' = op
      /\ val' = [val EXCEPT ![x] = val[node], ![node] = Missing]
      /\ key' = [key EXCEPT ![node] = 0]
  BY DEF AddExisting, Return
<1>2. TypeOK /\ x \in nodes /\ nodes \subseteq Node
  BY <1>1, TreeTypes DEF TreeInv, TypeOK, IsNull
<1>3. /\ node \in Node \ nodes /\ op = [op |-> "add", key |-> op.key, val |-> op.val]
      /\ op.key \in Keys /\ op.val \in Vals /\ key[node] = op.key /\ val[node] = op.val
  BY <1>1 DEF TreeInv, Search, Adding
<1>4. \A n \in nodes : /\ key'[n] = key[n]
                       /\ val'[n] = IF n = x THEN op.val ELSE val[n]
  BY <1>1, <1>2, <1>3 DEF TypeOK
<1>5. Bound = nodes /\ Bound' = nodes
  BY <1>1 DEF Bound
<1>6. Dict' = [Dict EXCEPT ![op.key] = op.val]
  <2>1. nodes = nodes \cup {x} /\ key'[x] = op.key /\ val'[x] = op.val
    BY <1>1, <1>2, <1>3, <1>4
  <2>2. \A n \in nodes : key'[n] = op.key => n = x
    BY <2>1, <1>2, <1>4, KeysDiffer
  <2>3. \A n \in nodes : key'[n] = key[n] /\ (n # x => val'[n] = val[n])
    BY <1>4
  <2>4. Binds(nodes, key, val, nodes, key', val', x, op.key, op.val)
    BY <2>1, <2>2, <2>3 DEF Binds
  <2>5. MapOf(nodes, key', val') = [MapOf(nodes, key, val) EXCEPT ![op.key] = op.val]
    BY <2>4, <1>3, MapOfAdd
  <2>. QED  BY <2>5, <1>5, DictMap, DictMapNext
<1>7. Map!Add(op.key, op.val)
  BY <1>1, <1>3, <1>6 DEF Map!Add
<1>. QED  BY <1>3, <1>7 DEF Map!Next

LEMMA CheckDoneMaps ==
  ASSUME TreeInv, CheckDone
  PROVE  Map!Next
<1>1. /\ pc = "check" /\ pc' = "idle" /\ nodes' = nodes /\ last' = op
      /\ key' = key /\ val' = val
  BY DEF CheckDone, Return
<1>2. /\ node \in nodes /\ op = [op |-> "add", key |-> op.key, val |-> op.val]
      /\ op.key \in Keys /\ op.val \in Vals /\ key[node] = op.key /\ val[node] = op.val
  BY <1>1 DEF TreeInv, Search, Fixing
<1>3. Bound = nodes \ {node} /\ Bound' = nodes
  BY <1>1 DEF Bound
<1>4. Dict' = [Dict EXCEPT ![op.key] = op.val]
  <2>1. nodes = (nodes \ {node}) \cup {node}
    BY <1>2
  <2>2. \A n \in nodes : key[n] = op.key => n = node
    BY <1>2, KeysDiffer
  <2>3. Binds(nodes \ {node}, key, val, nodes, key, val, node, op.key, op.val)
    BY <2>1, <2>2, <1>2 DEF Binds
  <2>4. MapOf(nodes, key, val) = [MapOf(nodes \ {node}, key, val) EXCEPT ![op.key] = op.val]
    BY <2>3, <1>2, MapOfAdd
  <2>. QED  BY <2>4, <1>1, <1>3, DictMap, DictMapNext
<1>5. Map!Add(op.key, op.val)
  BY <1>1, <1>2, <1>4 DEF Map!Add
<1>. QED  BY <1>2, <1>5 DEF Map!Next

(* A search returns what the dictionary holds.                             *)
LEMMA FindMaps ==
  ASSUME TreeInv, FindHit \/ FindMiss
  PROVE  Map!Next
<1>1. pc = "find" /\ pc' = "idle" /\ nodes' = nodes /\ key' = key
  BY DEF FindHit, FindMiss, Return
<1>2. /\ op.op \in {"upd", "get"} /\ op.key \in Keys
      /\ op.op = "upd" => op.val \in Vals
      /\ x \notin nodes => \A n \in nodes : key[n] # op.key
  BY <1>1 DEF TreeInv, Search, Finding
<1>3. Bound = nodes /\ Bound' = nodes
  BY <1>1 DEF Bound
<1>4. TypeOK /\ nodes \subseteq Node /\ (IsNull(x) <=> x \notin nodes)
  BY TreeTypes DEF TreeInv, TypeOK
<1>5. CASE FindHit
  <2>1. /\ x \in nodes /\ key[x] = op.key
        /\ val' = IF op.op = "upd" THEN [val EXCEPT ![x] = op.val] ELSE val
        /\ last' = [op |-> op.op, key |-> op.key, res |-> val[x]]
    BY <1>4, <1>5 DEF FindHit, Return, Result
  <2>2. Dict[op.key] = val[x] /\ val[x] # Missing
    <3>1. \A n \in nodes : key[n] = key[x] => n = x
      BY <2>1, KeysDiffer
    <3>2. MapOf(nodes, key, val)[key[x]] = val[x]
      BY <3>1, <2>1, <1>2, MapOfNode
    <3>3. val[x] \in Vals
      BY <2>1 DEF TreeInv, ValuesBound
    <3>. QED  BY <3>2, <3>3, <2>1, <1>3, DictMap, TreeAssumption
  <2>3. CASE op.op = "upd"
    <3>1. \A n \in nodes : val'[n] = IF n = x THEN op.val ELSE val[n]
      BY <2>1, <2>3, <1>4 DEF TypeOK
    <3>2. \A n \in nodes : key[n] = op.key => n = x
      BY <2>1, KeysDiffer
    <3>3. ASSUME NEW w, w = val'
          PROVE  MapOf(nodes, key, w) = [MapOf(nodes, key, val) EXCEPT ![op.key] = op.val]
      <4>1. nodes = nodes \cup {x} /\ w[x] = op.val /\ key[x] = op.key
        BY <3>1, <3>3, <2>1
      <4>2. Binds(nodes, key, val, nodes, key, w, x, op.key, op.val)
        BY <3>1, <3>2, <3>3, <4>1 DEF Binds
      <4>3. op.key \in Keys
        BY <1>2
      <4>. QED  BY <4>2, <4>3, MapOfAdd
    <3>4. MapOf(nodes, key, val') = [MapOf(nodes, key, val) EXCEPT ![op.key] = op.val]
      BY <3>3
    <3>5. Dict' = [Dict EXCEPT ![op.key] = op.val]
      BY <3>4, <1>1, <1>3, DictMap, DictMapNext
    <3>6. Map!Upd(op.key, op.val)
      BY <3>5, <2>1, <2>2, <2>3 DEF Map!Upd
    <3>. QED  BY <3>6, <2>3, <1>2 DEF Map!Next
  <2>4. CASE op.op = "get"
    <3>1. Dict' = Dict
      BY <2>1, <2>4, <1>1, <1>3, DictMap, DictMapNext
    <3>2. Map!Get(op.key)
      BY <3>1, <2>1, <2>2, <2>4 DEF Map!Get
    <3>. QED  BY <3>2, <1>2 DEF Map!Next
  <2>. QED  BY <2>3, <2>4, <1>2
<1>6. CASE FindMiss
  <2>1. /\ x \notin nodes /\ val' = val
        /\ last' = [op |-> op.op, key |-> op.key, res |-> Missing]
    BY <1>4, <1>6 DEF FindMiss, Return, Result
  <2>2. Dict[op.key] = Missing
    BY <2>1, <1>2, <1>3 DEF Dict
  <2>3. Dict' = Dict
    BY <2>1, <1>1, <1>3, DictMap, DictMapNext
  <2>4. CASE op.op = "upd"
    <3>1. Map!Upd(op.key, op.val)
      BY <2>1, <2>2, <2>3, <2>4 DEF Map!Upd
    <3>. QED  BY <3>1, <2>4, <1>2 DEF Map!Next
  <2>5. CASE op.op = "get"
    <3>1. Map!Get(op.key)
      BY <2>1, <2>2, <2>3, <2>5 DEF Map!Get
    <3>. QED  BY <3>1, <1>2 DEF Map!Next
  <2>. QED  BY <2>4, <2>5, <1>2
<1>. QED  BY <1>5, <1>6

LEMMA NextMaps == TreeInv /\ [Next]_vars => [Map!Next]_Map!vars
<1>. SUFFICES ASSUME TreeInv, [Next]_vars  PROVE Map!Next \/ UNCHANGED Map!vars
  OBVIOUS
<1>1. ASSUME NEW k \in Keys, NEW v \in Vals, CallAdd(k, v)  PROVE UNCHANGED Map!vars
  BY <1>1, CallAddMaps
<1>2. ASSUME NEW k \in Keys, NEW v, CallUpd(k, v) \/ CallGet(k)  PROVE UNCHANGED Map!vars
  BY <1>2, LoopMaps DEF CallUpd, CallGet
<1>3. CASE Step
  BY <1>3, LoopMaps, LinkMaps, AddExistingMaps, CheckDoneMaps, FindMaps DEF Step
<1>4. CASE UNCHANGED vars
  <2>1. Bound' = Bound /\ key' = key /\ val' = val /\ last' = last
    BY <1>4 DEF vars, Bound
  <2>. QED  BY <2>1, SameBindings
<1>. QED  BY <1>1, <1>2, <1>3, <1>4 DEF Next

LEMMA InitMaps == Init => Map!Init
BY DEF Init, Map!Init, Dict, Bound, None

(* The tree is a dictionary: lisp_tree_add binds, lisp_tree_upd changes    *)
(* what is bound, and both searches return what was bound last, whatever   *)
(* the tree had to rotate in between.                                      *)
THEOREM TreeIsMap == Spec => MapSpec
BY InitTree, NextTree, InitMaps, NextMaps, PTL DEF Spec, MapSpec, Map!Spec

-----------------------------------------------------------------------------
(* A visit below n lists the keys of the subtree of n.  A node outside of  *)
(* the tree is a subtree of its own.                                       *)
Held(n, lo, hi) == {m \in nodes : lo[n] < key[m] /\ key[m] < hi[n]}

Below(n, lo, hi) == IF n \in nodes THEN {key[m] : m \in Held(n, lo, hi)}
                    ELSE IF n \in Node THEN {key[n]} ELSE {}

LEMMA BelowIs ==
  ASSUME NEW lo, NEW hi, NEW n \in nodes, NEW e
  PROVE  e \in Below(n, lo, hi) <=>
           \E m \in nodes : key[m] = e /\ lo[n] < e /\ e < hi[n]
BY DEF Below, Held

LEMMA BelowSplit ==
  ASSUME TreeInv, NEW lo, NEW hi, Spanned(nodes, root, t, key, lo, hi), NEW n \in Node
  PROVE  /\ Below(n, lo, hi) =
              Below(t.left[n], lo, hi) \cup {key[n]} \cup Below(t.right[n], lo, hi)
         /\ \A e \in Below(t.left[n], lo, hi) : e < key[n]
         /\ \A e \in Below(t.right[n], lo, hi) : key[n] < e
<1>1. /\ Linked(nodes, root, t) /\ nodes \subseteq Node /\ Nil \notin nodes
      /\ Nil \notin Node
  BY TreeTypes, TreeAssumption DEF TreeInv
<1>2. Below(Nil, lo, hi) = {}
  BY <1>1 DEF Below
<1>3. CASE n \notin nodes
  <2>1. t.left[n] = Nil /\ t.right[n] = Nil
    BY <1>3 DEF TreeInv, Fresh
  <2>2. Below(n, lo, hi) = {key[n]}
    BY <1>3 DEF Below
  <2>. QED  BY <2>1, <2>2, <1>2
<1>4. CASE n \in nodes
  <2>1. \A m \in nodes : /\ lo[m] \in Int /\ hi[m] \in Int /\ key[m] \in Int
                         /\ lo[m] < key[m] /\ key[m] < hi[m]
    BY <1>1 DEF Spanned
  <2>2. \A m \in nodes : /\ key[m] = key[n] => m = n
                         /\ t.left[n] = Nil => ~(lo[n] < key[m] /\ key[m] < key[n])
                         /\ t.right[n] = Nil => ~(key[n] < key[m] /\ key[m] < hi[n])
    BY <1>1, <1>4, SpanFacts
  <2>3. \A e : e \in Below(t.left[n], lo, hi) <=>
                 \E m \in nodes : key[m] = e /\ lo[n] < e /\ e < key[n]
    <3>1. CASE t.left[n] = Nil
      BY <3>1, <1>2, <2>2
    <3>2. CASE t.left[n] # Nil
      <4>1. /\ t.left[n] \in nodes
            /\ lo[t.left[n]] = lo[n] /\ hi[t.left[n]] = key[n]
        BY <3>2, <1>1, <1>4 DEF Linked, Spanned
      <4>. QED  BY <4>1, BelowIs
    <3>. QED  BY <3>1, <3>2
  <2>4. \A e : e \in Below(t.right[n], lo, hi) <=>
                 \E m \in nodes : key[m] = e /\ key[n] < e /\ e < hi[n]
    <3>1. CASE t.right[n] = Nil
      BY <3>1, <1>2, <2>2
    <3>2. CASE t.right[n] # Nil
      <4>1. /\ t.right[n] \in nodes
            /\ lo[t.right[n]] = key[n] /\ hi[t.right[n]] = hi[n]
        BY <3>2, <1>1, <1>4 DEF Linked, Spanned
      <4>. QED  BY <4>1, BelowIs
    <3>. QED  BY <3>1, <3>2
  <2>5. \A e : e \in Below(n, lo, hi) <=>
                 \E m \in nodes : key[m] = e /\ lo[n] < e /\ e < hi[n]
    BY <1>4, BelowIs
  <2>6. ASSUME NEW e
        PROVE  e \in Below(n, lo, hi) <=>
                 e \in Below(t.left[n], lo, hi) \cup {key[n]} \cup Below(t.right[n], lo, hi)
    <3>1. ASSUME e \in Below(n, lo, hi)
          PROVE  e \in Below(t.left[n], lo, hi) \cup {key[n]} \cup Below(t.right[n], lo, hi)
      <4>1. PICK m \in nodes : key[m] = e /\ lo[n] < e /\ e < hi[n]
        BY <3>1, <2>5
      <4>2. CASE e < key[n]
        BY <4>1, <4>2, <2>3
      <4>3. CASE e > key[n]
        BY <4>1, <4>3, <2>4, <2>1, <1>4
      <4>. QED  BY <4>1, <4>2, <4>3, <2>1, <1>4
    <3>2. e \in Below(t.left[n], lo, hi) => e \in Below(n, lo, hi)
      <4>. SUFFICES ASSUME e \in Below(t.left[n], lo, hi)  PROVE e \in Below(n, lo, hi)
        OBVIOUS
      <4>1. PICK m \in nodes : key[m] = e /\ lo[n] < e /\ e < key[n]
        BY <2>3
      <4>. QED  BY <4>1, <2>1, <2>5, <1>4
    <3>3. e \in Below(t.right[n], lo, hi) => e \in Below(n, lo, hi)
      <4>. SUFFICES ASSUME e \in Below(t.right[n], lo, hi)  PROVE e \in Below(n, lo, hi)
        OBVIOUS
      <4>1. PICK m \in nodes : key[m] = e /\ key[n] < e /\ e < hi[n]
        BY <2>4
      <4>. QED  BY <4>1, <2>1, <2>5, <1>4
    <3>4. key[n] \in Below(n, lo, hi)
      BY <2>1, <2>5, <1>4
    <3>. QED  BY <3>1, <3>2, <3>3, <3>4
  <2>7. Below(n, lo, hi) =
          Below(t.left[n], lo, hi) \cup {key[n]} \cup Below(t.right[n], lo, hi)
    BY <2>6
  <2>. QED  BY <2>3, <2>4, <2>7
<1>. QED  BY <1>3, <1>4

(* Where the children have their lists, so has the node.                   *)
LEMMA ListAt ==
  ASSUME TreeInv, NEW lo, NEW hi, Spanned(nodes, root, t, key, lo, hi), NEW n \in Node,
         NEW a, NEW b, Lists(a, Below(t.left[n], lo, hi)), Lists(b, Below(t.right[n], lo, hi))
  PROVE  Lists(a \o <<key[n]>> \o b, Below(n, lo, hi))
<1>1. key[n] \in Int
  BY TreeTypes DEF TreeInv
<1> DEFINE A == Below(t.left[n], lo, hi)
           B == Below(t.right[n], lo, hi)
<1>2. /\ Below(n, lo, hi) = A \cup {key[n]} \cup B
      /\ \A e \in A : e < key[n]
      /\ \A e \in B : key[n] < e
  BY BelowSplit
<1>3. Lists(a, A) /\ Lists(b, B)
  OBVIOUS
<1>. HIDE DEF A, B
<1>4. Lists(a \o <<key[n]>> \o b, A \cup {key[n]} \cup B)
  BY <1>1, <1>2, <1>3, ListJoin
<1>. QED  BY <1>2, <1>4

LEMMA ListSome ==
  ASSUME TreeInv, NEW lo, NEW hi, Spanned(nodes, root, t, key, lo, hi),
         NEW n \in Node \cup {Nil, Top}
  PROVE  \E s : Lists(s, Below(n, lo, hi))
<1>1. CASE n \in nodes
  <2>1. Below(n, lo, hi) \in SUBSET (1..MaxKey)
    <3>1. \A m \in nodes : key[m] \in 1..MaxKey
      BY KeysDiffer DEF Keys
    <3>. QED  BY <3>1, <1>1, BelowIs
  <2>. QED  BY <2>1, SomeList, TreeAssumption
<1>2. CASE n \in Node \ nodes
  <2>1. t.left[n] = Nil /\ t.right[n] = Nil
    BY <1>2 DEF TreeInv, Fresh
  <2>2. Below(Nil, lo, hi) = {}
    BY TreeTypes, TreeAssumption DEF TreeInv, Below
  <2>3. Lists(<< >> \o <<key[n]>> \o << >>, Below(n, lo, hi))
    BY <2>1, <2>2, <1>2, ListAt, EmptyList
  <2>. QED  BY <2>3
<1>3. CASE n \in {Nil, Top}
  <2>1. Below(n, lo, hi) = {}
    BY <1>3, TreeTypes, TreeAssumption DEF TreeInv, Below
  <2>. QED  BY <2>1, EmptyList
<1>. QED  BY <1>1, <1>2, <1>3

(* The recursion of lisp_tree_dfs ends: a function satisfies its equation. *)
Visits(f) == f = [n \in Node \cup {Nil, Top} |->
                    IF IsNull(n) THEN << >>
                    ELSE f[t.left[n]] \o <<key[n]>> \o f[t.right[n]]]

LEMMA VisitEnds == TreeInv => Visits(Visit)
<1>. SUFFICES ASSUME TreeInv  PROVE Visits(Visit)
  OBVIOUS
<1>1. PICK lo, hi : Spanned(nodes, root, t, key, lo, hi)
  BY DEF TreeInv, Search
<1> DEFINE D == Node \cup {Nil, Top}
           L(n) == CHOOSE s : Lists(s, Below(n, lo, hi))
           f == [n \in D |-> L(n)]
<1>2. \A n \in D : Lists(L(n), Below(n, lo, hi))
  BY <1>1, ListSome
<1>3. ASSUME NEW n \in D
      PROVE  L(n) = IF IsNull(n) THEN << >>
                    ELSE f[t.left[n]] \o <<key[n]>> \o f[t.right[n]]
  <2>1. CASE IsNull(n)
    <3>1. Below(n, lo, hi) = {}
      BY <2>1, TreeTypes, TreeAssumption DEF TreeInv, Below, IsNull
    <3>2. Lists(L(n), {})
      BY <3>1, <1>2
    <3>. HIDE DEF L
    <3>3. L(n) = << >>
      BY <3>2, EmptyList, OneList
    <3>. QED  BY <3>3, <2>1
  <2>2. CASE ~IsNull(n)
    <3>1. n \in Node /\ t.left[n] \in D /\ t.right[n] \in D
      BY <2>2, TreeTypes DEF TreeInv, Links, IsNull
    <3>2. f[t.left[n]] = L(t.left[n]) /\ f[t.right[n]] = L(t.right[n])
      BY <3>1
    <3>3. /\ Lists(L(t.left[n]), Below(t.left[n], lo, hi))
          /\ Lists(L(t.right[n]), Below(t.right[n], lo, hi))
          /\ Lists(L(n), Below(n, lo, hi))
      BY <3>1, <1>2
    <3>. HIDE DEF L
    <3>4. Lists(L(t.left[n]) \o <<key[n]>> \o L(t.right[n]), Below(n, lo, hi))
      BY <3>1, <3>3, <1>1, ListAt
    <3>5. L(n) = L(t.left[n]) \o <<key[n]>> \o L(t.right[n])
      BY <3>3, <3>4, OneList
    <3>. QED  BY <3>2, <3>5, <2>2
  <2>. QED  BY <2>1, <2>2
<1>4. Visits(f)
  <2>1. f = [n \in D |-> f[n]] /\ \A n \in D : f[n] = L(n)
    OBVIOUS
  <2>. HIDE DEF f, L
  <2>2. f = [n \in D |-> IF IsNull(n) THEN << >>
                         ELSE f[t.left[n]] \o <<key[n]>> \o f[t.right[n]]]
    BY <2>1, <1>3
  <2>. QED  BY <2>2 DEF Visits
<1>5. Visit = CHOOSE h : Visits(h)
  BY DEF Visit, Visits
<1>. QED  BY <1>4, <1>5

LEMMA VisitLists ==
  ASSUME TreeInv, NEW lo, NEW hi, Spanned(nodes, root, t, key, lo, hi)
  PROVE  \A n \in nodes : Lists(Visit[n], Below(n, lo, hi))
<1>1. \A n \in nodes : /\ lo[n] \in Int /\ hi[n] \in Int /\ key[n] \in Int
                       /\ lo[n] < key[n] /\ key[n] < hi[n]
  BY TreeTypes DEF TreeInv, Spanned
<1> DEFINE w(n) == Wide(n, lo, hi)
           Bad == {n \in nodes : ~Lists(Visit[n], Below(n, lo, hi))}
           T == {w(n) : n \in Bad}
<1>2. ASSUME Bad # {}  PROVE FALSE
  <2>1. \A n \in nodes : w(n) \in Nat
    BY <1>1 DEF Wide
  <2>2. T \subseteq Nat /\ T # {}
    BY <2>1, <1>2
  <2>3. PICK e \in T : \A d \in T : ~(<<d, e>> \in OpToRel(<, Nat))
    BY <2>2, NatLessThanWellFounded, WFMin
  <2>4. PICK n \in Bad : w(n) = e
    BY <2>3
  <2>5. n \in nodes /\ n \in Node /\ ~IsNull(n) /\ ~Lists(Visit[n], Below(n, lo, hi))
    BY <2>4, TreeTypes DEF TreeInv
  <2>6. ASSUME NEW c \in nodes, w(c) < w(n)  PROVE Lists(Visit[c], Below(c, lo, hi))
    <3>. SUFFICES ASSUME c \in Bad  PROVE FALSE
      OBVIOUS
    <3>1. w(c) \in T /\ w(c) \in Nat /\ e \in Nat
      BY <2>1, <2>2, <2>4
    <3>2. <<w(c), e>> \in OpToRel(<, Nat)
      BY <3>1, <2>4, <2>6 DEF OpToRel
    <3>. HIDE DEF T, w
    <3>. QED  BY <3>1, <3>2, <2>3
  <2>7. Lists(Visit[Nil], Below(Nil, lo, hi))
    <3>1. Visit[Nil] = << >>
      BY VisitEnds DEF Visits, IsNull
    <3>2. Below(Nil, lo, hi) = {}
      BY TreeTypes, TreeAssumption DEF TreeInv, Below
    <3>. QED  BY <3>1, <3>2, EmptyList
  <2>8. /\ t.left[n] \in nodes \cup {Nil} /\ t.right[n] \in nodes \cup {Nil}
        /\ t.left[n] # Nil => w(t.left[n]) < w(n)
        /\ t.right[n] # Nil => w(t.right[n]) < w(n)
    <3>1. /\ t.left[n] # Nil => /\ t.left[n] \in nodes
                                /\ lo[t.left[n]] = lo[n] /\ hi[t.left[n]] = key[n]
          /\ t.right[n] # Nil => /\ t.right[n] \in nodes
                                 /\ lo[t.right[n]] = key[n] /\ hi[t.right[n]] = hi[n]
      BY <2>5 DEF TreeInv, Linked, Spanned
    <3>. QED  BY <3>1, <2>5, <1>1 DEF Wide
  <2>. HIDE DEF w, Bad
  <2>9. /\ Lists(Visit[t.left[n]], Below(t.left[n], lo, hi))
        /\ Lists(Visit[t.right[n]], Below(t.right[n], lo, hi))
    BY <2>6, <2>7, <2>8
  <2>10. Visit[n] = Visit[t.left[n]] \o <<key[n]>> \o Visit[t.right[n]]
    BY <2>5, VisitEnds DEF Visits
  <2>. QED  BY <2>5, <2>9, <2>10, ListAt
<1>. QED  BY <1>2

LEMMA DfsLists ==
  ASSUME TreeInv
  PROVE  Lists(Dfs, {key[n] : n \in nodes})
<1>1. PICK lo, hi : Spanned(nodes, root, t, key, lo, hi)
  BY DEF TreeInv, Search
<1>2. CASE nodes = {}
  <2>1. root = Top
    BY <1>2, TreeTypes DEF TreeInv
  <2>2. Visit[Top] = << >>
    BY VisitEnds DEF Visits, IsNull
  <2>. QED  BY <2>1, <2>2, <1>2, EmptyList DEF Dfs
<1>3. CASE nodes # {}
  <2>1. root \in nodes /\ lo[root] = 0 /\ hi[root] = MaxKey + 1
    BY <1>1, <1>3, TreeTypes DEF TreeInv, Spanned
  <2>2. \A m \in nodes : 0 < key[m] /\ key[m] < MaxKey + 1
    BY KeysDiffer, TreeAssumption DEF Keys
  <2>3. Below(root, lo, hi) = {key[n] : n \in nodes}
    BY <2>1, <2>2 DEF Below, Held
  <2>. QED  BY <2>1, <2>3, <1>1, VisitLists DEF Dfs
<1>. QED  BY <1>2, <1>3

(* A visit of the tree reaches every binding once, in the order of the     *)
(* symbols, for any number of them.                                        *)
THEOREM VisitInOrder == Spec => []DfsInOrder
<1>1. TreeInv => DfsInOrder
  <2>. SUFFICES ASSUME TreeInv  PROVE DfsInOrder
    OBVIOUS
  <2>1. Lists(Dfs, {key[n] : n \in nodes})
    BY DfsLists
  <2> DEFINE S == {key[n] : n \in nodes}
  <2>2. Lists(Dfs, S)
    BY <2>1
  <2>. HIDE DEF S
  <2>3. DOMAIN Dfs = 1..Len(Dfs) /\ Len(Dfs) \in Nat
    BY <2>2, LenProperties DEF Lists
  <2>4. {Dfs[i] : i \in DOMAIN Dfs} = S
    BY <2>2, <2>3 DEF Lists
  <2>5. \A i \in 1..(Len(Dfs) - 1) : Dfs[i] < Dfs[i + 1]
    <3>1. \A i \in 1..(Len(Dfs) - 1) : /\ i \in 1..Len(Dfs) /\ i + 1 \in 1..Len(Dfs)
                                       /\ i < i + 1
      BY <2>3
    <3>. QED  BY <3>1, <2>2 DEF Lists
  <2>. QED  BY <2>4, <2>5 DEF DfsInOrder, S
<1>. QED  BY <1>1, InitTree, NextTree, PTL DEF Spec

=============================================================================
