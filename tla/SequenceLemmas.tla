--------------------------- MODULE SequenceLemmas ----------------------------
(***************************************************************************)
(* Sequences used as stacks, the top last: what is known of their parts,   *)
(* of a push and of a change of the top.  Sequences used as sorted lists:  *)
(* there is one for a set of numbers, and two are joined by what is        *)
(* between them.                                                           *)
(***************************************************************************)
EXTENDS Integers, Sequences, SequencesExt, SequenceTheorems,
        WellFoundedInduction, TLAPS

(* A stack that is not empty is its front and its last element.            *)
LEMMA FrontLast ==
  ASSUME NEW S, NEW s \in Seq(S), s # <<>>
  PROVE  /\ Front(s) \in Seq(S) /\ Last(s) \in S
         /\ Len(s) \in Nat \ {0} /\ Len(Front(s)) = Len(s) - 1
         /\ DOMAIN s = 1..Len(s) /\ DOMAIN Front(s) = 1..(Len(s) - 1)
         /\ Last(s) = s[Len(s)]
         /\ \A i \in 1..(Len(s) - 1) : Front(s)[i] = s[i]
         /\ s = Append(Front(s), Last(s))
<1>1. Len(s) \in Nat \ {0} /\ DOMAIN s = 1..Len(s) /\ Last(s) = s[Len(s)] /\ Last(s) \in S
  BY DEF Last
<1>2. /\ Front(s) \in Seq(S) /\ Len(Front(s)) = Len(s) - 1
      /\ \A i \in 1..(Len(s) - 1) : Front(s)[i] = s[i]
  <2> DEFINE n == Len(s) - 1
  <2>1. n \in Int /\ 1 \in Int /\ \A i \in 1..n : s[i] \in S
    BY <1>1
  <2>2. /\ SubSeq(s, 1, n) \in Seq(S)
        /\ Len(SubSeq(s, 1, n)) = IF 1 <= n THEN n - 1 + 1 ELSE 0
        /\ \A i \in 1..(n - 1 + 1) : SubSeq(s, 1, n)[i] = s[1 + i - 1]
    <3>. HIDE DEF n
    <3>. QED  BY <2>1, SubSeqProperties
  <2>3. SubSeq(s, 1, n) = Front(s)
    BY DEF Front
  <2>. HIDE DEF n
  <2>4. n = Len(s) - 1 /\ n \in Nat
    BY <1>1 DEF n
  <2>5. Len(SubSeq(s, 1, n)) = n /\ \A i \in 1..n : SubSeq(s, 1, n)[i] = s[i]
    <3>1. \A i \in 1..n : i \in 1..(n - 1 + 1) /\ 1 + i - 1 = i
      BY <2>4
    <3>2. \A i \in 1..n : SubSeq(s, 1, n)[i] = s[i]
      BY <3>1, <2>2
    <3>. QED  BY <3>2, <2>2, <2>4
  <2>. QED  BY <2>2, <2>3, <2>4, <2>5
<1>3. DOMAIN Front(s) = 1..(Len(s) - 1)
  BY <1>2
<1>4. s = Append(Front(s), Last(s))
  <2> DEFINE t == Append(Front(s), Last(s))
  <2>0. t \in Seq(S) /\ Len(t) = Len(Front(s)) + 1
    <3>1. Front(s) \in Seq(S) /\ Last(s) \in S
      BY <1>1, <1>2
    <3>. QED  BY <3>1, AppendProperties
  <2>1. t \in Seq(S) /\ Len(t) = Len(s)
    <3>. HIDE DEF t
    <3>. QED  BY <2>0, <1>1, <1>2
  <2>2. \A i \in 1..Len(s) : t[i] = s[i]
    BY <1>1, <1>2
  <2>. HIDE DEF t
  <2>3. t = s
    BY <2>1, <2>2, SeqEqual
  <2>. QED  BY <2>3 DEF t
<1>. QED  BY <1>1, <1>2, <1>3, <1>4

(* A push.                                                                 *)
LEMMA AppendFacts ==
  ASSUME NEW S, NEW s \in Seq(S), NEW e \in S
  PROVE  /\ Append(s, e) \in Seq(S) /\ Len(s) \in Nat
         /\ Len(Append(s, e)) = Len(s) + 1
         /\ DOMAIN s = 1..Len(s) /\ DOMAIN Append(s, e) = 1..(Len(s) + 1)
         /\ \A i \in 1..Len(s) : Append(s, e)[i] = s[i]
         /\ Append(s, e)[Len(s) + 1] = e
         /\ Append(s, e) # <<>> /\ Front(Append(s, e)) = s /\ Last(Append(s, e)) = e
<1> DEFINE t == Append(s, e)
<1>1. /\ t \in Seq(S) /\ Len(s) \in Nat /\ Len(t) = Len(s) + 1
      /\ DOMAIN s = 1..Len(s) /\ DOMAIN t = 1..(Len(s) + 1)
      /\ \A i \in 1..Len(s) : t[i] = s[i]
      /\ t[Len(s) + 1] = e /\ t # <<>>
  OBVIOUS
<1>. HIDE DEF t
<1>2. Last(t) = e
  BY <1>1 DEF Last
<1>3. Front(t) = s
  <2>1. /\ Front(t) \in Seq(S) /\ Len(Front(t)) = Len(s)
        /\ \A i \in 1..Len(s) : Front(t)[i] = t[i]
    BY <1>1, FrontLast
  <2>. QED  BY <2>1, <1>1, SeqEqual
<1>. QED  BY <1>1, <1>2, <1>3 DEF t

(* A change of the top.                                                    *)
LEMMA LastReplaced ==
  ASSUME NEW S, NEW s \in Seq(S), s # <<>>, NEW e \in S
  PROVE  [s EXCEPT ![Len(s)] = e] = Append(Front(s), e)
<1> DEFINE n == Len(s)
           t == [s EXCEPT ![n] = e]
           u == Append(Front(s), e)
<1>1. /\ n \in Nat \ {0} /\ Front(s) \in Seq(S) /\ Len(Front(s)) = n - 1
      /\ \A i \in 1..(n - 1) : Front(s)[i] = s[i]
  BY FrontLast
<1>2. /\ u \in Seq(S) /\ Len(u) = n /\ u[n] = e
      /\ \A i \in 1..(n - 1) : u[i] = s[i]
  BY <1>1, AppendFacts
<1>3. n \in 1..Len(s)
  BY <1>1
<1>. HIDE DEF n
<1>4. /\ t \in Seq(S) /\ Len(t) = Len(s)
      /\ \A i \in 1..Len(s) : t[i] = IF i = n THEN e ELSE s[i]
  BY <1>3, ExceptSeq
<1>. HIDE DEF t, u
<1>5. \A i \in 1..n : i \in 1..(n - 1) \/ i = n
  BY <1>1
<1>6. \A i \in 1..Len(s) : t[i] = u[i]
  BY <1>2, <1>4, <1>5 DEF n
<1>7. t = u
  BY <1>2, <1>4, <1>6, SeqEqual DEF n
<1>. QED  BY <1>7 DEF n, t, u

-----------------------------------------------------------------------------
(* s is the increasing list of the elements of S.                          *)
Lists(s, S) ==
  /\ s \in Seq(Int)
  /\ \A i \in 1..Len(s) : s[i] \in S
  /\ \A e \in S : \E i \in 1..Len(s) : s[i] = e
  /\ \A i, j \in 1..Len(s) : i < j => s[i] < s[j]

LEMMA EmptyList == Lists(<< >>, {})
BY DEF Lists

(* The list of a set, an element above it and the list of a set above that.*)
LEMMA ListJoin ==
  ASSUME NEW A, NEW B, NEW a, NEW b, NEW k \in Int, Lists(a, A), Lists(b, B),
         \A e \in A : e < k, \A e \in B : k < e
  PROVE  Lists(a \o <<k>> \o b, A \cup {k} \cup B)
<1> DEFINE c == a \o <<k>>
           s == c \o b
<1>1. /\ a \in Seq(Int) /\ b \in Seq(Int) /\ <<k>> \in Seq(Int) /\ Len(<<k>>) = 1
      /\ <<k>>[1] = k /\ Len(a) \in Nat /\ Len(b) \in Nat
  BY LenProperties DEF Lists
<1>2. /\ c \in Seq(Int) /\ Len(c) = Len(a) + 1
      /\ \A i \in 1..(Len(a) + 1) : c[i] = IF i <= Len(a) THEN a[i] ELSE k
  <2>1. /\ c \in Seq(Int) /\ Len(c) = Len(a) + 1
        /\ \A i \in 1..(Len(a) + 1) : c[i] = IF i <= Len(a) THEN a[i] ELSE <<k>>[i - Len(a)]
    BY <1>1, ConcatProperties
  <2>2. \A i \in 1..(Len(a) + 1) : ~(i <= Len(a)) => i - Len(a) = 1
    BY <1>1
  <2>. HIDE DEF c
  <2>. QED  BY <2>1, <2>2, <1>1
<1>. HIDE DEF c
<1>3. /\ s \in Seq(Int) /\ Len(s) = Len(a) + 1 + Len(b)
      /\ \A i \in 1..Len(s) : s[i] = IF i <= Len(c) THEN c[i] ELSE b[i - Len(c)]
  <2>1. /\ s \in Seq(Int) /\ Len(s) = Len(c) + Len(b)
        /\ \A i \in 1..(Len(c) + Len(b)) : s[i] = IF i <= Len(c) THEN c[i] ELSE b[i - Len(c)]
    BY <1>1, <1>2, ConcatProperties
  <2>. HIDE DEF s
  <2>. QED  BY <2>1, <1>2
<1>. HIDE DEF s
<1>0. /\ Len(a) \in Nat /\ Len(b) \in Nat /\ Len(c) = Len(a) + 1
      /\ Len(s) = Len(a) + 1 + Len(b)
  BY <1>1, <1>2, <1>3
<1>4. ASSUME NEW i \in 1..Len(s)
      PROVE  \/ i \in 1..Len(a) /\ s[i] = a[i]
             \/ i = Len(a) + 1 /\ s[i] = k
             \/ i - Len(c) \in 1..Len(b) /\ i > Len(a) + 1 /\ s[i] = b[i - Len(c)]
  <2>1. CASE i <= Len(a)
    <3>1. i \in 1..Len(a) /\ i <= Len(c) /\ i \in 1..(Len(a) + 1)
      BY <2>1, <1>0
    <3>. QED  BY <3>1, <2>1, <1>2, <1>3
  <2>2. CASE i = Len(a) + 1
    BY <2>2, <1>1, <1>2, <1>3
  <2>3. CASE i > Len(a) + 1
    BY <2>3, <1>1, <1>2, <1>3
  <2>. QED  BY <2>1, <2>2, <2>3, <1>1
<1>5. /\ \A i \in 1..Len(a) : a[i] \in A /\ a[i] \in Int
      /\ \A i \in 1..Len(b) : b[i] \in B /\ b[i] \in Int
      /\ \A i, j \in 1..Len(a) : i < j => a[i] < a[j]
      /\ \A i, j \in 1..Len(b) : i < j => b[i] < b[j]
  BY <1>1, ElementOfSeq DEF Lists
<1>6. \A i \in 1..Len(s) : s[i] \in A \cup {k} \cup B
  BY <1>4, <1>5
<1>7. ASSUME NEW e \in A \cup {k} \cup B  PROVE \E i \in 1..Len(s) : s[i] = e
  <2>1. CASE e \in A
    <3>1. PICK i \in 1..Len(a) : a[i] = e
      BY <2>1 DEF Lists
    <3>2. /\ i \in 1..Len(s) /\ i <= Len(c) /\ i <= Len(a)
          /\ i \in 1..(Len(a) + 1)
      BY <1>0
    <3>3. s[i] = c[i]
      BY <3>2, <1>3
    <3>4. c[i] = a[i]
      BY <3>2, <1>1, <1>2
    <3>. QED  BY <3>1, <3>2, <3>3, <3>4
  <2>2. CASE e = k
    <3>1. Len(a) + 1 \in 1..Len(s) /\ s[Len(a) + 1] = k
      BY <1>1, <1>2, <1>3
    <3>. QED  BY <3>1, <2>2
  <2>3. CASE e \in B
    <3>1. PICK i \in 1..Len(b) : b[i] = e
      BY <2>3 DEF Lists
    <3>2. i + Len(c) \in 1..Len(s) /\ s[i + Len(c)] = b[i]
      <4>1. i + Len(c) \in 1..Len(s) /\ ~(i + Len(c) <= Len(c)) /\ i + Len(c) - Len(c) = i
        BY <1>1, <1>2, <1>3
      <4>. QED  BY <4>1, <1>3
    <3>. QED  BY <3>1, <3>2
  <2>. QED  BY <1>7, <2>1, <2>2, <2>3
<1>8. ASSUME NEW i \in 1..Len(s), NEW j \in 1..Len(s), i < j
      PROVE  s[i] < s[j]
  <2>0. Len(c) = Len(a) + 1 /\ Len(a) \in Nat /\ i \in Int /\ j \in Int
    BY <1>1, <1>2
  <2>1. CASE i \in 1..Len(a) /\ s[i] = a[i]
    <3>1. a[i] \in A /\ a[i] < k /\ a[i] \in Int
      BY <2>1, <1>5
    <3>2. CASE j \in 1..Len(a) /\ s[j] = a[j]
      BY <2>1, <3>2, <1>5, <1>8
    <3>3. CASE s[j] = k
      BY <2>1, <3>1, <3>3
    <3>4. CASE j - Len(c) \in 1..Len(b) /\ s[j] = b[j - Len(c)]
      <4>1. s[j] \in B /\ s[j] \in Int /\ k < s[j]
        BY <3>4, <1>5
      <4>. QED  BY <4>1, <3>1, <2>1
    <3>. QED  BY <3>2, <3>3, <3>4, <1>4
  <2>2. CASE i = Len(a) + 1 /\ s[i] = k
    <3>1. j - Len(c) \in 1..Len(b) /\ s[j] = b[j - Len(c)]
      BY <2>0, <2>2, <1>4, <1>8
    <3>2. s[j] \in B
      BY <3>1, <1>5
    <3>. QED  BY <3>2, <2>2
  <2>3. CASE i - Len(c) \in 1..Len(b) /\ i > Len(a) + 1 /\ s[i] = b[i - Len(c)]
    <3>1. j - Len(c) \in 1..Len(b) /\ s[j] = b[j - Len(c)]
      BY <2>0, <2>3, <1>4, <1>8
    <3>2. i - Len(c) < j - Len(c)
      BY <2>0, <1>8
    <3>. QED  BY <3>1, <3>2, <2>3, <1>5
  <2>. QED  BY <2>1, <2>2, <2>3, <1>4
<1>9. Lists(s, A \cup {k} \cup B)
  BY <1>3, <1>6, <1>7, <1>8 DEF Lists
<1>. QED  BY <1>9 DEF s, c

(* A set has one list.                                                     *)
LEMMA OneList ==
  ASSUME NEW S, NEW s, NEW u, Lists(s, S), Lists(u, S)
  PROVE  s = u
<1>1. /\ s \in Seq(Int) /\ u \in Seq(Int) /\ Len(s) \in Nat /\ Len(u) \in Nat
      /\ \A i \in 1..Len(s) : s[i] \in Int /\ s[i] \in S
      /\ \A i \in 1..Len(u) : u[i] \in Int /\ u[i] \in S
      /\ \A e \in S : \E i \in 1..Len(s) : s[i] = e
      /\ \A e \in S : \E i \in 1..Len(u) : u[i] = e
      /\ \A i, j \in 1..Len(s) : i < j => s[i] < s[j]
      /\ \A i, j \in 1..Len(u) : i < j => u[i] < u[j]
  BY LenProperties, ElementOfSeq DEF Lists
<1> DEFINE Same(i) == i \in 1..Len(s) /\ i \in 1..Len(u) /\ s[i] = u[i]
           T == {i \in Nat : i \in (1..Len(s)) \cup (1..Len(u)) /\ ~Same(i)}
<1>2. ASSUME T # {}  PROVE FALSE
  <2>1. PICK i \in T : \A j \in T : ~(<<j, i>> \in OpToRel(<, Nat))
    BY <1>2, NatLessThanWellFounded, WFMin
  <2>2. \A j \in T : ~(j < i)
    BY <2>1 DEF OpToRel
  <2>3. i \in Nat /\ i >= 1 /\ (i <= Len(s) \/ i <= Len(u)) /\ ~Same(i)
    BY <1>1
  <2>4. \A j \in 1..(i - 1) : Same(j)
    <3>. SUFFICES ASSUME NEW j \in 1..(i - 1), ~Same(j)  PROVE FALSE
      OBVIOUS
    <3>1. j \in Nat /\ j < i /\ j \in (1..Len(s)) \cup (1..Len(u))
      BY <1>1, <2>3
    <3>. QED  BY <3>1, <2>2
  <2>5. CASE i <= Len(s)
    <3>1. i \in 1..Len(s) /\ s[i] \in S
      BY <2>3, <2>5, <1>1
    <3>2. PICK j \in 1..Len(u) : u[j] = s[i]
      BY <3>1, <1>1
    <3>3. ~(j < i)
      BY <3>1, <3>2, <2>3, <2>4, <1>1
    <3>4. j # i
      BY <3>1, <3>2, <2>3
    <3>5. i \in 1..Len(u) /\ u[i] < s[i] /\ u[i] \in S
      BY <3>1, <3>2, <3>3, <3>4, <1>1
    <3>6. PICK h \in 1..Len(s) : s[h] = u[i]
      BY <3>5, <1>1
    <3>7. h < i
      <4>1. ~(i < h)
        <5>. SUFFICES ASSUME i < h  PROVE FALSE
          OBVIOUS
        <5>1. s[i] \in Int /\ u[i] \in Int
          BY <3>1, <3>5, <1>1
        <5>. QED  BY <5>1, <3>1, <3>5, <3>6, <1>1
      <4>2. i # h
        BY <3>1, <3>5, <3>6, <1>1
      <4>. QED  BY <4>1, <4>2, <2>3, <1>1
    <3>. QED  BY <3>5, <3>6, <3>7, <2>3, <2>4, <1>1
  <2>6. CASE i <= Len(u)
    <3>1. i \in 1..Len(u) /\ u[i] \in S
      BY <2>3, <2>6, <1>1
    <3>2. PICK j \in 1..Len(s) : s[j] = u[i]
      BY <3>1, <1>1
    <3>3. ~(j < i)
      BY <3>1, <3>2, <2>3, <2>4, <1>1
    <3>4. j # i
      BY <3>1, <3>2, <2>3
    <3>5. i \in 1..Len(s) /\ s[i] < u[i] /\ s[i] \in S
      BY <3>1, <3>2, <3>3, <3>4, <1>1
    <3>6. PICK h \in 1..Len(u) : u[h] = s[i]
      BY <3>5, <1>1
    <3>7. h < i
      <4>1. ~(i < h)
        <5>. SUFFICES ASSUME i < h  PROVE FALSE
          OBVIOUS
        <5>1. s[i] \in Int /\ u[i] \in Int
          BY <3>1, <3>5, <1>1
        <5>. QED  BY <5>1, <3>1, <3>5, <3>6, <1>1
      <4>2. i # h
        BY <3>1, <3>5, <3>6, <1>1
      <4>. QED  BY <4>1, <4>2, <2>3, <1>1
    <3>. QED  BY <3>5, <3>6, <3>7, <2>3, <2>4, <1>1
  <2>. QED  BY <2>3, <2>5, <2>6
<1>3. \A i \in (1..Len(s)) \cup (1..Len(u)) : Same(i)
  <2>. SUFFICES ASSUME NEW i \in (1..Len(s)) \cup (1..Len(u)), ~Same(i)  PROVE FALSE
    OBVIOUS
  <2>1. i \in Nat
    BY <1>1
  <2>2. i \in T
    BY <2>1
  <2>. QED  BY <2>2, <1>2
<1>4. Len(s) = Len(u) /\ \A i \in 1..Len(s) : s[i] = u[i]
  <2>1. Len(s) >= 1 => Len(s) \in 1..Len(s) /\ Len(s) <= Len(u)
    BY <1>1, <1>3
  <2>2. Len(u) >= 1 => Len(u) \in 1..Len(u) /\ Len(u) <= Len(s)
    BY <1>1, <1>3
  <2>. QED  BY <2>1, <2>2, <1>1, <1>3
<1>. QED  BY <1>1, <1>4, SeqEqual

(* A bounded set of numbers has a list.                                    *)
LEMMA SomeList ==
  ASSUME NEW n \in Nat, NEW S \in SUBSET (1..n)
  PROVE  \E s : Lists(s, S)
<1> DEFINE Part(m) == S \cap (1..m)
           T == {m \in Nat : ~\E s : Lists(s, Part(m))}
<1>1. ASSUME T # {}  PROVE FALSE
  <2>1. PICK m \in T : \A j \in T : ~(<<j, m>> \in OpToRel(<, Nat))
    BY <1>1, NatLessThanWellFounded, WFMin
  <2>2. m \in Nat /\ ~(\E s : Lists(s, Part(m)))
    OBVIOUS
  <2>3. m # 0
    <3>1. m = 0 => Part(m) = {}
      OBVIOUS
    <3>. QED  BY <3>1, <2>2, EmptyList
  <2>4. m - 1 \in Nat /\ m - 1 \notin T
    <3>1. m - 1 \in Nat /\ m - 1 < m
      BY <2>2, <2>3
    <3>2. <<m - 1, m>> \in OpToRel(<, Nat)
      BY <3>1, <2>2 DEF OpToRel
    <3>. HIDE DEF T
    <3>. QED  BY <3>1, <3>2, <2>1
  <2>5. PICK s : Lists(s, Part(m - 1))
    BY <2>4
  <2>6. CASE m \in S
    <3>1. Part(m) = Part(m - 1) \cup {m} \cup {}
      BY <2>2, <2>3, <2>6
    <3>2. \A e \in Part(m - 1) : e < m
      BY <2>2
    <3> DEFINE A == Part(m - 1)
    <3>3. Lists(s, A) /\ m \in Int /\ \A e \in A : e < m
      BY <3>2, <2>2, <2>5
    <3>. HIDE DEF A
    <3>4. Lists(s \o <<m>> \o << >>, A \cup {m} \cup {})
      BY <3>3, ListJoin, EmptyList
    <3>. QED  BY <3>1, <3>4, <2>2 DEF A
  <2>7. CASE m \notin S
    <3>1. Part(m) = Part(m - 1)
      BY <2>2, <2>3, <2>7
    <3>. QED  BY <3>1, <2>2, <2>5
  <2>. QED  BY <2>6, <2>7
<1>2. Part(n) = S
  OBVIOUS
<1>3. n \notin T
  BY <1>1
<1>4. \E s : Lists(s, Part(n))
  BY <1>3
<1>. QED  BY <1>2, <1>4

-----------------------------------------------------------------------------
(* The smallest and the largest of some numbers.                           *)
LEMMA MinOf ==
  ASSUME NEW S \in SUBSET Nat, S # {}
  PROVE  Min(S) \in S /\ \A i \in S : Min(S) <= i
<1>1. PICK m \in S : \A i \in S : ~(<<i, m>> \in OpToRel(<, Nat))
  BY NatLessThanWellFounded, WFMin
<1>2. \A i \in S : m <= i
  <2>. SUFFICES ASSUME NEW i \in S, i < m  PROVE FALSE
    OBVIOUS
  <2>. QED  BY <1>1 DEF OpToRel
<1>. QED  BY <1>2 DEF Min

LEMMA MaxOf ==
  ASSUME NEW n \in Nat, NEW S \in SUBSET (1..n), S # {}
  PROVE  Max(S) \in S /\ \A i \in S : Max(S) >= i
<1> DEFINE T == {n - i : i \in S}
<1>1. T \in SUBSET Nat /\ T # {}
  <2>1. \A i \in S : n - i \in Nat
    OBVIOUS
  <2>2. PICK i : i \in S
    OBVIOUS
  <2>3. n - i \in T
    BY <2>2
  <2>. QED  BY <2>1, <2>3
<1>2. Min(T) \in T /\ \A j \in T : Min(T) <= j
  BY <1>1, MinOf
<1>3. PICK m \in S : Min(T) = n - m
  BY <1>2
<1>4. \A i \in S : m >= i
  <2>. SUFFICES ASSUME NEW i \in S  PROVE m >= i
    OBVIOUS
  <2>1. n - i \in T
    OBVIOUS
  <2>. HIDE DEF T
  <2>. QED  BY <2>1, <1>2, <1>3
<1>. QED  BY <1>4 DEF Max

(* An element put into a list.                                             *)
LEMMA InsertFacts ==
  ASSUME NEW S, NEW s \in Seq(S), NEW i \in 1..Len(s), NEW e \in S
  PROVE  /\ InsertAt(s, i, e) \in Seq(S)
         /\ Len(InsertAt(s, i, e)) = Len(s) + 1
         /\ \A j \in 1..(Len(s) + 1) :
              InsertAt(s, i, e)[j] = IF j < i THEN s[j] ELSE IF j = i THEN e ELSE s[j - 1]
<1> DEFINE a == SubSeq(s, 1, i - 1)
           b == SubSeq(s, i, Len(s))
           c == a \o <<e>>
<1>0. Len(s) \in Nat /\ i \in Int /\ 1 <= i /\ i <= Len(s) /\ \A j \in 1..Len(s) : s[j] \in S
  BY LenProperties, ElementOfSeq
<1>1. /\ a \in Seq(S) /\ Len(a) = i - 1
      /\ \A j \in 1..(i - 1) : a[j] = s[j]
  <2>1. 1 \in Int /\ i - 1 \in Int /\ \A j \in 1..(i - 1) : s[j] \in S
    BY <1>0
  <2>2. /\ SubSeq(s, 1, i - 1) \in Seq(S)
        /\ Len(SubSeq(s, 1, i - 1)) = IF 1 <= i - 1 THEN (i - 1) - 1 + 1 ELSE 0
        /\ \A j \in 1..((i - 1) - 1 + 1) : SubSeq(s, 1, i - 1)[j] = s[1 + j - 1]
    BY <2>1, SubSeqProperties
  <2>. HIDE DEF a
  <2>3. /\ a \in Seq(S) /\ Len(a) = IF 1 <= i - 1 THEN (i - 1) - 1 + 1 ELSE 0
        /\ \A j \in 1..((i - 1) - 1 + 1) : a[j] = s[1 + j - 1]
    BY <2>2 DEF a
  <2>. QED  BY <2>3, <1>0
<1>2. /\ b \in Seq(S) /\ Len(b) = Len(s) - i + 1
      /\ \A j \in 1..(Len(s) - i + 1) : b[j] = s[i + j - 1]
  <2>1. Len(s) \in Int /\ i \in Int /\ \A j \in i..Len(s) : s[j] \in S
    BY <1>0
  <2>2. /\ SubSeq(s, i, Len(s)) \in Seq(S)
        /\ Len(SubSeq(s, i, Len(s))) = IF i <= Len(s) THEN Len(s) - i + 1 ELSE 0
        /\ \A j \in 1..(Len(s) - i + 1) : SubSeq(s, i, Len(s))[j] = s[i + j - 1]
    BY <2>1, SubSeqProperties
  <2>. QED  BY <2>2, <1>0
<1>. HIDE DEF a, b
<1>3. /\ c \in Seq(S) /\ Len(c) = i
      /\ \A j \in 1..i : c[j] = IF j < i THEN s[j] ELSE e
  <2>1. <<e>> \in Seq(S) /\ Len(<<e>>) = 1 /\ <<e>>[1] = e
    OBVIOUS
  <2>2. /\ c \in Seq(S) /\ Len(c) = Len(a) + 1
        /\ \A j \in 1..(Len(a) + 1) : c[j] = IF j <= Len(a) THEN a[j] ELSE <<e>>[j - Len(a)]
    BY <2>1, <1>1, ConcatProperties
  <2>. HIDE DEF c
  <2>3. \A j \in 1..i : j \in 1..(Len(a) + 1) /\ (j < i <=> j <= Len(a))
                        /\ (j < i => j \in 1..(i - 1)) /\ (~(j < i) => j - Len(a) = 1)
    BY <1>0, <1>1
  <2>4. Len(c) = i
    BY <2>2, <1>0, <1>1
  <2>5. ASSUME NEW j \in 1..i  PROVE c[j] = IF j < i THEN s[j] ELSE e
    <3>1. c[j] = IF j <= Len(a) THEN a[j] ELSE <<e>>[j - Len(a)]
      BY <2>2, <2>3
    <3>. QED  BY <3>1, <2>1, <2>3, <1>1
  <2>. QED  BY <2>2, <2>4, <2>5
<1>. HIDE DEF c
<1> DEFINE u == c \o b
<1>4. /\ u \in Seq(S) /\ Len(u) = Len(c) + Len(b)
      /\ \A j \in 1..(Len(c) + Len(b)) : u[j] = IF j <= Len(c) THEN c[j] ELSE b[j - Len(c)]
  BY <1>2, <1>3, ConcatProperties
<1>. HIDE DEF u
<1>5. Len(u) = Len(s) + 1 /\ Len(c) + Len(b) = Len(s) + 1
  BY <1>0, <1>2, <1>3, <1>4
<1>6. ASSUME NEW j \in 1..(Len(s) + 1)
      PROVE  u[j] = IF j < i THEN s[j] ELSE IF j = i THEN e ELSE s[j - 1]
  <2>1. u[j] = IF j <= i THEN c[j] ELSE b[j - i]
    BY <1>3, <1>4, <1>5
  <2>2. CASE j <= i
    <3>1. j \in 1..i
      BY <2>2, <1>0
    <3>. QED  BY <3>1, <2>1, <2>2, <1>0, <1>3
  <2>3. CASE ~(j <= i)
    <3>1. j - i \in 1..(Len(s) - i + 1) /\ i + (j - i) - 1 = j - 1 /\ ~(j < i) /\ j # i
      BY <2>3, <1>0
    <3>2. b[j - i] = s[i + (j - i) - 1]
      BY <3>1, <1>2
    <3>. QED  BY <3>1, <3>2, <2>1, <2>3
  <2>. QED  BY <2>2, <2>3
<1>7. u = InsertAt(s, i, e)
  BY DEF u, c, a, b, InsertAt
<1>. QED  BY <1>4, <1>5, <1>6, <1>7

=============================================================================
