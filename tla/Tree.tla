-------------------------------- MODULE Tree --------------------------------
(***************************************************************************)
(* The tree of lib/core/tree.c: insertion (with its recolouring and        *)
(* rotations), update and search.  The loops of the code are unfolded: one *)
(* step per iteration, `pc` saying which loop runs.                        *)
(*                                                                         *)
(* A node is the list (KV . (LEFT . (PARENT . RIGHT))).  Two NIL atoms     *)
(* matter: Nil stands for the placeholders below the leaves, and Top for   *)
(* the one NIL that is the empty tree first and the parent of the root     *)
(* ever after.  They are told apart because SET_COLOR can colour Top.      *)
(***************************************************************************)
EXTENDS Integers, Sequences, FiniteSets

CONSTANTS
    MaxKey,         \* number of symbols, named 1..MaxKey in memcmp order
    Vals,           \* values bound to symbols
    Missing,        \* NIL returned by a search
    Node,           \* nodes that can be allocated
    Nil, Top

ASSUME TreeAssumption ==
    /\ MaxKey \in Nat
    /\ Missing \notin Vals
    /\ Nil \notin Node /\ Top \notin Node /\ Nil # Top

VARIABLES
    nodes,          \* nodes linked in the tree
    root,           \* the root, the local `next` while an operation runs
    t,              \* [left, right, parent]: the links of every node
    red,            \* IS_COLORED, of nodes and of the two NIL
    weak,           \* IS_WEAKREF of the cell that holds the parent
    key, val,       \* KEY and VALUE of every node
    pc,             \* "idle", or the loop that runs: "add", "check", "find"
    op,             \* the operation that runs
    x, y, node,     \* its local variables
    last            \* auxiliary: the last operation and what it returned

vars == <<nodes, root, t, red, weak, key, val, pc, op, x, y, node, last>>

Keys == 1..MaxKey
IsNull(n) == n \in {Nil, Top}

None == [op |-> "none"]

Init ==
    /\ nodes = {}
    /\ root = Top
    /\ t = [left   |-> [n \in Node |-> Nil],
            right  |-> [n \in Node |-> Nil],
            parent |-> [n \in Node |-> Top]]
    /\ red = [n \in Node \cup {Nil, Top} |-> FALSE]
    /\ weak = [n \in Node |-> FALSE]
    /\ key = [n \in Node |-> 0]
    /\ val = [n \in Node |-> Missing]
    /\ pc = "idle"
    /\ op = None
    /\ x = Nil /\ y = Nil /\ node = Nil
    /\ last = None

-----------------------------------------------------------------------------
\* Rotations of the links s of a tree rooted at r.  They return the new links
\* and the new root, and change nothing when the child that goes up is NIL.

Rotated(s, r) == [links |-> s, root |-> r]

\* Mutant of LeftRotation: a keeps b as its right child.
MutLeftKeepsChild(s, r, a) ==
    IF IsNull(a) \/ IsNull(s.right[a]) THEN Rotated(s, r)
    ELSE LET b == s.right[a]
             c == s.left[b]
             p == s.parent[a]
             onLeft == ~IsNull(p) /\ s.left[p] = a
         IN Rotated(
              [left   |-> [n \in Node |-> IF n = b THEN a
                                         ELSE IF n = p /\ onLeft THEN b
                                         ELSE s.left[n]],
               right  |-> [n \in Node |-> IF n = p /\ ~onLeft THEN b
                                         ELSE s.right[n]],
               parent |-> [n \in Node |-> IF n = a THEN b
                                         ELSE IF n = b THEN p
                                         ELSE IF n = c THEN a
                                         ELSE s.parent[n]]],
              IF IsNull(p) THEN b ELSE r)

\* Mutant of LeftRotation: the subtree between a and b is dropped.
MutLeftDropsSubtree(s, r, a) ==
    IF IsNull(a) \/ IsNull(s.right[a]) THEN Rotated(s, r)
    ELSE LET b == s.right[a]
             p == s.parent[a]
             onLeft == ~IsNull(p) /\ s.left[p] = a
         IN Rotated(
              [left   |-> [n \in Node |-> IF n = b THEN a
                                         ELSE IF n = p /\ onLeft THEN b
                                         ELSE s.left[n]],
               right  |-> [n \in Node |-> IF n = a THEN Nil
                                         ELSE IF n = p /\ ~onLeft THEN b
                                         ELSE s.right[n]],
               parent |-> [n \in Node |-> IF n = a THEN b
                                         ELSE IF n = b THEN p
                                         ELSE s.parent[n]]],
              IF IsNull(p) THEN b ELSE r)

\* lisp_tree_lrot: b, the right child of a, takes the place of a.
LeftRotation(s, r, a) ==
    IF IsNull(a) \/ IsNull(s.right[a]) THEN Rotated(s, r)
    ELSE LET b == s.right[a]
             c == s.left[b]
             p == s.parent[a]
             onLeft == ~IsNull(p) /\ s.left[p] = a
         IN Rotated(
              [left   |-> [n \in Node |-> IF n = b THEN a
                                         ELSE IF n = p /\ onLeft THEN b
                                         ELSE s.left[n]],
               right  |-> [n \in Node |-> IF n = a THEN c
                                         ELSE IF n = p /\ ~onLeft THEN b
                                         ELSE s.right[n]],
               parent |-> [n \in Node |-> IF n = a THEN b
                                         ELSE IF n = b THEN p
                                         ELSE IF n = c THEN a
                                         ELSE s.parent[n]]],
              IF IsNull(p) THEN b ELSE r)

\* Mutant of RightRotation: the subtree that moves keeps b as its parent.
MutRightParent(s, r, a) ==
    IF IsNull(a) \/ IsNull(s.left[a]) THEN Rotated(s, r)
    ELSE LET b == s.left[a]
             c == s.right[b]
             p == s.parent[a]
             onRight == ~IsNull(p) /\ s.right[p] = a
         IN Rotated(
              [left   |-> [n \in Node |-> IF n = a THEN c
                                         ELSE IF n = p /\ ~onRight THEN b
                                         ELSE s.left[n]],
               right  |-> [n \in Node |-> IF n = b THEN a
                                         ELSE IF n = p /\ onRight THEN b
                                         ELSE s.right[n]],
               parent |-> [n \in Node |-> IF n = a THEN b
                                         ELSE IF n = b THEN p
                                         ELSE s.parent[n]]],
              IF IsNull(p) THEN b ELSE r)

\* lisp_tree_rrot: b, the left child of a, takes the place of a.
RightRotation(s, r, a) ==
    IF IsNull(a) \/ IsNull(s.left[a]) THEN Rotated(s, r)
    ELSE LET b == s.left[a]
             c == s.right[b]
             p == s.parent[a]
             onRight == ~IsNull(p) /\ s.right[p] = a
         IN Rotated(
              [left   |-> [n \in Node |-> IF n = a THEN c
                                         ELSE IF n = p /\ ~onRight THEN b
                                         ELSE s.left[n]],
               right  |-> [n \in Node |-> IF n = b THEN a
                                         ELSE IF n = p /\ onRight THEN b
                                         ELSE s.right[n]],
               parent |-> [n \in Node |-> IF n = a THEN b
                                         ELSE IF n = b THEN p
                                         ELSE IF n = c THEN a
                                         ELSE s.parent[n]]],
              IF IsNull(p) THEN b ELSE r)

-----------------------------------------------------------------------------
\* lisp_tree_add.

\* The call: the parent link of the root is made weak, and a coloured node
\* created by lisp_tree_new, whose parent link is weak too.
CallAdd(k, v) ==
    /\ pc = "idle"
    /\ Node \ nodes # {}
    /\ LET n == CHOOSE m \in Node \ nodes : TRUE IN
       /\ node' = n
       /\ key' = [key EXCEPT ![n] = k]
       /\ val' = [val EXCEPT ![n] = v]
       /\ red' = [red EXCEPT ![n] = TRUE]
       /\ weak' = [m \in Node |-> IF m \in {n, root} THEN TRUE ELSE weak[m]]
       /\ t' = [t EXCEPT !.left[n] = Nil,
                         !.right[n] = Nil,
                         !.parent[n] = IF IsNull(root) THEN root
                                       ELSE t.parent[root]]
    /\ pc' = "add"
    /\ op' = [op |-> "add", key |-> k, val |-> v]
    /\ x' = root
    /\ y' = Nil
    /\ UNCHANGED <<nodes, root, last>>

\* tree_add_node, an iteration of its loop that goes down.
AddDescend ==
    /\ pc = "add"
    /\ ~IsNull(x)
    /\ key[node] # key[x]
    /\ y' = x
    /\ x' = IF key[node] < key[x] THEN t.left[x] ELSE t.right[x]
    /\ UNCHANGED <<nodes, root, t, red, weak, key, val, pc, op, node, last>>

\* The operation returns, and its local variables are gone.
Return(result) ==
    /\ pc' = "idle"
    /\ last' = result
    /\ op' = None /\ x' = Nil /\ y' = Nil /\ node' = Nil

\* Mutant of AddExisting: the early return does not restore the parent link.
MutExistingWeak ==
    /\ pc = "add"
    /\ ~IsNull(x)
    /\ key[node] = key[x]
    /\ val' = [val EXCEPT ![x] = val[node], ![node] = Missing]
    /\ weak' = [weak EXCEPT ![node] = FALSE]
    /\ key' = [key EXCEPT ![node] = 0]
    /\ red' = [red EXCEPT ![node] = FALSE]
    /\ Return(op)
    /\ UNCHANGED <<nodes, root, t>>

\* Mutant of AddExisting: a symbol that is bound keeps its value.
MutExistingValue ==
    /\ pc = "add"
    /\ ~IsNull(x)
    /\ key[node] = key[x]
    /\ val' = [val EXCEPT ![node] = Missing]
    /\ weak' = [weak EXCEPT ![root] = FALSE, ![node] = FALSE]
    /\ key' = [key EXCEPT ![node] = 0]
    /\ red' = [red EXCEPT ![node] = FALSE]
    /\ Return(op)
    /\ UNCHANGED <<nodes, root, t>>

\* tree_add_node finds the key: the values are exchanged, the parent link of
\* the root is strong again, and the new node is released with the old value.
AddExisting ==
    /\ pc = "add"
    /\ ~IsNull(x)
    /\ key[node] = key[x]
    /\ val' = [val EXCEPT ![x] = val[node], ![node] = Missing]
    /\ weak' = [weak EXCEPT ![root] = FALSE, ![node] = FALSE]
    /\ key' = [key EXCEPT ![node] = 0]
    /\ red' = [red EXCEPT ![node] = FALSE]
    /\ Return(op)
    /\ UNCHANGED <<nodes, root, t>>

\* tree_add_node on an empty tree, and the call of tree_add_check.
AddRoot ==
    /\ pc = "add"
    /\ IsNull(root)
    /\ root' = node
    /\ nodes' = nodes \cup {node}
    /\ x' = node
    /\ pc' = "check"
    /\ UNCHANGED <<t, red, weak, key, val, op, y, node, last>>

\* tree_add_node at the end of its loop, and the call of tree_add_check.
AddLeaf ==
    /\ pc = "add"
    /\ ~IsNull(root)
    /\ IsNull(x)
    /\ t' = IF key[node] < key[y]
            THEN [t EXCEPT !.parent[node] = y, !.left[y] = node]
            ELSE [t EXCEPT !.parent[node] = y, !.right[y] = node]
    /\ nodes' = nodes \cup {node}
    /\ x' = node
    /\ pc' = "check"
    /\ UNCHANGED <<root, red, weak, key, val, op, y, node, last>>

-----------------------------------------------------------------------------
\* tree_add_check.  p and g are the parent and the grandparent of x.

p == t.parent[x]
g == t.parent[p]

\* The condition of the loop.
Checking == pc = "check" /\ x # root /\ red[p]

Uncle == IF p = t.left[g] THEN t.right[g] ELSE t.left[g]

\* Mutant of CheckRecolor: x climbs one node too far.
MutRecolorClimb ==
    /\ Checking
    /\ ~IsNull(p) /\ ~IsNull(g)
    /\ red[Uncle]
    /\ red' = [red EXCEPT ![p] = FALSE, ![Uncle] = FALSE, ![g] = TRUE]
    /\ x' = t.parent[g]
    /\ UNCHANGED <<nodes, root, t, weak, key, val, pc, op, y, node, last>>

\* Case 1.
CheckRecolor ==
    /\ Checking
    /\ ~IsNull(p) /\ ~IsNull(g)
    /\ red[Uncle]
    /\ red' = [red EXCEPT ![p] = FALSE, ![Uncle] = FALSE, ![g] = TRUE]
    /\ x' = g
    /\ UNCHANGED <<nodes, root, t, weak, key, val, pc, op, y, node, last>>

\* Case 3 around x at a, with a's parent b and grandparent c after case 2: the
\* colours are set, and c is rotated.
Case3(a, b, c, rotated) ==
    /\ x' = a
    /\ red' = [red EXCEPT ![b] = FALSE, ![c] = TRUE]
    /\ t' = rotated.links
    /\ root' = rotated.root

\* Cases 2 and 3, the parent on the left.  Case 2 rotates `node`, not x.
CheckRotateLeft ==
    /\ Checking
    /\ ~IsNull(p) /\ ~IsNull(g)
    /\ ~red[Uncle]
    /\ p = t.left[g]
    /\ LET case2 == x = t.right[p]
           first == IF case2 THEN LeftRotation(t, root, node) ELSE Rotated(t, root)
           a == IF case2 THEN p ELSE x
           b == first.links.parent[a]
           c == first.links.parent[b]
       IN Case3(a, b, c, RightRotation(first.links, first.root, c))
    /\ UNCHANGED <<nodes, weak, key, val, pc, op, y, node, last>>

\* Cases 2 and 3, the parent on the right.
CheckRotateRight ==
    /\ Checking
    /\ ~IsNull(p) /\ ~IsNull(g)
    /\ ~red[Uncle]
    /\ p # t.left[g]
    /\ LET case2 == x = t.left[p]
           first == IF case2 THEN RightRotation(t, root, node) ELSE Rotated(t, root)
           a == IF case2 THEN p ELSE x
           b == first.links.parent[a]
           c == first.links.parent[b]
       IN Case3(a, b, c, LeftRotation(first.links, first.root, c))
    /\ UNCHANGED <<nodes, weak, key, val, pc, op, y, node, last>>

\* Mutant of CheckDone: the root keeps its colour.
MutDoneColour ==
    /\ pc = "check"
    /\ ~Checking
    /\ weak' = [weak EXCEPT ![root] = FALSE]
    /\ Return(op)
    /\ UNCHANGED <<nodes, root, t, red, key, val>>

\* The end of the loop and of lisp_tree_add: the root is black and its parent
\* link strong.
CheckDone ==
    /\ pc = "check"
    /\ ~Checking
    /\ red' = [red EXCEPT ![root] = FALSE]
    /\ weak' = [weak EXCEPT ![root] = FALSE]
    /\ Return(op)
    /\ UNCHANGED <<nodes, root, t, key, val>>

-----------------------------------------------------------------------------
\* lisp_tree_upd and lisp_tree_get, which share their search.

CallFind(o) ==
    /\ pc = "idle"
    /\ pc' = "find"
    /\ op' = o
    /\ x' = root
    /\ UNCHANGED <<nodes, root, t, red, weak, key, val, y, node, last>>

CallUpd(k, v) == CallFind([op |-> "upd", key |-> k, val |-> v])

CallGet(k) == CallFind([op |-> "get", key |-> k])

FindDescend ==
    /\ pc = "find"
    /\ ~IsNull(x)
    /\ key[x] # op.key
    /\ x' = IF key[x] >= op.key THEN t.left[x] ELSE t.right[x]
    /\ UNCHANGED <<nodes, root, t, red, weak, key, val, pc, op, y, node, last>>

\* What the operation op returns when the search finds v.
Result(v) == [op |-> op.op, key |-> op.key, res |-> v]

\* Found: lisp_tree_upd exchanges the values.
FindHit ==
    /\ pc = "find"
    /\ ~IsNull(x)
    /\ key[x] = op.key
    /\ val' = IF op.op = "upd" THEN [val EXCEPT ![x] = op.val] ELSE val
    /\ Return(Result(val[x]))
    /\ UNCHANGED <<nodes, root, t, red, weak, key>>

\* Not found.
FindMiss ==
    /\ pc = "find"
    /\ IsNull(x)
    /\ Return(Result(Missing))
    /\ UNCHANGED <<nodes, root, t, red, weak, key, val>>

-----------------------------------------------------------------------------

\* The steps of the operation that runs.
Step ==
    \/ AddDescend \/ AddExisting \/ AddRoot \/ AddLeaf
    \/ CheckRecolor \/ CheckRotateLeft \/ CheckRotateRight \/ CheckDone
    \/ FindDescend \/ FindHit \/ FindMiss

Next ==
    \/ \E k \in Keys, v \in Vals : CallAdd(k, v) \/ CallUpd(k, v)
    \/ \E k \in Keys : CallGet(k)
    \/ Step

\* An operation that runs goes on: the interpreter has one thread.
Spec == Init /\ [][Next]_vars /\ WF_vars(Step)

-----------------------------------------------------------------------------

TypeOK ==
    /\ nodes \subseteq Node
    /\ IF nodes = {} THEN root = Top ELSE root \in nodes
    /\ t \in [left   : [Node -> Node \cup {Nil}],
             right  : [Node -> Node \cup {Nil}],
             parent : [Node -> Node \cup {Top}]]
    /\ red \in [Node \cup {Nil, Top} -> BOOLEAN]
    /\ ~red[Nil]
    /\ weak \in [Node -> BOOLEAN]
    /\ key \in [Node -> 0..MaxKey]
    /\ val \in [Node -> Vals \cup {Missing}]
    /\ pc \in {"idle", "add", "check", "find"}
    /\ x \in nodes \cup {Nil, Top}
    /\ y \in nodes \cup {Nil}
    /\ node \in Node \cup {Nil}
    /\ pc = "check" => x \in nodes /\ node \in nodes

\* The children and the parents agree, whatever rotations were made: a node is
\* the child of its parent, on one side, and a child has its node as parent;
\* the links and the local variables never leave the tree.
LinksAgree ==
    /\ TypeOK
    /\ \A n \in nodes :
         IF n = root THEN t.parent[n] = Top
         ELSE /\ t.parent[n] \in nodes
              /\ (t.left[t.parent[n]] = n) # (t.right[t.parent[n]] = n)
    /\ \A n \in nodes : \A c \in {t.left[n], t.right[n]} \ {Nil} :
         c \in nodes /\ t.parent[c] = n

\* tree_add_check reads the children of the grandparent without a test: they
\* exist, because a root is black whenever one of its children is checked.
GrandparentExists == Checking => p \in nodes /\ g \in nodes

\* Between two operations the parent link of the root is the only strong one.
\* It owns the reference on Top: with another strong link the release of the
\* tree would drop a node twice, with none it would leak Top.
RootOwnsTop == pc = "idle" => \A n \in nodes : weak[n] <=> n # root

\* lisp_tree_dfs with a callback that never stops it: the keys it visits below
\* a node, and in the tree.
Visit[n \in Node \cup {Nil, Top}] ==
    IF IsNull(n) THEN << >>
    ELSE Visit[t.left[n]] \o <<key[n]>> \o Visit[t.right[n]]

Dfs == Visit[root]

\* A visit of the tree (module_fini closes the modules this way) reaches every
\* binding once, in the order of the symbols.
DfsInOrder ==
    pc = "idle" =>
      /\ {Dfs[i] : i \in DOMAIN Dfs} = {key[n] : n \in nodes}
      /\ \A i \in 1..(Len(Dfs) - 1) : Dfs[i] < Dfs[i + 1]

\* The red-black property that tree_add_check restores: no red child of a red
\* node.
NoRedRed ==
    pc = "idle" => \A n \in nodes : n # root => ~(red[n] /\ red[t.parent[n]])

\* Every operation ends.
Terminates == pc # "idle" ~> pc = "idle"

\* The tree implements the dictionary.  A node is bound in it once
\* lisp_tree_add is done with it.
Bound == IF pc = "check" THEN nodes \ {node} ELSE nodes

Dict == [k \in Keys |->
           IF \E n \in Bound : key[n] = k
           THEN val[CHOOSE n \in Bound : key[n] = k] ELSE Missing]

Map == INSTANCE SymbolMap WITH dict <- Dict
MapSpec == Map!Spec
=============================================================================
