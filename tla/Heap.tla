-------------------------------- MODULE Heap --------------------------------
(***************************************************************************)
(* The reference-counted heap (lib/core/lisp.c, include/mnml/lisp.h): the  *)
(* cells that the interpreter has taken from the slab, what they refer to  *)
(* and the primitives that move references.  A primitive consumes its      *)
(* arguments and hands its result to the caller, as the code does; what    *)
(* the C code has in its hands is `hold`.                                  *)
(*                                                                         *)
(* The recursion of lisp_deallocate and the loop of lisp_conc are unfolded *)
(* on the stack `todo`: the frame on top is the call that runs.  All the   *)
(* types but T_PAIR are one kind here, an atom.                            *)
(***************************************************************************)
EXTENDS Integers, Sequences, FiniteSets, Functions, SequencesExt

CONSTANTS
    Cell,           \* the cells of the slab
    Nowhere,        \* the CAR and CDR of an atom
    MaxHold         \* bound on the references of the C code

ASSUME HeapAssumption ==
    /\ IsFiniteSet(Cell)
    /\ Nowhere \notin Cell
    /\ MaxHold \in Nat

VARIABLES
    live,           \* cells allocated
    pairs,          \* IS_PAIR
    weak,           \* IS_WEAKREF: pairs that do not own their CAR
    refs,           \* reference counts
    car, cdr,       \* what the pairs refer to
    hold,           \* references held by the C code
    todo            \* the calls that run, the innermost one last

vars == <<live, pairs, weak, refs, car, cdr, hold, todo>>

Calls == [do : {"drop", "free", "walk", "link"}, cell : Cell,
          to : Cell \cup {Nowhere}]

Frame(do, c) == [do |-> do, cell |-> c, to |-> Nowhere]

\* The frames of lisp_conc: p is the last pair reached, b the second argument.
Walk(p, b) == [do |-> "walk", cell |-> p, to |-> b]
Link(p, b) == [do |-> "link", cell |-> p, to |-> b]

\* The number of references in the hands of the C code.
InHand == FoldFunction(+, 0, hold)

Idle == todo = << >>
Running(do) == ~Idle /\ Last(todo).do = do
Top == Last(todo)

Init ==
    /\ live = {} /\ pairs = {} /\ weak = {}
    /\ refs = [c \in Cell |-> 0]
    /\ car = [c \in Cell |-> Nowhere]
    /\ cdr = [c \in Cell |-> Nowhere]
    /\ hold = [c \in Cell |-> 0]
    /\ todo = << >>

-----------------------------------------------------------------------------
\* Makers.  slab_allocate returns any free cell.

\* lisp_make_nil, _true, _number, _char, _symbol, and lisp_car and lisp_cdr of
\* what is not a pair: a new atom.
Make ==
    /\ Idle
    /\ InHand < MaxHold
    /\ \E c \in Cell \ live :
         /\ live' = live \cup {c}
         /\ refs' = [refs EXCEPT ![c] = 1]
         /\ hold' = [hold EXCEPT ![c] = 1]
    /\ UNCHANGED <<pairs, weak, car, cdr, todo>>

\* The hands of a caller that passes a and b to a function.
Passed(h, a, b) == [c \in Cell |-> h[c] - (IF c = a THEN 1 ELSE 0)
                                        - (IF c = b THEN 1 ELSE 0)]

Holds(a, b) == \A c \in Cell : Passed(hold, a, b)[c] >= 0

\* Mutant of LispCons: the first argument is not consumed.
MutCons(a, b) ==
    /\ Idle
    /\ Holds(a, b)
    /\ \E c \in Cell \ live :
         /\ live' = live \cup {c}
         /\ pairs' = pairs \cup {c}
         /\ refs' = [refs EXCEPT ![c] = 1]
         /\ car' = [car EXCEPT ![c] = a]
         /\ cdr' = [cdr EXCEPT ![c] = b]
         /\ hold' = [hold EXCEPT ![b] = @ - 1, ![c] = 1]
    /\ UNCHANGED <<weak, todo>>

\* lisp_cons: the new pair takes over the references on a and b.
LispCons(a, b) ==
    /\ Idle
    /\ Holds(a, b)
    /\ \E c \in Cell \ live :
         /\ live' = live \cup {c}
         /\ pairs' = pairs \cup {c}
         /\ refs' = [refs EXCEPT ![c] = 1]
         /\ car' = [car EXCEPT ![c] = a]
         /\ cdr' = [cdr EXCEPT ![c] = b]
         /\ hold' = [Passed(hold, a, b) EXCEPT ![c] = 1]
    /\ UNCHANGED <<weak, todo>>

-----------------------------------------------------------------------------
\* References.

\* The C code gets one more reference on c, the UP macro.
Share(c) ==
    /\ InHand < MaxHold
    /\ hold' = [hold EXCEPT ![c] = @ + 1]
    /\ refs' = [refs EXCEPT ![c] = @ + 1]
    /\ UNCHANGED <<live, pairs, weak, car, cdr, todo>>

\* UP of a cell in hand.
Up(c) == Idle /\ hold[c] > 0 /\ Share(c)

\* Mutant of Car: the CAR is returned without UP.
MutCar(c) ==
    /\ Idle
    /\ hold[c] > 0 /\ c \in pairs \ weak
    /\ InHand < MaxHold
    /\ hold' = [hold EXCEPT ![car[c]] = @ + 1]
    /\ UNCHANGED <<live, pairs, weak, refs, car, cdr, todo>>

\* lisp_car and lisp_cdr of a pair, which they leave to the caller.
Car(c) == Idle /\ hold[c] > 0 /\ c \in pairs \ weak /\ Share(car[c])
Cdr(c) == Idle /\ hold[c] > 0 /\ c \in pairs /\ Share(cdr[c])

\* SET_WEAKREF: the reference on the CAR is the caller's again.
SetWeak(c) ==
    /\ Idle
    /\ hold[c] > 0 /\ c \in pairs \ weak
    /\ InHand < MaxHold
    /\ weak' = weak \cup {c}
    /\ hold' = [hold EXCEPT ![car[c]] = @ + 1]
    /\ UNCHANGED <<live, pairs, refs, car, cdr, todo>>

\* CLR_WEAKREF: the pair takes over the caller's reference on the CAR.
ClearWeak(c) ==
    /\ Idle
    /\ hold[c] > 0 /\ c \in weak
    /\ hold[car[c]] > 0
    /\ weak' = weak \ {c}
    /\ hold' = [hold EXCEPT ![car[c]] = @ - 1]
    /\ UNCHANGED <<live, pairs, refs, car, cdr, todo>>

-----------------------------------------------------------------------------
\* Release.

\* X of a cell in hand.
Release(c) ==
    /\ Idle
    /\ hold[c] > 0
    /\ hold' = [hold EXCEPT ![c] = @ - 1]
    /\ todo' = <<Frame("drop", c)>>
    /\ UNCHANGED <<live, pairs, weak, refs, car, cdr>>

\* Mutant of Inside: the CAR is dropped even if the pair does not own it.
MutInside(c, calls) ==
    IF c \notin pairs THEN calls
    ELSE Append(Append(calls, Frame("drop", cdr[c])), Frame("drop", car[c]))

\* What lisp_deallocate drops before it frees c, the CAR first: a pair owns its
\* CDR, and its CAR unless it is weak.
Inside(c, calls) ==
    IF c \notin pairs THEN calls
    ELSE IF c \in weak THEN Append(calls, Frame("drop", cdr[c]))
    ELSE Append(Append(calls, Frame("drop", cdr[c])), Frame("drop", car[c]))

\* The X macro: DOWN, then lisp_deallocate when the count falls to 0.
Drop ==
    /\ Running("drop")
    /\ LET c == Top.cell IN
       /\ refs' = [refs EXCEPT ![c] = @ - 1]
       /\ todo' = IF refs[c] = 1
                  THEN Inside(c, Append(Front(todo), Frame("free", c)))
                  ELSE Front(todo)
    /\ UNCHANGED <<live, pairs, weak, car, cdr, hold>>

\* slab_deallocate, the end of lisp_deallocate.
Free ==
    /\ Running("free")
    /\ LET c == Top.cell IN
       /\ live' = live \ {c}
       /\ pairs' = pairs \ {c}
       /\ weak' = weak \ {c}
       /\ car' = [car EXCEPT ![c] = Nowhere]
       /\ cdr' = [cdr EXCEPT ![c] = Nowhere]
    /\ todo' = Front(todo)
    /\ UNCHANGED <<refs, hold>>

-----------------------------------------------------------------------------
\* lisp_conc: b becomes the end of the list a.

\* The call.  What is not a pair is dropped, and b returned.
Conc(a, b) ==
    /\ Idle
    /\ Holds(a, b)
    /\ IF a \in pairs
       THEN /\ todo' = <<Walk(a, b)>>
            /\ UNCHANGED hold
       ELSE /\ todo' = <<Frame("drop", a)>>
            /\ hold' = [hold EXCEPT ![a] = @ - 1]
    /\ UNCHANGED <<live, pairs, weak, refs, car, cdr>>

\* FOREACH and NEXT: an iteration, for ever when the list is circular.
ConcNext ==
    /\ Running("walk")
    /\ cdr[Top.cell] \in pairs
    /\ todo' = <<Walk(cdr[Top.cell], Top.to)>>
    /\ UNCHANGED <<live, pairs, weak, refs, car, cdr, hold>>

\* Mutant of ConcLast: the old end of the list is not dropped.
MutConcLast ==
    /\ Running("walk")
    /\ cdr[Top.cell] \notin pairs
    /\ todo' = <<Link(Top.cell, Top.to)>>
    /\ UNCHANGED <<live, pairs, weak, refs, car, cdr, hold>>

\* The end of the loop: the old end of the list is dropped first.
ConcLast ==
    /\ Running("walk")
    /\ cdr[Top.cell] \notin pairs
    /\ todo' = <<Link(Top.cell, Top.to), Frame("drop", cdr[Top.cell])>>
    /\ UNCHANGED <<live, pairs, weak, refs, car, cdr, hold>>

\* p->cdr = cdr.
ConcLink ==
    /\ Running("link")
    /\ cdr' = [cdr EXCEPT ![Top.cell] = Top.to]
    /\ hold' = [hold EXCEPT ![Top.to] = @ - 1]
    /\ todo' = Front(todo)
    /\ UNCHANGED <<live, pairs, weak, refs, car>>

-----------------------------------------------------------------------------

\* The steps of the call that runs.
Step == Drop \/ Free \/ ConcNext \/ ConcLast \/ ConcLink

Next ==
    \/ Make
    \/ \E a, b \in live : LispCons(a, b) \/ Conc(a, b)
    \/ \E c \in live : Up(c) \/ Car(c) \/ Cdr(c) \/ SetWeak(c) \/ ClearWeak(c)
                       \/ Release(c)
    \/ Step

Spec == Init /\ [][Next]_vars

-----------------------------------------------------------------------------

TypeOK ==
    /\ live \subseteq Cell /\ pairs \subseteq live /\ weak \subseteq pairs
    /\ refs \in [Cell -> Nat]
    /\ car \in [Cell -> Cell \cup {Nowhere}]
    /\ cdr \in [Cell -> Cell \cup {Nowhere}]
    /\ hold \in [Cell -> Nat]
    /\ todo \in Seq(Calls)

\* The cells that a call of one kind is at.
Doing(do) == {c \in Cell : \E i \in DOMAIN todo : /\ todo[i].do = do
                                                /\ todo[i].cell = c}

\* The pairs that own what they refer to.  A pair whose deallocation has begun
\* has handed its references to the frames above its own, and the last pair of
\* lisp_conc its CDR.
Owners == pairs \ Doing("free")
CarOf(c) == {d \in Owners \ weak : car[d] = c}
CdrOf(c) == {d \in Owners \ Doing("link") : cdr[d] = c}
Drops(c) == {i \in DOMAIN todo : todo[i].do = "drop" /\ todo[i].cell = c}

\* The reference counts are exact, in the middle of a release as between two
\* calls: one for each reference in the hands of the C code, in a pair that
\* owns it, or in a call of X that is still to run.
RefsExact ==
    \A c \in Cell :
      refs[c] = hold[c] + Cardinality(CarOf(c)) + Cardinality(CdrOf(c))
                + Cardinality(Drops(c))

\* No reference dangles: what the C code holds, what a pair owns and what a
\* call is about to use are allocated cells, and no cell is freed twice.
NoDangling ==
    /\ \A c \in Cell : hold[c] > 0 => c \in live
    /\ \A d \in Owners \ weak : car[d] \in live
    /\ \A d \in Owners \ Doing("link") : cdr[d] \in live
    /\ \A i, j \in DOMAIN todo :
         /\ todo[i].cell \in live
         /\ todo[i].do = "free" /\ todo[j] = todo[i] => i = j

\* The cells that pairs own, from those of S on.
Owned(S) == {c \in live : \E d \in S : d \in CarOf(c) \/ d \in CdrOf(c)}

Reach(S) == {c \in live : \A T \in SUBSET live :
                            S \subseteq T /\ Owned(T) \subseteq T => c \in T}

Held == {c \in live : hold[c] > 0}
Circular == {c \in live : c \in Reach(Owned({c}))}

\* Between two calls a cell that the C code cannot reach is still allocated
\* only if a circular list, which lisp_conc can make, keeps it so: everything
\* else has gone back to the slab, which is what `-d` verifies at exit.
OnlyCyclesLeak == Idle => live \subseteq Reach(Held) \cup Reach(Circular)
=============================================================================
