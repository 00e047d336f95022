---------------------------- MODULE Descriptors -----------------------------
(***************************************************************************)
(* The descriptors of the process, as the functions of io and unix use     *)
(* them: in and out work on a duplicate of the descriptor they are given   *)
(* and close it when their program is done, accept and listen return new   *)
(* descriptors, close and select release them.  The kernel gives the       *)
(* lowest free number, so a number that was closed comes back at once.     *)
(***************************************************************************)
EXTENDS Integers, Sequences, FiniteSets, SequencesExt

CONSTANTS
  Fds,    \* the numbers the process may have open, besides 0, 1 and 2
  Free    \* what a free number refers to

ASSUME FdsAssumption == Fds \in SUBSET (Nat \ 0..2) /\ IsFiniteSet(Fds)

VARIABLE table    \* what each number refers to

Unused == {d \in Fds : table[d] = Free}

(* A new descriptor d, the lowest free one, for object o.                  *)
Install(d, o) ==
  /\ d \in Unused
  /\ \A e \in Unused : d <= e
  /\ table' = [table EXCEPT ![d] = o]

(* close(fd) for each number of D.                                         *)
CloseAll(D) == table' = [d \in Fds |-> IF d \in D THEN Free ELSE table[d]]

=============================================================================
