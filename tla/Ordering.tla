------------------------------ MODULE Ordering ------------------------------
(***************************************************************************)
(* Sorting, in closed forms that can be reasoned about.                      *)
(***************************************************************************)
EXTENDS Naturals, Sequences, FiniteSets

(* How many elements of S come before n.                                     *)
Rank(S, n) == Cardinality({m \in S : m < n})

(* The elements of a finite set of numbers in ascending order.               *)
InOrder(S) == [i \in 1 .. Cardinality(S) |-> CHOOSE n \in S : Rank(S, n) = i - 1]

(* The elements of a sequence at some of its positions, in their order.      *)
Picked(s, positions) ==
    [j \in 1 .. Cardinality(positions) |-> s[InOrder(positions)[j]]]
=============================================================================
