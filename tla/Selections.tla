------------------------------ MODULE Selections -------------------------------
(***************************************************************************)
(* What Array.filter and a sort by number give: the elements of a finite   *)
(* set of numbers in ascending order, and the elements of a sequence that  *)
(* stand at the places of such a set.                                      *)
(***************************************************************************)
EXTENDS Integers, Sequences, FiniteSets

\* The numbers of I, least first: the n-th has n - 1 below it.
Ascending(I) == [n \in 1..Cardinality(I) |-> CHOOSE i \in I : Cardinality({j \in I : j < i}) = n - 1]

Picked(s, I) == [n \in 1..Cardinality(I) |-> s[Ascending(I)[n]]]
================================================================================
