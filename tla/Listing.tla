------------------------------ MODULE Listing ------------------------------
(***************************************************************************)
(* The elements of a finite set in an order: what a filter that keeps the  *)
(* order of positions, and a stable sort, make of the positions they keep. *)
(* An element stands where the number of those before it says.             *)
(***************************************************************************)
EXTENDS Integers, FiniteSets

\* R: a strict total order on S, as a set of pairs.
InOrder(S, R) ==
  [k \in 1..Cardinality(S) |-> CHOOSE x \in S : Cardinality({y \in S : <<y, x>> \in R}) = k - 1]

\* Numbers, the smallest first.
Ascending(S) == InOrder(S, {p \in S \X S : p[1] < p[2]})

\* Tuples of numbers of one length, by the first number in which they differ.
Precedes(a, b) == \E i \in DOMAIN a : a[i] < b[i] /\ \A j \in 1..(i - 1) : a[j] = b[j]
Sorted(S) == InOrder(S, {p \in S \X S : Precedes(p[1], p[2])})
=============================================================================
