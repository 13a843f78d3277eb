------------------------------ MODULE Rankings ------------------------------
(***************************************************************************)
(* Lists in a given order, by the rank of their members: what the code     *)
(* computes with sorted(), with list.sort() and with list comprehensions.  *)
(***************************************************************************)
EXTENDS Integers, FiniteSets, Sequences

\* The members of the finite set S, in the strict total order R.
Ranked(S, R) ==
  [n \in 1..Cardinality(S) |->
     CHOOSE x \in S : Cardinality({y \in S : <<y, x>> \in R}) = n - 1]

\* The numbers of K in ascending order.
Ascending(K) == Ranked(K, {p \in K \X K : p[1] < p[2]})

\* What the sequence s holds at the places K, in its order.
AtPlaces(s, K) == [n \in 1..Cardinality(K) |-> s[Ascending(K)[n]]]
=============================================================================
