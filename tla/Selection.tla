------------------------------- MODULE Selection -------------------------------
(***************************************************************************)
(* Rows picked from a sequence by their indices, in some order: what an    *)
(* ORDER BY, or a loop that skips some elements, makes of it.  In terms of *)
(* sets, because the provers know nothing of SelectSeq and SortSeq.        *)
(***************************************************************************)
EXTENDS Naturals, Sequences, FiniteSets

\* The place of i among K in an order of K (a set of pairs), from 1.
Place(K, order, i) == Cardinality({j \in K : j = i \/ <<j, i>> \in order})

InOrder(K, order) == [n \in 1..Cardinality(K) |-> CHOOSE i \in K : Place(K, order, i) = n]

\* The elements of s at the indices K, by that order.
Picked(s, K, order) ==
  LET p == InOrder(K, order) IN [n \in 1..Cardinality(K) |-> s[p[n]]]

Upward(K) == {pair \in K \X K : pair[1] < pair[2]}

\* The elements of s at the indices K, as they come.
Subsequence(s, K) == Picked(s, K, Upward(K))
=============================================================================
