---------------------------- MODULE Subsequences ----------------------------
(***************************************************************************)
(* Array.filter of the source, by the positions of what it keeps.          *)
(***************************************************************************)
EXTENDS Naturals, Sequences, FiniteSets

\* The place of position i among the positions I.
Rank(I, i) == Cardinality({j \in I : j <= i})

\* The elements of q at the positions I, in their order.
Subsequence(q, I) ==
  [n \in 1 .. Cardinality(I) |-> q[CHOOSE i \in I : Rank(I, i) = n]]
=============================================================================
