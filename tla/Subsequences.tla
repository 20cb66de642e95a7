---------------------------- MODULE Subsequences ----------------------------
(***************************************************************************)
(* Parts of a sequence: the elements at some of its places, in its order.  *)
(***************************************************************************)
EXTENDS Naturals, FiniteSets

\* The numbers of a finite set from the least to the greatest.
Ascending(I) ==
  [n \in 1 .. Cardinality(I) |-> CHOOSE i \in I : Cardinality({j \in I : j <= i}) = n]
\* The elements of a sequence at such places.
InOrder(s, I) == LET p == Ascending(I) IN [n \in DOMAIN p |-> s[p[n]]]
=============================================================================
