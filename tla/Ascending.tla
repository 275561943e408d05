----------------------------- MODULE Ascending -----------------------------
(* The numbers of a finite set in their order, as ORDER BY returns them. *)
EXTENDS Naturals, FiniteSets

\* How many members of S come before n.
Rank(S, n) == Cardinality({m \in S : m < n})

Ascending(S) == [k \in 1 .. Cardinality(S) |-> CHOOSE n \in S : Rank(S, n) = k - 1]
=============================================================================
