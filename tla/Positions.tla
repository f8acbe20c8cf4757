------------------------------ MODULE Positions ------------------------------
(* What a loop or a query keeps of a sequence: the elements at some of its   *)
(* positions, in their order.  (The elements that pass a test, as SelectSeq  *)
(* has them, in a form that can be reasoned about.)                          *)
EXTENDS Naturals, FiniteSets

\* The n-th of some numbers, from the least.
Nth(n, S) == CHOOSE i \in S : Cardinality({j \in S : j < i}) = n - 1

AtPositions(s, positions) == [n \in 1 .. Cardinality(positions) |-> s[Nth(n, positions)]]

=============================================================================
