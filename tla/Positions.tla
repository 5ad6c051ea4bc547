----------------------------- MODULE Positions -----------------------------
(***************************************************************************)
(* A part of a list, by the positions that stay, without recursion.        *)
(***************************************************************************)
EXTENDS Naturals, FiniteSets

Rank(positions, i) == Cardinality({j \in positions : j <= i})
Nth(positions, k) == CHOOSE i \in positions : Rank(positions, i) = k

(* The elements at the given positions, in their order.                    *)
Kept(list, positions) == [k \in 1..Cardinality(positions) |-> list[Nth(positions, k)]]
=============================================================================
