------------------------------- MODULE Ascending -------------------------------
(***************************************************************************)
(* A finite set of numbers in ascending order: the places at which a       *)
(* comprehension over a list keeps an element.                             *)
(***************************************************************************)
EXTENDS Integers, FiniteSets

Rank(S, i) == Cardinality({j \in S : j <= i})

Nth(S, n) == CHOOSE i \in S : Rank(S, i) = n

Ascending(S) == [n \in 1..Cardinality(S) |-> Nth(S, n)]
=============================================================================
