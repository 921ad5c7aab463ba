------------------------------- MODULE Units -------------------------------
(***************************************************************************)
(* Sums of costs as sizes of sets: a request of cost n stands for n        *)
(* numbered units, so that what several requests cost together is the      *)
(* number of their units, and sums need no recursion.                      *)
(***************************************************************************)
EXTENDS Integers, FiniteSets

UnitsOf(S, price) == UNION {{r} \X (1..price[r]) : r \in S}

CostOf(S, price) == Cardinality(UnitsOf(S, price))

=============================================================================
