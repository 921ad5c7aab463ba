----------------------------- MODULE UnitBudget -----------------------------
(***************************************************************************)
(* What a concurrency gate with a configured limit promises, without queue,*)
(* deadlines, polling or cancellation: requests that ask are granted their *)
(* units within the limit, and give them back once.                        *)
(***************************************************************************)
EXTENDS Integers

CONSTANTS
  Requests, Costs, Limit,
  CostOf(_, _)   \* what the requests of a set cost together

VARIABLES cost, standing

Holding == {r \in Requests : standing[r] = "holding"}

Init ==
  /\ cost \in [Requests -> Costs]
  /\ standing = [r \in Requests |-> "asking"]

\* Some requests are granted their units, some are done, with or without
\* having held units; whoever is done stays so, and the units held after the
\* step fit the limit.
Step ==
  /\ UNCHANGED cost
  /\ standing' \in [Requests -> {"asking", "holding", "done"}]
  /\ \A r \in Requests :
       /\ standing[r] = "done" => standing'[r] = "done"
       /\ standing'[r] = "asking" => standing[r] = "asking"
  /\ CostOf(Holding', cost) <= Limit

Spec == Init /\ [][Step]_<<cost, standing>>

=============================================================================
