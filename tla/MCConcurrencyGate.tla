------------------------- MODULE MCConcurrencyGate -------------------------
(***************************************************************************)
(* Small instances of ConcurrencyGate for TLC.                             *)
(***************************************************************************)
EXTENDS ConcurrencyGate, TLC

CONSTANTS r1, r2, r3, r4

\* Requests are interchangeable: their costs are chosen in Init.
Symmetry == Permutations(Requests)

=============================================================================
