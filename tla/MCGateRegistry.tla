--------------------------- MODULE MCGateRegistry ---------------------------
(***************************************************************************)
(* Small instances of GateRegistry for TLC.                                *)
(***************************************************************************)
EXTENDS GateRegistry, TLC

CONSTANTS a, b, r1, r2, r3

\* Two requests with one credential and one with another.
TwoAndOne == (r1 :> a @@ r2 :> a @@ r3 :> b)

=============================================================================
