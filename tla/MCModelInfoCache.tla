-------------------------- MODULE MCModelInfoCache --------------------------
(***************************************************************************)
(* Small instances of ModelInfoCache for TLC.                              *)
(***************************************************************************)
EXTENDS ModelInfoCache, TLC

CONSTANTS k1, k2, m1, m2, c1, c2, c3, c4

\* One handler has a credential of its own, the others share one.
TwoKeys == [c \in Calls |-> IF c = c3 THEN k2 ELSE k1]

=============================================================================
