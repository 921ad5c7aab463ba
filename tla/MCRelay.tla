------------------------------ MODULE MCRelay ------------------------------
(***************************************************************************)
(* Small instances of Relay for TLC.                                       *)
(***************************************************************************)
EXTENDS Relay, TLC

CONSTANTS s, g, i, u

\* A request of each kind and a second gated one.
KindOf == (s :> "stream" @@ g :> "gated" @@ i :> "image" @@ u :> "gated")

OfEachKind == [r \in Requests |-> KindOf[r]]

=============================================================================
