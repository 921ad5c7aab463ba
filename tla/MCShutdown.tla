------------------------------ MODULE MCShutdown ------------------------------
(***************************************************************************)
(* Two servers, one of them with gates, and exchanges that are open on     *)
(* both; signals in every order, up to a third one.                        *)
(***************************************************************************)
EXTENDS Shutdown, TLC

CONSTANTS s1, s2, x1, x2, x3

MCServerOf == x1 :> s1 @@ x2 :> s2 @@ x3 :> s1

===============================================================================
