---------------------------- MODULE MCIssueForms ----------------------------
(* TLC instances of IssueForms. *)
EXTENDS IssueForms, TLC

CONSTANTS p1, p2, v1, v2

\* Each project has a value of its own.
MCOffers == p1 :> {v1} @@ p2 :> {v2}
=============================================================================
