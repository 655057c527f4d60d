----------------------------- MODULE MCKeyRotation -----------------------------
(* TLC instances of KeyRotation. *)
EXTENDS KeyRotation, TLC

CONSTANTS u1, u2

\* Another key may stand between those of the two tokens.
MCPlace == u1 :> 1 @@ u2 :> 3
MCOthers == {2}
=============================================================================
