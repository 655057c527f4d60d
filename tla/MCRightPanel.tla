---------------------------- MODULE MCRightPanel ----------------------------
(* TLC instances of RightPanel. *)
EXTENDS RightPanel, TLC

CONSTANTS m1, m2, s1, s2

\* The pipelines of one commit have passed, those of the other are running.
MCCI == s1 :> "success" @@ s2 :> "running"
=============================================================================
