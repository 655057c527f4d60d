----------------------------- MODULE MCOAuthConnect -----------------------------
(* TLC instances of OAuthConnect. *)
EXTENDS OAuthConnect, TLC

CONSTANTS n1, n2, u1, u2, r1, r2

On(u, n) == [user |-> u, node |-> n]

\* A user in two browser windows, which two nodes serve; two users on one node.
TwoWindows == r1 :> On(u1, n1) @@ r2 :> On(u1, n2)
TwoUsers == r1 :> On(u1, n1) @@ r2 :> On(u2, n1)

BothOwners == {TwoWindows, TwoUsers}
OneOwner == {r1 :> On(u1, n1)}
=============================================================================
