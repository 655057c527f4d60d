------------------------------- MODULE UserTokens -------------------------------
(***************************************************************************)
(* What the plugin promises about the stored OAuth token of each user,     *)
(* whatever key it is encrypted with: it is replaced when a connection or  *)
(* a refresh stores a newer one, and it goes away when the user is         *)
(* disconnected. Rotating the encryption key brings no old token back.     *)
(***************************************************************************)
EXTENDS Naturals

CONSTANTS User, None

VARIABLES
    tokens,     \* the stored token of each user: its number, or None
    last        \* the number of the newest token

Init ==
    /\ tokens = [u \in User |-> 0]
    /\ last = 0

\* A new token is stored.
Put(u) ==
    /\ last' = last + 1
    /\ tokens' = [tokens EXCEPT ![u] = last']

\* The user is disconnected.
Drop(u) ==
    /\ tokens' = [tokens EXCEPT ![u] = None]
    /\ UNCHANGED last

Next == \E u \in User : Put(u) \/ Drop(u)

Spec == Init /\ [][Next]_<<tokens, last>>
=============================================================================
