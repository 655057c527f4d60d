----------------------------- MODULE MCWebClient -----------------------------
(* TLC instances of WebClient. *)
EXTENDS WebClient, TLC

\* Accounts are interchangeable.
Symmetry == Permutations(Account)
=============================================================================
