---------------------------- MODULE MCConnections ----------------------------
(* TLC instances of Connections. *)
EXTENDS Connections, TLC

\* Users, accounts and goroutines are interchangeable.
Symmetry == Permutations(User) \cup Permutations(Account) \cup Permutations(Worker)
=============================================================================
