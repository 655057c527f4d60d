----------------------------- MODULE MCTokenAccess -----------------------------
(* TLC instances of TokenAccess. *)
EXTENDS TokenAccess, TLC

\* Workers and accounts are interchangeable (used by runs without liveness).
Symmetry == Permutations(Worker) \cup Permutations(Account)

=============================================================================
