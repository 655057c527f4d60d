---------------------------- MODULE MCSubscriptions ----------------------------
(* TLC instances of Subscriptions. *)
EXTENDS Subscriptions, TLC

\* All model values are interchangeable (used by runs without liveness).
Symmetry ==
    Permutations(Worker) \cup Permutations(Name) \cup Permutations(Channel) \cup Permutations(User)
=============================================================================
