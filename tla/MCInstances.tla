------------------------------ MODULE MCInstances ------------------------------
(* TLC instances of Instances. *)
EXTENDS Instances, TLC

\* Nodes, workers, names and URLs are interchangeable.
Symmetry ==
    Permutations(Node) \cup Permutations(Worker) \cup Permutations(Name) \cup Permutations(Url)
=============================================================================
