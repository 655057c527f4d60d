---------------------------- MODULE MCGitlabClient ----------------------------
(* TLC instances of GitlabClient. *)
EXTENDS GitlabClient, TLC

\* Projects and groups are interchangeable.
Symmetry == Permutations(Project) \cup Permutations(Group)
=============================================================================
