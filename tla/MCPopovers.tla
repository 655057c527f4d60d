----------------------------- MODULE MCPopovers -----------------------------
(* TLC instances of Popovers. *)
EXTENDS Popovers, TLC

CONSTANTS h1, h2, l1, l2, l3, l4

\* An issue, a merge request of another GitLab, a commit, and an issue behind a port.
MCShape ==
    l1 :> [host |-> h1, matches |-> TRUE, type |-> "issues", port |-> FALSE]
    @@ l2 :> [host |-> h2, matches |-> TRUE, type |-> "merge_requests", port |-> FALSE]
    @@ l3 :> [host |-> h1, matches |-> FALSE, type |-> "other", port |-> FALSE]
    @@ l4 :> [host |-> h1, matches |-> TRUE, type |-> "issues", port |-> TRUE]
=============================================================================
