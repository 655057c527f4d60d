------------------------------- MODULE MCWebhook -------------------------------
(* TLC instances of Webhook. *)
EXTENDS Webhook, TLC

CONSTANTS u1, c1, c2, l1

Subscription(c, features, labels) ==
    [channel |-> c, creator |-> u1, features |-> features, labels |-> labels]

\* Merge requests and comments on them; one channel is subscribed to the project and to its
\* group.
MergeSubs == <<Subscription(c1, {"merges"}, {}), Subscription(c1, {"merge_request_assigns"}, {})>>

\* The label's text is the name of a feature.
MCSpells == [l \in Label |-> {"confidential_issues"}]

\* Issues and comments on them; one channel asked for confidential issues, the other for
\* issues, and for those with the label once more.
IssueSubs ==
    <<Subscription(c1, {"issues", "confidential_issues", "issue_comments"}, {}),
      Subscription(c2, {"issues"}, {}), Subscription(c2, {"issues", "issue_comments"}, {l1})>>

\* Everything else.
OtherSubs ==
    <<Subscription(c1, {"pipeline", "pushes", "tag", "jobs", "releases", "deployments"}, {})>>

Public(kinds) ==
    [kinds |-> kinds, labels |-> {}, visibility |-> "public", access |-> Account, allowed |-> TRUE, private |-> FALSE]

\* A project that one account has access to; the settings let it pass.
Restricted(kinds, labels) ==
    [kinds : {kinds}, labels : {labels}, visibility : {"public", "internal", "private"},
     access : {{a} : a \in Account}, allowed : {TRUE}, private : {TRUE}]

\* One of the settings does not let it pass.
Refused(kinds) ==
    {[p EXCEPT !.allowed = FALSE] : p \in Restricted(kinds, {})}
    \cup {[p EXCEPT !.private = FALSE] : p \in Restricted(kinds, {})}

MergeScene == [project |-> Public({"merge", "note"}), subs |-> MergeSubs]
IssueScenes == [project : Restricted({"issue", "note"}, {l1}), subs : {IssueSubs}]
OtherKinds == Kind \ {"merge", "issue", "note"}
OtherScenes == [project : Restricted(OtherKinds, {}) \cup Refused(OtherKinds), subs : {OtherSubs}]
AllScenes == {MergeScene} \cup IssueScenes \cup OtherScenes

\* A project for all in every scene; one channel asked for confidential issues alone, the
\* other for issues with the label.
ConfidentialSubs ==
    <<Subscription(c1, {"confidential_issues"}, {}),
      Subscription(c2, {"issues", "issue_comments"}, {l1})>>
CommentSubs == <<Subscription(c2, {"issue_comments"}, {})>>
PublicScenes ==
    {MergeScene,
     [project |-> [Public({"issue"}) EXCEPT !.labels = {l1}], subs |-> ConfidentialSubs],
     [project |-> Public({"issue", "note"}), subs |-> CommentSubs],
     [project |-> Public(OtherKinds), subs |-> OtherSubs]}

\* Accounts are interchangeable.
Symmetry == Permutations(Account)
=============================================================================
