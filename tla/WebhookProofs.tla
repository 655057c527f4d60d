----------------------------- MODULE WebhookProofs -----------------------------
(* Proofs about Webhook, for any accounts, users, channels, goroutines, projects, *)
(* subscriptions and bounds. *)
EXTENDS Webhook, FiniteSetTheorems, SequenceTheorems, TLAPS

\* What a merge request's event may say: it is closed or merged when that is what was done.
Proper(e) ==
    /\ e \in Event
    /\ e.kind = "merge" =>
        /\ e.action \notin {"running", "failed", "other"}
        /\ e.action = "close" => e.item.state = "closed"
        /\ e.action = "merge" => e.item.state = "merged"

\* The posts about an event that a channel may get.
Limit(e) == IF e.kind = "merge" /\ e.action = "update" THEN Reassigned(e) ELSE 1

\* A subscription of the channel asks to see the confidential issue of an event.
AsksForIt(c, e) == \E j \in DOMAIN subs : subs[j].channel = c /\ AsksToSee(subs[j], e)

\* The next parts are about the state x of a goroutine. It has sent nothing before the list
\* is made.
Fresh(x) == x.st \in {"idle", "handle"} => x.sent = {} /\ x.posted = NoChannel

Serves(x) == x.st # "idle" => Proper(x.event)

\* Whoever got a message is known to have been looked up.
Once(x) ==
    /\ \A m \in x.sent : m.to \in x.already
    /\ \A m, n \in x.sent : m.to = n.to => m = n

\* Handlers for channels are the last of the list, once for each channel, and no more than
\* the posts that are left.
Bounded(x) ==
    x.st \in {"send", "done"} =>
        \E k \in 0 .. Limit(x.event) :
            /\ \A c \in Channel : x.posted[c] + k <= Limit(x.event)
            /\ \A i \in DOMAIN x.list, c \in Channel :
                 x.list[i].chans[c] # 0 => x.list[i].chans[c] = 1 /\ i + k > Len(x.list)

\* A channel that got a confidential issue or a comment on one, or will get it, asks for it.
Asked(x) ==
    x.st \in {"send", "done"} /\ ShowsConfidential(x.event) =>
        \A c \in Channel :
            x.posted[c] # 0 \/ (\E i \in DOMAIN x.list : x.list[i].chans[c] # 0)
                => AsksForIt(c, x.event)

Steady(x) == \A a \in x.steady : Reachable(a)

\* Whoever was assigned has been told so, or is in the first handler of the list and not
\* looked up yet.
Assigned(x) ==
    x.st \in {"send", "done"} /\ x.event.kind = "merge" /\ x.event.action = "update"
    /\ x.event.item.state = "opened" =>
        \A a \in ((x.event.item.assignees \ x.event.before.assignees) \cap x.steady) \ {x.event.sender} :
            \/ [to |-> a, why |-> "assigned"] \in x.sent
            \/ /\ x.st = "send" /\ x.list # <<>> /\ a \notin x.already
               /\ x.list[1].why = "assigned" /\ a \in x.list[1].tos

HookInv(x) ==
    Fresh(x) /\ Serves(x) /\ Once(x) /\ Bounded(x) /\ Asked(x) /\ Steady(x) /\ Assigned(x)

IInv ==
    /\ TypeOK
    /\ \A e \in calls : Proper(e)
    /\ \A h \in Hook : HookInv(hook[h])

-----------------------------------------------------------------------------
(* Lists of handlers *)

\* A handler before its list is cleaned, which may name nobody.
Draft == [from : Actor, why : Why, tos : SUBSET Actor, chans : [Channel -> Nat]]

\* Handlers for users, and those for the channels of some subscriptions.
ForUsers == {r \in Draft : r.chans = NoChannel}
ForChannels(asking) == {r \in Draft : r.chans = Channels(asking)}

\* The channels of subscriptions are counted.
LEMMA ChannelsCount ==
    ASSUME subs \in Seq(Sub), NEW asking \in SUBSET DOMAIN subs
    PROVE  /\ Channels(asking) \in [Channel -> Nat]
           /\ \A c \in Channel : Channels(asking)[c] # 0 =>
                \E j \in asking : subs[j].channel = c
<1>1. IsFiniteSet(DOMAIN subs)
    BY FS_Interval
<1>2. SUFFICES ASSUME NEW c \in Channel
               PROVE  /\ Cardinality({j \in asking : subs[j].channel = c}) \in Nat
                      /\ Cardinality({j \in asking : subs[j].channel = c}) # 0 =>
                            \E j \in asking : subs[j].channel = c
    BY DEF Channels
<1> DEFINE S == {j \in asking : subs[j].channel = c}
<1>3. S \in SUBSET DOMAIN subs
    OBVIOUS
<1>4. IsFiniteSet(S)
    BY <1>1, <1>3, FS_Subset
<1>5. Cardinality(S) \in Nat /\ (Cardinality(S) = 0 <=> S = {})
    BY <1>4, FS_CardinalityType, FS_EmptySet
<1>6. QED
    BY <1>5

\* The changes of the assignees are counted.
LEMMA ReassignedCount ==
    ASSUME NEW e \in Event
    PROVE  Reassigned(e) \in Nat /\ Limit(e) \in Nat
<1> DEFINE S == UserDiffs(e.before.assignees, e.item.assignees)
           T == UserDiffs(e.item.assignees, e.before.assignees)
<1>1. S \in SUBSET Account /\ T \in SUBSET Account
    BY DEF Event, Item, UserDiffs
<1>2. IsFiniteSet(S) /\ IsFiniteSet(T)
    BY <1>1, ConstantsAssumption, FS_Subset
<1>3. Cardinality(S) \in Nat /\ Cardinality(T) \in Nat
    BY <1>2, FS_CardinalityType
<1>4. Reassigned(e) \in Nat
    BY <1>3 DEF Reassigned
<1>5. QED
    BY <1>4 DEF Limit

LEMMA NoChannelType == NoChannel \in [Channel -> Nat]
    BY DEF NoChannel

\* A handler made for users.
LEMMA ToType ==
    ASSUME NEW e \in Event, NEW why \in Why, NEW S \in SUBSET Actor
    PROVE  To(e, why, S) \in ForUsers
<1>1. e.sender \in Actor
    BY DEF Event, Actor
<1>2. QED
    BY <1>1, NoChannelType DEF To, ForUsers, Draft

LEMMA OneOfUsers ==
    ASSUME NEW r \in ForUsers
    PROVE  <<r>> \in Seq(ForUsers)
    OBVIOUS

LEMMA IfType ==
    ASSUME NEW cond, NEW r \in ForUsers
    PROVE  If(cond, r) \in Seq(ForUsers)
    BY DEF If

LEMMA UsernamesType ==
    ASSUME NEW S \in SUBSET Actor
    PROVE  Usernames(S) \in SUBSET Actor
    BY DEF Usernames, Actor

LEMMA MentionType ==
    ASSUME NEW e \in Event, NEW from \in Actor
    PROVE  Mention(e, from) \in Seq(ForUsers)
<1> DEFINE r == [from |-> from, why |-> "mention", tos |-> e.mentions, chans |-> NoChannel]
<1>1. e.mentions \in SUBSET Actor
    BY DEF Event, Actor
<1>2. r \in ForUsers
    BY <1>1, NoChannelType DEF ForUsers, Draft, Why
<1> HIDE DEF r
<1>3. If(e.mentions # {}, r) \in Seq(ForUsers)
    BY <1>2, IfType
<1>4. QED
    BY <1>3 DEF r, Mention

\* Posts have the channels of their subscriptions.
LEMMA PostType ==
    ASSUME subs \in Seq(Sub), NEW asking \in SUBSET DOMAIN subs, NEW from \in Actor, NEW n \in Nat
    PROVE  /\ Post(from, n, asking) \in Seq(ForChannels(asking))
           /\ Len(Post(from, n, asking)) <= n
<1> DEFINE r == [from |-> from, why |-> "post", tos |-> {}, chans |-> Channels(asking)]
           m == IF asking = {} THEN 0 ELSE n
<1>1. r \in ForChannels(asking)
    BY ChannelsCount DEF ForChannels, Draft, Why
<1>2. m \in Nat /\ m <= n
    OBVIOUS
<1> HIDE DEF r, m
<1>3. [i \in 1 .. m |-> r] \in Seq(ForChannels(asking)) /\ Len([i \in 1 .. m |-> r]) = m
    BY <1>1, <1>2
<1>4. Post(from, n, asking) = [i \in 1 .. m |-> r]
    BY DEF Post, r, m
<1>5. QED
    BY <1>2, <1>3, <1>4

\* What comes first stays first.
LEMMA FirstOfConcat ==
    ASSUME NEW S, NEW s \in Seq(S), NEW t \in Seq(S), s # <<>>
    PROVE  s \o t # <<>> /\ (s \o t)[1] = s[1]
    OBVIOUS

\* Those an event names.
LEMMA NamedAreActors ==
    ASSUME NEW e \in Event
    PROVE  /\ e.sender \in Actor /\ e.item.author \in Actor /\ e.assignee \in Actor /\ None \in Actor
           /\ e.item.assignees \in SUBSET Actor /\ e.item.reviewers \in SUBSET Actor
           /\ e.before.assignees \in SUBSET Actor /\ e.before.reviewers \in SUBSET Actor
           /\ e.action \in Action /\ e.item.state \in {"none", "opened", "closed", "merged"}
<1>1. e.item \in Item /\ e.before \in Item /\ e.sender \in Actor /\ e.assignee \in Actor /\ e.action \in Action
    BY DEF Event, Actor
<1>2. \A i \in Item : /\ i.author \in Actor /\ i.assignees \in SUBSET Actor
                      /\ i.reviewers \in SUBSET Actor /\ i.state \in {"none", "opened", "closed", "merged"}
    BY DEF Item, Actor
<1>3. QED
    BY <1>1, <1>2 DEF Actor

\* A list of one handler, or one that depends on a condition.
LEMMA OneTo ==
    ASSUME NEW e \in Event, NEW why \in Why, NEW S \in SUBSET Actor, NEW cond
    PROVE  /\ <<To(e, why, S)>> \in Seq(ForUsers)
           /\ If(cond, To(e, why, S)) \in Seq(ForUsers)
    BY ToType, OneOfUsers, IfType

\* The handlers of a merge request for users; who is newly assigned comes first.
LEMMA DMMergeRequestType ==
    ASSUME NEW e, Proper(e), e.kind = "merge"
    PROVE  /\ DMMergeRequest(e) \in Seq(ForUsers)
           /\ LET assigned == UserDiffs(e.before.assignees, e.item.assignees) IN
              e.action = "update" /\ e.item.state = "opened" /\ assigned # {} =>
                /\ DMMergeRequest(e) # <<>>
                /\ DMMergeRequest(e)[1] = To(e, "assigned", Usernames(assigned))
<1> DEFINE all == Usernames({e.item.author} \cup e.item.assignees)
           assigned == UserDiffs(e.before.assignees, e.item.assignees)
           unassigned == UserDiffs(e.item.assignees, e.before.assignees)
           requested == UserDiffs(e.before.reviewers, e.item.reviewers)
           first == If(assigned # {}, To(e, "assigned", Usernames(assigned)))
           second == If(unassigned # {}, To(e, "unassigned", Usernames(unassigned)))
           third == If(requested # {}, To(e, "review", Usernames(requested)))
           merged == If(e.action = "merge", To(e, "merged", all))
           updated == first \o second \o third
           list ==
            IF e.item.state = "closed" THEN <<To(e, "closed", all)>>
            ELSE IF e.item.state = "merged" THEN merged
            ELSE CASE e.action = "open" -> <<To(e, "review", all)>>
                   [] e.action = "reopen" -> <<To(e, "reopened", all)>>
                   [] e.action = "update" -> updated
                   [] OTHER -> <<To(e, e.action, all)>>
<1>1. e \in Event
    BY DEF Proper
<1>2. all \in SUBSET Actor
    BY <1>1, NamedAreActors, UsernamesType
<1>3. Usernames(assigned) \in SUBSET Actor /\ Usernames(unassigned) \in SUBSET Actor
      /\ Usernames(requested) \in SUBSET Actor
    <2>1. assigned \in SUBSET Actor /\ unassigned \in SUBSET Actor /\ requested \in SUBSET Actor
        BY <1>1, NamedAreActors DEF UserDiffs
    <2>2. QED
        BY <2>1, UsernamesType
<1>4. first \in Seq(ForUsers) /\ second \in Seq(ForUsers) /\ third \in Seq(ForUsers)
      /\ merged \in Seq(ForUsers)
    BY <1>1, <1>2, <1>3, OneTo DEF Why
<1>5. updated \in Seq(ForUsers) /\ (assigned # {} => updated # <<>> /\ updated[1] = first[1])
    <2> HIDE DEF second, third
    <2>1. first \o second \in Seq(ForUsers) /\ updated \in Seq(ForUsers)
        BY <1>4
    <2>2. CASE assigned # {}
        <3>1. first = <<To(e, "assigned", Usernames(assigned))>>
            BY <2>2 DEF If
        <3> HIDE DEF first
        <3>2. first # <<>>
            BY <3>1
        <3>3. first \o second # <<>> /\ (first \o second)[1] = first[1]
            BY <1>4, <3>2, FirstOfConcat
        <3>4. updated # <<>> /\ updated[1] = (first \o second)[1]
            BY <1>4, <2>1, <3>3, FirstOfConcat
        <3> HIDE DEF updated
        <3>5. QED
            BY <2>1, <3>3, <3>4
    <2>3. QED
        BY <2>1, <2>2
<1>6. list \in Seq(ForUsers)
    <2> HIDE DEF updated, merged, all
    <2>1. CASE e.item.state = "closed"
        BY <1>1, <1>2, <2>1, OneTo DEF Why
    <2>2. CASE e.item.state = "merged"
        BY <1>4, <2>2
    <2>3. CASE e.item.state \notin {"closed", "merged"}
        <3>1. <<To(e, "review", all)>> \in Seq(ForUsers) /\ <<To(e, "reopened", all)>> \in Seq(ForUsers)
            BY <1>1, <1>2, OneTo DEF Why
        <3>2. CASE e.action \in {"open", "reopen", "update"}
            BY <1>5, <2>3, <3>1, <3>2
        <3>3. CASE e.action \notin {"open", "reopen", "update"}
            <4>1. e.action \in Why
                BY <1>1, <2>3, <3>3, NamedAreActors DEF Proper, Action, Why
            <4>2. <<To(e, e.action, all)>> \in Seq(ForUsers)
                BY <1>1, <1>2, <4>1, OneTo
            <4>3. QED
                BY <2>3, <3>3, <4>2
        <3>4. QED
            BY <3>2, <3>3
    <2>4. QED
        BY <2>1, <2>2, <2>3
<1>7. <<To(e, "none", {})>> \in Seq(ForUsers) /\ Mention(e, e.sender) \in Seq(ForUsers)
    BY <1>1, OneTo, NamedAreActors, MentionType DEF Why
<1>8. DMMergeRequest(e) = IF list = <<>> THEN <<To(e, "none", {})>> ELSE list \o Mention(e, e.sender)
    BY Zenon DEF DMMergeRequest
<1>9. e.action = "update" /\ e.item.state = "opened" => list = updated
    OBVIOUS
<1>10. assigned # {} => first[1] = To(e, "assigned", Usernames(assigned))
    BY DEF If
<1> HIDE DEF list, updated, first, assigned
<1>11. DMMergeRequest(e) \in Seq(ForUsers)
    BY <1>6, <1>7, <1>8
<1>12. list # <<>> => DMMergeRequest(e) # <<>> /\ DMMergeRequest(e)[1] = list[1]
    BY <1>6, <1>7, <1>8
<1>13. e.action = "update" /\ e.item.state = "opened" /\ assigned # {} =>
            DMMergeRequest(e) # <<>> /\ DMMergeRequest(e)[1] = To(e, "assigned", Usernames(assigned))
    BY <1>5, <1>9, <1>10, <1>12
<1>14. QED
    BY <1>11, <1>13 DEF assigned

\* The other handlers for users.
LEMMA DMTypes ==
    ASSUME NEW e \in Event
    PROVE  /\ DMIssue(e) \in Seq(ForUsers)
           /\ DMIssueComment(e) \in Seq(ForUsers)
           /\ DMMergeRequestComment(e) \in Seq(ForUsers)
           /\ DMPipeline(e) \in Seq(ForUsers)
           /\ DMPush(e) \in Seq(ForUsers)
           /\ DMTag(e) \in Seq(ForUsers)
<1>1. Mention(e, e.sender) \in Seq(ForUsers) /\ Mention(e, None) \in Seq(ForUsers)
    BY NamedAreActors, MentionType
<1>2. DMIssue(e) \in Seq(ForUsers)
    <2> DEFINE all == e.item.assignees \cup Usernames({e.item.author})
               opened == If(e.item.assignees # {}, To(e, "assigned", all))
               list ==
                CASE e.action = "open" -> opened
                  [] e.action = "close" -> <<To(e, "closed", all)>>
                  [] e.action = "reopen" -> <<To(e, "reopened", all)>>
                  [] OTHER -> <<>>
    <2>1. all \in SUBSET Actor
        BY NamedAreActors, UsernamesType
    <2>2. {"assigned", "closed", "reopened"} \subseteq Why
        BY DEF Why
    <2> HIDE DEF all
    <2>3. opened \in Seq(ForUsers) /\ <<To(e, "closed", all)>> \in Seq(ForUsers)
          /\ <<To(e, "reopened", all)>> \in Seq(ForUsers) /\ <<>> \in Seq(ForUsers)
        BY <2>1, <2>2, OneTo
    <2> HIDE DEF opened
    <2>4. list \in Seq(ForUsers)
        <3>1. CASE e.action \in {"open", "close", "reopen"}
            BY <2>3, <3>1
        <3>2. CASE e.action \notin {"open", "close", "reopen"}
            BY <2>3, <3>2
        <3>3. QED
            BY <3>1, <3>2
    <2>5. DMIssue(e) = IF list = <<>> THEN <<>> ELSE list \o Mention(e, e.sender)
        BY Zenon DEF DMIssue, opened, all
    <2> HIDE DEF list
    <2>6. QED
        BY <1>1, <2>4, <2>5
<1>3. DMIssueComment(e) \in Seq(ForUsers)
    <2>1. Usernames({e.item.author} \cup e.item.assignees) \in SUBSET Actor
        BY NamedAreActors, UsernamesType
    <2>2. <<To(e, "commented", Usernames({e.item.author} \cup e.item.assignees))>> \in Seq(ForUsers)
        BY <2>1, OneTo DEF Why
    <2>3. QED
        BY <1>1, <2>2, ConcatProperties DEF DMIssueComment
<1>4. DMMergeRequestComment(e) \in Seq(ForUsers)
    <2>1. Usernames({e.item.author, e.assignee}) \in SUBSET Actor
        BY NamedAreActors, UsernamesType
    <2>2. <<To(e, "commented", Usernames({e.item.author, e.assignee}))>> \in Seq(ForUsers)
        BY <2>1, OneTo DEF Why
    <2>3. QED
        BY <1>1, <2>2, ConcatProperties DEF DMMergeRequestComment
<1>5. DMPipeline(e) \in Seq(ForUsers)
    <2> DEFINE r == [from |-> None, why |-> "failed", tos |-> {e.sender}, chans |-> NoChannel]
    <2>1. r \in ForUsers
        BY NamedAreActors, NoChannelType DEF ForUsers, Draft, Why
    <2> HIDE DEF r
    <2>2. If(e.action = "failed", r) \in Seq(ForUsers)
        BY <2>1, IfType
    <2>3. QED
        BY <1>1, <2>2, ConcatProperties DEF DMPipeline, r
<1>6. DMPush(e) \in Seq(ForUsers) /\ DMTag(e) \in Seq(ForUsers)
    BY <1>1 DEF DMPush, DMTag
<1>7. QED
    BY <1>2, <1>3, <1>4, <1>5, <1>6

-----------------------------------------------------------------------------
(* The handlers of an event *)

\* The list d of handlers for users is followed by the list p of those for the channels of
\* some subscriptions: no more than a channel may get, of subscriptions that are active and,
\* for a confidential issue, ask to see it.
Shape(d, p, asking, e) ==
    /\ d \in Seq(ForUsers)
    /\ asking \in SUBSET Subscribed
    /\ p \in Seq(ForChannels(asking)) /\ Len(p) <= Limit(e)
    /\ ShowsConfidential(e) => \A j \in asking : AsksToSee(subs[j], e)

LEMMA SubscribedType ==
    /\ Subscribed \in SUBSET DOMAIN subs
    /\ \A f : Asking(f) \in SUBSET Subscribed
    /\ \A f, e : AskingFor(f, e) \in SUBSET Subscribed
    BY DEF Subscribed, Asking, AskingFor

\* A list of posts after one of handlers for users has the shape.
LEMMA PostShape ==
    ASSUME subs \in Seq(Sub), NEW e \in Event, NEW d \in Seq(ForUsers),
           NEW asking \in SUBSET Subscribed, NEW from \in Actor, NEW n \in Nat, n <= Limit(e),
           ShowsConfidential(e) => \A j \in asking : AsksToSee(subs[j], e)
    PROVE  Shape(d, Post(from, n, asking), asking, e)
<1>1. asking \in SUBSET DOMAIN subs
    BY SubscribedType
<1>2. /\ Post(from, n, asking) \in Seq(ForChannels(asking))
      /\ Len(Post(from, n, asking)) <= n
    BY <1>1, PostType
<1>3. Len(Post(from, n, asking)) \in Nat /\ Limit(e) \in Nat
    BY <1>2, ReassignedCount
<1>4. QED
    BY <1>2, <1>3 DEF Shape

\* The messages of most events.
LEMMA OneMessage ==
    ASSUME NEW e \in Event, e.kind # "merge" \/ e.action # "update"
    PROVE  /\ Limit(e) = 1
           /\ Messages(e) \in Nat /\ Messages(e) <= 1
           /\ IssueMessages(e) \in Nat /\ IssueMessages(e) <= 1
    BY DEF Limit, Messages, IssueMessages

LEMMA MergeRequestShape ==
    ASSUME subs \in Seq(Sub), NEW e \in Event, e.kind = "merge", NEW d \in Seq(ForUsers)
    PROVE  \E asking : Shape(d, ChannelMergeRequest(e), asking, e)
<1>1. CASE e.action = "update"
    <2> DEFINE asking == AskingFor("merges", e) \cup AskingFor("merge_request_assigns", e)
    <2>1. asking \in SUBSET Subscribed /\ ~ShowsConfidential(e)
        BY SubscribedType DEF ShowsConfidential
    <2> HIDE DEF asking
    <2>2. Reassigned(e) \in Nat /\ Reassigned(e) <= Limit(e) /\ e.sender \in Actor
        BY <1>1, ReassignedCount, NamedAreActors DEF Limit
    <2>3. Shape(d, Post(e.sender, Reassigned(e), asking), asking, e)
        BY <2>1, <2>2, PostShape
    <2>4. QED
        BY <1>1, <2>3 DEF ChannelMergeRequest, asking
<1>2. CASE e.action # "update"
    <2>1. e.sender \in Actor /\ 1 <= Limit(e) /\ ~ShowsConfidential(e)
        BY <1>2, NamedAreActors, OneMessage DEF ShowsConfidential
    <2>2. Shape(d, Post(e.sender, 1, AskingFor("merges", e)), AskingFor("merges", e), e)
        BY <2>1, SubscribedType, PostShape
    <2>3. QED
        BY <1>2, <2>2 DEF ChannelMergeRequest
<1>3. QED
    BY <1>1, <1>2

LEMMA IssueShape ==
    ASSUME subs \in Seq(Sub), NEW e \in Event, e.kind = "issue", NEW d \in Seq(ForUsers)
    PROVE  \E asking : Shape(d, ChannelIssue(e), asking, e)
<1> DEFINE asking == {j \in AskingFor("issues", e) :
                        e.item.confidential => Has(subs[j], "confidential_issues")}
<1>1. asking \in SUBSET Subscribed
    BY SubscribedType
<1>2. ShowsConfidential(e) => \A j \in asking : AsksToSee(subs[j], e)
    BY DEF Has, ShowsConfidential, AsksToSee, AskingFor
<1> HIDE DEF asking
<1>3. e.sender \in Actor /\ IssueMessages(e) \in Nat /\ IssueMessages(e) <= Limit(e)
    BY NamedAreActors, OneMessage
<1>4. Shape(d, Post(e.sender, IssueMessages(e), asking), asking, e)
    BY <1>1, <1>2, <1>3, PostShape
<1>5. QED
    BY <1>4 DEF ChannelIssue, asking

\* Of any other event there is one post at most, a comment on a confidential issue to those
\* who asked for comments.
LEMMA OtherShape ==
    ASSUME subs \in Seq(Sub), NEW e \in Event, e.kind \notin {"merge", "issue"},
           NEW d \in Seq(ForUsers), NEW asking \in SUBSET Subscribed,
           ShowsConfidential(e) => asking = AskingFor("issue_comments", e)
    PROVE  /\ Shape(d, Post(e.sender, 1, asking), asking, e)
           /\ Shape(d, Post(e.sender, Messages(e), asking), asking, e)
           /\ Shape(d, Post(None, Messages(e), asking), asking, e)
<1>1. /\ e.sender \in Actor /\ None \in Actor /\ 1 <= Limit(e)
      /\ Messages(e) \in Nat /\ Messages(e) <= Limit(e)
    BY NamedAreActors, OneMessage
<1>2. ShowsConfidential(e) => \A j \in asking : AsksToSee(subs[j], e)
    BY DEF AskingFor, Asking, Has, AsksToSee
<1>3. QED
    BY <1>1, <1>2, PostShape

\* Every list of handlers has the shape.
LEMMA HandlersShape ==
    ASSUME subs \in Seq(Sub), NEW e, Proper(e)
    PROVE  \E d, p, asking : Shape(d, p, asking, e) /\ Handlers(e) = d \o p
<1>1. e \in Event /\ e.kind \in Kind /\ e.item.kind \in {"merge", "issue"}
    BY DEF Proper, Event, Item
<1>2. CASE e.kind = "merge"
    <2>1. DMMergeRequest(e) \in Seq(ForUsers)
        BY <1>2, DMMergeRequestType
    <2>2. Handlers(e) = DMMergeRequest(e) \o ChannelMergeRequest(e)
        BY <1>2 DEF Handlers
    <2>3. QED
        BY <1>1, <1>2, <2>1, <2>2, MergeRequestShape
<1>3. CASE e.kind = "issue"
    <2>1. Handlers(e) = DMIssue(e) \o ChannelIssue(e)
        BY <1>3 DEF Handlers
    <2>2. QED
        BY <1>1, <1>3, <2>1, DMTypes, IssueShape
<1>4. ASSUME e.kind \notin {"merge", "issue"},
             NEW d \in Seq(ForUsers), NEW asking \in SUBSET Subscribed,
             ShowsConfidential(e) => asking = AskingFor("issue_comments", e),
             \/ Handlers(e) = d \o Post(e.sender, 1, asking)
             \/ Handlers(e) = d \o Post(e.sender, Messages(e), asking)
             \/ Handlers(e) = d \o Post(None, Messages(e), asking)
      PROVE  \E q, p, s : Shape(q, p, s, e) /\ Handlers(e) = q \o p
    <2>1. /\ Shape(d, Post(e.sender, 1, asking), asking, e)
          /\ Shape(d, Post(e.sender, Messages(e), asking), asking, e)
          /\ Shape(d, Post(None, Messages(e), asking), asking, e)
        BY <1>1, <1>4, OtherShape
    <2>2. QED
        BY <1>4, <2>1
<1>5. CASE e.kind = "note" /\ e.item.kind = "issue"
    <2>1. Handlers(e) = DMIssueComment(e) \o Post(e.sender, 1, AskingFor("issue_comments", e))
        BY <1>5 DEF Handlers, ChannelIssueComment
    <2>2. QED
        BY <1>1, <1>4, <1>5, <2>1, DMTypes, SubscribedType
<1>6. CASE e.kind = "note" /\ e.item.kind = "merge"
    <2>1. Handlers(e) = DMMergeRequestComment(e)
                            \o Post(e.sender, 1, AskingFor("merge_request_comments", e))
        BY <1>6 DEF Handlers, ChannelMergeRequestComment
    <2>2. QED
        BY <1>1, <1>4, <1>6, <2>1, DMTypes, SubscribedType DEF ShowsConfidential
<1>7. CASE e.kind = "pipeline"
    <2>1. Handlers(e) = DMPipeline(e) \o Post(e.sender, Messages(e), Asking("pipeline"))
        BY <1>7 DEF Handlers, ChannelPipeline
    <2>2. QED
        BY <1>1, <1>4, <1>7, <2>1, DMTypes, SubscribedType DEF ShowsConfidential
<1>8. CASE e.kind = "push"
    <2>1. Handlers(e) = DMPush(e) \o Post(e.sender, Messages(e), Asking("pushes"))
        BY <1>8 DEF Handlers, ChannelPush
    <2>2. QED
        BY <1>1, <1>4, <1>8, <2>1, DMTypes, SubscribedType DEF ShowsConfidential
<1>9. CASE e.kind = "tag"
    <2>1. Handlers(e) = DMTag(e) \o Post(e.sender, 1, Asking("tag"))
        BY <1>9 DEF Handlers, ChannelTag
    <2>2. QED
        BY <1>1, <1>4, <1>9, <2>1, DMTypes, SubscribedType DEF ShowsConfidential
<1>10. CASE e.kind \in {"job", "release", "deployment"}
    <2> DEFINE asking == Asking(IF e.kind = "job" THEN "jobs"
                                ELSE IF e.kind = "release" THEN "releases" ELSE "deployments")
               posts == IF e.kind = "deployment" THEN Post(e.sender, Messages(e), asking)
                        ELSE Post(None, Messages(e), asking)
    <2>1. Handlers(e) = posts
        BY <1>10 DEF Handlers, ChannelJob, ChannelRelease, ChannelDeployment
    <2>2. asking \in SUBSET Subscribed
        BY SubscribedType
    <2> HIDE DEF asking
    <2>3. <<>> \in Seq(ForUsers)
        OBVIOUS
    <2>4. /\ Shape(<<>>, Post(e.sender, Messages(e), asking), asking, e)
          /\ Shape(<<>>, Post(None, Messages(e), asking), asking, e)
        BY <1>1, <1>10, <2>2, <2>3, OtherShape DEF ShowsConfidential
    <2>5. Shape(<<>>, posts, asking, e)
        BY <2>4
    <2> HIDE DEF posts
    <2>6. posts = <<>> \o posts
        <3>1. posts \in Seq(ForChannels(asking))
            BY <2>5 DEF Shape
        <3>2. QED
            BY <3>1, ConcatEmptySeq
    <2>7. QED
        BY <2>1, <2>5, <2>6
<1>11. QED
    BY <1>1, <1>2, <1>3, <1>5, <1>6, <1>7, <1>8, <1>9, <1>10 DEF Kind

\* What cleanWebhookHandlerTo makes of a handler: no sender, nobody unknown, each channel once.
LEMMA CleanType ==
    ASSUME NEW r \in Draft
    PROVE  /\ Clean(r) \in Handler
           /\ Clean(r).why = r.why /\ Clean(r).tos = r.tos \ {r.from, None}
           /\ \A c \in Channel : Clean(r).chans[c] = IF r.chans[c] = 0 THEN 0 ELSE 1
<1>1. r.tos \ {r.from, None} \in SUBSET Account
    BY DEF Draft, Actor
<1>2. [c \in Channel |-> IF r.chans[c] = 0 THEN 0 ELSE 1] \in [Channel -> Nat]
    OBVIOUS
<1>3. QED
    BY <1>1, <1>2 DEF Clean, Draft, Handler

Cleaned(s) == [i \in DOMAIN s |-> Clean(s[i])]

\* A cleaned list for the channels of some subscriptions: each channel once in a handler, and
\* in as many as there may be messages.
Tidy(l, asking, e) ==
    /\ l \in Seq(Handler)
    /\ \A i \in DOMAIN l, c \in Channel : l[i].chans[c] # 0 =>
            /\ l[i].chans[c] = 1 /\ i + Limit(e) > Len(l)
            /\ \E j \in asking : subs[j].channel = c

\* The list that is sent, cleaned from one of the shape.
LEMMA CleanList ==
    ASSUME subs \in Seq(Sub), NEW e \in Event, NEW d, NEW p, NEW asking, Shape(d, p, asking, e)
    PROVE  /\ d \o p \in Seq(Draft) /\ DOMAIN Cleaned(d \o p) = 1 .. Len(d \o p)
           /\ Tidy(Cleaned(d \o p), asking, e)
<1> DEFINE s == d \o p
           l == Cleaned(s)
<1>1. d \in Seq(Draft) /\ p \in Seq(Draft)
    BY DEF Shape, ForUsers, ForChannels
<1>2. /\ s \in Seq(Draft) /\ Len(s) = Len(d) + Len(p) /\ Len(d) \in Nat /\ Len(p) \in Nat
      /\ \A i \in 1 .. Len(s) : s[i] = IF i <= Len(d) THEN d[i] ELSE p[i - Len(d)]
    BY <1>1
<1>3. \A i \in 1 .. Len(s) : s[i] \in Draft
    BY <1>2, ElementOfSeq
<1>4. \A i \in 1 .. Len(s) : Clean(s[i]) \in Handler
    BY <1>3, CleanType
<1>5. DOMAIN s = 1 .. Len(s) /\ Len(s) \in Nat
    BY <1>2
<1>6. l \in Seq(Handler) /\ Len(l) = Len(s) /\ DOMAIN l = 1 .. Len(s)
    BY <1>4, <1>5 DEF Cleaned
<1>7. ASSUME NEW i \in 1 .. Len(s), NEW c \in Channel, l[i].chans[c] # 0
      PROVE  /\ l[i].chans[c] = 1 /\ i + Limit(e) > Len(l)
             /\ \E j \in asking : subs[j].channel = c
    <2>1. l[i] = Clean(s[i])
        BY <1>5 DEF Cleaned
    <2>2. l[i].chans[c] = 1 /\ s[i].chans[c] # 0
        BY <1>3, <1>7, <2>1, CleanType
    <2>3. ~ i <= Len(d)
        <3>1. SUFFICES ASSUME i <= Len(d) PROVE FALSE
            OBVIOUS
        <3>2. s[i] = d[i] /\ i \in 1 .. Len(d)
            BY <1>2, <3>1
        <3>3. d[i] \in ForUsers
            BY <3>2, ElementOfSeq DEF Shape
        <3>4. QED
            BY <2>2, <3>2, <3>3 DEF ForUsers, NoChannel
    <2>4. s[i] = p[i - Len(d)] /\ i - Len(d) \in 1 .. Len(p)
        BY <1>2, <2>3
    <2>5. p[i - Len(d)] \in ForChannels(asking)
        BY <2>4, ElementOfSeq DEF Shape
    <2>6. Channels(asking)[c] # 0
        BY <2>2, <2>4, <2>5 DEF ForChannels
    <2>7. asking \in SUBSET DOMAIN subs
        BY SubscribedType DEF Shape
    <2>8. \E j \in asking : subs[j].channel = c
        BY <2>6, <2>7, ChannelsCount
    <2>9. Limit(e) \in Nat /\ Len(p) <= Limit(e)
        BY ReassignedCount DEF Shape
    <2>10. i + Limit(e) > Len(l)
        BY <1>2, <1>6, <2>3, <2>9
    <2>11. QED
        BY <2>2, <2>8, <2>10
<1>8. QED
    BY <1>2, <1>6, <1>7 DEF Tidy

-----------------------------------------------------------------------------
(* The types *)

LEMMA NoHookType == NoHook \in HookType
<1>1. <<>> \in Seq(Handler)
    OBVIOUS
<1>2. QED
    BY <1>1, NoChannelType DEF NoHook, HookType

\* The initial states have the types.
LEMMA InitType == Init => TypeOK
<1>1. SUFFICES ASSUME Init PROVE TypeOK
    OBVIOUS
<1>2. project \in Project /\ subs \in Seq(Sub)
    BY <1>1, ConstantsAssumption DEF Init
<1>3. idname \subseteq Account /\ item \in Item /\ who \in [Account -> User \cup {None}]
      /\ calls \subseteq Event
    BY <1>1 DEF Init
<1>4. info \in [User -> [account : Account, notify : BOOLEAN] \cup {None}]
    BY <1>1 DEF Init
<1>5. hook \in [Hook -> HookType]
    BY <1>1, NoHookType DEF Init
<1>6. events \in 0 .. MaxEvents /\ changes \in 0 .. MaxChanges
    BY <1>1, ConstantsAssumption DEF Init
<1>7. QED
    BY <1>2, <1>3, <1>4, <1>5, <1>6 DEF TypeOK, HookType

\* What is sent is a message to an account.
LEMMA ToldType ==
    ASSUME NEW S \in SUBSET Account, NEW why \in Why
    PROVE  {[to |-> a, why |-> why] : a \in Told(S)} \in SUBSET [to : Account, why : Why]
    BY DEF Told

\* An event of some kind that happens keeps the types and adds to the calls.
LEMMA HappensType ==
    ASSUME TypeOK, NEW kind \in Kind, NEW action \in Action, NEW a \in Account, NEW i \in Item,
           Happens(kind, action, a, i),
           kind = "merge" =>
                /\ action \notin {"running", "failed", "other"}
                /\ action = "close" => i.state = "closed"
                /\ action = "merge" => i.state = "merged"
    PROVE  /\ TypeOK'
           /\ \A e \in calls' : e \in calls \/ Proper(e)
           /\ UNCHANGED <<subs, users, hook>>
<1>1. /\ events < MaxEvents /\ events' = events + 1 /\ item' = i
      /\ UNCHANGED <<project, subs, users, hook, changes>>
    BY Zenon DEF Happens
<1>2. PICK m \in SUBSET Account, x \in NamedBy(kind, i) :
        calls' = calls \cup {[id |-> events', kind |-> kind, action |-> action, sender |-> a,
                              item |-> i, before |-> item, assignee |-> x, mentions |-> m]}
    BY DEF Happens
<1>3. x \in Actor
    BY <1>2 DEF NamedBy, Item, Actor
<1>4. events' \in 0 .. MaxEvents /\ events' \in Nat
    BY <1>1, ConstantsAssumption DEF TypeOK
<1> DEFINE e == [id |-> events', kind |-> kind, action |-> action, sender |-> a,
                 item |-> i, before |-> item, assignee |-> x, mentions |-> m]
<1>5. e \in Event
    BY <1>2, <1>3, <1>4 DEF Event, TypeOK
<1>6. e.kind = kind /\ e.action = action /\ e.item = i
    OBVIOUS
<1> HIDE DEF e
<1>7. Proper(e)
    BY <1>5, <1>6 DEF Proper
<1>8. calls' = calls \cup {e}
    BY <1>2 DEF e
<1>9. TypeOK'
    BY <1>1, <1>4, <1>5, <1>8 DEF TypeOK, users
<1>10. QED
    BY <1>1, <1>7, <1>8, <1>9

-----------------------------------------------------------------------------
(* Steps of GitLab and of the users *)

\* What happens in GitLab keeps the types and makes proper events.
LEMMA GitlabStep ==
    ASSUME IInv, NEW a \in Account, Gitlab(a)
    PROVE  TypeOK' /\ (\A e \in calls' : Proper(e)) /\ UNCHANGED <<subs, users, hook>>
<1>1. TypeOK /\ (\A e \in calls : Proper(e)) /\ item \in Item /\ item.kind \in Kind
      /\ project \in Project /\ item.kind \in {"merge", "issue"}
    BY DEF IInv, TypeOK, Item, Kind
<1>2. \A s, r \in SUBSET Account, l \in SUBSET project.labels :
        [item EXCEPT !.assignees = s, !.reviewers = r, !.labels = l] \in Item
        /\ [item EXCEPT !.state = "opened", !.author = a, !.assignees = s,
                        !.reviewers = r, !.labels = l] \in Item
    BY <1>1 DEF Item, Project, Actor
<1>3. \A t \in {"opened", "closed", "merged"} :
        [item EXCEPT !.state = t] \in Item /\ [item EXCEPT !.state = t].state = t
    BY <1>1 DEF Item
<1>4. CASE Open(a)
    BY <1>1, <1>2, <1>4, HappensType DEF Open, Action
<1>5. CASE Update(a)
    BY <1>1, <1>2, <1>5, HappensType DEF Update, Action
<1>6. CASE Review(a)
    BY <1>1, <1>6, HappensType DEF Review, Action
<1>7. CASE Close(a)
    BY <1>1, <1>3, <1>7, HappensType DEF Close, Action
<1>8. CASE Reopen(a)
    BY <1>1, <1>3, <1>8, HappensType DEF Reopen, Action
<1>9. CASE Merge(a)
    BY <1>1, <1>3, <1>9, HappensType DEF Merge, Action
<1>10. CASE Comment(a)
    <2>1. "note" \in Kind /\ "open" \in Action
        BY DEF Kind, Action
    <2>2. QED
        BY <1>1, <1>10, <2>1, HappensType DEF Comment
<1>11. CASE Other(a)
    <2>1. PICK k \in {"pipeline", "push", "tag", "job", "release", "deployment"},
               x \in {"running", "failed", "other"} : Happens(k, x, a, item)
        BY <1>11 DEF Other
    <2>2. k \in Kind /\ k # "merge" /\ x \in Action
        BY DEF Kind, Action
    <2>3. QED
        BY <1>1, <2>1, <2>2, HappensType
<1>12. QED
    BY <1>4, <1>5, <1>6, <1>7, <1>8, <1>9, <1>10, <1>11 DEF Gitlab

\* A goroutine keeps its invariant if neither its state nor what it depends on changes.
LEMMA HookSame ==
    ASSUME IInv, UNCHANGED <<subs, users>>, NEW h \in Hook, hook'[h] = hook[h]
    PROVE  HookInv(hook[h])'
<1>1. HookInv(hook[h])
    BY DEF IInv
<1>2. \A a : Reachable(a)' <=> Reachable(a)
    BY DEF Reachable, users
<1>3. \A c, e : AsksForIt(c, e)' <=> AsksForIt(c, e)
    BY DEF AsksForIt
<1>4. Fresh(hook[h])' /\ Serves(hook[h])' /\ Once(hook[h])' /\ Bounded(hook[h])' /\ Assigned(hook[h])'
    BY <1>1 DEF HookInv, Fresh, Serves, Once, Bounded, Assigned
<1>5. Asked(hook[h])'
    BY <1>1, <1>3 DEF HookInv, Asked
<1>6. Steady(hook[h])'
    BY <1>1, <1>2 DEF HookInv, Steady
<1>7. QED
    BY <1>4, <1>5, <1>6 DEF HookInv

\* When users change, accounts that cannot be reached any more are no longer steady.
LEMMA HookUnsettled ==
    ASSUME IInv, UNCHANGED subs, Unsettle, NEW h \in Hook
    PROVE  HookInv(hook[h])'
<1> DEFINE x == hook[h]
           T == {a \in x.steady : Reachable(a)'}
           y == [x EXCEPT !.steady = T]
<1>1. HookInv(x) /\ x \in HookType
    BY DEF IInv, TypeOK, HookType
<1>2. hook'[h] = y
    BY DEF Unsettle
<1>3. /\ y.st = x.st /\ y.event = x.event /\ y.list = x.list /\ y.already = x.already
      /\ y.sent = x.sent /\ y.posted = x.posted /\ y.steady = T
    BY <1>1 DEF HookType
<1>4. T \subseteq x.steady /\ \A a \in T : Reachable(a)'
    OBVIOUS
<1>5. \A c, e : AsksForIt(c, e)' <=> AsksForIt(c, e)
    BY DEF AsksForIt
<1> HIDE DEF x, y, T
<1>6. Fresh(y) /\ Serves(y) /\ Once(y) /\ Bounded(y)
    BY <1>1, <1>3 DEF HookInv, Fresh, Serves, Once, Bounded
<1>7. Assigned(y)
    BY <1>1, <1>3, <1>4 DEF HookInv, Assigned
<1>8. Fresh(hook[h])' /\ Serves(hook[h])' /\ Once(hook[h])' /\ Bounded(hook[h])' /\ Assigned(hook[h])'
    BY <1>2, <1>6, <1>7 DEF Fresh, Serves, Once, Bounded, Assigned
<1>9. Asked(y)
    BY <1>1, <1>3 DEF HookInv, Asked
<1>10. Asked(hook[h])'
    BY <1>2, <1>5, <1>9 DEF Asked
<1>11. Steady(hook[h])'
    BY <1>2, <1>3, <1>4 DEF Steady
<1>12. QED
    BY <1>8, <1>10, <1>11 DEF HookInv

\* A change of the users' connections and settings.
LEMMA ChangeStep ==
    ASSUME IInv, Change,
           who' \in [Account -> User \cup {None}], idname' \subseteq Account,
           info' \in [User -> [account : Account, notify : BOOLEAN] \cup {None}]
    PROVE  IInv'
<1>1. changes' \in 0 .. MaxChanges
    BY ConstantsAssumption DEF IInv, TypeOK, Change
<1>2. hook' \in [Hook -> HookType]
    <2>1. \A h \in Hook : hook[h] \in HookType
        BY DEF IInv, TypeOK, HookType
    <2>2. ASSUME NEW x \in HookType, NEW T \in SUBSET x.steady
          PROVE  [x EXCEPT !.steady = T] \in HookType
        BY DEF HookType
    <2>3. \A h \in Hook : [hook[h] EXCEPT !.steady = {a \in @ : Reachable(a)'}] \in HookType
        BY <2>1, <2>2
    <2>4. QED
        BY <2>3 DEF Change, Unsettle
<1>3. TypeOK'
    BY <1>1, <1>2 DEF IInv, TypeOK, HookType, Change
<1>4. \A h \in Hook : HookInv(hook[h])'
    BY HookUnsettled DEF Change
<1>5. (\A e \in calls : Proper(e))'
    BY DEF IInv, Change
<1>6. QED
    BY <1>3, <1>4, <1>5 DEF IInv

\* Every step of a user.
LEMMA UserStep ==
    ASSUME IInv, NEW u \in User,
           (\E a \in Account : Connect(u, a)) \/ Disconnect(u) \/ Settings(u) \/ UpdateSettings(u)
    PROVE  IInv'
<1> DEFINE Known == [account : Account, notify : BOOLEAN]
<1>1. /\ who \in [Account -> User \cup {None}] /\ idname \subseteq Account
      /\ info \in [User -> Known \cup {None}]
    BY DEF IInv, TypeOK
<1>2. CASE \E a \in Account : Connect(u, a)
    BY <1>1, <1>2, ChangeStep DEF Connect
<1>3. CASE Disconnect(u)
    BY <1>1, <1>3, ChangeStep DEF Disconnect
<1>4. CASE Settings(u)
    <2>1. info[u] \in Known /\ info[u].account \in Account
        BY <1>1, <1>4 DEF Settings
    <2>2. \A on \in BOOLEAN : [info EXCEPT ![u].notify = on] \in [User -> Known \cup {None}]
        BY <1>1, <2>1
    <2>3. PICK on \in BOOLEAN :
            /\ info' = [info EXCEPT ![u].notify = on]
            /\ who' = [who EXCEPT ![info[u].account] = IF on THEN u ELSE None]
            /\ idname' = IF on THEN idname \cup {info[u].account} ELSE idname
        BY <1>4 DEF Settings
    <2>4. who' \in [Account -> User \cup {None}] /\ idname' \subseteq Account
        BY <1>1, <2>1, <2>3
    <2>5. QED
        BY <1>4, <2>2, <2>3, <2>4, ChangeStep DEF Settings
<1>5. CASE UpdateSettings(u)
    <2>1. info[u] \in Known
        BY <1>1, <1>5 DEF UpdateSettings
    <2>2. [info EXCEPT ![u].notify = ~@] \in [User -> Known \cup {None}]
        BY <1>1, <2>1
    <2>3. QED
        BY <1>1, <1>5, <2>2, ChangeStep DEF UpdateSettings
<1>6. QED
    BY <1>2, <1>3, <1>4, <1>5

-----------------------------------------------------------------------------
(* Steps of a goroutine *)

\* A goroutine that takes a step to a state for which the invariant holds keeps it.
LEMMA HookStep ==
    ASSUME IInv, NEW h \in Hook, NEW y \in HookType, HookInv(y), hook' = [hook EXCEPT ![h] = y],
           calls' \subseteq calls, UNCHANGED <<project, item, subs, users, events, changes>>
    PROVE  IInv'
<1>1. TypeOK'
    BY DEF IInv, TypeOK, HookType, users
<1>2. (\A e \in calls : Proper(e))'
    BY DEF IInv
<1>3. ASSUME NEW g \in Hook PROVE HookInv(hook[g])'
    <2>1. CASE g # h
        <3>1. hook'[g] = hook[g]
            BY <2>1 DEF IInv, TypeOK
        <3>2. QED
            BY <3>1, HookSame
    <2>2. CASE g = h
        <3>1. hook'[g] = y
            BY <2>2 DEF IInv, TypeOK
        <3>2. \A a : Reachable(a)' <=> Reachable(a)
            BY DEF Reachable, users
        <3>3. \A c, e : AsksForIt(c, e)' <=> AsksForIt(c, e)
            BY DEF AsksForIt
        <3>4. /\ Fresh(hook[g])' /\ Serves(hook[g])' /\ Once(hook[g])'
              /\ Bounded(hook[g])' /\ Assigned(hook[g])'
            BY <3>1 DEF HookInv, Fresh, Serves, Once, Bounded, Assigned
        <3>5. Asked(hook[g])'
            BY <3>1, <3>3 DEF HookInv, Asked
        <3>6. Steady(hook[g])'
            BY <3>1, <3>2 DEF HookInv, Steady
        <3>7. QED
            BY <3>4, <3>5, <3>6 DEF HookInv
    <2>3. QED
        BY <2>1, <2>2
<1>4. QED
    BY <1>1, <1>2, <1>3 DEF IInv

\* The goroutine is idle again.
LEMMA IdleInv == HookInv(NoHook)
<1>1. NoHook.st = "idle" /\ NoHook.sent = {} /\ NoHook.posted = NoChannel /\ NoHook.steady = {}
    BY DEF NoHook
<1>2. QED
    BY <1>1 DEF HookInv, Fresh, Serves, Once, Bounded, Asked, Steady, Assigned

LEMMA ReceiveStep ==
    ASSUME IInv, NEW h \in Hook, Receive(h)
    PROVE  IInv'
<1>1. PICK e \in calls :
        /\ calls' = calls \ {e}
        /\ hook' = [hook EXCEPT ![h] = [NoHook EXCEPT !.st = "handle", !.event = e,
                                                      !.steady = {a \in Account : Reachable(a)}]]
    BY DEF Receive
<1> DEFINE y == [NoHook EXCEPT !.st = "handle", !.event = e,
                               !.steady = {a \in Account : Reachable(a)}]
<1>2. Proper(e) /\ e \in Event
    BY DEF IInv, Proper
<1>3. y \in HookType
    BY <1>2, NoHookType DEF HookType
<1>4. /\ y.st = "handle" /\ y.event = e /\ y.sent = {} /\ y.posted = NoChannel
      /\ y.steady = {a \in Account : Reachable(a)}
    BY DEF NoHook
<1> HIDE DEF y
<1>5. HookInv(y)
    BY <1>2, <1>4 DEF HookInv, Fresh, Serves, Once, Bounded, Asked, Steady, Assigned
<1>6. hook' = [hook EXCEPT ![h] = y]
    BY <1>1 DEF y
<1>7. QED
    BY <1>1, <1>3, <1>5, <1>6, HookStep DEF Receive

\* The cleaned list of an event, for a goroutine that is about to send it.
LEMMA HandleInv ==
    ASSUME IInv, NEW x \in HookType, HookInv(x), x.st = "handle", NEW y, NEW l,
           l = Cleaned(Handlers(x.event)),
           y = [x EXCEPT !.st = "send", !.already = {FromUser(x.event)}, !.list = l]
    PROVE  y \in HookType /\ HookInv(y)
<1> DEFINE e == x.event
           s == Handlers(e)
<1>1. Proper(e) /\ e \in Event
    BY DEF HookInv, Serves, Proper
<1>2. subs \in Seq(Sub)
    BY DEF IInv, TypeOK
<1>3. PICK d, p, asking : Shape(d, p, asking, e) /\ s = d \o p
    BY <1>1, <1>2, HandlersShape
<1> HIDE DEF s
<1>4. s \in Seq(Draft) /\ DOMAIN l = 1 .. Len(s) /\ Tidy(l, asking, e)
    <2>1. /\ d \o p \in Seq(Draft) /\ DOMAIN Cleaned(d \o p) = 1 .. Len(d \o p)
          /\ Tidy(Cleaned(d \o p), asking, e)
        BY <1>1, <1>2, <1>3, CleanList
    <2>2. s = d \o p /\ l = Cleaned(s)
        BY <1>3 DEF s
    <2>3. QED
        BY <2>1, <2>2
<1>5. FromUser(e) \in {None, e.sender} /\ {FromUser(e)} \in SUBSET Actor
    BY <1>1, NamedAreActors DEF FromUser
<1>6. y \in HookType
    BY <1>4, <1>5 DEF HookType, Tidy
<1>7. /\ y.st = "send" /\ y.event = e /\ y.list = l /\ y.already = {FromUser(e)}
      /\ y.sent = {} /\ y.posted = NoChannel /\ y.steady = x.steady
    BY DEF HookType, HookInv, Fresh
<1>8. Fresh(y) /\ Serves(y) /\ Once(y) /\ Steady(y)
    BY <1>1, <1>7 DEF HookInv, Fresh, Serves, Once, Steady
<1>9. Bounded(y)
    <2>1. Limit(e) \in Nat /\ Limit(e) \in 0 .. Limit(e)
        BY <1>1, ReassignedCount
    <2>2. \A c \in Channel : y.posted[c] + Limit(e) <= Limit(e)
        BY <1>7, <2>1 DEF NoChannel
    <2>3. QED
        BY <1>4, <1>7, <2>1, <2>2 DEF Bounded, Tidy
<1>10. Asked(y)
    <2>1. SUFFICES ASSUME ShowsConfidential(e), NEW c \in Channel,
                          y.posted[c] # 0 \/ \E i \in DOMAIN l : l[i].chans[c] # 0
                   PROVE  AsksForIt(c, e)
        BY <1>7 DEF Asked
    <2>2. PICK i \in DOMAIN l : l[i].chans[c] # 0
        BY <1>7, <2>1 DEF NoChannel
    <2>3. PICK j \in asking : subs[j].channel = c
        BY <1>4, <2>2 DEF Tidy
    <2>4. j \in DOMAIN subs /\ AsksToSee(subs[j], e)
        BY <1>3, <2>1, SubscribedType DEF Shape
    <2>5. QED
        BY <2>3, <2>4 DEF AsksForIt
<1>11. Assigned(y)
    <2>1. SUFFICES ASSUME e.kind = "merge", e.action = "update", e.item.state = "opened",
                          NEW a \in ((e.item.assignees \ e.before.assignees) \cap x.steady) \ {e.sender}
                   PROVE  /\ l # <<>> /\ a \notin {FromUser(e)}
                          /\ l[1].why = "assigned" /\ a \in l[1].tos
        BY <1>7 DEF Assigned
    <2> DEFINE assigned == UserDiffs(e.before.assignees, e.item.assignees)
               m == DMMergeRequest(e)
    <2>2. a \in assigned /\ a \in Account /\ a # None
        BY <1>1, ConstantsAssumption DEF UserDiffs, Event, Item
    <2>3. a \in idname
        BY DEF HookInv, Steady, Reachable
    <2>4. a \in Usernames(assigned) /\ Usernames(assigned) \in SUBSET Actor
        <3>1. assigned \in SUBSET Actor
            BY <1>1, NamedAreActors DEF UserDiffs
        <3>2. QED
            BY <2>2, <2>3, <3>1, UsernamesType DEF Usernames
    <2> DEFINE t == To(e, "assigned", Usernames(assigned))
    <2>5. m \in Seq(ForUsers) /\ m # <<>> /\ m[1] = t
        <3>1. assigned # {}
            BY <2>2
        <3>2. QED
            BY <1>1, <2>1, <3>1, DMMergeRequestType
    <2>6. t \in ForUsers
        BY <1>1, <2>4, ToType DEF Why
    <2>7. t.from = e.sender /\ t.why = "assigned" /\ t.tos = Usernames(assigned)
        BY DEF To
    <2> HIDE DEF m, t, assigned
    <2>8. s = m \o ChannelMergeRequest(e)
        BY <2>1 DEF s, m, Handlers
    <2>9. m \in Seq(Draft) /\ t \in Draft
        BY <2>5, <2>6 DEF ForUsers
    <2>10. ChannelMergeRequest(e) \in Seq(Draft)
        <3>1. PICK q : Shape(m, ChannelMergeRequest(e), q, e)
            BY <1>1, <1>2, <2>1, <2>5, MergeRequestShape
        <3>2. QED
            BY <3>1 DEF Shape, ForChannels
    <2>11. s # <<>> /\ s[1] = t
        BY <2>5, <2>8, <2>9, <2>10, FirstOfConcat
    <2>12. 1 \in DOMAIN s /\ DOMAIN s = DOMAIN l
        BY <1>4, <2>11
    <2>13. l[1] = Clean(t)
        BY <2>11, <2>12 DEF s, Cleaned
    <2>14. l[1].why = "assigned" /\ l[1].tos = Usernames(assigned) \ {e.sender, None}
        BY <2>7, <2>9, <2>13, CleanType
    <2>15. l # <<>>
        BY <1>4, <2>12 DEF Tidy
    <2>16. QED
        BY <1>5, <2>1, <2>2, <2>4, <2>14, <2>15
<1>12. QED
    BY <1>6, <1>8, <1>9, <1>10, <1>11 DEF HookInv

LEMMA HandleStep ==
    ASSUME IInv, NEW h \in Hook, Handle(h)
    PROVE  IInv'
<1> DEFINE x == hook[h]
           l == Cleaned(Handlers(x.event))
           y == [x EXCEPT !.st = "send", !.already = {FromUser(x.event)}, !.list = l]
<1>1. x \in HookType /\ HookInv(x) /\ x.st = "handle"
    BY DEF IInv, TypeOK, HookType, Handle
<1>2. y \in HookType /\ HookInv(y)
    <2> HIDE DEF x
    <2>1. QED
        BY <1>1, HandleInv
<1>3. hook' = [hook EXCEPT ![h] = IF Passes THEN y ELSE NoHook]
    BY DEF Handle, Cleaned
<1> HIDE DEF y
<1>4. CASE Passes
    BY <1>2, <1>3, <1>4, HookStep DEF Handle
<1>5. CASE ~Passes
    BY <1>3, <1>5, HookStep, NoHookType, IdleInv DEF Handle
<1>6. QED
    BY <1>4, <1>5

\* The state x after the messages of the first handler of its list are sent.
New(x) == {[to |-> a, why |-> x.list[1].why] : a \in Told(x.list[1].tos \ x.already)}
Posted(x) == [c \in Channel |-> x.posted[c] + x.list[1].chans[c]]
Sent(x) == [x EXCEPT !.list = Tail(x.list),
                     !.already = x.already \cup x.list[1].tos \cup {x.list[1].from},
                     !.sent = x.sent \cup New(x), !.posted = Posted(x)]

\* The messages of a handler go from the list to those who get them.
LEMMA SendInv ==
    ASSUME IInv, NEW x \in HookType, HookInv(x), x.st = "send", x.list # <<>>
    PROVE  Sent(x) \in HookType /\ HookInv(Sent(x))
<1> DEFINE n == Len(x.list)
           r == x.list[1]
           new == New(x)
           post == Posted(x)
           y == Sent(x)
<1>1. /\ x.list \in Seq(Handler) /\ n \in Nat /\ n > 0 /\ DOMAIN x.list = 1 .. n
      /\ x.posted \in [Channel -> Nat] /\ x.already \in SUBSET Actor
      /\ x.sent \in SUBSET [to : Account, why : Why]
    BY DEF HookType
<1>2. /\ Tail(x.list) \in Seq(Handler) /\ Len(Tail(x.list)) = n - 1 /\ DOMAIN Tail(x.list) = 1 .. n - 1
      /\ \A i \in 1 .. n - 1 : Tail(x.list)[i] = x.list[i + 1]
    BY <1>1
<1>3. r \in Handler
    BY <1>1, ElementOfSeq
<1>4. /\ r.chans \in [Channel -> Nat] /\ r.tos \in SUBSET Account /\ r.why \in Why /\ r.from \in Actor
    BY <1>3 DEF Handler
<1>5. new \in SUBSET [to : Account, why : Why]
    BY <1>4, ToldType DEF New
<1>6. post \in [Channel -> Nat]
    BY <1>1, <1>4 DEF Posted
<1>7. \A m \in new : m.to \in r.tos /\ m.to \notin x.already /\ m.why = r.why
    BY DEF Told, New
<1>8. /\ y = [x EXCEPT !.list = Tail(x.list), !.already = x.already \cup r.tos \cup {r.from},
                       !.sent = x.sent \cup new, !.posted = post]
    BY DEF Sent
<1> HIDE DEF y
<1>9. /\ y.st = "send" /\ y.event = x.event /\ y.list = Tail(x.list)
      /\ y.already = x.already \cup r.tos \cup {r.from} /\ y.sent = x.sent \cup new
      /\ y.posted = post /\ y.steady = x.steady
    BY <1>8 DEF HookType
<1>10. y.already \in SUBSET Actor
    BY <1>1, <1>4, <1>9 DEF Actor
<1>11. y \in HookType
    <2>1. x.already \cup r.tos \cup {r.from} \in SUBSET Actor
        BY <1>9, <1>10
    <2>2. x.sent \cup new \in SUBSET [to : Account, why : Why]
        BY <1>1, <1>5
    <2>3. QED
        BY <1>2, <1>6, <1>8, <2>1, <2>2 DEF HookType
<1>12. Fresh(y) /\ Serves(y) /\ Steady(y)
    BY <1>9 DEF HookInv, Fresh, Serves, Steady
<1>13. Once(y)
    <2>1. /\ \A m \in x.sent : m.to \in x.already
          /\ \A m, k \in x.sent : m.to = k.to => m = k
        BY DEF HookInv, Once
    <2>2. \A m \in y.sent : m.to \in y.already
        BY <1>7, <1>9, <2>1
    <2>3. ASSUME NEW m \in y.sent, NEW k \in y.sent, m.to = k.to PROVE m = k
        <3>1. CASE m \in x.sent /\ k \in x.sent
            BY <2>1, <2>3, <3>1
        <3>2. CASE m \in new /\ k \in new
            <4>1. m.why = k.why
                BY <1>7, <3>2
            <4>2. m \in [to : Account, why : Why] /\ k \in [to : Account, why : Why]
                BY <1>5, <3>2
            <4>3. QED
                BY <2>3, <4>1, <4>2
        <3>3. CASE m \in x.sent /\ k \in new
            BY <1>7, <2>1, <2>3, <3>3
        <3>4. CASE m \in new /\ k \in x.sent
            BY <1>7, <2>1, <2>3, <3>4
        <3>5. QED
            BY <1>9, <2>3, <3>1, <3>2, <3>3, <3>4
    <2>4. QED
        BY <2>2, <2>3 DEF Once
<1>14. x.event \in Event
    BY DEF HookInv, Serves, Proper
<1>15. Bounded(y)
    <2> DEFINE lim == Limit(x.event)
    <2>1. lim \in Nat
        BY <1>14, ReassignedCount
    <2>2. PICK k \in 0 .. lim :
            /\ \A c \in Channel : x.posted[c] + k <= lim
            /\ \A i \in DOMAIN x.list, c \in Channel :
                 x.list[i].chans[c] # 0 => x.list[i].chans[c] = 1 /\ i + k > n
        BY DEF HookInv, Bounded
    <2> HIDE DEF lim, n
    <2>3. \A i \in DOMAIN Tail(x.list), c \in Channel :
            Tail(x.list)[i].chans[c] # 0 => Tail(x.list)[i].chans[c] = 1 /\ i + 1 + k > n
        <3>1. SUFFICES ASSUME NEW i \in 1 .. n - 1, NEW c \in Channel, Tail(x.list)[i].chans[c] # 0
                       PROVE  Tail(x.list)[i].chans[c] = 1 /\ i + 1 + k > n
            BY <1>2
        <3>2. Tail(x.list)[i] = x.list[i + 1] /\ i + 1 \in DOMAIN x.list
            BY <1>1, <1>2
        <3>3. QED
            BY <2>2, <3>1, <3>2
    <2>4. SUFFICES \E j \in 0 .. lim :
                    /\ \A c \in Channel : post[c] + j <= lim
                    /\ \A i \in DOMAIN Tail(x.list), c \in Channel :
                        Tail(x.list)[i].chans[c] # 0 =>
                            Tail(x.list)[i].chans[c] = 1 /\ i + j > n - 1
        BY <1>2, <1>9 DEF Bounded, lim
    <2>5. CASE \A c \in Channel : r.chans[c] = 0
        <3>1. \A c \in Channel : post[c] + k <= lim
            BY <1>1, <2>2, <2>5 DEF Posted
        <3>2. \A i \in DOMAIN Tail(x.list) : i + 1 + k > n => i + k > n - 1
            BY <1>1, <1>2, <2>1
        <3>3. QED
            BY <2>2, <2>3, <3>1, <3>2
    <2>6. CASE \E c \in Channel : r.chans[c] # 0
        <3>1. 1 \in DOMAIN x.list /\ k \in Nat
            BY <1>1
        <3>2. (\A c \in Channel : r.chans[c] # 0 => r.chans[c] = 1) /\ 1 + k > n
            BY <2>2, <2>6, <3>1
        <3>3. k - 1 \in 0 .. lim
            BY <1>1, <2>1, <3>1, <3>2
        <3>4. \A c \in Channel : post[c] + (k - 1) <= lim
            <4>1. SUFFICES ASSUME NEW c \in Channel PROVE post[c] + (k - 1) <= lim
                OBVIOUS
            <4>2. x.posted[c] \in Nat /\ r.chans[c] \in {0, 1} /\ post[c] = x.posted[c] + r.chans[c]
                BY <1>1, <3>2 DEF Posted
            <4>3. x.posted[c] + k <= lim
                BY <2>2
            <4>4. QED
                BY <2>1, <3>1, <4>2, <4>3
        <3>5. \A i \in DOMAIN Tail(x.list) : i + (k - 1) > n - 1
            BY <1>1, <1>2, <3>1, <3>2
        <3>6. QED
            BY <2>3, <3>3, <3>4, <3>5
    <2>7. QED
        BY <2>5, <2>6
<1>16. Asked(y)
    <2>1. SUFFICES ASSUME ShowsConfidential(x.event), NEW c \in Channel,
                          post[c] # 0 \/ \E i \in DOMAIN Tail(x.list) : Tail(x.list)[i].chans[c] # 0
                   PROVE  AsksForIt(c, x.event)
        BY <1>9 DEF Asked
    <2>2. x.posted[c] # 0 \/ (\E i \in DOMAIN x.list : x.list[i].chans[c] # 0) => AsksForIt(c, x.event)
        BY <2>1 DEF HookInv, Asked
    <2>3. CASE post[c] # 0
        <3>1. x.posted[c] \in Nat /\ r.chans[c] \in Nat /\ post[c] = x.posted[c] + r.chans[c]
            BY <1>1, <1>4 DEF Posted
        <3>2. x.posted[c] # 0 \/ r.chans[c] # 0
            BY ONLY <2>3, <3>1
        <3>3. 1 \in DOMAIN x.list /\ r = x.list[1]
            BY <1>1
        <3>4. QED
            BY <2>2, <3>2, <3>3
    <2>4. CASE \E i \in DOMAIN Tail(x.list) : Tail(x.list)[i].chans[c] # 0
        <3>1. PICK i \in 1 .. n - 1 : Tail(x.list)[i].chans[c] # 0
            BY <1>2, <2>4
        <3>2. i + 1 \in DOMAIN x.list /\ x.list[i + 1].chans[c] # 0
            BY <1>1, <1>2, <3>1
        <3>3. QED
            BY <2>2, <3>2
    <2>5. QED
        BY <2>1, <2>3, <2>4
<1>17. Assigned(y)
    <2>1. SUFFICES ASSUME x.event.kind = "merge", x.event.action = "update",
                          x.event.item.state = "opened",
                          NEW a \in ((x.event.item.assignees \ x.event.before.assignees)
                                        \cap x.steady) \ {x.event.sender}
                   PROVE  [to |-> a, why |-> "assigned"] \in x.sent \cup new
        BY <1>9 DEF Assigned
    <2>2. \/ [to |-> a, why |-> "assigned"] \in x.sent
          \/ a \notin x.already /\ r.why = "assigned" /\ a \in r.tos
        BY <2>1 DEF HookInv, Assigned
    <2>3. a \in x.steady /\ Reachable(a)
        BY DEF HookInv, Steady
    <2>4. CASE a \notin x.already /\ r.why = "assigned" /\ a \in r.tos
        <3>1. a \in Told(r.tos \ x.already)
            BY <2>3, <2>4 DEF Told, Reachable
        <3>2. QED
            BY <2>4, <3>1 DEF New
    <2>5. QED
        BY <2>2, <2>4
<1>18. y \in HookType /\ HookInv(y)
    BY <1>11, <1>12, <1>13, <1>15, <1>16, <1>17 DEF HookInv
<1>19. QED
    BY <1>18 DEF y

LEMMA SendStep ==
    ASSUME IInv, NEW h \in Hook, Send(h)
    PROVE  IInv'
<1> DEFINE x == hook[h]
           r == Head(x.list)
           new == {[to |-> a, why |-> r.why] : a \in Told(r.tos \ x.already)}
           post == [c \in Channel |-> x.posted[c] + r.chans[c]]
<1>1. x \in HookType /\ HookInv(x) /\ x.st = "send" /\ x.list # <<>>
    BY DEF IInv, TypeOK, HookType, Send
<1>2. r = x.list[1]
    BY <1>1 DEF HookType
<1>3. new = New(x) /\ post = Posted(x)
    BY <1>2 DEF New, Posted
<1>4. hook' = [hook EXCEPT ![h] =
                [x EXCEPT !.list = Tail(x.list), !.already = x.already \cup r.tos \cup {r.from},
                          !.sent = x.sent \cup new, !.posted = post]]
    BY Zenon DEF Send
<1> HIDE DEF r, new, post
<1>5. hook' = [hook EXCEPT ![h] = Sent(x)]
    BY <1>2, <1>3, <1>4 DEF Sent
<1>6. Sent(x) \in HookType /\ HookInv(Sent(x))
    <2> HIDE DEF x
    <2>1. QED
        BY <1>1, SendInv
<1>7. QED
    BY <1>5, <1>6, HookStep DEF Send

LEMMA ReturnStep ==
    ASSUME IInv, NEW h \in Hook, Return(h)
    PROVE  IInv'
<1> DEFINE x == hook[h]
           y == [x EXCEPT !.st = "done"]
<1>1. x \in HookType /\ HookInv(x)
    BY DEF IInv, TypeOK, HookType
<1>2. CASE x.st = "send" /\ x.list = <<>> /\ hook' = [hook EXCEPT ![h].st = "done"]
    <2>1. hook' = [hook EXCEPT ![h] = y]
        BY <1>2
    <2>2. y \in HookType
        BY <1>1 DEF HookType
    <2>3. /\ y.st = "done" /\ y.event = x.event /\ y.list = x.list /\ y.already = x.already
          /\ y.sent = x.sent /\ y.posted = x.posted /\ y.steady = x.steady
        BY <1>1 DEF HookType
    <2> HIDE DEF y
    <2>4. HookInv(y)
        <3> HIDE DEF x
        <3>1. Fresh(y) /\ Serves(y) /\ Once(y) /\ Steady(y)
            BY <1>1, <1>2, <2>3 DEF HookInv, Fresh, Serves, Once, Steady
        <3>2. Bounded(y)
            BY <1>1, <1>2, <2>3 DEF HookInv, Bounded
        <3>3. Asked(y)
            BY <1>1, <1>2, <2>3 DEF HookInv, Asked
        <3>4. Assigned(y)
            BY <1>1, <1>2, <2>3 DEF HookInv, Assigned
        <3>5. QED
            BY <3>1, <3>2, <3>3, <3>4 DEF HookInv
    <2>5. QED
        BY <2>1, <2>2, <2>4, HookStep DEF Return
<1>3. CASE hook' = [hook EXCEPT ![h] = NoHook]
    BY <1>3, HookStep, NoHookType, IdleInv DEF Return
<1>4. QED
    BY <1>2, <1>3 DEF Return

-----------------------------------------------------------------------------
(* The theorems *)

LEMMA Initially == Init => IInv
<1>1. SUFFICES ASSUME Init PROVE IInv
    OBVIOUS
<1>2. TypeOK
    BY <1>1, InitType
<1>3. \A h \in Hook : hook[h] = NoHook
    BY <1>1 DEF Init
<1>4. QED
    BY <1>1, <1>2, <1>3, IdleInv DEF IInv, Init

LEMMA Inductive == IInv /\ [Next]_vars => IInv'
<1>1. SUFFICES ASSUME IInv, [Next]_vars PROVE IInv'
    OBVIOUS
<1>2. CASE \E u \in User :
            (\E a \in Account : Connect(u, a)) \/ Disconnect(u) \/ Settings(u) \/ UpdateSettings(u)
    BY <1>1, <1>2, UserStep
<1>3. CASE \E a \in Account : Gitlab(a)
    <2>1. TypeOK' /\ (\A e \in calls' : Proper(e)) /\ UNCHANGED <<subs, users, hook>>
        BY <1>1, <1>3, GitlabStep
    <2>2. \A h \in Hook : HookInv(hook[h])'
        BY <1>1, <2>1, HookSame
    <2>3. (\A e \in calls : Proper(e))'
        BY <2>1 DEF Proper
    <2>4. QED
        BY <2>1, <2>2, <2>3 DEF IInv
<1>4. CASE \E h \in Hook : Receive(h) \/ Handle(h) \/ Send(h) \/ Return(h)
    BY <1>1, <1>4, ReceiveStep, HandleStep, SendStep, ReturnStep
<1>5. CASE UNCHANGED vars
    <2>1. UNCHANGED <<project, item, subs, who, idname, info, calls, hook, events, changes>>
        BY <1>5 DEF vars
    <2>2. TypeOK'
        BY <1>1, <2>1 DEF IInv, TypeOK
    <2>3. (\A e \in calls : Proper(e))'
        BY <1>1, <2>1 DEF IInv
    <2>4. \A h \in Hook : HookInv(hook[h])'
        BY <1>1, <2>1, HookSame DEF users
    <2>5. QED
        BY <2>2, <2>3, <2>4 DEF IInv
<1>6. QED
    BY <1>1, <1>2, <1>3, <1>4, <1>5 DEF Next

LEMMA Invariance == Spec => []IInv
    BY Initially, Inductive, PTL DEF Spec

\* A user gets one message of an event at most, and a channel no more posts about an event
\* than it has messages.
THEOREM OneMessageEach == Spec => []WebhookInv
<1>1. IInv => WebhookInv
    <2>1. SUFFICES ASSUME IInv PROVE OnceEach
        BY DEF WebhookInv, IInv
    <2>2. ASSUME NEW h \in Hook, NEW m \in hook[h].sent, NEW n \in hook[h].sent, m.to = n.to
          PROVE  m = n
        BY <2>1, <2>2 DEF IInv, HookInv, Once
    <2>3. ASSUME NEW h \in Hook, Done(h), NEW c \in Channel
          PROVE  hook[h].posted[c] <= Limit(hook[h].event)
        <3>1. hook[h].posted[c] \in Nat /\ hook[h].st = "done"
            BY <2>1, <2>3 DEF IInv, TypeOK, HookType, Done
        <3>2. HookInv(hook[h])
            BY <2>1 DEF IInv
        <3>3. hook[h].event \in Event
            BY <3>1, <3>2 DEF HookInv, Serves, Proper
        <3>4. Limit(hook[h].event) \in Nat
            BY <3>3, ReassignedCount
        <3>5. PICK k \in 0 .. Limit(hook[h].event) : hook[h].posted[c] + k <= Limit(hook[h].event)
            BY <3>1, <3>2 DEF HookInv, Bounded
        <3>6. QED
            BY <3>1, <3>4, <3>5
    <2>4. QED
        BY <2>2, <2>3 DEF OnceEach, Limit
<1>2. QED
    BY <1>1, Invariance, PTL

\* Whoever is assigned to an open merge request, and can be reached all the time, is told so.
THEOREM AssigneesAreTold == Spec => []AssignedIsTold
<1>1. IInv => AssignedIsTold
    <2>1. SUFFICES ASSUME IInv, NEW h \in Hook, Done(h), hook[h].event.kind = "merge",
                          hook[h].event.action = "update", hook[h].event.item.state = "opened",
                          NEW a \in NewlyAssigned(h)
                   PROVE  GotA(h, a, "assigned")
        BY DEF AssignedIsTold
    <2>2. Assigned(hook[h]) /\ hook[h].st = "done"
        BY <2>1 DEF IInv, HookInv, Done
    <2>3. QED
        BY <2>1, <2>2 DEF Assigned, NewlyAssigned, GotA
<1>2. QED
    BY <1>1, Invariance, PTL

\* A confidential issue shows up only in channels with a subscription whose text has
\* confidential_issues, a comment on one only where it has issue_comments, and the labels of
\* that subscription match; for any features, labels and texts of labels.
THEOREM ConfidentialOnlyIfAsked == Spec => []ConfidentialAsked
<1>1. IInv => ConfidentialAsked
    <2>1. SUFFICES ASSUME IInv, NEW h \in Hook, NEW c \in Channel, Done(h),
                          ShowsConfidential(hook[h].event), hook[h].posted[c] > 0
                   PROVE  AsksForIt(c, hook[h].event)
        BY DEF ConfidentialAsked, AsksForIt
    <2>2. Asked(hook[h]) /\ hook[h].st = "done" /\ hook[h].posted[c] # 0
        BY <2>1 DEF IInv, HookInv, TypeOK, HookType, Done
    <2>3. QED
        BY <2>1, <2>2 DEF Asked
<1>2. QED
    BY <1>1, Invariance, PTL

\* Only Handle makes a list of handlers.
LEMMA OnlyHandle ==
    ASSUME IInv, [Next]_vars, NEW h \in Hook, hook[h].st = "handle", hook'[h].st = "send"
    PROVE  Handle(h)
<1>1. hook \in [Hook -> HookType] /\ NoHook.st = "idle"
    BY DEF IInv, TypeOK, HookType, NoHook
<1>2. hook' # hook
    OBVIOUS
<1>3. ~Unsettle
    <2>1. \A x \in HookType : \A T : [x EXCEPT !.steady = T].st = x.st
        BY DEF HookType
    <2>2. SUFFICES ASSUME Unsettle PROVE FALSE
        OBVIOUS
    <2>3. hook'[h] = [hook[h] EXCEPT !.steady = {a \in @ : Reachable(a)'}]
        BY <2>2 DEF Unsettle
    <2>4. hook'[h].st = hook[h].st
        BY <1>1, <2>1, <2>3
    <2>5. QED
        BY <2>4
<1>4. ~\E u \in User :
        (\E a \in Account : Connect(u, a)) \/ Disconnect(u) \/ Settings(u) \/ UpdateSettings(u)
    BY <1>3 DEF Connect, Disconnect, Settings, UpdateSettings, Change
<1>5. ~\E a \in Account : Gitlab(a)
    BY <1>2, GitlabStep
<1>6. PICK g \in Hook : Receive(g) \/ Handle(g) \/ Send(g) \/ Return(g)
    BY <1>2, <1>4, <1>5 DEF Next, vars
<1>7. CASE g # h
    <2>1. \E y : hook' = [hook EXCEPT ![g] = y]
        <3>1. CASE Receive(g)
            BY <3>1 DEF Receive
        <3>2. CASE Handle(g)
            BY <3>2 DEF Handle
        <3>3. CASE Send(g)
            BY <3>3, Zenon DEF Send
        <3>4. CASE Return(g)
            BY <3>4 DEF Return
        <3>5. QED
            BY <1>6, <3>1, <3>2, <3>3, <3>4
    <2>2. QED
        BY <1>1, <1>7, <2>1
<1>8. CASE g = h
    <2>1. ~Receive(h) /\ ~Send(h)
        BY DEF Receive, Send
    <2>2. ~Return(h)
        BY DEF Return
    <2>3. QED
        BY <1>6, <1>8, <2>1, <2>2
<1>9. QED
    BY <1>7, <1>8

\* A message about a project that is not public goes only to channels with a subscription
\* whose creator is connected and has access when the list is made.
THEOREM PostsAreInside == Spec => PostsStayInside
<1> DEFINE Inside(h) ==
        \A i \in DOMAIN hook'[h].list, c \in Channel :
            hook'[h].list[i].chans[c] > 0 /\ project.visibility # "public" =>
                \E j \in DOMAIN subs :
                    /\ subs[j].channel = c
                    /\ info[subs[j].creator] # None
                    /\ info[subs[j].creator].account \in project.access
<1>1. ASSUME IInv, [Next]_vars, NEW h \in Hook, hook[h].st = "handle", hook'[h].st = "send"
      PROVE  Inside(h)
    <2> DEFINE x == hook[h]
               e == x.event
               l == Cleaned(Handlers(e))
    <2>1. x \in HookType /\ HookInv(x) /\ subs \in Seq(Sub)
        BY <1>1 DEF IInv, TypeOK, HookType
    <2>2. Proper(e) /\ e \in Event
        BY <1>1, <2>1 DEF HookInv, Serves, Proper
    <2>3. PICK d, p, asking : Shape(d, p, asking, e) /\ Handlers(e) = d \o p
        BY <2>1, <2>2, HandlersShape
    <2>4. Tidy(l, asking, e)
        BY <2>1, <2>2, <2>3, CleanList
    <2>5. hook'[h].list = l
        <3>1. Handle(h)
            BY <1>1, OnlyHandle
        <3>2. hook' = [hook EXCEPT ![h] =
                        IF Passes
                        THEN [x EXCEPT !.st = "send", !.already = {FromUser(e)}, !.list = l]
                        ELSE NoHook]
            BY <3>1 DEF Handle, Cleaned
        <3> HIDE DEF l
        <3>3. hook'[h] = IF Passes
                         THEN [x EXCEPT !.st = "send", !.already = {FromUser(e)}, !.list = l]
                         ELSE NoHook
            BY <1>1, <3>2 DEF IInv, TypeOK
        <3>4. NoHook.st # "send"
            BY DEF NoHook
        <3>5. QED
            BY <1>1, <2>1, <3>3, <3>4 DEF HookType
    <2> HIDE DEF l, e
    <2>6. SUFFICES ASSUME NEW i \in DOMAIN l, NEW c \in Channel, l[i].chans[c] > 0,
                          project.visibility # "public"
                   PROVE  \E j \in DOMAIN subs :
                            /\ subs[j].channel = c
                            /\ info[subs[j].creator] # None
                            /\ info[subs[j].creator].account \in project.access
        BY <2>5
    <2>7. PICK j \in asking : subs[j].channel = c
        BY <2>4, <2>6 DEF Tidy
    <2>8. j \in Subscribed
        BY <2>3 DEF Shape
    <2>9. QED
        BY <2>6, <2>7, <2>8 DEF Subscribed, Permission
<1>2. IInv /\ [Next]_vars => [\A h \in Hook : hook[h].st = "handle" /\ hook'[h].st = "send" => Inside(h)]_vars
    BY <1>1
<1>3. QED
    BY <1>2, Invariance, PTL DEF Spec, PostsStayInside

=============================================================================
