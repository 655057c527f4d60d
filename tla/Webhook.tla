-------------------------------- MODULE Webhook --------------------------------
(***************************************************************************)
(* GitLab's webhook calls: what happens in a project becomes an event,     *)
(* handleWebhook (server/webhook.go) turns it into a list of handlers,     *)
(* each with a message, the GitLab users and the channels it is for        *)
(* (server/webhook/), and then sends the messages, looking each user up    *)
(* by the GitLab name.                                                     *)
(*                                                                         *)
(* Every call runs in a goroutine of its own. A handler of the list is one *)
(* step; users connect, disconnect and change their settings in between.   *)
(***************************************************************************)
EXTENDS Naturals, Sequences, FiniteSets

CONSTANTS
    Account,    \* GitLab users, named by their usernames
    User,       \* Mattermost users
    Channel,
    Label,
    Spells,     \* the names of features that occur in the text of each label
    Hook,       \* goroutines that run handleWebhook
    None,       \* no user; also the empty username and a name that is no username
    Scenes,     \* projects with their subscriptions, those to the project before those to
                \* its group
    MaxEvents,  \* bound: events
    MaxMentions,\* bound: accounts mentioned in a text
    MaxChanges  \* bound: connections, disconnections and changes of settings

Feature == {"merges", "issues", "confidential_issues", "issue_comments",
            "merge_request_comments", "merge_request_assigns", "pipeline", "pushes", "tag",
            "jobs", "releases", "deployments"}
Sub == [channel : Channel, creator : User, features : SUBSET Feature, labels : SUBSET Label]
Kind == {"merge", "issue", "note", "pipeline", "push", "tag", "job", "release", "deployment"}

\* A project: the kinds of events its webhook is enabled for, its labels, the accounts with
\* more than guest access, and the settings: the group lock lets it pass, EnablePrivateRepo.
Project == [kinds : SUBSET Kind, labels : SUBSET Label,
            visibility : {"public", "internal", "private"},
            access : SUBSET Account, allowed : BOOLEAN, private : BOOLEAN]

ASSUME ConstantsAssumption ==
    /\ MaxEvents \in Nat /\ MaxMentions \in Nat /\ MaxChanges \in Nat
    /\ Spells \in [Label -> SUBSET Feature]
    /\ None \notin Account \cup User
    /\ IsFiniteSet(Account)
    /\ Scenes \subseteq [project : Project, subs : Seq(Sub)]

VARIABLES
    project,    \* the project, which does not change
    item,       \* a merge request or an issue of the project
    subs,       \* the subscriptions to the project and to its group
    who,        \* stored mapping of usernames to users
    idname,     \* accounts with a stored mapping of their ID to their username
    info,       \* the stored info of each user, or None
    calls,      \* events on their way to the plugin
    hook,       \* the goroutines
    events, changes

users == <<who, idname, info>>
vars == <<project, item, subs, who, idname, info, calls, hook, events, changes>>

Actor == Account \cup {None}
Item == [kind : {"merge", "issue"}, state : {"none", "opened", "closed", "merged"},
         author : Actor, assignees : SUBSET Account, reviewers : SUBSET Account,
         labels : SUBSET Label, confidential : BOOLEAN]

\* What a user does to an item, or what becomes of a pipeline, a push or the like.
Action == {"open", "update", "approved", "unapproved", "close", "reopen", "merge",
           "running", "failed", "other"}

Event == [id : Nat, kind : Kind, action : Action, sender : Account, item : Item, before : Item,
          assignee : Actor, mentions : SUBSET Account]

\* Messages are told apart by their purpose.
Why == {"none", "post", "review", "reopened", "assigned", "unassigned", "approved",
        "unapproved", "closed", "merged", "commented", "failed", "mention"}

\* A handler of the list; chans counts how often a channel is in it.
Handler == [from : Actor, why : Why, tos : SUBSET Account, chans : [Channel -> Nat]]

NoChannel == [c \in Channel |-> 0]

NoHook == [st |-> "idle", event |-> None, list |-> <<>>, already |-> {}, sent |-> {},
           posted |-> NoChannel, steady |-> {}]

HookType == [st : {"idle", "handle", "send", "done"}, event : Event \cup {None},
             list : Seq(Handler), already : SUBSET Actor, sent : SUBSET [to : Account, why : Why],
             posted : [Channel -> Nat], steady : SUBSET Account]

TypeOK ==
    /\ project \in Project /\ subs \in Seq(Sub)
    /\ item \in Item
    /\ who \in [Account -> User \cup {None}]
    /\ idname \subseteq Account
    /\ info \in [User -> [account : Account, notify : BOOLEAN] \cup {None}]
    /\ calls \subseteq Event
    /\ hook \in [Hook -> HookType]
    /\ events \in 0 .. MaxEvents /\ changes \in 0 .. MaxChanges

\* An item that GitLab has in some state, and users each of whom is connected with an
\* account of their own, or not connected.
Init ==
    /\ \E s \in Scenes : project = s.project /\ subs = s.subs
    /\ item \in Item
    /\ item.state = "none" <=> item.author = None
    /\ item.state = "none" => item.assignees = {} /\ item.reviewers = {} /\ item.labels = {}
    /\ item.kind = "issue" => item.reviewers = {} /\ item.state # "merged"
    /\ item.kind = "merge" => ~item.confidential
    /\ item.labels \subseteq project.labels
    /\ item.kind \in project.kinds \/ item.state = "none"
    /\ who \in [Account -> User \cup {None}]
    /\ \A a, b \in Account : who[a] = who[b] => a = b \/ who[a] = None
    /\ idname = {a \in Account : who[a] # None}
    /\ info = [u \in User |->
                IF \E a \in Account : who[a] = u
                THEN [account |-> CHOOSE a \in Account : who[a] = u, notify |-> TRUE]
                ELSE None]
    /\ calls = {}
    /\ hook = [h \in Hook |-> NoHook]
    /\ events = 0 /\ changes = 0

-----------------------------------------------------------------------------
(* The users *)

\* The plugin can send account a's user a direct message.
Reachable(a) ==
    /\ a \in idname
    /\ who[a] # None
    /\ info[who[a]] # None
    /\ info[who[a]].notify

\* History: accounts that could be reached ever since the call was received.
Unsettle == hook' = [h \in Hook |-> [hook[h] EXCEPT !.steady = {a \in @ : Reachable(a)'}]]

Change ==
    /\ changes < MaxChanges
    /\ changes' = changes + 1
    /\ Unsettle
    /\ UNCHANGED <<project, item, subs, calls, events>>

\* completeConnectUserToGitlab: the info and both mappings.
Connect(u, a) ==
    /\ info' = [info EXCEPT ![u] = [account |-> a, notify |-> TRUE]]
    /\ who' = [who EXCEPT ![a] = u]
    /\ idname' = idname \cup {a}
    /\ Change

\* disconnectGitlabAccount
Disconnect(u) ==
    /\ info[u] # None
    /\ info' = [info EXCEPT ![u] = None]
    /\ who' = [who EXCEPT ![info[u].account] = None]
    /\ idname' = idname \ {info[u].account}
    /\ Change

\* handleSettings, "/gitlab settings notifications on" and "off": the mappings come and
\* go with the setting.
Settings(u) ==
    /\ info[u] # None
    /\ \E on \in BOOLEAN :
        /\ info' = [info EXCEPT ![u].notify = on]
        /\ who' = [who EXCEPT ![info[u].account] = IF on THEN u ELSE None]
        /\ idname' = IF on THEN idname \cup {info[u].account} ELSE idname
    /\ Change

\* updateSettings, a request of the web client, stores the settings alone.
UpdateSettings(u) ==
    /\ info[u] # None
    /\ info' = [info EXCEPT ![u].notify = ~@]
    /\ UNCHANGED <<who, idname>>
    /\ Change

-----------------------------------------------------------------------------
(* What happens in GitLab *)

\* The comment of a merge request names one of its assignees only.
NamedBy(kind, i) ==
    IF kind = "note" /\ i.kind = "merge" /\ i.assignees # {} THEN i.assignees ELSE {None}

\* Account a does something, which makes the item i; its text mentions some accounts.
Happens(kind, action, a, i) ==
    /\ kind \in project.kinds
    /\ events < MaxEvents
    /\ events' = events + 1
    /\ item' = i
    /\ \E m \in {t \in SUBSET Account : Cardinality(t) <= MaxMentions}, x \in NamedBy(kind, i) :
        calls' = calls \cup {[id |-> events', kind |-> kind, action |-> action, sender |-> a,
                              item |-> i, before |-> item, assignee |-> x, mentions |-> m]}
    /\ UNCHANGED <<project, subs, users, hook, changes>>

Open(a) ==
    /\ item.state = "none"
    /\ \E s, r \in SUBSET Account, l \in SUBSET project.labels :
        /\ item.kind = "issue" => r = {}
        /\ Happens(item.kind, "open", a,
                   [item EXCEPT !.state = "opened", !.author = a, !.assignees = s,
                                !.reviewers = r, !.labels = l])

\* Assignees, reviewers or labels are changed, or something else is.
Update(a) ==
    /\ item.state # "none"
    /\ \E s, r \in SUBSET Account, l \in SUBSET project.labels :
        /\ item.kind = "issue" => r = {}
        /\ Happens(item.kind, "update", a,
                   [item EXCEPT !.assignees = s, !.reviewers = r, !.labels = l])

Review(a) ==
    /\ item.kind = "merge" /\ item.state = "opened"
    /\ \E x \in {"approved", "unapproved"} : Happens("merge", x, a, item)

Close(a) ==
    /\ item.state = "opened"
    /\ Happens(item.kind, "close", a, [item EXCEPT !.state = "closed"])

Reopen(a) ==
    /\ item.state = "closed"
    /\ Happens(item.kind, "reopen", a, [item EXCEPT !.state = "opened"])

Merge(a) ==
    /\ item.kind = "merge" /\ item.state = "opened"
    /\ Happens("merge", "merge", a, [item EXCEPT !.state = "merged"])

Comment(a) ==
    /\ item.state # "none"
    /\ Happens("note", "open", a, item)

\* Pipelines, pushes, tags, jobs, releases and deployments; the other state of a push is to
\* have no commits.
Other(a) ==
    \E k \in {"pipeline", "push", "tag", "job", "release", "deployment"},
       x \in {"running", "failed", "other"} :
        /\ k \in {"push", "tag", "release"} => x # "failed"
        /\ Happens(k, x, a, item)

-----------------------------------------------------------------------------
(* The handlers for users *)

\* GetUsernameByID: the name is empty for an account the plugin does not know.
Usernames(S) == {IF a \in idname THEN a ELSE None : a \in S}

\* Mutation: the earlier and the present users are swapped.
LeavingUsers(was, is) == was \ is

\* calculateUserDiffs
UserDiffs(was, is) == is \ was

To(e, why, S) == [from |-> e.sender, why |-> why, tos |-> S, chans |-> NoChannel]

\* A list with one handler if the condition holds, and the empty list otherwise.
If(cond, handler) == IF cond THEN <<handler>> ELSE <<>>

Mention(e, from) ==
    If(e.mentions # {}, [from |-> from, why |-> "mention", tos |-> e.mentions, chans |-> NoChannel])

\* handleDMMergeRequest. A closed merge request is reported as closed whatever was
\* done to it.
DMMergeRequest(e) ==
    LET all == Usernames({e.item.author} \cup e.item.assignees)
        assigned == UserDiffs(e.before.assignees, e.item.assignees)
        unassigned == UserDiffs(e.item.assignees, e.before.assignees)
        requested == UserDiffs(e.before.reviewers, e.item.reviewers)
        list ==
            IF e.item.state = "closed" THEN <<To(e, "closed", all)>>
            ELSE IF e.item.state = "merged" THEN If(e.action = "merge", To(e, "merged", all))
            ELSE CASE e.action = "open" -> <<To(e, "review", all)>>
                   [] e.action = "reopen" -> <<To(e, "reopened", all)>>
                   [] e.action = "update" ->
                         If(assigned # {}, To(e, "assigned", Usernames(assigned)))
                         \o If(unassigned # {}, To(e, "unassigned", Usernames(unassigned)))
                         \o If(requested # {}, To(e, "review", Usernames(requested)))
                   [] OTHER -> <<To(e, e.action, all)>>
    IN IF list = <<>> THEN <<To(e, "none", {})>> ELSE list \o Mention(e, e.sender)

\* handleDMIssue takes the assignees' names from the event.
DMIssue(e) ==
    LET all == e.item.assignees \cup Usernames({e.item.author})
        list ==
            CASE e.action = "open" -> If(e.item.assignees # {}, To(e, "assigned", all))
              [] e.action = "close" -> <<To(e, "closed", all)>>
              [] e.action = "reopen" -> <<To(e, "reopened", all)>>
              [] OTHER -> <<>>
    IN IF list = <<>> THEN <<>> ELSE list \o Mention(e, e.sender)

DMIssueComment(e) ==
    <<To(e, "commented", Usernames({e.item.author} \cup e.item.assignees))>> \o Mention(e, e.sender)

\* handleDMMergeRequestComment knows one assignee.
DMMergeRequestComment(e) ==
    <<To(e, "commented", Usernames({e.item.author, e.assignee}))>> \o Mention(e, e.sender)

\* handleDMPipeline. The sender is left out of the handler, so that cleaning does not
\* remove the sender.
DMPipeline(e) ==
    If(e.action = "failed",
       [from |-> None, why |-> "failed", tos |-> {e.sender}, chans |-> NoChannel])
    \o Mention(e, e.sender)

\* handleDMPush, which looks for mentions in the commits, and handleDMTag take the sender's
\* name, not the username.
DMPush(e) == IF e.action = "other" THEN <<>> ELSE Mention(e, None)
DMTag(e) == Mention(e, None)

-----------------------------------------------------------------------------
(* The handlers for channels *)

\* The features and the labels are one text, which is searched for a feature's name: it may be
\* found in a label, and "issues" within "confidential_issues".
Named(s, f) == f \in s.features \/ \E l \in s.labels : f \in Spells[l]
Has(s, f) == Named(s, f) \/ (f = "issues" /\ Named(s, "confidential_issues"))

LabelsMatch(s, e) == s.labels = {} \/ s.labels \cap e.item.labels # {}

\* permissionToProject for the user who subscribed the channel.
Permission(u) == project.allowed /\ info[u] # None /\ info[u].account \in project.access

\* Subscriptions go by their positions.
Channels(asking) == [c \in Channel |-> Cardinality({j \in asking : subs[j].channel = c})]

\* Mutation: the creators of subscriptions to an internal project are not asked for.
SubscribedUnlessPrivate ==
    {j \in DOMAIN subs : project.visibility # "private" \/ Permission(subs[j].creator)}

\* GetSubscribedChannelsForProject
Subscribed == {j \in DOMAIN subs : project.visibility = "public" \/ Permission(subs[j].creator)}

\* A list of n handlers for the channels whose subscription asks for the event, if there
\* are any.
Post(from, n, asking) ==
    [i \in 1 .. IF asking = {} THEN 0 ELSE n |->
        [from |-> from, why |-> "post", tos |-> {}, chans |-> Channels(asking)]]

\* Those that ask for a feature, and for the labels of the item as well.
Asking(f) == {j \in Subscribed : Has(subs[j], f)}
AskingFor(f, e) == {j \in Asking(f) : LabelsMatch(subs[j], e)}

\* How many assignees an update adds and removes.
Reassigned(e) ==
    Cardinality(UserDiffs(e.before.assignees, e.item.assignees))
    + Cardinality(UserDiffs(e.item.assignees, e.before.assignees))

\* Of an update only the changes of the assignees, with a message each.
ChannelMergeRequest(e) ==
    IF e.action = "update"
    THEN Post(e.sender, Reassigned(e), AskingFor("merges", e) \cup AskingFor("merge_request_assigns", e))
    ELSE Post(e.sender, 1, AskingFor("merges", e))

\* Of an update only a change of the labels that leaves some.
IssueMessages(e) == IF e.action # "update" \/ e.item.labels \notin {{}, e.before.labels} THEN 1 ELSE 0

\* Mutation: a subscription to issues covers the confidential ones.
ChannelAnyIssue(e) == Post(e.sender, IssueMessages(e), AskingFor("issues", e))

ChannelIssue(e) ==
    Post(e.sender, IssueMessages(e),
         {j \in AskingFor("issues", e) : e.item.confidential => Has(subs[j], "confidential_issues")})

ChannelIssueComment(e) == Post(e.sender, 1, AskingFor("issue_comments", e))
ChannelMergeRequestComment(e) == Post(e.sender, 1, AskingFor("merge_request_comments", e))

\* Some events are of no interest.
Messages(e) == IF e.action = "other" THEN 0 ELSE 1

ChannelPipeline(e) == Post(e.sender, Messages(e), Asking("pipeline"))
ChannelPush(e) == Post(e.sender, Messages(e), Asking("pushes"))
ChannelTag(e) == Post(e.sender, 1, Asking("tag"))
ChannelDeployment(e) == Post(e.sender, Messages(e), Asking("deployments"))

\* handleChannelJob gives the display name of the sender, handleChannelRelease nobody.
ChannelJob(e) == Post(None, Messages(e), Asking("jobs"))
ChannelRelease(e) == Post(None, Messages(e), Asking("releases"))

-----------------------------------------------------------------------------
(* handleWebhook *)

\* Mutation: a channel stays in the list as often as it is subscribed.
CleanUsers(r) == [r EXCEPT !.tos = @ \ {r.from, None}]

\* cleanWebhookHandlerTo: no message to the sender and to unknown users, and one for
\* each channel.
Clean(r) == [r EXCEPT !.tos = @ \ {r.from, None},
                      !.chans = [c \in Channel |-> IF r.chans[c] = 0 THEN 0 ELSE 1]]

\* The handlers of an event.
Handlers(e) ==
    CASE e.kind = "merge" -> DMMergeRequest(e) \o ChannelMergeRequest(e)
      [] e.kind = "issue" -> DMIssue(e) \o ChannelIssue(e)
      [] e.kind = "note" /\ e.item.kind = "issue" -> DMIssueComment(e) \o ChannelIssueComment(e)
      [] e.kind = "note" /\ e.item.kind = "merge" -> DMMergeRequestComment(e) \o ChannelMergeRequestComment(e)
      [] e.kind = "pipeline" -> DMPipeline(e) \o ChannelPipeline(e)
      [] e.kind = "push" -> DMPush(e) \o ChannelPush(e)
      [] e.kind = "tag" -> DMTag(e) \o ChannelTag(e)
      [] e.kind = "job" -> ChannelJob(e)
      [] e.kind = "release" -> ChannelRelease(e)
      [] e.kind = "deployment" -> ChannelDeployment(e)

\* The event has passed the settings: private projects, the group lock.
Passes == (project.visibility = "private" => project.private) /\ project.allowed

\* The username of the event's sender, if it has one.
FromUser(e) == IF e.kind \in {"push", "tag", "job", "release"} THEN None ELSE e.sender

Receive(h) ==
    /\ hook[h].st = "idle"
    /\ \E e \in calls :
        /\ calls' = calls \ {e}
        /\ hook' = [hook EXCEPT ![h] = [NoHook EXCEPT !.st = "handle", !.event = e,
                                                      !.steady = {a \in Account : Reachable(a)}]]
    /\ UNCHANGED <<project, item, subs, users, events, changes>>

\* The list of handlers is made, and the sender's client refreshed.
Handle(h) ==
    /\ hook[h].st = "handle"
    /\ LET e == hook[h].event
           list == Handlers(e)
       IN hook' = [hook EXCEPT ![h] =
                    IF Passes
                    THEN [@ EXCEPT !.st = "send", !.already = {FromUser(e)},
                                   !.list = [i \in DOMAIN list |-> Clean(list[i])]]
                    ELSE NoHook]
    /\ UNCHANGED <<project, item, subs, users, calls, events, changes>>

\* The accounts of a handler whose users get its message.
Told(S) == {a \in S : who[a] # None /\ info[who[a]] # None /\ info[who[a]].notify}

\* The next handler's message goes to its users, except those whose client this call
\* has refreshed already, and to its channels.
Send(h) ==
    /\ hook[h].st = "send" /\ hook[h].list # <<>>
    /\ LET x == hook[h]
           r == Head(x.list)
           to == r.tos \ x.already
       IN hook' = [hook EXCEPT ![h] =
                    [x EXCEPT !.list = Tail(@),
                              !.already = @ \cup r.tos \cup {r.from},
                              !.sent = @ \cup {[to |-> a, why |-> r.why] : a \in Told(to)},
                              !.posted = [c \in Channel |-> @[c] + r.chans[c]]]]
    /\ UNCHANGED <<project, item, subs, users, calls, events, changes>>

\* The handler returns; what it has sent is forgotten with the next call.
Return(h) ==
    \/ /\ hook[h].st = "send" /\ hook[h].list = <<>>
       /\ hook' = [hook EXCEPT ![h].st = "done"]
       /\ UNCHANGED <<project, item, subs, users, calls, events, changes>>
    \/ /\ hook[h].st = "done"
       /\ hook' = [hook EXCEPT ![h] = NoHook]
       /\ UNCHANGED <<project, item, subs, users, calls, events, changes>>

-----------------------------------------------------------------------------

Gitlab(a) ==
    \/ Open(a) \/ Update(a) \/ Review(a) \/ Close(a) \/ Reopen(a) \/ Merge(a) \/ Comment(a)
    \/ Other(a)

Next ==
    \/ \E u \in User :
        \/ \E a \in Account : Connect(u, a)
        \/ Disconnect(u) \/ Settings(u) \/ UpdateSettings(u)
    \/ \E a \in Account : Gitlab(a)
    \/ \E h \in Hook : Receive(h) \/ Handle(h) \/ Send(h) \/ Return(h)

Spec == Init /\ [][Next]_vars

-----------------------------------------------------------------------------
(* Properties *)

Done(h) == hook[h].st = "done"

\* A user gets one message of an event at most, however many handlers name the user, as
\* assignee, as reviewer and as mentioned in the text; and a channel that is subscribed to the
\* project and to its group, perhaps by different users, gets each message once.
OnceEach ==
    \A h \in Hook :
        /\ \A x, y \in hook[h].sent : x.to = y.to => x = y
        /\ LET e == hook[h].event IN
           Done(h) => \A c \in Channel :
               hook[h].posted[c] <= IF e.kind = "merge" /\ e.action = "update" THEN Reassigned(e) ELSE 1

\* The invariant of the webhook (handleWebhook, CleanWebhookHandlers): types, and one message
\* of an event.
WebhookInv == TypeOK /\ OnceEach

\* A message about a project that is not public goes only to channels with a
\* subscription whose creator is connected and has access to the project when the
\* list of handlers is made.
PostsStayInside ==
    [][\A h \in Hook : hook[h].st = "handle" /\ hook'[h].st = "send" =>
         \A i \in DOMAIN hook'[h].list, c \in Channel :
            hook'[h].list[i].chans[c] > 0 /\ project.visibility # "public" =>
                \E j \in DOMAIN subs :
                    /\ subs[j].channel = c
                    /\ info[subs[j].creator] # None
                    /\ info[subs[j].creator].account \in project.access]_vars

\* What an event shows of a confidential issue, and what a subscription says to see it.
ShowsConfidential(e) ==
    e.kind \in {"issue", "note"} /\ e.item.kind = "issue" /\ e.item.confidential
AsksToSee(s, e) ==
    /\ Named(s, IF e.kind = "issue" THEN "confidential_issues" ELSE "issue_comments")
    /\ LabelsMatch(s, e)

\* A confidential issue shows up only in channels with a subscription whose text has
\* confidential_issues, a comment on one only where it has issue_comments; and this same
\* subscription has no labels or one of the issue's.
ConfidentialAsked ==
    \A h \in Hook, c \in Channel :
        Done(h) /\ ShowsConfidential(hook[h].event) /\ hook[h].posted[c] > 0 =>
            \E j \in DOMAIN subs : subs[j].channel = c /\ AsksToSee(subs[j], hook[h].event)

\* Accounts that a change assigned and whose user could be reached all the time, the
\* sender excepted.
NewlyAssigned(h) ==
    LET e == hook[h].event
    IN ((e.item.assignees \ e.before.assignees) \cap hook[h].steady) \ {e.sender}

GotA(h, a, why) == [to |-> a, why |-> why] \in hook[h].sent

\* "or assigns you, you'll get a post here about it": whoever is assigned to an open
\* merge request is told so, whatever else the same change does.
AssignedIsTold ==
    \A h \in Hook :
        Done(h) /\ hook[h].event.kind = "merge" /\ hook[h].event.action = "update"
        /\ hook[h].event.item.state = "opened" =>
            \A a \in NewlyAssigned(h) : GotA(h, a, "assigned")

\* The same for an issue that is there already.
IssueAssignedIsTold ==
    \A h \in Hook :
        Done(h) /\ hook[h].event.kind = "issue" /\ hook[h].event.action = "update" =>
            \A a \in NewlyAssigned(h) : GotA(h, a, "assigned")

\* "requests your review, ..., you'll get a post here about it": whoever is asked for a
\* review is told so.
ReviewRequestIsTold ==
    \A h \in Hook :
        Done(h) /\ hook[h].event.kind = "merge" /\ hook[h].event.action = "update"
        /\ hook[h].event.item.state = "opened" =>
            \A a \in hook[h].event.item.reviewers \ hook[h].event.before.reviewers :
                a \in hook[h].steady /\ a # hook[h].event.sender => GotA(h, a, "review")

\* "don't put senderGitlabUsername because we filter message where from == to": who
\* started a pipeline that failed is told so.
FailedPipelineIsTold ==
    \A h \in Hook :
        Done(h) /\ hook[h].event.kind = "pipeline" /\ hook[h].event.action = "failed"
        /\ hook[h].event.sender \in hook[h].steady =>
            GotA(h, hook[h].event.sender, "failed")

\* "don't send message to webhook sender or unknown user": nobody is told about what
\* they did themselves, their failed pipelines excepted.
SenderNotTold ==
    \A h \in Hook : \A x \in hook[h].sent : x.to = hook[h].event.sender => x.why = "failed"

\* "closed your merge request": a message says so when it has been closed.
ClosedMeansClosed ==
    \A h \in Hook : \A x \in hook[h].sent : x.why = "closed" => hook[h].event.action = "close"

\* "confidential_issues - includes new and closed confidential issues": nobody sees them who
\* has not asked for the feature; the text of a label is no feature.
ConfidentialByFeature ==
    \A h \in Hook, c \in Channel :
        Done(h) /\ hook[h].event.kind = "issue" /\ ShowsConfidential(hook[h].event)
        /\ hook[h].posted[c] > 0 =>
            \E j \in DOMAIN subs : subs[j].channel = c /\ "confidential_issues" \in subs[j].features

\* Comments on confidential issues go only to channels that asked for confidential issues.
ConfidentialNotesAsked ==
    \A h \in Hook, c \in Channel :
        Done(h) /\ hook[h].event.kind = "note" /\ ShowsConfidential(hook[h].event)
        /\ hook[h].posted[c] > 0 =>
            \E j \in DOMAIN subs : subs[j].channel = c /\ Named(subs[j], "confidential_issues")

\* "confidential_issues - includes new and closed confidential issues": a channel that
\* asked for these alone gets no others.
OnlyAsked ==
    \A h \in Hook, c \in Channel :
        Done(h) /\ hook[h].event.kind = "issue" /\ ~hook[h].event.item.confidential
        /\ hook[h].posted[c] > 0 =>
            \E j \in DOMAIN subs : subs[j].channel = c /\ "issues" \in subs[j].features

\* "Each user in Mattermost is connected with their own personal GitLab account" and,
\* with notifications on, gets its messages: the mapping of the account names the user.
ConnectedIsReached ==
    \A u \in User : info[u] # None /\ info[u].notify => who[info[u].account] = u
=============================================================================
