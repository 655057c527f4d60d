------------------------------ MODULE WebClient ------------------------------
(***************************************************************************)
(* The web client of one user (webapp/src): what its store shows of the    *)
(* connection, of the lists of the left sidebar and of the subscriptions   *)
(* of the channel, kept up by requests to the plugin's HTTP API and by     *)
(* websocket events.                                                       *)
(*                                                                         *)
(* JavaScript runs one handler at a time, to its next await: a request is  *)
(* sent in one step, served by the plugin in another, and its answer is    *)
(* received in a third.  Events reach an open socket in the order in which *)
(* the plugin publishes them; what is published to a closed one is lost.   *)
(* Connections and disconnections are goroutines of the plugin that write  *)
(* the store and publish an event at the end, at any distance.             *)
(***************************************************************************)
EXTENDS Webapp, Naturals, Sequences, FiniteSets, SequencesExt

CONSTANTS
    Account, Channel,
    Home,       \* the channel that the user looks at first
    MaxSteps    \* bound: changes at the server, clicks, and sockets that drop

ASSUME ConstantsAssumption ==
    /\ None \notin Account \cup Channel /\ Home \in Channel
    /\ MaxSteps \in Nat /\ MaxFaults \in Nat

VARIABLES
    \* The server
    account,     \* the GitLab account the user is connected to (the stored info), or None
    token,       \* a token of the user is stored
    jobs,        \* connections and disconnections under way
    untold,      \* history: the last event about the connection did not say what is stored now
    mixed,       \* history: jobs have overlapped, failed or been cut short
    lists,       \* version of the lists that GetLHSData reads
    subs,        \* version of the subscriptions of a channel
    \* Between the two
    socket,      \* the websocket is open
    events,      \* published and not handled
    requests,    \* sent and not handled, in the order of sending
    \* The client
    phase,       \* initialize is awaiting getConnected, or has registered the handlers
    oneTeam,     \* SidebarButtons sit in SidebarHeader, not in TeamSidebar
    shown,       \* connected and username
    held,        \* lhsData: whose, and of which version
    heldSubs,    \* subscriptions
    channel,     \* the channel that the user looks at
    panel,       \* RHSSidebar is mounted
    refreshing,  \* state.refreshing of the components
    \* History
    due,         \* the version of the lists that the client was last told of
    stale,       \* what is shown of the connection may be out of date
    disturbed,   \* a request for the lists failed, or was overtaken by another
    steps, faults

connection == <<account, token, jobs, untold, mixed>>
server == <<connection, lists, subs>>
view == <<shown, held, heldSubs, channel, panel, refreshing>>
history == <<due, stale, disturbed>>
vars == <<server, socket, events, requests, phase, oneTeam, view, history, steps, faults>>

\* The components that ask for data: SidebarButtons and RHSSidebar.
Component == {"sidebar", "panel"}
Sender == Component \cup {"start", "reconnect", "nobody"}

Version == 0 .. MaxSteps + 1

Event == [kind : {"connect", "disconnect", "refresh", "subs"}, account : Account \cup {None},
          channel : Channel \cup {None}, version : Version]

Job == [account : Account \cup {None}, todo : SUBSET {"info", "token"}]

Request == [kind : {"connected", "lists", "subs"}, by : Sender, channel : Channel \cup {None},
            at : {"sent", "served", "failed"}, account : Account \cup {None},
            version : Version, clean : BOOLEAN]

Asking(kind, by, c) ==
    [kind |-> kind, by |-> by, channel |-> c, at |-> "sent", account |-> None,
     version |-> 0, clean |-> TRUE]

Step == steps < MaxSteps /\ steps' = steps + 1 /\ UNCHANGED faults

-----------------------------------------------------------------------------
(* The server *)

Publish(kind, a, c, v) ==
    events' = IF socket
              THEN Append(events, [kind |-> kind, account |-> a, channel |-> c, version |-> v])
              ELSE events

\* An answer that the server has given says nothing of what happens afterwards.
Outdated == [i \in DOMAIN requests |->
    IF requests[i].at = "served" THEN [requests[i] EXCEPT !.clean = FALSE] ELSE requests[i]]

Begin(a) ==
    /\ Step
    /\ jobs' = Append(jobs, [account |-> a, todo |-> {"info", "token"}])
    /\ mixed' = (mixed \/ jobs # <<>>)
    /\ UNCHANGED <<account, token, untold, lists, subs, socket, events, requests, phase, oneTeam, view,
                   history>>

\* completeConnectUserToGitlab, also over an earlier connection.
Connect(a) == Begin(a)

\* disconnectGitlabAccount or forceDisconnectUser, also of a user who is not connected.
Disconnect == Begin(None)

\* A connection stores the info before the token; disconnectGitlabAccount deletes in that
\* order, and forceDisconnectUser in the other.
Write(i, key) ==
    LET job == jobs[i]
    IN  /\ key \in job.todo
        /\ job.account # None /\ key = "token" => "info" \notin job.todo
        /\ jobs' = [jobs EXCEPT ![i].todo = @ \ {key}]
        /\ IF key = "info"
           THEN account' = job.account /\ untold' = TRUE /\ requests' = Outdated /\ UNCHANGED token
           ELSE token' = (job.account # None) /\ UNCHANGED <<account, untold, requests>>
        /\ UNCHANGED <<mixed, lists, subs, socket, events, phase, oneTeam, view, history, steps, faults>>

Announce(i) ==
    LET job == jobs[i]
    IN  /\ job.todo = {}
        /\ Publish(IF job.account = None THEN "disconnect" ELSE "connect", job.account, None, 0)
        /\ untold' = (job.account # account)
        /\ jobs' = RemoveAt(jobs, i)
        /\ UNCHANGED <<account, token, mixed, lists, subs, socket, requests, phase, oneTeam, view, history,
                       steps, faults>>

\* A connection ends at a write that fails, and any job with the plugin; a disconnection
\* only logs that a deletion failed.
JobFails(i) ==
    /\ faults < MaxFaults /\ faults' = faults + 1
    /\ \/ jobs' = RemoveAt(jobs, i)
       \/ /\ jobs[i].account = None
          /\ \E key \in jobs[i].todo : jobs' = [jobs EXCEPT ![i].todo = @ \ {key}]
    /\ mixed' = TRUE
    /\ UNCHANGED <<account, token, untold, lists, subs, socket, events, requests, phase, oneTeam, view,
                   history, steps>>

\* Something happens in GitLab; with a webhook, the user is sent a refresh event.
ListsChange ==
    /\ Step
    /\ account # None
    /\ lists' = lists + 1
    /\ \/ Publish("refresh", None, None, 0)
       \/ UNCHANGED events
    /\ UNCHANGED <<connection, subs, socket, requests, phase, oneTeam, view, history>>

\* Someone subscribes the channel or unsubscribes it: sendChannelSubscriptionsUpdated.
SubsChange(c) ==
    /\ Step
    /\ subs' = [subs EXCEPT ![c] = @ + 1]
    /\ Publish("subs", None, c, subs[c] + 1)
    /\ UNCHANGED <<connection, lists, socket, requests, phase, oneTeam, view, history>>

\* getConnected answers anyone, getChannelSubscriptions connected users, and getLHSData
\* those who also have a token.
Answerable(r) ==
    CASE r.kind = "connected" -> TRUE
      [] r.kind = "lists" -> account # None /\ token
      [] r.kind = "subs" -> account # None

Answered(r) ==
    IF ~Answerable(r) THEN [r EXCEPT !.at = "failed"]
    ELSE CASE r.kind = "connected" -> [r EXCEPT !.at = "served", !.account = account]
           [] r.kind = "lists" ->
                [r EXCEPT !.at = "served", !.account = account, !.version = lists]
           [] r.kind = "subs" -> [r EXCEPT !.at = "served", !.version = subs[r.channel]]

\* getConnected takes an info that it cannot read for none.
Misread(r) == [r EXCEPT !.at = "served", !.account = None, !.clean = FALSE]

Serve(i) ==
    /\ requests[i].at = "sent"
    /\ requests' = [requests EXCEPT ![i] = Answered(@)]
    /\ UNCHANGED <<server, socket, events, phase, oneTeam, view, history, steps, faults>>

\* The request or its answer is lost, or the plugin cannot answer it.
Fail(i) ==
    /\ faults < MaxFaults /\ faults' = faults + 1
    /\ requests[i].at = "sent"
    /\ \/ requests' = [requests EXCEPT ![i].at = "failed"]
       \/ requests[i].kind = "connected" /\ requests' = [requests EXCEPT ![i] = Misread(@)]
    /\ UNCHANGED <<server, socket, events, phase, oneTeam, view, history, steps>>

Drop ==
    /\ Step
    /\ socket /\ socket' = FALSE
    /\ events' = <<>>
    /\ UNCHANGED <<server, requests, phase, oneTeam, view, history>>

-----------------------------------------------------------------------------
(* The client *)

\* A component unmounts: its request goes on, and nothing waits for the answer.
Orphaned(rs, part) ==
    [i \in DOMAIN rs |-> IF rs[i].by = part THEN [rs[i] EXCEPT !.by = "nobody"] ELSE rs[i]]

\* getData of the components in parts that are not refreshing already.
Data(parts, c) ==
    (IF "sidebar" \in parts THEN <<Asking("lists", "sidebar", None)>> ELSE <<>>)
    \o (IF "panel" \in parts THEN <<Asking("subs", "panel", c)>> ELSE <<>>)

\* Mutation: getData asks also while it is refreshing.
GetDataAnyway(part, c, rs) ==
    /\ refreshing' = refreshing \cup {part}
    /\ requests' = rs \o Data({part}, c)

\* A click on the refresh button, a mount or an update of one component.
GetData(part, c, rs) ==
    LET asks == {part} \ refreshing
    IN  /\ refreshing' = refreshing \cup asks
        /\ requests' = rs \o Data(asks, c)

\* RECEIVED_CONNECTED: the reducers, then componentDidMount and componentDidUpdate of the
\* components; SidebarHeader takes its buttons away from a user who is not connected.
Show(a, rs, more) ==
    LET gone  == {p \in {"sidebar"} : oneTeam /\ a = None}
        wakes == IF a # None /\ shown = None
                 THEN {p \in Component : p = "panel" => panel} \ refreshing ELSE {}
    IN  /\ shown' = a
        /\ refreshing' = (refreshing \ gone) \cup wakes
        /\ requests' = (IF gone = {} THEN rs ELSE Orphaned(rs, "sidebar"))
                       \o Data(wakes, channel) \o more

\* The handlers of the websocket events, which initialize registers when it is ready.
HandleConnect(e) ==
    /\ Show(e.account, requests, <<>>)
    /\ stale' = FALSE
    /\ UNCHANGED <<held, heldSubs, due>>

\* Mutation: a refresh goes through getData of the sidebar, which drops it while refreshing.
HandleRefreshWhenIdle ==
    /\ IF shown # None
       THEN GetData("sidebar", None, requests) /\ due' = lists
       ELSE UNCHANGED <<requests, refreshing, due>>
    /\ UNCHANGED <<shown, held, heldSubs, stale>>

HandleRefresh ==
    /\ IF shown # None
       THEN requests' = Append(requests, Asking("lists", "nobody", None)) /\ due' = lists
       ELSE UNCHANGED <<requests, due>>
    /\ UNCHANGED <<shown, refreshing, held, heldSubs, stale>>

HandleChannelSubscriptionsUpdated(e) ==
    /\ heldSubs' = [heldSubs EXCEPT ![e.channel] = e.version]
    /\ UNCHANGED <<shown, refreshing, held, requests, due, stale>>

Deliver ==
    /\ events # <<>>
    /\ events' = Tail(events)
    /\ LET e == Head(events)
       IN  IF phase = "loading"
           THEN UNCHANGED <<requests, shown, refreshing, held, heldSubs, due, stale>>
           ELSE CASE e.kind \in {"connect", "disconnect"} -> HandleConnect(e)
                  [] e.kind = "refresh" -> HandleRefresh
                  [] e.kind = "subs" -> HandleChannelSubscriptionsUpdated(e)
    /\ UNCHANGED <<server, socket, phase, oneTeam, channel, panel, disturbed, steps, faults>>

\* The answer to a request for the connection: of initialize, which goes on whatever the
\* answer is, or of handleReconnect, which asks for the lists of a connected user.
ReceiveConnected(r, rest) ==
    /\ phase' = "ready"
    /\ LET again == r.at = "served" /\ r.account # None /\ r.by = "reconnect"
       IN  /\ IF r.at = "served"
              THEN Show(r.account, rest, IF again THEN <<Asking("lists", "nobody", None)>> ELSE <<>>)
              ELSE requests' = rest /\ UNCHANGED <<shown, refreshing>>
           /\ due' = IF again THEN lists ELSE due
    /\ stale' = (r.at = "failed" \/ ~r.clean)
    /\ UNCHANGED <<held, heldSubs, disturbed>>

\* Mutation: the icon stops only if the request succeeds.
StopsOnSuccess(r) == IF r.at = "served" THEN refreshing \ {r.by} ELSE refreshing

\* setState({refreshing: false}) after the await, whatever the answer.
Stops(r) == refreshing \ {r.by}

ReceiveLists(r, rest) ==
    /\ requests' = rest
    /\ refreshing' = Stops(r)
    /\ held' = IF r.at = "served" THEN [account |-> r.account, version |-> r.version] ELSE held
    /\ disturbed' = (disturbed \/ r.at = "failed" \/ r.version < held.version)
    /\ UNCHANGED <<phase, shown, heldSubs, due, stale>>

ReceiveSubs(r, rest) ==
    /\ requests' = rest
    /\ refreshing' = Stops(r)
    /\ heldSubs' = IF r.at = "served" THEN [heldSubs EXCEPT ![r.channel] = r.version] ELSE heldSubs
    /\ UNCHANGED <<phase, shown, held, history>>

Receive(i) ==
    /\ requests[i].at # "sent"
    /\ LET r == requests[i]
           rest == RemoveAt(requests, i)
       IN  CASE r.kind = "connected" -> ReceiveConnected(r, rest)
             [] r.kind = "lists" -> ReceiveLists(r, rest)
             [] r.kind = "subs" -> ReceiveSubs(r, rest)
    /\ UNCHANGED <<server, socket, events, oneTeam, channel, panel, steps, faults>>

\* Mutation: a reconnection asks for the lists only.
AskForLists == IF phase = "ready" THEN Append(requests, Asking("lists", "nobody", None)) ELSE requests

\* handleReconnect.
AskAgain == IF phase = "ready" THEN Append(requests, Asking("connected", "reconnect", None)) ELSE requests

Reopen ==
    /\ ~socket /\ socket' = TRUE
    /\ requests' = AskAgain
    /\ UNCHANGED <<server, events, phase, oneTeam, view, history, steps, faults>>

\* A click after an hour without one: handleReconnect, with the reminder.
Activity ==
    /\ Step
    /\ phase = "ready"
    /\ requests' = AskAgain
    /\ UNCHANGED <<server, socket, events, phase, oneTeam, view, history>>

RefreshClick ==
    /\ Step
    /\ phase = "ready" /\ shown # None
    /\ GetData("sidebar", None, requests)
    /\ UNCHANGED <<server, socket, events, phase, oneTeam, shown, held, heldSubs, channel, panel, history>>

SwitchChannel ==
    /\ Step
    /\ phase = "ready"
    /\ \E c \in Channel \ {channel} :
        /\ channel' = c
        /\ IF panel THEN GetData("panel", c, requests) ELSE UNCHANGED <<requests, refreshing>>
    /\ UNCHANGED <<server, socket, events, phase, oneTeam, shown, held, heldSubs, panel, history>>

\* What RHSSidebar says of a channel that has no entry in the store, or an empty one.
SaysNone == panel /\ shown # None /\ heldSubs[channel] = 0

OpenPanel ==
    /\ Step
    /\ phase = "ready" /\ ~panel /\ panel' = TRUE
    /\ IF shown # None THEN GetData("panel", channel, requests) ELSE UNCHANGED <<requests, refreshing>>
    /\ UNCHANGED <<server, socket, events, phase, oneTeam, shown, held, heldSubs, channel, history>>

ClosePanel ==
    /\ Step
    /\ panel /\ panel' = FALSE
    /\ refreshing' = refreshing \ {"panel"}
    /\ requests' = Orphaned(requests, "panel")
    /\ UNCHANGED <<server, socket, events, phase, oneTeam, shown, held, heldSubs, channel, history>>

-----------------------------------------------------------------------------

Init ==
    /\ account \in Account \cup {None} /\ token = (account # None)
    /\ jobs = <<>> /\ untold = FALSE /\ mixed = FALSE
    /\ lists = 0 /\ subs = [c \in Channel |-> 1]
    /\ socket = TRUE /\ events = <<>>
    /\ requests = <<Asking("connected", "start", None)>>
    /\ phase = "loading" /\ oneTeam \in BOOLEAN
    /\ shown = None /\ held = [account |-> None, version |-> 0]
    /\ heldSubs = [c \in Channel |-> 0]
    /\ channel = Home /\ panel = FALSE /\ refreshing = {}
    /\ due = 0 /\ stale = FALSE /\ disturbed = FALSE
    /\ steps = 0 /\ faults = 0

Work ==
    \E i \in DOMAIN jobs : (\E key \in {"info", "token"} : Write(i, key)) \/ Announce(i) \/ JobFails(i)
Change == (\E a \in Account : Connect(a)) \/ Disconnect \/ ListsChange \/ (\E c \in Channel : SubsChange(c))
UserAction == Activity \/ RefreshClick \/ SwitchChannel \/ OpenPanel \/ ClosePanel
Answer == \E i \in DOMAIN requests : Serve(i) \/ Receive(i)

Next ==
    \/ Change \/ Work \/ UserAction \/ Answer
    \/ \E i \in DOMAIN requests : Fail(i)
    \/ Drop \/ Reopen \/ Deliver

\* fetch settles: the plugin answers, or the request fails.
Spec == Init /\ [][Next]_vars /\ WF_vars(Answer)

-----------------------------------------------------------------------------
(* What the components promise *)

\* Types; an event of subscriptions names its channel.
TypeOK ==
    /\ account \in Account \cup {None} /\ lists \in Version /\ subs \in [Channel -> Version]
    /\ token \in BOOLEAN /\ jobs \in Seq(Job) /\ untold \in BOOLEAN /\ mixed \in BOOLEAN
    /\ socket \in BOOLEAN /\ events \in Seq(Event) /\ requests \in Seq(Request)
    /\ \A i \in DOMAIN events : events[i].kind = "subs" => events[i].channel \in Channel
    /\ phase \in {"loading", "ready"} /\ oneTeam \in BOOLEAN
    /\ shown \in Account \cup {None}
    /\ held \in [account : Account \cup {None}, version : Version]
    /\ heldSubs \in [Channel -> Version]
    /\ channel \in Channel /\ panel \in BOOLEAN /\ refreshing \subseteq Component
    /\ due \in Version /\ stale \in BOOLEAN /\ disturbed \in BOOLEAN
    /\ steps \in 0 .. MaxSteps /\ faults \in 0 .. MaxFaults

Quiet == phase = "ready" /\ socket /\ events = <<>> /\ requests = <<>>

\* A component has the refreshing icon exactly while one request of its own is under way:
\* it neither asks twice nor stops for an answer to somebody else (getData, its await and
\* the unmounting of the component).
OneRequestEach ==
    \A p \in Component :
        Cardinality({i \in DOMAIN requests : requests[i].by = p}) = IF p \in refreshing THEN 1 ELSE 0

\* The invariant of the components (getData): types, and one request for one icon.
WebInv == TypeOK /\ OneRequestEach

\* The last event about the connection says what the store holds now, or the connections
\* and disconnections so far have come one after the other and whole.
Announced == ~untold \/ (jobs = <<>> /\ ~mixed)

\* When nothing is under way, the client shows the account that the user is connected to,
\* whatever events a closed socket has lost, if the plugin has announced it, unless the
\* last the client heard was a failure or an answer older than a write (handleReconnect).
ConnectionSettles == Quiet /\ Announced /\ ~stale => shown = account

\* When nothing is under way, a client that was told to refresh, or that has reconnected,
\* holds lists at least as new as those of that moment, also when it was just waiting for
\* older ones (handleRefresh asks without regard to the refreshing icon), unless a request
\* for them failed or was overtaken.
RefreshIsSeen ==
    Quiet /\ ~disturbed /\ shown # None => held.account # None /\ held.version >= due

\* The refreshing icon of a component stops spinning.
SpinnerEnds == \A p \in Component : p \in refreshing ~> p \notin refreshing

-----------------------------------------------------------------------------
(* What the code does not exclude; README.md, "Where the code and its words part" *)

\* "There are no GitLab subscriptions available in this channel." is shown of such channels
\* only (components/rhs_sidebar): a channel chosen while the panel waits is not asked for,
\* and a reconnection does not ask at all.
NoSubscriptionsShown ==
    Quiet /\ faults = 0 => ~SaysNone

\* "Signed in as" names the account that the user is connected to also when an answer was
\* overtaken by an event (handleDisconnect).
ConnectionOutlivesAnswer ==
    Quiet /\ jobs = <<>> /\ ~mixed /\ faults = 0 => shown = account

\* It does so also when a disconnection comes between the storing of the info and the
\* event of a connection (completeConnectUserToGitlab, disconnectGitlabAccount).
ConnectionOutlivesOverlap == Quiet /\ jobs = <<>> /\ ~stale /\ faults = 0 => shown = account

\* It does so also when the token cannot be stored, or the info not be deleted.
ConnectionOutlivesFailure == Quiet /\ jobs = <<>> /\ ~stale /\ steps <= 1 => shown = account

\* The numbers of the sidebar are those of the account it names.
ListsAreOwn == Quiet /\ faults = 0 /\ shown # None => held.account = shown
=============================================================================
