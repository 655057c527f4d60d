------------------------------ MODULE OAuthConnect ------------------------------
(***************************************************************************)
(* Connecting an account: "/oauth/connect" redirects the user to GitLab    *)
(* and leaves a goroutine behind that waits for the outcome;               *)
(* "/oauth/complete", on any node of the cluster, stores the credentials   *)
(* and publishes the outcome, to the goroutines of its own node and, as a  *)
(* cluster event, to those of the others (server/api.go, server/oauth.go,  *)
(* server/cluster.go).                                                     *)
(*                                                                         *)
(* Publish and Close run under the broker's lock, and so are single steps. *)
(***************************************************************************)
EXTENDS Naturals

CONSTANTS
    Node,       \* cluster nodes, each with its OAuthBroker
    User,
    Request,    \* calls of connectUserToGitlab; each makes a state of its own
    Callback,   \* goroutines that run completeConnectUserToGitlab
    Owners,     \* the users who make the requests, and the nodes that serve them
    None,
    MaxCalls,   \* bound: calls of completeConnectUserToGitlab
    MaxFaults   \* bound: failing writes, lost events, calls that die, shutdowns

ASSUME ConstantsAssumption ==
    /\ MaxCalls \in Nat /\ MaxFaults \in Nat
    /\ None \notin User \cup Node \cup Request
    /\ Owners \subseteq [Request -> [user : User, node : Node]]

VARIABLES
    owner,      \* the user and the node of each request
    pc,         \* what a request's handler, and then its goroutine, does next
    chan,       \* the channel of each request: its buffered value, or "closed"
    subs,       \* oauthCompleteSubs of each node's broker
    closed,     \* nodes whose broker is closed
    states,     \* OAuth states in the store, named by their requests
    cb,         \* the callbacks
    bus,        \* cluster events on their way
    info,       \* users with a stored UserInfo
    token,      \* users with a stored token
    told,       \* the message each request's goroutine sent to its user
    came,       \* history: outcomes that came to a request's node while it waited
    uses,       \* history: callbacks that exchanged a code on the strength of each state
    raced,      \* history: states two callbacks have carried at the same time
    calls, faults

request == <<owner, pc, told>>
broker == <<chan, subs, closed, bus, came>>
kv == <<states, info, token>>
history == <<uses, raced>>
vars == <<owner, pc, chan, subs, closed, states, cb, bus, info, token, told, came, uses, raced, calls, faults>>

Outcome == {"ok", "error"}
NoCallback == [st |-> "none", call |-> 0, node |-> None, user |-> None, state |-> None]
Event == [call : 1 .. MaxCalls, user : User, to : Node, outcome : Outcome]

TypeOK ==
    /\ owner \in [Request -> [user : User, node : Node]]
    /\ pc \in [Request -> {"new", "subscribe", "wait", "leave", "done", "failed"}]
    /\ chan \in [Request -> {"empty", "closed"} \cup Outcome]
    /\ subs \in [Node -> SUBSET Request]
    /\ closed \subseteq Node
    /\ states \subseteq Request
    /\ cb \in [Callback -> [st : {"none", "get", "delete", "exchange", "info", "token",
                                  "ok", "error"},
                            call : 0 .. MaxCalls, node : Node \cup {None}, user : User \cup {None},
                            state : Request \cup {None}]]
    /\ bus \subseteq Event
    /\ info \subseteq User /\ token \subseteq User
    /\ told \in [Request -> {"nothing", "error", "timeout"}]
    /\ came \in [Request -> SUBSET Outcome]
    /\ uses \in [Request -> Nat]
    /\ raced \subseteq Request
    /\ calls \in 0 .. MaxCalls
    /\ faults \in 0 .. MaxFaults

Init ==
    /\ owner \in Owners
    /\ pc = [r \in Request |-> "new"]
    /\ chan = [r \in Request |-> "empty"]
    /\ subs = [n \in Node |-> {}]
    /\ closed = {}
    /\ states = {}
    /\ cb = [c \in Callback |-> NoCallback]
    /\ bus = {}
    /\ info = {} /\ token = {}
    /\ told = [r \in Request |-> "nothing"]
    /\ came = [r \in Request |-> {}]
    /\ uses = [r \in Request |-> 0]
    /\ raced = {}
    /\ calls = 0 /\ faults = 0

Fault == faults < MaxFaults /\ faults' = faults + 1

Goto(r, label) == pc' = [pc EXCEPT ![r] = label]

-----------------------------------------------------------------------------
(* connectUserToGitlab *)

\* The state is stored.
StoreState(r) ==
    /\ pc[r] = "new"
    /\ owner[r].node \notin closed
    /\ \/ states' = states \cup {r} /\ Goto(r, "subscribe") /\ UNCHANGED faults
       \/ Fault /\ Goto(r, "failed") /\ UNCHANGED states
    /\ UNCHANGED <<owner, told, broker, cb, info, token, history, calls>>

\* SubscribeOAuthComplete; the goroutine is started, the user redirected.
SubscribeOAuthComplete(r) ==
    /\ pc[r] = "subscribe"
    /\ subs' = [subs EXCEPT ![owner[r].node] = @ \cup {r}]
    /\ Goto(r, "wait")
    /\ UNCHANGED <<owner, told, chan, closed, bus, came, kv, cb, history, calls, faults>>

\* The goroutine's select finds a value, or nil because the channel was closed.
Receive(r) ==
    /\ pc[r] = "wait"
    /\ chan[r] # "empty"
    /\ chan' = [chan EXCEPT ![r] = IF owner[r].node \in closed THEN "closed" ELSE "empty"]
    /\ told' = [told EXCEPT ![r] = IF chan[r] = "error" THEN "error" ELSE @]
    /\ Goto(r, "leave")
    /\ UNCHANGED <<owner, subs, closed, bus, came, kv, cb, history, calls, faults>>

\* Nothing came in 45 seconds. A goroutine that waits in its select is handed a value
\* as soon as it is sent, so a value that has come is not passed by.
Timeout(r) ==
    /\ pc[r] = "wait"
    /\ chan[r] = "empty"
    /\ told' = [told EXCEPT ![r] = "timeout"]
    /\ Goto(r, "leave")
    /\ UNCHANGED <<owner, broker, kv, cb, history, calls, faults>>

\* Mutation: the subscription is not removed.
LeaveSubscribed(r) ==
    /\ pc[r] = "leave"
    /\ Goto(r, "done")
    /\ UNCHANGED <<owner, told, broker, kv, cb, history, calls, faults>>

\* Nobody knows the channel any more.
UnsubscribeOAuthComplete(r) ==
    /\ pc[r] = "leave"
    /\ subs' = [subs EXCEPT ![owner[r].node] = @ \ {r}]
    /\ chan' = [chan EXCEPT ![r] = "empty"]
    /\ Goto(r, "done")
    /\ UNCHANGED <<owner, told, closed, bus, came, kv, cb, history, calls, faults>>

-----------------------------------------------------------------------------
(* completeConnectUserToGitlab *)

CallbackGoto(c, label) == cb' = [cb EXCEPT ![c].st = label]

\* A user comes back from GitLab to some node, with the state of a request that was
\* redirected. The callback ends there with an error if the state is another user's, if
\* there is no code, or no OAuth configuration.
Come(c) ==
    /\ cb[c].st = "none"
    /\ calls < MaxCalls
    /\ calls' = calls + 1
    /\ \E n \in Node \ closed, r \in Request :
        /\ pc[r] \in {"wait", "leave", "done"}
        /\ \/ /\ cb' = [cb EXCEPT ![c] = [st |-> "get", call |-> calls', node |-> n,
                                         user |-> owner[r].user, state |-> r]]
              /\ raced' = IF \E d \in Callback : cb[d].state = r /\ cb[d].st \in {"get", "delete"}
                          THEN raced \cup {r} ELSE raced
           \/ /\ \E u \in User :
                    cb' = [cb EXCEPT ![c] = [NoCallback EXCEPT !.st = "error", !.call = calls',
                                                               !.node = n, !.user = u]]
              /\ UNCHANGED raced
    /\ UNCHANGED <<request, broker, kv, uses, faults>>

GetState(c) ==
    /\ cb[c].st = "get"
    /\ CallbackGoto(c, IF cb[c].state \in states THEN "delete" ELSE "error")
    /\ UNCHANGED <<request, broker, kv, history, calls, faults>>

\* History: the callback goes on to exchange its code.
Uses(c) == uses' = [uses EXCEPT ![cb[c].state] = @ + 1]

\* Mutation: the state is kept.
DeleteStateNot(c) ==
    /\ cb[c].st = "delete"
    /\ CallbackGoto(c, "exchange")
    /\ Uses(c)
    /\ UNCHANGED <<request, broker, kv, raced, calls, faults>>

DeleteState(c) ==
    /\ cb[c].st = "delete"
    /\ \/ /\ states' = states \ {cb[c].state}
          /\ CallbackGoto(c, "exchange")
          /\ Uses(c)
          /\ UNCHANGED faults
       \/ Fault /\ CallbackGoto(c, "error") /\ UNCHANGED <<states, uses>>
    /\ UNCHANGED <<request, broker, info, token, raced, calls>>

\* Exchange and GetCurrentUser, either of which GitLab may refuse.
Exchange(c) ==
    /\ cb[c].st = "exchange"
    /\ CallbackGoto(c, "info") \/ CallbackGoto(c, "error")
    /\ UNCHANGED <<request, broker, kv, history, calls, faults>>

StoreInfo(c) ==
    /\ cb[c].st = "info"
    /\ \/ info' = info \cup {cb[c].user} /\ CallbackGoto(c, "token") /\ UNCHANGED faults
       \/ Fault /\ CallbackGoto(c, "error") /\ UNCHANGED info
    /\ UNCHANGED <<request, broker, states, token, history, calls>>

\* Mutation: rErr is not set when the token cannot be stored.
StoreTokenSilently(c) ==
    /\ cb[c].st = "token"
    /\ \/ token' = token \cup {cb[c].user} /\ CallbackGoto(c, "ok") /\ UNCHANGED faults
       \/ Fault /\ CallbackGoto(c, "ok") /\ UNCHANGED token
    /\ UNCHANGED <<request, broker, states, info, history, calls>>

\* storeGitlabUserToken; the outcome is a success only after it.
StoreToken(c) ==
    /\ cb[c].st = "token"
    /\ \/ token' = token \cup {cb[c].user} /\ CallbackGoto(c, "ok") /\ UNCHANGED faults
       \/ Fault /\ CallbackGoto(c, "error") /\ UNCHANGED token
    /\ UNCHANGED <<request, broker, states, info, history, calls>>

-----------------------------------------------------------------------------
(* The broker *)

\* The requests a publication for user u reaches on node n.
Waiting(n, u) == {r \in subs[n] : owner[r].user = u}

\* The non-blocking send: it does nothing when the buffer of one is full.
SendTo(n, u, o) ==
    chan' = [r \in Request |->
                IF r \in Waiting(n, u) /\ chan[r] = "empty" THEN o ELSE chan[r]]

\* History: outcome o comes to node n while requests of the user wait there.
Comes(n, u, o) ==
    came' = [r \in Request |->
                IF r \in Waiting(n, u) /\ pc[r] = "wait" THEN came[r] \cup {o} ELSE came[r]]

\* Mutation: the subscribers of the own node are left to the cluster event.
PublishElsewhere(c) ==
    /\ cb[c].st \in Outcome
    /\ LET n == cb[c].node  u == cb[c].user  o == cb[c].st IN
        /\ Comes(n, u, o)
        /\ bus' = bus \cup [call : {cb[c].call}, user : {u}, to : Node \ {n}, outcome : {o}]
    /\ cb' = [cb EXCEPT ![c] = NoCallback]
    /\ UNCHANGED <<request, chan, subs, closed, kv, history, calls, faults>>

\* The deferred publishOAuthComplete: to the own node's subscribers, and to the
\* cluster; a closed broker publishes nothing.
Publish(c) ==
    /\ cb[c].st \in Outcome
    /\ LET n == cb[c].node  u == cb[c].user  o == cb[c].st IN
       IF n \in closed
       THEN UNCHANGED <<chan, came, bus>>
       ELSE /\ SendTo(n, u, o)
            /\ Comes(n, u, o)
            /\ bus' = bus \cup [call : {cb[c].call}, user : {u}, to : Node \ {n}, outcome : {o}]
    /\ cb' = [cb EXCEPT ![c] = NoCallback]
    /\ UNCHANGED <<request, subs, closed, kv, history, calls, faults>>

\* HandleClusterEvent. An error is marshalled to {} and cannot be unmarshalled: the
\* event is dropped. A nil error gets through.
HandleClusterEvent(e) ==
    /\ e \in bus
    /\ bus' = bus \ {e}
    /\ IF e.outcome = "error" \/ e.to \in closed
       THEN UNCHANGED chan
       ELSE SendTo(e.to, e.user, e.outcome)
    /\ IF e.to \in closed THEN UNCHANGED came ELSE Comes(e.to, e.user, e.outcome)
    /\ UNCHANGED <<request, subs, closed, kv, cb, history, calls, faults>>

\* OnDeactivate closes the channels of all subscribers. Handlers that are under way
\* go on until the process ends.
Close(n) ==
    /\ n \notin closed
    /\ Fault
    /\ closed' = closed \cup {n}
    /\ chan' = [r \in Request |-> IF r \in subs[n] /\ chan[r] = "empty" THEN "closed" ELSE chan[r]]
    /\ UNCHANGED <<request, subs, bus, came, kv, cb, history, calls>>

\* PublishPluginEvent fails, or a callback's process ends in the middle.
Vanish ==
    /\ Fault
    /\ \/ (\E e \in bus : bus' = bus \ {e}) /\ UNCHANGED cb
       \/ \E c \in Callback : /\ cb[c].st # "none"
                               /\ cb' = [cb EXCEPT ![c] = NoCallback]
                               /\ UNCHANGED bus
    /\ UNCHANGED <<request, chan, subs, closed, came, kv, history, calls>>

-----------------------------------------------------------------------------

Connect(r) ==
    \/ StoreState(r) \/ SubscribeOAuthComplete(r) \/ Receive(r) \/ Timeout(r)
    \/ UnsubscribeOAuthComplete(r)

Complete(c) ==
    \/ GetState(c) \/ DeleteState(c) \/ Exchange(c) \/ StoreInfo(c) \/ StoreToken(c) \/ Publish(c)

Next ==
    \/ \E r \in Request : Connect(r)
    \/ \E c \in Callback : Come(c) \/ Complete(c)
    \/ \E e \in bus : HandleClusterEvent(e)
    \/ \E n \in Node : Close(n)
    \/ Vanish

Spec == Init /\ [][Next]_vars

\* Goroutines run and the 45 seconds pass.
FairSpec == Spec /\ \A r \in Request : WF_vars(Connect(r))

-----------------------------------------------------------------------------
(* Properties *)

\* A goroutine that ends without a word tells its user, by saying nothing, that the
\* account is connected: unless its node was shut down, both the user's info and
\* the token are in the store then.
SilentMeansConnected ==
    \A r \in Request :
        pc[r] = "done" /\ told[r] = "nothing" =>
            owner[r].user \in info \cap token \/ owner[r].node \in closed

\* The invariant of a connection (connectUserToGitlab, the callback and the broker): types, and
\* what silence means.
OAuthInv == TypeOK /\ SilentMeansConnected

\* A success that came to the goroutine's node in time, from this node or from
\* another one, is not answered with a timeout: the subscription is there before
\* the user can come back, and no publication passes a waiting goroutine by.
SuccessIsHeard == \A r \in Request : told[r] = "timeout" => "ok" \notin came[r]

\* A state that comes back twice, in a repeated request or in a second browser window, lets
\* one callback exchange its code, also when a callback fails or dies in the middle; only
\* callbacks that carry it at the same time can both pass.
StateUsedOnce == \A r \in Request : uses[r] > 1 => r \in raced

\* No subscription is left behind: whatever comes, or does not, the goroutine ends
\* and removes its channel from the broker.
SubscriptionEnds ==
    \A r \in Request : (\E n \in Node : r \in subs[n]) ~> (\A n \in Node : r \notin subs[n])

\* "Timed out waiting for OAuth connection. Please check if the SiteURL is correct.":
\* the user is told so only if nobody came back from GitLab while the goroutine
\* waited.
TimeoutMeansNobodyCame == \A r \in Request : told[r] = "timeout" => came[r] = {}

\* "Unable to connect user to GitLab": when a callback ends with this answer because
\* the token could not be stored, the user is not shown as connected, by an info in
\* the store that has no token.
FailureLeavesNothing ==
    [][\A c \in Callback :
          cb[c].st = "token" /\ cb'[c].st = "error" =>
              (cb[c].user \in info' => cb[c].user \in token')]_vars
=============================================================================
