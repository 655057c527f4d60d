------------------------------ MODULE Subscriptions ------------------------------
(***************************************************************************)
(* The channels' subscriptions to GitLab projects and groups               *)
(* (server/subscriptions.go, the subscription commands of                  *)
(* server/command.go, the group lock of server/plugin.go).                 *)
(*                                                                         *)
(* All subscriptions are one value under one key of the store. A command   *)
(* reads it, changes its copy, writes the copy back and sends the channel  *)
(* its list over the websocket; these are separate steps, and nothing      *)
(* keeps two commands apart.                                               *)
(***************************************************************************)
EXTENDS Naturals, Sequences, SequencesExt

CONSTANTS
    Worker,     \* goroutines that execute a command
    Name,       \* names a user may type: GitLab paths without a trailing slash
    Channel,
    User,       \* creators of subscriptions
    None,
    MaxOps,     \* bound: commands
    MaxLocks,   \* bound: changes of the group lock
    MaxFaults   \* bound: failing writes

\* The keys of the map: "path" for a project, "path/" for a group.
Path == Name \X {"project", "group"}
Sub == [channel : Channel, creator : User]

\* The commands.
Add == [kind : {"add"}, path : Path, sub : Sub]
Delete == [kind : {"delete"}, name : Name, channel : Channel]

ASSUME ConstantsAssumption ==
    /\ MaxOps \in Nat /\ MaxLocks \in Nat /\ MaxFaults \in Nat

VARIABLES
    subs,       \* the stored map: a list of subscriptions per path, <<>> if absent
    locked,     \* names outside the configured GitLab group
    view,       \* the list each channel's sidebar last received
    pc,         \* what each worker does next
    op,         \* the command it executes
    copy,       \* its copy of the map
    links,      \* history: links that a command deletes or has deleted
    told,       \* history: links whose creator was told that they are locked
    overlap,    \* history: a command was started, or the lock changed, while one was running
    ops, locks, faults

store == <<subs, locked>>
history == <<links, told, overlap>>
bounds == <<ops, locks, faults>>
vars == <<subs, locked, view, pc, op, copy, links, told, overlap, ops, locks, faults>>

\* A channel's link to a path.
Link == Path \X Channel

TypeOK ==
    /\ subs \in [Path -> Seq(Sub)]
    /\ locked \subseteq Name
    /\ view \in [Channel -> SUBSET (Path \X User)]
    /\ op \in [Worker -> Add \cup Delete \cup {None}]
    /\ copy \in [Worker -> [Path -> Seq(Sub)] \cup {None}]
    /\ pc \in [Worker -> {"idle", "get", "set", "send"}]
    /\ links \in [Link -> {"unknown", "deleting", "deleted"}]
    /\ told \subseteq Link
    /\ overlap \in BOOLEAN
    /\ ops \in 0 .. MaxOps /\ locks \in 0 .. MaxLocks /\ faults \in 0 .. MaxFaults

Init ==
    /\ subs = [p \in Path |-> <<>>]
    /\ locked = {}
    /\ view = [c \in Channel |-> {}]
    /\ pc = [w \in Worker |-> "idle"]
    /\ op = [w \in Worker |-> None]
    /\ copy = [w \in Worker |-> None]
    /\ links = [l \in Link |-> "unknown"]
    /\ told = {}
    /\ overlap = FALSE
    /\ ops = 0 /\ locks = 0 /\ faults = 0

-----------------------------------------------------------------------------
(* The map *)

\* The position of the first subscription of a channel in a list, or 0.
IndexOf(list, c) == SelectInSeq(list, LAMBDA s : s.channel = c)

\* Mutation: a channel's subscription is appended even if it has one.
AppendTo(map, p, s) == [map EXCEPT ![p] = Append(@, s)]

\* AddSubscription: the channel's subscription is replaced, or one is appended.
AddTo(map, p, s) ==
    LET i == IndexOf(map[p], s.channel) IN
    [map EXCEPT ![p] = IF i = 0 THEN Append(@, s) ELSE [@ EXCEPT ![i] = s]]

\* Mutation: only the path of a project is looked at.
RemoveFromProject(map, n, c) ==
    [p \in Path |->
        LET i == IndexOf(map[p], c) IN
        IF p # <<n, "project">> \/ i = 0 THEN map[p] ELSE RemoveAt(map[p], i)]

\* Unsubscribe: the channel's first subscription is removed, both from the path
\* that is a project's and from the one that is a group's.
RemoveFrom(map, n, c) ==
    [p \in Path |->
        LET i == IndexOf(map[p], c) IN
        IF p[1] # n \/ i = 0 THEN map[p] ELSE RemoveAt(map[p], i)]

\* filterSubscriptionsByChannel
OfChannel(map, c) ==
    {v \in Path \X User : [channel |-> c, creator |-> v[2]] \in ToSet(map[v[1]])}

-----------------------------------------------------------------------------
(* The commands *)

\* No command is running.
Quiet == \A w \in Worker : pc[w] = "idle"

Start(w, o) ==
    /\ pc[w] = "idle"
    /\ ops < MaxOps
    /\ ops' = ops + 1
    /\ pc' = [pc EXCEPT ![w] = "get"]
    /\ op' = [op EXCEPT ![w] = o]
    /\ overlap' = (overlap \/ ~Quiet)
    /\ UNCHANGED <<store, view, copy, told, locks, faults>>

\* "/gitlab subscriptions add": Subscribe first checks the group lock.
Subscribe(w) ==
    \E p \in Path, c \in Channel, u \in User :
        /\ p[1] \notin locked
        /\ Start(w, [kind |-> "add", path |-> p, sub |-> [channel |-> c, creator |-> u]])
        /\ links' = [links EXCEPT ![<<p, c>>] = "unknown"]

\* An "add" of the link has been started and not answered.
Adding(l) ==
    \E w \in Worker :
        /\ pc[w] # "idle"
        /\ op[w].kind = "add"
        /\ <<op[w].path, op[w].sub.channel>> = l

\* "/gitlab subscriptions delete", with the name of a project or of a group.
Unsubscribe(w) ==
    \E n \in Name, c \in Channel :
        /\ Start(w, [kind |-> "delete", name |-> n, channel |-> c])
        /\ links' = [l \in Link |-> IF l[1][1] = n /\ l[2] = c /\ ~Adding(l)
                                    THEN "deleting" ELSE links[l]]

\* GetSubscriptions. Unsubscribe returns if the channel has no such subscription.
Get(w) ==
    /\ pc[w] = "get"
    /\ \/ /\ op[w].kind = "add"
          /\ copy' = [copy EXCEPT ![w] = AddTo(subs, op[w].path, op[w].sub)]
          /\ pc' = [pc EXCEPT ![w] = "set"]
       \/ /\ op[w].kind = "delete"
          /\ copy' = [copy EXCEPT ![w] = RemoveFrom(subs, op[w].name, op[w].channel)]
          /\ pc' = [pc EXCEPT ![w] = IF copy'[w] = subs THEN "idle" ELSE "set"]
    /\ UNCHANGED <<store, view, op, history, bounds>>

\* StoreSubscriptions: an error is logged, and the command goes on.
Set(w) ==
    /\ pc[w] = "set"
    /\ \/ subs' = copy[w] /\ UNCHANGED faults
       \/ faults < MaxFaults /\ faults' = faults + 1 /\ UNCHANGED subs
    /\ pc' = [pc EXCEPT ![w] = "send"]
    /\ UNCHANGED <<locked, view, op, copy, history, ops, locks>>

\* The links a command has deleted when it answers that it succeeded, if nobody
\* has asked for them in the meantime.
Answered(w) ==
    [l \in Link |-> IF /\ op[w].kind = "delete"
                       /\ l[1][1] = op[w].name /\ l[2] = op[w].channel
                       /\ links[l] = "deleting"
                    THEN "deleted" ELSE links[l]]

\* Mutation: only additions are sent to the channel.
SendAdded(w) ==
    /\ pc[w] = "send"
    /\ links' = Answered(w)
    /\ view' = IF op[w].kind = "add"
               THEN [view EXCEPT ![op[w].sub.channel] = OfChannel(copy[w], op[w].sub.channel)]
               ELSE view
    /\ pc' = [pc EXCEPT ![w] = "idle"]
    /\ op' = [op EXCEPT ![w] = None]
    /\ copy' = [copy EXCEPT ![w] = None]
    /\ UNCHANGED <<store, told, overlap, bounds>>

\* sendChannelSubscriptionsUpdated, and the command's answer.
Send(w) ==
    /\ pc[w] = "send"
    /\ links' = Answered(w)
    /\ LET c == IF op[w].kind = "add" THEN op[w].sub.channel ELSE op[w].channel
       IN view' = [view EXCEPT ![c] = OfChannel(copy[w], c)]
    /\ pc' = [pc EXCEPT ![w] = "idle"]
    /\ op' = [op EXCEPT ![w] = None]
    /\ copy' = [copy EXCEPT ![w] = None]
    /\ UNCHANGED <<store, told, overlap, bounds>>

-----------------------------------------------------------------------------
(* The group lock *)

\* OnConfigurationChange with another GitLab group: notifyUsersOfDisallowed-
\* Subscriptions sends the creators of the stored subscriptions a message.
ChangeGroup ==
    /\ locks < MaxLocks
    /\ locks' = locks + 1
    /\ \E s \in SUBSET Name \ {locked} : locked' = s
    /\ told' = {l \in Link : l[1][1] \in locked' /\ IndexOf(subs[l[1]], l[2]) # 0}
    /\ overlap' = (overlap \/ ~Quiet)
    /\ UNCHANGED <<subs, view, pc, op, copy, links, ops, faults>>

-----------------------------------------------------------------------------

Command(w) == Subscribe(w) \/ Unsubscribe(w)
Step(w) == Get(w) \/ Set(w) \/ Send(w)

Next == ChangeGroup \/ \E w \in Worker : Command(w) \/ Step(w)

Spec == Init /\ [][Next]_vars
-----------------------------------------------------------------------------
(* Properties *)

\* A channel has at most one subscription to a path, however the commands of
\* several users interleave: it gets one post for an event, and one deletion
\* removes the subscription.
OnePerChannel ==
    \A p \in Path : \A i, j \in 1 .. Len(subs[p]) :
        subs[p][i].channel = subs[p][j].channel => i = j

\* The invariant of the stored map (AddSubscription): types, and one subscription per channel.
SubscriptionsInv == TypeOK /\ OnePerChannel

\* "Unsubscribe deletes the link between namespace/project and channelID. Returns
\* true if subscription was found": once the command has answered that it deleted
\* a subscription, the channel has none to that path, as a project or as a group,
\* until somebody adds one.
UnsubscribeDeletes ==
    \A l \in Link : links[l] = "deleted" => IndexOf(subs[l[1]], l[2]) = 0

\* Commands and changes of the lock have come one after the other so far, and no write has
\* failed.
Sequential == ~overlap /\ faults = 0

\* Commands one after the other leave the sidebar of each channel with what is stored:
\* no command leaves the list it sent behind the list it wrote.
ViewCurrent ==
    Sequential /\ Quiet => \A c \in Channel : view[c] = OfChannel(subs, c)

\* "finds subscriptions that are no longer in the allowed GitLab group (after a
\* config change) and sends a DM to each affected subscription creator": when no
\* command is running, the creator of every locked subscription has been told.
LockedTold ==
    Quiet =>
        \A l \in Link : l[1][1] \in locked /\ IndexOf(subs[l[1]], l[2]) # 0 => l \in told

\* Commands one after the other do delete what they say, a project's subscription and that
\* of a group of the same name; and unless the lock changes in the middle of a command, the
\* creators have been told: who subscribes later to what is locked is refused, and nothing
\* that was there is left out.
CommandsAlone == Sequential => UnsubscribeDeletes /\ LockedTold
=============================================================================
