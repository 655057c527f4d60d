------------------------------ MODULE Popovers ------------------------------
(***************************************************************************)
(* What the web client shows when the user points at something: the        *)
(* preview of a link to GitLab (components/link_tooltip) and the GitLab    *)
(* name in a user's popover (components/user_attribute).                   *)
(*                                                                         *)
(* All previews share one regular expression with the g flag, which keeps  *)
(* the position of its last match and starts the next test from there: a   *)
(* test that follows a match fails, and only that one.                     *)
(***************************************************************************)
EXTENDS Webapp, Naturals, FiniteSets

CONSTANTS
    Link, Host,  \* links in posts, and GitLab hosts
    Shape,       \* what the code looks at in a link
    User, Name,
    MaxMoves    \* bound: what is pointed at, and changes at the plugin

\* A link has a host, if it is a URL at all; it may match the expression; its fourth
\* part names a type; and its host may be followed by a port.
ShapeOf == [host : Host \cup {None}, matches : BOOLEAN,
            type : {"issues", "merge_requests", "other"}, port : BOOLEAN]

ASSUME PopoversAssumption ==
    /\ Shape \in [Link -> ShapeOf]
    /\ None \notin Host \cup Link \cup User \cup Name
    /\ MaxMoves \in Nat /\ MaxFaults \in Nat

VARIABLES
    setting,    \* GitlabURL in the plugin's settings; None is the empty string
    connected, gitlabURL,   \* of the store
    advanced,   \* lastIndex of gitlabRegexPattern is not 0
    hovered,    \* the link under the pointer
    data,       \* links whose component has data
    popover,    \* the user whose popover is open
    gitlabUsers,\* the names that are kept
    queries,    \* on their way
    accounts,   \* at the plugin: who is connected, and as whom
    \* History
    refused,    \* links to one's own host, in a row, that would have matched from the start
    had,        \* the names that a user has had
    moves, losses

store == <<setting, connected, gitlabURL>>
links == <<advanced, hovered, data, refused>>
users == <<popover, gitlabUsers, accounts, had>>
popoversVars == <<store, links, users, queries, moves, losses>>

Query == [kind : {"link"}, of : Link, number : 1 .. MaxMoves]
           \cup [kind : {"user"}, of : User, number : 1 .. MaxMoves]

Move == moves < MaxMoves /\ moves' = moves + 1 /\ UNCHANGED losses

Asked(kind, x) == queries \cup {[kind |-> kind, of |-> x, number |-> moves + 1]}

-----------------------------------------------------------------------------
(* Previews *)

\* On the host that the store knows.
Own(l) == Shape[l].host # None /\ Shape[l].host = gitlabURL'

\* Mutation: the expression is tested before the hosts are compared.
TestsAny(l) == connected' /\ Shape[l].host # None

\* Links elsewhere do not reach the expression.
Tests(l) == connected' /\ Own(l)

\* The effect of LinkTooltip.  A port makes getInfoAboutLink fail, and nothing is
\* asked; neither is it for an unknown type, which is logged.
Preview(l) ==
    LET matches == Shape[l].matches /\ ~advanced
    IN  IF ~Tests(l)
        THEN UNCHANGED <<advanced, refused, queries>>
        ELSE /\ advanced' = matches
             /\ refused' = CASE ~Own(l) \/ ~Shape[l].matches -> refused
                             [] Own(l) /\ matches -> 0
                             [] OTHER -> refused + 1
             /\ queries' = IF matches /\ Own(l) /\ Shape[l].type # "other" /\ ~Shape[l].port
                            THEN Asked("link", l) ELSE queries

Hover(l) ==
    /\ Move
    /\ hovered # l /\ hovered' = l
    /\ UNCHANGED <<store, data, users>>
    /\ Preview(l)

Leave ==
    /\ hovered # None /\ hovered' = None
    /\ UNCHANGED <<store, advanced, data, refused, users, queries, moves, losses>>

\* The tooltip shows what it has, whatever became of the connection since.
Previewed == hovered \in data

\* The data stay in the component, also when the tooltip is hidden or the user disconnects.
ReceiveLink(r) ==
    /\ r.kind = "link"
    /\ data' = data \cup {r.of}
    /\ queries' = queries \ {r}
    /\ UNCHANGED <<store, advanced, hovered, refused, users, moves, losses>>

-----------------------------------------------------------------------------
(* The connection *)

\* gitlab_connect, as the plugin publishes it: with the GitlabURL of its settings, also
\* when the user has connected to an instance and the setting is empty.
ConnectPayload == [connected |-> TRUE, url |-> setting]

\* getConnected; without the setting the plugin answers nothing (checkConfigured).
AnswerPayload(c) == [connected |-> c, url |-> setting]

\* handleDisconnect.
DisconnectPayload == [connected |-> FALSE, url |-> None]

\* RECEIVED_CONNECTED.  The effect of a tooltip that is shown runs when "connected"
\* changes; a new URL alone does not start it.
StoreConnected(payload) ==
    /\ Move
    /\ connected' = payload.connected /\ gitlabURL' = payload.url
    /\ UNCHANGED <<setting, hovered, data, users>>
    /\ IF hovered # None /\ connected' # connected
       THEN Preview(hovered)
       ELSE UNCHANGED <<advanced, refused, queries>>

\* A system administrator sets another GitlabURL, or clears it.
ChangeSetting(h) ==
    /\ Move
    /\ setting # h /\ setting' = h
    /\ UNCHANGED <<connected, gitlabURL, links, users, queries>>

-----------------------------------------------------------------------------
(* Users *)

\* getGitlabUser: a name that is kept is not asked for again.
OpenPopover(u) ==
    /\ Move
    /\ popover # u /\ popover' = u
    /\ queries' = IF gitlabUsers[u] = None THEN Asked("user", u) ELSE queries
    /\ UNCHANGED <<store, links, gitlabUsers, accounts, had>>

ClosePopover ==
    /\ popover # None /\ popover' = None
    /\ UNCHANGED <<store, links, gitlabUsers, accounts, had, queries, moves, losses>>

\* Mutation: the name goes to the popover that is open.
KeptForPopover(u, name) == [v \in User |-> IF v = popover THEN name ELSE gitlabUsers[v]]

\* RECEIVED_GITLAB_USER names the user that was asked for.
Kept(u, name) == [gitlabUsers EXCEPT ![u] = name]

\* UserAttribute links the name to the GitLab of whoever looks at it.
NameShown(u) == popover = u /\ gitlabUsers[u] # None /\ gitlabURL # None

\* Someone who is not connected is answered with 404.  The error has its number in
\* status_code, and the action looks at status: last_try is never kept.
ReceiveUser(r) ==
    /\ r.kind = "user"
    /\ gitlabUsers' = IF accounts[r.of] = None THEN gitlabUsers ELSE Kept(r.of, accounts[r.of])
    /\ queries' = queries \ {r}
    /\ UNCHANGED <<store, links, popover, accounts, had, moves, losses>>

\* The request fails: neither action keeps anything.
FailQuery(r) ==
    /\ losses < MaxFaults /\ losses' = losses + 1
    /\ queries' = queries \ {r}
    /\ UNCHANGED <<store, links, users, moves>>

\* A user connects, connects as someone else, or disconnects (None).
ChangeAccount(u, name) ==
    /\ Move
    /\ accounts[u] # name
    /\ accounts' = [accounts EXCEPT ![u] = name]
    /\ had' = [had EXCEPT ![u] = @ \cup {name}]
    /\ UNCHANGED <<store, links, popover, gitlabUsers, queries>>

-----------------------------------------------------------------------------
PopoversInit ==
    /\ setting \in Host /\ connected = FALSE /\ gitlabURL = None
    /\ advanced = FALSE /\ hovered = None /\ data = {}
    /\ popover = None
    /\ gitlabUsers = [u \in User |-> None]
    /\ queries = {}
    /\ accounts = [u \in User |-> None]
    /\ refused = 0
    /\ had = [u \in User |-> {None}]
    /\ moves = 0 /\ losses = 0

PopoversNext ==
    \/ \E l \in Link : Hover(l)
    \/ Leave
    \/ StoreConnected(ConnectPayload)
    \/ setting # None /\ \E c \in BOOLEAN : StoreConnected(AnswerPayload(c))
    \/ StoreConnected(DisconnectPayload)
    \/ \E h \in Host \cup {None} : ChangeSetting(h)
    \/ \E u \in User : OpenPopover(u)
    \/ ClosePopover
    \/ \E r \in queries : ReceiveLink(r) \/ ReceiveUser(r) \/ FailQuery(r)
    \/ \E u \in User, name \in Name \cup {None} : ChangeAccount(u, name)

PopoversSpec == PopoversInit /\ [][PopoversNext]_popoversVars

-----------------------------------------------------------------------------
(* Properties *)

PopoversTypeOK ==
    /\ setting \in Host \cup {None} /\ connected \in BOOLEAN /\ gitlabURL \in Host \cup {None}
    /\ advanced \in BOOLEAN /\ hovered \in Link \cup {None} /\ data \subseteq Link
    /\ popover \in User \cup {None}
    /\ gitlabUsers \in [User -> Name \cup {None}] /\ accounts \in [User -> Name \cup {None}]
    /\ queries \subseteq Query
    /\ refused \in Nat
    /\ had \in [User -> SUBSET (Name \cup {None})]
    /\ moves \in 0 .. MaxMoves /\ losses \in 0 .. MaxFaults

\* The expression forgets its position after one refusal: of two links in a row to
\* merge requests or issues of one's GitLab, at least one is recognised, however many
\* links of other kinds or to other hosts are hovered between them.
RefusedAtMostOnce == refused <= 1

\* A popover shows a name only of the user it is about, and one that this user has had,
\* also when answers arrive after another popover was opened.
NamesAreOwn == \A u \in User : gitlabUsers[u] \in had[u]

\* The store is well typed, and RECEIVED_GITLAB_USER puts a name with the user it was asked for.
PopoversInv == PopoversTypeOK /\ NamesAreOwn

\* What the code does not ensure (README.md, "Where the code and its words part").

\* Every link that is valid is recognised, whatever was hovered before.
NeverRefused == refused = 0

\* The tooltip's effect makes a URL of gitlabURL whenever the store says connected; an
\* empty string makes it throw.
ConnectedHasURL == connected => gitlabURL # None

\* A name that is shown is the one by which the user is connected.
NamesAreCurrent == \A u \in User : NameShown(u) => gitlabUsers[u] = accounts[u]

\* Without a connection no preview is shown.
NoPreviewUnconnected == Previewed => connected
=============================================================================
