----------------------------- MODULE RightPanel -----------------------------
(***************************************************************************)
(* The panel on the right of the web client: which of its views it shows   *)
(* (gitlab_rhs), and in SidebarRight the lists of merge requests with the  *)
(* details that are asked for separately and joined to them when they are  *)
(* rendered.                                                               *)
(*                                                                         *)
(* The module is about one window: the main one, where buttons open the    *)
(* panel, or a popout, which shows the panel from the start and is told by *)
(* its parent what to show.  Every change of the store renders the panel   *)
(* again and runs its effects; Render is the last part of every action.    *)
(***************************************************************************)
EXTENDS Webapp, Naturals, Sequences, SequencesExt

CONSTANTS
    MR, Sha,    \* merge requests, and the commits that can be their last
    CI,         \* CI[s]: what GitLab says of the pipelines of a commit
    MaxChanges, MaxClicks   \* bounds

List == {"pullRequests", "reviews"}
RHSStates == List \cup {"todos", "issues"}
Status == {"success", "pending", "running", "canceled", "failed", ""}

ASSUME PanelAssumption ==
    /\ CI \in [Sha -> Status]
    /\ None \notin RHSStates
    /\ {MaxChanges, MaxClicks, MaxFaults} \subseteq Nat

VARIABLES
    window,     \* main or popout
    told,       \* the popout has its parent's state
    open, rhsView, state,   \* rhsViewType and rhsState
    prLists,      \* the two lists of merge requests in lhsData
    details,    \* yourPrDetails and reviewDetails
    prev,       \* usePrevious of both lists; None in a panel that is not mounted
    requested,   \* details on their way, in the order of asking
    \* History
    gap,        \* since the panel was mounted another list was chosen, or a
                \* merge request got another commit
    unsettled,  \* the last details of a list failed, or were overtaken
    changes, clicks, misses

display == <<window, told, open, rhsView, state>>
panelVars == <<display, prLists, details, prev, requested, gap, unsettled, changes, clicks, misses>>

Item == [id : MR, sha : Sha]
Detail == [id : MR, sha : Sha, status : Status]
ItemList == {s \in SeqOf(Item, 2) : \A i, j \in DOMAIN s : s[i].id = s[j].id => i = j}
Enquiry == [list : List, items : ItemList]

-----------------------------------------------------------------------------
(* Rendering *)

Mounted == open /\ rhsView = "sidebar_right"

\* Mutation: lists are compared as a hook's dependencies are, by identity.
AlwaysDiffers(prs, prevPrs) == TRUE

\* Mutation: a list of the same length is taken for the same list.
LengthsDiffer(prs, prevPrs) == Len(prs) # Len(prevPrs)

\* shouldUpdateDetails, for the list that is shown.
Differs(prs, prevPrs) ==
    \/ Len(prs) # Len(prevPrs)
    \/ \E i \in DOMAIN prs : prs[i].id # prevPrs[i].id

Asks(l) == Mounted' /\ (prev[l] = None \/ (state' = l /\ Differs(prLists'[l], prev[l])))

Pending(l, rs) == \E i \in DOMAIN rs : rs[i].list = l

\* The effects of a render: rest is what is pending of earlier ones, and failed the
\* lists whose details have just failed or been overtaken.
Render(rest, failed) ==
    LET ask(l) == IF Asks(l) THEN <<[list |-> l, items |-> prLists'[l]]>> ELSE <<>> IN
    /\ prev' = [l \in List |-> IF Mounted' THEN prLists'[l] ELSE None]
    /\ requested' = rest \o ask("pullRequests") \o ask("reviews")
    /\ unsettled' = [l \in List |->
           (unsettled[l] \/ l \in failed) /\ ~(Asks(l) /\ ~Pending(l, rest))]
    /\ gap' = IF Mounted' /\ Mounted
              THEN gap \/ state' # state
                       \/ \E l \in List, i, j \in 1 .. 2 :
                              /\ i \in DOMAIN prLists[l] /\ j \in DOMAIN prLists'[l]
                              /\ prLists[l][i].id = prLists'[l][j].id /\ prLists[l][i].sha # prLists'[l][j].sha
              ELSE FALSE

\* Mutation: details are joined by the number of the merge request.
SameMergeRequest(item, d) == item.id = d.id

\* mapPrsToDetails joins by project and commit.
Fits(item, d) == item.sha = d.sha

\* The status of an item, if details for it are there: the first that fit.
StatusOf(item, ds) ==
    LET fitting == {i \in DOMAIN ds : Fits(item, ds[i])}
    IN  IF fitting = {} THEN "" ELSE ds[Min(fitting)].status

\* The list that the panel renders, if it is one of merge requests.
Displayed == IF Mounted /\ state \in List THEN {state} ELSE {}

\* What GitlabItems draws beside the title.
Icon(status) ==
    CASE status = "" -> "none"
      [] status = "success" -> "check"
      [] status = "pending" -> "dot"
      [] OTHER -> "cross"

-----------------------------------------------------------------------------
(* What the user does *)

Click == clicks < MaxClicks /\ clicks' = clicks + 1 /\ UNCHANGED <<changes, misses>>

\* A button of the left sidebar: openRHS.
OpenRHS(s) ==
    /\ window = "main" /\ Click
    /\ rhsView' = "sidebar_right" /\ state' = s /\ open' = TRUE
    /\ UNCHANGED <<window, told, prLists, details>>
    /\ Render(requested, {})

\* The sidebar has one for each list.
Buttons == \E s \in RHSStates : OpenRHS(s)

\* The App Bar: showSubscriptionsRHS sets the view and toggles the panel.
ShowSubscriptionsRHS ==
    /\ window = "main" /\ Click
    /\ rhsView' = "subscriptions" /\ open' = ~open
    /\ UNCHANGED <<window, told, state, prLists, details>>
    /\ Render(requested, {})

CloseRHS ==
    /\ window = "main" /\ open /\ Click
    /\ open' = FALSE
    /\ UNCHANGED <<window, told, rhsView, state, prLists, details>>
    /\ Render(requested, {})

\* SEND_POPOUT_STATE: the parent answers with the view and the list it shows itself.
PopoutState(v, s) ==
    /\ window = "popout" /\ ~told
    /\ told' = TRUE
    /\ rhsView' = v /\ state' = IF s = None THEN state ELSE s
    /\ UNCHANGED <<window, open, prLists, details, changes, clicks, misses>>
    /\ Render(requested, {})

-----------------------------------------------------------------------------
(* What arrives *)

\* getLHSData, after a refresh event, a click or a reconnection, or when a popout starts.
\* The effects of the two lists are independent, so one of them changes at a time.
StoreLists(l, items) ==
    /\ changes < MaxChanges /\ changes' = changes + 1
    /\ prLists' = [prLists EXCEPT ![l] = items]
    /\ UNCHANGED <<display, details, clicks, misses>>
    /\ Render(requested, {})

\* The plugin reads the pipelines of the commit that it was sent, also of an older one.
DetailsOf(items) ==
    [i \in DOMAIN items |-> [id |-> items[i].id, sha |-> items[i].sha, status |-> CI[items[i].sha]]]

\* Details replace those that were there before, whichever were asked for first.
ReceiveDetails(i, ds, failed) ==
    /\ details' = [details EXCEPT ![requested[i].list] = ds]
    /\ UNCHANGED <<display, prLists, changes, clicks>>
    /\ Render(RemoveAt(requested, i), failed)

AllDetails(i) ==
    LET l == requested[i].list IN
    /\ ReceiveDetails(i, DetailsOf(requested[i].items),
                      IF \E j \in 1 .. i - 1 : requested[j].list = l THEN {l} ELSE {})
    /\ UNCHANGED misses

Fault == misses < MaxFaults /\ misses' = misses + 1

\* The plugin leaves out the merge requests that it cannot read.
SomeDetails(i) ==
    /\ Fault
    /\ requested[i].items # <<>>
    /\ ReceiveDetails(i, Tail(DetailsOf(requested[i].items)), {requested[i].list})

\* An error is returned to the effect, which ignores it.
NoDetails(i) ==
    /\ Fault
    /\ UNCHANGED <<display, prLists, details, changes, clicks>>
    /\ Render(RemoveAt(requested, i), {requested[i].list})

-----------------------------------------------------------------------------
PanelInit ==
    /\ window \in {"main", "popout"}
    /\ told = FALSE
    /\ open = (window = "popout") /\ rhsView = "subscriptions" /\ state = None
    /\ prLists = [l \in List |-> <<>>] /\ details = [l \in List |-> <<>>]
    /\ prev = [l \in List |-> None]
    /\ requested = <<>>
    /\ gap = FALSE /\ unsettled = [l \in List |-> FALSE]
    /\ changes = 0 /\ clicks = 0 /\ misses = 0

AnswerDetails == \E i \in DOMAIN requested : AllDetails(i) \/ SomeDetails(i) \/ NoDetails(i)

PanelNext ==
    \/ Buttons
    \/ ShowSubscriptionsRHS
    \/ CloseRHS
    \/ \E v \in {"subscriptions", "sidebar_right"}, s \in RHSStates \cup {None} : PopoutState(v, s)
    \/ \E l \in List, items \in ItemList : StoreLists(l, items)
    \/ AnswerDetails

\* Every request to the plugin ends.
PanelSpec == PanelInit /\ [][PanelNext]_panelVars /\ WF_panelVars(AnswerDetails)

-----------------------------------------------------------------------------
(* Properties *)

PanelTypeOK ==
    /\ window \in {"main", "popout"} /\ told \in BOOLEAN
    /\ open \in BOOLEAN /\ rhsView \in {"subscriptions", "sidebar_right"} /\ state \in RHSStates \cup {None}
    /\ prLists \in [List -> ItemList]
    /\ details \in [List -> Seq(Detail)]
    /\ prev \in [List -> ItemList \cup {None}]
    /\ requested \in Seq(Enquiry)
    /\ gap \in BOOLEAN /\ unsettled \in [List -> BOOLEAN]

Icons(l) == [i \in DOMAIN prLists[l] |-> Icon(StatusOf(prLists[l][i], details[l]))]

\* Whatever arrives late, the icon beside a merge request is that of its last commit
\* as the list gives it, or there is none: never that of a commit before it.
StatusIsOfCommit ==
    \A l \in List : \A i \in DOMAIN prLists[l] :
        Icons(l)[i] \in {"none", Icon(CI[prLists[l][i].sha])}

\* The state of the panel is well typed, and no icon is of another commit: mapPrsToDetails
\* joins details and list by commit, whatever answers come late.
PanelInv == PanelTypeOK /\ StatusIsOfCommit

\* In a panel that has shown the same list since it was mounted, details are asked for
\* again whenever the list changes: with nothing pending, each item has its own.
DisplayedHasDetails ==
    \A l \in Displayed :
        ~gap /\ ~unsettled[l] /\ ~Pending(l, requested)
            => \A i \in DOMAIN prLists[l] : \E d \in ToSet(details[l]) : Fits(prLists[l][i], d)

\* Details change the store and so render the panel again, but they are not asked for
\* again because of it: when nothing else happens, the panel stops asking.
PanelSettles == <>[](requested = <<>>)

\* What the code does not ensure (README.md, "Where the code and its words part").

\* The same after another list was chosen, or after a push.
AlwaysHasDetails ==
    \A l \in Displayed :
        ~unsettled[l] /\ ~Pending(l, requested)
            => \A i \in DOMAIN prLists[l] : \E d \in ToSet(details[l]) : Fits(prLists[l][i], d)

\* A cross says that the pipeline has failed.
CrossMeansFailed ==
    \A l \in List : \A i \in DOMAIN prLists[l] :
        Icons(l)[i] = "cross" => CI[prLists[l][i].sha] = "failed"

\* The approvals that are counted, which come with the details, are those of the item.
ApprovalsAreOwn ==
    \A l \in List : \A i \in DOMAIN prLists[l] :
        LET fitting == SelectSeq(details[l], LAMBDA d : Fits(prLists[l][i], d))
        IN  fitting # <<>> => fitting[1].id = prLists[l][i].id

\* The icon in the App Bar shows the subscriptions.
AppBarShows == [][rhsView # "subscriptions" /\ rhsView' = "subscriptions" /\ window = "main" => open']_panelVars
=============================================================================
