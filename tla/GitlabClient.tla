----------------------------- MODULE GitlabClient -----------------------------
(***************************************************************************)
(* The client of the GitLab API (server/gitlab/api.go): lists read page by *)
(* page, the goroutines of GetLHSData and the variable they share, the     *)
(* operations on a project, and the group lock, which an operation looks   *)
(* up when it checks a project, while the client asks GitLab for the group *)
(* it was made with (server/configuration.go).                             *)
(*                                                                         *)
(* A behaviour is one call, with changes of the settings and of GitLab     *)
(* before and during it. A step of a goroutine is one exchange with GitLab *)
(* or one access to what the goroutines share.                             *)
(***************************************************************************)
EXTENDS Naturals, Sequences, FiniteSets

CONSTANTS
    Project, Group, Nothing,
    List,        \* the lists of GetLHSData that a run reads, a subset of LHSLists
    PageSize,
    MaxItems,    \* bound: items of a project in one list
    MaxChanges,  \* bound: changes of the lock, projects that move to another group
    MaxFailures,   \* bound: failing exchanges and failing registrations of the command
    Totals       \* whether GitLab says how many pages there are (subset of BOOLEAN)

LHSLists == {"reviews", "issues", "prs", "todos"}

VARIABLES
    lock,     \* GitlabGroup of the configuration
    client,   \* gitlabGroup of Plugin.GitlabClient
    saving,   \* OnConfigurationChange has set the configuration and not yet the client
    group,    \* the group a project is in
    content,  \* what GitLab has in the lists of the call
    call,     \* the call, with the group of the client it is made on; one by number has the
              \* group in the path it asks for, perhaps a former one of the project
    thread,   \* its goroutines
    err,      \* the variable err of GetLHSData
    answer,
    locks,    \* history: the locks in force during the call
    groups,   \* history: the groups each project was in during the call
    failed,   \* history: goroutines whose exchange with GitLab failed
    changes, failures

config == <<lock, client, saving>>
history == <<locks, groups, failed>>
clientVars == <<config, group, content, call, thread, err, answer, history, changes, failures>>

\* Merge requests, issues, todos, projects, labels: all that matters is the project.
Item == Project \X (1 .. MaxItems)
Of(i) == i[1]

Thread == List \cup {"main"}

\* Operations: the sidebar's GetLHSData, the same for the command's GetToDo, GetYourProjects,
\* SearchIssues, GetYourPrDetails for a list that the webapp sends, and on a project its
\* labels or milestones, its members, a change (CreateIssue, AttachCommentToIssue,
\* TriggerProjectPipeline), and an issue or merge request by its number.
OnProject == {"labels", "members", "change", "bynumber"}
Concurrent == {"lists", "todo"}
Op == Concurrent \cup {"projects", "search", "details"} \cup OnProject

ASSUME ClientAssumption ==
    /\ List \subseteq LHSLists
    /\ Nothing \notin Group \cup Project \cup Op
    /\ PageSize \in Nat \ {0} /\ MaxItems \in Nat /\ MaxChanges \in Nat /\ MaxFailures \in Nat
    /\ Totals \subseteq BOOLEAN

\* The step a call begins with.
FirstStep(op) == IF op \in OnProject THEN "check" ELSE IF op = "details" THEN "sift" ELSE "page"

CallStep == {"check", "sift", "fetch", "page", "change", "store", "return", "over"}
NoThread == [at |-> "over", page |-> 1, got |-> <<>>, own |-> FALSE]
NoCall == [op |-> Nothing, project |-> Nothing, path |-> Nothing, group |-> Nothing]
NoAnswer == [kind |-> "none", items |-> [t \in Thread |-> <<>>], about |-> {}]

ClientTypeOK ==
    /\ {lock, client} \subseteq Group \cup {Nothing} /\ saving \in BOOLEAN
    /\ group \in [Project -> Group]
    /\ content \in [Thread -> Seq(Item)]
    /\ call \in [op : Op \cup {Nothing}, project : Project \cup {Nothing},
                path : Group \cup {Nothing}, group : Group \cup {Nothing}]
    /\ thread \in [Thread -> [at : CallStep, page : Nat \ {0}, got : Seq(Item), own : BOOLEAN]]
    /\ err \in BOOLEAN
    /\ answer \in [kind : {"none", "ok", "error"}, items : [Thread -> Seq(Item)], about : SUBSET Project]
    /\ locks \subseteq Group \cup {Nothing} /\ groups \in [Project -> SUBSET Group]
    /\ failed \subseteq Thread
    /\ changes \in 0 .. MaxChanges /\ failures \in 0 .. MaxFailures

ClientInit ==
    /\ lock \in Group \cup {Nothing} /\ client = lock /\ saving = FALSE
    /\ group \in [Project -> Group]
    /\ content = [t \in Thread |-> <<>>]
    /\ call = NoCall
    /\ thread = [t \in Thread |-> NoThread]
    /\ err = FALSE
    /\ answer = NoAnswer
    /\ locks = {} /\ groups = [p \in Project |-> {}] /\ failed = {}
    /\ changes = 0 /\ failures = 0

Running == call # NoCall /\ answer = NoAnswer
Fails == failures < MaxFailures /\ failures' = failures + 1

-----------------------------------------------------------------------------
(* What the code computes *)

\* isNamespaceAllowed, under the lock of the moment.
Allowed(p) == lock = Nothing \/ group[p] = lock

\* The items at some positions of a list, in the order of the list.
At(s, K) == [n \in 1 .. Cardinality(K) |-> s[CHOOSE k \in K : Cardinality({j \in K : j <= k}) = n]]

\* Where a list has items that the lock allows, and items of the client's group.
AllowedIn(s) == {k \in DOMAIN s : Allowed(Of(s[k]))}
OfGroup(s) == {k \in DOMAIN s : group[Of(s[k])] = call.group}

\* What GitLab lists for a goroutine: items of the client's group, or, of todos and of what
\* belongs to a project, all.
Visible(t) ==
    IF call.group = Nothing \/ t = "todos" \/ call.op \in OnProject THEN content[t]
    ELSE At(content[t], OfGroup(content[t]))

PageAt(s, n) == SubSeq(s, (n - 1) * PageSize + 1, IF n * PageSize < Len(s) THEN n * PageSize ELSE Len(s))

\* resp.TotalPages, which is 0 when GitLab does not say it.
TotalPages(s, said) == IF said THEN (Len(s) + PageSize - 1) \div PageSize ELSE 0

\* What a search finds, the members of a project and the labels of an issue are read without
\* a page, which is their first one.
FirstPageOnly == {"search", "members", "bynumber"}

\* Mutation: the page before the last one is taken for the last one.
IsLastButOne(s, n, said) == Len(s) <= (n + 1) * PageSize

\* Whether page n of s is the last one that is read: resp.NextPage is 0. paginateAll also
\* compares it with the number of pages.
IsLast(s, n, said) ==
    \/ Len(s) <= n * PageSize
    \/ call.op = "projects" /\ n >= TotalPages(s, said)
    \/ call.op \in FirstPageOnly

\* GetToDoList drops the todos of projects outside the lock.
Kept(t, s) == IF t = "todos" THEN At(s, AllowedIn(s)) ELSE s

\* GetToDo filters the todos once more, by the name of the project, which is the group's and
\* the project's title with " / " in between, and never begins with the lock and a slash.
Told(t, s) == IF call.op = "todo" /\ t = "todos" /\ lock # Nothing THEN <<>> ELSE s

\* The label of an issue that is not in the list of the project's labels: GetLabelDetails
\* returns errors.Wrap of a nil error, which is no error, and no labels at all.
Detailed(s) == IF call.op = "bynumber" /\ Len(s) < Len(content["main"]) THEN <<>> ELSE s

-----------------------------------------------------------------------------
(* A call *)

\* Sequences of different items.
Listings(S) == {s \in UNION {[1 .. n -> S] : n \in 0 .. Cardinality(S)} :
                   \A j, k \in DOMAIN s : s[j] = s[k] => j = k}

\* The lists of a call: for an issue the labels it has, which are the project's.
Contents(op, p) ==
    LET S == IF op \in OnProject THEN {i \in Item : Of(i) = p} ELSE Item
        L == IF op = "change" THEN {<<>>} ELSE Listings(S)
        T == IF op \in Concurrent THEN List ELSE {"main"} IN
    {[t \in Thread |-> IF t \in T THEN f[t] ELSE <<>>] : f \in [T -> L]}

\* A request takes the client; a project may be any, also one outside the lock. GitLab
\* redirects from the path of any group the project has been in.
BeginCall ==
    /\ call = NoCall
    /\ \E op \in Op : \E p \in IF op \in OnProject THEN Project ELSE {Nothing},
                       g \in IF op = "bynumber" THEN Group ELSE {Nothing} :
        /\ call' = [op |-> op, project |-> p, path |-> g, group |-> client]
        /\ content' \in Contents(op, p)
        /\ thread' = [t \in Thread |->
              [NoThread EXCEPT !.at = IF (t = "main") # (op \in Concurrent) THEN FirstStep(op) ELSE "over"]]
    /\ locks' = {lock} /\ groups' = [p \in Project |-> {group[p]}]
    /\ UNCHANGED <<config, group, err, answer, failed, changes, failures>>

\* Goroutine t goes on at a step.
GoOn(t, at) == thread' = [thread EXCEPT ![t].at = at]

\* The call is answered.
Finish(kind, items, about) ==
    /\ answer' = [kind |-> kind, items |-> items, about |-> about]
    /\ thread' = [t \in Thread |-> NoThread]

FinishAlone(kind, items, about) ==
    Finish(kind, [t \in Thread |-> IF t = "main" THEN items ELSE <<>>], about)

\* Mutation: the project's group is not looked at.
CheckNothing ==
    /\ thread["main"].at = "check"
    /\ GoOn("main", IF call.op = "change" THEN "change" ELSE "page")
    /\ UNCHANGED <<config, group, content, call, err, answer, history, changes, failures>>

\* ensureProjectInAllowedGroup asks GitLab for the project. GetIssueByID and
\* GetMergeRequestByID look at the path they were given and ask nothing.
Passes == IF call.op = "bynumber" THEN lock \in {Nothing, call.path} ELSE Allowed(call.project)

Check ==
    /\ thread["main"].at = "check"
    /\ \/ /\ Passes
          /\ GoOn("main", IF call.op = "change" THEN "change" ELSE "page")
          /\ UNCHANGED <<answer, failed, failures>>
       \/ /\ ~ Passes
          /\ FinishAlone("error", <<>>, {})
          /\ UNCHANGED <<failed, failures>>
       \/ /\ call.op # "bynumber" /\ Fails
          /\ FinishAlone("error", <<>>, {})
          /\ failed' = failed \cup {"main"}
    /\ UNCHANGED <<config, group, content, call, err, locks, groups, changes>>

\* GetYourPrDetails checks the project of each merge request in turn, and leaves out those
\* it may not or cannot see ...
Sift ==
    LET s == content["main"]  n == thread["main"].page IN
    /\ thread["main"].at = "sift"
    /\ \/ /\ n > Len(s)
          /\ GoOn("main", "fetch")
          /\ UNCHANGED <<failed, failures>>
       \/ /\ n <= Len(s)
          /\ thread' = [thread EXCEPT !["main"].page = n + 1,
                                      !["main"].got = IF n \in AllowedIn(s) THEN Append(@, s[n]) ELSE @]
          /\ UNCHANGED <<failed, failures>>
       \/ /\ n <= Len(s) /\ Fails
          /\ thread' = [thread EXCEPT !["main"].page = n + 1]
          /\ failed' = failed \cup {"main"}
    /\ UNCHANGED <<config, group, content, call, err, answer, locks, groups, changes>>

\* ... and asks for the commit and the approvals of the others, all at once; one of which
\* either cannot be had is left out. What the two goroutines of a merge request share is only
\* logged. Not modelled: the order of the answer, which is that in which they end.
Fetch ==
    LET got == thread["main"].got IN
    /\ thread["main"].at = "fetch"
    /\ \/ /\ FinishAlone("ok", got, {})
          /\ UNCHANGED <<failed, failures>>
       \/ /\ Fails
          /\ \E k \in DOMAIN got : FinishAlone("ok", At(got, DOMAIN got \ {k}), {})
          /\ failed' = failed \cup {"main"}
    /\ UNCHANGED <<config, group, content, call, err, locks, groups, changes>>

\* CreateIssue, AttachCommentToIssue and TriggerProjectPipeline, after the check.
Change ==
    /\ thread["main"].at = "change"
    /\ \/ /\ FinishAlone("ok", <<>>, {call.project})
          /\ UNCHANGED <<failed, failures>>
       \/ /\ Fails
          /\ FinishAlone("error", <<>>, {})
          /\ failed' = failed \cup {"main"}
    /\ UNCHANGED <<config, group, content, call, err, locks, groups, changes>>

\* One page of a list. A goroutine of GetLHSData then stores what it has, others answer.
Page(t) ==
    /\ thread[t].at = "page"
    /\ LET s == Visible(t)  n == thread[t].page  got == thread[t].got \o PageAt(s, n)
           ends(kind, items) ==
               IF t # "main" THEN /\ thread' = [thread EXCEPT ![t].at = "store", ![t].got = items,
                                                               ![t].own = kind = "error"]
                                  /\ UNCHANGED answer
               ELSE FinishAlone(kind, items, {}) IN
       \/ /\ \E said \in Totals :
                \/ /\ IsLast(s, n, said)
                   /\ ends("ok", Detailed(Kept(t, got)))
                \/ /\ ~ IsLast(s, n, said)
                   /\ thread' = [thread EXCEPT ![t].page = n + 1, ![t].got = got]
                   /\ UNCHANGED answer
          /\ UNCHANGED <<failed, failures>>
       \/ /\ Fails
          /\ ends("error", <<>>)
          /\ failed' = failed \cup {t}
    /\ UNCHANGED <<config, group, content, call, err, locks, groups, changes>>

\* GetLHSData: "reviews, err = g.GetReviews(...)", where err is that of all goroutines.
Store(t) ==
    /\ thread[t].at = "store"
    /\ err' = thread[t].own
    /\ GoOn(t, "return")
    /\ UNCHANGED <<config, group, content, call, answer, history, changes, failures>>

\* Mutation: a goroutine that failed waits for the others to be cancelled.
ReturnUnlessFailed(t) ==
    /\ thread[t].at = "return" /\ ~ thread[t].own
    /\ GoOn(t, "over")
    /\ UNCHANGED <<config, group, content, call, err, answer, history, changes, failures>>

\* "return err" gives the value just assigned, or the one another goroutine has put there
\* since: a data race.
Return(t) ==
    /\ thread[t].at = "return"
    /\ \E e \in {thread[t].own, err} : thread' = [thread EXCEPT ![t].at = "over", ![t].own = e]
    /\ UNCHANGED <<config, group, content, call, err, answer, history, changes, failures>>

\* grp.Wait: all goroutines have returned.
Wait ==
    /\ Running /\ call.op \in Concurrent
    /\ \A t \in List : thread[t].at = "over"
    /\ IF \E t \in List : thread[t].own THEN Finish("error", [t \in Thread |-> <<>>], {})
       ELSE Finish("ok", [t \in Thread |-> Told(t, thread[t].got)], {})
    /\ UNCHANGED <<config, group, content, call, err, history, changes, failures>>

-----------------------------------------------------------------------------
(* What changes meanwhile *)

\* OnConfigurationChange sets the configuration ...
SetConfiguration ==
    /\ ~ saving
    /\ changes < MaxChanges /\ changes' = changes + 1
    /\ \E g \in (Group \cup {Nothing}) \ {lock} :
        /\ lock' = g
        /\ locks' = locks \cup {g}
    /\ saving' = TRUE
    /\ UNCHANGED <<client, group, content, call, thread, err, answer, groups, failed, failures>>

\* ... and makes a new client, unless the command cannot be registered.
MakeClient ==
    /\ saving
    /\ saving' = FALSE
    /\ \/ client' = lock /\ UNCHANGED failures
       \/ Fails /\ UNCHANGED client
    /\ UNCHANGED <<lock, group, content, call, thread, err, answer, history, changes>>

\* A project is transferred to another group.
Transfer ==
    /\ changes < MaxChanges /\ changes' = changes + 1
    /\ \E p \in Project, g \in Group :
        /\ group[p] # g
        /\ group' = [group EXCEPT ![p] = g]
        /\ groups' = [groups EXCEPT ![p] = @ \cup {g}]
    /\ UNCHANGED <<config, content, call, thread, err, answer, locks, failed, failures>>

Operation == BeginCall \/ Check \/ Sift \/ Fetch \/ Change \/ Wait \/ \E t \in Thread : Page(t) \/ Store(t) \/ Return(t)

ClientNext == Operation \/ SetConfiguration \/ MakeClient \/ Transfer

ClientSpec == ClientInit /\ [][ClientNext]_clientVars /\ WF_clientVars(Operation)

-----------------------------------------------------------------------------
(* Properties *)

\* The projects a lock and a group of the time of the call allow; a call by number is allowed
\* by its path.
AllowedThen(p) == Nothing \in locks \/ locks \cap groups[p] # {}
PathAllowedThen == Nothing \in locks \/ call.path \in locks

\* Nothing has changed since the call began, and the client was made with the lock.
Undisturbed == locks = {call.group} /\ \A p \in Project : groups[p] = {group[p]}

\* The part of a list that is allowed.
AllowedPart(s) == At(s, {k \in DOMAIN s : AllowedThen(Of(s[k]))})

\* A list that GitLab gave without a failure is answered whole, in GitLab's order, without
\* what the lock forbids and without anything twice, on whichever page an item is and in
\* whichever order the goroutines end.
AnswerComplete ==
    (answer.kind = "ok" /\ failed = {} /\ Undisturbed /\ call.op \in {"lists", "projects", "details", "labels"}) =>
        \A t \in Thread : answer.items[t] = AllowedPart(content[t])

\* The projects an answer is about.
Shown == answer.about \cup {Of(i) : i \in UNION {{s[k] : k \in DOMAIN s} :
                                                s \in {answer.items[t] : t \in Thread}}}

\* The group lock: nothing is shown and nothing is changed of a project that no lock in force
\* during the call allowed in a group the project was in, even if the settings are saved or
\* the project moves in between. The lists come from the client's group, which
\* must be that of the configuration when the call begins. What is asked for by path and
\* number is shown only if a lock of the time allowed the path.
LockHolds ==
    (answer # NoAnswer /\ (call.op \in OnProject \cup {"details"} \/ call.group \in locks)) =>
        \A p \in Shown : IF call.op = "bynumber" THEN PathAllowedThen ELSE AllowedThen(p)

\* The invariant of the client (checkGroup and the lists): types, and nothing outside the lock.
ClientInv == ClientTypeOK /\ LockHolds

\* An error says that something failed, or that a lock forbade the project; never that an
\* other goroutine's variable was read in the wrong moment.
ErrorHasReason ==
    answer.kind = "error" =>
        \/ failed # {}
        \/ /\ call.op \in OnProject
           /\ \E l \in locks, g \in IF call.op = "bynumber" THEN {call.path} ELSE groups[call.project] :
                  l \notin {Nothing, g}

\* What a call returns follows from what GitLab answered: the whole of the lists, or an error
\* for a reason, whatever the scheduling of the goroutines.
AnswerFits == AnswerComplete /\ ErrorHasReason

\* Every call is answered, however its goroutines are scheduled.
EveryCallAnswered == Running ~> ~ Running

\* The group lock for issues and merge requests by number as well: nothing is shown of a
\* project outside it. Violated by a former path, which passes the check.
LockHoldsByNumber ==
    answer # NoAnswer /\ call.op = "bynumber" => \A p \in Shown : AllowedThen(p)

\* "You don't have any merge requests awaiting your review" and the like: an answer does not
\* say so when the list could not be read. Violated by the race on err.
FailureIsReported == call.op \in Concurrent /\ failed # {} => answer.kind # "ok"

\* "You don't have any todos": the command says so only if there are none. Violated under a
\* lock, which is compared with the wrong name.
TodosAreTold ==
    (answer.kind = "ok" /\ failed = {} /\ Undisturbed /\ call.op = "todo") =>
        \A t \in List : answer.items[t] = AllowedPart(content[t])

\* "can't get label in GitLab api": an issue whose labels cannot all be described is not
\* answered as one without. Violated when a label is not on the first page.
LabelsOrError == answer.kind = "ok" /\ call.op = "bynumber" => answer.items["main"] = content["main"]

\* "we have fetched the last page" is true of the projects too when GitLab does not say how
\* many pages there are. Violated with Totals = {FALSE}.
ProjectsComplete ==
    answer.kind = "ok" /\ failed = {} /\ Undisturbed /\ call.op = "projects" =>
        answer.items["main"] = AllowedPart(content["main"])

\* Once the settings are saved the client lists the group they name. Violated when the command
\* cannot be registered, which happens before the client is made.
ClientFollowsLock == ~ saving => client = lock
=============================================================================
