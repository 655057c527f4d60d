----------------------------- MODULE IssueForms -----------------------------
(***************************************************************************)
(* The two forms of the web client that write to GitLab                    *)
(* (webapp/src/components/modals): "create" makes an issue of a post or of *)
(* what a slash command said, "attach" adds a post to an issue as a        *)
(* comment.                                                                *)
(*                                                                         *)
(* A form is mounted when its modal becomes visible and unmounted when it  *)
(* is closed; the modal around it is never unmounted, and neither is the   *)
(* store.  What a mounted form asks for may arrive late, in another order, *)
(* or when the form is gone and the next one is open.                      *)
(***************************************************************************)
EXTENDS Webapp, Naturals, Sequences, FiniteSets, SequencesExt

CONSTANTS
    Post, CommandChannel,   \* what a form can be about
    Project, Issue, \* what it can be sent to
    Value, Offers,  \* Offers[p]: the labels, assignees and milestones of a project
    Kind,           \* the attributes that the run considers
    MaxForms, MaxChoices, MaxSubmits   \* bounds

ASSUME FormsAssumption ==
    /\ Kind \subseteq {"labels", "assignees", "milestone"}
    /\ Offers \in [Project -> SUBSET Value]
    /\ None \notin Post \cup CommandChannel \cup Project \cup Issue
    /\ {MaxForms, MaxChoices, MaxSubmits, MaxFaults} \subseteq Nat

VARIABLES
    \* The store
    about,      \* contents of the modals: the post, or the channel of the command
    projects,   \* yourProjects, kept from one form to the next
    \* The modals and their forms
    form,       \* which form is mounted, counted from 1; 0 when none is
    target,     \* the project, or the issue, that is chosen
    filled,     \* the title, or the message, is not empty
    valid,      \* what the project field that the validator knows says of itself
    selection,  \* labels, assignees and milestone that are chosen
    submitting,
    \* The selectors
    options,
    loads,      \* options on their way, in the order of asking
    \* Requests
    asks,       \* getProjects that are not answered
    sent,       \* issues and comments that are sent
    \* History
    opened,     \* what a form was opened about
    overtaken,  \* options arrived before others that were asked for earlier
    created,    \* how often GitLab has created what a form asked for
    forms, choices, submits, failures

content == <<about, form, target, filled, submitting, opened>>
selectors == <<selection, options, loads, overtaken>>
counters == <<forms, choices, submits, failures>>
formsVars == <<content, projects, valid, selectors, asks, sent, created, counters>>

Modal == {"create", "attach"}
Multi == {"labels", "assignees"}

\* A load keeps the selection of the render that started it, and whether its
\* selector is still mounted.
Load == [project : Project, had : SUBSET Value, live : BOOLEAN]

Submission == [modal : Modal, form : 1 .. MaxForms, about : Post \cup CommandChannel, opened : Post \cup CommandChannel,
            target : Project \cup Issue, attributes : [Kind -> SUBSET Value], number : 1 .. MaxSubmits]

Nothing == [k \in Kind |-> {}]

-----------------------------------------------------------------------------
(* Opening and closing *)

\* A form starts empty, but for what it takes from the post or from the command.
Mount(m, x, full) ==
    /\ forms < MaxForms /\ forms' = forms + 1
    /\ form' = [form EXCEPT ![m] = forms + 1]
    /\ about' = [about EXCEPT ![m] = x]
    /\ opened' = [opened EXCEPT ![m] = x]
    /\ filled' = [filled EXCEPT ![m] = full]
    /\ asks' = IF m = "create" THEN asks + 1 ELSE asks
    /\ UNCHANGED <<projects, target, valid, submitting, selectors, sent, created, choices, submits, failures>>

\* The menu of a post; an open modal covers it.  Only the comment takes the
\* message as its required text: the title of an issue starts empty.
OpenFromPost(m, p) ==
    /\ \A other \in Modal : form[other] = 0
    /\ \E full \in BOOLEAN : (m = "create" => ~full) /\ Mount(m, p, full)

\* The create_issue event of "/gitlab issue create": a form that is open stays
\* what it is, and is about something else.
OpenFromCommand(c) ==
    \/ form["create"] = 0 /\ \E full \in BOOLEAN : Mount("create", c, full)
    \/ /\ form["create"] # 0 /\ about["create"] # c
       /\ about' = [about EXCEPT !["create"] = c]
       /\ UNCHANGED <<projects, form, target, filled, valid, submitting, opened, selectors, asks,
                      sent, created, counters>>

\* handleClose, of the modal: whichever form it shows is unmounted.
Close(m) ==
    /\ form' = [form EXCEPT ![m] = 0]
    /\ about' = [about EXCEPT ![m] = None]
    /\ opened' = [opened EXCEPT ![m] = None]
    /\ target' = [target EXCEPT ![m] = None]
    /\ filled' = [filled EXCEPT ![m] = FALSE]
    /\ submitting' = [submitting EXCEPT ![m] = FALSE]
    /\ IF m = "create"
       THEN /\ valid' = FALSE
            /\ selection' = Nothing /\ options' = Nothing
            /\ loads' = [k \in Kind |-> <<>>] /\ overtaken' = [k \in Kind |-> FALSE]
       ELSE UNCHANGED <<valid, selectors>>

Cancel(m) ==
    /\ form[m] # 0
    /\ Close(m)
    /\ UNCHANGED <<projects, asks, sent, created, counters>>

-----------------------------------------------------------------------------
(* Filling in *)

Type(m) ==
    /\ form[m] # 0
    /\ filled' = [filled EXCEPT ![m] = ~@]
    /\ UNCHANGED <<about, projects, form, target, valid, submitting, opened, selectors, asks, sent,
                   created, counters>>

Choice == choices < MaxChoices /\ choices' = choices + 1 /\ UNCHANGED <<forms, submits, failures>>

\* Mutation: the field registers again only when another name is chosen.
RegisteredOnce(project, list) == project # None

\* The field shows the option of the list that has the chosen name, and registers
\* again when that option changes.
Registered(project, list) == project \in list

\* Both effects of the selector start a load: at its first render and for every new name.
Started(p, k) == [i \in 1 .. 2 |-> [project |-> p, had |-> selection[k], live |-> TRUE]]

\* Without a project the selectors are unmounted; what they asked for still arrives.
ChooseProject(p) ==
    /\ form["create"] # 0 /\ p # target["create"] /\ Choice
    /\ target' = [target EXCEPT !["create"] = p]
    /\ valid' = Registered(p, projects)
    /\ loads' = IF p = None
                THEN [k \in Kind |-> [i \in DOMAIN loads[k] |-> [loads[k][i] EXCEPT !.live = FALSE]]]
                ELSE [k \in Kind |-> loads[k] \o Started(p, k)]
    /\ options' = IF p = None THEN Nothing ELSE options
    /\ UNCHANGED <<about, projects, form, filled, submitting, opened, selection, overtaken, asks, sent,
                   created>>

\* The issue is one of those that the last search has found.
ChooseIssue(i) ==
    /\ form["attach"] # 0 /\ i # target["attach"] /\ Choice
    /\ target' = [target EXCEPT !["attach"] = i]
    /\ UNCHANGED <<about, projects, form, filled, valid, submitting, opened, selectors, asks, sent, created>>

Pick(k, v) ==
    /\ target["create"] # None /\ Choice
    /\ \/ v \in options[k] /\ selection' = [selection EXCEPT ![k] = IF k \in Multi THEN @ \cup {v} ELSE {v}]
       \/ v \in selection[k] /\ selection' = [selection EXCEPT ![k] = @ \ {v}]
    /\ UNCHANGED <<content, projects, valid, options, loads, overtaken, asks, sent, created>>

-----------------------------------------------------------------------------
(* Lists and options that arrive *)

\* getProjects of this form, or of one that is gone.
ListProjects(list) ==
    /\ asks > 0 /\ asks' = asks - 1
    /\ projects' = list
    /\ valid' = Registered(target["create"], list)
    /\ UNCHANGED <<content, selectors, sent, created, counters>>

ListProjectsFails ==
    /\ asks > 0 /\ asks' = asks - 1
    /\ failures < MaxFaults /\ failures' = failures + 1
    /\ UNCHANGED <<content, projects, valid, selectors, sent, created, forms, choices, submits>>

\* Mutation: the options are replaced, and what is selected stays.
FilteredNever(k, had, offered, now) == now

\* filterSelection, for a load that began when "had" was selected.
Filtered(k, had, offered, now) == IF k \notin Multi /\ had = {} THEN now ELSE had \cap offered

\* loadSelectOptions: an error is a load that offers nothing.
Arrive(k, i, offered) ==
    /\ selection' = [selection EXCEPT ![k] = Filtered(k, loads[k][i].had, offered, @)]
    /\ options' = IF loads[k][i].live THEN [options EXCEPT ![k] = offered] ELSE options
    /\ loads' = [loads EXCEPT ![k] = RemoveAt(@, i)]
    /\ overtaken' = [overtaken EXCEPT ![k] = @ \/ i # 1]
    /\ UNCHANGED <<content, projects, valid, asks, sent, created, forms, choices, submits>>

Loaded(k, i) == Arrive(k, i, Offers[loads[k][i].project]) /\ UNCHANGED failures

LoadFails(k, i) == failures < MaxFaults /\ failures' = failures + 1 /\ Arrive(k, i, {})

-----------------------------------------------------------------------------
(* Sending *)

\* The validator asks the fields that are registered with it, and the form its texts.
Complete(m) == filled[m] /\ target[m] # None /\ (m = "create" => valid)

\* What handleCreate sends: what is in the store at that moment, and the selections.
Body(m) == [modal |-> m, form |-> form[m], about |-> about[m], opened |-> opened[m], target |-> target[m],
            attributes |-> IF m = "create" THEN selection ELSE Nothing, number |-> submits + 1]

\* The button is not disabled while the form is submitting.
Submit(m) ==
    /\ form[m] # 0 /\ Complete(m)
    /\ submits < MaxSubmits /\ submits' = submits + 1
    /\ sent' = sent \cup {Body(m)}
    /\ submitting' = [submitting EXCEPT ![m] = TRUE]
    /\ UNCHANGED <<about, projects, form, target, filled, valid, opened, selectors, asks, created, forms,
                   choices, failures>>

Done(r) == created' = [created EXCEPT ![r.form] = @ + 1]

\* The answer closes the modal, also when it shows another form by now.
Succeed(r) ==
    /\ sent' = sent \ {r}
    /\ Done(r)
    /\ Close(r.modal)
    /\ UNCHANGED <<projects, asks, counters>>

\* Mutation: only the modal's handleClose ends the submission.
ReleasedNever(m) == submitting

\* After a failure the same form can be sent again.
Released(m) == [submitting EXCEPT ![m] = FALSE]

\* GitLab refuses, or the answer is lost whatever GitLab has done.
FailRequest(r) ==
    /\ failures < MaxFaults /\ failures' = failures + 1
    /\ sent' = sent \ {r}
    /\ Done(r) \/ UNCHANGED created
    /\ submitting' = Released(r.modal)
    /\ UNCHANGED <<about, projects, form, target, filled, valid, opened, selectors, asks, forms, choices, submits>>

-----------------------------------------------------------------------------
FormsInit ==
    /\ about = [m \in Modal |-> None] /\ opened = about /\ target = about
    /\ form = [m \in Modal |-> 0]
    /\ filled = [m \in Modal |-> FALSE] /\ submitting = filled
    /\ valid = FALSE
    /\ selection = Nothing /\ options = Nothing
    /\ loads = [k \in Kind |-> <<>>] /\ overtaken = [k \in Kind |-> FALSE]
    /\ projects = {} /\ asks = 0 /\ sent = {}
    /\ created = [f \in 1 .. MaxForms |-> 0]
    /\ forms = 0 /\ choices = 0 /\ submits = 0 /\ failures = 0

Respond == \E r \in sent : Succeed(r) \/ FailRequest(r)

FormsNext ==
    \/ \E m \in Modal, p \in Post : OpenFromPost(m, p)
    \/ \E c \in CommandChannel : OpenFromCommand(c)
    \/ \E m \in Modal : Cancel(m) \/ Type(m) \/ Submit(m)
    \/ \E p \in projects \cup {None} : ChooseProject(p)
    \/ \E i \in Issue \cup {None} : ChooseIssue(i)
    \/ \E k \in Kind, v \in Value : Pick(k, v)
    \/ \E list \in SUBSET Project : ListProjects(list)
    \/ ListProjectsFails
    \/ \E k \in Kind : \E i \in DOMAIN loads[k] : Loaded(k, i) \/ LoadFails(k, i)
    \/ Respond

\* Every request to the plugin ends, if only by an error of the browser.
FormsSpec == FormsInit /\ [][FormsNext]_formsVars /\ WF_formsVars(Respond)

-----------------------------------------------------------------------------
(* Properties *)

FormsTypeOK ==
    /\ about \in [Modal -> Post \cup CommandChannel \cup {None}] /\ opened \in [Modal -> Post \cup CommandChannel \cup {None}]
    /\ projects \subseteq Project
    /\ form \in [Modal -> 0 .. MaxForms]
    /\ target \in [Modal -> Project \cup Issue \cup {None}]
    /\ target["create"] \in Project \cup {None} /\ target["attach"] \in Issue \cup {None}
    /\ filled \in [Modal -> BOOLEAN] /\ submitting \in [Modal -> BOOLEAN] /\ valid \in BOOLEAN
    /\ selection \in [Kind -> SUBSET Value] /\ options \in [Kind -> SUBSET Value]
    /\ loads \in [Kind -> Seq(Load)] /\ overtaken \in [Kind -> BOOLEAN]
    /\ asks \in Nat /\ sent \subseteq Submission
    /\ created \in [1 .. MaxForms -> Nat]
    /\ forms \in 0 .. MaxForms /\ submits \in 0 .. MaxSubmits

\* Labels and assignees of the project that was left go when those of the new one
\* are there: with nothing more to load, everything that is chosen is offered.
LabelsFit ==
    \A k \in Kind \cap Multi :
        loads[k] = <<>> /\ ~overtaken[k] /\ target["create"] # None
            => selection[k] \subseteq Offers[target["create"]]

\* A form that says it is submitting waits for an answer to one of the modal's requests.
SavingIsPending == \A m \in Modal : submitting[m] => \E r \in sent : r.modal = m

\* The state of the forms is well typed; the selectors' answers, in the order in which they
\* were asked for, leave labels and assignees that fit the chosen project (filterSelection);
\* and handleCreate leaves no form submitting without a request on its way.
FormsInv == FormsTypeOK /\ LabelsFit /\ SavingIsPending

\* An issue is never sent to a project that the list of the form no longer has, though
\* the project was chosen from the list of an earlier form.
SubmitsWhatIsListed ==
    [][\A r \in sent' \ sent : r.modal = "create" => r.target \in projects]_formsVars

\* No modal is left submitting, whatever becomes of its requests.
SavingEnds == \A m \in Modal : submitting[m] ~> ~submitting[m]

\* What the code does not ensure (README.md, "Where the code and its words part").

\* One form creates one issue, or one comment.
CreatedOnce == \A f \in 1 .. MaxForms : created[f] <= 1

\* An answer closes the form that asked.
AnswerClosesOwn ==
    [][\A r \in sent \ sent' : form'[r.modal] # form[r.modal] => r.form = form[r.modal]]_formsVars

\* Like the labels, a milestone of the project that was left goes.
MilestoneFits ==
    \A k \in Kind \ Multi :
        loads[k] = <<>> /\ ~overtaken[k] /\ target["create"] # None
            => selection[k] \subseteq Offers[target["create"]]

\* Options that arrive take nothing back that the user has chosen among the same options.
ChoiceKept ==
    [][\A k \in Kind : Len(loads'[k]) < Len(loads[k]) /\ form' = form
          => \A v \in selection[k] \ selection'[k] : v \notin options'[k]]_formsVars

\* What is sent fits the project it is sent to.
AttributesOfProject ==
    \A r \in sent : r.modal = "create" => \A k \in Kind : r.attributes[k] \subseteq Offers[r.target]

\* The answer in Mattermost goes to the post, or the channel, where the form was opened.
ReplyWhereAsked == \A r \in sent : r.about = r.opened
=============================================================================
