--------------------------- MODULE WebClientProofs ---------------------------
(***************************************************************************)
(* Proofs about the modules of the web client, which share no state:       *)
(* IssueForms, Popovers, RightPanel and WebClient, for any values of their *)
(* constants.                                                              *)
(***************************************************************************)
EXTENDS WebClient, IssueForms, Popovers, RightPanel,
        FiniteSetTheorems, SequenceTheorems, WellFoundedInduction, TLAPS

-----------------------------------------------------------------------------
(* IssueForms: the inductive invariant *)

\* An open form is about something.
OpenHasContent ==
    \A m \in Modal : form[m] # 0 => about[m] \in Post \cup CommandChannel /\ opened[m] \in Post \cup CommandChannel

\* The field says that it is valid only of a project that is in the list.
ValidIsListed == valid => target["create"] \in projects

\* Once the options have come in the order of asking, the next to decide what is chosen
\* are those of the chosen project; when there are none to come, they have decided.
LastDecides(k) ==
    /\ loads[k] = <<>> => /\ selection[k] \subseteq Offers[target["create"]]
                          /\ options[k] \subseteq Offers[target["create"]]
    /\ loads[k] # <<>> => Last(loads[k]).project = target["create"] /\ Last(loads[k]).live

ChosenDecides ==
    \A k \in Kind \cap Multi : ~overtaken[k] /\ target["create"] # None => LastDecides(k)

FormsIInv == FormsTypeOK /\ OpenHasContent /\ ValidIsListed /\ ChosenDecides /\ SavingIsPending

-----------------------------------------------------------------------------
(* IssueForms: sequences *)

\* What is left of a sequence without one of its elements.
LEMMA RemoveAtProperties ==
  ASSUME NEW S, NEW s \in Seq(S), NEW i \in 1 .. Len(s)
  PROVE  /\ RemoveAt(s, i) \in Seq(S)
         /\ Len(RemoveAt(s, i)) = Len(s) - 1
         /\ \A j \in i .. Len(s) - 1 : RemoveAt(s, i)[j] = s[j + 1]
<1> DEFINE a == SubSeq(s, 1, i - 1)
<1> DEFINE b == SubSeq(s, i + 1, Len(s))
<1>1. Len(s) \in Nat /\ i \in Nat /\ i >= 1 /\ i <= Len(s)
  BY LenProperties
<1>2. \A j \in 1 .. Len(s) : s[j] \in S
  BY ElementOfSeq
<1>3. /\ a \in Seq(S)
      /\ Len(a) = i - 1
  <2>1. \A j \in 1 .. i - 1 : s[j] \in S
    BY <1>1, <1>2
  <2>2. 1 \in Int /\ i - 1 \in Int
    BY <1>1
  <2>3. a \in Seq(S) /\ Len(a) = IF 1 <= i - 1 THEN i - 1 - 1 + 1 ELSE 0
    BY <2>1, <2>2, SubSeqProperties
  <2>. QED BY <2>3, <1>1
<1>4. /\ b \in Seq(S)
      /\ Len(b) = Len(s) - i
      /\ \A j \in 1 .. Len(s) - i : b[j] = s[i + j]
  <2>1. \A j \in i + 1 .. Len(s) : s[j] \in S
    BY <1>1, <1>2
  <2>2. i + 1 \in Int /\ Len(s) \in Int
    BY <1>1
  <2>3. /\ b \in Seq(S)
        /\ Len(b) = IF i + 1 <= Len(s) THEN Len(s) - (i + 1) + 1 ELSE 0
        /\ \A j \in 1 .. Len(s) - (i + 1) + 1 : b[j] = s[(i + 1) + j - 1]
    BY <2>1, <2>2, SubSeqProperties
  <2>. QED BY <2>3, <1>1
<1>5. RemoveAt(s, i) = a \o b
  BY DEF RemoveAt
<1> HIDE DEF a, b
<1>6. /\ a \o b \in Seq(S)
      /\ Len(a \o b) = Len(a) + Len(b)
      /\ \A j \in 1 .. Len(a) + Len(b) : (a \o b)[j] = IF j <= Len(a) THEN a[j] ELSE b[j - Len(a)]
  BY <1>3, <1>4, ConcatProperties
<1>7. ASSUME NEW j \in i .. Len(s) - 1 PROVE (a \o b)[j] = s[j + 1]
  <2>1. j \in 1 .. Len(a) + Len(b) /\ ~(j <= Len(a)) /\ j - Len(a) \in 1 .. Len(s) - i
    BY <1>1, <1>3, <1>4
  <2>2. i + (j - Len(a)) = j + 1
    BY <1>1, <1>3, <1>7
  <2>. QED BY <1>4, <1>6, <2>1, <2>2
<1>. QED BY <1>1, <1>3, <1>4, <1>5, <1>6, <1>7

-----------------------------------------------------------------------------
(* IssueForms: each action keeps the invariant *)

LEMMA FormsInitInv == FormsInit => FormsIInv
<1> SUFFICES ASSUME FormsInit PROVE FormsIInv
  OBVIOUS
<1>1. /\ about \in [Modal -> Post \cup CommandChannel \cup {None}] /\ opened \in [Modal -> Post \cup CommandChannel \cup {None}]
      /\ target \in [Modal -> Project \cup Issue \cup {None}]
      /\ target["create"] = None /\ target["attach"] = None
      /\ filled \in [Modal -> BOOLEAN] /\ submitting \in [Modal -> BOOLEAN]
  BY DEF FormsInit, Modal
<1>2. /\ selection \in [Kind -> SUBSET Value] /\ options \in [Kind -> SUBSET Value]
      /\ loads \in [Kind -> Seq(Load)] /\ overtaken \in [Kind -> BOOLEAN]
  BY DEF FormsInit, Nothing
<1>3. /\ form \in [Modal -> 0 .. MaxForms] /\ created \in [1 .. MaxForms -> Nat]
      /\ forms \in 0 .. MaxForms /\ submits \in 0 .. MaxSubmits /\ asks \in Nat
  BY FormsAssumption DEF FormsInit
<1>4. projects \subseteq Project /\ sent \subseteq Submission /\ valid \in BOOLEAN
  BY DEF FormsInit
<1>5. FormsTypeOK
  BY <1>1, <1>2, <1>3, <1>4 DEF FormsTypeOK
<1>6. OpenHasContent /\ ValidIsListed /\ SavingIsPending
  BY DEF FormsInit, OpenHasContent, ValidIsListed, SavingIsPending
<1>7. ChosenDecides
  BY <1>1 DEF ChosenDecides
<1>. QED BY <1>5, <1>6, <1>7 DEF FormsIInv

\* Of the invariant, what concerns the selectors, when nothing of theirs changes.
LEMMA SelectorsSame ==
  ASSUME FormsIInv, target'["create"] = target["create"], UNCHANGED selectors
  PROVE  ChosenDecides'
  BY DEF FormsIInv, ChosenDecides, LastDecides, selectors

LEMMA MountInv ==
  ASSUME FormsIInv, NEW m \in Modal, NEW x \in Post \cup CommandChannel, NEW full \in BOOLEAN, Mount(m, x, full)
  PROVE  FormsIInv'
<1>1. FormsTypeOK'
  BY FormsAssumption DEF FormsIInv, FormsTypeOK, Mount, selectors
<1>2. OpenHasContent'
  BY DEF FormsIInv, FormsTypeOK, OpenHasContent, Mount
<1>3. ValidIsListed' /\ SavingIsPending'
  BY DEF FormsIInv, ValidIsListed, SavingIsPending, Mount
<1>4. ChosenDecides'
  BY SelectorsSame DEF Mount
<1>. QED BY <1>1, <1>2, <1>3, <1>4 DEF FormsIInv

LEMMA CommandInv ==
  ASSUME FormsIInv, NEW c \in CommandChannel, OpenFromCommand(c)
  PROVE  FormsIInv'
<1>0. "create" \in Modal
  BY DEF Modal
<1>1. CASE \E full \in BOOLEAN : Mount("create", c, full)
  BY <1>0, <1>1, MountInv
<1>2. CASE /\ form["create"] # 0 /\ about' = [about EXCEPT !["create"] = c]
           /\ UNCHANGED <<projects, form, target, filled, valid, submitting, opened, selectors, asks,
                          sent, created, counters>>
  <2>1. FormsTypeOK'
    BY <1>2 DEF FormsIInv, FormsTypeOK, selectors, counters
  <2>2. OpenHasContent'
    BY <1>2 DEF FormsIInv, FormsTypeOK, OpenHasContent
  <2>3. ValidIsListed' /\ SavingIsPending'
    BY <1>2 DEF FormsIInv, ValidIsListed, SavingIsPending
  <2>4. ChosenDecides'
    BY <1>2, SelectorsSame
  <2>. QED BY <2>1, <2>2, <2>3, <2>4 DEF FormsIInv
<1>. QED BY <1>1, <1>2 DEF OpenFromCommand

\* What closing a form leaves true, when requests and the rest fit.
LEMMA CloseInv ==
  ASSUME FormsIInv, NEW m \in Modal, Close(m), UNCHANGED <<projects, asks, counters>>,
         sent' \subseteq sent, created' \in [1 .. MaxForms -> Nat],
         \A r \in sent \ sent' : r.modal = m
  PROVE  FormsIInv'
<1>1. FormsTypeOK'
  <2>1. /\ about' \in [Modal -> Post \cup CommandChannel \cup {None}] /\ opened' \in [Modal -> Post \cup CommandChannel \cup {None}]
        /\ target' \in [Modal -> Project \cup Issue \cup {None}]
        /\ target'["create"] \in Project \cup {None} /\ target'["attach"] \in Issue \cup {None}
    BY DEF FormsIInv, FormsTypeOK, Close, Modal
  <2>2. /\ filled' \in [Modal -> BOOLEAN] /\ submitting' \in [Modal -> BOOLEAN] /\ valid' \in BOOLEAN
        /\ form' \in [Modal -> 0 .. MaxForms]
    <3>1. valid' = FALSE \/ valid' = valid
      BY DEF Close, selectors
    <3>2. filled' \in [Modal -> BOOLEAN] /\ submitting' \in [Modal -> BOOLEAN]
      BY DEF FormsIInv, FormsTypeOK, Close
    <3>3. form' \in [Modal -> 0 .. MaxForms]
      BY FormsAssumption DEF FormsIInv, FormsTypeOK, Close
    <3>. QED BY <3>1, <3>2, <3>3 DEF FormsIInv, FormsTypeOK
  <2>3. /\ selection' \in [Kind -> SUBSET Value] /\ options' \in [Kind -> SUBSET Value]
        /\ loads' \in [Kind -> Seq(Load)] /\ overtaken' \in [Kind -> BOOLEAN]
    <3>1. CASE m = "create"
      <4>1. /\ selection' = Nothing /\ options' = Nothing
            /\ loads' = [k \in Kind |-> <<>>] /\ overtaken' = [k \in Kind |-> FALSE]
        BY <3>1 DEF Close
      <4>2. Nothing \in [Kind -> SUBSET Value]
        BY DEF Nothing
      <4>. QED BY <4>1, <4>2
    <3>2. CASE m # "create"
      BY <3>2 DEF FormsIInv, FormsTypeOK, Close, selectors
    <3>. QED BY <3>1, <3>2
  <2>4. projects' \subseteq Project /\ asks' \in Nat /\ sent' \subseteq Submission
        /\ forms' \in 0 .. MaxForms /\ submits' \in 0 .. MaxSubmits
    BY DEF FormsIInv, FormsTypeOK, counters
  <2>. QED BY <2>1, <2>2, <2>3, <2>4 DEF FormsTypeOK
<1>2. OpenHasContent'
  BY DEF FormsIInv, FormsTypeOK, OpenHasContent, Close
<1>3. ValidIsListed'
  BY DEF FormsIInv, FormsTypeOK, ValidIsListed, Close, Modal
<1>4. SavingIsPending'
  <2> SUFFICES ASSUME NEW n \in Modal, submitting'[n] PROVE \E r \in sent' : r.modal = n
    BY DEF SavingIsPending
  <2>1. n # m /\ submitting[n]
    BY DEF FormsIInv, FormsTypeOK, Close
  <2>2. PICK r \in sent : r.modal = n
    BY <2>1 DEF FormsIInv, SavingIsPending
  <2>. QED BY <2>1, <2>2
<1>5. ChosenDecides'
  <2>1. CASE m = "create"
    <3>1. target'["create"] = None
      BY <2>1 DEF FormsIInv, FormsTypeOK, Close, Modal
    <3>. QED BY <3>1 DEF ChosenDecides
  <2>2. CASE m # "create"
    <3>1. target'["create"] = target["create"] /\ UNCHANGED selectors
      BY <2>2 DEF FormsIInv, FormsTypeOK, Close, Modal
    <3>. QED BY <3>1, SelectorsSame
  <2>. QED BY <2>1, <2>2
<1>. QED BY <1>1, <1>2, <1>3, <1>4, <1>5 DEF FormsIInv

LEMMA TypeInv ==
  ASSUME FormsIInv, NEW m \in Modal, Type(m)
  PROVE  FormsIInv'
<1>1. FormsTypeOK'
  BY DEF FormsIInv, FormsTypeOK, Type, selectors, counters
<1>2. OpenHasContent' /\ ValidIsListed' /\ SavingIsPending'
  BY DEF FormsIInv, OpenHasContent, ValidIsListed, SavingIsPending, Type
<1>3. ChosenDecides'
  BY SelectorsSame DEF Type
<1>. QED BY <1>1, <1>2, <1>3 DEF FormsIInv

LEMMA StartedLoads ==
  ASSUME FormsTypeOK, NEW p \in Project, NEW k \in Kind
  PROVE  Started(p, k) \in Seq(Load) /\ Len(Started(p, k)) = 2
         /\ Started(p, k)[2].project = p /\ Started(p, k)[2].live
<1>1. selection[k] \in SUBSET Value
  BY DEF FormsTypeOK
<1>2. [project |-> p, had |-> selection[k], live |-> TRUE] \in Load
  BY <1>1 DEF Load
<1>3. Started(p, k) \in [1 .. 2 -> Load]
  BY <1>2 DEF Started
<1>4. Started(p, k) \in Seq(Load)
  BY <1>3, SeqDef
<1>5. Len(Started(p, k)) = 2
  BY <1>3
<1>. QED BY <1>4, <1>5 DEF Started

LEMMA ChooseProjectInv ==
  ASSUME FormsIInv, NEW p \in projects \cup {None}, ChooseProject(p)
  PROVE  FormsIInv'
<1>0. p \in Project \cup {None} /\ "create" \in Modal /\ "attach" \in Modal
  BY DEF FormsIInv, FormsTypeOK, Modal
<1>1. /\ target' \in [Modal -> Project \cup Issue \cup {None}]
      /\ target'["create"] = p /\ target'["attach"] = target["attach"]
  BY <1>0 DEF FormsIInv, FormsTypeOK, ChooseProject
<1>2. ASSUME p = None
      PROVE  loads' \in [Kind -> Seq(Load)] /\ options' \in [Kind -> SUBSET Value] /\ ChosenDecides'
  <2>1. loads' \in [Kind -> Seq(Load)]
    <3>1. ASSUME NEW k \in Kind
          PROVE  [i \in DOMAIN loads[k] |-> [loads[k][i] EXCEPT !.live = FALSE]] \in Seq(Load)
      <4>1. loads[k] \in Seq(Load)
        BY DEF FormsIInv, FormsTypeOK
      <4>2. DOMAIN loads[k] = 1 .. Len(loads[k]) /\ Len(loads[k]) \in Nat
        BY <4>1, LenProperties
      <4>3. \A i \in DOMAIN loads[k] : [loads[k][i] EXCEPT !.live = FALSE] \in Load
        <5> SUFFICES ASSUME NEW i \in DOMAIN loads[k] PROVE [loads[k][i] EXCEPT !.live = FALSE] \in Load
          OBVIOUS
        <5>1. loads[k][i] \in Load
          BY <4>1, <4>2, ElementOfSeq
        <5>. QED BY <5>1 DEF Load
      <4>4. [i \in DOMAIN loads[k] |-> [loads[k][i] EXCEPT !.live = FALSE]] \in [1 .. Len(loads[k]) -> Load]
        BY <4>2, <4>3
      <4>. QED BY <4>2, <4>4, SeqDef
    <3>. QED BY <1>2, <3>1 DEF ChooseProject
  <2>2. options' \in [Kind -> SUBSET Value]
    BY <1>2 DEF ChooseProject, Nothing
  <2>3. ChosenDecides'
    BY <1>1, <1>2 DEF ChosenDecides
  <2>. QED BY <2>1, <2>2, <2>3
<1>3. ASSUME p # None
      PROVE  loads' \in [Kind -> Seq(Load)] /\ options' \in [Kind -> SUBSET Value] /\ ChosenDecides'
  <2>0. p \in Project
    BY <1>0, <1>3
  <2>1. loads' = [k \in Kind |-> loads[k] \o Started(p, k)] /\ options' = options
    BY <1>3 DEF ChooseProject
  <2>2. ASSUME NEW k \in Kind
        PROVE  /\ loads[k] \o Started(p, k) \in Seq(Load)
               /\ loads[k] \o Started(p, k) # <<>>
               /\ Last(loads[k] \o Started(p, k)).project = p
               /\ Last(loads[k] \o Started(p, k)).live
    <3> DEFINE t == Started(p, k)
    <3>1. loads[k] \in Seq(Load) /\ Len(loads[k]) \in Nat
      BY LenProperties DEF FormsIInv, FormsTypeOK
    <3>2. t \in Seq(Load) /\ Len(t) = 2 /\ t[2].project = p /\ t[2].live
      BY <2>0, StartedLoads DEF FormsIInv
    <3> HIDE DEF t
    <3>3. /\ loads[k] \o t \in Seq(Load)
          /\ Len(loads[k] \o t) = Len(loads[k]) + 2
          /\ \A i \in 1 .. Len(loads[k]) + 2 :
                 (loads[k] \o t)[i] = IF i <= Len(loads[k]) THEN loads[k][i] ELSE t[i - Len(loads[k])]
      <4>1. /\ loads[k] \o t \in Seq(Load)
            /\ Len(loads[k] \o t) = Len(loads[k]) + Len(t)
            /\ \A i \in 1 .. Len(loads[k]) + Len(t) :
                   (loads[k] \o t)[i] = IF i <= Len(loads[k]) THEN loads[k][i] ELSE t[i - Len(loads[k])]
        BY <3>1, <3>2, ConcatProperties
      <4>. QED BY <3>2, <4>1
    <3>4. (loads[k] \o t)[Len(loads[k]) + 2] = t[2]
      <4>1. Len(loads[k]) + 2 \in 1 .. Len(loads[k]) + 2 /\ ~(Len(loads[k]) + 2 <= Len(loads[k]))
            /\ Len(loads[k]) + 2 - Len(loads[k]) = 2
        BY <3>1
      <4>. QED BY <3>3, <4>1
    <3>5. loads[k] \o t # <<>>
      BY <3>1, <3>3
    <3>6. Last(loads[k] \o t) = t[2]
      BY <3>3, <3>4 DEF Last
    <3>7. loads[k] \o t \in Seq(Load) /\ loads[k] \o t # <<>>
          /\ Last(loads[k] \o t).project = p /\ Last(loads[k] \o t).live
      BY <3>2, <3>3, <3>5, <3>6
    <3>. QED BY <3>7 DEF t
  <2>3. loads' \in [Kind -> Seq(Load)]
    BY <2>1, <2>2
  <2>4. ChosenDecides'
    BY <1>1, <2>1, <2>2 DEF ChosenDecides, LastDecides
  <2>5. options' \in [Kind -> SUBSET Value]
    BY <2>1 DEF FormsIInv, FormsTypeOK
  <2>. QED BY <2>3, <2>4, <2>5
<1>4. valid' = (p \in projects) /\ valid' \in BOOLEAN
  BY DEF ChooseProject, Registered
<1>5. FormsTypeOK'
  BY <1>0, <1>1, <1>2, <1>3, <1>4 DEF FormsIInv, FormsTypeOK, ChooseProject, Choice
<1>6. OpenHasContent' /\ SavingIsPending'
  BY DEF FormsIInv, OpenHasContent, SavingIsPending, ChooseProject
<1>7. ValidIsListed'
  BY <1>1, <1>4 DEF ValidIsListed, ChooseProject
<1>. QED BY <1>2, <1>3, <1>5, <1>6, <1>7 DEF FormsIInv

LEMMA ChooseIssueInv ==
  ASSUME FormsIInv, NEW i \in Issue \cup {None}, ChooseIssue(i)
  PROVE  FormsIInv'
<1>1. target' \in [Modal -> Project \cup Issue \cup {None}]
      /\ target'["create"] = target["create"] /\ target'["attach"] = i
  BY DEF FormsIInv, FormsTypeOK, ChooseIssue, Modal
<1>2. FormsTypeOK'
  BY <1>1 DEF FormsIInv, FormsTypeOK, ChooseIssue, Choice, selectors
<1>3. OpenHasContent' /\ ValidIsListed' /\ SavingIsPending'
  BY <1>1 DEF FormsIInv, OpenHasContent, ValidIsListed, SavingIsPending, ChooseIssue
<1>4. ChosenDecides'
  BY <1>1, SelectorsSame DEF ChooseIssue
<1>. QED BY <1>2, <1>3, <1>4 DEF FormsIInv

\* What is picked is offered, and the options that have arrived last are those of the project.
LEMMA PickInv ==
  ASSUME FormsIInv, NEW k \in Kind, NEW v \in Value, Pick(k, v)
  PROVE  FormsIInv'
<1>0. PICK chosen \in SUBSET Value :
          /\ selection' = [selection EXCEPT ![k] = chosen]
          /\ chosen \subseteq selection[k] \cup options[k]
  <2>1. selection[k] \in SUBSET Value /\ options[k] \in SUBSET Value
    BY DEF FormsIInv, FormsTypeOK
  <2>2. CASE v \in options[k] /\ selection' = [selection EXCEPT ![k] = IF k \in Multi THEN @ \cup {v} ELSE {v}]
    <3>1. selection' = [selection EXCEPT ![k] = IF k \in Multi THEN selection[k] \cup {v} ELSE {v}]
      BY <2>2
    <3>. QED BY <2>1, <2>2, <3>1
  <2>3. CASE v \in selection[k] /\ selection' = [selection EXCEPT ![k] = @ \ {v}]
    <3>1. selection' = [selection EXCEPT ![k] = selection[k] \ {v}]
      BY <2>3
    <3>. QED BY <2>1, <3>1
  <2>. QED BY <2>2, <2>3 DEF Pick
<1>1. selection' \in [Kind -> SUBSET Value]
  BY <1>0 DEF FormsIInv, FormsTypeOK
<1>2. FormsTypeOK'
  BY <1>1 DEF FormsIInv, FormsTypeOK, Pick, Choice, content
<1>3. OpenHasContent' /\ ValidIsListed' /\ SavingIsPending'
  BY DEF FormsIInv, OpenHasContent, ValidIsListed, SavingIsPending, Pick, content
<1>4. ChosenDecides'
  <2> SUFFICES ASSUME NEW n \in Kind \cap Multi, ~overtaken'[n], target'["create"] # None
               PROVE  LastDecides(n)'
    BY DEF ChosenDecides
  <2>1. LastDecides(n) /\ UNCHANGED <<target, options, loads, overtaken>>
    BY DEF FormsIInv, ChosenDecides, Pick, content
  <2>2. selection'[n] \subseteq selection[n] \cup options[n]
    BY <1>0 DEF FormsIInv, FormsTypeOK
  <2>. QED BY <2>1, <2>2 DEF LastDecides
<1>. QED BY <1>2, <1>3, <1>4 DEF FormsIInv

LEMMA ListProjectsInv ==
  ASSUME FormsIInv, NEW list \in SUBSET Project, ListProjects(list)
  PROVE  FormsIInv'
<1>1. asks' \in Nat
  BY DEF FormsIInv, FormsTypeOK, ListProjects
<1>2. FormsTypeOK'
  BY <1>1 DEF FormsIInv, FormsTypeOK, ListProjects, content, selectors, counters, Registered
<1>3. OpenHasContent' /\ ValidIsListed' /\ SavingIsPending'
  BY DEF FormsIInv, OpenHasContent, ValidIsListed, SavingIsPending, ListProjects, content, Registered
<1>4. ChosenDecides'
  BY SelectorsSame DEF ListProjects, content
<1>. QED BY <1>2, <1>3, <1>4 DEF FormsIInv

LEMMA ListProjectsFailsInv ==
  ASSUME FormsIInv, ListProjectsFails
  PROVE  FormsIInv'
<1>1. asks' \in Nat
  BY DEF FormsIInv, FormsTypeOK, ListProjectsFails
<1>2. FormsTypeOK'
  BY <1>1 DEF FormsIInv, FormsTypeOK, ListProjectsFails, content, selectors
<1>3. OpenHasContent' /\ ValidIsListed' /\ SavingIsPending'
  BY DEF FormsIInv, OpenHasContent, ValidIsListed, SavingIsPending, ListProjectsFails, content
<1>4. ChosenDecides'
  BY SelectorsSame DEF ListProjectsFails, content
<1>. QED BY <1>2, <1>3, <1>4 DEF FormsIInv

\* Options that arrive in order are the last or leave the last to come.
LEMMA ArriveInv ==
  ASSUME FormsIInv, NEW k \in Kind, NEW i \in DOMAIN loads[k],
         NEW offered \in {Offers[loads[k][i].project], {}}, Arrive(k, i, offered)
  PROVE  FormsIInv'
<1>1. loads[k] \in Seq(Load) /\ Len(loads[k]) \in Nat /\ i \in 1 .. Len(loads[k]) /\ loads[k][i] \in Load
  BY LenProperties, ElementOfSeq DEF FormsIInv, FormsTypeOK
<1>2. loads[k][i].project \in Project /\ loads[k][i].had \in SUBSET Value
  BY <1>1 DEF Load
<1>3. offered \in SUBSET Value
  BY <1>2, FormsAssumption
<1> DEFINE rest == RemoveAt(loads[k], i)
<1>4. /\ rest \in Seq(Load)
      /\ Len(rest) = Len(loads[k]) - 1
      /\ \A j \in i .. Len(loads[k]) - 1 : rest[j] = loads[k][j + 1]
  BY <1>1, RemoveAtProperties
<1>5. /\ loads' = [loads EXCEPT ![k] = rest]
      /\ overtaken' = [overtaken EXCEPT ![k] = overtaken[k] \/ i # 1]
      /\ selection' = [selection EXCEPT ![k] = Filtered(k, loads[k][i].had, offered, selection[k])]
      /\ options' = IF loads[k][i].live THEN [options EXCEPT ![k] = offered] ELSE options
  BY DEF Arrive
<1> HIDE DEF rest
<1>6. Filtered(k, loads[k][i].had, offered, selection[k]) \in SUBSET Value
  <2>1. selection[k] \in SUBSET Value
    BY DEF FormsIInv, FormsTypeOK
  <2>. QED BY <2>1, <1>2 DEF Filtered
<1>7. /\ selection' \in [Kind -> SUBSET Value] /\ options' \in [Kind -> SUBSET Value]
      /\ loads' \in [Kind -> Seq(Load)]
  BY <1>3, <1>4, <1>5, <1>6 DEF FormsIInv, FormsTypeOK
<1>8. overtaken' \in [Kind -> BOOLEAN]
  <2>1. (overtaken[k] \/ i # 1) \in BOOLEAN
    OBVIOUS
  <2>. QED BY <1>5, <2>1 DEF FormsIInv, FormsTypeOK
<1>9. FormsTypeOK'
  BY <1>7, <1>8 DEF FormsIInv, FormsTypeOK, Arrive, content
<1>10. OpenHasContent' /\ ValidIsListed' /\ SavingIsPending'
  BY DEF FormsIInv, OpenHasContent, ValidIsListed, SavingIsPending, Arrive, content
<1>11. ChosenDecides'
  <2> SUFFICES ASSUME NEW n \in Kind \cap Multi, ~overtaken'[n], target'["create"] # None
               PROVE  LastDecides(n)'
    BY DEF ChosenDecides
  <2>0. target' = target
    BY DEF Arrive, content
  <2>1. CASE n # k
    <3>1. /\ overtaken'[n] = overtaken[n] /\ loads'[n] = loads[n]
          /\ selection'[n] = selection[n] /\ options'[n] = options[n]
      BY <1>5, <2>1 DEF FormsIInv, FormsTypeOK
    <3>2. LastDecides(n)
      BY <2>0, <3>1 DEF FormsIInv, ChosenDecides
    <3>. QED BY <2>0, <3>1, <3>2 DEF LastDecides
  <2>2. CASE n = k
    <3>1. overtaken'[k] = (overtaken[k] \/ i # 1) /\ loads'[k] = rest
      BY <1>5 DEF FormsIInv, FormsTypeOK
    <3>2. ~overtaken[k] /\ i = 1
      BY <2>2, <3>1
    <3>3. LastDecides(k) /\ loads[k] # <<>>
      BY <1>1, <2>0, <2>2, <3>2 DEF FormsIInv, ChosenDecides
    <3>4. CASE Len(loads[k]) = 1
      <4>1. rest = <<>>
        BY <1>4, <3>4, EmptySeq
      <4>2. loads[k][i].project = target["create"] /\ loads[k][i].live
        BY <3>2, <3>3, <3>4 DEF LastDecides, Last
      <4>3. selection'[k] = loads[k][i].had \cap offered
        <5>1. selection'[k] = Filtered(k, loads[k][i].had, offered, selection[k])
          BY <1>5 DEF FormsIInv, FormsTypeOK
        <5>. QED BY <2>2, <5>1 DEF Filtered
      <4>4. options'[k] = offered
        BY <1>5, <4>2 DEF FormsIInv, FormsTypeOK
      <4>5. offered \subseteq Offers[target'["create"]]
        BY <2>0, <4>2
      <4>6. loads'[k] = <<>> /\ selection'[k] \subseteq Offers[target'["create"]]
            /\ options'[k] \subseteq Offers[target'["create"]]
        BY <3>1, <4>1, <4>3, <4>4, <4>5
      <4>. QED BY <2>2, <4>6 DEF LastDecides
    <3>5. CASE Len(loads[k]) # 1
      <4>1. Len(loads[k]) > 1
        <5>1. Len(loads[k]) \in Nat
          BY <1>1
        <5>2. Len(loads[k]) # 0
          BY <1>1, <3>3, EmptySeq
        <5>3. \A j \in Nat : j # 0 /\ j # 1 => j > 1
          OBVIOUS
        <5>. QED BY <3>5, <5>1, <5>2, <5>3
      <4>2. rest # <<>>
        <5>1. Len(rest) > 0
          BY <1>1, <1>4, <4>1
        <5>. QED BY <1>4, <5>1, EmptySeq
      <4>3. rest[Len(rest)] = loads[k][Len(loads[k])]
        <5>1. Len(rest) \in i .. Len(loads[k]) - 1 /\ Len(rest) + 1 = Len(loads[k])
          BY <1>1, <1>4, <3>2, <4>1
        <5>. QED BY <1>4, <5>1
      <4>4. Last(rest) = Last(loads[k])
        BY <4>3 DEF Last
      <4>. QED BY <2>0, <2>2, <3>1, <3>3, <4>2, <4>4 DEF LastDecides
    <3>. QED BY <3>4, <3>5
  <2>. QED BY <2>1, <2>2
<1>. QED BY <1>9, <1>10, <1>11 DEF FormsIInv

LEMMA BodyIsRequest ==
  ASSUME FormsIInv, NEW m \in Modal, form[m] # 0, Complete(m), submits < MaxSubmits
  PROVE  Body(m) \in Submission
<1>1. form[m] \in 1 .. MaxForms /\ submits + 1 \in 1 .. MaxSubmits
  BY FormsAssumption DEF FormsIInv, FormsTypeOK
<1>2. about[m] \in Post \cup CommandChannel /\ opened[m] \in Post \cup CommandChannel
  BY DEF FormsIInv, OpenHasContent
<1>3. target[m] \in Project \cup Issue
  BY DEF FormsIInv, FormsTypeOK, Complete
<1>4. (IF m = "create" THEN selection ELSE Nothing) \in [Kind -> SUBSET Value]
  BY DEF FormsIInv, FormsTypeOK, Nothing
<1>. QED BY <1>1, <1>2, <1>3, <1>4 DEF Body, Submission

LEMMA SubmitInv ==
  ASSUME FormsIInv, NEW m \in Modal, Submit(m)
  PROVE  FormsIInv'
<1>1. Body(m) \in Submission
  BY BodyIsRequest DEF Submit
<1>2. submits' \in 0 .. MaxSubmits
  BY FormsAssumption DEF FormsIInv, FormsTypeOK, Submit
<1>3. FormsTypeOK'
  BY <1>1, <1>2 DEF FormsIInv, FormsTypeOK, Submit, selectors
<1>4. OpenHasContent' /\ ValidIsListed'
  BY DEF FormsIInv, OpenHasContent, ValidIsListed, Submit
<1>5. SavingIsPending'
  <2> SUFFICES ASSUME NEW n \in Modal, submitting'[n] PROVE \E r \in sent' : r.modal = n
    BY DEF SavingIsPending
  <2>1. CASE n = m
    <3>1. Body(m) \in sent'
      BY DEF Submit
    <3>2. Body(m).modal = m
      BY DEF Body
    <3>. QED BY <2>1, <3>1, <3>2
  <2>2. CASE n # m
    BY <2>2 DEF FormsIInv, FormsTypeOK, SavingIsPending, Submit
  <2>. QED BY <2>1, <2>2
<1>6. ChosenDecides'
  BY SelectorsSame DEF Submit
<1>. QED BY <1>3, <1>4, <1>5, <1>6 DEF FormsIInv

LEMMA CreatedCounts ==
  ASSUME FormsTypeOK, NEW r \in sent, Done(r)
  PROVE  created' \in [1 .. MaxForms -> Nat]
<1>1. r.form \in 1 .. MaxForms
  BY DEF FormsTypeOK, Submission
<1>. QED BY <1>1 DEF FormsTypeOK, Done

LEMMA SucceedInv ==
  ASSUME FormsIInv, NEW r \in sent, Succeed(r)
  PROVE  FormsIInv'
<1>1. r.modal \in Modal
  BY DEF FormsIInv, FormsTypeOK, Submission
<1>2. created' \in [1 .. MaxForms -> Nat]
  BY CreatedCounts DEF FormsIInv, Succeed
<1>. QED BY <1>1, <1>2, CloseInv DEF Succeed

LEMMA FailRequestInv ==
  ASSUME FormsIInv, NEW r \in sent, FailRequest(r)
  PROVE  FormsIInv'
<1>1. created' \in [1 .. MaxForms -> Nat]
  <2>1. CASE Done(r)
    BY <2>1, CreatedCounts DEF FormsIInv
  <2>2. CASE UNCHANGED created
    BY <2>2 DEF FormsIInv, FormsTypeOK
  <2>. QED BY <2>1, <2>2 DEF FailRequest
<1>2. r.modal \in Modal
  BY DEF FormsIInv, FormsTypeOK, Submission
<1>3. FormsTypeOK'
  BY <1>1 DEF FormsIInv, FormsTypeOK, FailRequest, Released, selectors
<1>4. OpenHasContent' /\ ValidIsListed'
  BY DEF FormsIInv, OpenHasContent, ValidIsListed, FailRequest
<1>5. SavingIsPending'
  <2> SUFFICES ASSUME NEW n \in Modal, submitting'[n] PROVE \E q \in sent' : q.modal = n
    BY DEF SavingIsPending
  <2>1. n # r.modal /\ submitting[n]
    BY <1>2 DEF FormsIInv, FormsTypeOK, FailRequest, Released
  <2>2. PICK q \in sent : q.modal = n
    BY <2>1 DEF FormsIInv, SavingIsPending
  <2>. QED BY <2>1, <2>2 DEF FailRequest
<1>6. ChosenDecides'
  BY SelectorsSame DEF FailRequest
<1>. QED BY <1>3, <1>4, <1>5, <1>6 DEF FormsIInv

LEMMA FormsNextInv == FormsIInv /\ [FormsNext]_formsVars => FormsIInv'
<1> SUFFICES ASSUME FormsIInv, [FormsNext]_formsVars PROVE FormsIInv'
  OBVIOUS
<1>1. ASSUME NEW m \in Modal, NEW p \in Post, OpenFromPost(m, p) PROVE FormsIInv'
  BY <1>1, MountInv DEF OpenFromPost
<1>2. ASSUME NEW c \in CommandChannel, OpenFromCommand(c) PROVE FormsIInv'
  BY <1>2, CommandInv
<1>3. ASSUME NEW m \in Modal, Cancel(m) PROVE FormsIInv'
  <2>1. created' \in [1 .. MaxForms -> Nat]
    BY <1>3 DEF FormsIInv, FormsTypeOK, Cancel
  <2>. QED BY <1>3, <2>1, CloseInv DEF Cancel
<1>4. ASSUME NEW m \in Modal, Type(m) PROVE FormsIInv'
  BY <1>4, TypeInv
<1>5. ASSUME NEW m \in Modal, Submit(m) PROVE FormsIInv'
  BY <1>5, SubmitInv
<1>6. ASSUME NEW p \in projects \cup {None}, ChooseProject(p) PROVE FormsIInv'
  BY <1>6, ChooseProjectInv
<1>7. ASSUME NEW i \in Issue \cup {None}, ChooseIssue(i) PROVE FormsIInv'
  BY <1>7, ChooseIssueInv
<1>8. ASSUME NEW k \in Kind, NEW v \in Value, Pick(k, v) PROVE FormsIInv'
  BY <1>8, PickInv
<1>9. ASSUME NEW list \in SUBSET Project, ListProjects(list) PROVE FormsIInv'
  BY <1>9, ListProjectsInv
<1>10. CASE ListProjectsFails
  BY <1>10, ListProjectsFailsInv
<1>11. ASSUME NEW k \in Kind, NEW i \in DOMAIN loads[k], Loaded(k, i) \/ LoadFails(k, i) PROVE FormsIInv'
  BY <1>11, ArriveInv DEF Loaded, LoadFails
<1>12. ASSUME NEW r \in sent, Succeed(r) \/ FailRequest(r) PROVE FormsIInv'
  BY <1>12, SucceedInv, FailRequestInv
<1>13. CASE UNCHANGED formsVars
  <2>1. FormsTypeOK'
    BY <1>13 DEF FormsIInv, FormsTypeOK, formsVars, content, selectors, counters
  <2>2. OpenHasContent' /\ ValidIsListed' /\ SavingIsPending'
    BY <1>13 DEF FormsIInv, OpenHasContent, ValidIsListed, SavingIsPending, formsVars, content
  <2>3. ChosenDecides'
    BY <1>13, SelectorsSame DEF formsVars, content
  <2>. QED BY <2>1, <2>2, <2>3 DEF FormsIInv
<1>. QED
  BY <1>1, <1>2, <1>3, <1>4, <1>5, <1>6, <1>7, <1>8, <1>9, <1>10, <1>11, <1>12, <1>13 DEF FormsNext, Respond

-----------------------------------------------------------------------------
(* IssueForms: theorems *)

\* The labels and assignees that are chosen are those of the chosen project once its options
\* are there, and a form that is submitting has a request on its way.
THEOREM FormsSafe == FormsSpec => []FormsInv
<1>1. FormsIInv => FormsInv
  BY DEF FormsIInv, FormsInv, ChosenDecides, LastDecides, LabelsFit
<1>. QED BY FormsInitInv, FormsNextInv, <1>1, PTL DEF FormsSpec

\* An issue that is sent goes to a project of the list that the form has.
THEOREM ListedOnly == FormsSpec => SubmitsWhatIsListed
<1> DEFINE Listed == \A r \in sent' \ sent : r.modal = "create" => r.target \in projects
<1>1. FormsIInv /\ [FormsNext]_formsVars => [Listed]_formsVars
  <2> SUFFICES ASSUME FormsIInv, [FormsNext]_formsVars, NEW r \in sent' \ sent, r.modal = "create"
               PROVE  r.target \in projects
    OBVIOUS
  <2>1. PICK m \in Modal : Submit(m)
    <3>1. sent' \subseteq sent \/ \E m \in Modal : Submit(m)
      BY DEF FormsNext, OpenFromPost, OpenFromCommand, Mount, Cancel, Type, ChooseProject, ChooseIssue, Pick,
             ListProjects, ListProjectsFails, Loaded, LoadFails, Arrive, Respond, Succeed, FailRequest, formsVars
    <3>. QED BY <3>1
  <2>2. r = Body(m) /\ m = "create"
    BY <2>1 DEF Submit, Body
  <2>. QED BY <2>1, <2>2 DEF FormsIInv, ValidIsListed, Submit, Complete, Body
<1>. QED BY FormsInitInv, FormsNextInv, <1>1, PTL DEF FormsSpec, SubmitsWhatIsListed
-----------------------------------------------------------------------------
(* Popovers *)

\* A name that an account has is one that it has had.
AccountsHad == \A u \in User : accounts[u] \in had[u]

\* A link was refused last only if the expression stands at its start again.
RefusalResets == refused \in {0, 1} /\ (advanced => refused = 0)

PopoversIInv == PopoversTypeOK /\ NamesAreOwn /\ AccountsHad /\ RefusalResets

LEMMA PopoversInitInv == PopoversInit => PopoversIInv
<1> SUFFICES ASSUME PopoversInit PROVE PopoversIInv
  OBVIOUS
<1>1. /\ setting \in Host \cup {None} /\ connected \in BOOLEAN /\ gitlabURL \in Host \cup {None}
      /\ advanced \in BOOLEAN /\ hovered \in Link \cup {None} /\ data \subseteq Link
      /\ popover \in User \cup {None}
      /\ queries \subseteq Query
  BY DEF PopoversInit
<1>2. /\ gitlabUsers \in [User -> Name \cup {None}] /\ accounts \in [User -> Name \cup {None}]
      /\ had \in [User -> SUBSET (Name \cup {None})]
  BY DEF PopoversInit
<1>3. refused \in Nat /\ moves \in 0 .. MaxMoves /\ losses \in 0 .. MaxFaults
  BY PopoversAssumption DEF PopoversInit
<1>4. NamesAreOwn /\ AccountsHad
  BY DEF PopoversInit, NamesAreOwn, AccountsHad
<1>5. RefusalResets
  BY DEF PopoversInit, RefusalResets
<1>. QED BY <1>1, <1>2, <1>3, <1>4, <1>5 DEF PopoversIInv, PopoversTypeOK

\* What is asked is a request, and one step at a time.
LEMMA AskedIsRequest ==
    ASSUME PopoversTypeOK, Move, NEW x, x \in Link \cup User,
           NEW kind, (kind = "link" /\ x \in Link) \/ (kind = "user" /\ x \in User)
    PROVE  Asked(kind, x) \subseteq Query
  BY PopoversAssumption DEF PopoversTypeOK, Move, Asked, Query

\* The expression is tested by Preview alone: two refusals need a match between them.
LEMMA PreviewResets ==
    ASSUME PopoversIInv, NEW l \in Link, Preview(l)
    PROVE  RefusalResets' /\ advanced' \in BOOLEAN /\ refused' \in Nat
  <1>1. CASE ~Tests(l)
    BY <1>1 DEF Preview, PopoversIInv, PopoversTypeOK, RefusalResets
  <1>2. CASE Tests(l)
    <2>1. Own(l)
      BY <1>2 DEF Tests
    <2>2. Shape[l].matches \in BOOLEAN /\ advanced \in BOOLEAN
      BY PopoversAssumption DEF PopoversIInv, PopoversTypeOK, ShapeOf
    <2>3. advanced' = (Shape[l].matches /\ ~advanced)
      BY <1>2 DEF Preview
    <2>4. refused' = CASE ~Own(l) \/ ~Shape[l].matches -> refused
                       [] Own(l) /\ Shape[l].matches /\ ~advanced -> 0
                       [] OTHER -> refused + 1
      BY <1>2 DEF Preview
    <2>5. CASE ~Shape[l].matches
      BY <2>1, <2>2, <2>3, <2>4, <2>5 DEF PopoversIInv, PopoversTypeOK, RefusalResets
    <2>6. CASE Shape[l].matches /\ ~advanced
      BY <2>1, <2>2, <2>3, <2>4, <2>6 DEF PopoversIInv, PopoversTypeOK, RefusalResets
    <2>7. CASE Shape[l].matches /\ advanced
      <3>1. refused = 0
        BY <2>7 DEF PopoversIInv, RefusalResets
      <3>2. refused' = 1
        BY <3>1, <2>1, <2>2, <2>4, <2>7
      <3>3. advanced' = FALSE
        BY <2>2, <2>3, <2>7
      <3>. QED BY <3>1, <3>2, <3>3 DEF RefusalResets
    <2>. QED BY <2>2, <2>5, <2>6, <2>7
  <1>. QED BY <1>1, <1>2

LEMMA PreviewAsks ==
    ASSUME PopoversIInv, Move, NEW l \in Link, Preview(l)
    PROVE  queries' \subseteq Query
  <1>1. queries \subseteq Query
    BY DEF PopoversIInv, PopoversTypeOK
  <1>2. Asked("link", l) \subseteq Query
    BY AskedIsRequest DEF PopoversIInv
  <1>3. queries' = queries \/ queries' = Asked("link", l)
    BY DEF Preview
  <1>. QED BY <1>1, <1>2, <1>3

LEMMA PopoversNextInv == PopoversIInv /\ [PopoversNext]_popoversVars => PopoversIInv'
<1> SUFFICES ASSUME PopoversIInv, [PopoversNext]_popoversVars PROVE PopoversIInv'
  OBVIOUS
<1> USE PopoversAssumption
<1> USE DEF PopoversIInv, PopoversTypeOK, NamesAreOwn, AccountsHad, RefusalResets
<1>1. ASSUME NEW l \in Link, Hover(l) PROVE PopoversIInv'
  <2>1. RefusalResets' /\ advanced' \in BOOLEAN /\ refused' \in Nat
    BY <1>1, PreviewResets DEF Hover
  <2>2. queries' \subseteq Query
    BY <1>1, PreviewAsks DEF Hover
  <2>. QED BY <1>1, <2>1, <2>2 DEF Hover, Move, store, users
<1>2. CASE Leave
  BY <1>2 DEF Leave, store, users
<1>3. ASSUME NEW payload \in [connected : BOOLEAN, url : Host \cup {None}], StoreConnected(payload)
      PROVE  PopoversIInv'
  <2>1. RefusalResets' /\ advanced' \in BOOLEAN /\ refused' \in Nat /\ queries' \subseteq Query
    <3>1. CASE hovered # None /\ connected' # connected
      <4>1. hovered \in Link /\ Preview(hovered) /\ Move
        BY <1>3, <3>1 DEF StoreConnected
      <4>. QED BY <4>1, PreviewResets, PreviewAsks
    <3>2. CASE ~(hovered # None /\ connected' # connected)
      BY <1>3, <3>2 DEF StoreConnected
    <3>. QED BY <3>1, <3>2
  <2>. QED BY <1>3, <2>1 DEF StoreConnected, Move, users
<1>4. ASSUME NEW h \in Host \cup {None}, ChangeSetting(h) PROVE PopoversIInv'
  BY <1>4 DEF ChangeSetting, Move, links, users
<1>5. ASSUME NEW u \in User, OpenPopover(u) PROVE PopoversIInv'
  <2>1. Asked("user", u) \subseteq Query
    BY <1>5, AskedIsRequest DEF OpenPopover
  <2>. QED BY <1>5, <2>1 DEF OpenPopover, Move, store, links
<1>6. CASE ClosePopover
  BY <1>6 DEF ClosePopover, store, links
<1>7. ASSUME NEW r \in queries, ReceiveLink(r) PROVE PopoversIInv'
  <2>1. r.of \in Link
    BY <1>7 DEF ReceiveLink, Query
  <2>. QED BY <1>7, <2>1 DEF ReceiveLink, store, users
<1>8. ASSUME NEW r \in queries, ReceiveUser(r) PROVE PopoversIInv'
  <2>1. r.of \in User
    BY <1>8 DEF ReceiveUser, Query
  <2>. QED BY <1>8, <2>1 DEF ReceiveUser, Kept, store, links
<1>9. ASSUME NEW r \in queries, FailQuery(r) PROVE PopoversIInv'
  BY <1>9 DEF FailQuery, store, links, users
<1>10. ASSUME NEW u \in User, NEW name \in Name \cup {None}, ChangeAccount(u, name) PROVE PopoversIInv'
  BY <1>10 DEF ChangeAccount, Move, store, links
<1>11. CASE UNCHANGED popoversVars
  BY <1>11 DEF popoversVars, store, links, users
<1>12. /\ ConnectPayload \in [connected : BOOLEAN, url : Host \cup {None}]
       /\ \A c \in BOOLEAN : AnswerPayload(c) \in [connected : BOOLEAN, url : Host \cup {None}]
       /\ DisconnectPayload \in [connected : BOOLEAN, url : Host \cup {None}]
  BY DEF ConnectPayload, AnswerPayload, DisconnectPayload
<1> HIDE DEF PopoversIInv
<1>. QED
  BY <1>1, <1>2, <1>3, <1>4, <1>5, <1>6, <1>7, <1>8, <1>9, <1>10, <1>11, <1>12 DEF PopoversNext

\* The store of the client is well typed, and a name in it is one that its user has had,
\* in every behaviour.
THEOREM NamesOwn == PopoversSpec => []PopoversInv
<1>1. PopoversIInv => PopoversInv
  BY DEF PopoversIInv, PopoversInv
<1>. QED BY PopoversInitInv, PopoversNextInv, <1>1, PTL DEF PopoversSpec

\* However many links are hovered, and whatever becomes of the connection meanwhile, of two
\* links in a row that can be previewed one is.
THEOREM RefusedOnce == PopoversSpec => []RefusedAtMostOnce
<1>1. PopoversIInv => RefusedAtMostOnce
  BY DEF PopoversIInv, RefusalResets, RefusedAtMostOnce
<1>. QED BY PopoversInitInv, PopoversNextInv, <1>1, PTL DEF PopoversSpec
-----------------------------------------------------------------------------
(* WebClient: sequences of which some elements are in a set K *)

Has(s, K) == \E i \in DOMAIN s : s[i] \in K

\* One element is; none is.
Single(s, K) == \E i \in DOMAIN s : \A j \in DOMAIN s : s[j] \in K <=> j = i
Lacks(s, K) == \A j \in DOMAIN s : s[j] \notin K

LEMMA AppendAdds ==
    ASSUME NEW S, NEW s \in Seq(S), NEW x \in S, NEW K
    PROVE  /\ Append(s, x) \in Seq(S)
           /\ Has(Append(s, x), K) <=> Has(s, K) \/ x \in K
           /\ x \notin K /\ Single(s, K) => Single(Append(s, x), K)
           /\ x \notin K /\ Lacks(s, K) => Lacks(Append(s, x), K)
           /\ x \in K /\ Lacks(s, K) => Single(Append(s, x), K)
<1> DEFINE t == Append(s, x)
<1>1. /\ t \in Seq(S) /\ Len(t) = Len(s) + 1 /\ Len(s) \in Nat
      /\ DOMAIN s = 1 .. Len(s) /\ DOMAIN t = 1 .. Len(t)
      /\ \A i \in 1 .. Len(s) : t[i] = s[i]
      /\ t[Len(s) + 1] = x
  OBVIOUS
<1> HIDE DEF t
<1>2. /\ \A i \in DOMAIN t : i \in DOMAIN s \/ i = Len(s) + 1
      /\ \A i \in DOMAIN s : i \in DOMAIN t /\ i # Len(s) + 1
      /\ Len(s) + 1 \in DOMAIN t
  BY <1>1
<1>3. Has(t, K) <=> Has(s, K) \/ x \in K
  BY <1>1, <1>2 DEF Has
<1>4. ASSUME Single(s, K), x \notin K
      PROVE  Single(t, K)
  <2>1. PICK i \in DOMAIN s : \A j \in DOMAIN s : s[j] \in K <=> j = i
    BY <1>4 DEF Single
  <2>2. \A j \in DOMAIN t : t[j] \in K <=> j = i
    BY <1>1, <1>2, <1>4, <2>1
  <2>. QED BY <1>2, <2>2 DEF Single
<1>5. x \notin K /\ Lacks(s, K) => Lacks(t, K)
  BY <1>1, <1>2 DEF Lacks
<1>6. ASSUME Lacks(s, K), x \in K
      PROVE  Single(t, K)
  <2>1. \A j \in DOMAIN t : t[j] \in K <=> j = Len(s) + 1
    BY <1>1, <1>2, <1>6 DEF Lacks
  <2>. QED BY <1>2, <2>1 DEF Single
<1>. QED BY <1>1, <1>3, <1>4, <1>5, <1>6 DEF t

LEMMA RemoveAtElements ==
    ASSUME NEW S, NEW s \in Seq(S), NEW i \in 1 .. Len(s)
    PROVE  /\ RemoveAt(s, i) \in Seq(S)
           /\ Len(RemoveAt(s, i)) = Len(s) - 1
           /\ \A j \in 1 .. Len(s) - 1 : RemoveAt(s, i)[j] = IF j < i THEN s[j] ELSE s[j + 1]
<1>1. /\ RemoveAt(s, i) \in Seq(S)
      /\ Len(RemoveAt(s, i)) = Len(s) - 1
      /\ \A j \in i .. Len(s) - 1 : RemoveAt(s, i)[j] = s[j + 1]
  BY RemoveAtProperties
<1>2. \A j \in 1 .. i - 1 : RemoveAt(s, i)[j] = s[j]
  <2> DEFINE a == SubSeq(s, 1, i - 1)
             b == SubSeq(s, i + 1, Len(s))
  <2>1. Len(a) = i - 1 /\ \A j \in 1 .. i - 1 : a[j] = s[j]
    OBVIOUS
  <2>2. a \in Seq(S) /\ b \in Seq(S)
    OBVIOUS
  <2>3. RemoveAt(s, i) = a \o b
    BY DEF RemoveAt
  <2> HIDE DEF a, b
  <2>4. \A j \in 1 .. Len(a) : (a \o b)[j] = a[j]
    BY <2>2
  <2>. QED BY <2>1, <2>3, <2>4
<1>. QED BY <1>1, <1>2

\* Without one of its elements, a sequence still has the others.
LEMMA RemoveTakes ==
    ASSUME NEW S, NEW s \in Seq(S), NEW i \in DOMAIN s, NEW K
    PROVE  /\ RemoveAt(s, i) \in Seq(S)
           /\ Has(s, K) => s[i] \in K \/ Has(RemoveAt(s, i), K)
           /\ Single(s, K) /\ s[i] \notin K => Single(RemoveAt(s, i), K)
           /\ Single(s, K) /\ s[i] \in K => Lacks(RemoveAt(s, i), K)
           /\ Lacks(s, K) => Lacks(RemoveAt(s, i), K)
<1> DEFINE t == RemoveAt(s, i)
<1>1. /\ t \in Seq(S) /\ Len(t) = Len(s) - 1 /\ Len(s) \in Nat /\ i \in 1 .. Len(s)
      /\ \A j \in 1 .. Len(s) - 1 : t[j] = IF j < i THEN s[j] ELSE s[j + 1]
      /\ DOMAIN s = 1 .. Len(s) /\ DOMAIN t = 1 .. Len(s) - 1
  <2>1. i \in 1 .. Len(s) /\ Len(s) \in Nat /\ DOMAIN s = 1 .. Len(s)
    OBVIOUS
  <2>2. /\ t \in Seq(S) /\ Len(t) = Len(s) - 1
        /\ \A j \in 1 .. Len(s) - 1 : t[j] = IF j < i THEN s[j] ELSE s[j + 1]
    BY <2>1, RemoveAtElements
  <2> HIDE DEF t
  <2>3. DOMAIN t = 1 .. Len(t)
    BY <2>2
  <2>. QED BY <2>1, <2>2, <2>3
<1> HIDE DEF t
<1> DEFINE old(j) == IF j < i THEN j ELSE j + 1
           new(k) == IF k < i THEN k ELSE k - 1
<1>2. \A j \in DOMAIN t : old(j) \in DOMAIN s /\ old(j) # i /\ t[j] = s[old(j)] /\ new(old(j)) = j
  BY <1>1
<1>3. \A k \in DOMAIN s \ {i} : new(k) \in DOMAIN t /\ old(new(k)) = k
  BY <1>1
<1> HIDE DEF old, new
<1>4. Has(s, K) => s[i] \in K \/ Has(t, K)
  BY <1>2, <1>3 DEF Has
<1>5. ASSUME Single(s, K)
      PROVE  IF s[i] \in K THEN Lacks(t, K) ELSE Single(t, K)
  <2>1. PICK k \in DOMAIN s : \A j \in DOMAIN s : s[j] \in K <=> j = k
    BY <1>5 DEF Single
  <2>2. CASE s[i] \in K
    <3>1. k = i
      BY <1>1, <2>1, <2>2
    <3>. QED BY <1>2, <2>1, <2>2, <3>1 DEF Lacks
  <2>3. CASE s[i] \notin K
    <3>1. k # i
      BY <1>1, <2>1, <2>3
    <3>2. \A j \in DOMAIN t : t[j] \in K <=> j = new(k)
      BY <1>2, <1>3, <2>1, <3>1
    <3>. QED BY <1>3, <2>1, <2>3, <3>1, <3>2 DEF Single
  <2>. QED BY <2>2, <2>3
<1>6. Lacks(s, K) => Lacks(t, K)
  BY <1>2 DEF Lacks
<1>. QED BY <1>1, <1>4, <1>5, <1>6 DEF t

\* Elements that change and stay in the set, or outside.
LEMMA ChangeKeeps ==
    ASSUME NEW S, NEW s \in Seq(S), NEW T, NEW t, t = [i \in DOMAIN s |-> t[i]],
           \A i \in DOMAIN s : t[i] \in T,
           NEW K
    PROVE  /\ t \in Seq(T)
           /\ (\A i \in DOMAIN s : s[i] \in K => t[i] \in K) => (Has(s, K) => Has(t, K))
           /\ (\A i \in DOMAIN s : s[i] \in K <=> t[i] \in K) =>
                  (Single(s, K) => Single(t, K)) /\ (Lacks(s, K) => Lacks(t, K))
<1>1. DOMAIN s = 1 .. Len(s) /\ Len(s) \in Nat
  OBVIOUS
<1>2. DOMAIN t = DOMAIN s
  OBVIOUS
<1>3. t \in Seq(T)
  <2>1. t \in [1 .. Len(s) -> T]
    BY <1>1
  <2>. QED BY <1>1, <2>1, SeqDef
<1>4. (\A i \in DOMAIN s : s[i] \in K => t[i] \in K) => (Has(s, K) => Has(t, K))
  BY <1>2 DEF Has
<1>5. ASSUME \A i \in DOMAIN s : s[i] \in K <=> t[i] \in K
      PROVE  (Single(s, K) => Single(t, K)) /\ (Lacks(s, K) => Lacks(t, K))
  BY <1>2, <1>5 DEF Single, Lacks
<1>. QED BY <1>3, <1>4, <1>5

-----------------------------------------------------------------------------
(* WebClient: the inductive invariant *)

By(p) == {r \in Request : r.by = p}
OfKind(k) == {r \in Request : r.kind = k}

\* Requests whose answer, if there is one, has lists of version v or newer.
Fresh(v) == {r \in OfKind("lists") : r.at = "served" => r.version >= v}

\* Who asks for what, and what an answer of the server says: lists have an account, and
\* an answer about the connection is that of now unless it is marked.
Good == {r \in Request :
    /\ r.kind = "connected" => r.by \in {"start", "reconnect"}
                               /\ (r.at = "served" /\ r.clean => r.account = account)
    /\ r.kind = "lists" => r.by \in {"sidebar", "nobody"}
                           /\ (r.at = "served" => r.account # None)
    /\ r.kind = "subs" => r.by \in {"panel", "nobody"} /\ r.channel \in Channel}

\* Versions count the steps.
Bounds == lists <= steps /\ due <= lists /\ \A c \in Channel : subs[c] <= steps + 1

\* What the client has asked for with the requests rs, when the icons in on spin.
Sound(rs, on) ==
    /\ rs \in Seq(Good)
    /\ \A p \in Component : IF p \in on THEN Single(rs, By(p)) ELSE Lacks(rs, By(p))

OfConnection(e) == e.kind \in {"connect", "disconnect"}

\* The last of the events about the connection that are to come says what is so, if the
\* plugin has announced that.
EventsInv ==
    /\ ~ socket => events = <<>>
    /\ ~ untold => \A i \in DOMAIN events :
          OfConnection(events[i]) /\ (\A j \in DOMAIN events : j > i => ~ OfConnection(events[j]))
             => events[i].account = account

\* If there is none to come, what is shown is so, or the client has asked.
ShownInv ==
    phase = "ready" /\ socket /\ ~ untold /\ ~ stale /\ (\A i \in DOMAIN events : ~ OfConnection(events[i]))
        => shown = account \/ Has(requests, OfKind("connected"))

\* The lists are as new as they should be, or the client has asked since.
ListsInv ==
    ~ disturbed =>
        /\ held.version >= due \/ Has(requests, Fresh(due))
        /\ shown # None => held.account # None \/ Has(requests, OfKind("lists"))

\* Connections and disconnections that come one by one and whole announce what they have
\* written.
OneByOne ==
    ~ mixed => \/ jobs = <<>> /\ ~ untold
               \/ \E job \in Job : jobs = <<job>> /\ ("info" \in job.todo \/ account = job.account)

WebIInv ==
    /\ TypeOK /\ Bounds /\ Sound(requests, refreshing) /\ OneByOne
    /\ EventsInv /\ ShownInv /\ ListsInv

\* What follows from the types.
LEMMA WebTypes ==
    ASSUME TypeOK
    PROVE  /\ MaxSteps \in Nat /\ MaxFaults \in Nat /\ steps \in Nat /\ faults \in Nat
           /\ lists \in Nat /\ due \in Nat /\ held.version \in Nat /\ held.account \in Account \cup {None}
           /\ \A c \in Channel : subs[c] \in Nat
           /\ None \notin Account /\ None \notin Channel
BY ConstantsAssumption DEF TypeOK, Version

LEMMA GoodIsRequest == Good \subseteq Request
BY DEF Good

\* The request that a component, or nobody, asks with.
LEMMA AskingIs ==
    ASSUME NEW k, NEW by, NEW c
    PROVE  LET r == Asking(k, by, c) IN
           /\ r.kind = k /\ r.by = by /\ r.at = "sent"
           /\ k \in {"connected", "lists", "subs"} /\ by \in Sender /\ c \in Channel \cup {None} => r \in Request
BY ConstantsAssumption DEF Asking, Request, Version

LEMMA AskingGood ==
    /\ \A by \in {"start", "reconnect"} : Asking("connected", by, None) \in Good
    /\ \A by \in {"sidebar", "nobody"} : Asking("lists", by, None) \in Good
    /\ \A c \in Channel : Asking("subs", "panel", c) \in Good /\ Asking("subs", "panel", c).channel = c
  BY AskingIs DEF Good, Sender, Component, Asking

\* One more request that no component waits for.
LEMMA AskedSound ==
    ASSUME NEW rs, NEW on, Sound(rs, on), NEW r \in Good, r.by \notin Component
    PROVE  /\ Sound(Append(rs, r), on)
           /\ \A K : Has(Append(rs, r), K) <=> Has(rs, K) \/ r \in K
<1>1. \A p \in Component : r \notin By(p)
  BY DEF By
<1>. QED BY <1>1, AppendAdds DEF Sound

\* One more request of a component that was not waiting for any.
LEMMA PartSound ==
    ASSUME NEW rs, NEW on, Sound(rs, on), NEW r \in Good, NEW p \in Component \ on, r.by = p
    PROVE  /\ Sound(Append(rs, r), on \cup {p})
           /\ \A K : Has(Append(rs, r), K) <=> Has(rs, K) \/ r \in K
<1>1. \A q \in Component : r \in By(q) <=> q = p
  BY GoodIsRequest DEF By
<1>2. Append(rs, r) \in Seq(Good) /\ Lacks(rs, By(p))
  BY AppendAdds DEF Sound
<1>3. ASSUME NEW q \in Component
      PROVE  IF q \in on \cup {p} THEN Single(Append(rs, r), By(q)) ELSE Lacks(Append(rs, r), By(q))
  <2>1. CASE q = p
    BY <1>1, <1>2, <2>1, AppendAdds DEF Sound
  <2>2. CASE q # p
    BY <1>1, <2>2, AppendAdds DEF Sound
  <2>. QED BY <2>1, <2>2
<1>. QED BY <1>2, <1>3, AppendAdds DEF Sound

\* The parts that were not refreshing ask, and are refreshing.
LEMMA DataSound ==
    ASSUME NEW rs, NEW on, Sound(rs, on), NEW parts \in SUBSET Component, parts \cap on = {},
           NEW c \in Channel
    PROVE  LET s == rs \o Data(parts, c) IN
           /\ Sound(s, on \cup parts)
           /\ \A K : Has(rs, K) => Has(s, K)
           /\ "sidebar" \in parts => Has(s, OfKind("lists"))
<1> DEFINE x == Asking("lists", "sidebar", None)
           y == Asking("subs", "panel", c)
           first == IF "sidebar" \in parts THEN <<x>> ELSE <<>>
           second == IF "panel" \in parts THEN <<y>> ELSE <<>>
           t == IF "sidebar" \in parts THEN Append(rs, x) ELSE rs
           s == IF "panel" \in parts THEN Append(t, y) ELSE t
<1>1. /\ x \in Good /\ y \in Good /\ x.by = "sidebar" /\ y.by = "panel" /\ x \in OfKind("lists")
  BY AskingGood, AskingIs, GoodIsRequest DEF OfKind
<1>2. rs \o Data(parts, c) = s
  <2>1. \A q \in Seq(Good), e \in Good : q \o <<e>> = Append(q, e) /\ Append(q, e) \in Seq(Good)
    OBVIOUS
  <2>2. \A q \in Seq(Good) : q \o <<>> = q
    OBVIOUS
  <2>3. \A q, r, v \in Seq(Good) : q \o (r \o v) = (q \o r) \o v
    OBVIOUS
  <2>4. first \in Seq(Good) /\ second \in Seq(Good)
    BY <1>1
  <2>5. Data(parts, c) = first \o second
    BY DEF Data
  <2>6. rs \in Seq(Good)
    BY DEF Sound
  <2> HIDE DEF x, y
  <2>7. rs \o first = t /\ t \in Seq(Good)
    BY <1>1, <2>1, <2>2, <2>6
  <2> HIDE DEF t
  <2>8. t \o second = s
    BY <1>1, <2>1, <2>2, <2>7
  <2> HIDE DEF first, second, s
  <2>9. rs \o Data(parts, c) = (rs \o first) \o second
    BY <2>3, <2>4, <2>5, <2>6
  <2>. QED BY <2>7, <2>8, <2>9
<1> HIDE DEF x, y
<1> DEFINE mid == on \cup (parts \cap {"sidebar"})
<1>3. /\ Sound(t, mid)
      /\ \A K : Has(rs, K) => Has(t, K)
      /\ "sidebar" \in parts => Has(t, OfKind("lists"))
  <2>1. CASE "sidebar" \in parts
    <3>1. "sidebar" \in Component \ on /\ mid = on \cup {"sidebar"}
      BY <2>1 DEF Component
    <3> HIDE DEF mid
    <3>. QED BY <1>1, <2>1, <3>1, PartSound
  <2>2. CASE "sidebar" \notin parts
    <3>1. mid = on
      BY <2>2
    <3>. QED BY <2>2, <3>1
  <2>. QED BY <2>1, <2>2
<1> HIDE DEF t
<1>4. /\ Sound(s, on \cup parts)
      /\ \A K : Has(t, K) => Has(s, K)
  <2>1. CASE "panel" \in parts
    <3>1. "panel" \in Component \ mid /\ on \cup parts = mid \cup {"panel"}
      BY <2>1 DEF Component
    <3> HIDE DEF mid
    <3>. QED BY <1>1, <1>3, <2>1, <3>1, PartSound
  <2>2. CASE "panel" \notin parts
    <3>1. mid = on \cup parts
      BY <2>2 DEF Component
    <3>. QED BY <1>3, <2>2, <3>1
  <2>. QED BY <2>1, <2>2
<1>. QED BY <1>2, <1>3, <1>4

\* A component unmounts.
LEMMA OrphanedSound ==
    ASSUME NEW rs, NEW on, Sound(rs, on), NEW p \in Component
    PROVE  /\ Sound(Orphaned(rs, p), on \ {p})
           /\ \A k : Has(rs, OfKind(k)) => Has(Orphaned(rs, p), OfKind(k))
           /\ \A v : Has(rs, Fresh(v)) => Has(Orphaned(rs, p), Fresh(v))
<1> DEFINE t == Orphaned(rs, p)
<1>1. rs \in Seq(Good) /\ \A i \in DOMAIN rs : rs[i] \in Good /\ rs[i] \in Request
  BY GoodIsRequest DEF Sound
<1>2. t = [i \in DOMAIN rs |-> IF rs[i].by = p THEN [rs[i] EXCEPT !.by = "nobody"] ELSE rs[i]]
  BY DEF Orphaned
<1>3. \A r \in Good : r.by = p => r.kind # "connected" /\ [r EXCEPT !.by = "nobody"] \in Good
  BY DEF Good, Request, Component, Sender
<1>4. \A i \in DOMAIN rs : /\ t[i] \in Good /\ t[i] \in Request
                           /\ t[i].by = IF rs[i].by = p THEN "nobody" ELSE rs[i].by
                           /\ t[i].kind = rs[i].kind /\ t[i].at = rs[i].at /\ t[i].version = rs[i].version
  BY <1>1, <1>2, <1>3, GoodIsRequest DEF Request
<1>5. t = [i \in DOMAIN rs |-> t[i]]
  BY <1>2
<1> HIDE DEF t
<1>6. t \in Seq(Good)
  BY <1>1, <1>4, <1>5, ChangeKeeps
<1>7. \A k : Has(rs, OfKind(k)) => Has(t, OfKind(k))
  BY <1>4, <1>5 DEF Has, OfKind
<1>8. \A v : Has(rs, Fresh(v)) => Has(t, Fresh(v))
  BY <1>4, <1>5 DEF Has, OfKind, Fresh
<1>9. ASSUME NEW q \in Component
      PROVE  IF q \in on \ {p} THEN Single(t, By(q)) ELSE Lacks(t, By(q))
  <2>1. CASE q = p
    BY <1>4, <1>5, <2>1 DEF Lacks, By, Component
  <2>2. CASE q # p
    <3>1. \A i \in DOMAIN rs : rs[i] \in By(q) <=> t[i] \in By(q)
      BY <1>1, <1>4, <2>2 DEF By, Component
    <3>2. (Single(rs, By(q)) => Single(t, By(q))) /\ (Lacks(rs, By(q)) => Lacks(t, By(q)))
      BY <1>1, <1>4, <1>5, <3>1, ChangeKeeps
    <3>. QED BY <2>2, <3>2 DEF Sound
  <2>. QED BY <2>1, <2>2
<1>. QED BY <1>6, <1>7, <1>8, <1>9 DEF Sound, t

\* A sound client, and one with an icon, has what the icon stands for.
LEMMA SidebarAsks ==
    ASSUME NEW rs, NEW on, Sound(rs, on), "sidebar" \in on
    PROVE  Has(rs, OfKind("lists"))
<1>1. Single(rs, By("sidebar")) /\ rs \in Seq(Good)
  BY DEF Sound, Component
<1>2. PICK i \in DOMAIN rs : rs[i] \in By("sidebar")
  BY <1>1 DEF Single
<1>3. rs[i] \in Good
  BY <1>1
<1>4. rs[i] \in OfKind("lists")
  BY <1>2, <1>3 DEF By, OfKind, Good, Request
<1>. QED BY <1>4 DEF Has

\* What RECEIVED_CONNECTED does to the requests rs.
LEMMA ShowSound ==
    ASSUME TypeOK, NEW rs, Sound(rs, refreshing), NEW a, NEW more, Show(a, rs, more),
           \/ more = <<>>
           \/ more = <<Asking("lists", "nobody", None)>>
    PROVE  /\ Sound(requests', refreshing') /\ refreshing' \subseteq Component
           /\ shown' = a
           /\ \A k : Has(rs, OfKind(k)) => Has(requests', OfKind(k))
           /\ \A v : Has(rs, Fresh(v)) => Has(requests', Fresh(v))
           /\ more # <<>> => \A v : Has(requests', Fresh(v))
           /\ shown = None /\ a # None => Has(requests', OfKind("lists"))
<1> DEFINE gone == {p \in {"sidebar"} : oneTeam /\ a = None}
           wakes == IF a # None /\ shown = None
                    THEN {p \in Component : p = "panel" => panel} \ refreshing ELSE {}
           left == refreshing \ gone
           base == IF gone = {} THEN rs ELSE Orphaned(rs, "sidebar")
           mid == base \o Data(wakes, channel)
           asked == Asking("lists", "nobody", None)
<1>1. /\ shown' = a /\ refreshing' = left \cup wakes
      /\ requests' = mid \o more
  BY DEF Show
<1>2. /\ wakes \in SUBSET Component /\ left \subseteq Component /\ wakes \cap left = {}
      /\ channel \in Channel
  BY DEF TypeOK
<1>3. /\ Sound(base, left)
      /\ \A k : Has(rs, OfKind(k)) => Has(base, OfKind(k))
      /\ \A v : Has(rs, Fresh(v)) => Has(base, Fresh(v))
  <2>1. CASE gone = {}
    <3>1. left = refreshing /\ base = rs
      BY <2>1
    <3> HIDE DEF left, base
    <3>. QED BY <3>1
  <2>2. CASE gone # {}
    <3>1. left = refreshing \ {"sidebar"} /\ base = Orphaned(rs, "sidebar")
      BY <2>2
    <3>2. "sidebar" \in Component
      BY DEF Component
    <3> HIDE DEF left, base
    <3>. QED BY <3>1, <3>2, OrphanedSound
  <2>. QED BY <2>1, <2>2
<1>4. shown = None /\ a # None => "sidebar" \in wakes \/ "sidebar" \in left
  BY DEF Component
<1> HIDE DEF gone, wakes, left, base
<1>5. /\ Sound(mid, left \cup wakes)
      /\ \A K : Has(base, K) => Has(mid, K)
      /\ "sidebar" \in wakes => Has(mid, OfKind("lists"))
  BY <1>2, <1>3, DataSound
<1>6. "sidebar" \in left => Has(mid, OfKind("lists"))
  BY <1>3, <1>5, SidebarAsks
<1> HIDE DEF mid
<1>7. mid \in Seq(Good)
  BY <1>5 DEF Sound
<1>8. CASE more = <<>>
  <2>1. requests' = mid
    BY <1>1, <1>7, <1>8
  <2>. QED BY <1>1, <1>2, <1>3, <1>4, <1>5, <1>6, <1>8, <2>1
<1>9. CASE more = <<asked>>
  <2>1. /\ asked \in Good /\ asked.by \notin Component
        /\ asked \in OfKind("lists") /\ \A v : asked \in Fresh(v)
    BY AskingGood, AskingIs, GoodIsRequest DEF OfKind, Fresh, Component
  <2> HIDE DEF asked
  <2>2. requests' = Append(mid, asked)
    BY <1>1, <1>7, <1>9, <2>1
  <2>3. /\ Sound(requests', refreshing')
        /\ \A K : Has(requests', K) <=> Has(mid, K) \/ asked \in K
    BY <1>1, <1>5, <2>1, <2>2, AskedSound
  <2>. QED BY <1>1, <1>2, <1>3, <1>5, <2>1, <2>3
<1>. QED BY <1>8, <1>9

\* What getData does, from an icon that does not spin, or does.
LEMMA GetDataSound ==
    ASSUME TypeOK, NEW rs, Sound(rs, refreshing), NEW p \in Component, NEW c,
           p = "panel" => c \in Channel, GetData(p, c, rs)
    PROVE  /\ Sound(requests', refreshing') /\ refreshing' \subseteq Component
           /\ \A K : Has(rs, K) => Has(requests', K)
<1>1. \E d \in Channel : Data({p} \ refreshing, c) = Data({p} \ refreshing, d)
  <2>1. CASE p = "panel"
    BY <2>1
  <2>2. CASE p # "panel"
    <3>1. "panel" \notin {p} \ refreshing
      BY <2>2
    <3>. QED BY <3>1 DEF Data, TypeOK
  <2>. QED BY <2>1, <2>2
<1>2. PICK d \in Channel : Data({p} \ refreshing, c) = Data({p} \ refreshing, d)
  BY <1>1
<1> DEFINE new == {p} \ refreshing
<1>3. /\ refreshing' = refreshing \cup new /\ requests' = rs \o Data(new, d)
      /\ new \in SUBSET Component /\ new \cap refreshing = {}
      /\ refreshing \subseteq Component
  BY <1>2 DEF GetData, TypeOK
<1> HIDE DEF new
<1>. QED BY <1>3, DataSound

-----------------------------------------------------------------------------
(* WebClient: what the steps keep *)

\* The positions of a sequence with one more element, and without the first.
LEMMA AppendIs ==
    ASSUME NEW S, NEW s \in Seq(S), NEW x \in S
    PROVE  LET t == Append(s, x) IN
           /\ t \in Seq(S) /\ Len(s) + 1 \in DOMAIN t /\ t[Len(s) + 1] = x
           /\ \A i \in DOMAIN s : i \in DOMAIN t /\ t[i] = s[i] /\ Len(s) + 1 > i
           /\ \A i \in DOMAIN t : i \in DOMAIN s \/ i = Len(s) + 1
OBVIOUS

LEMMA TailIs ==
    ASSUME NEW S, NEW s \in Seq(S), s # <<>>
    PROVE  LET t == Tail(s) IN
           /\ t \in Seq(S) /\ Head(s) = s[1] /\ 1 \in DOMAIN s
           /\ \A i \in DOMAIN t : i \in Nat /\ i + 1 \in DOMAIN s /\ t[i] = s[i + 1] /\ i + 1 > 1
           /\ \A i \in DOMAIN s : i = 1 \/ (i - 1 \in DOMAIN t /\ t[i - 1] = s[i])
OBVIOUS

NoneToCome == \A i \in DOMAIN events : ~ OfConnection(events[i])

LEMMA PublishKeeps ==
    ASSUME TypeOK, EventsInv,
           NEW kind \in {"connect", "disconnect", "refresh", "subs"}, NEW a \in Account \cup {None},
           NEW c \in Channel \cup {None}, NEW v \in Version, kind = "subs" => c \in Channel,
           Publish(kind, a, c, v), UNCHANGED <<socket, account>>,
           untold' = IF kind \in {"connect", "disconnect"} THEN a # account ELSE untold
    PROVE  /\ events' \in Seq(Event)
           /\ \A i \in DOMAIN events' : events'[i].kind = "subs" => events'[i].channel \in Channel
           /\ EventsInv'
           /\ socket /\ NoneToCome' => kind \notin {"connect", "disconnect"} /\ NoneToCome
<1> DEFINE e == [kind |-> kind, account |-> a, channel |-> c, version |-> v]
<1>1. e \in Event /\ e.kind = kind /\ e.account = a /\ e.channel = c
  BY DEF Event
<1>2. events' = IF socket THEN Append(events, e) ELSE events
  BY DEF Publish
<1>3. /\ events \in Seq(Event)
      /\ \A i \in DOMAIN events : events[i].kind = "subs" => events[i].channel \in Channel
      /\ \A i \in DOMAIN events : i \in Nat
  BY DEF TypeOK
<1>4. OfConnection(e) <=> kind \in {"connect", "disconnect"}
  BY <1>1 DEF OfConnection
<1> HIDE DEF e
<1>5. CASE socket
  <2>1. /\ events' \in Seq(Event) /\ Len(events) + 1 \in DOMAIN events' /\ events'[Len(events) + 1] = e
        /\ \A i \in DOMAIN events : i \in DOMAIN events' /\ events'[i] = events[i] /\ Len(events) + 1 > i
        /\ \A i \in DOMAIN events' : i \in DOMAIN events \/ i = Len(events) + 1
    BY <1>1, <1>2, <1>3, <1>5, AppendIs
  <2>2. \A i \in DOMAIN events' : events'[i].kind = "subs" => events'[i].channel \in Channel
    BY <1>1, <1>3, <2>1
  <2>3. ASSUME ~ untold', NEW i \in DOMAIN events', OfConnection(events'[i]),
               \A j \in DOMAIN events' : j > i => ~ OfConnection(events'[j])
        PROVE  events'[i].account = account'
    <3>1. CASE i = Len(events) + 1
      <4>1. OfConnection(e)
        BY <2>1, <2>3, <3>1
      <4>. QED BY <1>1, <1>4, <2>1, <2>3, <3>1, <4>1
    <3>2. CASE i \in DOMAIN events
      <4>1. ~ OfConnection(e)
        BY <2>1, <2>3, <3>2
      <4>2. /\ OfConnection(events[i])
            /\ \A j \in DOMAIN events : j > i => ~ OfConnection(events[j])
        BY <2>1, <2>3, <3>2
      <4>3. events[i].account = account
        BY <1>4, <2>3, <3>2, <4>1, <4>2 DEF EventsInv
      <4>. QED BY <1>4, <2>1, <3>2, <4>1, <4>3
    <3>. QED BY <2>1, <3>1, <3>2
  <2>4. NoneToCome' => ~ OfConnection(e) /\ NoneToCome
    BY <2>1 DEF NoneToCome
  <2>5. EventsInv'
    BY <1>5, <2>3 DEF EventsInv
  <2>. QED BY <1>4, <2>1, <2>2, <2>4, <2>5
<1>6. CASE ~ socket
  <2>1. events' = events /\ events = <<>>
    BY <1>2, <1>6 DEF EventsInv
  <2>2. EventsInv'
    BY <2>1 DEF EventsInv
  <2>. QED BY <1>3, <1>6, <2>1, <2>2
<1>. QED BY <1>5, <1>6

\* The parts of the invariant that speak of requests, after a step that loses none of
\* those that they speak of.
LEMMA KeptHas ==
    /\ \A k : Has(requests, OfKind(k))' <=> Has(requests', OfKind(k))
    /\ Has(requests, Fresh(due))' <=> Has(requests', Fresh(due'))
BY DEF Has, OfKind, Fresh

LEMMA KeptSound ==
    ASSUME UNCHANGED account, Sound(requests', refreshing')
    PROVE  Sound(requests, refreshing)' /\ requests' \in Seq(Request)
<1>1. Good' = Good
  BY DEF Good
<1>2. Sound(requests, refreshing)'
  BY <1>1 DEF Sound, Single, Lacks, By
<1>3. requests' \in Seq(Request)
  BY GoodIsRequest DEF Sound
<1>. QED BY <1>2, <1>3

LEMMA KeptOneByOne ==
    ASSUME OneByOne, UNCHANGED connection
    PROVE  OneByOne'
BY DEF OneByOne, connection

LEMMA ClientStep ==
    ASSUME WebIInv, steps' \in Nat, steps' >= steps,
           UNCHANGED <<server, socket, events, phase, shown, held, history>>,
           Sound(requests', refreshing'),
           \A k : Has(requests, OfKind(k)) => Has(requests', OfKind(k)),
           Has(requests, Fresh(due)) => Has(requests', Fresh(due))
    PROVE  /\ (Bounds /\ Sound(requests, refreshing) /\ OneByOne /\ EventsInv /\ ShownInv /\ ListsInv)'
           /\ requests' \in Seq(Request)
<1>1. Sound(requests, refreshing)' /\ requests' \in Seq(Request)
  BY KeptSound DEF server, connection
<1>2. Bounds'
  BY WebTypes DEF WebIInv, Bounds, server, connection, history
<1>3. EventsInv'
  BY DEF WebIInv, EventsInv, server, connection
<1>4. ShownInv'
  BY KeptHas DEF WebIInv, ShownInv, server, connection, history
<1>5. ListsInv'
  BY KeptHas DEF WebIInv, ListsInv, history
<1>6. OneByOne'
  BY KeptOneByOne DEF WebIInv, server
<1>. QED BY <1>1, <1>2, <1>3, <1>4, <1>5, <1>6

LEMMA StepTyped ==
    ASSUME TypeOK, Step
    PROVE  /\ steps' \in 0 .. MaxSteps /\ faults' \in 0 .. MaxFaults
           /\ steps' \in Nat /\ steps' = steps + 1 /\ steps' >= steps
BY WebTypes DEF TypeOK, Step

\* What is left to do in a job, and of the jobs.
LEMMA JobsTyped ==
    ASSUME TypeOK, NEW i \in DOMAIN jobs
    PROVE  /\ jobs[i] \in Job /\ RemoveAt(jobs, i) \in Seq(Job)
           /\ \A key : [jobs EXCEPT ![i].todo = @ \ {key}] \in Seq(Job)
<1>1. jobs \in Seq(Job) /\ jobs[i] \in Job
  BY DEF TypeOK
<1>2. RemoveAt(jobs, i) \in Seq(Job)
  BY <1>1, RemoveTakes
<1>3. ASSUME NEW key
      PROVE  [jobs EXCEPT ![i].todo = @ \ {key}] \in Seq(Job)
  <2> DEFINE job == [jobs[i] EXCEPT !.todo = @ \ {key}]
  <2>1. [jobs EXCEPT ![i].todo = @ \ {key}] = [jobs EXCEPT ![i] = job]
    BY <1>1
  <2>2. job \in Job
    BY <1>1 DEF Job
  <2> HIDE DEF job
  <2>3. [jobs EXCEPT ![i] = job] \in Seq(Job)
    BY <1>1, <2>2
  <2>. QED BY <2>1, <2>3
<1>. QED BY <1>1, <1>2, <1>3

\* Steps of connections and disconnections that the client has nothing to do with.
LEMMA JobStep ==
    ASSUME WebIInv, OneByOne', jobs' \in Seq(Job), token' \in BOOLEAN, mixed' \in BOOLEAN,
           steps' \in 0 .. MaxSteps, steps' >= steps, faults' \in 0 .. MaxFaults,
           UNCHANGED <<account, untold, lists, subs, socket, events, requests, phase, oneTeam, view,
                       history>>
    PROVE  WebIInv'
<1>1. TypeOK /\ steps' \in Nat /\ UNCHANGED <<shown, held, due, stale, disturbed, refreshing>>
  BY WebTypes DEF WebIInv, view, history
<1>2. Sound(requests, refreshing)'
  BY <1>1, KeptSound DEF WebIInv
<1>3. TypeOK'
  BY <1>1 DEF TypeOK, view, history
<1>4. Bounds'
  BY <1>1, WebTypes DEF WebIInv, Bounds
<1>5. EventsInv' /\ ShownInv'
  BY <1>1, KeptHas DEF WebIInv, EventsInv, ShownInv
<1>6. ListsInv'
  BY <1>1, KeptHas DEF WebIInv, ListsInv
<1>. QED BY <1>2, <1>3, <1>4, <1>5, <1>6 DEF WebIInv

LEMMA BeginStep ==
    ASSUME WebIInv, NEW a \in Account \cup {None}, Begin(a)
    PROVE  WebIInv'
<1> DEFINE job == [account |-> a, todo |-> {"info", "token"}]
<1>1. /\ TypeOK /\ Step /\ jobs' = Append(jobs, job) /\ mixed' = (mixed \/ jobs # <<>>)
      /\ UNCHANGED <<account, token, untold, lists, subs, socket, events, requests, phase, oneTeam, view,
                     history>>
  BY DEF WebIInv, Begin
<1>2. job \in Job /\ "info" \in job.todo
  BY DEF Job
<1> HIDE DEF job
<1>3. jobs' \in Seq(Job) /\ mixed' \in BOOLEAN /\ token' \in BOOLEAN
  BY <1>1, <1>2 DEF TypeOK
<1>4. OneByOne'
  <2> SUFFICES ASSUME ~ mixed'
               PROVE  \E j \in Job : jobs' = <<j>> /\ ("info" \in j.todo \/ account' = j.account)
    BY DEF OneByOne
  <2>1. jobs = <<>>
    BY <1>1
  <2>2. jobs' = <<job>>
    BY <1>1, <2>1
  <2>. QED BY <1>2, <2>2
<1>. QED BY <1>1, <1>3, <1>4, StepTyped, JobStep

LEMMA JobFailsStep ==
    ASSUME WebIInv, NEW i \in DOMAIN jobs, JobFails(i)
    PROVE  WebIInv'
<1>1. /\ TypeOK /\ faults' \in 0 .. MaxFaults /\ mixed' = TRUE /\ steps' = steps /\ steps \in Nat
      /\ UNCHANGED <<account, token, untold, lists, subs, socket, events, requests, phase, oneTeam, view,
                     history>>
  BY WebTypes DEF WebIInv, JobFails, TypeOK
<1>2. jobs' \in Seq(Job)
  <2>1. RemoveAt(jobs, i) \in Seq(Job) /\ \A key : [jobs EXCEPT ![i].todo = @ \ {key}] \in Seq(Job)
    BY <1>1, JobsTyped
  <2>2. \/ jobs' = RemoveAt(jobs, i)
        \/ \E key : jobs' = [jobs EXCEPT ![i].todo = @ \ {key}]
    BY Zenon DEF JobFails
  <2>. QED BY <2>1, <2>2
<1>3. OneByOne'
  BY <1>1 DEF OneByOne
<1>4. token' \in BOOLEAN /\ mixed' \in BOOLEAN /\ steps' \in 0 .. MaxSteps /\ steps' >= steps
  BY <1>1 DEF TypeOK
<1>. QED BY <1>1, <1>2, <1>3, <1>4, JobStep

\* The only job has written, and is still the only one.
LEMMA WriteOneByOne ==
    ASSUME WebIInv, NEW i \in DOMAIN jobs, NEW key \in {"info", "token"}, Write(i, key)
    PROVE  OneByOne'
<1> SUFFICES ASSUME ~ mixed'
             PROVE  \E job \in Job : jobs' = <<job>> /\ ("info" \in job.todo \/ account' = job.account)
  BY DEF OneByOne
<1>1. ~ mixed /\ jobs # <<>>
  BY DEF Write
<1>2. PICK job \in Job : jobs = <<job>> /\ ("info" \in job.todo \/ account = job.account)
  BY <1>1 DEF WebIInv, OneByOne
<1> DEFINE left == [job EXCEPT !.todo = @ \ {key}]
<1>3. i = 1 /\ jobs[i] = job
  BY <1>2
<1>4. left \in Job /\ left.account = job.account /\ left.todo = job.todo \ {key}
  BY DEF Job
<1>5. jobs' = <<left>>
  <2>1. jobs' = [jobs EXCEPT ![1].todo = @ \ {key}]
    BY <1>3 DEF Write
  <2>2. [jobs EXCEPT ![1].todo = @ \ {key}] = [<<job>> EXCEPT ![1] = left]
    BY <1>2
  <2> HIDE DEF left
  <2>3. [<<job>> EXCEPT ![1] = left] = <<left>>
    OBVIOUS
  <2>. QED BY <2>1, <2>2, <2>3
<1> HIDE DEF left
<1>6. "info" \in left.todo \/ account' = left.account
  <2>1. CASE key = "info"
    <3>1. account' = jobs[i].account
      BY <2>1 DEF Write
    <3>. QED BY <1>3, <1>4, <3>1
  <2>2. CASE key = "token"
    <3>1. account' = account
      BY <2>2 DEF Write
    <3>. QED BY <1>2, <1>4, <2>2, <3>1
  <2>. QED BY <2>1, <2>2
<1>. QED BY <1>4, <1>5, <1>6

\* The info is stored or deleted: what is so is not announced.
LEMMA WriteInfoStep ==
    ASSUME WebIInv, NEW i \in DOMAIN jobs, Write(i, "info")
    PROVE  WebIInv'
<1> DEFINE mark(r) == IF r.at = "served" THEN [r EXCEPT !.clean = FALSE] ELSE r
           rest == <<mixed, lists, subs, socket, events, phase, oneTeam, view, history, steps, faults>>
<1>1. TypeOK /\ Sound(requests, refreshing) /\ requests \in Seq(Good)
      /\ \A k \in DOMAIN requests : requests[k] \in Good
  BY DEF WebIInv, Sound
<1>2. /\ account' = jobs[i].account /\ untold' = TRUE /\ token' = token
      /\ jobs' = [jobs EXCEPT ![i].todo = @ \ {"info"}]
      /\ UNCHANGED rest
  BY DEF Write
<1>3. requests' = [k \in DOMAIN requests |-> mark(requests[k])]
  BY DEF Write, Outdated
<1>4. ASSUME NEW r \in Good
      PROVE  /\ mark(r) \in Good' /\ mark(r) \in Request /\ r \in Request
             /\ mark(r).kind = r.kind /\ mark(r).by = r.by
             /\ mark(r).at = r.at /\ mark(r).version = r.version
  <2>1. /\ mark(r) \in Request /\ r \in Request
        /\ mark(r).kind = r.kind /\ mark(r).by = r.by /\ mark(r).channel = r.channel
        /\ mark(r).at = r.at /\ mark(r).version = r.version /\ mark(r).account = r.account
        /\ mark(r).at = "served" => ~ mark(r).clean
    BY GoodIsRequest DEF Request
  <2> HIDE DEF mark
  <2>. QED BY <2>1 DEF Good
<1> HIDE DEF mark
<1>5. /\ \A k \in DOMAIN requests : requests'[k] = mark(requests[k])
      /\ requests' = [k \in DOMAIN requests |-> requests'[k]]
  BY <1>3
<1>6. requests' \in Seq(Good')
  BY <1>1, <1>4, <1>5, ChangeKeeps
<1>7. /\ \A k : Has(requests, OfKind(k)) => Has(requests', OfKind(k))
      /\ \A v : Has(requests, Fresh(v)) => Has(requests', Fresh(v))
  BY <1>1, <1>4, <1>5 DEF Has, OfKind, Fresh
<1>8. ASSUME NEW p \in Component
      PROVE  IF p \in refreshing THEN Single(requests', By(p)) ELSE Lacks(requests', By(p))
  <2>1. \A k \in DOMAIN requests : requests[k] \in By(p) <=> requests'[k] \in By(p)
    BY <1>1, <1>4, <1>5 DEF By
  <2>. QED BY <1>1, <2>1, <1>5 DEF Sound, Single, Lacks
<1>9. Sound(requests, refreshing)'
  BY <1>2, <1>6, <1>8 DEF Sound, Single, Lacks, By, view
<1>10. requests' \in Seq(Request)
  BY <1>6 DEF Good
<1>11. TypeOK'
  <2>1. jobs' \in Seq(Job) /\ account' \in Account \cup {None}
    BY <1>1, <1>2, JobsTyped DEF Job
  <2>. QED BY <1>1, <1>2, <1>10, <2>1 DEF TypeOK, view, history
<1>12. Bounds'
  BY <1>1, <1>2 DEF WebIInv, Bounds, history
<1>13. EventsInv' /\ ShownInv'
  BY <1>2 DEF WebIInv, EventsInv, ShownInv
<1>14. ListsInv'
  BY <1>2, <1>7, KeptHas DEF WebIInv, ListsInv, view, history
<1>15. OneByOne'
  BY WriteOneByOne
<1>. QED BY <1>9, <1>11, <1>12, <1>13, <1>14, <1>15 DEF WebIInv

LEMMA WriteTokenStep ==
    ASSUME WebIInv, NEW i \in DOMAIN jobs, Write(i, "token")
    PROVE  WebIInv'
<1>1. /\ TypeOK /\ token' = (jobs[i].account # None) /\ jobs' = [jobs EXCEPT ![i].todo = @ \ {"token"}]
      /\ UNCHANGED <<account, untold, requests>>
      /\ UNCHANGED <<mixed, lists, subs, socket, events, phase, oneTeam, view, history, steps, faults>>
  BY DEF Write, WebIInv
<1>2. jobs' \in Seq(Job) /\ token' \in BOOLEAN
  BY <1>1, JobsTyped
<1>3. /\ mixed' \in BOOLEAN /\ steps' \in 0 .. MaxSteps /\ faults' \in 0 .. MaxFaults
      /\ steps' >= steps
  BY <1>1, WebTypes DEF TypeOK
<1>4. OneByOne'
  BY WriteOneByOne
<1>. QED BY <1>1, <1>2, <1>3, <1>4, JobStep

\* The event about the connection says what is so, or something has come in between.
LEMMA AnnounceStep ==
    ASSUME WebIInv, NEW i \in DOMAIN jobs, Announce(i)
    PROVE  WebIInv'
<1> DEFINE kind == IF jobs[i].account = None THEN "disconnect" ELSE "connect"
<1>1. /\ TypeOK /\ EventsInv /\ jobs[i].todo = {}
      /\ Publish(kind, jobs[i].account, None, 0)
      /\ untold' = (jobs[i].account # account) /\ jobs' = RemoveAt(jobs, i)
      /\ UNCHANGED <<account, token, mixed, lists, subs, socket, requests, phase, oneTeam, view, history,
                     steps, faults>>
  BY DEF Announce, WebIInv
<1>2. kind \in {"connect", "disconnect"}
  OBVIOUS
<1> HIDE DEF kind
<1>3. jobs[i] \in Job /\ jobs' \in Seq(Job) /\ jobs[i].account \in Account \cup {None} /\ 0 \in Version
  <2>1. jobs[i] \in Job /\ RemoveAt(jobs, i) \in Seq(Job)
    BY <1>1, JobsTyped
  <2>. QED BY <1>1, <2>1, ConstantsAssumption DEF Job, Version
<1>4. /\ events' \in Seq(Event)
      /\ \A k \in DOMAIN events' : events'[k].kind = "subs" => events'[k].channel \in Channel
      /\ EventsInv'
      /\ socket => ~ NoneToCome'
  BY <1>1, <1>2, <1>3, PublishKeeps
<1>5. Sound(requests, refreshing)'
  BY <1>1, KeptSound DEF WebIInv, view
<1>6. TypeOK'
  BY <1>1, <1>3, <1>4 DEF TypeOK, view, history
<1>7. Bounds'
  BY <1>1 DEF WebIInv, Bounds, history
<1>8. ShownInv'
  BY <1>1, <1>4 DEF ShownInv, NoneToCome
<1>9. ListsInv'
  BY <1>1, KeptHas DEF WebIInv, ListsInv, view, history
<1>10. OneByOne'
  <2> SUFFICES ASSUME ~ mixed'
               PROVE  jobs' = <<>> /\ ~ untold'
    BY DEF OneByOne
  <2>1. ~ mixed /\ jobs # <<>>
    BY <1>1
  <2>2. PICK job \in Job : jobs = <<job>> /\ ("info" \in job.todo \/ account = job.account)
    BY <2>1 DEF WebIInv, OneByOne
  <2>3. i = 1 /\ jobs[i] = job
    BY <2>2
  <2>4. ~ untold'
    BY <1>1, <2>2, <2>3
  <2>5. RemoveAt(jobs, 1) = <<>>
    BY <2>2 DEF RemoveAt
  <2>. QED BY <1>1, <2>3, <2>4, <2>5
<1>. QED BY <1>4, <1>5, <1>6, <1>7, <1>8, <1>9, <1>10 DEF WebIInv

LEMMA WorkStep ==
    ASSUME WebIInv, Work
    PROVE  WebIInv'
BY WriteInfoStep, WriteTokenStep, AnnounceStep, JobFailsStep DEF Work

\* Other changes at the server.
LEMMA ServerStep ==
    ASSUME WebIInv, ListsChange \/ \E c \in Channel : SubsChange(c)
    PROVE  WebIInv'
<1>1. TypeOK /\ EventsInv /\ 0 \in Version /\ None \in Account \cup {None} /\ None \in Channel \cup {None}
  BY ConstantsAssumption DEF WebIInv, Version
<1> DEFINE Same == /\ Step /\ UNCHANGED connection /\ requests' = requests
                   /\ UNCHANGED <<account, untold, socket, phase, oneTeam, view, history>>
           Counts == /\ lists' \in {lists, lists + 1} /\ subs' \in [Channel -> Nat]
                     /\ \A c \in Channel : subs'[c] \in {subs[c], subs[c] + 1}
           Told == /\ events' \in Seq(Event)
                   /\ \A i \in DOMAIN events' : events'[i].kind = "subs" => events'[i].channel \in Channel
                   /\ EventsInv'
                   /\ socket /\ NoneToCome' => NoneToCome
<1>2. Same /\ Counts
  <2>1. CASE ListsChange
    BY <1>1, <2>1 DEF ListsChange, TypeOK, Version, connection
  <2>2. ASSUME NEW c \in Channel, SubsChange(c)
        PROVE  Same /\ Counts
    BY <1>1, <2>2 DEF SubsChange, TypeOK, Version, connection
  <2>. QED BY <2>1, <2>2
<1>3. Told
  <2>1. CASE events' = events
    BY <1>1, <1>2, <2>1 DEF TypeOK, EventsInv, NoneToCome
  <2>2. CASE Publish("refresh", None, None, 0)
    BY <1>1, <1>2, <2>2, PublishKeeps
  <2>3. ASSUME NEW c \in Channel, SubsChange(c)
        PROVE  Told
    <3>1. Publish("subs", None, c, subs[c] + 1)
      BY <2>3 DEF SubsChange
    <3>2. subs[c] + 1 \in Version
      BY WebTypes, <1>1, <1>2 DEF WebIInv, Bounds, Step, Version
    <3>. QED BY <1>1, <1>2, <3>1, <3>2, PublishKeeps
  <2>. QED BY <2>1, <2>2, <2>3 DEF ListsChange
<1>4. Sound(requests, refreshing)' /\ OneByOne'
  BY <1>2, KeptSound, KeptOneByOne DEF WebIInv, view
<1>5. Bounds'
  BY <1>1, <1>2, WebTypes DEF WebIInv, Bounds, Step, history
<1>6. lists' \in Version /\ subs' \in [Channel -> Version]
  BY <1>1, <1>2, <1>5, WebTypes DEF Bounds, Step, Version
<1>7. TypeOK'
  BY <1>1, <1>2, <1>3, <1>6, StepTyped DEF TypeOK, connection, view, history
<1>8. ShownInv'
  BY <1>2, <1>3, KeptHas DEF WebIInv, ShownInv, NoneToCome, view, history
<1>9. ListsInv'
  BY <1>2, KeptHas DEF WebIInv, ListsInv, view, history
<1>. QED BY <1>3, <1>4, <1>5, <1>7, <1>8, <1>9 DEF WebIInv

\* A request is answered, or fails.
LEMMA AnsweredGood ==
    ASSUME WebIInv, NEW r \in Good, r.at = "sent",
           NEW s, s \in {Answered(r), [r EXCEPT !.at = "failed"]} \/ (r.kind = "connected" /\ s = Misread(r))
    PROVE  /\ s \in Good /\ s \in Request /\ s.kind = r.kind /\ s.by = r.by
           /\ s.at = "served" => s.version \in Nat /\ (s.kind = "lists" => s.version >= due)
<1>1. /\ r \in Request /\ lists \in Version /\ lists \in Nat /\ due \in Nat /\ lists >= due
      /\ account \in Account \cup {None} /\ subs \in [Channel -> Version]
  BY GoodIsRequest, WebTypes DEF WebIInv, TypeOK, Bounds
<1>2. Version \subseteq Nat
  BY ConstantsAssumption DEF Version
<1>3. CASE s = [r EXCEPT !.at = "failed"]
  <2>1. /\ s \in Request /\ s.kind = r.kind /\ s.by = r.by /\ s.channel = r.channel /\ s.at = "failed"
    BY <1>1, <1>3 DEF Request
  <2>. QED BY <2>1 DEF Good
<1>4. CASE s = Answered(r)
  <2>1. CASE r.kind = "connected"
    <3>1. s = [r EXCEPT !.at = "served", !.account = account]
      BY <1>4, <2>1 DEF Answered, Answerable
    <3>2. /\ s \in Request /\ s.kind = r.kind /\ s.by = r.by /\ s.channel = r.channel
          /\ s.version = r.version /\ s.account = account
      BY <1>1, <3>1 DEF Request
    <3>. QED BY <1>2, <2>1, <3>2 DEF Good, Request
  <2>2. CASE ~ Answerable(r)
    <3>1. s = [r EXCEPT !.at = "failed"]
      BY <1>4, <2>2 DEF Answered
    <3>. QED BY <1>3, <3>1
  <2>3. CASE r.kind = "lists" /\ Answerable(r)
    <3>1. s = [r EXCEPT !.at = "served", !.account = account, !.version = lists]
      BY <1>4, <2>3 DEF Answered
    <3>2. /\ s \in Request /\ s.kind = r.kind /\ s.by = r.by
          /\ s.version = lists /\ s.account = account
      BY <1>1, <3>1 DEF Request
    <3>. QED BY <1>1, <1>2, <2>3, <3>2 DEF Good, Answerable
  <2>4. CASE r.kind = "subs" /\ Answerable(r)
    <3>1. s = [r EXCEPT !.at = "served", !.version = subs[r.channel]]
      BY <1>4, <2>4 DEF Answered
    <3>2. subs[r.channel] \in Version
      BY <1>1, <2>4 DEF Good
    <3>3. /\ s \in Request /\ s.kind = r.kind /\ s.by = r.by /\ s.channel = r.channel
          /\ s.version = subs[r.channel]
      BY <1>1, <3>1, <3>2 DEF Request
    <3>. QED BY <1>2, <2>4, <3>2, <3>3 DEF Good
  <2>. QED BY <1>1, <2>1, <2>2, <2>3, <2>4 DEF Request
<1>5. CASE r.kind = "connected" /\ s = Misread(r)
  <2>1. /\ s \in Request /\ s.kind = r.kind /\ s.by = r.by /\ s.channel = r.channel
        /\ s.version = r.version /\ s.clean = FALSE
    BY <1>1, <1>5 DEF Request, Misread
  <2>. QED BY <1>2, <1>5, <2>1 DEF Good, Request
<1>. QED BY <1>3, <1>4, <1>5

LEMMA ServerAnswers ==
    ASSUME WebIInv, NEW i \in DOMAIN requests, requests[i].at = "sent",
           NEW s, \/ s \in {Answered(requests[i]), [requests[i] EXCEPT !.at = "failed"]}
                  \/ requests[i].kind = "connected" /\ s = Misread(requests[i]),
           requests' = [requests EXCEPT ![i] = s],
           steps' = steps, faults' \in 0 .. MaxFaults,
           UNCHANGED <<server, socket, events, phase, oneTeam, view, history>>
    PROVE  WebIInv'
<1>1. /\ TypeOK /\ Sound(requests, refreshing) /\ requests \in Seq(Good)
      /\ \A j \in DOMAIN requests : requests[j] \in Good /\ requests[j] \in Request
  BY GoodIsRequest DEF WebIInv, Sound
<1>2. /\ s \in Good /\ s \in Request /\ s.kind = requests[i].kind /\ s.by = requests[i].by
      /\ s.at = "served" => s.version \in Nat /\ (s.kind = "lists" => s.version >= due)
  BY <1>1, AnsweredGood
<1>3. /\ \A j \in DOMAIN requests : requests'[j] = IF j = i THEN s ELSE requests[j]
      /\ requests' = [j \in DOMAIN requests |-> requests'[j]]
      /\ requests' \in Seq(Good)
  <2>1. /\ \A j \in DOMAIN requests : requests'[j] = IF j = i THEN s ELSE requests[j]
        /\ requests' = [j \in DOMAIN requests |-> requests'[j]]
    BY <1>1
  <2>2. \A j \in DOMAIN requests : requests'[j] \in Good
    BY <1>1, <1>2, <2>1
  <2>. QED BY <1>1, <2>1, <2>2, ChangeKeeps
<1>4. \A k : Has(requests, OfKind(k)) => Has(requests', OfKind(k))
  BY <1>1, <1>2, <1>3 DEF Has, OfKind
<1>5. Has(requests, Fresh(due)) => Has(requests', Fresh(due))
  BY <1>1, <1>2, <1>3 DEF Has, OfKind, Fresh
<1>6. ASSUME NEW p \in Component
      PROVE  IF p \in refreshing THEN Single(requests', By(p)) ELSE Lacks(requests', By(p))
  <2>1. \A j \in DOMAIN requests : requests[j] \in By(p) <=> requests'[j] \in By(p)
    BY <1>1, <1>2, <1>3 DEF By
  <2>. QED BY <1>1, <1>3, <2>1 DEF Sound, Single, Lacks
<1>7. Sound(requests', refreshing')
  BY <1>3, <1>6 DEF Sound, view
<1>8. steps \in Nat
  BY <1>1, WebTypes
<1>9. /\ (Bounds /\ Sound(requests, refreshing) /\ OneByOne /\ EventsInv /\ ShownInv /\ ListsInv)'
      /\ requests' \in Seq(Request)
  <2>1. UNCHANGED <<server, socket, events, phase, shown, held, history>>
    BY DEF view
  <2>2. due' = due /\ steps' \in Nat /\ steps' >= steps
    BY <1>8 DEF history
  <2>. QED BY <1>4, <1>5, <1>7, <2>1, <2>2, ClientStep
<1>10. TypeOK'
  BY <1>1, <1>9 DEF TypeOK, server, connection, view, history
<1>. QED BY <1>9, <1>10 DEF WebIInv

\* The requests that handleReconnect adds.
LEMMA AskAgainSound ==
    ASSUME WebIInv, requests' = AskAgain, UNCHANGED refreshing
    PROVE  /\ Sound(requests', refreshing')
           /\ \A K : Has(requests, K) => Has(requests', K)
           /\ phase = "ready" => Has(requests', OfKind("connected"))
<1> DEFINE r == Asking("connected", "reconnect", None)
<1>1. r \in Good /\ r.by \notin Component /\ r \in OfKind("connected") /\ Sound(requests, refreshing)
  BY AskingGood, AskingIs, GoodIsRequest DEF OfKind, Component, WebIInv
<1>2. requests' = IF phase = "ready" THEN Append(requests, r) ELSE requests
  BY DEF AskAgain
<1> HIDE DEF r
<1>3. CASE phase = "ready"
  BY <1>1, <1>2, <1>3, AskedSound
<1>4. CASE phase # "ready"
  BY <1>1, <1>2, <1>4
<1>. QED BY <1>3, <1>4

LEMMA DropStep ==
    ASSUME WebIInv, Drop
    PROVE  WebIInv'
<1>1. /\ TypeOK /\ Step /\ socket' = FALSE /\ events' = <<>>
      /\ UNCHANGED <<server, requests, phase, oneTeam, view, history>>
  BY DEF WebIInv, Drop
<1>2. TypeOK'
  <2>1. events' \in Seq(Event) /\ DOMAIN events' = {}
    BY <1>1
  <2>. QED BY <1>1, <2>1, StepTyped DEF TypeOK, server, connection, view, history
<1>3. Bounds'
  BY <1>1, WebTypes, StepTyped DEF WebIInv, Bounds, server, connection, history
<1>4. Sound(requests, refreshing)' /\ OneByOne'
  BY <1>1, KeptSound, KeptOneByOne DEF WebIInv, server, connection, view
<1>5. EventsInv' /\ ShownInv'
  BY <1>1 DEF EventsInv, ShownInv
<1>6. ListsInv'
  BY <1>1, KeptHas DEF WebIInv, ListsInv, view, history
<1>. QED BY <1>2, <1>3, <1>4, <1>5, <1>6 DEF WebIInv

LEMMA ReopenStep ==
    ASSUME WebIInv, Reopen
    PROVE  WebIInv'
<1>1. /\ TypeOK /\ ~ socket /\ socket' = TRUE /\ requests' = AskAgain
      /\ UNCHANGED <<server, events, phase, oneTeam, view, history, steps, faults>>
  BY DEF WebIInv, Reopen
<1>2. /\ Sound(requests', refreshing')
      /\ \A K : Has(requests, K) => Has(requests', K)
      /\ phase = "ready" => Has(requests', OfKind("connected"))
  BY <1>1, AskAgainSound DEF view
<1>3. Sound(requests, refreshing)' /\ requests' \in Seq(Request)
  BY <1>1, <1>2, KeptSound DEF server, connection
<1>4. TypeOK' /\ Bounds'
  BY <1>1, <1>3 DEF WebIInv, TypeOK, Bounds, server, connection, view, history
<1>5. EventsInv' /\ OneByOne'
  BY <1>1, KeptOneByOne DEF WebIInv, EventsInv, server, connection
<1>6. ShownInv'
  BY <1>1, <1>2, KeptHas DEF ShownInv
<1>7. ListsInv'
  BY <1>1, <1>2, KeptHas DEF WebIInv, ListsInv, view, history
<1>. QED BY <1>3, <1>4, <1>5, <1>6, <1>7 DEF WebIInv

\* What the user does.
LEMMA UserStep ==
    ASSUME WebIInv, UserAction
    PROVE  WebIInv'
<1> DEFINE Waits == /\ Sound(requests', refreshing') /\ refreshing' \subseteq Component
                    /\ \A k : Has(requests, OfKind(k)) => Has(requests', OfKind(k))
                    /\ Has(requests, Fresh(due)) => Has(requests', Fresh(due))
           Rest == /\ Step /\ channel' \in Channel /\ panel' \in BOOLEAN
                   /\ UNCHANGED <<server, socket, events, phase, oneTeam, shown, held, heldSubs, history>>
<1>1. TypeOK /\ Sound(requests, refreshing)
  BY DEF WebIInv
<1>2. UNCHANGED <<requests, refreshing>> => Waits
  BY <1>1 DEF TypeOK
<1>3. ASSUME NEW p \in Component, NEW c, p = "panel" => c \in Channel, GetData(p, c, requests)
      PROVE  Waits
  <2>1. /\ Sound(requests', refreshing') /\ refreshing' \subseteq Component
        /\ \A K : Has(requests, K) => Has(requests', K)
    BY <1>1, <1>3, GetDataSound
  <2>. QED BY <2>1
<1>4. Waits /\ Rest
  <2>1. CASE Activity
    <3>1. UNCHANGED view /\ requests' = AskAgain
      BY <2>1 DEF Activity
    <3>2. Waits
      BY <1>1, <3>1, AskAgainSound DEF view, TypeOK
    <3>3. Rest
      BY <1>1, <2>1 DEF Activity, view, TypeOK
    <3>. QED BY <3>2, <3>3
  <2>2. CASE RefreshClick
    <3>1. Waits
      BY <1>3, <2>2 DEF RefreshClick, Component
    <3>2. Rest
      BY <1>1, <2>2 DEF RefreshClick, TypeOK
    <3>. QED BY <3>1, <3>2
  <2>3. CASE SwitchChannel
    <3>1. Rest
      BY <1>1, <2>3 DEF SwitchChannel, TypeOK
    <3>2. PICK c \in Channel : IF panel THEN GetData("panel", c, requests) ELSE UNCHANGED <<requests, refreshing>>
      BY <2>3 DEF SwitchChannel
    <3>3. Waits
      BY <1>2, <1>3, <3>2 DEF Component
    <3>. QED BY <3>1, <3>3
  <2>4. CASE OpenPanel
    <3>1. Rest
      BY <1>1, <2>4 DEF OpenPanel, TypeOK
    <3>2. channel \in Channel
      BY <1>1 DEF TypeOK
    <3>3. Waits
      BY <1>2, <1>3, <2>4, <3>2 DEF OpenPanel, Component
    <3>. QED BY <3>1, <3>3
  <2>5. CASE ClosePanel
    <3>1. Rest
      BY <1>1, <2>5 DEF ClosePanel, TypeOK
    <3>2. "panel" \in Component /\ refreshing \subseteq Component
      BY <1>1 DEF Component, TypeOK
    <3>3. requests' = Orphaned(requests, "panel") /\ refreshing' = refreshing \ {"panel"}
      BY <2>5 DEF ClosePanel
    <3>4. Waits
      BY <1>1, <3>2, <3>3, OrphanedSound
    <3>. QED BY <3>1, <3>4
  <2>. QED BY <2>1, <2>2, <2>3, <2>4, <2>5 DEF UserAction
<1>5. /\ (Bounds /\ Sound(requests, refreshing) /\ OneByOne /\ EventsInv /\ ShownInv /\ ListsInv)'
      /\ requests' \in Seq(Request)
  <2>1. steps' \in Nat /\ steps' >= steps
    BY <1>1, <1>4, StepTyped
  <2>. QED BY <1>4, <2>1, ClientStep
<1>6. TypeOK'
  BY <1>1, <1>4, <1>5, StepTyped DEF TypeOK, server, connection, history
<1>. QED BY <1>5, <1>6 DEF WebIInv

\* An event reaches the client.
LEMMA DeliverStep ==
    ASSUME WebIInv, Deliver
    PROVE  WebIInv'
<1> DEFINE e == Head(events)
           Types == /\ refreshing' \subseteq Component /\ shown' \in Account \cup {None}
                    /\ held' = held /\ heldSubs' \in [Channel -> Version]
                    /\ due' \in {due, lists} /\ stale' \in BOOLEAN
           Waits == /\ Sound(requests', refreshing')
                    /\ \A k : Has(requests, OfKind(k)) => Has(requests', OfKind(k))
                    /\ Has(requests, Fresh(due)) \/ due' # due => Has(requests', Fresh(due'))
                    /\ shown' # None => shown # None \/ Has(requests', OfKind("lists"))
           Right == phase = "ready" /\ ~ untold /\ ~ stale' /\ NoneToCome' =>
                       \/ shown' = account
                       \/ NoneToCome /\ shown' = shown /\ stale' = stale
<1>1. /\ TypeOK /\ Sound(requests, refreshing) /\ EventsInv
      /\ lists \in Version /\ due \in Version /\ due \in Nat /\ lists \in Nat /\ lists >= due
  BY WebTypes DEF WebIInv, TypeOK, Bounds
<1>2. /\ events \in Seq(Event) /\ events # <<>> /\ events' = Tail(events)
      /\ UNCHANGED <<server, socket, phase, oneTeam, channel, panel, disturbed, steps, faults>>
  BY <1>1 DEF Deliver, TypeOK
<1>3. /\ events' \in Seq(Event) /\ e = events[1] /\ 1 \in DOMAIN events
      /\ \A i \in DOMAIN events' : i \in Nat /\ i + 1 \in DOMAIN events /\ events'[i] = events[i + 1] /\ i + 1 > 1
      /\ \A i \in DOMAIN events : i = 1 \/ (i - 1 \in DOMAIN events' /\ events'[i - 1] = events[i])
      /\ \A i \in DOMAIN events : i \in Nat
  BY <1>2, TailIs
<1>4. e \in Event /\ (e.kind = "subs" => e.channel \in Channel)
  BY <1>1, <1>2, <1>3 DEF TypeOK
<1>5. socket
  BY <1>1, <1>2 DEF EventsInv
<1>6. EventsInv'
  <2>1. ASSUME ~ untold, NEW i \in DOMAIN events', OfConnection(events'[i]),
               \A j \in DOMAIN events' : j > i => ~ OfConnection(events'[j])
        PROVE  events'[i].account = account
    <3>1. ASSUME NEW j \in DOMAIN events, j > i + 1
          PROVE  ~ OfConnection(events[j])
      <4>1. j - 1 \in DOMAIN events' /\ events'[j - 1] = events[j] /\ j - 1 > i
        BY <1>3, <3>1
      <4>. QED BY <2>1, <4>1
    <3>2. i + 1 \in DOMAIN events /\ events'[i] = events[i + 1]
      BY <1>3
    <3>. QED BY <1>1, <2>1, <3>1, <3>2 DEF EventsInv
  <2>. QED BY <1>2, <1>5, <2>1 DEF EventsInv, server, connection
<1>7. /\ ~ untold /\ NoneToCome' /\ OfConnection(e) => e.account = account
      /\ NoneToCome' /\ ~ OfConnection(e) => NoneToCome
  <2>1. ASSUME NoneToCome'
        PROVE  \A j \in DOMAIN events : j > 1 => ~ OfConnection(events[j])
    BY <1>3, <2>1 DEF NoneToCome
  <2>. QED BY <1>1, <1>3, <2>1 DEF EventsInv, NoneToCome
<1> HIDE DEF e
<1>8. Types /\ Waits /\ Right
  <2>1. CASE phase = "loading"
    <3>1. UNCHANGED <<requests, shown, refreshing, held, heldSubs, due, stale>>
      BY <2>1 DEF Deliver
    <3>. QED BY <1>1, <2>1, <3>1 DEF TypeOK
  <2>2. CASE phase # "loading" /\ e.kind \in {"connect", "disconnect"}
    <3>1. HandleConnect(e)
      BY <2>2 DEF Deliver, e
    <3>2. /\ Show(e.account, requests, <<>>) /\ stale' = FALSE
          /\ UNCHANGED <<held, heldSubs, due>>
      BY <3>1 DEF HandleConnect
    <3>3. /\ Sound(requests', refreshing') /\ refreshing' \subseteq Component /\ shown' = e.account
          /\ \A k : Has(requests, OfKind(k)) => Has(requests', OfKind(k))
          /\ \A v : Has(requests, Fresh(v)) => Has(requests', Fresh(v))
          /\ shown = None /\ e.account # None => Has(requests', OfKind("lists"))
      BY <1>1, <3>2, ShowSound
    <3>4. Types
      BY <1>1, <1>4, <3>2, <3>3 DEF TypeOK, Event
    <3>5. Waits
      BY <3>2, <3>3
    <3>6. Right
      BY <1>7, <2>2, <3>3 DEF OfConnection
    <3>. QED BY <3>4, <3>5, <3>6
  <2>3. CASE phase # "loading" /\ e.kind = "refresh"
    <3>1. HandleRefresh
      BY <2>3 DEF Deliver, e
    <3>2. UNCHANGED <<shown, refreshing, held, heldSubs, stale>>
      BY <3>1 DEF HandleRefresh
    <3>3. Types
      BY <1>1, <3>1 DEF TypeOK, HandleRefresh
    <3>4. Right
      BY <1>7, <2>3, <3>2 DEF OfConnection
    <3>5. Waits
      <4>1. CASE shown = None
        <5>1. UNCHANGED <<requests, due>>
          BY <3>1, <4>1 DEF HandleRefresh
        <5>. QED BY <1>1, <3>2, <5>1
      <4>2. CASE shown # None
        <5> DEFINE r == Asking("lists", "nobody", None)
        <5>1. r \in Good /\ r.by \notin Component /\ \A v : r \in Fresh(v)
          BY AskingGood, AskingIs, GoodIsRequest DEF OfKind, Fresh, Component
        <5>2. requests' = Append(requests, r)
          BY <3>1, <4>2 DEF HandleRefresh
        <5> HIDE DEF r
        <5>3. /\ Sound(requests', refreshing)
              /\ \A K : Has(requests', K) <=> Has(requests, K) \/ r \in K
          BY <1>1, <5>1, <5>2, AskedSound
        <5>. QED BY <3>2, <4>2, <5>1, <5>3
      <4>. QED BY <4>1, <4>2
    <3>. QED BY <3>3, <3>4, <3>5
  <2>4. CASE phase # "loading" /\ e.kind = "subs"
    <3>1. HandleChannelSubscriptionsUpdated(e)
      BY <2>4 DEF Deliver, e
    <3>2. UNCHANGED <<shown, refreshing, held, requests, due, stale>>
      BY <3>1 DEF HandleChannelSubscriptionsUpdated
    <3>3. heldSubs' \in [Channel -> Version]
      BY <1>1, <1>4, <2>4, <3>1 DEF TypeOK, HandleChannelSubscriptionsUpdated, Event
    <3>4. Types
      BY <1>1, <3>2, <3>3 DEF TypeOK
    <3>5. Right
      BY <1>7, <2>4, <3>2 DEF OfConnection
    <3>. QED BY <1>1, <3>2, <3>4, <3>5
  <2>. QED BY <1>4, <2>1, <2>2, <2>3, <2>4 DEF Event
<1>9. Sound(requests, refreshing)' /\ requests' \in Seq(Request)
  BY <1>2, <1>8, KeptSound DEF server, connection
<1>10. \A i \in DOMAIN events' : events'[i].kind = "subs" => events'[i].channel \in Channel
  BY <1>1, <1>3 DEF TypeOK
<1>11. TypeOK'
  BY <1>1, <1>2, <1>3, <1>8, <1>9, <1>10 DEF TypeOK, server, connection
<1>12. Bounds'
  BY <1>1, <1>2, <1>8, WebTypes DEF WebIInv, Bounds, server, connection
<1>13. ShownInv'
  BY <1>2, <1>5, <1>8, KeptHas DEF WebIInv, ShownInv, NoneToCome, server, connection
<1>14. ListsInv'
  BY <1>2, <1>8, KeptHas DEF WebIInv, ListsInv
<1>15. OneByOne'
  BY <1>2, KeptOneByOne DEF WebIInv, server
<1>. QED BY <1>6, <1>9, <1>11, <1>12, <1>13, <1>14, <1>15 DEF WebIInv

\* The answer to a request arrives, and the request is no longer under way.
LEMMA RestSound ==
    ASSUME NEW rs, NEW on, Sound(rs, on), NEW i \in DOMAIN rs
    PROVE  /\ Sound(RemoveAt(rs, i), on \ {rs[i].by})
           /\ \A K : Has(rs, K) /\ rs[i] \notin K => Has(RemoveAt(rs, i), K)
<1>1. rs \in Seq(Good) /\ rs[i] \in Good /\ rs[i] \in Request
  BY GoodIsRequest DEF Sound
<1>2. ASSUME NEW p \in Component
      PROVE  IF p \in on \ {rs[i].by} THEN Single(RemoveAt(rs, i), By(p)) ELSE Lacks(RemoveAt(rs, i), By(p))
  <2>1. rs[i] \in By(p) <=> p = rs[i].by
    BY <1>1 DEF By
  <2>. QED BY <1>1, <2>1, RemoveTakes DEF Sound
<1>. QED BY <1>1, <1>2, RemoveTakes DEF Sound

LEMMA ReceiveStep ==
    ASSUME WebIInv, NEW i \in DOMAIN requests, Receive(i)
    PROVE  WebIInv'
<1> DEFINE r == requests[i]
           rest == RemoveAt(requests, i)
           Types == /\ refreshing' \subseteq Component /\ shown' \in Account \cup {None}
                    /\ held' \in [account : Account \cup {None}, version : Version]
                    /\ heldSubs' \in [Channel -> Version] /\ phase' \in {"loading", "ready"}
                    /\ due' \in {due, lists} /\ stale' \in BOOLEAN /\ disturbed' \in BOOLEAN
           Right == phase' = "ready" /\ ~ untold /\ ~ stale' /\ socket /\ NoneToCome =>
                       shown' = account \/ Has(requests', OfKind("connected"))
           New == ~ disturbed' =>
                     /\ held'.version >= due' \/ Has(requests', Fresh(due'))
                     /\ shown' # None => held'.account # None \/ Has(requests', OfKind("lists"))
<1>1. /\ TypeOK /\ Sound(requests, refreshing) /\ EventsInv /\ ShownInv /\ ListsInv
      /\ lists \in Version /\ due \in Version /\ due \in Nat /\ lists \in Nat /\ lists >= due
      /\ held.version \in Nat
  BY WebTypes DEF WebIInv, TypeOK, Bounds
<1>2. r \in Good /\ r \in Request /\ r.at # "sent" /\ rest \in Seq(Good)
  BY <1>1, GoodIsRequest, RemoveTakes DEF Sound, Receive
<1>3. /\ Sound(rest, refreshing \ {r.by})
      /\ \A K : Has(requests, K) /\ r \notin K => Has(rest, K)
  BY <1>1, RestSound
<1>4. UNCHANGED <<server, socket, events, oneTeam, channel, panel, steps, faults>>
  BY DEF Receive
<1>5. ASSUME r.kind # "lists"
      PROVE  /\ Has(requests, OfKind("lists")) => Has(rest, OfKind("lists"))
             /\ Has(requests, Fresh(due)) => Has(rest, Fresh(due))
  BY <1>3, <1>5 DEF OfKind, Fresh
<1> HIDE DEF r, rest
<1>6. Types /\ Right /\ New /\ Sound(requests', refreshing')
  <2>1. CASE r.kind = "connected"
    <3> DEFINE again == r.at = "served" /\ r.account # None /\ r.by = "reconnect"
               more == IF again THEN <<Asking("lists", "nobody", None)>> ELSE <<>>
    <3>1. ReceiveConnected(r, rest)
      BY <2>1 DEF Receive, r, rest
    <3>2. /\ phase' = "ready" /\ due' = IF again THEN lists ELSE due
          /\ stale' = (r.at = "failed" \/ ~ r.clean)
          /\ UNCHANGED <<held, heldSubs, disturbed>>
      BY <3>1 DEF ReceiveConnected
    <3>3. Sound(rest, refreshing)
      <4>1. r.by \notin Component
        BY <1>2, <2>1 DEF Good, Component
      <4>2. refreshing \ {r.by} = refreshing
        BY <1>1, <4>1 DEF TypeOK
      <4>. QED BY <1>3, <4>2
    <3>4. CASE r.at = "served"
      <4>1. Show(r.account, rest, more)
        BY <3>1, <3>4 DEF ReceiveConnected
      <4>2. again => more # <<>>
        OBVIOUS
      <4> HIDE DEF again
      <4>3. \/ more = <<>>
            \/ more = <<Asking("lists", "nobody", None)>>
        OBVIOUS
      <4> HIDE DEF more
      <4>4. /\ Sound(requests', refreshing') /\ refreshing' \subseteq Component /\ shown' = r.account
            /\ \A k : Has(rest, OfKind(k)) => Has(requests', OfKind(k))
            /\ \A v : Has(rest, Fresh(v)) => Has(requests', Fresh(v))
            /\ more # <<>> => \A v : Has(requests', Fresh(v))
            /\ shown = None /\ r.account # None => Has(requests', OfKind("lists"))
        BY <1>1, <3>3, <4>1, <4>3, ShowSound
      <4>5. Types
        BY <1>1, <1>2, <3>2, <4>4 DEF TypeOK, Request
      <4>6. Right
        BY <1>2, <2>1, <3>2, <3>4, <4>4 DEF Good
      <4>7. New
        BY <1>1, <1>5, <2>1, <3>2, <4>2, <4>4 DEF ListsInv
      <4>. QED BY <4>4, <4>5, <4>6, <4>7
    <3>5. CASE r.at = "failed"
      <4>1. requests' = rest /\ UNCHANGED <<shown, refreshing>> /\ ~ again
        BY <3>1, <3>5 DEF ReceiveConnected
      <4> HIDE DEF again
      <4>2. Types
        BY <1>1, <3>2, <3>5, <4>1 DEF TypeOK
      <4>3. Right
        BY <3>2, <3>5
      <4>4. New
        BY <1>1, <1>5, <2>1, <3>2, <4>1 DEF ListsInv
      <4>. QED BY <3>3, <4>1, <4>2, <4>3, <4>4
    <3>. QED BY <1>2, <3>4, <3>5 DEF Request
  <2>2. CASE r.kind = "lists"
    <3>1. ReceiveLists(r, rest)
      BY <2>2 DEF Receive, r, rest
    <3>2. /\ requests' = rest /\ refreshing' = refreshing \ {r.by}
          /\ held' = IF r.at = "served" THEN [account |-> r.account, version |-> r.version] ELSE held
          /\ disturbed' = (disturbed \/ r.at = "failed" \/ r.version < held.version)
          /\ UNCHANGED <<phase, shown, heldSubs, due, stale>>
      BY <3>1 DEF ReceiveLists, Stops
    <3>3. Types
      BY <1>1, <1>2, <3>2 DEF TypeOK, Request
    <3>4. Right
      <4>1. Has(requests, OfKind("connected")) => Has(rest, OfKind("connected"))
        BY <1>3, <2>2 DEF OfKind
      <4>. QED BY <1>1, <3>2, <4>1 DEF ShownInv, NoneToCome
    <3>5. New
      <4> SUFFICES ASSUME ~ disturbed'
                   PROVE  New
        OBVIOUS
      <4>1. /\ ~ disturbed /\ r.at = "served" /\ r.version >= held.version /\ r.version \in Nat
            /\ held'.account = r.account /\ held'.version = r.version /\ r.account # None
        <5>1. r.version \in Nat
          BY <1>2, ConstantsAssumption DEF Request, Version
        <5>2. ~ disturbed /\ r.at # "failed" /\ ~ (r.version < held.version)
          BY <3>2
        <5>3. r.at = "served"
          BY <1>2, <5>2 DEF Request
        <5>4. r.version >= held.version
          BY <1>1, <5>1, <5>2
        <5>5. r.account # None
          BY <1>2, <2>2, <5>3 DEF Good
        <5>. QED BY <3>2, <5>1, <5>2, <5>3, <5>4, <5>5
      <4>2. held.version >= due \/ r \in Fresh(due) \/ Has(rest, Fresh(due))
        BY <1>1, <1>3, <4>1 DEF ListsInv
      <4>3. r \in Fresh(due) => r.version >= due
        BY <4>1 DEF Fresh
      <4>4. held'.version >= due' \/ Has(requests', Fresh(due'))
        BY <1>1, <3>2, <4>1, <4>2, <4>3
      <4>. QED BY <4>1, <4>4
    <3>. QED BY <1>3, <3>2, <3>3, <3>4, <3>5
  <2>3. CASE r.kind = "subs"
    <3>1. ReceiveSubs(r, rest)
      BY <2>3 DEF Receive, r, rest
    <3>2. /\ requests' = rest /\ refreshing' = refreshing \ {r.by}
          /\ heldSubs' = IF r.at = "served" THEN [heldSubs EXCEPT ![r.channel] = r.version] ELSE heldSubs
          /\ UNCHANGED <<phase, shown, held, due, stale, disturbed>>
      BY <3>1 DEF ReceiveSubs, Stops, history
    <3>3. heldSubs' \in [Channel -> Version]
      BY <1>1, <1>2, <3>2 DEF TypeOK, Request
    <3>4. Types
      BY <1>1, <3>2, <3>3 DEF TypeOK
    <3>5. Right
      <4>1. Has(requests, OfKind("connected")) => Has(rest, OfKind("connected"))
        BY <1>3, <2>3 DEF OfKind
      <4>. QED BY <1>1, <3>2, <4>1 DEF ShownInv, NoneToCome
    <3>6. New
      BY <1>1, <1>5, <2>3, <3>2 DEF ListsInv
    <3>. QED BY <1>3, <3>2, <3>4, <3>5, <3>6
  <2>. QED BY <1>2, <2>1, <2>2, <2>3 DEF Request
<1>7. Sound(requests, refreshing)' /\ requests' \in Seq(Request)
  BY <1>4, <1>6, KeptSound DEF server, connection
<1>8. TypeOK'
  BY <1>1, <1>4, <1>6, <1>7 DEF TypeOK, server, connection
<1>9. Bounds'
  BY <1>1, <1>4, <1>6 DEF WebIInv, Bounds, server, connection
<1>10. EventsInv'
  BY <1>1, <1>4 DEF EventsInv, server, connection
<1>11. ShownInv'
  BY <1>4, <1>6, KeptHas DEF ShownInv, NoneToCome, server, connection
<1>12. ListsInv'
  BY <1>6, KeptHas DEF ListsInv
<1>13. OneByOne'
  BY <1>4, KeptOneByOne DEF WebIInv, server
<1>. QED BY <1>7, <1>8, <1>9, <1>10, <1>11, <1>12, <1>13 DEF WebIInv

-----------------------------------------------------------------------------
(* WebClient: theorems *)

LEMMA WebInitInv ==
    ASSUME Init
    PROVE  WebIInv
<1> DEFINE r == Asking("connected", "start", None)
<1>1. r \in Good /\ r \in Request /\ r.by = "start"
  BY AskingGood, AskingIs, GoodIsRequest
<1>2. /\ requests = <<r>> /\ refreshing = {} /\ events = <<>> /\ socket = TRUE
      /\ phase = "loading" /\ shown = None /\ due = 0 /\ lists = 0 /\ subs = [c \in Channel |-> 1]
      /\ held = [account |-> None, version |-> 0] /\ steps = 0 /\ faults = 0
      /\ jobs = <<>> /\ untold = FALSE /\ mixed = FALSE /\ token = (account # None)
      /\ MaxSteps \in Nat /\ MaxFaults \in Nat
  BY ConstantsAssumption DEF Init
<1> HIDE DEF r
<1>3. /\ requests \in Seq(Good) /\ requests \in Seq(Request)
      /\ \A j \in DOMAIN requests : requests[j] = r
  BY <1>1, <1>2
<1>4. Sound(requests, refreshing)
  BY <1>1, <1>2, <1>3 DEF Sound, Lacks, By, Component
<1>5. 0 \in Version /\ 1 \in Version
  BY <1>2 DEF Version
<1>6. TypeOK
  <2>1. events \in Seq(Event) /\ DOMAIN events = {}
    BY <1>2
  <2>2. /\ subs \in [Channel -> Version]
        /\ held \in [account : Account \cup {None}, version : Version]
        /\ steps \in 0 .. MaxSteps /\ faults \in 0 .. MaxFaults
    BY <1>2, <1>5
  <2>3. /\ account \in Account \cup {None} /\ oneTeam \in BOOLEAN
        /\ channel \in Channel /\ panel \in BOOLEAN /\ refreshing \subseteq Component
        /\ stale \in BOOLEAN /\ disturbed \in BOOLEAN /\ heldSubs \in [Channel -> Version]
    BY <1>5, ConstantsAssumption DEF Init
  <2>4. token \in BOOLEAN /\ jobs \in Seq(Job) /\ untold \in BOOLEAN /\ mixed \in BOOLEAN
    <3>1. token \in BOOLEAN /\ untold \in BOOLEAN /\ mixed \in BOOLEAN
      BY <1>2, Zenon
    <3>2. jobs = <<>>
      BY <1>2
    <3>3. jobs \in Seq(Job)
      BY <3>2
    <3>. QED BY <3>1, <3>3
  <2>. QED BY <1>2, <1>3, <1>5, <2>1, <2>2, <2>3, <2>4 DEF TypeOK
<1>7. Bounds /\ OneByOne /\ EventsInv /\ ShownInv /\ ListsInv
  BY <1>2 DEF Bounds, OneByOne, EventsInv, ShownInv, ListsInv
<1>. QED BY <1>4, <1>6, <1>7 DEF WebIInv

LEMMA WebNextInv ==
    ASSUME WebIInv, [Next]_vars
    PROVE  WebIInv'
<1>1. CASE UNCHANGED vars
  <2>1. /\ UNCHANGED <<server, socket, events, requests, phase, oneTeam, view, history, steps, faults>>
        /\ TypeOK /\ steps \in Nat
    BY <1>1, WebTypes DEF vars, WebIInv
  <2>2. TypeOK'
    BY <2>1 DEF TypeOK, server, connection, view, history
  <2>3. Sound(requests', refreshing') /\ UNCHANGED <<shown, held, due, refreshing>>
    BY <2>1 DEF WebIInv, view, history
  <2>4. (Bounds /\ Sound(requests, refreshing) /\ OneByOne /\ EventsInv /\ ShownInv /\ ListsInv)'
    BY <2>1, <2>3, ClientStep
  <2>. QED BY <2>2, <2>4 DEF WebIInv
<1>2. ASSUME NEW a \in Account, Connect(a)
      PROVE  WebIInv'
  BY <1>2, BeginStep DEF Connect
<1>3. CASE Disconnect
  BY <1>3, BeginStep DEF Disconnect
<1>4. CASE ListsChange \/ \E c \in Channel : SubsChange(c)
  BY <1>4, ServerStep
<1>5. ASSUME NEW i \in DOMAIN requests, Serve(i)
      PROVE  WebIInv'
  <2>1. requests' = [requests EXCEPT ![i] = Answered(requests[i])] /\ requests[i].at = "sent"
    BY <1>5 DEF Serve
  <2>2. UNCHANGED <<server, socket, events, phase, oneTeam, view, history, steps, faults>>
    BY <1>5 DEF Serve
  <2>3. faults' \in 0 .. MaxFaults
    BY <2>2 DEF WebIInv, TypeOK
  <2>. QED BY <2>1, <2>2, <2>3, ServerAnswers
<1>6. ASSUME NEW i \in DOMAIN requests, Fail(i)
      PROVE  WebIInv'
  <2>1. PICK s : /\ requests' = [requests EXCEPT ![i] = s] /\ requests[i].at = "sent"
                 /\ \/ s \in {Answered(requests[i]), [requests[i] EXCEPT !.at = "failed"]}
                    \/ requests[i].kind = "connected" /\ s = Misread(requests[i])
    <3>1. CASE requests' = [requests EXCEPT ![i].at = "failed"]
      <4>1. requests' = [requests EXCEPT ![i] = [requests[i] EXCEPT !.at = "failed"]]
        BY <3>1
      <4>. QED BY <1>6, <4>1 DEF Fail
    <3>2. CASE requests[i].kind = "connected" /\ requests' = [requests EXCEPT ![i] = Misread(@)]
      BY <1>6, <3>2 DEF Fail
    <3>. QED BY <1>6, <3>1, <3>2 DEF Fail
  <2>2. UNCHANGED <<server, socket, events, phase, oneTeam, view, history, steps>>
    BY <1>6 DEF Fail
  <2>3. faults' \in 0 .. MaxFaults
    BY <1>6, WebTypes DEF Fail, WebIInv, TypeOK
  <2>. QED BY <2>1, <2>2, <2>3, ServerAnswers
<1>7. ASSUME NEW i \in DOMAIN requests, Receive(i)
      PROVE  WebIInv'
  BY <1>7, ReceiveStep
<1>8. CASE UserAction
  BY <1>8, UserStep
<1>9. CASE Drop
  BY <1>9, DropStep
<1>10. CASE Reopen
  BY <1>10, ReopenStep
<1>11. CASE Deliver
  BY <1>11, DeliverStep
<1>12. CASE Work
  BY <1>12, WorkStep
<1>. QED BY <1>1, <1>2, <1>3, <1>4, <1>5, <1>6, <1>7, <1>8, <1>9, <1>10, <1>11, <1>12
         DEF Next, Change, Answer

LEMMA WebIInvHolds == Spec => []WebIInv
<1>1. Init => WebIInv
  BY WebInitInv
<1>2. WebIInv /\ [Next]_vars => WebIInv'
  BY WebNextInv
<1>. QED BY <1>1, <1>2, PTL DEF Spec

\* A sequence with one element in K, and one with none, counted.
LEMMA CountOne ==
    ASSUME NEW s, NEW K
    PROVE  /\ Single(s, K) => Cardinality({i \in DOMAIN s : s[i] \in K}) = 1
           /\ Lacks(s, K) => Cardinality({i \in DOMAIN s : s[i] \in K}) = 0
<1>1. ASSUME Single(s, K)
      PROVE  Cardinality({i \in DOMAIN s : s[i] \in K}) = 1
  <2>1. PICK i \in DOMAIN s : \A j \in DOMAIN s : s[j] \in K <=> j = i
    BY <1>1 DEF Single
  <2>2. {j \in DOMAIN s : s[j] \in K} = {i}
    BY <2>1
  <2>. QED BY <2>2, FS_Singleton
<1>2. ASSUME Lacks(s, K)
      PROVE  Cardinality({i \in DOMAIN s : s[i] \in K}) = 0
  <2>1. {j \in DOMAIN s : s[j] \in K} = {}
    BY <1>2 DEF Lacks
  <2>. QED BY <2>1, FS_EmptySet
<1>. QED BY <1>1, <1>2

\* Types, and one request for one refreshing icon: a component neither asks twice nor stops
\* for an answer to somebody else, however requests, unmounting and reconnections
\* interleave (getData of SidebarButtons and RHSSidebar).
THEOREM OneRequestForOneIcon == Spec => []WebInv
<1>1. WebIInv => WebInv
  <2> SUFFICES ASSUME WebIInv
               PROVE  WebInv
    OBVIOUS
  <2>1. ASSUME NEW p \in Component
        PROVE  Cardinality({i \in DOMAIN requests : requests[i].by = p}) = IF p \in refreshing THEN 1 ELSE 0
    <3>1. \A i \in DOMAIN requests : requests[i] \in Request
      BY GoodIsRequest DEF WebIInv, Sound
    <3>2. {i \in DOMAIN requests : requests[i].by = p} = {i \in DOMAIN requests : requests[i] \in By(p)}
      BY <3>1 DEF By
    <3>3. IF p \in refreshing THEN Single(requests, By(p)) ELSE Lacks(requests, By(p))
      BY DEF WebIInv, Sound
    <3>4. CASE p \in refreshing
      <4>1. Cardinality({i \in DOMAIN requests : requests[i] \in By(p)}) = 1
        BY <3>3, <3>4, CountOne
      <4>. QED BY <3>2, <3>4, <4>1
    <3>5. CASE p \notin refreshing
      <4>1. Cardinality({i \in DOMAIN requests : requests[i] \in By(p)}) = 0
        BY <3>3, <3>5, CountOne
      <4>. QED BY <3>2, <3>5, <4>1
    <3>. QED BY <3>4, <3>5
  <2>2. TypeOK
    BY DEF WebIInv
  <2>. QED BY <2>1, <2>2 DEF WebInv, OneRequestEach
<1>. QED BY <1>1, WebIInvHolds, PTL

\* When nothing is under way, the client shows the account that the user is connected to,
\* whatever events a closed socket has lost and however the steps of connections and
\* disconnections interleave and fail, if the last event about the connection says what the
\* store holds, which it does after operations that come one by one and whole; unless the
\* last the client heard was a failure or an outdated answer (handleConnect,
\* handleReconnect).
THEOREM ConnectionIsShown == Spec => []ConnectionSettles
<1>1. WebIInv => ConnectionSettles
  <2> SUFFICES ASSUME WebIInv, Quiet, Announced, ~ stale
               PROVE  shown = account
    BY DEF ConnectionSettles
  <2>1. ~ untold
    BY DEF Announced, WebIInv, OneByOne
  <2>2. ~ Has(requests, OfKind("connected")) /\ \A i \in DOMAIN events : ~ OfConnection(events[i])
    BY DEF Quiet, Has
  <2>. QED BY <2>1, <2>2 DEF WebIInv, ShownInv, Quiet
<1>. QED BY <1>1, WebIInvHolds, PTL

\* When nothing is under way, the lists are as new as the last refresh event or
\* reconnection, unless a request for them failed or was overtaken (handleRefresh).
THEOREM RefreshIsShown == Spec => []RefreshIsSeen
<1>1. WebIInv => RefreshIsSeen
  BY DEF WebIInv, ListsInv, RefreshIsSeen, Quiet, Has
<1>. QED BY <1>1, WebIInvHolds, PTL

-----------------------------------------------------------------------------
(* RightPanel *)

\* The last request for the details of a list asks for those of the items.
LastAsks(l, rs, items) ==
    \E i \in DOMAIN rs : /\ rs[i] = [list |-> l, items |-> items]
                         /\ \A j \in DOMAIN rs : rs[j].list = l => j <= i

\* The details of a list are those of the items, or will be with the last of the answers.
WillFit(l, rs, ds, items) ==
    IF Pending(l, rs) THEN LastAsks(l, rs, items) ELSE ds = DetailsOf(items)

\* What a mounted panel remembers is the lists of its last render.
Remembered == prev = [l \in List |-> IF Mounted THEN prLists[l] ELSE None]

\* No answer gives a commit a status that is not its own.
Honest == \A l \in List : \A i \in DOMAIN details[l] : details[l][i].status = CI[details[l][i].sha]

\* The list that is shown without a gap has its details, or they are under way.
Latest == \A l \in Displayed : ~ gap /\ ~ unsettled[l] => WillFit(l, requested, details[l], prLists[l])

PanelIInv == PanelTypeOK /\ Remembered /\ Honest /\ Latest

LEMMA MinIsIn ==
    ASSUME NEW S \in SUBSET Nat, S # {}
    PROVE  Min(S) \in S
<1>1. PICK x \in S : \A y \in S : ~ (<<y, x>> \in OpToRel(<, Nat))
  BY NatLessThanWellFounded, WFMin, Zenon
<1>2. ASSUME NEW y \in S
      PROVE  x <= y
  <2>1. CASE y < x
    <3>1. <<y, x>> \in OpToRel(<, Nat)
      BY <2>1 DEF OpToRel
    <3>. QED BY <1>1, <3>1
  <2>. QED BY <2>1
<1>. QED BY <1>2 DEF Min

LEMMA ItemListIs ==
    ASSUME NEW items \in ItemList
    PROVE  /\ items \in Seq(Item) /\ DOMAIN items \subseteq 1 .. 2 /\ DOMAIN items = 1 .. Len(items)
           /\ \A i \in DOMAIN items : items[i] \in Item
<1>1. PICK m \in 0 .. 2 : items \in [1 .. m -> Item]
  BY DEF ItemList, SeqOf
<1>2. items \in Seq(Item)
  BY <1>1, SeqDef
<1>. QED BY <1>1, <1>2

LEMMA DetailsOfIs ==
    ASSUME NEW items \in ItemList
    PROVE  LET ds == DetailsOf(items) IN
           /\ ds \in Seq(Detail) /\ DOMAIN ds = DOMAIN items
           /\ \A i \in DOMAIN items : ds[i].id = items[i].id /\ ds[i].sha = items[i].sha
                                      /\ ds[i].status = CI[items[i].sha]
<1>1. /\ items \in Seq(Item) /\ DOMAIN items = 1 .. Len(items)
      /\ \A i \in DOMAIN items : items[i] \in Item
  BY ItemListIs
<1>2. \A i \in DOMAIN items : [id |-> items[i].id, sha |-> items[i].sha, status |-> CI[items[i].sha]] \in Detail
  BY <1>1, PanelAssumption DEF Item, Detail
<1>3. DetailsOf(items) \in [1 .. Len(items) -> Detail] /\ Len(items) \in Nat
  BY <1>1, <1>2 DEF DetailsOf
<1>4. DetailsOf(items) \in Seq(Detail)
  BY <1>3, SeqDef
<1>. QED BY <1>1, <1>4 DEF DetailsOf

\* One more request.
LEMMA OneMoreAsks ==
    ASSUME NEW rs \in Seq(Enquiry), NEW l \in List, NEW items \in ItemList
    PROVE  LET t == Append(rs, [list |-> l, items |-> items]) IN
           /\ t \in Seq(Enquiry) /\ Pending(l, t) /\ LastAsks(l, t, items)
           /\ \A k \in List \ {l} : /\ Pending(k, t) <=> Pending(k, rs)
                                    /\ \A it : LastAsks(k, rs, it) => LastAsks(k, t, it)
<1> DEFINE r == [list |-> l, items |-> items]
           t == Append(rs, r)
<1>1. r \in Enquiry /\ r.list = l
  BY DEF Enquiry
<1>2. /\ t \in Seq(Enquiry) /\ Len(rs) + 1 \in DOMAIN t /\ t[Len(rs) + 1] = r
      /\ \A i \in DOMAIN rs : i \in DOMAIN t /\ t[i] = rs[i] /\ Len(rs) + 1 > i
      /\ \A i \in DOMAIN t : i \in DOMAIN rs \/ i = Len(rs) + 1
      /\ Len(rs) \in Nat /\ \A i \in DOMAIN rs : i \in Nat
  BY <1>1, AppendIs
<1> HIDE DEF t
<1>3. Pending(l, t)
  BY <1>1, <1>2 DEF Pending
<1>4. LastAsks(l, t, items)
  BY <1>2 DEF LastAsks
<1>5. ASSUME NEW k \in List \ {l}
      PROVE  /\ Pending(k, t) <=> Pending(k, rs)
             /\ \A it : LastAsks(k, rs, it) => LastAsks(k, t, it)
  <2>1. Pending(k, t) <=> Pending(k, rs)
    BY <1>1, <1>2 DEF Pending
  <2>2. ASSUME NEW it, LastAsks(k, rs, it)
        PROVE  LastAsks(k, t, it)
    <3>1. PICK i \in DOMAIN rs : rs[i] = [list |-> k, items |-> it] /\ \A j \in DOMAIN rs : rs[j].list = k => j <= i
      BY <2>2 DEF LastAsks
    <3> HIDE DEF r
    <3>2. \A j \in DOMAIN t : t[j].list = k => j <= i
      BY <1>1, <1>2, <3>1
    <3>. QED BY <1>2, <3>1, <3>2 DEF LastAsks
  <2>. QED BY <2>1, <2>2
<1>. QED BY <1>2, <1>3, <1>4, <1>5 DEF t

\* The requests of a render.
LEMMA RenderAsks ==
    ASSUME NEW rest \in Seq(Enquiry), NEW failed, prLists' \in [List -> ItemList], Render(rest, failed)
    PROVE  /\ requested' \in Seq(Enquiry)
           /\ \A l \in List :
                 IF Asks(l)
                 THEN Pending(l, requested') /\ LastAsks(l, requested', prLists'[l])
                 ELSE /\ Pending(l, requested') <=> Pending(l, rest)
                      /\ \A it : LastAsks(l, rest, it) => LastAsks(l, requested', it)
<1> DEFINE x == [list |-> "pullRequests", items |-> prLists'["pullRequests"]]
           y == [list |-> "reviews", items |-> prLists'["reviews"]]
           t == IF Asks("pullRequests") THEN Append(rest, x) ELSE rest
           s == IF Asks("reviews") THEN Append(t, y) ELSE t
<1>1. List = {"pullRequests", "reviews"} /\ x \in Enquiry /\ y \in Enquiry
  BY DEF List, Enquiry
<1>2. requested' = s
  <2>1. requested' = (rest \o (IF Asks("pullRequests") THEN <<x>> ELSE <<>>)) \o (IF Asks("reviews") THEN <<y>> ELSE <<>>)
    BY DEF Render
  <2>2. \A q \in Seq(Enquiry), e \in Enquiry : q \o <<e>> = Append(q, e) /\ Append(q, e) \in Seq(Enquiry)
    OBVIOUS
  <2>3. \A q \in Seq(Enquiry) : q \o <<>> = q
    OBVIOUS
  <2> HIDE DEF x, y
  <2>4. rest \o (IF Asks("pullRequests") THEN <<x>> ELSE <<>>) = t /\ t \in Seq(Enquiry)
    BY <1>1, <2>2, <2>3
  <2> HIDE DEF t
  <2>. QED BY <1>1, <2>1, <2>2, <2>3, <2>4
<1>3. /\ t \in Seq(Enquiry)
      /\ IF Asks("pullRequests")
         THEN Pending("pullRequests", t) /\ LastAsks("pullRequests", t, prLists'["pullRequests"])
         ELSE t = rest
      /\ Pending("reviews", t) <=> Pending("reviews", rest)
      /\ \A it : LastAsks("reviews", rest, it) => LastAsks("reviews", t, it)
  <2>1. CASE Asks("pullRequests")
    BY <1>1, <2>1, OneMoreAsks
  <2>2. CASE ~ Asks("pullRequests")
    BY <2>2
  <2>. QED BY <2>1, <2>2
<1> HIDE DEF t
<1>4. /\ s \in Seq(Enquiry)
      /\ IF Asks("reviews")
         THEN Pending("reviews", s) /\ LastAsks("reviews", s, prLists'["reviews"])
         ELSE s = t
      /\ Pending("pullRequests", s) <=> Pending("pullRequests", t)
      /\ \A it : LastAsks("pullRequests", t, it) => LastAsks("pullRequests", s, it)
  <2>1. CASE Asks("reviews")
    BY <1>1, <1>3, <2>1, OneMoreAsks
  <2>2. CASE ~ Asks("reviews")
    BY <1>3, <2>2
  <2>. QED BY <2>1, <2>2
<1> HIDE DEF s
<1>5. ASSUME NEW l \in List
      PROVE  IF Asks(l)
             THEN Pending(l, requested') /\ LastAsks(l, requested', prLists'[l])
             ELSE /\ Pending(l, requested') <=> Pending(l, rest)
                  /\ \A it : LastAsks(l, rest, it) => LastAsks(l, requested', it)
  <2>1. CASE l = "pullRequests"
    BY <1>2, <1>3, <1>4, <2>1
  <2>2. CASE l = "reviews"
    BY <1>2, <1>3, <1>4, <2>2
  <2>. QED BY <1>1, <2>1, <2>2
<1>. QED BY <1>2, <1>4, <1>5

\* A render after the requests have become rest, and the details of the lists that did not
\* fail fit what they fitted before.
LEMMA RenderKeeps ==
    ASSUME PanelIInv, NEW rest \in Seq(Enquiry), NEW failed, Render(rest, failed),
           open' \in BOOLEAN, rhsView' \in {"subscriptions", "sidebar_right"},
           state' \in RHSStates \cup {None}, window' \in {"main", "popout"}, told' \in BOOLEAN,
           prLists' \in [List -> ItemList], details' \in [List -> Seq(Detail)], Honest',
           \A l \in List \ failed : \A items \in ItemList :
               WillFit(l, requested, details[l], items) => WillFit(l, rest, details'[l], items)
    PROVE  PanelIInv'
<1>1. /\ PanelTypeOK /\ Remembered /\ Latest
      /\ prLists \in [List -> ItemList] /\ gap \in BOOLEAN /\ unsettled \in [List -> BOOLEAN]
  BY DEF PanelIInv, PanelTypeOK
<1>2. /\ requested' \in Seq(Enquiry)
      /\ \A l \in List :
            IF Asks(l)
            THEN Pending(l, requested') /\ LastAsks(l, requested', prLists'[l])
            ELSE /\ Pending(l, requested') <=> Pending(l, rest)
                 /\ \A it : LastAsks(l, rest, it) => LastAsks(l, requested', it)
  BY RenderAsks
<1>3. prev' = [l \in List |-> IF Mounted' THEN prLists'[l] ELSE None]
  BY DEF Render
<1>4. Remembered'
  BY <1>3 DEF Remembered
<1>5. /\ unsettled' = [l \in List |-> (unsettled[l] \/ l \in failed) /\ ~(Asks(l) /\ ~Pending(l, rest))]
      /\ unsettled' \in [List -> BOOLEAN]
  <2>1. unsettled' = [l \in List |-> (unsettled[l] \/ l \in failed) /\ ~(Asks(l) /\ ~Pending(l, rest))]
    BY DEF Render
  <2>. QED BY <2>1
<1>6. /\ gap' \in BOOLEAN
      /\ Mounted /\ Mounted' /\ ~ gap' =>
            /\ ~ gap /\ state' = state
            /\ \A l \in List, i, j \in 1 .. 2 :
                  i \in DOMAIN prLists[l] /\ j \in DOMAIN prLists'[l] /\ prLists[l][i].id = prLists'[l][j].id
                     => prLists[l][i].sha = prLists'[l][j].sha
  <2> DEFINE pushed == \E l \in List, i, j \in 1 .. 2 :
                          /\ i \in DOMAIN prLists[l] /\ j \in DOMAIN prLists'[l]
                          /\ prLists[l][i].id = prLists'[l][j].id /\ prLists[l][i].sha # prLists'[l][j].sha
  <2>1. gap' = IF Mounted' /\ Mounted THEN gap \/ state' # state \/ pushed ELSE FALSE
    BY DEF Render
  <2>2. CASE Mounted' /\ Mounted
    <3>1. gap' = (gap \/ state' # state \/ pushed)
      BY <2>1, <2>2
    <3>. QED BY <1>1, <3>1, Zenon
  <2>3. CASE ~ (Mounted' /\ Mounted)
    BY <2>1, <2>3
  <2>. QED BY <2>2, <2>3
<1>7. ASSUME NEW l \in Displayed', ~ gap', ~ unsettled'[l]
      PROVE  WillFit(l, requested', details'[l], prLists'[l])
  <2>1. l \in List /\ Mounted' /\ l = state'
    BY <1>7 DEF Displayed
  <2>2. CASE Asks(l)
    BY <1>2, <2>1, <2>2 DEF WillFit
  <2>3. CASE ~ Asks(l)
    <3>1. ~ unsettled[l] /\ l \notin failed
      BY <1>5, <1>7, <2>1, <2>3, Zenon
    <3>2. prev[l] # None /\ ~ Differs(prLists'[l], prev[l])
      BY <2>1, <2>3 DEF Asks
    <3>3. Mounted /\ prev[l] = prLists[l]
      BY <1>1, <2>1, <3>2 DEF Remembered
    <3>4. /\ ~ gap /\ state' = state
          /\ \A i, j \in 1 .. 2 :
                i \in DOMAIN prLists[l] /\ j \in DOMAIN prLists'[l] /\ prLists[l][i].id = prLists'[l][j].id
                   => prLists[l][i].sha = prLists'[l][j].sha
      BY <1>6, <1>7, <2>1, <3>3
    <3>5. l \in Displayed
      BY <2>1, <3>3, <3>4 DEF Displayed
    <3>6. prLists'[l] = prLists[l]
      <4> DEFINE new == prLists'[l]
                 old == prLists[l]
      <4>1. /\ new \in ItemList /\ old \in ItemList
        BY <1>1, <2>1
      <4>2. /\ new \in Seq(Item) /\ old \in Seq(Item)
            /\ DOMAIN new = 1 .. Len(new) /\ DOMAIN old = 1 .. Len(old)
            /\ DOMAIN new \subseteq 1 .. 2 /\ DOMAIN old \subseteq 1 .. 2
            /\ \A i \in DOMAIN new : new[i] \in Item
            /\ \A i \in DOMAIN old : old[i] \in Item
        BY <4>1, ItemListIs
      <4>3. Len(new) = Len(old) /\ \A i \in DOMAIN new : new[i].id = old[i].id
        BY <3>2, <3>3 DEF Differs
      <4>4. \A i \in DOMAIN new : new[i].sha = old[i].sha
        BY <3>4, <4>2, <4>3
      <4> HIDE DEF new, old
      <4>5. \A i \in DOMAIN new : new[i] = old[i]
        BY <4>2, <4>3, <4>4 DEF Item
      <4>6. new = old
        BY <4>2, <4>3, <4>5
      <4>. QED BY <4>6 DEF new, old
    <3>7. WillFit(l, requested, details[l], prLists[l])
      BY <1>1, <3>1, <3>4, <3>5 DEF Latest
    <3>8. WillFit(l, rest, details'[l], prLists'[l])
      BY <1>1, <2>1, <3>1, <3>6, <3>7
    <3>. QED BY <1>2, <2>1, <2>3, <3>8 DEF WillFit
  <2>. QED BY <2>2, <2>3
<1>8. Latest'
  <2>1. \A l : WillFit(l, requested, details[l], prLists[l])' <=> WillFit(l, requested', details'[l], prLists'[l])
    BY DEF WillFit, Pending, LastAsks, DetailsOf
  <2>. QED BY <1>7, <2>1 DEF Latest
<1>9. prev' \in [List -> ItemList \cup {None}]
  BY <1>3
<1>10. PanelTypeOK'
  BY <1>1, <1>2, <1>5, <1>6, <1>9 DEF PanelTypeOK
<1>. QED BY <1>4, <1>8, <1>10 DEF PanelIInv

\* Requests without one of them.
LEMMA AnswerTakes ==
    ASSUME NEW rs \in Seq(Enquiry), NEW i \in DOMAIN rs, NEW l \in List
    PROVE  LET t == RemoveAt(rs, i) IN
           /\ t \in Seq(Enquiry)
           /\ rs[i].list # l => /\ Pending(l, t) <=> Pending(l, rs)
                                /\ \A it : LastAsks(l, rs, it) => LastAsks(l, t, it)
           /\ (rs[i].list = l /\ \A j \in 1 .. i - 1 : rs[j].list # l) =>
                 \A it : LastAsks(l, rs, it) => IF Pending(l, t) THEN LastAsks(l, t, it) ELSE rs[i].items = it
<1> DEFINE t == RemoveAt(rs, i)
           new(k) == IF k < i THEN k ELSE k - 1
           old(j) == IF j < i THEN j ELSE j + 1
<1>1. i \in 1 .. Len(rs) /\ DOMAIN rs = 1 .. Len(rs) /\ Len(rs) \in Nat
  OBVIOUS
<1>2. /\ t \in Seq(Enquiry) /\ Len(t) = Len(rs) - 1
      /\ \A j \in 1 .. Len(rs) - 1 : t[j] = IF j < i THEN rs[j] ELSE rs[j + 1]
  BY <1>1, RemoveAtElements
<1> HIDE DEF t
<1>3. DOMAIN t = 1 .. Len(rs) - 1
  BY <1>2
<1>4. \A j \in DOMAIN t : old(j) \in DOMAIN rs /\ old(j) # i /\ t[j] = rs[old(j)] /\ new(old(j)) = j
  BY <1>1, <1>2, <1>3
<1>5. \A k \in DOMAIN rs \ {i} : new(k) \in DOMAIN t /\ old(new(k)) = k
  BY <1>1, <1>3
<1>6. \A j, k \in DOMAIN rs : j <= k => new(j) <= new(k)
  BY <1>1
<1> HIDE DEF old, new
<1>7. ASSUME NEW it, NEW k \in DOMAIN rs, k # i, rs[k] = [list |-> l, items |-> it],
             \A j \in DOMAIN rs : rs[j].list = l => j <= k
      PROVE  LastAsks(l, t, it)
  <2>1. new(k) \in DOMAIN t /\ t[new(k)] = [list |-> l, items |-> it]
    BY <1>4, <1>5, <1>7
  <2>2. ASSUME NEW j \in DOMAIN t, t[j].list = l
        PROVE  j <= new(k)
    <3>1. old(j) \in DOMAIN rs /\ rs[old(j)].list = l /\ new(old(j)) = j
      BY <1>4, <2>2
    <3>2. old(j) <= k
      BY <1>7, <3>1
    <3>. QED BY <1>6, <3>1, <3>2
  <2>. QED BY <2>1, <2>2 DEF LastAsks
<1>8. ASSUME rs[i].list # l
      PROVE  /\ Pending(l, t) <=> Pending(l, rs)
             /\ \A it : LastAsks(l, rs, it) => LastAsks(l, t, it)
  <2>1. Pending(l, t) <=> Pending(l, rs)
    BY <1>4, <1>5, <1>8 DEF Pending
  <2>2. ASSUME NEW it, LastAsks(l, rs, it)
        PROVE  LastAsks(l, t, it)
    BY <1>7, <1>8, <2>2 DEF LastAsks
  <2>. QED BY <2>1, <2>2
<1>9. ASSUME rs[i].list = l, \A j \in 1 .. i - 1 : rs[j].list # l, NEW it, LastAsks(l, rs, it)
      PROVE  IF Pending(l, t) THEN LastAsks(l, t, it) ELSE rs[i].items = it
  <2>1. PICK k \in DOMAIN rs : rs[k] = [list |-> l, items |-> it] /\ \A j \in DOMAIN rs : rs[j].list = l => j <= k
    BY <1>9 DEF LastAsks
  <2>2. CASE k # i
    <3>1. new(k) \in DOMAIN t /\ t[new(k)].list = l
      BY <1>4, <1>5, <2>1, <2>2
    <3>. QED BY <1>7, <2>1, <2>2, <3>1 DEF Pending
  <2>3. CASE k = i
    <3>1. \A j \in DOMAIN rs \ {i} : rs[j].list # l
      BY <1>1, <1>9, <2>1, <2>3
    <3>2. ~ Pending(l, t)
      BY <1>4, <3>1 DEF Pending
    <3>. QED BY <2>1, <2>3, <3>2
  <2>. QED BY <2>2, <2>3
<1>. QED BY <1>2, <1>8, <1>9 DEF t

\* What the user does, and a list that arrives, leave the requests alone.
LEMMA AloneKeeps ==
    ASSUME PanelIInv, Render(requested, {}), UNCHANGED details,
           open' \in BOOLEAN, rhsView' \in {"subscriptions", "sidebar_right"},
           state' \in RHSStates \cup {None}, window' \in {"main", "popout"}, told' \in BOOLEAN,
           prLists' \in [List -> ItemList]
    PROVE  PanelIInv'
<1>1. requested \in Seq(Enquiry) /\ details \in [List -> Seq(Detail)]
  BY DEF PanelIInv, PanelTypeOK
<1>2. Honest'
  BY DEF PanelIInv, Honest
<1>3. \A l \in List \ {} : \A items \in ItemList :
          WillFit(l, requested, details[l], items) => WillFit(l, requested, details'[l], items)
  OBVIOUS
<1>. QED BY <1>1, <1>2, <1>3, RenderKeeps

\* An answer arrives: its details replace those of the list, or it has none.
LEMMA AnswerKeeps ==
    ASSUME PanelIInv, NEW i \in DOMAIN requested, NEW ds \in Seq(Detail),
           \A j \in DOMAIN ds : ds[j].status = CI[ds[j].sha],
           details' \in {details, [details EXCEPT ![requested[i].list] = ds]},
           UNCHANGED <<display, prLists>>, NEW failed, Render(RemoveAt(requested, i), failed),
           requested[i].list \notin failed =>
               /\ details'[requested[i].list] = DetailsOf(requested[i].items)
               /\ \A j \in 1 .. i - 1 : requested[j].list # requested[i].list
    PROVE  PanelIInv'
<1> DEFINE l == requested[i].list
           rest == RemoveAt(requested, i)
<1>1. /\ requested \in Seq(Enquiry) /\ requested[i] \in Enquiry /\ l \in List
      /\ details \in [List -> Seq(Detail)] /\ Honest
  <2>1. requested \in Seq(Enquiry) /\ details \in [List -> Seq(Detail)] /\ Honest
    BY DEF PanelIInv, PanelTypeOK
  <2>2. requested[i] \in Enquiry
    BY <2>1
  <2>. QED BY <2>1, <2>2 DEF Enquiry
<1>2. /\ rest \in Seq(Enquiry)
      /\ \A k \in List \ {l} : /\ Pending(k, rest) <=> Pending(k, requested)
                               /\ \A it : LastAsks(k, requested, it) => LastAsks(k, rest, it)
  BY <1>1, AnswerTakes
<1>3. l \notin failed =>
          \A it : LastAsks(l, requested, it) =>
                     IF Pending(l, rest) THEN LastAsks(l, rest, it) ELSE requested[i].items = it
  BY <1>1, AnswerTakes
<1>4. Pending(l, requested)
  BY DEF Pending
<1>5. /\ details' \in [List -> Seq(Detail)]
      /\ \A k \in List : details'[k] = details[k] \/ (k = l /\ details'[k] = ds)
  BY <1>1
<1>6. Honest'
  BY <1>1, <1>5 DEF Honest
<1> HIDE DEF rest
<1>7. ASSUME NEW k \in List \ failed, NEW items \in ItemList, WillFit(k, requested, details[k], items)
      PROVE  WillFit(k, rest, details'[k], items)
  <2>1. CASE k = l
    <3>1. LastAsks(l, requested, items) /\ details'[l] = DetailsOf(requested[i].items)
      BY <1>4, <1>7, <2>1 DEF WillFit
    <3>2. IF Pending(l, rest) THEN LastAsks(l, rest, items) ELSE requested[i].items = items
      BY <1>3, <1>7, <2>1, <3>1
    <3>. QED BY <2>1, <3>1, <3>2 DEF WillFit
  <2>2. CASE k # l
    <3>1. details'[k] = details[k]
      BY <1>5, <2>2
    <3>. QED BY <1>2, <1>7, <2>2, <3>1 DEF WillFit
  <2>. QED BY <2>1, <2>2
<1>8. /\ open' \in BOOLEAN /\ rhsView' \in {"subscriptions", "sidebar_right"}
      /\ state' \in RHSStates \cup {None} /\ window' \in {"main", "popout"} /\ told' \in BOOLEAN
      /\ prLists' \in [List -> ItemList]
  BY DEF PanelIInv, PanelTypeOK, display
<1>9. Render(rest, failed)
  BY DEF rest
<1>. QED BY <1>2, <1>5, <1>6, <1>7, <1>8, <1>9, RenderKeeps

LEMMA PanelInitInv ==
    ASSUME PanelInit
    PROVE  PanelIInv
<1>1. /\ <<>> \in Seq(Detail) /\ <<>> \in Seq(Enquiry) /\ \A i \in DOMAIN <<>> : FALSE
  OBVIOUS
<1>2. <<>> \in ItemList
  <2>1. <<>> \in [1 .. 0 -> Item]
    OBVIOUS
  <2>2. <<>> \in SeqOf(Item, 2)
    BY <2>1 DEF SeqOf
  <2>. QED BY <2>2 DEF ItemList
<1>3. ~ Mounted
  BY DEF PanelInit, Mounted
<1>4. PanelTypeOK
  BY <1>1, <1>2 DEF PanelInit, PanelTypeOK
<1>5. Remembered /\ Latest
  BY <1>3 DEF PanelInit, Remembered, Latest, Displayed
<1>6. Honest
  BY <1>1 DEF PanelInit, Honest
<1>. QED BY <1>4, <1>5, <1>6 DEF PanelIInv

LEMMA PanelNextInv ==
    ASSUME PanelIInv, [PanelNext]_panelVars
    PROVE  PanelIInv'
<1>1. PanelTypeOK
  BY DEF PanelIInv
<1>2. CASE UNCHANGED panelVars
  <2>1. UNCHANGED <<window, told, open, rhsView, state, prLists, details, prev, requested, gap, unsettled>>
    BY <1>2 DEF panelVars, display
  <2>2. PanelTypeOK' /\ Honest' /\ Remembered'
    BY <2>1 DEF PanelIInv, PanelTypeOK, Honest, Remembered, Mounted
  <2>3. Latest'
    BY <2>1 DEF PanelIInv, Latest, Displayed, Mounted, WillFit, Pending, LastAsks, DetailsOf
  <2>. QED BY <2>2, <2>3 DEF PanelIInv
<1>3. CASE Buttons \/ ShowSubscriptionsRHS \/ CloseRHS
  BY <1>1, <1>3, AloneKeeps DEF Buttons, OpenRHS, ShowSubscriptionsRHS, CloseRHS, PanelTypeOK
<1>4. ASSUME NEW v \in {"subscriptions", "sidebar_right"}, NEW s \in RHSStates \cup {None}, PopoutState(v, s)
      PROVE  PanelIInv'
  BY <1>1, <1>4, AloneKeeps DEF PopoutState, PanelTypeOK
<1>5. ASSUME NEW l \in List, NEW items \in ItemList, StoreLists(l, items)
      PROVE  PanelIInv'
  BY <1>1, <1>5, AloneKeeps DEF StoreLists, PanelTypeOK, display
<1>6. ASSUME NEW i \in DOMAIN requested
      PROVE  AllDetails(i) \/ SomeDetails(i) \/ NoDetails(i) => PanelIInv'
  <2> DEFINE r == requested[i]
             ds == DetailsOf(r.items)
  <2>1. r \in Enquiry /\ r.list \in List /\ r.items \in ItemList /\ details \in [List -> Seq(Detail)]
    <3>1. requested \in Seq(Enquiry) /\ details \in [List -> Seq(Detail)]
      BY <1>1 DEF PanelTypeOK
    <3>2. requested[i] \in Enquiry
      BY <3>1
    <3>. QED BY <3>1, <3>2 DEF Enquiry
  <2>2. /\ ds \in Seq(Detail) /\ DOMAIN ds = DOMAIN r.items
        /\ \A j \in DOMAIN ds : ds[j].status = CI[ds[j].sha]
    BY <2>1, DetailsOfIs
  <2> HIDE DEF ds
  <2>3. ASSUME AllDetails(i)
        PROVE  PanelIInv'
    <3> DEFINE failed == IF \E j \in 1 .. i - 1 : requested[j].list = r.list THEN {r.list} ELSE {}
    <3>1. /\ details' = [details EXCEPT ![r.list] = ds] /\ Render(RemoveAt(requested, i), failed)
          /\ UNCHANGED <<display, prLists>>
      BY <2>3 DEF AllDetails, ReceiveDetails, ds
    <3>2. r.list \notin failed => /\ details'[r.list] = ds
                                  /\ \A j \in 1 .. i - 1 : requested[j].list # r.list
      BY <2>1, <3>1
    <3> HIDE DEF failed
    <3>. QED BY <2>2, <3>1, <3>2, AnswerKeeps DEF ds
  <2>4. ASSUME SomeDetails(i)
        PROVE  PanelIInv'
    <3>1. /\ details' = [details EXCEPT ![r.list] = Tail(ds)] /\ Render(RemoveAt(requested, i), {r.list})
          /\ UNCHANGED <<display, prLists>> /\ r.items # <<>>
      BY <2>4 DEF SomeDetails, ReceiveDetails, ds
    <3>2. ds # <<>>
      <4>1. 1 \in DOMAIN r.items
        BY <2>1, <3>1, ItemListIs
      <4>. QED BY <2>2, <4>1
    <3>3. /\ Tail(ds) \in Seq(Detail)
          /\ \A j \in DOMAIN Tail(ds) : Tail(ds)[j].status = CI[Tail(ds)[j].sha]
      BY <2>2, <3>2, TailIs
    <3>. QED BY <3>1, <3>3, AnswerKeeps
  <2>5. ASSUME NoDetails(i)
        PROVE  PanelIInv'
    <3>1. /\ details' = details /\ Render(RemoveAt(requested, i), {r.list})
          /\ UNCHANGED <<display, prLists>>
      BY <2>5 DEF NoDetails
    <3>. QED BY <2>2, <3>1, AnswerKeeps
  <2>. QED BY <2>3, <2>4, <2>5
<1>. QED BY <1>2, <1>3, <1>4, <1>5, <1>6 DEF PanelNext, AnswerDetails

LEMMA PanelIInvHolds == PanelSpec => []PanelIInv
<1>1. PanelInit => PanelIInv
  BY PanelInitInv
<1>2. PanelIInv /\ [PanelNext]_panelVars => PanelIInv'
  BY PanelNextInv
<1>. QED BY <1>1, <1>2, PTL DEF PanelSpec

\* The state of the panel is well typed, and no icon is of another commit, whatever answers
\* come late: mapPrsToDetails joins details and list by commit.
THEOREM IconsAreOwn == PanelSpec => []PanelInv
<1>1. PanelIInv => PanelInv
  <2> SUFFICES ASSUME PanelIInv
               PROVE  PanelInv
    OBVIOUS
  <2>1. PanelTypeOK /\ Honest
    BY DEF PanelIInv
  <2>2. ASSUME NEW l \in List, NEW i \in DOMAIN prLists[l]
        PROVE  Icons(l)[i] \in {"none", Icon(CI[prLists[l][i].sha])}
    <3> DEFINE item == prLists[l][i]
               ds == details[l]
               fitting == {k \in DOMAIN ds : Fits(item, ds[k])}
    <3>1. Icons(l)[i] = Icon(StatusOf(item, ds))
      BY DEF Icons
    <3>2. StatusOf(item, ds) = IF fitting = {} THEN "" ELSE ds[Min(fitting)].status
      BY DEF StatusOf
    <3>3. CASE fitting = {}
      <4>1. StatusOf(item, ds) = ""
        BY <3>2, <3>3
      <4>. QED BY <3>1, <4>1 DEF Icon
    <3>4. CASE fitting # {}
      <4>1. fitting \in SUBSET Nat
        BY <2>1 DEF PanelTypeOK
      <4>2. Min(fitting) \in fitting
        BY <3>4, <4>1, MinIsIn
      <4>3. ds[Min(fitting)].status = CI[item.sha]
        BY <2>1, <4>2 DEF Honest, Fits
      <4>. QED BY <3>1, <3>2, <3>4, <4>3
    <3>. QED BY <3>3, <3>4
  <2>. QED BY <2>1, <2>2 DEF PanelInv, StatusIsOfCommit
<1>. QED BY <1>1, PanelIInvHolds, PTL

\* In a panel that has shown the same list since it was mounted, with nothing pending, each
\* item has its details: the last request was for the list as it is (shouldUpdateDetails).
THEOREM DisplayedIsComplete == PanelSpec => []DisplayedHasDetails
<1>1. PanelIInv => DisplayedHasDetails
  <2> SUFFICES ASSUME PanelIInv, NEW l \in Displayed, ~ gap, ~ unsettled[l], ~ Pending(l, requested),
                      NEW i \in DOMAIN prLists[l]
               PROVE  \E d \in ToSet(details[l]) : Fits(prLists[l][i], d)
    BY DEF DisplayedHasDetails
  <2>1. l \in List /\ prLists[l] \in ItemList
    BY DEF Displayed, PanelIInv, PanelTypeOK
  <2>2. details[l] = DetailsOf(prLists[l])
    BY DEF PanelIInv, Latest, WillFit
  <2>3. i \in DOMAIN details[l] /\ details[l][i].sha = prLists[l][i].sha
    BY <2>1, <2>2, DetailsOfIs
  <2>. QED BY <2>3 DEF ToSet, Fits
<1>. QED BY <1>1, PanelIInvHolds, PTL
=============================================================================
