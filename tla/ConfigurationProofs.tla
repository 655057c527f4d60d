------------------------- MODULE ConfigurationProofs -------------------------
(***************************************************************************)
(* Proofs about two modules that share no state: Instances, the GitLab     *)
(* instances that are installed, for any number of nodes, workers, names,  *)
(* URLs and operations; and GitlabClient, whose calls the settings         *)
(* restrict to a group, for any projects, groups, lists and sizes of a     *)
(* page.                                                                   *)
(***************************************************************************)
EXTENDS Instances, GitlabClient,
        FiniteSetTheorems, SequenceTheorems, WellFoundedInduction, TLAPS

-----------------------------------------------------------------------------
(* Instances *)

Installing == {"readList", "readMap", "writeMap", "writeList"}

\* What a worker has to do is an operation of its own.
OpInv ==
    \A w \in Worker :
        /\ pc[w] # "idle" => op[w].node \in Node
        /\ pc[w] \in Installing =>
               /\ op[w].kind \in {"install", "uninstall"} /\ op[w].name \in Name
               /\ op[w].kind = "install" <=> op[w].url # None
        /\ pc[w] = "save" => draft[w] \in Setting

\* Only names that were once listed come near the settings.
WasListed(default) == default # None => default \in answered.was

WasInv ==
    /\ list \subseteq answered.was
    /\ WasListed(saved.default)
    /\ \A n \in Node : WasListed(cfg[n].default)
    /\ \A w \in Worker : names[w] \subseteq answered.was
    /\ \A w \in Worker : draft[w] # None => WasListed(draft[w].default)

\* The names a map has.
In(m) == {x \in Name : m # None /\ m[x] # None}

\* The map as a worker has written it.
Changed(w) == [IF conf[w] = None THEN Empty ELSE conf[w] EXCEPT ![op[w].name] = op[w].url]

\* A worker that is alone has copies of what is stored; only between its two writes do the
\* two values differ.
CopiesInv ==
    /\ \A w \in Worker : pc[w] \in {"readMap", "writeMap", "writeList"} => names[w] = list
    /\ \A w \in Worker : pc[w] = "writeMap" => conf[w] = map
    /\ \A w \in Worker : pc[w] = "writeList" => map = Changed(w) /\ names[w] = In(conf[w])
    /\ (\A w \in Worker : pc[w] # "writeList") => list = In(map)

Alone == \A v, w \in Worker : pc[v] # "idle" /\ pc[w] # "idle" => v = w

AloneInv == ~overlap => Alone /\ (faults = 0 => CopiesInv)

IInv == TypeOK /\ OpInv /\ WasInv /\ AloneInv

LEMMA InitInv == Init => IInv
<1> SUFFICES ASSUME Init PROVE IInv
  OBVIOUS
<1>1. TypeOK
  <2>1. /\ NoOp \in [kind : {"none", "url", "install", "uninstall", "default"},
                     node : Node \cup {None}, name : Name \cup {None}, url : Url \cup {None}]
        /\ [default |-> None] \in Setting
        /\ [url |-> None, name |-> None] \in [url : Url \cup {None}, name : Name \cup {None}]
        /\ [was |-> {}, gone |-> {}, default |-> None] \in
               [was : SUBSET Name, gone : SUBSET Name, default : Name \cup {None}]
        /\ 0 \in 0 .. MaxOps /\ 0 \in 0 .. MaxFaults /\ "idle" \in Label
    BY ConstantsAssumption DEF NoOp, Setting, Label
  <2>. QED BY <2>1 DEF Init, TypeOK
<1>2. OpInv
  BY DEF Init, OpInv, Installing
<1>3. WasInv
  BY DEF Init, WasInv, WasListed
<1>4. AloneInv
  BY DEF Init, AloneInv, Alone, CopiesInv, In
<1>. QED BY <1>1, <1>2, <1>3, <1>4 DEF IInv

-----------------------------------------------------------------------------
(* The beginning and the end of an operation *)

LEMMA Bounds == IInv => ops \in 0 .. MaxOps /\ faults \in 0 .. MaxFaults
BY DEF IInv, TypeOK

LEMMA BeginInv ==
  ASSUME IInv, NEW w \in Worker, Begin(w)
  PROVE  ops' \in 0 .. MaxOps /\ overlap' \in BOOLEAN /\ (~overlap' => ~overlap /\ Quiet)
<1>1. ops' \in 0 .. MaxOps
  BY Bounds, ConstantsAssumption DEF Begin
<1>2. overlap' = (overlap \/ ~Quiet) /\ overlap \in BOOLEAN
  BY DEF Begin, IInv, TypeOK
<1>. QED BY <1>1, <1>2

\* A worker that starts has read nothing yet.
LEMMA StartAlone ==
  ASSUME IInv, NEW w \in Worker, NEW label \in {"readList", "readDefault", "save", "idle"},
         Begin(w), pc' = [pc EXCEPT ![w] = label], UNCHANGED <<stored, names, conf, faults>>
  PROVE  AloneInv'
<1> SUFFICES ASSUME ~overlap' PROVE Alone' /\ (faults = 0 => CopiesInv')
  BY DEF AloneInv
<1>1. ~overlap /\ Quiet
  BY BeginInv
<1>2. \A v \in Worker : pc'[v] = IF v = w THEN label ELSE "idle"
  BY <1>1 DEF Quiet, IInv, TypeOK
<1>3. Alone'
  BY <1>2 DEF Alone
<1>4. ASSUME faults = 0 PROVE CopiesInv'
  <2>1. list = In(map)
    BY <1>1, <1>4 DEF Quiet, IInv, AloneInv, CopiesInv
  <2>2. \A v \in Worker : pc'[v] \notin {"readMap", "writeMap", "writeList"}
    BY <1>2
  <2>3. list' = In(map)'
    BY <2>1 DEF In, stored
  <2>. QED BY <2>2, <2>3 DEF CopiesInv
<1>. QED BY <1>3, <1>4

LEMMA StartInv ==
  ASSUME IInv, NEW w \in Worker, NEW label \in {"readList", "readDefault"},
         NEW n \in Node, NEW kind \in {"install", "uninstall", "default"},
         NEW x \in Name \cup {None}, NEW u \in Url \cup {None},
         Start(w, label, [kind |-> kind, node |-> n, name |-> x, url |-> u]),
         label = "readList" => kind # "default" /\ x \in Name /\ (kind = "install" <=> u # None),
         answered'.was = answered.was,
         answered' \in [was : SUBSET Name, gone : SUBSET Name, default : Name \cup {None}],
         fm' \in [Node -> [url : Url \cup {None}, name : Name \cup {None}]],
         offered' \subseteq Worker, asked' \in [Worker -> Url \cup {None}]
  PROVE  IInv'
<1> DEFINE o == [kind |-> kind, node |-> n, name |-> x, url |-> u]
<1>1. /\ Begin(w) /\ pc' = [pc EXCEPT ![w] = label] /\ op' = [op EXCEPT ![w] = o]
      /\ UNCHANGED <<list, map, saved, cfg, names, conf, draft, faults>>
  BY DEF Start, Goto, stored, settings, locals
<1>2. TypeOK'
  BY <1>1, BeginInv DEF IInv, TypeOK, Label
<1>3. OpInv'
  BY <1>1 DEF IInv, TypeOK, OpInv, Installing
<1>4. WasInv'
  BY <1>1 DEF IInv, WasInv, WasListed
<1>5. AloneInv'
  BY <1>1, StartAlone DEF stored
<1>. QED BY <1>2, <1>3, <1>4, <1>5 DEF IInv

\* An operation that ends, where nothing is left half done.
LEMMA LeaveInv ==
  ASSUME IInv, NEW w \in Worker, Leave(w)
  PROVE  /\ pc' \in [Worker -> Label] /\ names' \in [Worker -> SUBSET Name]
         /\ op' \in [Worker -> [kind : {"none", "url", "install", "uninstall", "default"},
                                node : Node \cup {None}, name : Name \cup {None},
                                url : Url \cup {None}]]
         /\ conf' \in [Worker -> Map \cup {None}] /\ draft' \in [Worker -> Setting \cup {None}]
         /\ pc'[w] = "idle" /\ names'[w] = {} /\ draft'[w] = None
         /\ \A v \in Worker \ {w} : /\ pc'[v] = pc[v] /\ op'[v] = op[v] /\ names'[v] = names[v]
                                    /\ conf'[v] = conf[v] /\ draft'[v] = draft[v]
         /\ OpInv'
<1>1. /\ pc' = [pc EXCEPT ![w] = "idle"] /\ op' = [op EXCEPT ![w] = NoOp]
      /\ names' = [names EXCEPT ![w] = {}] /\ conf' = [conf EXCEPT ![w] = None]
      /\ draft' = [draft EXCEPT ![w] = None]
  BY DEF Leave, Goto
<1>2. NoOp \in [kind : {"none", "url", "install", "uninstall", "default"},
                node : Node \cup {None}, name : Name \cup {None}, url : Url \cup {None}]
  BY DEF NoOp
<1>3. /\ pc'[w] = "idle" /\ names'[w] = {} /\ draft'[w] = None
      /\ \A v \in Worker \ {w} : /\ pc'[v] = pc[v] /\ op'[v] = op[v] /\ names'[v] = names[v]
                                 /\ conf'[v] = conf[v] /\ draft'[v] = draft[v]
  BY <1>1 DEF IInv, TypeOK
<1>4. OpInv'
  BY <1>3 DEF IInv, OpInv, Installing
<1>. QED BY <1>1, <1>2, <1>3, <1>4 DEF IInv, TypeOK, Label

LEMMA LeaveAlone ==
  ASSUME IInv, NEW w \in Worker, pc[w] # "idle", Leave(w), UNCHANGED <<overlap, faults>>,
         ~overlap /\ faults = 0 => list' = In(map)'
  PROVE  AloneInv'
<1> SUFFICES ASSUME ~overlap PROVE Alone' /\ (faults = 0 => CopiesInv')
  BY DEF AloneInv
<1>1. \A v \in Worker : pc'[v] = "idle"
  BY LeaveInv DEF IInv, AloneInv, Alone
<1>. QED BY <1>1 DEF Alone, CopiesInv

\* Unless it stands between its two writes, a worker finds the two values in step.
LEMMA InStep ==
  ASSUME IInv, NEW w \in Worker, pc[w] \notin {"idle", "writeList"}, ~overlap, faults = 0
  PROVE  list = In(map)
<1>1. \A v \in Worker : pc[v] # "writeList"
  BY DEF IInv, AloneInv, Alone
<1>. QED BY <1>1 DEF IInv, AloneInv, CopiesInv

-----------------------------------------------------------------------------
(* Commands and dialogs *)

LEMMA ChooseURLInv == ASSUME IInv, NEW w \in Worker, ChooseURL(w) PROVE IInv'
<1>1. PICK n \in Node, u \in Url :
          /\ fm' = [fm EXCEPT ![n].url = u]
          /\ asked' = [asked EXCEPT ![w] = u]
          /\ offered' = offered \ {w}
          /\ \/ UNCHANGED <<pc, op, draft>>
             \/ /\ op' = [op EXCEPT ![w] = [kind |-> "url", node |-> n, name |-> None, url |-> None]]
                /\ Goto(w, "save")
                /\ Save(w, n)
  BY DEF ChooseURL
<1>2. Begin(w) /\ UNCHANGED <<list, map, saved, cfg, names, conf, answered, faults>>
  BY DEF ChooseURL, stored, settings
<1>3. pc[w] = "idle" /\ cfg[n] \in Setting /\ cfg[n] # None
  BY <1>2, ConstantsAssumption DEF Begin, IInv, TypeOK
<1>4. /\ fm' \in [Node -> [url : Url \cup {None}, name : Name \cup {None}]]
      /\ asked' \in [Worker -> Url \cup {None}] /\ offered' \subseteq Worker
  BY <1>1 DEF IInv, TypeOK
<1>5. CASE UNCHANGED <<pc, op, draft>>
  <2>1. TypeOK'
    BY <1>2, <1>4, <1>5, BeginInv DEF IInv, TypeOK
  <2>2. OpInv' /\ WasInv'
    BY <1>2, <1>5 DEF IInv, OpInv, WasInv, WasListed
  <2>3. pc' = [pc EXCEPT ![w] = "idle"]
    BY <1>3, <1>5 DEF IInv, TypeOK
  <2>4. AloneInv'
    BY <1>2, <2>3, StartAlone DEF stored
  <2>. QED BY <2>1, <2>2, <2>4 DEF IInv
<1>6. CASE /\ op' = [op EXCEPT ![w] = [kind |-> "url", node |-> n, name |-> None, url |-> None]]
           /\ Goto(w, "save")
           /\ Save(w, n)
  <2>1. /\ pc' = [pc EXCEPT ![w] = "save"] /\ draft' = [draft EXCEPT ![w] = cfg[n]]
        /\ op' = [op EXCEPT ![w] = [kind |-> "url", node |-> n, name |-> None, url |-> None]]
    BY <1>6 DEF Goto, Save
  <2>2. TypeOK'
    BY <1>2, <1>3, <1>4, <2>1, BeginInv DEF IInv, TypeOK, Label
  <2>3. OpInv'
    BY <1>3, <2>1 DEF IInv, TypeOK, OpInv, Installing
  <2>4. WasInv'
    BY <1>2, <2>1 DEF IInv, TypeOK, WasInv, WasListed
  <2>5. AloneInv'
    BY <1>2, <2>1, StartAlone DEF stored
  <2>. QED BY <2>2, <2>3, <2>4, <2>5 DEF IInv
<1>. QED BY <1>1, <1>5, <1>6

LEMMA SubmitInv == ASSUME IInv, NEW w \in Worker, Submit(w) PROVE IInv'
<1>1. PICK n \in Node, x \in Name, u \in Url :
          /\ Start(w, "readList", [kind |-> "install", node |-> n, name |-> x, url |-> u])
          /\ answered' = [answered EXCEPT !.gone = @ \ {x}]
          /\ UNCHANGED <<fm, asked, offered>>
  <2>1. \A n \in Node : fm[n].url # None => fm[n].url \in Url
    BY DEF IInv, TypeOK
  <2>. QED BY <2>1 DEF Submit
<1>2. u # None
  BY ConstantsAssumption
<1>3. /\ answered'.was = answered.was
      /\ answered' \in [was : SUBSET Name, gone : SUBSET Name, default : Name \cup {None}]
      /\ fm' \in [Node -> [url : Url \cup {None}, name : Name \cup {None}]]
      /\ offered' \subseteq Worker /\ asked' \in [Worker -> Url \cup {None}]
  BY <1>1 DEF IInv, TypeOK
<1>. QED BY <1>1, <1>2, <1>3, StartInv

LEMMA MakeDefaultInv == ASSUME IInv, NEW w \in Worker, MakeDefault(w) PROVE IInv'
<1>1. PICK n \in Node, x \in Name \cup {None} :
          /\ Start(w, "readDefault", [kind |-> "default", node |-> n, name |-> x, url |-> None])
          /\ answered' = [answered EXCEPT !.default = None]
          /\ offered' = offered \ {w}
          /\ UNCHANGED <<fm, asked>>
  <2>1. \A n \in Node : fm[n].name \in Name \cup {None}
    BY DEF IInv, TypeOK
  <2>. QED BY <2>1 DEF MakeDefault
<1>2. /\ answered'.was = answered.was
      /\ answered' \in [was : SUBSET Name, gone : SUBSET Name, default : Name \cup {None}]
      /\ fm' \in [Node -> [url : Url \cup {None}, name : Name \cup {None}]]
      /\ offered' \subseteq Worker /\ asked' \in [Worker -> Url \cup {None}]
  BY <1>1 DEF IInv, TypeOK
<1>. QED BY <1>1, <1>2, StartInv

LEMMA CommandInv == ASSUME IInv, NEW w \in Worker, Uninstall(w) \/ SetDefault(w) PROVE IInv'
<1>1. PICK n \in Node, x \in Name, kind \in {"uninstall", "default"} :
          /\ Start(w, IF kind = "default" THEN "readDefault" ELSE "readList",
                   [kind |-> kind, node |-> n, name |-> x, url |-> None])
          /\ answered' = IF kind = "default" THEN [answered EXCEPT !.default = None] ELSE answered
          /\ UNCHANGED <<fm, asked, offered>>
  BY DEF Uninstall, SetDefault
<1>2. /\ answered'.was = answered.was
      /\ answered' \in [was : SUBSET Name, gone : SUBSET Name, default : Name \cup {None}]
      /\ fm' \in [Node -> [url : Url \cup {None}, name : Name \cup {None}]]
      /\ offered' \subseteq Worker /\ asked' \in [Worker -> Url \cup {None}]
  BY <1>1 DEF IInv, TypeOK
<1>3. CASE kind = "default"
  BY <1>1, <1>2, <1>3, StartInv
<1>4. CASE kind = "uninstall"
  BY <1>1, <1>2, <1>4, StartInv
<1>. QED BY <1>3, <1>4

-----------------------------------------------------------------------------
(* installInstance and uninstallInstance *)

\* An operation that ends in the middle, where the two values are in step.
LEMMA GiveUpInv ==
  ASSUME IInv, NEW w \in Worker, pc[w] # "idle", Leave(w), faults' \in 0 .. MaxFaults,
         UNCHANGED <<stored, settings, fm, asked, offered, answered, overlap, ops>>,
         faults' = faults /\ ~overlap /\ faults = 0 => list = In(map),
         faults' = faults \/ faults' > 0
  PROVE  IInv'
<1>1. TypeOK'
  BY LeaveInv DEF IInv, TypeOK, stored, settings
<1>2. OpInv'
  BY LeaveInv
<1>3. WasInv'
  BY LeaveInv DEF IInv, WasInv, WasListed, stored, settings
<1>4. AloneInv'
  <2>1. CASE faults' = faults
    BY <2>1, LeaveAlone DEF stored, In
  <2>2. CASE faults' > 0
    <3>1. ~overlap => \A v \in Worker : pc'[v] = "idle"
      BY LeaveInv DEF IInv, AloneInv, Alone
    <3>. QED BY <2>2, <3>1 DEF AloneInv, Alone
  <2>. QED BY <2>1, <2>2
<1>. QED BY <1>1, <1>2, <1>3, <1>4 DEF IInv

LEMMA ReadListInv == ASSUME IInv, NEW w \in Worker, ReadList(w) PROVE IInv'
<1>1. pc[w] = "readList" /\ UNCHANGED <<stored, settings, fm, asked, offered, answered, overlap, ops, faults>>
  BY DEF ReadList
<1>2. CASE Leave(w)
  BY <1>1, <1>2, Bounds, InStep, GiveUpInv
<1>3. CASE names' = [names EXCEPT ![w] = list] /\ Goto(w, "readMap") /\ UNCHANGED <<op, conf, draft>>
  <2>1. TypeOK'
    BY <1>1, <1>3 DEF IInv, TypeOK, Goto, Label, stored, settings
  <2>2. OpInv'
    BY <1>1, <1>3 DEF IInv, TypeOK, OpInv, Installing, Goto
  <2>3. WasInv'
    BY <1>1, <1>3 DEF IInv, TypeOK, WasInv, WasListed, stored, settings
  <2>4. AloneInv'
    <3>1. Alone => Alone'
      BY <1>1, <1>3 DEF IInv, TypeOK, Alone, Goto
    <3>2. ASSUME ~overlap, faults = 0 PROVE CopiesInv'
      <4>1. list' = In(map)'
        BY <1>1, <3>2, InStep DEF In, stored
      <4>2. \A v \in Worker \ {w} : pc'[v] = "idle"
        BY <1>1, <1>3, <3>2 DEF IInv, TypeOK, AloneInv, Alone, Goto
      <4>3. pc'[w] = "readMap" /\ names'[w] = list'
        BY <1>1, <1>3 DEF IInv, TypeOK, Goto, stored
      <4>. QED BY <4>1, <4>2, <4>3 DEF CopiesInv
    <3>. QED BY <1>1, <3>1, <3>2 DEF IInv, AloneInv
  <2>. QED BY <2>1, <2>2, <2>3, <2>4 DEF IInv
<1>. QED BY <1>2, <1>3 DEF ReadList

LEMMA ReadMapInv == ASSUME IInv, NEW w \in Worker, ReadMap(w) PROVE IInv'
<1>1. pc[w] = "readMap" /\ UNCHANGED <<stored, settings, fm, asked, offered, answered, overlap, ops, faults>>
  BY DEF ReadMap
<1>2. CASE Leave(w)
  BY <1>1, <1>2, Bounds, InStep, GiveUpInv
<1>3. CASE conf' = [conf EXCEPT ![w] = map] /\ Goto(w, "writeMap") /\ UNCHANGED <<op, names, draft>>
  <2>1. TypeOK'
    BY <1>1, <1>3 DEF IInv, TypeOK, Goto, Label, stored, settings
  <2>2. OpInv'
    BY <1>1, <1>3 DEF IInv, TypeOK, OpInv, Installing, Goto
  <2>3. WasInv'
    BY <1>1, <1>3 DEF IInv, WasInv, WasListed, stored, settings
  <2>4. AloneInv'
    <3>1. Alone => Alone'
      BY <1>1, <1>3 DEF IInv, TypeOK, Alone, Goto
    <3>2. ASSUME ~overlap, faults = 0 PROVE CopiesInv'
      <4>1. list' = In(map)'
        BY <1>1, <3>2, InStep DEF In, stored
      <4>2. \A v \in Worker \ {w} : pc'[v] = "idle"
        BY <1>1, <1>3, <3>2 DEF IInv, TypeOK, AloneInv, Alone, Goto
      <4>3. pc'[w] = "writeMap" /\ names'[w] = list' /\ conf'[w] = map'
        BY <1>1, <1>3, <3>2 DEF IInv, TypeOK, AloneInv, CopiesInv, Goto, stored
      <4>. QED BY <4>1, <4>2, <4>3 DEF CopiesInv
    <3>. QED BY <1>1, <3>1, <3>2 DEF IInv, AloneInv
  <2>. QED BY <2>1, <2>2, <2>3, <2>4 DEF IInv
<1>. QED BY <1>2, <1>3 DEF ReadMap

LEMMA WriteMapInv == ASSUME IInv, NEW w \in Worker, WriteMap(w) PROVE IInv'
<1>1. /\ pc[w] = "writeMap" /\ map' = Changed(w) /\ pc' = [pc EXCEPT ![w] = "writeList"]
      /\ UNCHANGED <<list, settings, fm, op, locals, asked, offered, answered, overlap, ops, faults>>
  BY DEF WriteMap, Changed, Goto
<1>2. Changed(w) \in Map
  BY DEF IInv, TypeOK, Changed, Map, Empty
<1>3. TypeOK'
  BY <1>1, <1>2 DEF IInv, TypeOK, Label, settings, locals
<1>4. OpInv'
  BY <1>1 DEF IInv, TypeOK, OpInv, Installing, locals
<1>5. WasInv'
  BY <1>1 DEF IInv, WasInv, WasListed, settings, locals
<1>6. AloneInv'
  <2>1. Alone => Alone'
    BY <1>1 DEF IInv, TypeOK, Alone
  <2>2. ASSUME ~overlap, faults = 0 PROVE CopiesInv'
    <3>1. names[w] = In(map) /\ conf[w] = map /\ names[w] = list
      BY <1>1, <2>2, InStep DEF IInv, AloneInv, CopiesInv
    <3>2. \A v \in Worker \ {w} : pc'[v] = "idle"
      BY <1>1, <2>2 DEF IInv, TypeOK, AloneInv, Alone
    <3>3. pc'[w] = "writeList" /\ UNCHANGED <<list, names, conf, op>>
      BY <1>1 DEF IInv, TypeOK, locals
    <3>4. names'[w] = list' /\ map' = Changed(w)' /\ names'[w] = In(conf[w])'
      BY <1>1, <3>1, <3>3 DEF Changed, In
    <3>. QED BY <3>2, <3>3, <3>4 DEF CopiesInv
  <2>. QED BY <1>1, <2>1, <2>2 DEF IInv, AloneInv
<1>. QED BY <1>3, <1>4, <1>5, <1>6 DEF IInv

\* What the second write brings in step with the first.
LEMMA WrittenMap ==
  ASSUME IInv, NEW w \in Worker, pc[w] = "writeList", ~overlap, faults = 0
  PROVE  In(map) = IF op[w].kind = "install" THEN names[w] \cup {op[w].name}
                                             ELSE names[w] \ {op[w].name}
<1>1. /\ map = Changed(w) /\ names[w] = In(conf[w]) /\ op[w].name \in Name
      /\ op[w].kind = "install" <=> op[w].url # None
  BY DEF IInv, AloneInv, CopiesInv, OpInv, Installing
<1>2. conf[w] \in Map \cup {None} /\ map # None
  <2>1. conf[w] \in Map \cup {None} /\ op[w].url \in Url \cup {None}
    BY DEF IInv, TypeOK
  <2>2. Changed(w) \in Map
    BY <1>1, <2>1 DEF Changed, Map, Empty
  <2>. QED BY <1>1, <2>1, <2>2, ConstantsAssumption
<1>3. \A x \in Name : map[x] = IF x = op[w].name THEN op[w].url
                               ELSE IF conf[w] = None THEN None ELSE conf[w][x]
  BY <1>1, <1>2 DEF Changed, Map, Empty
<1>. QED BY <1>1, <1>2, <1>3 DEF In

LEMMA WriteListInv == ASSUME IInv, NEW w \in Worker, WriteList(w) PROVE IInv'
<1>1. pc[w] = "writeList" /\ UNCHANGED <<map, settings, asked, overlap, ops, faults>>
  BY DEF WriteList
<1>2. /\ op[w].name \in Name /\ op[w].node \in Node /\ names[w] \subseteq Name
      /\ op[w].kind \in {"install", "uninstall"}
  BY <1>1 DEF IInv, OpInv, Installing, TypeOK
<1>3. ~overlap /\ faults = 0 =>
          In(map) = IF op[w].kind = "install" THEN names[w] \cup {op[w].name}
                                              ELSE names[w] \ {op[w].name}
  BY <1>1, WrittenMap
<1>4. CASE op[w].kind = "install"
  <2>1. /\ list' = names[w] \cup {op[w].name}
        /\ answered' = [answered EXCEPT !.was = @ \cup {op[w].name}]
    BY <1>4 DEF WriteList
  <2>2. /\ answered' \in [was : SUBSET Name, gone : SUBSET Name, default : Name \cup {None}]
        /\ answered'.was = answered.was \cup {op[w].name}
    BY <1>2, <2>1 DEF IInv, TypeOK
  <2>3. list' \subseteq answered'.was
    BY <2>1, <2>2 DEF IInv, WasInv
  <2>4. CASE conf[w] = None /\ Goto(w, "readDefault") /\ UNCHANGED <<op, locals, fm, offered>>
    <3>1. TypeOK'
      BY <1>1, <1>2, <2>1, <2>2, <2>4 DEF IInv, TypeOK, Label, Goto, settings, locals
    <3>2. OpInv'
      BY <1>1, <2>4 DEF IInv, TypeOK, OpInv, Installing, Goto, locals
    <3>3. WasInv'
      BY <1>1, <2>2, <2>3, <2>4 DEF IInv, WasInv, WasListed, settings, locals
    <3>4. AloneInv'
      <4>1. Alone => Alone'
        BY <1>1, <2>4 DEF IInv, TypeOK, Alone, Goto
      <4>2. ASSUME ~overlap, faults = 0 PROVE CopiesInv'
        <5>1. list' = In(map)'
          BY <1>1, <1>3, <1>4, <2>1, <4>2 DEF In
        <5>2. \A v \in Worker : pc'[v] \in {"idle", "readDefault"}
          BY <1>1, <2>4, <4>2 DEF IInv, TypeOK, AloneInv, Alone, Goto
        <5>. QED BY <5>1, <5>2 DEF CopiesInv
      <4>. QED BY <1>1, <4>1, <4>2 DEF IInv, AloneInv
    <3>. QED BY <3>1, <3>2, <3>3, <3>4 DEF IInv
  <2>5. CASE /\ fm' = [fm EXCEPT ![op[w].node].name = op[w].name]
             /\ offered' = offered \cup {w}
             /\ Leave(w)
    <3>1. TypeOK'
      <4>1. fm' \in [Node -> [url : Url \cup {None}, name : Name \cup {None}]]
        BY <1>2, <2>5 DEF IInv, TypeOK
      <4>2. list' \subseteq Name
        BY <1>2, <2>1
      <4>. QED BY <1>1, <2>2, <2>5, <4>1, <4>2, LeaveInv DEF IInv, TypeOK, settings
    <3>2. WasInv'
      BY <1>1, <2>2, <2>3, <2>5, LeaveInv DEF IInv, WasInv, WasListed, settings
    <3>3. AloneInv'
      BY <1>1, <1>3, <1>4, <2>1, <2>5, LeaveAlone DEF In
    <3>. QED BY <2>5, <3>1, <3>2, <3>3, LeaveInv DEF IInv
  <2>. QED BY <1>4, <2>4, <2>5 DEF WriteList
<1>5. CASE op[w].kind = "uninstall"
  <2>1. /\ list' = names[w] \ {op[w].name}
        /\ answered' = [answered EXCEPT !.gone = @ \cup {op[w].name}]
        /\ Leave(w)
        /\ UNCHANGED <<fm, offered>>
    BY <1>5 DEF WriteList
  <2>2. /\ answered' \in [was : SUBSET Name, gone : SUBSET Name, default : Name \cup {None}]
        /\ answered'.was = answered.was
    BY <1>2, <2>1 DEF IInv, TypeOK
  <2>3. TypeOK'
    BY <1>1, <1>2, <2>1, <2>2, LeaveInv DEF IInv, TypeOK, settings
  <2>4. WasInv'
    BY <1>1, <2>1, <2>2, LeaveInv DEF IInv, WasInv, WasListed, settings
  <2>5. AloneInv'
    BY <1>1, <1>3, <1>5, <2>1, LeaveAlone DEF In
  <2>. QED BY <2>1, <2>3, <2>4, <2>5, LeaveInv DEF IInv
<1>. QED BY <1>2, <1>4, <1>5

-----------------------------------------------------------------------------
(* setDefaultInstance, the settings, failures *)

LEMMA ReadDefaultInv == ASSUME IInv, NEW w \in Worker, ReadDefault(w) PROVE IInv'
<1>1. /\ pc[w] = "readDefault"
      /\ UNCHANGED <<stored, saved, fm, asked, offered, answered, overlap, ops, faults>>
  BY DEF ReadDefault
<1>2. CASE Leave(w) /\ UNCHANGED cfg
  BY <1>1, <1>2, Bounds, InStep, GiveUpInv DEF settings
<1>3. CASE op[w].name \in list
  <2>1. PICK n \in Node, x \in list : n = op[w].node /\ x = op[w].name
    BY <1>1, <1>3 DEF IInv, OpInv
  <2>2. /\ cfg' = [cfg EXCEPT ![n].default = x]
        /\ draft' = [draft EXCEPT ![w] = cfg'[n]]
        /\ pc' = [pc EXCEPT ![w] = "save"]
        /\ UNCHANGED <<op, names, conf>>
    BY <1>3, <2>1 DEF ReadDefault, Goto
  <2>3. /\ x \in Name /\ x \in answered.was
        /\ cfg' \in [Node -> Setting] /\ cfg'[n].default = x
        /\ \A m \in Node \ {n} : cfg'[m] = cfg[m]
    BY <2>2 DEF IInv, TypeOK, WasInv, Setting
  <2>4. draft' \in [Worker -> Setting \cup {None}] /\ draft'[w] = cfg'[n]
        /\ \A v \in Worker \ {w} : draft'[v] = draft[v]
    BY <2>2, <2>3 DEF IInv, TypeOK
  <2>5. TypeOK'
    BY <1>1, <2>2, <2>3, <2>4 DEF IInv, TypeOK, Label, stored
  <2>6. OpInv'
    BY <1>1, <2>2, <2>3, <2>4 DEF IInv, TypeOK, OpInv, Installing
  <2>7. WasInv'
    BY <1>1, <2>2, <2>3, <2>4 DEF IInv, WasInv, WasListed, stored
  <2>8. AloneInv'
    <3>1. Alone => Alone'
      BY <1>1, <2>2 DEF IInv, TypeOK, Alone
    <3>2. ASSUME ~overlap, faults = 0 PROVE CopiesInv'
      <4>1. list' = In(map)'
        BY <1>1, <3>2, InStep DEF In, stored
      <4>2. \A v \in Worker : pc'[v] \in {"idle", "save"}
        BY <1>1, <2>2, <3>2 DEF IInv, TypeOK, AloneInv, Alone
      <4>. QED BY <4>1, <4>2 DEF CopiesInv
    <3>. QED BY <1>1, <3>1, <3>2 DEF IInv, AloneInv
  <2>. QED BY <2>5, <2>6, <2>7, <2>8 DEF IInv
<1>. QED BY <1>2, <1>3 DEF ReadDefault

LEMMA SaveConfigInv == ASSUME IInv, NEW w \in Worker, SaveConfig(w) PROVE IInv'
<1>1. /\ pc[w] = "save" /\ saved' = draft[w] /\ Leave(w)
      /\ UNCHANGED <<stored, cfg, asked, overlap, ops, faults>>
  BY DEF SaveConfig
<1>2. /\ draft[w] \in Setting /\ draft[w] # None
      /\ op[w].node \in Node /\ op[w].name \in Name \cup {None}
  BY <1>1, ConstantsAssumption DEF IInv, OpInv, TypeOK
<1>3. /\ fm' = fm \/ fm' = [fm EXCEPT ![op[w].node].name = op[w].name]
      /\ offered' = offered \/ offered' = offered \cup {w}
      /\ \/ answered' = answered
         \/ answered' = [answered EXCEPT !.default = None]
         \/ answered' = [answered EXCEPT !.default = op[w].name]
  BY DEF SaveConfig
<1>4. /\ fm' \in [Node -> [url : Url \cup {None}, name : Name \cup {None}]]
      /\ offered' \subseteq Worker
      /\ answered' \in [was : SUBSET Name, gone : SUBSET Name, default : Name \cup {None}]
      /\ answered'.was = answered.was
  BY <1>2, <1>3 DEF IInv, TypeOK
<1>5. TypeOK'
  BY <1>1, <1>2, <1>4, LeaveInv DEF IInv, TypeOK, stored
<1>6. WasInv'
  BY <1>1, <1>2, <1>4, LeaveInv DEF IInv, WasInv, WasListed, stored
<1>7. AloneInv'
  BY <1>1, InStep, LeaveAlone DEF stored, In
<1>. QED BY <1>1, <1>5, <1>6, <1>7, LeaveInv DEF IInv

LEMMA FailInv == ASSUME IInv, NEW w \in Worker, Fail(w) PROVE IInv'
<1>1. faults' \in 0 .. MaxFaults /\ faults' > 0 /\ faults' # faults
  BY Bounds, ConstantsAssumption DEF Fail, Fault
<1>. QED BY <1>1, GiveUpInv DEF Fail

LEMMA OnConfigurationChangeInv == ASSUME IInv, NEW n \in Node, OnConfigurationChange(n) PROVE IInv'
<1>1. /\ cfg' = [cfg EXCEPT ![n] = saved]
      /\ UNCHANGED <<list, map, saved, fm, pc, op, names, conf, draft, asked, offered, answered,
                     overlap, ops, faults>>
  BY DEF OnConfigurationChange, stored, locals
<1>2. TypeOK'
  BY <1>1 DEF IInv, TypeOK
<1>3. OpInv'
  BY <1>1 DEF IInv, OpInv
<1>4. WasInv'
  BY <1>1 DEF IInv, TypeOK, WasInv, WasListed
<1>5. AloneInv'
  BY <1>1 DEF IInv, AloneInv, Alone, CopiesInv, Changed, In
<1>. QED BY <1>2, <1>3, <1>4, <1>5 DEF IInv

-----------------------------------------------------------------------------
(* Instances: the default *)

\* An installation under way, or an instance out of the map and still on the list.
Withdrawing(x) ==
    \E w \in Worker :
        /\ op[w].name = x
        /\ \/ op[w].kind = "install" /\ pc[w] \in Installing
           \/ op[w].kind = "uninstall" /\ pc[w] = "writeList"

Resolves(x) == x = None \/ Installed(x) \/ x \in answered.gone \/ Withdrawing(x)

\* Every copy of the settings names an instance that is there, unless somebody withdrew it.
DefaultsKept ==
    ~overlap /\ faults = 0 =>
        /\ Resolves(saved.default)
        /\ \A n \in Node : Resolves(cfg[n].default)
        /\ \A w \in Worker : draft[w] # None => Resolves(draft[w].default)

\* A step that leaves the settings alone, or copies them.
LEMMA CopyKept ==
  ASSUME IInv, DefaultsKept, ~overlap' /\ faults' = 0 => ~overlap /\ faults = 0,
         ~overlap' /\ faults' = 0 => \A x \in Name : Resolves(x) => Resolves(x)',
         saved' = saved \/ \E w \in Worker : draft[w] # None /\ saved' = draft[w],
         \A n \in Node : cfg'[n] = cfg[n] \/ cfg'[n] = saved,
         \A w \in Worker : \/ draft'[w] = draft[w] \/ draft'[w] = None
                           \/ \E n \in Node : draft'[w] = cfg[n]
  PROVE  DefaultsKept'
<1> DEFINE Good == {s \in Setting : Resolves(s.default)}
           After == {s \in Setting : Resolves(s.default)'}
<1> SUFFICES ASSUME ~overlap', faults' = 0
             PROVE  /\ saved' \in After
                    /\ \A n \in Node : cfg'[n] \in After
                    /\ \A w \in Worker : draft'[w] # None => draft'[w] \in After
  BY DEF DefaultsKept, Resolves, Installed, Withdrawing
<1>1. /\ saved \in Good
      /\ \A n \in Node : cfg[n] \in Good
      /\ \A w \in Worker : draft[w] # None => draft[w] \in Good
  BY DEF DefaultsKept, IInv, TypeOK
<1>2. ASSUME NEW s \in Good PROVE s \in After
  <2>1. s.default \in Name \cup {None}
    BY DEF Setting
  <2>. QED BY <2>1 DEF Resolves
<1> HIDE DEF Good, After
<1>3. saved' \in After
  BY <1>1, <1>2
<1>4. ASSUME NEW n \in Node PROVE cfg'[n] \in After
  BY <1>1, <1>2
<1>5. ASSUME NEW w \in Worker, draft'[w] # None PROVE draft'[w] \in After
  BY <1>1, <1>2, <1>5
<1>. QED BY <1>3, <1>4, <1>5

LEMMA BeginKept ==
  ASSUME IInv, DefaultsKept, NEW w \in Worker, Begin(w), UNCHANGED <<stored, settings, faults>>,
         \A x \in answered.gone : x \in answered'.gone \/ Withdrawing(x)',
         \A v \in Worker : draft'[v] = draft[v] \/ \E n \in Node : draft'[v] = cfg[n]
  PROVE  DefaultsKept'
<1>1. ~overlap' => ~overlap /\ Quiet
  BY BeginInv
<1>2. ASSUME ~overlap', NEW x, Resolves(x) PROVE Resolves(x)'
  <2>1. ~ Withdrawing(x)
    BY <1>1, <1>2 DEF Withdrawing, Quiet, Installing
  <2>2. Installed(x)' <=> Installed(x)
    BY DEF Installed, stored
  <2>. QED BY <1>2, <2>1, <2>2 DEF Resolves
<1>3. UNCHANGED <<saved, cfg, faults>>
  BY DEF settings
<1> HIDE DEF Resolves
<1>. QED BY <1>1, <1>2, <1>3, CopyKept

LEMMA CommandKept == ASSUME IInv, DefaultsKept, NEW w \in Worker, Command(w) PROVE DefaultsKept'
<1>1. Begin(w) /\ UNCHANGED <<stored, settings, faults>>
  BY DEF Command, ChooseURL, Submit, MakeDefault, Uninstall, SetDefault, Start
<1>2. ASSUME ~ ChooseURL(w) PROVE UNCHANGED draft
  BY <1>2 DEF Command, Submit, MakeDefault, Uninstall, SetDefault, Start, locals
<1>3. \A v \in Worker : draft'[v] = draft[v] \/ \E n \in Node : draft'[v] = cfg[n]
  <2>1. CASE ChooseURL(w)
    <3>1. PICK n \in Node : UNCHANGED draft \/ draft' = [draft EXCEPT ![w] = cfg[n]]
      BY <2>1 DEF ChooseURL, Save
    <3>. QED BY <3>1 DEF IInv, TypeOK
  <2>. QED BY <1>2, <2>1
<1>4. ASSUME NEW x \in answered.gone PROVE x \in answered'.gone \/ Withdrawing(x)'
  <2>1. CASE Submit(w)
    <3>1. PICK n \in Node, y \in Name :
              /\ Start(w, "readList", [kind |-> "install", node |-> n, name |-> y, url |-> fm[n].url])
              /\ answered' = [answered EXCEPT !.gone = @ \ {y}]
      BY <2>1 DEF Submit
    <3>2. pc'[w] = "readList" /\ op'[w].kind = "install" /\ op'[w].name = y
      BY <3>1 DEF Start, Goto, IInv, TypeOK
    <3>3. answered'.gone = answered.gone \ {y}
      BY <3>1 DEF IInv, TypeOK
    <3>. QED BY <3>2, <3>3 DEF Withdrawing, Installing
  <2>2. CASE ~ Submit(w)
    <3>1. answered'.gone = answered.gone
      BY <2>2 DEF Command, ChooseURL, MakeDefault, Uninstall, SetDefault, IInv, TypeOK
    <3>. QED BY <3>1
  <2>. QED BY <2>1, <2>2
<1>. QED BY <1>1, <1>3, <1>4, BeginKept

LEMMA ReadListKept == ASSUME IInv, DefaultsKept, NEW w \in Worker, ReadList(w) PROVE DefaultsKept'
<1>1. pc[w] = "readList" /\ UNCHANGED <<list, map, saved, cfg, answered, overlap, faults>>
  BY DEF ReadList, stored, settings
<1>2. op[w].name \in Name /\ op[w].kind \in {"install", "uninstall"}
  BY <1>1 DEF IInv, OpInv, Installing
<1>3. CASE Leave(w) /\ (op[w].kind = "install") = (op[w].name \in list)
  <2>1. ASSUME ~overlap, faults = 0, NEW x \in Name, Resolves(x) PROVE Resolves(x)'
    <3>1. list = In(map)
      BY <1>1, <2>1, InStep
    <3>2. CASE Withdrawing(x) /\ x = op[w].name
      <4>1. op[w].kind = "install"
        BY <1>1, <2>1, <3>2 DEF IInv, AloneInv, Alone, Withdrawing, Installing
      <4>2. x \in list /\ map # None /\ map[x] # None
        BY <1>3, <3>1, <3>2, <4>1 DEF In
      <4>. QED BY <1>1, <4>2 DEF Resolves, Installed
    <3>3. CASE ~ (Withdrawing(x) /\ x = op[w].name)
      <4>1. ~ Withdrawing(x)
        BY <1>1, <2>1, <3>3 DEF IInv, AloneInv, Alone, Withdrawing, Installing
      <4>. QED BY <1>1, <2>1, <4>1 DEF Resolves, Installed
    <3>. QED BY <3>2, <3>3
  <2>2. \A v \in Worker : draft'[v] = draft[v] \/ draft'[v] = None
    BY <1>3, LeaveInv
  <2>. QED BY <1>1, <2>1, <2>2, CopyKept
<1>4. CASE names' = [names EXCEPT ![w] = list] /\ Goto(w, "readMap") /\ UNCHANGED <<op, conf, draft>>
  <2>1. \A v \in Worker : pc'[v] = IF v = w THEN "readMap" ELSE pc[v]
    BY <1>4 DEF Goto, IInv, TypeOK
  <2>2. ASSUME NEW x \in Name, Resolves(x) PROVE Resolves(x)'
    BY <1>1, <1>4, <2>1, <2>2 DEF Resolves, Installed, Withdrawing, Installing
  <2>. QED BY <1>1, <1>4, <2>2, CopyKept
<1>. QED BY <1>3, <1>4 DEF ReadList

LEMMA ReadMapKept == ASSUME IInv, DefaultsKept, NEW w \in Worker, ReadMap(w) PROVE DefaultsKept'
<1>1. pc[w] = "readMap" /\ UNCHANGED <<list, map, saved, cfg, answered, overlap, faults>>
  BY DEF ReadMap, stored, settings
<1>2. CASE Leave(w) /\ op[w].kind = "uninstall"
  <2>1. ASSUME ~overlap, faults = 0, NEW x \in Name, Resolves(x) PROVE Resolves(x)'
    <3>1. ~ Withdrawing(x)
      BY <1>1, <1>2, <2>1 DEF IInv, AloneInv, Alone, Withdrawing, Installing
    <3>. QED BY <1>1, <2>1, <3>1 DEF Resolves, Installed
  <2>2. \A v \in Worker : draft'[v] = draft[v] \/ draft'[v] = None
    BY <1>2, LeaveInv
  <2>. QED BY <1>1, <2>1, <2>2, CopyKept
<1>3. CASE conf' = [conf EXCEPT ![w] = map] /\ Goto(w, "writeMap") /\ UNCHANGED <<op, names, draft>>
  <2>1. \A v \in Worker : pc'[v] = IF v = w THEN "writeMap" ELSE pc[v]
    BY <1>3 DEF Goto, IInv, TypeOK
  <2>2. ASSUME NEW x \in Name, Resolves(x) PROVE Resolves(x)'
    BY <1>1, <1>3, <2>1, <2>2 DEF Resolves, Installed, Withdrawing, Installing
  <2>. QED BY <1>1, <1>3, <2>2, CopyKept
<1>. QED BY <1>2, <1>3 DEF ReadMap

\* The map is written over its own copy, so nobody else's instance leaves it.
LEMMA WriteMapKept == ASSUME IInv, DefaultsKept, NEW w \in Worker, WriteMap(w) PROVE DefaultsKept'
<1>1. /\ pc[w] = "writeMap" /\ map' = Changed(w)
      /\ UNCHANGED <<list, saved, cfg, answered, op, draft, overlap, faults>>
  BY DEF WriteMap, Changed, settings, locals
<1>2. \A v \in Worker : pc'[v] = IF v = w THEN "writeList" ELSE pc[v]
  BY DEF WriteMap, Goto, IInv, TypeOK
<1>3. op[w].kind \in {"install", "uninstall"}
  BY <1>1 DEF IInv, OpInv, Installing
<1>4. ASSUME ~overlap, faults = 0, NEW x \in Name, Resolves(x) PROVE Resolves(x)'
  <2>1. CASE x = op[w].name
    BY <1>1, <1>2, <1>3, <2>1 DEF Resolves, Withdrawing, Installing
  <2>2. CASE x # op[w].name
    <3>1. conf[w] = map /\ (map # None => map \in Map)
      BY <1>1, <1>4 DEF IInv, TypeOK, AloneInv, CopiesInv
    <3>2. map # None => map' # None /\ map'[x] = map[x]
      <4>1. Changed(w) \in Map
        BY DEF IInv, TypeOK, Changed, Map, Empty
      <4>. QED BY <1>1, <2>2, <3>1, <4>1, ConstantsAssumption DEF Changed, Map
    <3>. QED BY <1>1, <1>2, <1>4, <3>2 DEF Resolves, Installed, Withdrawing, Installing
  <2>. QED BY <2>1, <2>2
<1>. QED BY <1>1, <1>4, CopyKept

LEMMA WriteListKept == ASSUME IInv, DefaultsKept, NEW w \in Worker, WriteList(w) PROVE DefaultsKept'
<1>1. pc[w] = "writeList" /\ UNCHANGED <<map, saved, cfg, overlap, faults>>
  BY DEF WriteList, settings
<1>2. /\ op[w].name \in Name /\ op[w].kind \in {"install", "uninstall"}
      /\ answered.was \subseteq Name /\ answered.gone \subseteq Name
  BY <1>1 DEF IInv, OpInv, Installing, TypeOK
<1>3. /\ answered.gone \subseteq answered'.gone
      /\ op[w].kind = "uninstall" => op[w].name \in answered'.gone
  BY <1>2 DEF WriteList, IInv, TypeOK
<1>4. ASSUME ~overlap, faults = 0, NEW x \in Name, Resolves(x) PROVE Resolves(x)'
  <2>1. Withdrawing(x) => x = op[w].name
    BY <1>1, <1>4 DEF IInv, AloneInv, Alone, Withdrawing, Installing
  <2>2. /\ In(map) = IF op[w].kind = "install" THEN names[w] \cup {op[w].name}
                                               ELSE names[w] \ {op[w].name}
        /\ names[w] = list
    BY <1>1, <1>4, WrittenMap DEF IInv, AloneInv, CopiesInv
  <2>3. list' = In(map)
    BY <1>2, <2>2 DEF WriteList
  <2>4. CASE x = op[w].name /\ op[w].kind = "uninstall"
    BY <1>3, <2>4 DEF Resolves
  <2>5. CASE x = op[w].name /\ op[w].kind = "install"
    BY <1>1, <2>2, <2>3, <2>5 DEF Resolves, Installed, In
  <2>6. CASE x # op[w].name
    <3>1. Installed(x) => Installed(x)'
      BY <1>1, <2>2, <2>3, <2>6 DEF Installed, In
    <3>. QED BY <1>3, <1>4, <2>1, <2>6, <3>1 DEF Resolves
  <2>. QED BY <1>2, <2>4, <2>5, <2>6
<1>5. \A v \in Worker : draft'[v] = draft[v] \/ draft'[v] = None
  <2>1. Leave(w) \/ UNCHANGED draft
    BY DEF WriteList, locals
  <2>. QED BY <2>1, LeaveInv
<1>. QED BY <1>1, <1>4, <1>5, CopyKept

\* What is there stays there when the step writes to neither value.
LEMMA StoredKept ==
  ASSUME UNCHANGED <<list, map>>, NEW w \in Worker, pc[w] \notin Installing,
         \A v \in Worker \ {w} : pc'[v] = pc[v] /\ op'[v] = op[v], answered'.gone = answered.gone,
         NEW x \in Name, Resolves(x)
  PROVE  Resolves(x)'
<1>1. Withdrawing(x) => Withdrawing(x)'
  BY DEF Withdrawing, Installing
<1>. QED BY <1>1 DEF Resolves, Installed

LEMMA ReadDefaultKept == ASSUME IInv, DefaultsKept, NEW w \in Worker, ReadDefault(w) PROVE DefaultsKept'
<1>1. /\ pc[w] = "readDefault" /\ pc[w] \notin Installing
      /\ UNCHANGED <<list, map, saved, answered, overlap, faults>>
  BY DEF ReadDefault, stored, Installing
<1>2. CASE Leave(w) /\ UNCHANGED cfg
  <2>1. \A x \in Name : Resolves(x) => Resolves(x)'
    BY <1>1, <1>2, LeaveInv, StoredKept
  <2>2. \A v \in Worker : draft'[v] = draft[v] \/ draft'[v] = None
    BY <1>2, LeaveInv
  <2>. QED BY <1>1, <1>2, <2>1, <2>2, CopyKept
<1>3. CASE op[w].name \in list
  <2> SUFFICES ASSUME ~overlap, faults = 0 PROVE DefaultsKept'
    BY <1>1 DEF DefaultsKept
  <2>1. PICK n \in Node, x \in list : n = op[w].node /\ x = op[w].name
    BY <1>1, <1>3 DEF IInv, OpInv
  <2>2. /\ cfg' = [cfg EXCEPT ![n].default = x]
        /\ draft' = [draft EXCEPT ![w] = cfg'[n]]
        /\ pc' = [pc EXCEPT ![w] = "save"]
        /\ UNCHANGED <<op, names, conf>>
    BY <1>3, <2>1 DEF ReadDefault, Goto
  <2>3. /\ x \in Name /\ cfg'[n].default = x
        /\ \A m \in Node \ {n} : cfg'[m] = cfg[m] /\ cfg[m].default \in Name \cup {None}
    BY <2>2 DEF IInv, TypeOK, Setting
  <2>4. draft'[w] = cfg'[n] /\ \A v \in Worker \ {w} : draft'[v] = draft[v]
    BY <2>2 DEF IInv, TypeOK
  <2>5. Resolves(x)'
    <3>1. list = In(map)
      BY <1>1, InStep
    <3>. QED BY <1>1, <3>1 DEF In, Installed, Resolves
  <2>6. \A y \in Name : Resolves(y) => Resolves(y)'
    <3>1. \A v \in Worker \ {w} : pc'[v] = pc[v] /\ op'[v] = op[v]
      BY <2>2 DEF IInv, TypeOK
    <3>. QED BY <1>1, <3>1, StoredKept
  <2>7. \A s \in Setting : Resolves(s.default) => Resolves(s.default)'
    <3>1. Resolves(None)'
      BY DEF Resolves
    <3>. QED BY <2>6, <3>1 DEF Setting
  <2>8. /\ saved \in Setting /\ Resolves(saved.default)
        /\ \A m \in Node : cfg[m] \in Setting /\ Resolves(cfg[m].default)
        /\ \A v \in Worker : draft[v] # None => draft[v] \in Setting /\ Resolves(draft[v].default)
    BY DEF DefaultsKept, IInv, TypeOK
  <2>. QED BY <1>1, <2>3, <2>4, <2>5, <2>7, <2>8 DEF DefaultsKept, Resolves, Installed, Withdrawing
<1>. QED BY <1>2, <1>3 DEF ReadDefault

LEMMA SaveConfigKept == ASSUME IInv, DefaultsKept, NEW w \in Worker, SaveConfig(w) PROVE DefaultsKept'
<1>1. /\ pc[w] = "save" /\ pc[w] \notin Installing /\ saved' = draft[w] /\ Leave(w)
      /\ UNCHANGED <<list, map, cfg, overlap, faults>>
  BY DEF SaveConfig, stored, Installing
<1>2. draft[w] # None
  BY <1>1, ConstantsAssumption DEF IInv, OpInv, TypeOK
<1>3. answered'.gone = answered.gone
  BY DEF SaveConfig, IInv, TypeOK
<1>4. \A x \in Name : Resolves(x) => Resolves(x)'
  BY <1>1, <1>3, LeaveInv, StoredKept
<1>5. \A v \in Worker : draft'[v] = draft[v] \/ draft'[v] = None
  BY <1>1, LeaveInv
<1>. QED BY <1>1, <1>2, <1>4, <1>5, CopyKept

LEMMA DefaultsNext == IInv /\ DefaultsKept /\ [Next]_vars => DefaultsKept'
<1> SUFFICES ASSUME IInv, DefaultsKept, [Next]_vars PROVE DefaultsKept'
  OBVIOUS
<1>1. ASSUME NEW w \in Worker, Step(w) PROVE DefaultsKept'
  <2>1. CASE Fail(w)
    <3>1. faults' # 0
      BY <2>1, Bounds DEF Fail, Fault
    <3>. QED BY <3>1 DEF DefaultsKept
  <2>. QED BY <1>1, <2>1, ReadListKept, ReadMapKept, WriteMapKept, WriteListKept, ReadDefaultKept,
              SaveConfigKept DEF Step
<1>2. ASSUME NEW n \in Node, OnConfigurationChange(n) PROVE DefaultsKept'
  <2>1. /\ \A m \in Node : cfg'[m] = cfg[m] \/ cfg'[m] = saved
        /\ UNCHANGED <<list, map, saved, pc, op, draft, answered, overlap, faults>>
    BY <1>2 DEF OnConfigurationChange, stored, locals, IInv, TypeOK
  <2>2. \A x \in Name : Resolves(x) => Resolves(x)'
    BY <2>1 DEF Resolves, Installed, Withdrawing
  <2>. QED BY <2>1, <2>2, CopyKept
<1>3. CASE UNCHANGED vars
  BY <1>3 DEF vars, DefaultsKept, Resolves, Installed, Withdrawing
<1>. QED BY <1>1, <1>2, <1>3, CommandKept DEF Next

-----------------------------------------------------------------------------
(* Instances: the theorems *)

LEMMA NextInv == IInv /\ [Next]_vars => IInv'
<1> SUFFICES ASSUME IInv, [Next]_vars PROVE IInv'
  OBVIOUS
<1>1. ASSUME NEW w \in Worker, Command(w) PROVE IInv'
  BY <1>1, ChooseURLInv, SubmitInv, MakeDefaultInv, CommandInv DEF Command
<1>2. ASSUME NEW w \in Worker, Step(w) PROVE IInv'
  BY <1>2, ReadListInv, ReadMapInv, WriteMapInv, WriteListInv, ReadDefaultInv, SaveConfigInv,
     FailInv DEF Step
<1>3. ASSUME NEW n \in Node, OnConfigurationChange(n) PROVE IInv'
  BY <1>3, OnConfigurationChangeInv
<1>4. CASE UNCHANGED vars
  <2>1. TypeOK'
    BY <1>4 DEF IInv, TypeOK, vars
  <2>2. OpInv' /\ WasInv'
    BY <1>4 DEF IInv, OpInv, WasInv, WasListed, vars
  <2>3. AloneInv'
    BY <1>4 DEF IInv, AloneInv, Alone, CopiesInv, Changed, In, vars
  <2>. QED BY <2>1, <2>2, <2>3 DEF IInv
<1>. QED BY <1>1, <1>2, <1>3, <1>4 DEF Next

LEMMA Invariant == Spec => []IInv
BY InitInv, NextInv, PTL DEF Spec

\* The state is well typed; and installations and removals that follow one another, on any
\* nodes, leave the list and the map of installInstance and uninstallInstance with the same
\* names, if no read or write fails.
THEOREM InStepAtRest == Spec => []InstancesInv
<1>1. IInv => InstancesInv
  <2> SUFFICES ASSUME IInv, Quiet, ~overlap, faults = 0 PROVE list = In(map)
    BY DEF IInv, InstancesInv, ListMatchesMap, In
  <2>. QED BY DEF IInv, AloneInv, CopiesInv, Quiet
<1>. QED BY <1>1, Invariant, PTL

\* setDefaultInstance, whoever calls it and however the operations overlap, saves only a name
\* that installInstance has listed before.
THEOREM DefaultListed == Spec => []DefaultWasInstalled
<1>1. IInv => DefaultWasInstalled
  BY DEF IInv, WasInv, WasListed, DefaultWasInstalled
<1>. QED BY <1>1, Invariant, PTL

\* getInstance finds the default instance: a default that no operation on it is changing and
\* that nobody uninstalled is listed and in the map, on every node, as long as operations
\* follow one another and none fails in the middle.
THEOREM DefaultFound == Spec => []DefaultResolves
<1>1. Init => DefaultsKept
  BY DEF Init, DefaultsKept, Resolves
<1>2. IInv /\ DefaultsKept => DefaultResolves
  BY DEF DefaultsKept, Resolves, Withdrawing, DefaultResolves, Withdrawn
<1>3. IInv' /\ IInv /\ DefaultsKept /\ [Next]_vars => DefaultsKept'
  BY DefaultsNext
<1>. QED BY <1>1, <1>2, <1>3, Invariant, PTL DEF Spec

-----------------------------------------------------------------------------
(* GitlabClient: the items at some positions of a list *)

\* How many of the positions in K do not come after k.
Rank(K, k) == Cardinality({j \in K : j <= k})

LEMMA RankType ==
  ASSUME NEW N \in Nat, NEW K \in SUBSET (1 .. N), NEW k \in Nat
  PROVE  /\ IsFiniteSet(K) /\ Cardinality(K) \in Nat
         /\ Rank(K, k) \in Nat /\ Rank(K, k) <= Cardinality(K)
         /\ k \in K => Rank(K, k) > 0
<1>1. IsFiniteSet(K) /\ Cardinality(K) \in Nat
  <2>1. IsFiniteSet(1 .. N)
    BY FS_Interval
  <2>2. IsFiniteSet(K)
    BY <2>1, FS_Subset
  <2>. QED BY <2>2, FS_CardinalityType
<1>2. {j \in K : j <= k} \in SUBSET K
  OBVIOUS
<1>3. IsFiniteSet({j \in K : j <= k}) /\ Rank(K, k) <= Cardinality(K)
  BY <1>1, <1>2, FS_Subset DEF Rank
<1>4. Rank(K, k) \in Nat
  BY <1>3, FS_CardinalityType DEF Rank
<1>5. ASSUME k \in K PROVE Rank(K, k) # 0
  <2>1. {j \in K : j <= k} # {}
    BY <1>5
  <2>. QED BY <1>3, <2>1, FS_EmptySet DEF Rank
<1>. QED BY <1>1, <1>3, <1>4, <1>5

\* Of two positions the later one has the higher rank.
LEMMA RankGrows ==
  ASSUME NEW N \in Nat, NEW K \in SUBSET (1 .. N), NEW k \in K, NEW l \in K, k < l
  PROVE  Rank(K, k) < Rank(K, l)
<1> DEFINE A == {j \in K : j <= k}
           B == {j \in K : j <= l}
<1>1. IsFiniteSet(B)
  BY RankType, FS_Subset
<1>2. A \in SUBSET B /\ l \in B /\ l \notin A
  <2>1. k \in Nat /\ l \in Nat /\ \A j \in K : j \in Nat
    OBVIOUS
  <2>2. \A j \in A : j \in B
    BY <2>1
  <2>3. l \in B /\ l \notin A
    BY <2>1
  <2>. QED BY <2>2, <2>3
<1>3. Cardinality(A) <= Cardinality(B) /\ Cardinality(A) # Cardinality(B)
  BY <1>1, <1>2, FS_Subset
<1>4. Cardinality(A) \in Nat /\ Cardinality(B) \in Nat
  <2>1. k \in Nat /\ l \in Nat
    OBVIOUS
  <2>. QED BY <2>1, RankType DEF Rank
<1>. QED BY <1>3, <1>4 DEF Rank

\* Every rank is that of a position.
LEMMA RankTaken ==
  ASSUME NEW N \in Nat, NEW K \in SUBSET (1 .. N), NEW n \in 1 .. Cardinality(K)
  PROVE  \E k \in K : Rank(K, k) = n
<1> DEFINE B == {m \in Nat : Rank(K, m) >= n}
<1>1. N \in B
  <2>1. \A j \in K : j <= N
    OBVIOUS
  <2>2. {j \in K : j <= N} = K
    BY <2>1
  <2>3. Cardinality(K) \in Nat
    BY RankType
  <2>. QED BY <2>2, <2>3 DEF Rank
<1>2. PICK m \in B : \A y \in B : ~ (<<y, m>> \in OpToRel(<, Nat))
  BY <1>1, NatLessThanWellFounded, WFMin, Zenon
<1>3. m \in Nat /\ Rank(K, m) >= n
  OBVIOUS
<1>4. m # 0
  <2>1. \A j \in K : ~ (j <= 0)
    OBVIOUS
  <2>3. {j \in K : j <= 0} = {}
    BY <2>1
  <2>2. Rank(K, 0) = 0
    BY <2>3, FS_EmptySet DEF Rank
  <2>. QED BY <1>3, <2>2
<1>5. m - 1 \in Nat /\ Rank(K, m - 1) < n
  <2>1. m - 1 \in Nat /\ m - 1 < m
    BY <1>3, <1>4
  <2>2. <<m - 1, m>> \in OpToRel(<, Nat)
    BY <1>3, <2>1 DEF OpToRel
  <2>3. m - 1 \notin B
    BY <1>2, <2>2, Zenon
  <2>4. ~ (Rank(K, m - 1) >= n)
    BY <2>1, <2>3
  <2>5. Rank(K, m - 1) \in Nat
    BY <2>1, RankType
  <2>. QED BY <2>1, <2>4, <2>5
<1> HIDE DEF B
<1>6. m \in K
  <2>1. SUFFICES ASSUME m \notin K PROVE FALSE
    OBVIOUS
  <2>2. \A j \in K : j <= m <=> j <= m - 1
    BY <1>3, <2>1
  <2>3. {j \in K : j <= m} = {j \in K : j <= m - 1}
    BY <2>2
  <2>4. Rank(K, m) = Rank(K, m - 1)
    BY <2>3 DEF Rank
  <2>5. Rank(K, m - 1) \in Nat
    BY <1>5, RankType
  <2>. QED BY <1>3, <1>5, <2>4, <2>5
<1>7. Rank(K, m) = Rank(K, m - 1) + 1
  <2> DEFINE A == {j \in K : j <= m - 1}
  <2>0. \A j \in K : j <= m <=> j <= m - 1 \/ j = m
    BY <1>3
  <2>1. {j \in K : j <= m} = A \cup {m} /\ m \notin A
    <3>1. m <= m /\ ~ (m <= m - 1)
      BY <1>3
    <3>2. \A j \in K : j <= m <=> j \in A \cup {m}
      BY <2>0
    <3>3. \A j \in A \cup {m} : j \in K
      BY <1>6
    <3>. QED BY <3>1, <3>2, <3>3
  <2>2. IsFiniteSet(A)
    BY RankType, FS_Subset
  <2>3. Cardinality(A \cup {m}) = Cardinality(A) + 1
    BY <2>1, <2>2, FS_AddElement
  <2>. QED BY <2>1, <2>3 DEF Rank
<1>8. Rank(K, m) = n
  <2>1. Rank(K, m - 1) \in Nat
    BY <1>5, RankType
  <2>. QED BY <1>3, <1>5, <1>7, <2>1
<1>. QED BY <1>6, <1>8

LEMMA AtRank ==
  ASSUME NEW S, NEW s \in Seq(S), NEW K \in SUBSET DOMAIN s, NEW k \in K
  PROVE  Rank(K, k) \in 1 .. Cardinality(K) /\ At(s, K)[Rank(K, k)] = s[k]
<1>1. DOMAIN s = 1 .. Len(s) /\ Len(s) \in Nat /\ k \in Nat
  OBVIOUS
<1>2. Rank(K, k) \in 1 .. Cardinality(K)
  <2>1. /\ Rank(K, k) \in Nat /\ Rank(K, k) <= Cardinality(K) /\ Rank(K, k) > 0
        /\ Cardinality(K) \in Nat
    BY <1>1, RankType
  <2>. QED BY <2>1
<1>3. \A l \in K : Rank(K, l) = Rank(K, k) => l = k
  <2> SUFFICES ASSUME NEW l \in K, Rank(K, l) = Rank(K, k), l # k PROVE FALSE
    OBVIOUS
  <2>1. l \in Nat /\ (l < k \/ k < l)
    BY <1>1
  <2>2. Rank(K, l) < Rank(K, k) \/ Rank(K, k) < Rank(K, l)
    BY <1>1, <2>1, RankGrows
  <2>3. Rank(K, k) \in Nat
    BY <1>2
  <2>. QED BY <2>2, <2>3
<1>4. (CHOOSE l \in K : Rank(K, l) = Rank(K, k)) = k
  BY <1>3
<1>. QED BY <1>2, <1>4 DEF At, Rank

LEMMA AtElements ==
  ASSUME NEW S, NEW s \in Seq(S), NEW K \in SUBSET DOMAIN s
  PROVE  /\ At(s, K) \in Seq(S) /\ Len(At(s, K)) = Cardinality(K) /\ Cardinality(K) \in Nat
         /\ DOMAIN At(s, K) = 1 .. Cardinality(K)
         /\ \A n \in DOMAIN At(s, K) : \E k \in K : At(s, K)[n] = s[k] /\ Rank(K, k) = n
<1>1. DOMAIN s = 1 .. Len(s) /\ Len(s) \in Nat
  OBVIOUS
<1>2. Cardinality(K) \in Nat
  BY <1>1, RankType
<1>3. DOMAIN At(s, K) = 1 .. Cardinality(K)
  BY DEF At
<1>4. ASSUME NEW n \in 1 .. Cardinality(K) PROVE \E k \in K : At(s, K)[n] = s[k] /\ Rank(K, k) = n
  <2>1. PICK k \in K : Rank(K, k) = n
    BY <1>1, RankTaken
  <2>2. At(s, K)[Rank(K, k)] = s[k]
    BY AtRank
  <2>. QED BY <2>1, <2>2
<1>5. At(s, K) = [n \in 1 .. Cardinality(K) |-> At(s, K)[n]]
  BY DEF At
<1>6. \A n \in 1 .. Cardinality(K) : At(s, K)[n] \in S
  BY <1>4
<1>7. At(s, K) \in [1 .. Cardinality(K) -> S]
  BY <1>5, <1>6
<1>8. At(s, K) \in Seq(S)
  BY <1>2, <1>7
<1>. QED BY <1>2, <1>3, <1>4, <1>8

LEMMA AtAll == ASSUME NEW S, NEW s \in Seq(S) PROVE At(s, DOMAIN s) = s
<1>1. DOMAIN s = 1 .. Len(s) /\ Len(s) \in Nat
  OBVIOUS
<1>2. Cardinality(DOMAIN s) = Len(s)
  BY <1>1, FS_Interval
<1>3. ASSUME NEW n \in 1 .. Len(s) PROVE At(s, DOMAIN s)[n] = s[n]
  <2>1. {j \in DOMAIN s : j <= n} = 1 .. n
    BY <1>1
  <2>2. Cardinality(1 .. n) = n
    BY FS_Interval
  <2>3. Rank(DOMAIN s, n) = n
    BY <2>1, <2>2 DEF Rank
  <2>. QED BY <1>1, <2>3, AtRank
<1>4. At(s, DOMAIN s) \in Seq(S) /\ Len(At(s, DOMAIN s)) = Len(s)
  BY <1>2, AtElements
<1>. QED BY <1>3, <1>4

LEMMA AtNone == ASSUME NEW S, NEW s \in Seq(S) PROVE At(s, {}) = <<>>
<1>1. At(s, {}) \in Seq(S) /\ Len(At(s, {})) = 0
  BY AtElements, FS_EmptySet
<1>. QED BY <1>1

LEMMA AtMore ==
  ASSUME NEW S, NEW s \in Seq(S), NEW n \in DOMAIN s, NEW K \in SUBSET (1 .. n - 1)
  PROVE  At(s, K \cup {n}) = Append(At(s, K), s[n])
<1> DEFINE L == K \cup {n}
<1>1. DOMAIN s = 1 .. Len(s) /\ Len(s) \in Nat /\ n \in Nat /\ n <= Len(s)
  OBVIOUS
<1>2. K \in SUBSET DOMAIN s /\ L \in SUBSET DOMAIN s /\ n \notin K
  <2>1. \A k \in K : k # n /\ k \in DOMAIN s
    BY <1>1
  <2>. QED BY <2>1
<1>3. IsFiniteSet(K) /\ Cardinality(K) \in Nat
  BY <1>1, <1>2, RankType
<1>4. Cardinality(L) = Cardinality(K) + 1
  BY <1>2, <1>3, FS_AddElement
<1>5. ASSUME NEW k \in K PROVE Rank(L, k) = Rank(K, k)
  <2>0. k < n /\ k \in Nat
    BY <1>1
  <2>1. {j \in L : j <= k} = {j \in K : j <= k}
    BY <1>1, <2>0
  <2>. QED BY <2>1 DEF Rank
<1>6. Rank(L, n) = Cardinality(L)
  <2>0. \A j \in L : j <= n
    BY <1>1
  <2>1. {j \in L : j <= n} = L
    BY <2>0
  <2>. QED BY <2>1 DEF Rank
<1> HIDE DEF L
<1>7. /\ At(s, L) \in Seq(S) /\ Len(At(s, L)) = Cardinality(K) + 1
      /\ At(s, K) \in Seq(S) /\ Len(At(s, K)) = Cardinality(K)
  BY <1>2, <1>4, AtElements
<1>8. ASSUME NEW i \in 1 .. Cardinality(K) PROVE At(s, L)[i] = At(s, K)[i]
  <2>1. PICK k \in K : At(s, K)[i] = s[k] /\ Rank(K, k) = i
    <3>1. i \in DOMAIN At(s, K)
      BY <1>2, AtElements
    <3>. QED BY <1>2, <3>1, AtElements
  <2>2. k \in L
    BY DEF L
  <2>. QED BY <1>2, <1>5, <2>1, <2>2, AtRank
<1>9. At(s, L)[Cardinality(K) + 1] = s[n]
  <2>1. n \in L
    BY DEF L
  <2>. QED BY <1>2, <1>4, <1>6, <2>1, AtRank
<1>10. At(s, L) = Append(At(s, K), s[n])
  BY <1>3, <1>7, <1>8, <1>9
<1>. QED BY <1>10 DEF L

-----------------------------------------------------------------------------
(* Pages *)

Before(n) == (n - 1) * PageSize

LEMMA PageNumbers ==
  ASSUME NEW n \in Nat \ {0}
  PROVE  /\ Before(n) \in Nat /\ n * PageSize \in Nat /\ n * PageSize = Before(n) + PageSize
         /\ Before(n + 1) = n * PageSize /\ PageSize \in Nat /\ PageSize > 0
<1>1. PageSize \in Nat /\ PageSize > 0
  BY ClientAssumption
<1>2. (n - 1) \in Nat
  OBVIOUS
<1>3. (n - 1) * PageSize \in Nat
  BY <1>1, <1>2
<1>4. n * PageSize = (n - 1) * PageSize + PageSize
  BY <1>1, <1>2
<1>. QED BY <1>1, <1>3, <1>4 DEF Before

LEMMA FirstPage == Before(1) = 0
BY ClientAssumption DEF Before

LEMMA PageItems ==
  ASSUME NEW S, NEW s \in Seq(S), NEW n \in Nat \ {0}
  PROVE  /\ PageAt(s, n) \in Seq(S)
         /\ \A k \in DOMAIN PageAt(s, n) : \E j \in DOMAIN s : PageAt(s, n)[k] = s[j]
<1> DEFINE m == Before(n) + 1
           e == IF n * PageSize < Len(s) THEN n * PageSize ELSE Len(s)
<1>1. m \in Nat /\ m > 0 /\ e \in Nat /\ e <= Len(s) /\ Len(s) \in Nat /\ DOMAIN s = 1 .. Len(s)
  <2>1. Before(n) \in Nat /\ n * PageSize \in Nat
    BY PageNumbers
  <2>2. Len(s) \in Nat /\ DOMAIN s = 1 .. Len(s)
    OBVIOUS
  <2>. QED BY <2>1, <2>2
<1>2. PageAt(s, n) = SubSeq(s, m, e)
  BY DEF PageAt, Before
<1> HIDE DEF m, e
<1>3. \A i \in m .. e : i \in DOMAIN s /\ s[i] \in S
  BY <1>1
<1>4. /\ SubSeq(s, m, e) \in Seq(S)
      /\ Len(SubSeq(s, m, e)) = IF m <= e THEN e - m + 1 ELSE 0
      /\ \A i \in 1 .. e - m + 1 : SubSeq(s, m, e)[i] = s[m + i - 1]
  BY <1>1, <1>3, SubSeqProperties
<1>5. ASSUME NEW k \in DOMAIN SubSeq(s, m, e) PROVE \E j \in DOMAIN s : SubSeq(s, m, e)[k] = s[j]
  <2>1. k \in 1 .. Len(SubSeq(s, m, e))
    BY <1>4
  <2>2. k \in 1 .. e - m + 1 /\ m + k - 1 \in DOMAIN s
    BY <1>1, <1>4, <2>1
  <2>. QED BY <1>4, <2>2
<1>. QED BY <1>2, <1>4, <1>5

\* What has been read before page n, and page n.
LEMMA PageJoins ==
  ASSUME NEW S, NEW s \in Seq(S), NEW n \in Nat \ {0}, Before(n) <= Len(s)
  PROVE  SubSeq(s, 1, Before(n)) \o PageAt(s, n) =
             IF n * PageSize < Len(s) THEN SubSeq(s, 1, n * PageSize) ELSE s
<1> DEFINE b == Before(n)
           e == IF n * PageSize < Len(s) THEN n * PageSize ELSE Len(s)
<1>1. b \in 0 .. Len(s) /\ e \in b .. Len(s) /\ Len(s) \in Nat
  <2> DEFINE p == n * PageSize
  <2>1. Before(n) \in Nat /\ p \in Nat /\ p = Before(n) + PageSize /\ PageSize \in Nat
    BY PageNumbers
  <2> HIDE DEF p
  <2>2. Before(n) <= p /\ Len(s) \in Nat
    BY <2>1
  <2>3. e = IF p < Len(s) THEN p ELSE Len(s)
    BY DEF p
  <2> HIDE DEF e
  <2>. QED BY <2>1, <2>2, <2>3
<1>2. PageAt(s, n) = SubSeq(s, b + 1, e)
  BY DEF PageAt, Before
<1> HIDE DEF b, e
<1>3. SubSeq(s, 1, b) \o SubSeq(s, b + 1, e) = SubSeq(s, 1, e)
  <2>1. 1 \in 1 .. Len(s) + 1 /\ b \in 1 - 1 .. Len(s)
    BY <1>1
  <2>. QED BY <1>1, <2>1, ConcatAdjacentSubSeq
<1>4. SubSeq(s, 1, Len(s)) = s
  BY SubSeqFull
<1>. QED BY <1>2, <1>3, <1>4 DEF b, e

\* The page that TotalPages names is the last one.
LEMMA PagesSuffice ==
  ASSUME NEW S, NEW s \in Seq(S), NEW n \in Nat \ {0}, n >= TotalPages(s, TRUE)
  PROVE  Len(s) <= n * PageSize
<1> DEFINE a == Len(s) + PageSize - 1
           q == a \div PageSize
<1>1. PageSize \in Nat /\ PageSize > 0 /\ Len(s) \in Nat /\ a \in Nat
  BY ClientAssumption
<1>2. q \in Int /\ a = PageSize * q + (a % PageSize) /\ a % PageSize \in 0 .. PageSize - 1
  BY <1>1
<1>3. n >= q
  BY DEF TotalPages
<1> HIDE DEF q
<1>4. PageSize * q <= PageSize * n
  BY <1>1, <1>2, <1>3
<1>5. PageSize * n = n * PageSize /\ PageSize * n \in Int /\ PageSize * q \in Int
  BY <1>1, <1>2
<1>. QED BY <1>1, <1>2, <1>4, <1>5

-----------------------------------------------------------------------------
(* GitlabClient: the inductive invariant *)

ThreadState == [at : CallStep, page : Nat \ {0}, got : Seq(Item), own : BOOLEAN]

\* The calls whose lists AnswerComplete is about.
Whole == {"lists", "projects", "details", "labels"}

\* What a goroutine may do next.
StepsOf(t) ==
    {"over"} \cup
    (IF ~ Running THEN {}
     ELSE IF call.op \in Concurrent THEN (IF t = "main" THEN {} ELSE {"page", "store", "return"})
     ELSE IF t # "main" THEN {}
     ELSE IF call.op = "change" THEN {"check", "change"}
     ELSE IF call.op \in OnProject THEN {"check", "page"}
     ELSE IF call.op = "details" THEN {"sift", "fetch"} ELSE {"page"})

\* What a call on a project may touch.
MayTouch(p) == IF call.op = "bynumber" THEN PathAllowedThen ELSE AllowedThen(p)

\* An item that a goroutine may have in its list. Todos are filtered when all are read.
Fits(t, at, i) ==
    /\ call.op \in OnProject => Of(i) = call.project
    /\ call.op = "details" => AllowedThen(Of(i))
    /\ call.op \notin OnProject \cup {"details"} =>
           IF t = "todos" THEN at = "page" \/ AllowedThen(Of(i))
           ELSE call.group = Nothing \/ call.group \in groups[Of(i)]

\* The positions of the first n - 1 items that are allowed.
Sifted(s, n) == {k \in DOMAIN s : k < n /\ AllowedThen(Of(s[k]))}

\* How far a goroutine has come when nothing failed and nothing changed.
Complete(t, r) ==
    Running /\ failed = {} /\ Undisturbed /\ call.op \in Whole =>
        /\ r.at = "check" => r.page = 1 /\ r.got = <<>>
        /\ r.at = "sift" => r.page <= Len(content[t]) + 1 /\ r.got = At(content[t], Sifted(content[t], r.page))
        /\ r.at = "page" => Before(r.page) <= Len(Visible(t)) /\ r.got = SubSeq(Visible(t), 1, Before(r.page))
        /\ r.at \in {"fetch", "store", "return", "over"} => r.got = AllowedPart(content[t])

\* A goroutine in state r.
RecordOK(t, r) ==
    /\ r.at \in StepsOf(t)
    /\ Running /\ call.op \in OnProject /\ r.at \in {"page", "change"} => MayTouch(call.project)
    /\ Running => \A k \in DOMAIN r.got : Fits(t, r.at, r.got[k])
    /\ r.own => failed # {}
    /\ Totals = {TRUE} => Complete(t, r)

ThreadsOK == \A t \in Thread : RecordOK(t, thread[t])

\* A call, the histories, which are of its time, and the lists GitLab has for it.
CallKept ==
    /\ call = NoCall => answer = NoAnswer /\ failed = {} /\ err = FALSE
    /\ call # NoCall =>
           /\ call.op \in Op
           /\ lock \in locks /\ \A p \in Project : group[p] \in groups[p]
           /\ call.op \in OnProject =>
                  /\ call.project \in Project
                  /\ \A t \in Thread : \A k \in DOMAIN content[t] : Of(content[t][k]) = call.project
           /\ \A t \in Thread : (t # "main") # (call.op \in Concurrent) => content[t] = <<>>
    /\ err => failed # {}

\* An item that an answer may show: one that is allowed, or of the client's group, which a
\* lock may still come to name.
MayShow(i) ==
    \/ MayTouch(Of(i))
    \/ /\ call.op \notin OnProject \cup {"details"}
       /\ call.group = Nothing \/ call.group \in groups[Of(i)]

AnswerLocked ==
    answer # NoAnswer =>
        /\ \A p \in answer.about : MayTouch(p)
        /\ \A t \in Thread : \A k \in DOMAIN answer.items[t] : MayShow(answer.items[t][k])

AnswerKept == AnswerLocked /\ ErrorHasReason /\ (Totals = {TRUE} => AnswerComplete)

ClientIInv == ClientTypeOK /\ CallKept /\ ThreadsOK /\ AnswerKept

-----------------------------------------------------------------------------
(* GitlabClient: the lists *)

LEMMA ItemIs == ASSUME NEW i \in Item PROVE Of(i) \in Project
BY DEF Item, Of

\* What the lock of the moment allows, a lock of the call allows.
LEMMA AllowedNow ==
  ASSUME CallKept, call # NoCall, NEW p \in Project, Allowed(p)
  PROVE  AllowedThen(p)
BY DEF CallKept, Allowed, AllowedThen

LEMMA AllowedAsThen ==
  ASSUME CallKept, call # NoCall, Undisturbed, NEW p \in Project
  PROVE  /\ Allowed(p) <=> AllowedThen(p)
         /\ AllowedThen(p) <=> call.group = Nothing \/ group[p] = call.group
<1>1. lock \in locks /\ locks = {call.group} /\ groups[p] = {group[p]}
  BY DEF CallKept, Undisturbed
<1>2. lock = call.group
  BY <1>1
<1>3. AllowedThen(p) <=> call.group = Nothing \/ group[p] = call.group
  BY <1>1 DEF AllowedThen
<1>. QED BY <1>2, <1>3 DEF Allowed

LEMMA AllowedInIs ==
  ASSUME CallKept, call # NoCall, Undisturbed, NEW s \in Seq(Item)
  PROVE  /\ At(s, AllowedIn(s)) = AllowedPart(s)
         /\ call.group # Nothing => At(s, OfGroup(s)) = AllowedPart(s)
         /\ call.group = Nothing => s = AllowedPart(s)
<1> DEFINE K == {k \in DOMAIN s : AllowedThen(Of(s[k]))}
<1>1. \A k \in DOMAIN s : Of(s[k]) \in Project
  BY ItemIs
<1>2. AllowedIn(s) = K
  BY <1>1, AllowedAsThen DEF AllowedIn
<1>3. call.group # Nothing => OfGroup(s) = K
  BY <1>1, AllowedAsThen DEF OfGroup
<1>4. call.group = Nothing => DOMAIN s = K
  BY <1>1, AllowedAsThen
<1>. QED BY <1>2, <1>3, <1>4, AtAll DEF AllowedPart

LEMMA NoPart == AllowedPart(<<>>) = <<>>
<1>1. {k \in DOMAIN <<>> : AllowedThen(Of(<<>>[k]))} = {}
  OBVIOUS
<1>2. <<>> \in Seq(Item)
  OBVIOUS
<1>. QED BY <1>1, <1>2, AtNone DEF AllowedPart

LEMMA FitsAnswer ==
  ASSUME NEW i \in Item, NEW t, NEW at, Fits(t, at, i),
         at # "page" \/ t # "todos" \/ call.op \in OnProject,
         call.op \in OnProject => MayTouch(call.project)
  PROVE  MayShow(i)
<1>1. CASE call.op \in OnProject
  BY <1>1 DEF Fits, MayShow
<1>2. CASE call.op = "details"
  BY <1>2 DEF Fits, MayShow, MayTouch
<1>3. CASE call.op \notin OnProject \cup {"details"}
  BY <1>3 DEF Fits, MayShow, MayTouch, OnProject
<1>. QED BY <1>1, <1>2, <1>3

LEMMA OthersSteps == \A o \in OnProject : o # "details" /\ o \notin Concurrent
BY DEF OnProject, Concurrent

LEMMA VisibleFits ==
  ASSUME ClientTypeOK, CallKept, call # NoCall, call.op # "details", NEW t \in Thread
  PROVE  /\ Visible(t) \in Seq(Item)
         /\ \A k \in DOMAIN Visible(t) : Fits(t, "page", Visible(t)[k])
<1>1. content[t] \in Seq(Item)
  BY DEF ClientTypeOK
<1>2. CASE call.op \in OnProject
  BY <1>1, <1>2 DEF Visible, Fits, CallKept
<1>3. CASE call.op \notin OnProject /\ (call.group = Nothing \/ t = "todos")
  BY <1>1, <1>3 DEF Visible, Fits
<1>4. CASE call.op \notin OnProject /\ call.group # Nothing /\ t # "todos"
  <2>1. Visible(t) = At(content[t], OfGroup(content[t]))
    BY <1>4 DEF Visible
  <2>2. OfGroup(content[t]) \in SUBSET DOMAIN content[t]
    BY DEF OfGroup
  <2>3. ASSUME NEW k \in DOMAIN Visible(t) PROVE Fits(t, "page", Visible(t)[k])
    <3>1. PICK j \in OfGroup(content[t]) : Visible(t)[k] = content[t][j]
      BY <1>1, <2>1, <2>2, AtElements
    <3>2. group[Of(content[t][j])] = call.group /\ content[t][j] \in Item
      BY <1>1 DEF OfGroup
    <3>3. call.group \in groups[Of(content[t][j])]
      BY <3>2, ItemIs DEF CallKept
    <3>. QED BY <1>4, <3>1, <3>3 DEF Fits
  <2>. QED BY <1>1, <2>1, <2>2, <2>3, AtElements
<1>. QED BY <1>2, <1>3, <1>4

\* What GetToDoList keeps and GetLabelDetails makes of a list.
LEMMA KeptFits ==
  ASSUME CallKept, call # NoCall, NEW t \in Thread, NEW s \in Seq(Item),
         \A k \in DOMAIN s : Fits(t, "page", s[k]), t = "todos" => call.op \in Concurrent
  PROVE  /\ Detailed(Kept(t, s)) \in Seq(Item)
         /\ \A k \in DOMAIN Detailed(Kept(t, s)) : Fits(t, "store", Detailed(Kept(t, s))[k])
<1>1. Kept(t, s) \in Seq(Item) /\ \A k \in DOMAIN Kept(t, s) : Fits(t, "store", Kept(t, s)[k])
  <2>1. CASE t # "todos"
    <3>1. Kept(t, s) = s
      BY <2>1 DEF Kept
    <3>2. \A k \in DOMAIN s : Fits(t, "store", s[k])
      BY <2>1 DEF Fits
    <3>. QED BY <3>1, <3>2
  <2>2. CASE t = "todos"
    <3>1. Kept(t, s) = At(s, AllowedIn(s)) /\ AllowedIn(s) \in SUBSET DOMAIN s
      BY <2>2 DEF Kept, AllowedIn
    <3>2. ASSUME NEW k \in DOMAIN Kept(t, s) PROVE Fits(t, "store", Kept(t, s)[k])
      <4>1. PICK j \in AllowedIn(s) : Kept(t, s)[k] = s[j]
        BY <3>1, AtElements
      <4>2. s[j] \in Item /\ Allowed(Of(s[j]))
        BY DEF AllowedIn
      <4>3. AllowedThen(Of(s[j]))
        BY <4>2, ItemIs, AllowedNow
      <4>4. call.op \notin OnProject /\ call.op # "details"
        BY <2>2, OthersSteps DEF Concurrent
      <4>. QED BY <2>2, <4>1, <4>3, <4>4 DEF Fits
    <3>. QED BY <3>1, <3>2, AtElements
  <2>. QED BY <2>1, <2>2
<1>2. CASE Detailed(Kept(t, s)) = Kept(t, s)
  BY <1>1, <1>2
<1>3. CASE Detailed(Kept(t, s)) = <<>>
  <2>1. <<>> \in Seq(Item) /\ DOMAIN <<>> = {}
    OBVIOUS
  <2>. QED BY <1>3, <2>1
<1>. QED BY <1>2, <1>3 DEF Detailed

\* The end of a list of which nothing is missing.
LEMMA KeptWhole ==
  ASSUME ClientTypeOK, CallKept, call # NoCall, Undisturbed, NEW t \in Thread,
         call.op \in Whole, t = "todos" => call.op \in Concurrent,
         call.op \in OnProject => MayTouch(call.project)
  PROVE  Detailed(Kept(t, Visible(t))) = AllowedPart(content[t])
<1>1. content[t] \in Seq(Item)
  BY DEF ClientTypeOK
<1>2. \A s : Detailed(s) = s
  BY DEF Detailed, Whole
<1>3. CASE t = "todos"
  <2>1. Visible(t) = content[t]
    BY <1>3 DEF Visible
  <2>. QED BY <1>1, <1>2, <1>3, <2>1, AllowedInIs DEF Kept
<1>4. CASE t # "todos" /\ call.op \in OnProject
  <2>1. \A k \in DOMAIN content[t] : AllowedThen(Of(content[t][k]))
    BY <1>4 DEF CallKept, MayTouch, Whole
  <2>2. {k \in DOMAIN content[t] : AllowedThen(Of(content[t][k]))} = DOMAIN content[t]
    BY <2>1
  <2>3. AllowedPart(content[t]) = content[t]
    BY <1>1, <2>2, AtAll DEF AllowedPart
  <2>. QED BY <1>2, <1>4, <2>3 DEF Kept, Visible
<1>5. CASE t # "todos" /\ call.op \notin OnProject
  BY <1>1, <1>2, <1>5, AllowedInIs DEF Kept, Visible
<1>. QED BY <1>3, <1>4, <1>5

-----------------------------------------------------------------------------
(* GitlabClient: a step of a goroutine *)

\* What no step of a call changes.
Still == UNCHANGED <<lock, group, content, call, locks, groups>>

\* The exchange with GitLab fails or succeeds.
Exchanged ==
    failed \subseteq failed' /\ failed' \subseteq Thread /\ failures' \in 0 .. MaxFailures

LEMMA StillSame ==
  ASSUME Still
  PROVE  /\ (Undisturbed' <=> Undisturbed)
         /\ \A p : AllowedThen(p)' <=> AllowedThen(p)
         /\ \A p : MayTouch(p)' <=> MayTouch(p)
         /\ \A t, at, i : Fits(t, at, i)' <=> Fits(t, at, i)
         /\ \A t : Visible(t)' = Visible(t)
         /\ \A i : MayShow(i)' <=> MayShow(i)
BY DEF MayShow, MayTouch, PathAllowedThen, Still, Undisturbed, AllowedThen, Fits, Visible, At, OfGroup

LEMMA StillPart ==
  ASSUME Still
  PROVE  /\ \A s, n : Sifted(s, n)' = Sifted(s, n)
         /\ \A s : AllowedPart(s)' = AllowedPart(s)
BY DEF Still, AllowedThen, Sifted, AllowedPart, At

LEMMA StillRecord ==
  ASSUME Still, answer' = answer, failed \subseteq failed', NEW t, NEW r,
         r.at \in StepsOf(t),
         Running /\ call.op \in OnProject /\ r.at \in {"page", "change"} => MayTouch(call.project),
         Running => \A k \in DOMAIN r.got : Fits(t, r.at, r.got[k]),
         r.own => failed' # {},
         Totals = {TRUE} /\ failed' = {} => Complete(t, r)
  PROVE  RecordOK(t, r)'
<1>1. (Running' <=> Running) /\ call' = call /\ content' = content
  BY DEF Still, Running
<1>2. StepsOf(t)' = StepsOf(t)
  BY <1>1 DEF StepsOf
<1>3. Totals = {TRUE} => Complete(t, r)'
  <2> SUFFICES ASSUME Totals = {TRUE}, (Running /\ failed = {} /\ Undisturbed /\ call.op \in Whole)'
               PROVE  Complete(t, r)'
    BY DEF Complete
  <2>1. Running /\ failed = {} /\ Undisturbed /\ call.op \in Whole
    BY <1>1, StillSame
  <2>2. Complete(t, r)
    OBVIOUS
  <2>. QED BY <1>1, <2>1, <2>2, StillSame, StillPart DEF Complete
<1>. QED BY <1>1, <1>2, <1>3, StillSame DEF RecordOK

LEMMA MoveInv ==
  ASSUME ClientIInv, Running, NEW t \in Thread, NEW r \in ThreadState,
         thread' = [thread EXCEPT ![t] = r], Still, Exchanged, UNCHANGED <<answer, client, saving, changes>>,
         err' \in BOOLEAN, err' => failed' # {},
         r.at \in StepsOf(t),
         call.op \in OnProject /\ r.at \in {"page", "change"} => MayTouch(call.project),
         \A k \in DOMAIN r.got : Fits(t, r.at, r.got[k]),
         r.own => failed' # {},
         Totals = {TRUE} /\ failed' = {} => Complete(t, r)
  PROVE  ClientIInv'
<1>1. ClientTypeOK'
  <2>1. thread' \in [Thread -> ThreadState]
    BY DEF ClientIInv, ClientTypeOK, ThreadState
  <2>. QED BY <2>1 DEF ClientIInv, ClientTypeOK, ThreadState, Still, Exchanged
<1>2. CallKept'
  BY DEF ClientIInv, CallKept, Running, Still, Exchanged
<1>3. ThreadsOK'
  <2> SUFFICES ASSUME NEW u \in Thread PROVE RecordOK(u, thread[u])'
    BY DEF ThreadsOK
  <2>1. CASE u = t
    <3>1. thread'[u] = r
      BY <2>1 DEF ClientIInv, ClientTypeOK
    <3>2. RecordOK(t, r)'
      BY StillRecord DEF Exchanged
    <3>. QED BY <2>1, <3>1, <3>2 DEF RecordOK, Complete, StepsOf, Running, Visible, Undisturbed, Fits, AllowedThen
  <2>2. CASE u # t
    <3>1. PICK q : q = thread[u]
      OBVIOUS
    <3>2. thread'[u] = q
      BY <2>2, <3>1 DEF ClientIInv, ClientTypeOK
    <3>3. RecordOK(u, q)
      BY <3>1 DEF ClientIInv, ThreadsOK
    <3>4. RecordOK(u, q)'
      BY <3>3, StillRecord DEF RecordOK, Exchanged
    <3>. QED BY <3>2, <3>4 DEF RecordOK, Complete
  <2>. QED BY <2>1, <2>2
<1>4. AnswerKept'
  <2>1. answer' = NoAnswer /\ NoAnswer.kind = "none"
    BY DEF Running, NoAnswer
  <2>. QED BY <2>1 DEF AnswerKept, AnswerLocked, ErrorHasReason, AnswerComplete, NoAnswer
<1>. QED BY <1>1, <1>2, <1>3, <1>4 DEF ClientIInv

\* A lock of the call that is not the group of its project, or of the path.
Forbidden ==
    /\ call.op \in OnProject
    /\ \E l \in locks, g \in IF call.op = "bynumber" THEN {call.path} ELSE groups[call.project] :
           l \notin {Nothing, g}

\* What is answered of the lists of a call, and of projects.
Answerable(items, about) ==
    /\ \A p \in about : MayTouch(p)
    /\ \A t \in Thread : \A k \in DOMAIN items[t] : MayShow(items[t][k])

LEMMA RestOK ==
  ASSUME ~ Running, NEW t, NEW r, r = NoThread
  PROVE  RecordOK(t, r)
<1>1. DOMAIN r.got = {} /\ r.at = "over" /\ r.own = FALSE
  BY DEF NoThread
<1>. QED BY <1>1 DEF RecordOK, StepsOf, Complete

LEMMA EndInv ==
  ASSUME ClientIInv, Running, NEW kind \in {"ok", "error"}, NEW items \in [Thread -> Seq(Item)],
         NEW about \in SUBSET Project, Finish(kind, items, about), Still, Exchanged, UNCHANGED <<err, client, saving, changes>>,
         Answerable(items, about),
         kind = "error" => failed' # {} \/ Forbidden,
         kind = "ok" /\ failed' = {} /\ Undisturbed /\ call.op \in Whole /\ Totals = {TRUE} =>
             \A t \in Thread : items[t] = AllowedPart(content[t])
  PROVE  ClientIInv'
<1>1. /\ answer'.kind = kind /\ answer'.items = items /\ answer'.about = about
      /\ answer' = [kind |-> kind, items |-> items, about |-> about]
      /\ thread' = [t \in Thread |-> NoThread]
  BY DEF Finish
<1>2. answer' # NoAnswer
  BY <1>1 DEF NoAnswer
<1>3. ClientTypeOK'
  <2>1. NoThread \in ThreadState
    BY DEF NoThread, ThreadState, CallStep
  <2>2. thread' \in [Thread -> ThreadState]
    BY <1>1, <2>1
  <2>. QED BY <1>1, <2>2 DEF ClientIInv, ClientTypeOK, ThreadState, Still, Exchanged
<1>4. CallKept'
  BY DEF ClientIInv, CallKept, Running, Still, Exchanged
<1>5. ThreadsOK'
  <2> SUFFICES ASSUME NEW t \in Thread PROVE RecordOK(t, thread[t])'
    BY DEF ThreadsOK
  <2>1. ~ Running'
    BY <1>2 DEF Running
  <2>2. thread'[t] = NoThread
    BY <1>1
  <2>3. DOMAIN thread'[t].got = {} /\ thread'[t].at = "over" /\ thread'[t].own = FALSE
    BY <2>2 DEF NoThread
  <2>. QED BY <2>1, <2>3 DEF RecordOK, StepsOf, Complete
<1>6. AnswerKept'
  <2>1. AnswerLocked'
    BY <1>1, StillSame DEF AnswerLocked, Answerable, Still
  <2>2. ErrorHasReason'
    BY <1>1 DEF ErrorHasReason, Forbidden, Still
  <2>3. Totals = {TRUE} => AnswerComplete'
    BY <1>1, StillSame, StillPart DEF AnswerComplete, Whole, Still
  <2>. QED BY <2>1, <2>2, <2>3 DEF AnswerKept
<1>. QED BY <1>3, <1>4, <1>5, <1>6 DEF ClientIInv

LEMMA EndAloneInv ==
  ASSUME ClientIInv, Running, call.op \notin Concurrent, NEW kind \in {"ok", "error"},
         NEW told \in Seq(Item), NEW about \in SUBSET Project, FinishAlone(kind, told, about),
         Still, Exchanged, UNCHANGED <<err, client, saving, changes>>,
         \A p \in about : MayTouch(p), \A k \in DOMAIN told : MayShow(told[k]),
         kind = "error" => failed' # {} \/ Forbidden,
         kind = "ok" /\ failed' = {} /\ Undisturbed /\ call.op \in Whole /\ Totals = {TRUE} =>
             told = AllowedPart(content["main"])
  PROVE  ClientIInv'
<1> DEFINE items == [t \in Thread |-> IF t = "main" THEN told ELSE <<>>]
<1>1. \A t \in Thread : items[t] = IF t = "main" THEN told ELSE <<>>
  OBVIOUS
<1>2. items \in [Thread -> Seq(Item)]
  <2>1. <<>> \in Seq(Item)
    OBVIOUS
  <2>. QED BY <2>1
<1>3. Finish(kind, items, about)
  BY DEF FinishAlone
<1> HIDE DEF items
<1>4. Answerable(items, about)
  <2>1. DOMAIN <<>> = {}
    OBVIOUS
  <2>. QED BY <1>1, <2>1 DEF Answerable
<1>5. \A t \in Thread \ {"main"} : items[t] = AllowedPart(content[t])
  <2>1. \A t \in Thread \ {"main"} : content[t] = <<>>
    BY DEF ClientIInv, CallKept, Running
  <2>. QED BY <1>1, <2>1, NoPart
<1>6. "main" \in Thread => items["main"] = told
  BY <1>1
<1>7. kind = "ok" /\ failed' = {} /\ Undisturbed /\ call.op \in Whole /\ Totals = {TRUE} =>
          \A t \in Thread : items[t] = AllowedPart(content[t])
  BY <1>5, <1>6
<1>. QED BY <1>2, <1>3, <1>4, <1>7, EndInv

-----------------------------------------------------------------------------
(* GitlabClient: what changes meanwhile *)

LEMMA ChangeInv ==
  ASSUME ClientIInv, ClientTypeOK', UNCHANGED <<content, call, thread, err, answer, failed>>,
         locks \subseteq locks', \A p \in Project : groups[p] \subseteq groups'[p],
         call # NoCall => lock' \in locks' /\ \A p \in Project : group'[p] \in groups'[p],
         call # NoCall => ~ Undisturbed'
  PROVE  ClientIInv'
<1>1. CallKept'
  BY DEF ClientIInv, CallKept
<1>2. \A p \in Project : (AllowedThen(p) => AllowedThen(p)') /\ (MayTouch(p) => MayTouch(p)')
  BY DEF AllowedThen, MayTouch, PathAllowedThen
<1>3. (Running' <=> Running) /\ \A t : StepsOf(t)' = StepsOf(t)
  BY DEF Running, StepsOf
<1>4. ThreadsOK'
  <2> SUFFICES ASSUME NEW t \in Thread PROVE RecordOK(t, thread[t])'
    BY DEF ThreadsOK
  <2>1. RecordOK(t, thread[t]) /\ thread[t].got \in Seq(Item)
    BY DEF ClientIInv, ThreadsOK, ClientTypeOK
  <2>2. ASSUME Running, NEW k \in DOMAIN thread[t].got, Fits(t, thread[t].at, thread[t].got[k])
        PROVE  Fits(t, thread[t].at, thread[t].got[k])'
    <3>1. Of(thread[t].got[k]) \in Project
      BY <2>1, ItemIs
    <3>. QED BY <1>2, <2>2, <3>1 DEF Fits
  <2>3. call.op \in OnProject /\ Running => call.project \in Project
    BY DEF ClientIInv, CallKept, Running
  <2>4. ~ (Running /\ Undisturbed)'
    BY DEF Running
  <2>5. Complete(t, thread[t])'
    BY <2>4 DEF Complete
  <2>. QED BY <1>2, <1>3, <2>1, <2>2, <2>3, <2>5 DEF RecordOK
<1>5. AnswerKept'
  <2>1. answer # NoAnswer => call # NoCall
    BY DEF ClientIInv, CallKept
  <2>2. AnswerLocked'
    <3>1. answer.about \subseteq Project /\ answer.items \in [Thread -> Seq(Item)]
      BY DEF ClientIInv, ClientTypeOK
    <3>2. ASSUME NEW i \in Item, MayShow(i) PROVE MayShow(i)'
      <4>1. Of(i) \in Project
        BY ItemIs
      <4>. QED BY <1>2, <3>2, <4>1 DEF MayShow
    <3>3. ASSUME NEW t \in Thread, NEW k \in DOMAIN answer.items[t], MayShow(answer.items[t][k])
          PROVE  MayShow(answer.items[t][k])'
      <4>1. answer.items[t][k] \in Item
        BY <3>1
      <4>2. PICK i \in Item : i = answer.items[t][k]
        BY <4>1
      <4>3. MayShow(i)'
        BY <3>2, <3>3, <4>2
      <4>. QED BY <4>2, <4>3 DEF MayShow, MayTouch, PathAllowedThen, AllowedThen
    <3>. QED BY <1>2, <3>1, <3>3 DEF ClientIInv, AnswerKept, AnswerLocked
  <2>3. ErrorHasReason'
    <3>1. ErrorHasReason
      BY DEF ClientIInv, AnswerKept
    <3>2. answer # NoAnswer /\ call.op \in OnProject => call.project \in Project
      BY <2>1 DEF ClientIInv, CallKept
    <3>3. answer.kind = "error" => answer # NoAnswer
      BY DEF NoAnswer
    <3>. QED BY <3>1, <3>2, <3>3 DEF ErrorHasReason
  <2>4. AnswerComplete'
    BY <2>1 DEF AnswerComplete, NoAnswer
  <2>. QED BY <2>2, <2>3, <2>4 DEF AnswerKept
<1>. QED BY <1>1, <1>4, <1>5 DEF ClientIInv

LEMMA SetConfigurationInv == ASSUME ClientIInv, SetConfiguration PROVE ClientIInv'
<1>1. PICK g \in (Group \cup {Nothing}) \ {lock} : lock' = g /\ locks' = locks \cup {g}
  BY DEF SetConfiguration
<1>2. UNCHANGED <<client, group, content, call, thread, err, answer, groups, failed, failures>>
  BY DEF SetConfiguration
<1>3. changes' \in 0 .. MaxChanges /\ saving' = TRUE
  BY ClientAssumption DEF SetConfiguration, ClientIInv, ClientTypeOK
<1>4. ClientTypeOK'
  BY <1>1, <1>2, <1>3 DEF ClientIInv, ClientTypeOK
<1>5. call # NoCall => lock \in locks' /\ lock' \in locks' /\ lock' # lock
  BY <1>1 DEF ClientIInv, CallKept
<1>6. call # NoCall => ~ Undisturbed'
  BY <1>5 DEF Undisturbed
<1>7. call # NoCall => \A p \in Project : group'[p] \in groups'[p]
  BY <1>2 DEF ClientIInv, CallKept
<1>8. locks \subseteq locks' /\ \A p \in Project : groups[p] \subseteq groups'[p]
  BY <1>1, <1>2
<1>. QED BY <1>2, <1>4, <1>5, <1>6, <1>7, <1>8, ChangeInv

LEMMA TransferInv == ASSUME ClientIInv, Transfer PROVE ClientIInv'
<1>1. PICK p \in Project, g \in Group :
          /\ group[p] # g
          /\ group' = [group EXCEPT ![p] = g]
          /\ groups' = [groups EXCEPT ![p] = @ \cup {g}]
  BY DEF Transfer
<1>2. UNCHANGED <<lock, client, saving, content, call, thread, err, answer, locks, failed, failures>>
  BY DEF Transfer, config
<1>3. changes' \in 0 .. MaxChanges
  BY ClientAssumption DEF Transfer, ClientIInv, ClientTypeOK
<1>4. group \in [Project -> Group] /\ groups \in [Project -> SUBSET Group]
  BY DEF ClientIInv, ClientTypeOK
<1>5. group' \in [Project -> Group] /\ groups' \in [Project -> SUBSET Group]
  BY <1>1, <1>4
<1>6. ClientTypeOK'
  BY <1>2, <1>3, <1>5 DEF ClientIInv, ClientTypeOK
<1>7. \A q \in Project : groups[q] \subseteq groups'[q]
  BY <1>1, <1>4
<1>8. call # NoCall => lock' \in locks' /\ \A q \in Project : group'[q] \in groups'[q]
  BY <1>1, <1>2, <1>4 DEF ClientIInv, CallKept
<1>9. call # NoCall => ~ Undisturbed'
  <2>1. call # NoCall => group[p] \in groups'[p] /\ group'[p] = g
    BY <1>1, <1>4 DEF ClientIInv, CallKept
  <2>. QED BY <1>1, <2>1 DEF Undisturbed
<1>. QED BY <1>2, <1>6, <1>7, <1>8, <1>9, ChangeInv

\* What the call and its histories say depends on nothing else.
LEMMA SameInv ==
  ASSUME ClientIInv, Still, UNCHANGED <<thread, answer, failed>>
  PROVE  ThreadsOK' /\ AnswerKept'
<1>1. ThreadsOK'
  <2> SUFFICES ASSUME NEW t \in Thread PROVE RecordOK(t, thread[t])'
    BY DEF ThreadsOK
  <2>1. PICK r : r = thread[t]
    OBVIOUS
  <2>2. RecordOK(t, r)
    BY <2>1 DEF ClientIInv, ThreadsOK
  <2>3. RecordOK(t, r)'
    BY <2>2, StillRecord DEF RecordOK
  <2>. QED BY <2>1, <2>3 DEF RecordOK, Complete
<1>2. AnswerLocked' /\ ErrorHasReason'
  BY StillSame DEF ClientIInv, AnswerKept, AnswerLocked, ErrorHasReason, Still
<1>3. Totals = {TRUE} => AnswerComplete'
  BY StillSame, StillPart DEF ClientIInv, AnswerKept, AnswerComplete, Still
<1>. QED BY <1>1, <1>2, <1>3 DEF AnswerKept

LEMMA MakeClientInv == ASSUME ClientIInv, MakeClient PROVE ClientIInv'
<1>1. UNCHANGED <<lock, group, content, call, thread, err, answer, locks, groups, failed, changes>>
  BY DEF MakeClient, history
<1>2. saving' = FALSE /\ client' \in Group \cup {Nothing} /\ failures' \in 0 .. MaxFailures
  BY ClientAssumption DEF MakeClient, Fails, ClientIInv, ClientTypeOK
<1>3. ClientTypeOK'
  BY <1>1, <1>2 DEF ClientIInv, ClientTypeOK
<1>4. CallKept'
  BY <1>1 DEF ClientIInv, CallKept
<1>. QED BY <1>1, <1>3, <1>4, SameInv DEF ClientIInv, Still

-----------------------------------------------------------------------------
(* GitlabClient: a call begins *)

LEMMA MainIs == "main" \in Thread /\ "main" \notin List /\ \A t \in Thread \ {"main"} : t \in List
BY ClientAssumption DEF Thread, LHSLists

LEMMA ContentsAre ==
  ASSUME NEW o \in Op, NEW p, NEW c \in Contents(o, p)
  PROVE  /\ c \in [Thread -> Seq(Item)]
         /\ o \in OnProject => \A t \in Thread : \A k \in DOMAIN c[t] : Of(c[t][k]) = p
         /\ \A t \in Thread : (t # "main") # (o \in Concurrent) => c[t] = <<>>
<1> DEFINE S == IF o \in OnProject THEN {i \in Item : Of(i) = p} ELSE Item
           L == IF o = "change" THEN {<<>>} ELSE Listings(S)
           T == IF o \in Concurrent THEN List ELSE {"main"}
<1>1. PICK f \in [T -> L] : c = [t \in Thread |-> IF t \in T THEN f[t] ELSE <<>>]
  BY Zenon DEF Contents
<1>2. \A s \in L : s \in Seq(S)
  <2>1. \A s \in Listings(S) : s \in Seq(S)
    <3> SUFFICES ASSUME NEW s \in Listings(S) PROVE s \in Seq(S)
      OBVIOUS
    <3>1. PICK n \in 0 .. Cardinality(S) : s \in [1 .. n -> S]
      BY DEF Listings
    <3>2. n \in Nat
      OBVIOUS
    <3>. QED BY <3>1, <3>2
  <2>2. <<>> \in Seq(S)
    OBVIOUS
  <2>. QED BY <2>1, <2>2
<1> HIDE DEF L
<1>3. \A t \in Thread : c[t] = IF t \in T THEN f[t] ELSE <<>>
  BY <1>1
<1>4. \A t \in Thread : c[t] \in Seq(S)
  <2>1. <<>> \in Seq(S)
    OBVIOUS
  <2>. QED BY <1>2, <1>3, <2>1
<1>5. \A t \in Thread : c[t] \in Seq(Item)
  <2>1. \A i \in S : i \in Item
    OBVIOUS
  <2>2. \A s \in Seq(S) : s \in Seq(Item)
    BY <2>1
  <2>. QED BY <1>4, <2>2
<1>6. c \in [Thread -> Seq(Item)]
  BY <1>1, <1>5
<1>7. ASSUME o \in OnProject, NEW t \in Thread, NEW k \in DOMAIN c[t] PROVE Of(c[t][k]) = p
  <2>1. \A s \in Seq(S) : \A j \in DOMAIN s : s[j] \in S
    OBVIOUS
  <2>2. c[t][k] \in S
    BY <1>4, <2>1, Zenon
  <2>. QED BY <1>7, <2>2
<1>8. ASSUME NEW t \in Thread, (t # "main") # (o \in Concurrent) PROVE c[t] = <<>>
  <2>1. t \notin T
    BY <1>8, MainIs
  <2>. QED BY <1>3, <2>1
<1>. QED BY <1>6, <1>7, <1>8

\* The goroutines of a call that has just begun.
FirstThreads ==
    thread = [t \in Thread |->
        [NoThread EXCEPT !.at = IF (t = "main") # (call.op \in Concurrent) THEN FirstStep(call.op) ELSE "over"]]

Begun == ClientTypeOK /\ CallKept /\ call # NoCall /\ answer = NoAnswer /\ FirstThreads

LEMMA StartFits ==
  ASSUME Begun, NEW t \in Thread, NEW r, r = thread[t]
  PROVE  RecordOK(t, r)
<1>1. /\ r.at = IF (t = "main") # (call.op \in Concurrent) THEN FirstStep(call.op) ELSE "over"
      /\ r.page = 1 /\ r.got = <<>> /\ r.own = FALSE
  BY DEF Begun, FirstThreads, NoThread
<1>2. content[t] \in Seq(Item) /\ Running /\ call.op \in Op
  BY DEF Begun, ClientTypeOK, Running, CallKept
<1>3. r.at \in StepsOf(t)
  BY <1>1, <1>2, MainIs DEF StepsOf, FirstStep, Op, OnProject, Concurrent
<1>4. call.op \in OnProject => r.at \in {"check", "over"}
  BY <1>1 DEF FirstStep
<1>5. Complete(t, r)
  <2>1. CASE r.at = "check"
    BY <1>1, <2>1 DEF Complete
  <2>2. CASE r.at = "sift"
    <3>1. Sifted(content[t], 1) = {}
      <4>1. \A k \in DOMAIN content[t] : ~ (k < 1)
        BY <1>2
      <4>. QED BY <4>1 DEF Sifted
    <3>2. At(content[t], Sifted(content[t], r.page)) = <<>>
      BY <1>1, <1>2, <3>1, AtNone
    <3>3. r.page <= Len(content[t]) + 1
      BY <1>1, <1>2
    <3>. QED BY <1>1, <2>2, <3>2, <3>3 DEF Complete
  <2>3. CASE r.at = "page"
    <3>1. call.op # "details"
      BY <1>1, <2>3 DEF FirstStep, OnProject
    <3>2. Visible(t) \in Seq(Item)
      BY <3>1, VisibleFits DEF Begun
    <3>3. Before(r.page) = 0 /\ Before(r.page) <= Len(Visible(t))
      BY <1>1, <3>2, FirstPage
    <3>4. SubSeq(Visible(t), 1, 0) = <<>>
      BY SubSeqEmpty
    <3>. QED BY <1>1, <2>3, <3>3, <3>4 DEF Complete
  <2>4. CASE r.at = "over"
    <3>1. content[t] = <<>>
      <4>1. (t = "main") = (call.op \in Concurrent)
        BY <1>1, <2>4 DEF FirstStep
      <4>. QED BY <4>1 DEF Begun, CallKept
    <3>. QED BY <1>1, <2>4, <3>1, NoPart DEF Complete
  <2>. QED BY <1>1, <2>1, <2>2, <2>3, <2>4 DEF FirstStep
<1>6. DOMAIN r.got = {}
  BY <1>1
<1>. QED BY <1>1, <1>3, <1>4, <1>5, <1>6 DEF RecordOK

LEMMA StartOK == Begun => ThreadsOK
BY StartFits DEF ThreadsOK

LEMMA BeginCallInv == ASSUME ClientIInv, BeginCall PROVE ClientIInv'
<1>1. PICK o \in Op, p \in Project \cup {Nothing}, q \in Group \cup {Nothing} :
          /\ o \in OnProject => p \in Project
          /\ call' = [op |-> o, project |-> p, path |-> q, group |-> client]
          /\ content' \in Contents(o, p)
          /\ thread' = [t \in Thread |->
                [NoThread EXCEPT !.at = IF (t = "main") # (o \in Concurrent) THEN FirstStep(o) ELSE "over"]]
  BY DEF BeginCall
<1>2. /\ call = NoCall /\ answer = NoAnswer /\ failed = {} /\ err = FALSE
      /\ locks' = {lock} /\ groups' = [j \in Project |-> {group[j]}]
      /\ UNCHANGED <<lock, client, saving, group, err, answer, failed, changes, failures>>
  BY DEF BeginCall, ClientIInv, CallKept, config
<1>3. /\ content' \in [Thread -> Seq(Item)]
      /\ o \in OnProject => \A t \in Thread : \A k \in DOMAIN content'[t] : Of(content'[t][k]) = p
      /\ \A t \in Thread : (t # "main") # (o \in Concurrent) => content'[t] = <<>>
  BY <1>1, ContentsAre
<1>4. call' \in [op : Op \cup {Nothing}, project : Project \cup {Nothing},
                  path : Group \cup {Nothing}, group : Group \cup {Nothing}]
  BY <1>1 DEF ClientIInv, ClientTypeOK
<1>5. thread' \in [Thread -> ThreadState]
  <2>1. ASSUME NEW at \in CallStep PROVE [NoThread EXCEPT !.at = at] \in ThreadState
    <3>1. NoThread \in ThreadState
      BY DEF NoThread, ThreadState, CallStep
    <3>. QED BY <3>1 DEF ThreadState
  <2>2. FirstStep(o) \in CallStep /\ "over" \in CallStep
    BY DEF FirstStep, CallStep
  <2>. QED BY <1>1, <2>1, <2>2
<1>6. ClientTypeOK'
  <2>1. locks' \subseteq Group \cup {Nothing} /\ groups' \in [Project -> SUBSET Group]
    BY <1>2 DEF ClientIInv, ClientTypeOK
  <2>. QED BY <1>2, <1>3, <1>4, <1>5, <2>1 DEF ClientIInv, ClientTypeOK, ThreadState
<1>7. call'.op = o /\ call'.project = p /\ call' # NoCall
  BY <1>1, ClientAssumption DEF NoCall
<1>8. CallKept'
  BY <1>1, <1>2, <1>3, <1>7 DEF CallKept
<1>9. FirstThreads'
  BY <1>1, <1>7 DEF FirstThreads
<1>10. Begun'
  BY <1>2, <1>6, <1>7, <1>8, <1>9 DEF Begun, NoAnswer
<1>11. ThreadsOK'
  BY <1>10, StartOK, PTL
<1>12. AnswerKept'
  BY <1>2 DEF AnswerKept, AnswerLocked, ErrorHasReason, AnswerComplete, NoAnswer
<1>. QED BY <1>6, <1>8, <1>11, <1>12 DEF ClientIInv

-----------------------------------------------------------------------------
(* GitlabClient: the steps of a call *)

LEMMA AtStep ==
  ASSUME ClientIInv, NEW t \in Thread, thread[t].at # "over"
  PROVE  /\ Running /\ call # NoCall /\ answer = NoAnswer /\ call.op \in Op
         /\ RecordOK(t, thread[t]) /\ thread[t] \in ThreadState
         /\ thread[t].at \in StepsOf(t) /\ (t = "main" <=> call.op \notin Concurrent)
         /\ content[t] \in Seq(Item)
<1>1. RecordOK(t, thread[t]) /\ thread[t] \in ThreadState /\ content[t] \in Seq(Item)
  BY DEF ClientIInv, ThreadsOK, ClientTypeOK, ThreadState
<1>2. thread[t].at \in StepsOf(t) /\ thread[t].at # "over"
  BY <1>1 DEF RecordOK
<1>3. Running /\ (t = "main" <=> call.op \notin Concurrent)
  BY <1>2 DEF StepsOf
<1>. QED BY <1>1, <1>2, <1>3 DEF Running, ClientIInv, CallKept

\* An exchange with GitLab fails, or none does.
LEMMA FailsIs ==
  ASSUME ClientIInv, NEW t \in Thread, Fails, failed' = failed \cup {t}
  PROVE  Exchanged /\ failed' # {}
BY ClientAssumption DEF ClientIInv, ClientTypeOK, Fails, Exchanged

LEMMA SucceedsIs == ASSUME ClientIInv, UNCHANGED <<failed, failures>> PROVE Exchanged
BY DEF ClientIInv, ClientTypeOK, Exchanged

LEMMA NoItems == <<>> \in Seq(Item) /\ DOMAIN <<>> = {}
OBVIOUS

LEMMA CheckInv == ASSUME ClientIInv, Check PROVE ClientIInv'
<1>1. /\ thread["main"].at = "check" /\ "main" \in Thread
      /\ UNCHANGED <<config, group, content, call, err, locks, groups, changes>>
  BY MainIs DEF Check
<1>2. Still /\ UNCHANGED <<err, client, saving, changes>>
  BY <1>1 DEF Still, config
<1>3. /\ Running /\ call # NoCall /\ call.op \in OnProject /\ call.op \notin Concurrent
      /\ RecordOK("main", thread["main"]) /\ thread["main"] \in ThreadState
  <2>1. "check" \in StepsOf("main") /\ Running
    BY <1>1, AtStep
  <2>. QED BY <1>1, <2>1, AtStep DEF StepsOf, OnProject, Concurrent
<1>4. call.project \in Project /\ lock \in locks /\ group[call.project] \in groups[call.project]
  BY <1>3 DEF ClientIInv, CallKept
<1>5. ASSUME NEW kind \in {"ok", "error"}, FinishAlone(kind, <<>>, {}), Exchanged,
             kind = "error", failed' # {} \/ Forbidden
      PROVE  ClientIInv'
  BY <1>2, <1>3, <1>5, NoItems, EndAloneInv
<1>6. CASE /\ Passes
           /\ GoOn("main", IF call.op = "change" THEN "change" ELSE "page")
           /\ UNCHANGED <<answer, failed, failures>>
  <2>1. PICK r : r = [thread["main"] EXCEPT !.at = IF call.op = "change" THEN "change" ELSE "page"]
    OBVIOUS
  <2>2. /\ r \in ThreadState /\ r.at = IF call.op = "change" THEN "change" ELSE "page"
        /\ r.page = thread["main"].page /\ r.got = thread["main"].got /\ r.own = thread["main"].own
    BY <1>3, <2>1 DEF ThreadState, CallStep
  <2>3. thread' = [thread EXCEPT !["main"] = r]
    BY <1>6, <2>1 DEF GoOn
  <2>4. MayTouch(call.project)
    <3>1. CASE call.op = "bynumber"
      BY <1>4, <1>6, <3>1 DEF Passes, MayTouch, PathAllowedThen
    <3>2. CASE call.op # "bynumber"
      BY <1>3, <1>4, <1>6, <3>2, AllowedNow DEF Passes, MayTouch, ClientIInv
    <3>. QED BY <3>1, <3>2
  <2>5. r.at \in StepsOf("main")
    BY <1>3, <2>2 DEF StepsOf, OnProject
  <2>6. \A k \in DOMAIN r.got : Fits("main", r.at, r.got[k])
    BY <1>3, <2>2 DEF RecordOK, Fits
  <2>7. r.own => failed # {}
    BY <1>3, <2>2 DEF RecordOK
  <2>8. Totals = {TRUE} => Complete("main", r)
    <3> SUFFICES ASSUME Totals = {TRUE}, failed = {}, Undisturbed, call.op \in Whole PROVE Complete("main", r)
      BY DEF Complete
    <3>1. r.at = "page" /\ r.page = 1 /\ r.got = <<>>
      BY <1>1, <1>3, <2>2 DEF RecordOK, Complete, Whole
    <3>2. Visible("main") \in Seq(Item)
      BY <1>1, <1>3, VisibleFits, OthersSteps DEF ClientIInv
    <3>3. Before(r.page) = 0 /\ Before(r.page) <= Len(Visible("main"))
      BY <3>1, <3>2, FirstPage
    <3>4. SubSeq(Visible("main"), 1, 0) = <<>>
      BY SubSeqEmpty
    <3>. QED BY <3>1, <3>3, <3>4 DEF Complete
  <2>9. err' \in BOOLEAN /\ (err' => failed' # {})
    BY <1>2, <1>6 DEF ClientIInv, ClientTypeOK, CallKept
  <2>10. Exchanged
    BY <1>6, SucceedsIs
  <2>. QED BY <1>1, <1>2, <1>3, <1>6, <2>2, <2>3, <2>4, <2>5, <2>6, <2>7, <2>8, <2>9, <2>10, MoveInv
<1>7. CASE ~ Passes /\ FinishAlone("error", <<>>, {}) /\ UNCHANGED <<failed, failures>>
  <2>1. Forbidden
    BY <1>3, <1>4, <1>7 DEF Forbidden, Passes, Allowed
  <2>. QED BY <1>5, <1>7, <2>1, SucceedsIs
<1>8. CASE Fails /\ FinishAlone("error", <<>>, {}) /\ failed' = failed \cup {"main"}
  BY <1>1, <1>5, <1>8, FailsIs
<1>. QED BY <1>6, <1>7, <1>8 DEF Check

LEMMA ChangeStepInv == ASSUME ClientIInv, Change PROVE ClientIInv'
<1>1. /\ thread["main"].at = "change" /\ "main" \in Thread
      /\ UNCHANGED <<config, group, content, call, err, locks, groups, changes>>
  BY MainIs DEF Change
<1>2. Still /\ UNCHANGED <<err, client, saving, changes>>
  BY <1>1 DEF Still, config
<1>3. /\ Running /\ call # NoCall /\ call.op = "change" /\ call.op \in OnProject /\ call.op \notin Concurrent
      /\ RecordOK("main", thread["main"])
  <2>1. "change" \in StepsOf("main") /\ Running
    BY <1>1, AtStep
  <2>. QED BY <1>1, <2>1, AtStep DEF StepsOf, OnProject, Concurrent
<1>4. call.project \in Project /\ MayTouch(call.project)
  BY <1>1, <1>3 DEF RecordOK, ClientIInv, CallKept
<1>5. CASE FinishAlone("ok", <<>>, {call.project}) /\ UNCHANGED <<failed, failures>>
  <2>1. call.op \notin Whole
    BY <1>3 DEF Whole
  <2>. QED BY <1>2, <1>3, <1>4, <1>5, <2>1, NoItems, SucceedsIs, EndAloneInv
<1>6. CASE Fails /\ FinishAlone("error", <<>>, {}) /\ failed' = failed \cup {"main"}
  BY <1>1, <1>2, <1>3, <1>6, NoItems, FailsIs, EndAloneInv
<1>. QED BY <1>5, <1>6 DEF Change

LEMMA SiftMore ==
  ASSUME NEW s \in Seq(Item), NEW n \in Nat \ {0}, n <= Len(s)
  PROVE  At(s, Sifted(s, n + 1)) =
             IF AllowedThen(Of(s[n])) THEN Append(At(s, Sifted(s, n)), s[n]) ELSE At(s, Sifted(s, n))
<1>1. n \in DOMAIN s /\ \A k \in DOMAIN s : k < n + 1 <=> k < n \/ k = n
  OBVIOUS
<1>2. CASE AllowedThen(Of(s[n]))
  <2>1. Sifted(s, n + 1) = Sifted(s, n) \cup {n}
    BY <1>1, <1>2 DEF Sifted
  <2>2. \A k \in Sifted(s, n) : k \in 1 .. n - 1
    BY DEF Sifted
  <2>. QED BY <1>1, <1>2, <2>1, <2>2, AtMore
<1>3. CASE ~ AllowedThen(Of(s[n]))
  <2>1. Sifted(s, n + 1) = Sifted(s, n)
    BY <1>1, <1>3 DEF Sifted
  <2>. QED BY <1>3, <2>1
<1>. QED BY <1>2, <1>3

LEMMA SiftInv == ASSUME ClientIInv, Sift PROVE ClientIInv'
<1> DEFINE s == content["main"]
           n == thread["main"].page
<1>1. /\ thread["main"].at = "sift" /\ "main" \in Thread
      /\ UNCHANGED <<config, group, content, call, err, answer, locks, groups, changes>>
  BY MainIs DEF Sift
<1>2. Still /\ UNCHANGED <<answer, err, client, saving, changes>>
  BY <1>1 DEF Still, config
<1>3. /\ Running /\ call # NoCall /\ RecordOK("main", thread["main"]) /\ thread["main"] \in ThreadState
      /\ s \in Seq(Item)
  BY <1>1, AtStep
<1>4. call.op = "details" /\ call.op \notin OnProject /\ call.op \notin Concurrent
  <2>1. "sift" \in StepsOf("main")
    BY <1>1, AtStep
  <2>. QED BY <2>1 DEF StepsOf, OnProject, Concurrent
<1>5. /\ n \in Nat \ {0} /\ thread["main"].got \in Seq(Item)
      /\ \A k \in DOMAIN thread["main"].got : AllowedThen(Of(thread["main"].got[k]))
      /\ thread["main"].own => failed # {}
  BY <1>3, <1>4 DEF ThreadState, RecordOK, Fits
<1>6. ASSUME Totals = {TRUE}, failed = {}, Undisturbed
      PROVE  n <= Len(s) + 1 /\ thread["main"].got = At(s, Sifted(s, n))
  BY <1>1, <1>3, <1>4, <1>6 DEF RecordOK, Complete, Whole
<1> HIDE DEF s, n
<1>7. n + 1 \in Nat \ {0}
  BY <1>5
<1>8. ASSUME NEW r \in ThreadState, thread' = [thread EXCEPT !["main"] = r], r.at \in {"sift", "fetch"},
             \A k \in DOMAIN r.got : AllowedThen(Of(r.got[k])), r.own = thread["main"].own, Exchanged,
             Totals = {TRUE} /\ failed' = {} => Complete("main", r)
      PROVE  ClientIInv'
  <2>1. r.at \in StepsOf("main")
    BY <1>3, <1>4, <1>8 DEF StepsOf
  <2>2. \A k \in DOMAIN r.got : Fits("main", r.at, r.got[k])
    BY <1>4, <1>8 DEF Fits
  <2>3. err' \in BOOLEAN /\ (err' => failed' # {}) /\ (r.own => failed' # {})
    BY <1>2, <1>5, <1>8 DEF ClientIInv, ClientTypeOK, CallKept, Exchanged
  <2>. QED BY <1>1, <1>2, <1>3, <1>4, <1>8, <2>1, <2>2, <2>3, MoveInv
<1>9. CASE n > Len(s) /\ GoOn("main", "fetch") /\ UNCHANGED <<failed, failures>>
  <2>1. PICK r : r = [thread["main"] EXCEPT !.at = "fetch"]
    OBVIOUS
  <2>2. /\ r \in ThreadState /\ r.at = "fetch"
        /\ r.got = thread["main"].got /\ r.own = thread["main"].own
    BY <1>3, <2>1 DEF ThreadState, CallStep
  <2>3. thread' = [thread EXCEPT !["main"] = r]
    BY <1>9, <2>1 DEF GoOn
  <2>4. Totals = {TRUE} /\ failed' = {} => Complete("main", r)
    <3> SUFFICES ASSUME Totals = {TRUE}, failed = {}, Undisturbed PROVE r.got = AllowedPart(s)
      BY <1>9, <2>2 DEF Complete, s
    <3>1. \A k \in DOMAIN s : k < n
      BY <1>3, <1>5, <1>9
    <3>2. Sifted(s, n) = {k \in DOMAIN s : AllowedThen(Of(s[k]))}
      BY <3>1 DEF Sifted
    <3>. QED BY <1>6, <2>2, <3>2 DEF AllowedPart
  <2>. QED BY <1>5, <1>8, <1>9, <2>2, <2>3, <2>4, SucceedsIs
<1>10. CASE /\ n <= Len(s)
           /\ thread' = [thread EXCEPT !["main"].page = n + 1,
                                       !["main"].got = IF n \in AllowedIn(s) THEN Append(@, s[n]) ELSE @]
           /\ UNCHANGED <<failed, failures>>
  <2> DEFINE got == thread["main"].got
             next == IF n \in AllowedIn(s) THEN Append(got, s[n]) ELSE got
  <2>1. PICK r : r = [thread["main"] EXCEPT !.page = n + 1, !.got = next]
    OBVIOUS
  <2>2. n \in DOMAIN s /\ s[n] \in Item /\ Of(s[n]) \in Project
    BY <1>3, <1>5, <1>10, ItemIs
  <2>3. next \in Seq(Item)
    BY <1>5, <2>2
  <2>4. /\ r \in ThreadState /\ r.at = "sift" /\ r.page = n + 1
        /\ r.got = next /\ r.own = thread["main"].own
    BY <1>1, <1>3, <1>7, <2>1, <2>3 DEF ThreadState
  <2>5. thread' = [thread EXCEPT !["main"] = r]
    BY <1>1, <1>3, <1>10, <2>1 DEF ThreadState, ClientIInv, ClientTypeOK
  <2>6. n \in AllowedIn(s) <=> Allowed(Of(s[n]))
    BY <2>2 DEF AllowedIn
  <2>7. n \in AllowedIn(s) => AllowedThen(Of(s[n]))
    BY <1>3, <2>2, <2>6, AllowedNow DEF ClientIInv
  <2>8. \A k \in DOMAIN next : AllowedThen(Of(next[k]))
    <3>1. CASE n \in AllowedIn(s)
      <4>1. \A k \in DOMAIN next : IF k \in DOMAIN got THEN next[k] = got[k] ELSE next[k] = s[n]
        BY <1>5, <2>2, <3>1
      <4>. QED BY <1>5, <2>7, <3>1, <4>1
    <3>2. CASE n \notin AllowedIn(s)
      BY <1>5, <3>2
    <3>. QED BY <3>1, <3>2
  <2>9. Totals = {TRUE} /\ failed' = {} => Complete("main", r)
    <3> SUFFICES ASSUME Totals = {TRUE}, failed = {}, Undisturbed
                 PROVE  r.page <= Len(s) + 1 /\ r.got = At(s, Sifted(s, r.page))
      BY <1>10, <2>4 DEF Complete, s
    <3>1. got = At(s, Sifted(s, n))
      BY <1>6
    <3>2. Allowed(Of(s[n])) <=> AllowedThen(Of(s[n]))
      BY <1>3, <2>2, AllowedAsThen DEF ClientIInv
    <3>3. At(s, Sifted(s, n + 1)) = next
      BY <1>3, <1>5, <1>10, <2>6, <3>1, <3>2, SiftMore
    <3>4. n + 1 <= Len(s) + 1
      BY <1>3, <1>5, <1>10
    <3>. QED BY <2>4, <3>3, <3>4
  <2> HIDE DEF next
  <2>. QED BY <1>8, <1>10, <2>4, <2>5, <2>8, <2>9, SucceedsIs
<1>11. CASE /\ Fails /\ thread' = [thread EXCEPT !["main"].page = n + 1] /\ failed' = failed \cup {"main"}
  <2>1. PICK r : r = [thread["main"] EXCEPT !.page = n + 1]
    OBVIOUS
  <2>2. /\ r \in ThreadState /\ r.at = "sift"
        /\ r.got = thread["main"].got /\ r.own = thread["main"].own
    BY <1>1, <1>3, <1>7, <2>1 DEF ThreadState
  <2>3. thread' = [thread EXCEPT !["main"] = r]
    BY <1>11, <2>1
  <2>. QED BY <1>1, <1>5, <1>8, <1>11, <2>2, <2>3, FailsIs
<1>. QED BY <1>9, <1>10, <1>11 DEF Sift, s, n

LEMMA FetchInv == ASSUME ClientIInv, Fetch PROVE ClientIInv'
<1>1. /\ thread["main"].at = "fetch" /\ "main" \in Thread
      /\ UNCHANGED <<config, group, content, call, err, locks, groups, changes>>
  BY MainIs DEF Fetch
<1>2. Still /\ UNCHANGED <<err, client, saving, changes>>
  BY <1>1 DEF Still, config
<1>3. /\ Running /\ RecordOK("main", thread["main"]) /\ thread["main"] \in ThreadState
  BY <1>1, AtStep
<1>4. call.op = "details" /\ call.op \notin OnProject /\ call.op \notin Concurrent
  <2>1. "fetch" \in StepsOf("main")
    BY <1>1, AtStep
  <2>. QED BY <2>1 DEF StepsOf, OnProject, Concurrent
<1>5. PICK got : got = thread["main"].got
  OBVIOUS
<1>6. got \in Seq(Item) /\ \A k \in DOMAIN got : MayShow(got[k])
  BY <1>3, <1>4, <1>5 DEF ThreadState, RecordOK, Fits, MayShow, MayTouch
<1>7. ASSUME NEW told \in Seq(Item), FinishAlone("ok", told, {}), Exchanged,
             \A k \in DOMAIN told : MayShow(told[k]),
             failed' = {} /\ Undisturbed /\ Totals = {TRUE} => told = AllowedPart(content["main"])
      PROVE  ClientIInv'
  <2>1. {} \in SUBSET Project /\ \A p \in {} : MayTouch(p)
    OBVIOUS
  <2>. QED BY <1>2, <1>3, <1>4, <1>7, <2>1, EndAloneInv
<1>8. CASE FinishAlone("ok", got, {}) /\ UNCHANGED <<failed, failures>>
  <2>1. Totals = {TRUE} /\ failed = {} /\ Undisturbed => got = AllowedPart(content["main"])
    BY <1>1, <1>3, <1>4, <1>5 DEF RecordOK, Complete, Whole
  <2>. QED BY <1>6, <1>8, <1>7, <2>1, SucceedsIs
<1>9. CASE /\ Fails /\ failed' = failed \cup {"main"}
           /\ \E k \in DOMAIN got : FinishAlone("ok", At(got, DOMAIN got \ {k}), {})
  <2>1. PICK k \in DOMAIN got : FinishAlone("ok", At(got, DOMAIN got \ {k}), {})
    BY <1>9
  <2>2. PICK told : told = At(got, DOMAIN got \ {k})
    OBVIOUS
  <2>3. told \in Seq(Item) /\ \A j \in DOMAIN told : MayShow(told[j])
    BY <1>6, <2>2, AtElements
  <2>. QED BY <1>1, <1>9, <1>7, <2>1, <2>2, <2>3, FailsIs
<1>. QED BY <1>5, <1>8, <1>9 DEF Fetch

\* A goroutine that has read its list goes on.
LEMMA Later ==
  ASSUME NEW t, NEW at, NEW next, at # "page", next # "page", NEW i
  PROVE  Fits(t, at, i) <=> Fits(t, next, i)
BY DEF Fits

LEMMA StoreInv == ASSUME ClientIInv, NEW t \in Thread, Store(t) PROVE ClientIInv'
<1>1. /\ thread[t].at = "store" /\ err' = thread[t].own /\ GoOn(t, "return")
      /\ UNCHANGED <<config, group, content, call, answer, history, changes, failures>>
  BY DEF Store
<1>2. Still /\ UNCHANGED <<answer, client, saving, changes, failed, failures>>
  BY <1>1 DEF Still, config, history
<1>3. /\ Running /\ RecordOK(t, thread[t]) /\ thread[t] \in ThreadState
  BY <1>1, AtStep
<1>4. call.op \in Concurrent /\ call.op \notin OnProject /\ t # "main"
  <2>1. "store" \in StepsOf(t)
    BY <1>1, AtStep
  <2>. QED BY <2>1 DEF StepsOf, OnProject, Concurrent
<1>5. PICK r : r = [thread[t] EXCEPT !.at = "return"]
  OBVIOUS
<1>6. /\ r \in ThreadState /\ r.at = "return" /\ r.got = thread[t].got /\ r.own = thread[t].own
      /\ r.own \in BOOLEAN
  BY <1>3, <1>5 DEF ThreadState, CallStep
<1>7. thread' = [thread EXCEPT ![t] = r]
  BY <1>1, <1>5 DEF GoOn
<1>8. \A k \in DOMAIN r.got : Fits(t, r.at, r.got[k])
  BY <1>1, <1>3, <1>6, Later DEF RecordOK
<1>9. (r.own => failed # {}) /\ (Totals = {TRUE} => Complete(t, r))
  BY <1>1, <1>3, <1>6 DEF RecordOK, Complete
<1>10. r.at \in StepsOf(t)
  BY <1>3, <1>4, <1>6 DEF StepsOf
<1>. QED BY <1>1, <1>2, <1>3, <1>4, <1>6, <1>7, <1>8, <1>9, <1>10, SucceedsIs, MoveInv

LEMMA ReturnInv == ASSUME ClientIInv, NEW t \in Thread, Return(t) PROVE ClientIInv'
<1>1. /\ thread[t].at = "return"
      /\ UNCHANGED <<config, group, content, call, err, answer, history, changes, failures>>
  BY DEF Return
<1>2. Still /\ UNCHANGED <<answer, err, client, saving, changes, failed, failures>>
  BY <1>1 DEF Still, config, history
<1>3. /\ Running /\ RecordOK(t, thread[t]) /\ thread[t] \in ThreadState
  BY <1>1, AtStep
<1>4. call.op \in Concurrent /\ call.op \notin OnProject /\ t # "main"
  <2>1. "return" \in StepsOf(t)
    BY <1>1, AtStep
  <2>. QED BY <2>1 DEF StepsOf, OnProject, Concurrent
<1>5. PICK e \in {thread[t].own, err} : thread' = [thread EXCEPT ![t].at = "over", ![t].own = e]
  BY DEF Return
<1>6. e \in BOOLEAN /\ (e => failed # {})
  BY <1>3, <1>5 DEF ThreadState, RecordOK, ClientIInv, ClientTypeOK, CallKept
<1>7. PICK r : r = [thread[t] EXCEPT !.at = "over", !.own = e]
  OBVIOUS
<1>8. /\ r \in ThreadState /\ r.at = "over" /\ r.got = thread[t].got /\ r.own = e
  BY <1>3, <1>6, <1>7 DEF ThreadState, CallStep
<1>9. thread' = [thread EXCEPT ![t] = r]
  BY <1>3, <1>5, <1>7 DEF ThreadState, ClientIInv, ClientTypeOK
<1>10. \A k \in DOMAIN r.got : Fits(t, r.at, r.got[k])
  BY <1>1, <1>3, <1>8, Later DEF RecordOK
<1>11. Totals = {TRUE} => Complete(t, r)
  BY <1>1, <1>3, <1>8 DEF RecordOK, Complete
<1>12. r.at \in StepsOf(t)
  BY <1>8 DEF StepsOf
<1>13. err' \in BOOLEAN /\ (err' => failed' # {}) /\ Exchanged
  BY <1>2, SucceedsIs DEF ClientIInv, ClientTypeOK, CallKept
<1>. QED BY <1>2, <1>3, <1>4, <1>6, <1>8, <1>9, <1>10, <1>11, <1>12, <1>13, MoveInv

LEMMA WaitInv == ASSUME ClientIInv, Wait PROVE ClientIInv'
<1>1. /\ Running /\ call.op \in Concurrent /\ \A t \in List : thread[t].at = "over"
      /\ UNCHANGED <<config, group, content, call, err, history, changes, failures>>
  BY DEF Wait
<1>2. Still /\ UNCHANGED <<err, client, saving, changes, failed, failures>> /\ Exchanged
  BY <1>1, SucceedsIs DEF Still, config, history
<1>3. call.op \notin OnProject /\ call.op # "details"
  BY <1>1 DEF Concurrent, OnProject
<1>4. \A t \in Thread : RecordOK(t, thread[t]) /\ thread[t].at = "over" /\ thread[t].got \in Seq(Item)
  <2>1. thread["main"].at = "over"
    BY <1>1, AtStep, MainIs
  <2>. QED BY <1>1, <2>1, MainIs DEF ClientIInv, ThreadsOK, ClientTypeOK
<1>5. CASE (\E t \in List : thread[t].own) /\ Finish("error", [t \in Thread |-> <<>>], {})
  <2>1. PICK items : items = [t \in Thread |-> <<>>]
    OBVIOUS
  <2>2. \A t \in Thread : items[t] = <<>>
    BY <2>1
  <2>3. items \in [Thread -> Seq(Item)]
    BY <2>1, NoItems
  <2>4. Answerable(items, {})
    BY <2>2, NoItems DEF Answerable
  <2>5. failed # {}
    BY <1>4, <1>5 DEF RecordOK, Thread
  <2>6. Finish("error", items, {})
    BY <1>5, <2>1
  <2>. QED BY <1>1, <1>2, <2>3, <2>4, <2>5, <2>6, EndInv
<1>6. CASE (\A t \in List : ~ thread[t].own) /\ Finish("ok", [t \in Thread |-> Told(t, thread[t].got)], {})
  <2>1. PICK items : items = [t \in Thread |-> Told(t, thread[t].got)]
    OBVIOUS
  <2>2. \A t \in Thread : items[t] = Told(t, thread[t].got)
    BY <2>1
  <2>3. \A t \in Thread : items[t] = thread[t].got \/ items[t] = <<>>
    BY <2>2 DEF Told
  <2>4. items \in [Thread -> Seq(Item)]
    BY <1>4, <2>1, <2>3, NoItems
  <2>5. ASSUME NEW t \in Thread, NEW k \in DOMAIN thread[t].got PROVE MayShow(thread[t].got[k])
    <3>1. Fits(t, "over", thread[t].got[k])
      BY <1>1, <1>4 DEF RecordOK
    <3>2. thread[t].got[k] \in Item
      BY <1>4
    <3>. QED BY <1>3, <3>1, <3>2, FitsAnswer
  <2>6. Answerable(items, {})
    BY <2>3, <2>5, NoItems DEF Answerable
  <2>7. ASSUME failed = {}, Undisturbed, call.op \in Whole, Totals = {TRUE}, NEW t \in Thread
        PROVE  items[t] = AllowedPart(content[t])
    <3>1. items[t] = thread[t].got
      BY <2>2, <2>7 DEF Told, Whole
    <3>. QED BY <1>1, <1>4, <2>7, <3>1 DEF RecordOK, Complete
  <2>8. Finish("ok", items, {})
    BY <1>6, <2>1
  <2>. QED BY <1>1, <1>2, <2>4, <2>6, <2>7, <2>8, EndInv
<1>. QED BY <1>5, <1>6 DEF Wait

\* What is read after another page.
LEMMA JoinFits ==
  ASSUME ClientIInv, call # NoCall, call.op # "details", NEW t \in Thread, NEW n \in Nat \ {0},
         NEW got \in Seq(Item), \A k \in DOMAIN got : Fits(t, "page", got[k]),
         NEW all, all = got \o PageAt(Visible(t), n)
  PROVE  all \in Seq(Item) /\ \A k \in DOMAIN all : Fits(t, "page", all[k])
<1>1. PICK s : s = Visible(t)
  OBVIOUS
<1>2. s \in Seq(Item) /\ \A k \in DOMAIN s : Fits(t, "page", s[k])
  BY <1>1, VisibleFits DEF ClientIInv
<1>3. PICK p : p = PageAt(s, n)
  OBVIOUS
<1>4. p \in Seq(Item) /\ \A k \in DOMAIN p : \E j \in DOMAIN s : p[k] = s[j]
  BY <1>2, <1>3, PageItems
<1>5. \A k \in DOMAIN p : Fits(t, "page", p[k])
  BY <1>2, <1>4
<1>6. all = got \o p
  BY <1>1, <1>3
<1>7. all \in Seq(Item)
  BY <1>4, <1>6
<1>8. ASSUME NEW k \in DOMAIN all PROVE Fits(t, "page", all[k])
  <2>1. k \in 1 .. Len(got) + Len(p)
    BY <1>4, <1>6
  <2>2. CASE k <= Len(got)
    <3>1. k \in DOMAIN got /\ all[k] = got[k]
      BY <1>4, <1>6, <2>1, <2>2
    <3>. QED BY <3>1
  <2>3. CASE k > Len(got)
    <3>1. k - Len(got) \in DOMAIN p /\ all[k] = p[k - Len(got)]
      BY <1>4, <1>6, <2>1, <2>3
    <3>. QED BY <1>5, <3>1
  <2>. QED BY <2>1, <2>2, <2>3
<1>. QED BY <1>7, <1>8

\* The last page is the last one.
LEMMA LastPage ==
  ASSUME Totals = {TRUE}, call.op \in Whole, NEW s \in Seq(Item), NEW n \in Nat \ {0},
         NEW said \in Totals, IsLast(s, n, said)
  PROVE  Len(s) <= n * PageSize
<1>1. said = TRUE /\ call.op \notin FirstPageOnly
  BY DEF FirstPageOnly, Whole
<1>2. CASE n >= TotalPages(s, said)
  BY <1>1, <1>2, PagesSuffice
<1>. QED BY <1>1, <1>2 DEF IsLast

LEMMA PageInv == ASSUME ClientIInv, NEW t \in Thread, Page(t) PROVE ClientIInv'
<1>1. /\ thread[t].at = "page"
      /\ UNCHANGED <<config, group, content, call, err, locks, groups, changes>>
  BY DEF Page
<1>2. Still /\ UNCHANGED <<err, client, saving, changes>>
  BY <1>1 DEF Still, config
<1>3. /\ Running /\ call # NoCall /\ answer = NoAnswer /\ RecordOK(t, thread[t])
      /\ thread[t] \in ThreadState
  BY <1>1, AtStep
<1>4. call.op # "details" /\ (t = "main" <=> call.op \notin Concurrent)
      /\ (call.op \in OnProject => MayTouch(call.project))
  <2>1. "page" \in StepsOf(t)
    BY <1>1, AtStep
  <2>2. call.op \in OnProject => MayTouch(call.project)
    BY <1>1, <1>3 DEF RecordOK
  <2>. QED BY <1>1, <2>1, <2>2, AtStep DEF StepsOf, OnProject, Concurrent
<1>5. t = "todos" => call.op \in Concurrent
  BY <1>4
<1>6. PICK s, n, all, kept :
          /\ s = Visible(t) /\ n = thread[t].page /\ all = thread[t].got \o PageAt(s, n)
          /\ kept = Detailed(Kept(t, all))
  OBVIOUS
<1>7. n \in Nat \ {0} /\ n + 1 \in Nat \ {0} /\ thread[t].got \in Seq(Item) /\ s \in Seq(Item)
  BY <1>3, <1>4, <1>6, VisibleFits DEF ThreadState, ClientIInv
<1>8. all \in Seq(Item) /\ \A k \in DOMAIN all : Fits(t, "page", all[k])
  BY <1>1, <1>3, <1>4, <1>6, <1>7, JoinFits DEF RecordOK
<1>9. kept \in Seq(Item) /\ \A k \in DOMAIN kept : Fits(t, "store", kept[k])
  BY <1>3, <1>5, <1>6, <1>8, KeptFits DEF ClientIInv
<1>10. ASSUME Totals = {TRUE}, failed = {}, Undisturbed, call.op \in Whole
       PROVE  /\ Before(n) <= Len(s)
              /\ all = IF n * PageSize < Len(s) THEN SubSeq(s, 1, n * PageSize) ELSE s
  <2>1. Before(n) <= Len(s) /\ thread[t].got = SubSeq(s, 1, Before(n))
    BY <1>1, <1>3, <1>6, <1>10 DEF RecordOK, Complete
  <2>. QED BY <1>6, <1>7, <2>1, PageJoins
<1>11. n * PageSize \in Nat /\ Before(n + 1) = n * PageSize /\ Len(s) \in Nat
  <2>1. n * PageSize \in Nat /\ Before(n + 1) = n * PageSize
    BY <1>7, PageNumbers
  <2>2. Len(s) \in Nat
    BY <1>7
  <2>. QED BY <2>1, <2>2
\* The goroutine ends: it stores its list, or the call is answered.
<1>12. ASSUME NEW kind \in {"ok", "error"}, NEW told \in Seq(Item), Exchanged,
              IF t # "main" THEN /\ thread' = [thread EXCEPT ![t].at = "store", ![t].got = told,
                                                             ![t].own = kind = "error"]
                                 /\ UNCHANGED answer
              ELSE FinishAlone(kind, told, {}),
              \A k \in DOMAIN told : Fits(t, "store", told[k]), kind = "error" => failed' # {},
              Totals = {TRUE} /\ failed' = {} /\ Undisturbed /\ call.op \in Whole =>
                  told = AllowedPart(content[t])
       PROVE  ClientIInv'
  <2>1. CASE t = "main"
    <3>1. \A k \in DOMAIN told : MayShow(told[k])
      <4>1. \A k \in DOMAIN told : told[k] \in Item
        OBVIOUS
      <4>. QED BY <1>4, <1>12, <4>1, FitsAnswer
    <3>2. {} \in SUBSET Project /\ \A p \in {} : MayTouch(p)
      OBVIOUS
    <3>. QED BY <1>2, <1>3, <1>4, <1>12, <2>1, <3>1, <3>2, EndAloneInv
  <2>2. CASE t # "main"
    <3>1. PICK own \in BOOLEAN : own <=> kind = "error"
      OBVIOUS
    <3>2. own = (kind = "error")
      BY <3>1
    <3>3. thread' = [thread EXCEPT ![t].at = "store", ![t].got = told, ![t].own = own]
      BY <1>12, <2>2, <3>2
    <3>4. PICK r : r = [thread[t] EXCEPT !.at = "store", !.got = told, !.own = own]
      OBVIOUS
    <3>5. r \in ThreadState /\ r.at = "store" /\ r.got = told /\ r.own = own
      BY <1>3, <3>4 DEF ThreadState, CallStep
    <3>6. thread' = [thread EXCEPT ![t] = r]
      BY <1>3, <3>3, <3>4 DEF ThreadState, ClientIInv, ClientTypeOK
    <3>7. r.at \in StepsOf(t)
      BY <1>3, <1>4, <2>2, <3>5 DEF StepsOf
    <3>8. Totals = {TRUE} /\ failed' = {} => Complete(t, r)
      BY <1>12, <3>5 DEF Complete, Exchanged
    <3>9. err' \in BOOLEAN /\ (err' => failed' # {})
      BY <1>2, <1>12 DEF ClientIInv, ClientTypeOK, CallKept, Exchanged
    <3>10. (r.own => failed' # {}) /\ \A k \in DOMAIN r.got : Fits(t, r.at, r.got[k])
      BY <1>12, <3>1, <3>5
    <3>. QED BY <1>2, <1>3, <1>12, <2>2, <3>5, <3>6, <3>7, <3>8, <3>9, <3>10, MoveInv
  <2>. QED BY <2>1, <2>2
<1>13. CASE /\ \E said \in Totals :
                  \/ /\ IsLast(s, n, said)
                     /\ IF t # "main" THEN /\ thread' = [thread EXCEPT ![t].at = "store", ![t].got = kept,
                                                                       ![t].own = "ok" = "error"]
                                           /\ UNCHANGED answer
                        ELSE FinishAlone("ok", kept, {})
                  \/ /\ ~ IsLast(s, n, said)
                     /\ thread' = [thread EXCEPT ![t].page = n + 1, ![t].got = all]
                     /\ UNCHANGED answer
            /\ UNCHANGED <<failed, failures>>
  <2>1. PICK said \in Totals :
            \/ /\ IsLast(s, n, said)
               /\ IF t # "main" THEN /\ thread' = [thread EXCEPT ![t].at = "store", ![t].got = kept,
                                                                 ![t].own = "ok" = "error"]
                                     /\ UNCHANGED answer
                  ELSE FinishAlone("ok", kept, {})
            \/ /\ ~ IsLast(s, n, said)
               /\ thread' = [thread EXCEPT ![t].page = n + 1, ![t].got = all]
               /\ UNCHANGED answer
    BY <1>13
  <2>2. Exchanged
    BY <1>13, SucceedsIs
  <2>3. CASE /\ IsLast(s, n, said)
             /\ IF t # "main" THEN /\ thread' = [thread EXCEPT ![t].at = "store", ![t].got = kept,
                                                               ![t].own = "ok" = "error"]
                                   /\ UNCHANGED answer
                ELSE FinishAlone("ok", kept, {})
    <3>1. ASSUME Totals = {TRUE}, failed = {}, Undisturbed, call.op \in Whole
          PROVE  kept = AllowedPart(content[t])
      <4>1. Len(s) <= n * PageSize
        BY <1>7, <2>3, <3>1, LastPage
      <4>2. all = s
        BY <1>10, <1>11, <3>1, <4>1
      <4>. QED BY <1>3, <1>4, <1>5, <1>6, <3>1, <4>2, KeptWhole DEF ClientIInv
    <3>. QED BY <1>9, <1>12, <1>13, <2>2, <2>3, <3>1
  <2>4. CASE /\ ~ IsLast(s, n, said)
             /\ thread' = [thread EXCEPT ![t].page = n + 1, ![t].got = all]
             /\ UNCHANGED answer
    <3>1. PICK r : r = [thread[t] EXCEPT !.page = n + 1, !.got = all]
      OBVIOUS
    <3>2. /\ r \in ThreadState /\ r.at = "page" /\ r.page = n + 1 /\ r.got = all
          /\ r.own = thread[t].own
      BY <1>1, <1>3, <1>7, <1>8, <3>1 DEF ThreadState
    <3>3. thread' = [thread EXCEPT ![t] = r]
      BY <1>3, <2>4, <3>1 DEF ThreadState, ClientIInv, ClientTypeOK
    <3>4. ASSUME Totals = {TRUE}, failed = {} PROVE Complete(t, r)
      <4>1. n * PageSize < Len(s)
        BY <1>11, <2>4 DEF IsLast
      <4>2. Undisturbed /\ call.op \in Whole => all = SubSeq(s, 1, n * PageSize)
        BY <1>10, <3>4, <4>1
      <4>3. Before(r.page) = n * PageSize /\ Before(r.page) <= Len(s)
        <5>1. PICK m \in Nat : m = n * PageSize
          BY <1>11
        <5>. QED BY <1>11, <3>2, <4>1, <5>1
      <4>. QED BY <1>6, <3>2, <4>2, <4>3 DEF Complete
    <3>5. r.at \in StepsOf(t)
      BY <1>1, <1>3, <3>2 DEF RecordOK
    <3>6. r.own => failed # {}
      BY <1>3, <3>2 DEF RecordOK
    <3>7. \A k \in DOMAIN r.got : Fits(t, r.at, r.got[k])
      BY <1>8, <3>2
    <3>8. err' \in BOOLEAN /\ (err' => failed' # {})
      BY <1>2, <1>13 DEF ClientIInv, ClientTypeOK, CallKept
    <3>. QED BY <1>2, <1>3, <1>4, <1>13, <2>2, <2>4, <3>2, <3>3, <3>4, <3>5, <3>6, <3>7, <3>8, MoveInv
  <2>. QED BY <2>1, <2>3, <2>4
<1>14. CASE /\ Fails /\ failed' = failed \cup {t}
            /\ IF t # "main" THEN /\ thread' = [thread EXCEPT ![t].at = "store", ![t].got = <<>>,
                                                              ![t].own = "error" = "error"]
                                  /\ UNCHANGED answer
               ELSE FinishAlone("error", <<>>, {})
  <2>1. Exchanged /\ failed' # {}
    BY <1>14, FailsIs
  <2>. QED BY <1>12, <1>14, <2>1, NoItems
<1>. QED BY <1>6, <1>13, <1>14 DEF Page

-----------------------------------------------------------------------------
(* GitlabClient: the theorems *)

LEMMA ClientInitInv == ClientInit => ClientIInv
<1> SUFFICES ASSUME ClientInit PROVE ClientIInv
  OBVIOUS
<1>1. /\ lock \in Group \cup {Nothing} /\ client = lock /\ saving = FALSE /\ group \in [Project -> Group]
      /\ content = [t \in Thread |-> <<>>] /\ call = NoCall /\ thread = [t \in Thread |-> NoThread]
      /\ err = FALSE /\ answer = NoAnswer
      /\ locks = {} /\ groups = [p \in Project |-> {}] /\ failed = {}
      /\ changes = 0 /\ failures = 0
  BY DEF ClientInit
<1>2. ClientTypeOK
  <2>1. content \in [Thread -> Seq(Item)]
    BY <1>1, NoItems
  <2>2. thread \in [Thread -> ThreadState]
    <3>1. NoThread \in ThreadState
      BY DEF NoThread, ThreadState, CallStep
    <3>. QED BY <1>1, <3>1
  <2>3. answer \in [kind : {"none", "ok", "error"}, items : [Thread -> Seq(Item)], about : SUBSET Project]
    <3>1. [t \in Thread |-> <<>>] \in [Thread -> Seq(Item)]
      BY NoItems
    <3>. QED BY <1>1, <3>1 DEF NoAnswer
  <2>4. call \in [op : Op \cup {Nothing}, project : Project \cup {Nothing},
                  path : Group \cup {Nothing}, group : Group \cup {Nothing}]
    BY <1>1 DEF NoCall
  <2>5. 0 \in 0 .. MaxChanges /\ 0 \in 0 .. MaxFailures
    BY ClientAssumption
  <2>6. groups \in [Project -> SUBSET Group]
    BY <1>1
  <2>. QED BY <1>1, <2>1, <2>2, <2>3, <2>4, <2>5, <2>6 DEF ClientTypeOK, ThreadState
<1>3. CallKept
  BY <1>1 DEF CallKept
<1>4. ThreadsOK
  <2>1. ~ Running
    BY <1>1 DEF Running
  <2>. QED BY <1>1, <2>1, RestOK DEF ThreadsOK
<1>5. AnswerKept
  BY <1>1 DEF AnswerKept, AnswerLocked, ErrorHasReason, AnswerComplete, NoAnswer
<1>. QED BY <1>2, <1>3, <1>4, <1>5 DEF ClientIInv

LEMMA ClientNextInv == ClientIInv /\ [ClientNext]_clientVars => ClientIInv'
<1> SUFFICES ASSUME ClientIInv, [ClientNext]_clientVars PROVE ClientIInv'
  OBVIOUS
<1>1. CASE Operation
  BY <1>1, BeginCallInv, CheckInv, SiftInv, FetchInv, ChangeStepInv, WaitInv, PageInv, StoreInv, ReturnInv
     DEF Operation
<1>2. CASE SetConfiguration \/ MakeClient \/ Transfer
  BY <1>2, SetConfigurationInv, MakeClientInv, TransferInv
<1>3. CASE UNCHANGED clientVars
  <2>1. UNCHANGED <<lock, client, saving, group, content, call, thread, err, answer, locks, groups,
                    failed, changes, failures>>
    BY <1>3 DEF clientVars, config, history
  <2>2. ClientTypeOK' /\ CallKept'
    BY <2>1 DEF ClientIInv, ClientTypeOK, CallKept
  <2>. QED BY <2>1, <2>2, SameInv DEF ClientIInv, Still
<1>. QED BY <1>1, <1>2, <1>3 DEF ClientNext

LEMMA ClientInvariant == ClientSpec => []ClientIInv
BY ClientInitInv, ClientNextInv, PTL DEF ClientSpec

\* The state is well typed; and the group lock holds, which checkGroup and the lists of the
\* client keep: no call shows or changes anything of a project that no lock in force during
\* the call allowed in a group the project was in, whenever the settings are saved, whenever
\* the project moves and however the goroutines of GetLHSData run. An issue or merge request
\* asked for by path and number is shown only if a lock of the time allowed the path.
THEOREM LockIsKept == ClientSpec => []ClientInv
<1>1. ClientIInv => ClientInv
  <2> SUFFICES ASSUME ClientIInv, answer # NoAnswer,
                      call.op \in OnProject \cup {"details"} \/ call.group \in locks
               PROVE  \A p \in Shown : MayTouch(p)
    BY DEF ClientInv, LockHolds, ClientIInv, MayTouch
  <2>1. \A p \in answer.about : MayTouch(p)
    BY DEF ClientIInv, AnswerKept, AnswerLocked
  <2>2. ASSUME NEW t \in Thread, NEW k \in DOMAIN answer.items[t]
        PROVE  MayTouch(Of(answer.items[t][k]))
    <3>1. MayShow(answer.items[t][k])
      BY DEF ClientIInv, AnswerKept, AnswerLocked
    <3>. QED BY <3>1 DEF MayShow, MayTouch, AllowedThen, OnProject
  <2>. QED BY <2>1, <2>2 DEF Shown
<1>. QED BY <1>1, ClientInvariant, PTL

\* paginateAll and GetLHSData: an error has a reason; and if GitLab says how many pages a list
\* has, what nothing failed to bring is answered whole and in order, whatever the number of
\* lists, the size of a page and the order in which the goroutines end.
THEOREM AnswersFit == ClientSpec => [](ErrorHasReason /\ (Totals = {TRUE} => AnswerFits))
<1>1. ClientIInv => ErrorHasReason /\ (Totals = {TRUE} => AnswerFits)
  BY DEF ClientIInv, AnswerKept, AnswerFits
<1>. QED BY <1>1, ClientInvariant, PTL
=============================================================================
