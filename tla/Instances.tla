------------------------------- MODULE Instances -------------------------------
(***************************************************************************)
(* The GitLab instances an administrator installs: two values of the       *)
(* shared store, the list of names and the map of configurations, and the  *)
(* name of the default instance in the plugin's settings                   *)
(* (server/instance.go); the wizard that installs them (server/flow.go)    *)
(* and the commands that remove them and choose the default                *)
(* (server/command.go).                                                    *)
(*                                                                         *)
(* Each read or write of the store, and each save of the settings, is one  *)
(* step of the goroutine that executes the command or the dialog.          *)
(***************************************************************************)
EXTENDS Naturals

CONSTANTS
    Node,
    Worker,     \* administrators, each with a wizard and commands
    Name,
    Url,        \* valid GitLab URLs
    None,
    Legacy,     \* the URL of the legacy settings, or None if they are not set
    Chimera,    \* the proxy that has the application of Mattermost
    Preregistered, \* whether the settings say to use that application
    MaxOps,     \* bound: commands and wizards
    MaxFaults   \* bound: failing reads and writes

\* A value of the map's key: nil before the first installation.
Map == [Name -> Url \cup {None}]
Setting == [default : Name \cup {None}]

ASSUME ConstantsAssumption ==
    /\ MaxOps \in Nat /\ MaxFaults \in Nat
    /\ None \notin Name \cup Url \cup Node
    /\ None \notin Map /\ None \notin Setting
    /\ Legacy \in Url \cup {None}
    /\ Preregistered \in BOOLEAN /\ Chimera # None

VARIABLES
    list,       \* the stored names
    map,        \* the stored map, or None
    saved,      \* the plugin's settings in the Mattermost server
    cfg,        \* the configuration in each node's memory
    fm,         \* the fields gitlabURL and instanceName of each node's FlowManager
    pc, op,     \* what each worker does next, and in which operation
    names, conf,\* the worker's copies of list and map
    draft,      \* the settings it is about to save
    asked,      \* the URL each worker chose in its wizard, None before
    offered,    \* the workers whose wizard offers to make the new instance the default
    answered,   \* history: names ever listed, names a command said it uninstalled, and the
                \* last default set
    overlap,    \* history: an operation was started while another one was running
    ops, faults

stored == <<list, map>>
settings == <<saved, cfg>>
locals == <<names, conf, draft>>
vars == <<list, map, saved, cfg, fm, pc, op, names, conf, draft, asked, offered,
          answered, overlap, ops, faults>>

Label == {"idle", "readList", "readMap", "writeMap", "writeList", "readDefault", "save"}
NoOp == [kind |-> "none", node |-> None, name |-> None, url |-> None]

TypeOK ==
    /\ list \subseteq Name
    /\ map \in Map \cup {None}
    /\ saved \in Setting
    /\ cfg \in [Node -> Setting]
    /\ fm \in [Node -> [url : Url \cup {None}, name : Name \cup {None}]]
    /\ pc \in [Worker -> Label]
    /\ op \in [Worker -> [kind : {"none", "url", "install", "uninstall", "default"},
                          node : Node \cup {None}, name : Name \cup {None},
                          url : Url \cup {None}]]
    /\ names \in [Worker -> SUBSET Name]
    /\ conf \in [Worker -> Map \cup {None}]
    /\ draft \in [Worker -> Setting \cup {None}]
    /\ offered \subseteq Worker
    /\ asked \in [Worker -> Url \cup {None}]
    /\ answered \in [was : SUBSET Name, gone : SUBSET Name, default : Name \cup {None}]
    /\ overlap \in BOOLEAN
    /\ ops \in 0 .. MaxOps /\ faults \in 0 .. MaxFaults

Init ==
    /\ list = {} /\ map = None
    /\ saved = [default |-> None]
    /\ cfg = [n \in Node |-> saved]
    /\ fm = [n \in Node |-> [url |-> None, name |-> None]]
    /\ pc = [w \in Worker |-> "idle"]
    /\ op = [w \in Worker |-> NoOp]
    /\ names = [w \in Worker |-> {}]
    /\ conf = [w \in Worker |-> None]
    /\ draft = [w \in Worker |-> None]
    /\ asked = [w \in Worker |-> None]
    /\ offered = {}
    /\ answered = [was |-> {}, gone |-> {}, default |-> None]
    /\ overlap = FALSE
    /\ ops = 0 /\ faults = 0

-----------------------------------------------------------------------------
(* Looking an instance up *)

\* The name is listed and in the map.
Installed(name) == name \in list /\ map # None /\ map[name] # None

\* getInstance succeeds: its reads of the store do, and the instance is there.
GetsInstance(name, readable) == readable /\ Installed(name)

\* canConnect
CanConnect(n, readable) ==
    (cfg[n].default # None /\ GetsInstance(cfg[n].default, readable)) \/ Legacy # None

\* resolveOAuthCredentials: the URL whose credentials are used, or None for an error.
ResolvedURL(n, readable) ==
    IF GetsInstance(cfg[n].default, readable) THEN map[cfg[n].default] ELSE Legacy

\* getOAuthConfig
OAuthURL(n, readable) == IF Preregistered THEN Chimera ELSE ResolvedURL(n, readable)

-----------------------------------------------------------------------------

Fault == faults < MaxFaults /\ faults' = faults + 1
Goto(w, label) == pc' = [pc EXCEPT ![w] = label]

\* The operation returns.
Leave(w) ==
    /\ Goto(w, "idle")
    /\ op' = [op EXCEPT ![w] = NoOp]
    /\ names' = [names EXCEPT ![w] = {}]
    /\ conf' = [conf EXCEPT ![w] = None]
    /\ draft' = [draft EXCEPT ![w] = None]

\* No operation is running.
Quiet == \A w \in Worker : pc[w] = "idle"

\* A worker turns to its next operation.
Begin(w) ==
    /\ pc[w] = "idle"
    /\ ops < MaxOps
    /\ ops' = ops + 1
    /\ overlap' = (overlap \/ ~Quiet)

Start(w, label, o) ==
    /\ Begin(w)
    /\ Goto(w, label)
    /\ op' = [op EXCEPT ![w] = o]
    /\ UNCHANGED <<stored, settings, locals, faults>>

\* The configuration in memory is written as a whole; setGitlabURL does so too,
\* though it has changed nothing in it.
Save(w, n) == draft' = [draft EXCEPT ![w] = cfg[n]]

-----------------------------------------------------------------------------
(* The wizard, any of whose dialogs may be served by any node *)

\* setGitlabURL and submitGitlabURL: the URL goes to the node's FlowManager. The
\* button for gitlab.com saves the settings as well, the dialog does not.
ChooseURL(w) ==
    /\ Begin(w)
    /\ \E n \in Node, u \in Url :
        /\ fm' = [fm EXCEPT ![n].url = u]
        /\ asked' = [asked EXCEPT ![w] = u]
        /\ offered' = offered \ {w}
        /\ \/ UNCHANGED <<pc, op, draft>>
           \/ /\ op' = [op EXCEPT ![w] = [kind |-> "url", node |-> n, name |-> None, url |-> None]]
              /\ Goto(w, "save")
              /\ Save(w, n)
    /\ UNCHANGED <<stored, settings, names, conf, answered, faults>>

\* submitOAuthConfig: installInstance validates the URL.
Submit(w) ==
    \E n \in Node, x \in Name :
        /\ asked[w] # None /\ w \notin offered
        /\ fm[n].url # None
        /\ Start(w, "readList", [kind |-> "install", node |-> n, name |-> x, url |-> fm[n].url])
        /\ answered' = [answered EXCEPT !.gone = @ \ {x}]
        /\ UNCHANGED <<fm, asked, offered>>

\* The button of stepSetDefaultInstance: the name is the one of the node's FlowManager.
MakeDefault(w) ==
    \E n \in Node :
        /\ w \in offered
        /\ Start(w, "readDefault",
                 [kind |-> "default", node |-> n, name |-> fm[n].name, url |-> None])
        /\ answered' = [answered EXCEPT !.default = None]
        /\ offered' = offered \ {w}
        /\ UNCHANGED <<fm, asked>>

-----------------------------------------------------------------------------
(* The commands *)

Uninstall(w) ==
    \E n \in Node, x \in Name :
        /\ Start(w, "readList", [kind |-> "uninstall", node |-> n, name |-> x, url |-> None])
        /\ UNCHANGED <<fm, asked, offered, answered>>

SetDefault(w) ==
    \E n \in Node, x \in Name :
        /\ Start(w, "readDefault", [kind |-> "default", node |-> n, name |-> x, url |-> None])
        /\ answered' = [answered EXCEPT !.default = None]
        /\ UNCHANGED <<fm, asked, offered>>

-----------------------------------------------------------------------------
(* installInstance and uninstallInstance *)

\* A name that is listed cannot be installed, one that is not cannot be uninstalled.
ReadList(w) ==
    /\ pc[w] = "readList"
    /\ IF (op[w].kind = "install") = (op[w].name \in list)
       THEN Leave(w)
       ELSE /\ names' = [names EXCEPT ![w] = list]
            /\ Goto(w, "readMap")
            /\ UNCHANGED <<op, conf, draft>>
    /\ UNCHANGED <<stored, settings, fm, asked, offered, answered, overlap, ops, faults>>

\* The first installation finds no map. An instance to be uninstalled must be in it.
ReadMap(w) ==
    /\ pc[w] = "readMap"
    /\ IF op[w].kind = "uninstall" /\ (map = None \/ map[op[w].name] = None)
       THEN Leave(w)
       ELSE conf' = [conf EXCEPT ![w] = map] /\ Goto(w, "writeMap") /\ UNCHANGED <<op, names, draft>>
    /\ UNCHANGED <<stored, settings, fm, asked, offered, answered, overlap, ops, faults>>

Empty == [x \in Name |-> None]

\* Mutation: the instances of the map are not taken over.
WriteMapAnew(w) ==
    /\ pc[w] = "writeMap"
    /\ map' = [Empty EXCEPT ![op[w].name] = op[w].url]
    /\ Goto(w, "writeList")
    /\ UNCHANGED <<list, settings, fm, op, locals, asked, offered, answered, overlap, ops, faults>>

\* The instance is put into, or deleted from, the copy of the map.
WriteMap(w) ==
    /\ pc[w] = "writeMap"
    /\ map' = [IF conf[w] = None THEN Empty ELSE conf[w] EXCEPT ![op[w].name] = op[w].url]
    /\ Goto(w, "writeList")
    /\ UNCHANGED <<list, settings, fm, op, locals, asked, offered, answered, overlap, ops, faults>>

\* Mutation: the list of names is written back as it was read.
WriteListUnchanged(w) ==
    /\ pc[w] = "writeList"
    /\ list' = names[w]
    /\ fm' = [fm EXCEPT ![op[w].node].name = op[w].name]
    /\ Leave(w)
    /\ UNCHANGED <<map, settings, asked, offered, answered, overlap, ops, faults>>

\* The name is added to, or deleted from, the copy of the list. The first instance
\* becomes the default; the wizard remembers the name of the one it installed.
WriteList(w) ==
    /\ pc[w] = "writeList"
    /\ \/ /\ op[w].kind = "install"
          /\ list' = names[w] \cup {op[w].name}
          /\ \/ /\ conf[w] = None
                /\ Goto(w, "readDefault")
                /\ UNCHANGED <<op, locals, fm, offered>>
             \/ /\ conf[w] # None
                /\ fm' = [fm EXCEPT ![op[w].node].name = op[w].name]
                /\ offered' = offered \cup {w}
                /\ Leave(w)
          /\ answered' = [answered EXCEPT !.was = @ \cup {op[w].name}]
       \/ /\ op[w].kind = "uninstall"
          /\ list' = names[w] \ {op[w].name}
          /\ answered' = [answered EXCEPT !.gone = @ \cup {op[w].name}]
          /\ Leave(w)
          /\ UNCHANGED <<fm, offered>>
    /\ UNCHANGED <<map, settings, asked, overlap, ops, faults>>

-----------------------------------------------------------------------------
(* setDefaultInstance *)

\* Mutation: any name can become the default.
ReadDefaultAny(w) ==
    /\ pc[w] = "readDefault"
    /\ cfg' = [cfg EXCEPT ![op[w].node].default = op[w].name]
    /\ draft' = [draft EXCEPT ![w] = cfg'[op[w].node]]
    /\ Goto(w, "save")
    /\ UNCHANGED <<stored, saved, fm, op, names, conf, asked, offered, answered, overlap, ops, faults>>

\* The name must be listed. The configuration in memory is changed in place.
ReadDefault(w) ==
    /\ pc[w] = "readDefault"
    /\ LET n == op[w].node IN
       IF op[w].name \in list
       THEN /\ cfg' = [cfg EXCEPT ![n].default = op[w].name]
            /\ draft' = [draft EXCEPT ![w] = cfg'[n]]
            /\ Goto(w, "save")
            /\ UNCHANGED <<op, names, conf>>
       ELSE Leave(w) /\ UNCHANGED cfg
    /\ UNCHANGED <<stored, saved, fm, asked, offered, answered, overlap, ops, faults>>

\* SavePluginConfig; the wizard, or the command, goes on or answers.
SaveConfig(w) ==
    /\ pc[w] = "save"
    /\ saved' = draft[w]
    /\ \/ /\ op[w].kind = "install"
          /\ fm' = [fm EXCEPT ![op[w].node].name = op[w].name]
          /\ offered' = offered \cup {w}
          /\ answered' = [answered EXCEPT !.default = None]
       \/ /\ op[w].kind = "default"
          /\ answered' = [answered EXCEPT !.default = op[w].name]
          /\ UNCHANGED <<fm, offered>>
       \/ op[w].kind = "url" /\ UNCHANGED <<fm, offered, answered>>
    /\ Leave(w)
    /\ UNCHANGED <<stored, cfg, asked, overlap, ops, faults>>

\* A read or a write fails, and the operation with it.
Fail(w) ==
    /\ pc[w] # "idle"
    /\ Fault
    /\ Leave(w)
    /\ UNCHANGED <<stored, settings, fm, asked, offered, answered, overlap, ops>>

\* The server tells the node of the settings it has.
OnConfigurationChange(n) ==
    /\ cfg[n] # saved
    /\ cfg' = [cfg EXCEPT ![n] = saved]
    /\ UNCHANGED <<stored, saved, fm, pc, op, locals, asked, offered, answered, overlap, ops, faults>>

-----------------------------------------------------------------------------

Command(w) == ChooseURL(w) \/ Submit(w) \/ MakeDefault(w) \/ Uninstall(w) \/ SetDefault(w)

Step(w) ==
    \/ ReadList(w) \/ ReadMap(w) \/ WriteMap(w) \/ WriteList(w) \/ ReadDefault(w)
    \/ SaveConfig(w) \/ Fail(w)

Next ==
    \/ \E w \in Worker : Command(w) \/ Step(w)
    \/ \E n \in Node : OnConfigurationChange(n)

Spec == Init /\ [][Next]_vars

-----------------------------------------------------------------------------
(* Properties *)

\* Operations one after the other, as long as none fails in the middle, keep the two values
\* in step, whichever nodes serve them and whatever settings these have in memory.
ListMatchesMap ==
    Quiet /\ ~overlap /\ faults = 0 =>
        list = {x \in Name : map # None /\ map[x] # None}

\* The invariant of the stored instances (installInstance, uninstallInstance): types, and the
\* two values in step.
InstancesInv == TypeOK /\ ListMatchesMap

\* "instance '%s' does not exist": neither a command, nor the wizard's button, nor the
\* end of an installation makes a name the default that was never on the list.
DefaultWasInstalled == saved.default # None => saved.default \in answered.was

\* Somebody has uninstalled an instance since it was last to be installed, or is installing
\* or uninstalling it.
Withdrawn(x) ==
    x \in answered.gone \/ \E w \in Worker : op[w].kind \in {"install", "uninstall"} /\ op[w].name = x

\* getInstance finds the default of every node, whichever node changed it, was told of it late
\* or saved its own settings over it, until somebody uninstalls that instance; as long as
\* operations follow one another and none fails in the middle.
DefaultResolves ==
    ~overlap /\ faults = 0 =>
        \A n \in Node : LET x == cfg[n].default IN x = None \/ Installed(x) \/ Withdrawn(x)

\* "canConnect checks whether the plugin has enough configuration to allow a user to connect":
\* it lets a user go to GitLab exactly when getOAuthConfig will find credentials. Violated
\* with the preregistered application, which canConnect does not know of.
ConnectHasCredentials ==
    \A n \in Node, readable \in BOOLEAN : CanConnect(n, readable) <=> OAuthURL(n, readable) # None

\* "instance name '%s' already exists": a name that cannot be installed again is
\* installed, and can be uninstalled.
RefusedIsInstalled == Quiet => \A x \in list : Installed(x)

\* "Instance '%s' has been uninstalled.": it stays so until somebody installs it.
UninstalledIsGone == Quiet => \A x \in answered.gone : ~Installed(x)

\* "Instance '%s' has been set as the default.": it stays so until somebody sets
\* another one.
DefaultStays ==
    Quiet /\ answered.default # None => saved.default = answered.default

\* "the struct returned by this API call is considered immutable": the configuration
\* in a node's memory is only ever replaced by the one the server has.
ConfigurationImmutable == [][\A n \in Node : cfg'[n] # cfg[n] => cfg'[n] = saved]_vars

\* "go to {{ .GitlabURL }}/-/profile/applications": the wizard sends its user to an
\* instance to register an application, whose ID and secret it then takes; they are
\* installed with the URL of that instance.
WizardKeepsItsURL == \A w \in Worker : op[w].kind = "install" => op[w].url = asked[w]
=============================================================================
