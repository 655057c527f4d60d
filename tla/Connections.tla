------------------------------- MODULE Connections -------------------------------
(***************************************************************************)
(* What the plugin keeps about a connected user, over everything that      *)
(* writes it: coming back from GitLab, "/gitlab disconnect" and its        *)
(* best-effort form, "/gitlab settings", the settings API and the daily    *)
(* reminder (server/api.go, server/command.go, server/plugin.go).          *)
(*                                                                         *)
(* There is no lock: a goroutine reads the user's info, decides on a list  *)
(* of writes, and makes them one after the other, each a call to the       *)
(* key-value store that may fail. The value of the token is left to        *)
(* TokenAccess; here it is stored or not.                                  *)
(***************************************************************************)
EXTENDS Naturals, Sequences, FiniteSets

CONSTANTS
    User,       \* Mattermost users
    Account,    \* GitLab accounts, each with a username and an ID
    Worker,     \* goroutines that serve requests and commands
    None,
    MaxDay,     \* bound: days that pass
    MaxOps,     \* bound: requests and commands
    MaxFaults,  \* bound: failing calls of the store, goroutines that die
    Revocation  \* whether GitLab may revoke a token (subset of BOOLEAN)

\* <user>_userinfo: the account, the settings, and the day of the last reminder.
Info == [account : Account, notify : BOOLEAN, remind : BOOLEAN, last : 0 .. MaxDay]

ASSUME ConstantsAssumption ==
    /\ MaxDay \in Nat /\ MaxOps \in Nat /\ MaxFaults \in Nat
    /\ None \notin User \cup Account \cup Info
    /\ Revocation \subseteq BOOLEAN

VARIABLES
    info,       \* <user>_userinfo
    token,      \* users with a <user>_usertoken
    name,       \* <username>_gitlabusername: the user an account is mapped to
    id,         \* accounts with a <id>_gitlabidusername
    work,       \* the goroutines
    day,
    authorised, \* history: the users that came back from GitLab with each account
    reminded,   \* history: daily reminders posted to each user, by day
    told,       \* history: users who were told that they have been disconnected
    overlap,    \* history: users for whom two goroutines have been at work at a time
    odd,        \* history: users whose mapping the code does not keep in step, see below
    ops, faults

kv == <<info, token, name, id>>
history == <<authorised, reminded, told, overlap, odd>>
vars == <<kv, work, day, history, ops, faults>>

\* A call of the store ("put", "del"), or of a function that decides what to do. When a step
\* that must succeed fails, the goroutine answers with an error and ends.
Entry == {"info", "token", "name", "id"}
Function == {"disconnect", "force", "todo"}
Step == [do : {"put", "del", "call"}, key : Entry \cup Function, must : BOOLEAN]

Put(key) == [do |-> "put", key |-> key, must |-> FALSE]
Must(key) == [do |-> "put", key |-> key, must |-> TRUE]
Del(key) == [do |-> "del", key |-> key, must |-> FALSE]
Call(f) == [do |-> "call", key |-> f, must |-> FALSE]

\* A goroutine: its user, the info it is about to store, the account whose mappings it
\* writes, and what is left to do.
Idle == [user |-> None, info |-> None, account |-> None, steps |-> <<>>]

TypeOK ==
    /\ info \in [User -> Info \cup {None}]
    /\ token \subseteq User
    /\ name \in [Account -> User \cup {None}]
    /\ id \subseteq Account
    /\ work \in [Worker -> [user : User \cup {None}, info : Info \cup {None},
                            account : Account \cup {None}, steps : Seq(Step)]]
    /\ day \in 0 .. MaxDay
    /\ authorised \in [Account -> SUBSET User]
    /\ reminded \in [User -> [0 .. MaxDay -> Nat]]
    /\ told \subseteq User /\ overlap \subseteq User /\ odd \subseteq User
    /\ ops \in 0 .. MaxOps /\ faults \in 0 .. MaxFaults

Init ==
    /\ info = [u \in User |-> None]
    /\ token = {}
    /\ name = [a \in Account |-> None]
    /\ id = {}
    /\ work = [w \in Worker |-> Idle]
    /\ day = 0
    /\ authorised = [a \in Account |-> {}]
    /\ reminded = [u \in User |-> [d \in 0 .. MaxDay |-> 0]]
    /\ told = {} /\ overlap = {} /\ odd = {}
    /\ ops = 0 /\ faults = 0

Fault == faults < MaxFaults /\ faults' = faults + 1

Busy(u) == \E w \in Worker : work[w].user = u

-----------------------------------------------------------------------------
(* What a request or a command sets out to do *)

\* A goroutine starts for user u: the info it will store, the account, and the steps.
Begin(w, u, i, a, steps) ==
    /\ work[w] = Idle
    /\ ops < MaxOps
    /\ ops' = ops + 1
    /\ work' = [work EXCEPT ![w] = [user |-> u, info |-> i, account |-> a, steps |-> steps]]
    /\ overlap' = IF Busy(u) THEN overlap \cup {u} ELSE overlap
    /\ UNCHANGED <<kv, day, reminded, faults>>

ConnectSteps == <<Must("info"), Must("token"), Put("name"), Put("id")>>
\* Mutation: the mapping stays.
DisconnectStepsUnmapped == <<Del("info"), Del("token"), Del("id")>>

DisconnectSteps == <<Del("info"), Del("token"), Del("name"), Del("id")>>

ForceSteps(known) ==
    IF known THEN <<Del("token"), Del("info"), Del("name"), Del("id")>>
             ELSE <<Del("token"), Del("info")>>
NotificationsSteps(on) ==
    IF on THEN <<Must("name"), Must("id"), Must("info")>>
          ELSE <<[Del("name") EXCEPT !.must = TRUE], Must("info")>>

\* The info of GetCurrentUser.
NewInfo(a) == [account |-> a, notify |-> TRUE, remind |-> TRUE, last |-> day]

\* completeConnectUserToGitlab, when GitLab has told the account. Nobody looks whether the
\* user has another account, or another user has this one: both leave a mapping behind
\* that is not the user's, or that another disconnection takes away.
Connect(w) ==
    \E u \in User, a \in Account :
        /\ Begin(w, u, NewInfo(a), a, ConnectSteps)
        /\ authorised' = [authorised EXCEPT ![a] = @ \cup {u}]
        /\ told' = told \ {u}
        /\ odd' = odd
              \cup (IF authorised[a] \subseteq {u} THEN {} ELSE authorised[a] \cup {u})
              \cup (IF \E b \in Account \ {a} : name[b] = u THEN {u} ELSE {})

\* "/gitlab disconnect", or a user that is deactivated.
Disconnect(w) ==
    \E u \in User :
        /\ info[u] # None
        /\ Begin(w, u, None, None, <<Call("disconnect")>>)
        /\ UNCHANGED <<authorised, told, odd>>

\* forceDisconnectUser, called by re-encryption.
ForceDisconnect(w) ==
    \E u \in User :
        /\ Begin(w, u, None, None, <<Call("force")>>)
        /\ told' = told \cup {u}
        /\ UNCHANGED <<authorised, odd>>

\* "/gitlab settings", with the info that ExecuteCommand read.
Settings(w) ==
    \E u \in User, on \in BOOLEAN :
        /\ info[u] # None
        /\ \/ Begin(w, u, [info[u] EXCEPT !.notify = on], info[u].account, NotificationsSteps(on))
           \/ Begin(w, u, [info[u] EXCEPT !.remind = on], info[u].account, <<Must("info")>>)
        /\ UNCHANGED <<authorised, told, odd>>

\* Mutation: the whole info is taken from the body of the request.
UpdateInfo(w) ==
    \E u \in User, i \in Info :
        /\ info[u] # None
        /\ Begin(w, u, i, None, <<Put("info")>>)
        /\ UNCHANGED <<authorised, told, odd>>

\* Mutation: a body that is null is stored.
UpdateWithNull(w) ==
    \E u \in User :
        /\ info[u] # None
        /\ Begin(w, u, [info[u] EXCEPT !.notify = None, !.remind = None], None, <<Put("info")>>)
        /\ UNCHANGED <<authorised, told, odd>>

\* updateSettings: the settings come from the body of the request. It leaves the mapping
\* alone, which the command moves along with the setting.
UpdateSettings(w) ==
    \E u \in User, notify \in BOOLEAN, remind \in BOOLEAN :
        /\ info[u] # None
        /\ Begin(w, u, [info[u] EXCEPT !.notify = notify, !.remind = remind], None, <<Put("info")>>)
        /\ odd' = IF notify = info[u].notify THEN odd ELSE odd \cup {u}
        /\ UNCHANGED <<authorised, told>>

\* Mutation: the time of the last reminder is not set.
RemindOnly(w) ==
    \E u \in User :
        /\ info[u] # None
        /\ info[u].remind /\ info[u].last < day
        /\ Begin(w, u, info[u], None, <<Call("todo"), Put("info")>>)
        /\ UNCHANGED <<authorised, told, odd>>

\* getConnected with reminder=true.
Remind(w) ==
    \E u \in User :
        /\ info[u] # None
        /\ info[u].remind /\ info[u].last < day
        /\ Begin(w, u, [info[u] EXCEPT !.last = day], None, <<Call("todo"), Put("info")>>)
        /\ UNCHANGED <<authorised, told, odd>>

-----------------------------------------------------------------------------
(* The steps *)

\* Goroutine w is about to call function f.
Calls(w, f) ==
    /\ work[w].steps # <<>>
    /\ Head(work[w].steps).do = "call" /\ Head(work[w].steps).key = f

\* The goroutine goes on with these steps, or is over.
Continue(w, a, steps) ==
    work' = [work EXCEPT ![w] =
                IF steps = <<>> THEN Idle ELSE [@ EXCEPT !.account = a, !.steps = steps]]

Rest(w) == Tail(work[w].steps)

\* One call of the store.
Perform(w) ==
    /\ work[w].steps # <<>> /\ Head(work[w].steps).do # "call"
    /\ LET s == Head(work[w].steps)  u == work[w].user  a == work[w].account  put == s.do = "put" IN
       \/ /\ info' = IF s.key = "info"
                     THEN [info EXCEPT ![u] = IF put THEN work[w].info ELSE None] ELSE info
          /\ token' = IF s.key # "token" THEN token
                      ELSE IF put THEN token \cup {u} ELSE token \ {u}
          /\ name' = IF s.key = "name" THEN [name EXCEPT ![a] = IF put THEN u ELSE None] ELSE name
          /\ id' = IF s.key # "id" THEN id ELSE IF put THEN id \cup {a} ELSE id \ {a}
          /\ Continue(w, a, Rest(w))
          /\ UNCHANGED faults
       \/ /\ Fault
          /\ Continue(w, a, IF s.must THEN <<>> ELSE Rest(w))
          /\ UNCHANGED kv
    /\ UNCHANGED <<day, history, ops>>

\* disconnectGitlabAccount reads the info; without one it falls back.
ReadForDisconnect(w) ==
    /\ Calls(w, "disconnect")
    /\ LET u == work[w].user IN
       \/ /\ info[u] # None
          /\ Continue(w, info[u].account, DisconnectSteps \o Rest(w))
          /\ UNCHANGED faults
       \/ /\ \/ info[u] = None /\ UNCHANGED faults
             \/ Fault
          /\ Continue(w, None, <<Call("force")>> \o Rest(w))
    /\ UNCHANGED <<kv, day, history, ops>>

\* forceDisconnectUser reads the info; without one it cannot name the mappings.
ReadForForce(w) ==
    /\ Calls(w, "force")
    /\ LET u == work[w].user IN
       \/ /\ info[u] # None
          /\ Continue(w, info[u].account, ForceSteps(TRUE) \o Rest(w))
          /\ UNCHANGED faults
       \/ /\ \/ info[u] = None /\ UNCHANGED faults
             \/ Fault
          /\ Continue(w, None, ForceSteps(FALSE) \o Rest(w))
    /\ UNCHANGED <<kv, day, history, ops>>

\* PostToDo: there is something to say, or there is not (or GitLab does not answer). A
\* token that GitLab has revoked makes useGitlabClient disconnect the user and say so,
\* and then getConnected goes on to store its info.
PostToDo(w) ==
    /\ Calls(w, "todo")
    /\ LET u == work[w].user IN
       \/ /\ u \in token
          /\ reminded' = [reminded EXCEPT ![u][work[w].info.last] = @ + 1]
          /\ Continue(w, None, Rest(w))
          /\ UNCHANGED <<told, odd>>
       \/ /\ Continue(w, None, Rest(w))
          /\ UNCHANGED <<reminded, told, odd>>
       \/ /\ TRUE \in Revocation
          /\ u \in token
          /\ Continue(w, None, <<Call("disconnect")>> \o Rest(w))
          /\ told' = told \cup {u}
          /\ odd' = odd \cup {u}
          /\ UNCHANGED reminded
    /\ UNCHANGED <<kv, day, authorised, overlap, ops, faults>>

Die(w) ==
    /\ work[w] # Idle
    /\ Fault
    /\ work' = [work EXCEPT ![w] = Idle]
    /\ UNCHANGED <<kv, day, history, ops>>

NextDay ==
    /\ day < MaxDay
    /\ day' = day + 1
    /\ UNCHANGED <<kv, work, history, ops, faults>>

-----------------------------------------------------------------------------

Start(w) ==
    \/ Connect(w) \/ Disconnect(w) \/ ForceDisconnect(w) \/ Settings(w) \/ UpdateSettings(w)
    \/ Remind(w)

Run(w) == Perform(w) \/ ReadForDisconnect(w) \/ ReadForForce(w) \/ PostToDo(w) \/ Die(w)

Next == NextDay \/ \E w \in Worker : Start(w) \/ Run(w)

Spec == Init /\ [][Next]_vars

-----------------------------------------------------------------------------
(* Properties *)

\* Nobody else's notifications: whatever goroutines overlap, fail or die, a user's info and
\* the mapping that decides who is sent the notifications of a GitLab account name only
\* a user who came back from GitLab with that account.
OwnAccountOnly ==
    /\ \A u \in User : info[u] # None => u \in authorised[info[u].account]
    /\ \A a \in Account : name[a] # None => name[a] \in authorised[a]

\* When nothing is under way for a user, the four entries of the store agree: there is a
\* token exactly if there is an info, and the user's account, and no other, is mapped to
\* the user exactly if notifications are on. So a disconnection leaves nothing behind and
\* settings can be switched in any order, before and after a connection to the same
\* account. The exceptions are a failing store, goroutines that overlapped, and
\* what odd collects: two users of one account, a second account without a disconnection,
\* notifications switched by the API.
ConnectionConsistent ==
    faults = 0 =>
        \A u \in User \ (overlap \cup odd) : ~ Busy(u) =>
            /\ info[u] # None <=> u \in token
            /\ \A a \in Account : name[a] = u <=> info[u] # None /\ info[u].account = a /\ info[u].notify
            /\ info[u] # None => info[u].account \in id

\* "The first time you log in each day, you will get a post": and no second one, also if
\* the user disconnects and connects again or changes the settings on that day, unless two
\* requests overlap or the store fails.
OneReminderADay ==
    faults = 0 => \A u \in User \ overlap, d \in 0 .. MaxDay : reminded[u][d] <= 1

\* "Your GitLab account was disconnected due to an invalid or revoked authorization token.
\* Reconnect your account": a user who is told so is not shown as connected afterwards,
\* before the next connection.
ToldMeansDisconnected ==
    faults = 0 => \A u \in told \ overlap : ~ Busy(u) => info[u] = None
=============================================================================
