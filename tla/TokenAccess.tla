------------------------------ MODULE TokenAccess ------------------------------
(***************************************************************************)
(* The GitLab credential of one Mattermost user, kept in the shared        *)
(* key-value store, and the goroutines of every cluster node that use,     *)
(* refresh, migrate, replace or delete it (server/plugin.go, with the      *)
(* OAuth completion handler of server/api.go).                             *)
(*                                                                         *)
(* Each call to the store, to the cluster mutex or to GitLab is one step.  *)
(* A deferred Unlock is joined to the last step before it: releasing a     *)
(* lock only enables others, and nothing happens in between.               *)
(***************************************************************************)
EXTENDS Integers

CONSTANTS
    Worker,     \* goroutines: requests, slash commands, OAuth completions
    Account,    \* GitLab accounts
    None,       \* an absent key, a free mutex, a nil token
    MaxToken,   \* bound: OAuth tokens GitLab issues in a behaviour
    MaxFaults   \* bound: crashes, store errors and lost responses

ASSUME ConstantsAssumption ==
    /\ MaxToken \in Nat \ {0}
    /\ MaxFaults \in Nat
    /\ None \notin Worker \cup Account \cup 1 .. MaxToken

\* Tokens are numbered in the order in which GitLab issues them.
Token == 1 .. MaxToken

VARIABLES
    info,       \* <user>_userinfo: the GitLab account of the stored UserInfo
    token,      \* <user>_usertoken: the stored OAuth token
    legacy,     \* <user>_gitlabtoken: info and token in one value (old layout)
    lock,       \* the cluster mutex <user>-oauth-token
    issued,     \* number of tokens GitLab has issued
    account,    \* the GitLab account each token belongs to
    due,        \* tokens that expire within tokenExpiryBuffer
    dead,       \* tokens that were exchanged for a new one by a refresh
    pc,         \* what each worker does next
    tok,        \* the token each worker holds in a local variable
    phase,      \* history: "on" until a disconnect starts; "gone" when one is over
    faults      \* number of faults so far

kv == <<info, token, legacy>>
gitlab == <<issued, account, due, dead>>
vars == <<info, token, legacy, lock, issued, account, due, dead, pc, tok, phase, faults>>

\* The labels at which a worker runs between Lock and Unlock; the disconnect
\* that follows a refused refresh is reached with the mutex held as well.
Locked == {"migGet", "migInfo", "migTok", "migDel", "recheck", "refresh", "store"}
Connecting == {"conInfo", "conTok"}
Deleting == {"disc", "delInfo", "delTok", "forceTok", "forceInfo"}
Label == Locked \cup Connecting \cup Deleting \cup {"idle", "read", "migLock", "lock", "use"}

TypeOK ==
    /\ info \in Account \cup {None}
    /\ token \in Token \cup {None}
    /\ legacy \in Token \cup {None}
    /\ lock \in Worker \cup {None}
    /\ issued \in Token
    /\ account \in [Token -> Account]
    /\ due \subseteq Token
    /\ dead \subseteq Token
    /\ pc \in [Worker -> Label]
    /\ tok \in [Worker -> Token \cup {None}]
    /\ phase \in {"on", "ending", "gone"}
    /\ faults \in 0 .. MaxFaults

\* The user is connected: with separate keys, or with the old single key.
Init ==
    /\ \E a \in Account :
        /\ account = [t \in Token |-> a]
        /\ \/ info = a    /\ token = 1    /\ legacy = None
           \/ info = None /\ token = None /\ legacy = 1
    /\ lock = None
    /\ issued = 1
    /\ due = {}
    /\ dead = {}
    /\ pc = [w \in Worker |-> "idle"]
    /\ tok = [w \in Worker |-> None]
    /\ phase = "on"
    /\ faults = 0

-----------------------------------------------------------------------------
(* Helpers *)

Goto(w, label) == pc' = [pc EXCEPT ![w] = label]

\* mutex.Lock() returns.
Acquire(w) == lock = None /\ lock' = w

\* The deferred mutex.Unlock(), if the worker locked it.
Release(w) == lock' = IF lock = w THEN None ELSE lock

\* The call returns to its caller.
Leave(w) == Goto(w, "idle") /\ Release(w)

\* getGitlabUserInfoByMattermostID finds a UserInfo, under the new key or the old.
Connected == info # None \/ legacy # None

\* getOrRefreshTokenWithMutex looks at the expiry of the token read without
\* the mutex, and either returns it or goes on to take the mutex.
CheckExpiry(w, t) == Goto(w, IF t \in due THEN "lock" ELSE "use")

\* handleRevokedToken calls disconnectGitlabAccount.
Revoke(w) ==
    /\ Goto(w, "disc")
    /\ phase' = IF phase = "on" THEN "ending" ELSE phase

-----------------------------------------------------------------------------
(* useGitlabClient and getOrRefreshTokenWithMutex *)

\* A handler that needs GitLab found the user's info and calls useGitlabClient.
Begin(w) ==
    /\ pc[w] = "idle"
    /\ Connected
    /\ Goto(w, "read")
    /\ UNCHANGED <<kv, gitlab, lock, tok, phase, faults>>

\* The first read, without the mutex; a missing token leads to the migration.
ReadToken(w) ==
    /\ pc[w] = "read"
    /\ \/ /\ token = None
          /\ Goto(w, "migLock")
          /\ UNCHANGED tok
       \/ /\ token # None
          /\ CheckExpiry(w, token)
          /\ tok' = [tok EXCEPT ![w] = token]
    /\ UNCHANGED <<kv, gitlab, lock, phase, faults>>

\* Lock() of migrateGitlabToken and of getOrRefreshTokenWithMutex.
TakeLock(w) ==
    /\ \/ pc[w] = "migLock" /\ Goto(w, "migGet")
       \/ pc[w] = "lock"    /\ Goto(w, "recheck")
    /\ Acquire(w)
    /\ UNCHANGED <<kv, gitlab, tok, phase, faults>>

\* Mutation: the token read before the mutex was taken is refreshed.
RecheckSkipped(w) ==
    /\ pc[w] = "recheck"
    /\ Goto(w, "refresh")
    /\ UNCHANGED <<kv, gitlab, lock, tok, phase, faults>>

\* The second read, with the mutex held.
Recheck(w) ==
    /\ pc[w] = "recheck"
    /\ \/ /\ token = None
          /\ Leave(w)
          /\ UNCHANGED tok
       \/ /\ token # None
          /\ tok' = [tok EXCEPT ![w] = token]
          /\ \/ token \notin due /\ Goto(w, "use")     /\ Release(w)
             \/ token \in due    /\ Goto(w, "refresh") /\ UNCHANGED lock
    /\ UNCHANGED <<kv, gitlab, phase, faults>>

\* refreshToken, when GitLab exchanges the token for its successor.
Refresh(w) ==
    /\ pc[w] = "refresh"
    /\ tok[w] \notin dead
    /\ issued < MaxToken
    /\ issued' = issued + 1
    /\ account' = [account EXCEPT ![issued + 1] = account[tok[w]]]
    /\ dead' = dead \cup {tok[w]}
    /\ tok' = [tok EXCEPT ![w] = issued + 1]
    /\ Goto(w, "store")
    /\ UNCHANGED <<kv, lock, due, phase, faults>>

\* refreshToken, when GitLab answers invalid_grant: it has exchanged the token
\* before. The account is disconnected, with the mutex still held.
RefreshRefused(w) ==
    /\ pc[w] = "refresh"
    /\ tok[w] \in dead
    /\ Revoke(w)
    /\ UNCHANGED <<kv, gitlab, lock, tok, faults>>

\* refreshToken, when GitLab cannot be reached or answers another error.
RefreshFails(w) ==
    /\ pc[w] = "refresh"
    /\ Leave(w)
    /\ UNCHANGED <<kv, gitlab, tok, phase, faults>>

\* Mutation: the mutex is not released.
StoreRefreshedKeepsLock(w) ==
    /\ pc[w] = "store"
    /\ token' = tok[w]
    /\ Goto(w, "use")
    /\ UNCHANGED <<info, legacy, gitlab, lock, tok, phase, faults>>

\* storeGitlabUserToken of the refreshed token; the mutex is released.
StoreRefreshed(w) ==
    /\ pc[w] = "store"
    /\ token' = tok[w]
    /\ Goto(w, "use")
    /\ Release(w)
    /\ UNCHANGED <<info, legacy, gitlab, tok, phase, faults>>

\* toRun calls the GitLab API. A token that has been exchanged may be refused
\* with 401 invalid_token, and the account is disconnected.
Use(w) ==
    /\ pc[w] = "use"
    /\ \/ Goto(w, "idle") /\ UNCHANGED phase
       \/ tok[w] \in dead /\ Revoke(w)
    /\ UNCHANGED <<kv, gitlab, lock, tok, faults>>

-----------------------------------------------------------------------------
(* migrateGitlabToken, with the mutex held *)

MigrateRead(w) ==
    /\ pc[w] = "migGet"
    /\ \/ /\ legacy # None
          /\ tok' = [tok EXCEPT ![w] = legacy]
          /\ Goto(w, "migInfo")
          /\ UNCHANGED lock
       \/ /\ legacy = None          \* another worker migrated in the meantime
          /\ token # None
          /\ tok' = [tok EXCEPT ![w] = token]
          /\ CheckExpiry(w, token)
          /\ Release(w)
       \/ /\ legacy = None
          /\ token = None
          /\ Leave(w)
          /\ UNCHANGED tok
    /\ UNCHANGED <<kv, gitlab, phase, faults>>

\* Mutation: the old key is deleted together with the first write.
MigrateInfoDropsOld(w) ==
    /\ pc[w] = "migInfo"
    /\ info' = account[tok[w]]
    /\ legacy' = None
    /\ Goto(w, "migTok")
    /\ UNCHANGED <<token, gitlab, lock, tok, phase, faults>>

MigrateInfo(w) ==
    /\ pc[w] = "migInfo"
    /\ info' = account[tok[w]]
    /\ Goto(w, "migTok")
    /\ UNCHANGED <<token, legacy, gitlab, lock, tok, phase, faults>>

\* Mutation: the user info is written under the token's key.
MigrateTokenWritesInfo(w) ==
    /\ pc[w] = "migTok"
    /\ token' = info
    /\ Goto(w, "migDel")
    /\ UNCHANGED <<info, legacy, gitlab, lock, tok, phase, faults>>

MigrateToken(w) ==
    /\ pc[w] = "migTok"
    /\ token' = tok[w]
    /\ Goto(w, "migDel")
    /\ UNCHANGED <<info, legacy, gitlab, lock, tok, phase, faults>>

MigrateDelete(w) ==
    /\ pc[w] = "migDel"
    /\ legacy' = None
    /\ CheckExpiry(w, tok[w])
    /\ Release(w)
    /\ UNCHANGED <<info, token, gitlab, tok, phase, faults>>

-----------------------------------------------------------------------------
(* completeConnectUserToGitlab, which takes no mutex *)

\* The user comes back from GitLab's authorisation page: the code is exchanged
\* for a token, and the account it belongs to is fetched.
Authorise(w) ==
    /\ pc[w] = "idle"
    /\ issued < MaxToken
    /\ issued' = issued + 1
    /\ \E a \in Account : account' = [account EXCEPT ![issued + 1] = a]
    /\ tok' = [tok EXCEPT ![w] = issued + 1]
    /\ Goto(w, "conInfo")
    /\ phase' = IF phase = "gone" THEN "ending" ELSE phase
    /\ UNCHANGED <<kv, lock, due, dead, faults>>

ConnectInfo(w) ==
    /\ pc[w] = "conInfo"
    /\ info' = account[tok[w]]
    /\ Goto(w, "conTok")
    /\ UNCHANGED <<token, legacy, gitlab, lock, tok, phase, faults>>

ConnectToken(w) ==
    /\ pc[w] = "conTok"
    /\ token' = tok[w]
    /\ Leave(w)
    /\ UNCHANGED <<info, legacy, gitlab, tok, phase, faults>>

-----------------------------------------------------------------------------
(* disconnectGitlabAccount and forceDisconnectUser, which take no mutex.   *)
(* tok is None exactly when the user, or a deactivation, asked for it.     *)

\* "/gitlab disconnect" and UserHasBeenDeactivated, for a connected user.
Disconnect(w) ==
    /\ pc[w] = "idle"
    /\ Connected
    /\ tok' = [tok EXCEPT ![w] = None]
    /\ Revoke(w)
    /\ UNCHANGED <<kv, gitlab, lock, faults>>

\* disconnectGitlabAccount reads the info to find out which keys to delete.
DisconnectRead(w) ==
    /\ pc[w] = "disc"
    /\ Goto(w, IF Connected THEN "delInfo" ELSE "forceTok")
    /\ UNCHANGED <<kv, gitlab, lock, tok, phase, faults>>

\* The last deletion: the user's disconnect is over, and nobody reconnects.
Disconnected(w) ==
    /\ Leave(w)
    /\ phase' = IF tok[w] = None /\ \A v \in Worker : pc[v] \notin Connecting
                THEN "gone" ELSE phase

DeleteInfo(w) ==
    /\ \/ pc[w] = "delInfo"   /\ Goto(w, "delTok") /\ UNCHANGED <<lock, phase>>
       \/ pc[w] = "forceInfo" /\ Disconnected(w)
    /\ info' = None
    /\ UNCHANGED <<token, legacy, gitlab, tok, faults>>

DeleteToken(w) ==
    /\ \/ pc[w] = "forceTok" /\ Goto(w, "forceInfo") /\ UNCHANGED <<lock, phase>>
       \/ pc[w] = "delTok"   /\ Disconnected(w)
    /\ token' = None
    /\ UNCHANGED <<info, legacy, gitlab, tok, faults>>

-----------------------------------------------------------------------------
(* Time and faults *)

\* Less than tokenExpiryBuffer is left of a token's life.
Age ==
    /\ \E t \in 1 .. issued \ due : due' = due \cup {t}
    /\ UNCHANGED <<kv, lock, issued, account, dead, pc, tok, phase, faults>>

Fault == faults < MaxFaults /\ faults' = faults + 1

\* The store returns an error to a write, which ends the call with an error, or
\* the node stops (its mutex expires); either way the worker is gone.
Abort(w) ==
    /\ pc[w] # "idle"
    /\ Fault
    /\ Leave(w)
    /\ UNCHANGED <<kv, gitlab, tok, phase>>

\* An error from the first read counts as a missing token.
ReadFails(w) ==
    /\ pc[w] = "read"
    /\ Fault
    /\ Goto(w, "migLock")
    /\ UNCHANGED <<kv, gitlab, lock, tok, phase>>

\* GitLab exchanged the token and its answer was lost.
RefreshLost(w) ==
    /\ pc[w] = "refresh"
    /\ Fault
    /\ dead' = dead \cup {tok[w]}
    /\ Leave(w)
    /\ UNCHANGED <<kv, issued, account, due, tok, phase>>

\* An error from a deletion is logged and the next key is deleted.
DeleteFails(w) ==
    /\ Fault
    /\ \/ pc[w] = "delInfo"  /\ Goto(w, "delTok")
       \/ pc[w] = "forceTok" /\ Goto(w, "forceInfo")
    /\ UNCHANGED <<kv, gitlab, lock, tok, phase>>

-----------------------------------------------------------------------------

Step(w) ==
    \/ ReadToken(w) \/ TakeLock(w) \/ Recheck(w) \/ StoreRefreshed(w) \/ Use(w)
    \/ Refresh(w) \/ RefreshRefused(w) \/ RefreshFails(w)
    \/ MigrateRead(w) \/ MigrateInfo(w) \/ MigrateToken(w) \/ MigrateDelete(w)
    \/ ConnectInfo(w) \/ ConnectToken(w)
    \/ DisconnectRead(w) \/ DeleteInfo(w) \/ DeleteToken(w)

Request(w) == Begin(w) \/ Authorise(w) \/ Disconnect(w)
Failure(w) == Abort(w) \/ ReadFails(w) \/ RefreshLost(w) \/ DeleteFails(w)

Next == Age \/ \E w \in Worker : Step(w) \/ Request(w) \/ Failure(w)

Spec == Init /\ [][Next]_vars

\* A goroutine that can run does run, but GitLab need never answer: the exchange of a
\* token (context.Background(), the default HTTP client) has no timeout. Requests, time
\* and faults are free.
AwaitsGitLab(w) == pc[w] \in {"refresh", "use"}
FairSpec == Spec /\ \A w \in Worker : WF_vars(~AwaitsGitLab(w) /\ Step(w))

-----------------------------------------------------------------------------
(* Properties *)

\* As long as nothing fails, no goroutine presents to GitLab a token that has
\* been exchanged already: two requests that find the token near its expiry,
\* a migration and a reconnection never refresh one token twice, so a refresh
\* never disconnects a user whose grant is good.
NoReplay ==
    faults = 0 => \A w \in Worker : pc[w] = "refresh" => tok[w] \notin dead

\* Until the first disconnect or revocation begins, a crash or a failed write
\* anywhere, in the middle of a migration or of a refresh, leaves a user info
\* and a token in the store: under the new keys or under the old one.
CredentialKept ==
    phase = "on" => /\ info # None \/ legacy # None
                    /\ token # None \/ legacy # None

\* Whoever holds the user's mutex gives it back, unless GitLab's answer to the exchange
\* that refreshToken waits for never comes: no path returns without Unlock, none waits for
\* the mutex while holding it, and nothing else under the mutex waits for GitLab.
LockReleased == \A w \in Worker : <>[](pc[w] = "refresh") \/ (lock = w ~> lock # w)

\* Whoever holds the user's mutex gives it back (under FairSpec): an exchange that hangs
\* keeps the mutex, and with it every other request of the user that needs it.
LockAlwaysReleased == \A w \in Worker : lock = w ~> lock # w

\* What the message of handleRevokedToken says: the account it disconnects had
\* "an invalid or revoked authorization token".
RevokedIsDead ==
    [][\A w \in Worker :
          (pc[w] = "delTok" /\ tok[w] # None /\ token # None /\ pc'[w] # "delTok")
              => token \in dead]_vars

\* "Disconnected your GitLab account.": once the command has answered, and
\* until the user connects again, the plugin does not see a connected user.
DisconnectIsFinal == phase = "gone" => ~Connected

\* Once a disconnect is over and until the user connects again, no token of
\* the user is in the store.
NoOrphanToken == phase = "gone" => token = None

-----------------------------------------------------------------------------
(* The inductive invariant behind NoReplay and CredentialKept *)

\* Mutual exclusion.
LockInv == \A w \in Worker : pc[w] \in Locked => lock = w

\* What a worker's local token is at each label. One just received from GitLab
\* is known to nobody else; a migration works on the old key's token.
Fresh(w) ==
    /\ tok[w] # None
    /\ tok[w] \notin dead
    /\ tok[w] \notin {token, legacy}
    /\ \A v \in Worker \ {w} : tok[v] # tok[w]

LocalInv ==
    /\ \A t \in {token, legacy} \cup dead : t # None => t <= issued
    /\ \A w \in Worker :
        /\ tok[w] # None => tok[w] <= issued
        /\ pc[w] \in Connecting \cup {"store"} => Fresh(w)
        /\ pc[w] \in {"migInfo", "migTok", "migDel"} => legacy # None /\ tok[w] = legacy
        /\ pc[w] \in {"refresh", "use"} => tok[w] # None

\* While nothing fails: the old key holds a good token that is not under the new
\* key as well, but at the end of a migration; the token in the store is good,
\* but while its successor is being stored; and so is the one being refreshed.
LiveInv ==
    faults = 0 =>
        /\ legacy # None => legacy \notin dead
        /\ legacy # None /\ token = legacy => \E w \in Worker : pc[w] = "migDel"
        /\ token \in dead => \E w \in Worker : pc[w] = "store"
        /\ \A w \in Worker : pc[w] = "refresh" => tok[w] \notin dead /\ tok[w] # legacy

\* Before the first disconnect nobody deletes, and a migration that is about to
\* delete the old key has written both new ones.
KeptInv ==
    phase = "on" =>
        /\ CredentialKept
        /\ \A w \in Worker :
            /\ pc[w] \notin Deleting
            /\ pc[w] \in {"migTok", "migDel"} => info # None
            /\ pc[w] = "migDel" => token # None

IInv == TypeOK /\ LockInv /\ LocalInv /\ LiveInv /\ KeptInv

=============================================================================
