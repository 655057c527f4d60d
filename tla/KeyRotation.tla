------------------------------- MODULE KeyRotation -------------------------------
(***************************************************************************)
(* Rotation of the key that encrypts the users' OAuth tokens.              *)
(*                                                                         *)
(* The administrator changes the key in the system console; every cluster  *)
(* node then runs OnConfigurationChange (server/configuration.go), which   *)
(* keeps the previous key in memory as a fallback for reads and starts a   *)
(* goroutine that re-encrypts all tokens in the shared key-value store     *)
(* (reEncryptUserData, server/plugin.go), under a cluster mutex. Meanwhile *)
(* other goroutines read tokens and store new ones. Every access to the    *)
(* store is one step.                                                      *)
(***************************************************************************)
EXTENDS Naturals, FiniteSets

CONSTANTS
    Node,       \* cluster nodes
    User,       \* connected users
    Writer,     \* goroutines that store a token (a connection or a refresh)
    None,       \* an absent key, an unset fallback key, a free mutex
    MaxKey,     \* bound: rotations of the encryption key
    MaxWrites,  \* bound: tokens stored by writers
    MaxFaults,  \* bound: node restarts and failing store calls
    Saves,      \* whether other settings are saved (subset of BOOLEAN)
    Pads,       \* whether a wrong key may unpad a ciphertext (subset of BOOLEAN)
    PageSize,   \* keysPerPage
    Place,      \* where the key of each user's token stands in the order of the keys
    Others      \* where the keys of anything else may stand in it

\* Encryption keys are numbered in the order in which they are set. None is empty: the
\* settings are generated with a key, and validation refuses an empty one.
Key == 0 .. MaxKey

\* The re-encryption job a node starts when it changes to a key.
Job == Node \X (1 .. MaxKey)

\* encrypt: the key, the number of the token, and whether a key other than the
\* right one happens to find a valid padding (about one ciphertext in 256).
Cipher == [key : Key, ver : 0 .. MaxWrites, pads : Pads]

ASSUME ConstantsAssumption ==
    /\ MaxKey \in Nat /\ MaxWrites \in Nat /\ MaxFaults \in Nat
    /\ None \notin Nat /\ None \notin Job /\ None \notin Cipher
    /\ Saves \subseteq BOOLEAN
    /\ FALSE \in Pads /\ Pads \subseteq BOOLEAN
    /\ IsFiniteSet(User) /\ IsFiniteSet(Others) /\ Others \subseteq Nat
    /\ PageSize \in Nat \ {0}
    /\ Place \in [User -> Nat \ Others]
    /\ \A u, v \in User : Place[u] = Place[v] => u = v

VARIABLES
    setting,    \* the key in the Mattermost server's configuration
    refused,    \* the keys of a length that AES does not take
    cfg,        \* configuration of each node: EncryptionKey, PreviousEncryptionKey
    store,      \* <user>_usertoken of each user
    mutex,      \* the cluster mutex gitlab-reencrypt-lock
    job,        \* the re-encryption jobs
    writer,     \* what each writer is about to store: for whom, with which key
    last,       \* number of tokens stored by writers
    dropped,    \* history: users that were force-disconnected
    faults      \* number of faults so far

vars == <<setting, refused, cfg, store, mutex, job, writer, last, dropped, faults>>

\* A job that has not been started, or is over.
NoJob == [st |-> "none", prev |-> None, page |-> 0, todo |-> {}, user |-> None, seen |-> None]
Idle == [node |-> None, user |-> None, key |-> None]

TypeOK ==
    /\ setting \in Key
    /\ refused \subseteq Key
    /\ cfg \in [Node -> [key : Key, prev : Key \cup {None}]]
    /\ store \in [User -> Cipher \cup {None}]
    /\ mutex \in Job \cup {None}
    /\ job \in [Job -> [st : {"none", "wait", "list", "next", "swap", "drop", "done"},
                        prev : Key \cup {None},
                        page : Nat,
                        todo : SUBSET (User \X Nat),
                        user : User \cup {None},
                        seen : Cipher \cup {None}]]
    /\ writer \in [Writer -> [node : Node \cup {None}, user : User \cup {None}, key : Key \cup {None}]]
    /\ last \in 0 .. MaxWrites
    /\ dropped \subseteq User
    /\ faults \in 0 .. MaxFaults

Init ==
    /\ setting = 0
    /\ refused = {}
    /\ cfg = [n \in Node |-> [key |-> 0, prev |-> None]]
    /\ \E p \in [User -> Pads] :
          store = [u \in User |-> [key |-> 0, ver |-> 0, pads |-> p[u]]]
    /\ mutex = None
    /\ job = [j \in Job |-> NoJob]
    /\ writer = [w \in Writer |-> Idle]
    /\ last = 0
    /\ dropped = {}
    /\ faults = 0

-----------------------------------------------------------------------------
(* Reading a token *)

\* decrypt: with a wrong key the padding is invalid, or it is not and the result
\* is rubbish, which then fails to parse; a key that AES refuses is an error.
Decrypt(k, c) ==
    IF c.key = k THEN "token" ELSE IF c.pads /\ k \notin refused THEN "rubbish" ELSE "error"

\* getGitlabUserTokenByMattermostID on node n finds the user's token. The previous
\* key is tried after an error only, not after a result that does not parse.
Readable(n, u) ==
    /\ store[u] # None
    /\ \/ Decrypt(cfg[n].key, store[u]) = "token"
       \/ /\ Decrypt(cfg[n].key, store[u]) = "error"
          /\ cfg[n].prev # None
          /\ Decrypt(cfg[n].prev, store[u]) = "token"

-----------------------------------------------------------------------------
(* Configuration *)

\* An administrator sets a new key, of any length: validation refuses an empty one only.
Rotate ==
    /\ setting < MaxKey
    /\ setting' = setting + 1
    /\ refused' \in {refused, refused \cup {setting'}}
    /\ UNCHANGED <<cfg, store, mutex, job, writer, last, dropped, faults>>

\* OnConfigurationChange: the configuration is replaced as a whole, and a change
\* of key starts a job. A change of another setting finds the key unchanged.
OnConfigurationChange(n) ==
    /\ \/ /\ cfg[n].key # setting
          /\ cfg' = [cfg EXCEPT ![n] = [key |-> setting, prev |-> cfg[n].key]]
          /\ job' = [job EXCEPT ![<<n, setting>>].st = "wait",
                                ![<<n, setting>>].prev = cfg[n].key]
       \/ /\ cfg[n].key = setting
          /\ TRUE \in Saves
          /\ cfg' = [cfg EXCEPT ![n].prev = None]
          /\ UNCHANGED job
    /\ UNCHANGED <<setting, refused, store, mutex, writer, last, dropped, faults>>

\* The node stops and starts again: its goroutines are gone (the mutex expires),
\* and there is no configuration in memory to take a previous key from.
Restart(n) ==
    /\ faults < MaxFaults
    /\ faults' = faults + 1
    /\ cfg' = [cfg EXCEPT ![n] = [key |-> setting, prev |-> None]]
    /\ job' = [j \in Job |-> IF j[1] = n THEN NoJob ELSE job[j]]
    /\ mutex' = IF mutex # None /\ mutex \in {n} \X (1 .. MaxKey) THEN None ELSE mutex
    /\ writer' = [w \in Writer |-> IF writer[w].node = n THEN Idle ELSE writer[w]]
    /\ UNCHANGED <<setting, refused, store, last, dropped>>

-----------------------------------------------------------------------------
(* reEncryptUserData *)

AtLabel(j, label) == job[j].st = label

LockJob(j) ==
    /\ AtLabel(j, "wait")
    /\ mutex = None
    /\ mutex' = j
    /\ job' = [job EXCEPT ![j].st = "list", ![j].page = 0]
    /\ UNCHANGED <<setting, refused, cfg, store, writer, last, dropped, faults>>

\* The keys that stand before a user's when others have the places o.
Before(u, o) ==
    Cardinality({v \in User : store[v] # None /\ Place[v] < Place[u]})
        + Cardinality({x \in o : x < Place[u]})

\* What is left of a page of the store's keys when the keys of tokens are picked out of it.
OnPage(page, o) ==
    {u \in User : /\ store[u] # None
                  /\ page * PageSize <= Before(u, o)
                  /\ Before(u, o) < (page + 1) * PageSize}

\* Mutation: the count of the pages starts at one.
ListKeysFromOne(j) ==
    /\ AtLabel(j, "list")
    /\ \E o \in SUBSET Others :
          LET found == OnPage(job[j].page + 1, o)
              isLast == Cardinality(found) < PageSize IN
          job' = [job EXCEPT ![j].todo = @ \cup (found \X {job[j].page}),
                             ![j].page = IF isLast THEN 0 ELSE @ + 1,
                             ![j].st = IF isLast THEN "next" ELSE "list"]
    /\ UNCHANGED <<setting, refused, cfg, store, mutex, writer, last, dropped, faults>>

\* One page of keys is fetched, with any of the others there at the time. Fewer tokens than
\* a page has keys end the loop, which is right after the last page but also after one with
\* another key on it; so does an error, and the keys of the pages before it are kept. A key
\* that moves from one page to the next meanwhile is listed twice.
ListKeys(j) ==
    /\ AtLabel(j, "list")
    /\ \/ /\ \E o \in SUBSET Others :
                LET found == OnPage(job[j].page, o)
                    isLast == Cardinality(found) < PageSize IN
                job' = [job EXCEPT ![j].todo = @ \cup (found \X {job[j].page}),
                                   ![j].page = IF isLast THEN 0 ELSE @ + 1,
                                   ![j].st = IF isLast THEN "next" ELSE "list"]
          /\ UNCHANGED faults
       \/ /\ faults < MaxFaults
          /\ faults' = faults + 1
          /\ job' = [job EXCEPT ![j].page = 0, ![j].st = "next"]
    /\ UNCHANGED <<setting, refused, cfg, store, mutex, writer, last, dropped>>

\* What reEncryptUserToken does after it read c: nothing, if the token is gone or
\* is encrypted with the new key already.
Decide(j, c) ==
    IF c = None \/ Decrypt(j[2], c) = "token" THEN "next"
    ELSE IF Decrypt(job[j].prev, c) = "token" THEN "swap" ELSE "drop"

\* The first key of the list that is left, in the order in which they were listed.
FirstOf(todo) ==
    {k \in todo : \A m \in todo :
        k[2] < m[2] \/ (k[2] = m[2] /\ Place[k[1]] <= Place[m[1]])}

\* The first half of reEncryptUserToken: the stored value is read; an error from
\* the store disconnects the user.
ReadOne(j) ==
    /\ AtLabel(j, "next")
    /\ \E k \in FirstOf(job[j].todo) : LET u == k[1] IN
        \/ /\ job' = [job EXCEPT ![j].todo = @ \ {k}, ![j].user = u, ![j].seen = store[u],
                                  ![j].st = Decide(j, store[u])]
           /\ UNCHANGED faults
        \/ /\ faults < MaxFaults
           /\ faults' = faults + 1
           /\ job' = [job EXCEPT ![j].todo = @ \ {k}, ![j].user = u, ![j].st = "drop"]
    /\ UNCHANGED <<setting, refused, cfg, store, mutex, writer, last, dropped>>

\* Mutation: a plain Set instead of KVCompareAndSet.
SetOnly(j) ==
    /\ AtLabel(j, "swap")
    /\ store' = [store EXCEPT ![job[j].user] = [key |-> j[2], ver |-> job[j].seen.ver, pads |-> FALSE]]
    /\ job' = [job EXCEPT ![j].st = "next"]
    /\ UNCHANGED <<setting, refused, cfg, mutex, writer, last, dropped, faults>>

\* The second half: encrypt, and KVCompareAndSet, which does nothing when the value has
\* been modified since it was read. An error of either disconnects the user.
CompareAndSet(j) ==
    /\ AtLabel(j, "swap")
    /\ LET u == job[j].user IN
       \/ /\ j[2] \in refused
          /\ job' = [job EXCEPT ![j].st = "drop"]
          /\ UNCHANGED <<store, faults>>
       \/ /\ j[2] \notin refused
          /\ store[u] = job[j].seen
          /\ \E p \in Pads :
                store' = [store EXCEPT ![u] = [key |-> j[2], ver |-> job[j].seen.ver, pads |-> p]]
          /\ job' = [job EXCEPT ![j].st = "next"]
          /\ UNCHANGED faults
       \/ /\ j[2] \notin refused
          /\ store[u] # job[j].seen
          /\ job' = [job EXCEPT ![j].st = "next"]
          /\ UNCHANGED <<store, faults>>
       \/ /\ j[2] \notin refused
          /\ faults < MaxFaults
          /\ faults' = faults + 1
          /\ job' = [job EXCEPT ![j].st = "drop"]
          /\ UNCHANGED store
    /\ UNCHANGED <<setting, refused, cfg, mutex, writer, last, dropped>>

\* forceDisconnectUser: a failing deletion is logged only.
ForceDisconnect(j) ==
    /\ AtLabel(j, "drop")
    /\ \/ store' = [store EXCEPT ![job[j].user] = None] /\ UNCHANGED faults
       \/ faults < MaxFaults /\ faults' = faults + 1 /\ UNCHANGED store
    /\ dropped' = dropped \cup {job[j].user}
    /\ job' = [job EXCEPT ![j].st = "next"]
    /\ UNCHANGED <<setting, refused, cfg, mutex, writer, last>>

\* Mutation: the fallback key is compared with the new key.
ClearFallbackOfNewKey(j) ==
    /\ AtLabel(j, "next")
    /\ job[j].todo = {}
    /\ cfg' = [cfg EXCEPT ![j[1]].prev = IF @ = j[2] THEN None ELSE @]
    /\ mutex' = None
    /\ job' = [job EXCEPT ![j] = [NoJob EXCEPT !.st = "done"]]
    /\ UNCHANGED <<setting, refused, store, writer, last, dropped, faults>>

\* The fallback key is cleared if it still is this job's, and the mutex released.
ClearFallback(j) ==
    /\ AtLabel(j, "next")
    /\ job[j].todo = {}
    /\ cfg' = [cfg EXCEPT ![j[1]].prev = IF @ = job[j].prev THEN None ELSE @]
    /\ mutex' = None
    /\ job' = [job EXCEPT ![j] = [NoJob EXCEPT !.st = "done"]]
    /\ UNCHANGED <<setting, refused, store, writer, last, dropped, faults>>

-----------------------------------------------------------------------------
(* storeGitlabUserToken *)

\* A goroutine takes the key from the configuration its node has.
ReadKey(w) ==
    /\ writer[w] = Idle
    /\ \E n \in Node, u \in User :
          writer' = [writer EXCEPT ![w] = [node |-> n, user |-> u, key |-> cfg[n].key]]
    /\ UNCHANGED <<setting, refused, cfg, store, mutex, job, last, dropped, faults>>

\* It encrypts the token and stores it; a key that AES refuses is an error.
StoreToken(w) ==
    /\ writer[w] # Idle
    /\ \/ /\ writer[w].key \notin refused
          /\ last < MaxWrites
          /\ last' = last + 1
          /\ \E p \in Pads :
                store' = [store EXCEPT ![writer[w].user] =
                              [key |-> writer[w].key, ver |-> last', pads |-> p]]
       \/ writer[w].key \in refused /\ UNCHANGED <<last, store>>
    /\ writer' = [writer EXCEPT ![w] = Idle]
    /\ UNCHANGED <<setting, refused, cfg, mutex, job, dropped, faults>>

-----------------------------------------------------------------------------

Run(j) ==
    \/ LockJob(j) \/ ListKeys(j) \/ ReadOne(j) \/ CompareAndSet(j) \/ ForceDisconnect(j)
    \/ ClearFallback(j)

Next ==
    \/ Rotate
    \/ \E n \in Node : OnConfigurationChange(n) \/ Restart(n)
    \/ \E j \in Job : Run(j)
    \/ \E w \in Writer : ReadKey(w) \/ StoreToken(w)

Spec == Init /\ [][Next]_vars

\* Every node learns of a new key and its goroutines run; rotations, writers and
\* faults are free.
FairSpec ==
    /\ Spec
    /\ \A n \in Node : WF_vars(cfg[n].key # setting /\ OnConfigurationChange(n))
    /\ \A j \in Job : WF_vars(Run(j))

-----------------------------------------------------------------------------
(* Properties *)

\* Re-encryption and forced disconnection are the only things rotation does to a
\* user's token: a job that read a token before a newer one was stored never puts
\* the old one back, so a refreshed token is not lost to a rotation.
Abstract == INSTANCE UserTokens WITH
    tokens <- [u \in User |-> IF store[u] = None THEN None ELSE store[u].ver]
RotationIsTransparent == Abstract!Spec

\* One rotation, to a key that AES takes, and a store that answers.
Calm == MaxKey = 1 /\ faults = 0 /\ refused = {}

\* One change of the key, seen by the nodes in any order, with writers that still
\* use the old one and a job on each node, disconnects nobody as long as the store
\* answers and the key can be used.
RotationKeepsUsers == Calm => dropped = {}

\* A node that was given a fallback key forgets it in the end: every job gets the
\* cluster mutex, works off its list and clears the key.
FallbackEnds == \A n \in Node : cfg[n].prev # None ~> cfg[n].prev = None

\* The users whose tokens are among the first keysPerPage keys, whatever other keys there are.
FirstPage ==
    {u \in User : Cardinality({v \in User : Place[v] < Place[u]})
                      + Cardinality({x \in Others : x < Place[u]}) < PageSize}

\* Every token of us that was in the store before the one rotation can be read on a node
\* whose job has cleared its fallback key.
OldTokensReadable(us) ==
    \A n \in Node, k \in 1 .. MaxKey :
        cfg[n].key = k /\ job[<<n, k>>].st = "done" =>
            \A u \in us : store[u] # None /\ store[u].ver = 0 => Readable(n, u)

\* The tokens on the first page of keys are re-encrypted before the fallback key goes, as long
\* as the store answers and the key can be used: which of the nodes' jobs has re-encrypted
\* them, and which writers store other tokens meanwhile, makes no difference.
OldTokensMigrated == Calm => OldTokensReadable(FirstPage)

\* The invariant of the rotation (OnConfigurationChange, the job and its writers): types, and
\* what it promises to the users and to their tokens.
RotationInv == TypeOK /\ RotationKeepsUsers /\ OldTokensMigrated

\* "Clear the fallback key now that all tokens have been migrated.": all tokens of before, on
\* whatever page of keys, are re-encrypted before the fallback key goes.
AllOldTokensMigrated == Calm => OldTokensReadable(User)

\* A rotation to whatever key the settings accept disconnects nobody.
AnyKeyKeepsUsers == setting <= 1 /\ faults = 0 => dropped = {}

\* "Clear the fallback key now that all tokens have been migrated.": on a node whose
\* job has cleared the fallback key every stored token can be read, those that writers with
\* the old key have stored since included (tokens of the first page of keys).
ClearedWhenMigrated ==
    \A n \in Node, k \in 1 .. MaxKey :
        cfg[n].key = k /\ job[<<n, k>>].st = "done" =>
            \A u \in FirstPage : store[u] # None => Readable(n, u)

\* "so that token reads can fall back to the old key while background re-encryption
\* runs": as long as a node's job runs, the tokens that were stored when the key
\* was changed can be read there.
ReadableDuringRotation ==
    \A n \in Node, k \in 1 .. MaxKey :
        /\ cfg[n].key = k
        /\ job[<<n, k>>].st \notin {"none", "done"}
        => \A u \in User : store[u] # None /\ store[u].key \in {k, job[<<n, k>>].prev}
                => Readable(n, u)

\* "It is safe to call concurrently; a cluster mutex prevents parallel executions.":
\* two rotations in a row, each with its job, disconnect nobody.
ConcurrentJobsKeepUsers == faults = 0 /\ refused = {} => dropped = {}
=============================================================================
