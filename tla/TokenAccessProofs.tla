--------------------------- MODULE TokenAccessProofs ---------------------------
(* Proofs about TokenAccess, for any workers, accounts and bounds. *)
EXTENDS TokenAccess, TLAPS

\* The constants' assumption, in the form the proofs use.
LEMMA NoneIsNew ==
    /\ None \notin Token /\ None \notin Worker /\ None \notin Account
    /\ Token \subseteq Nat \ {0}
    /\ 1 \in Token
BY ConstantsAssumption DEF Token

\* A worker's step keeps every variable in its type. Refresh needs LocalInv: the
\* token it exchanges is one.
LEMMA StepType ==
    ASSUME TypeOK, LocalInv, NEW w \in Worker, Step(w)
    PROVE  TypeOK'
<1> USE NoneIsNew DEF kv, gitlab, Goto, Release, Leave, Label, Locked, Connecting, Deleting
<1>1. CASE ReadToken(w)
    BY <1>1 DEF TypeOK, ReadToken, CheckExpiry
<1>2. CASE TakeLock(w)
    BY <1>2 DEF TypeOK, TakeLock, Acquire
<1>3. CASE Recheck(w)
    BY <1>3 DEF TypeOK, Recheck
<1>4. CASE Refresh(w)
    <2>1. tok[w] \in Token
        BY <1>4 DEF TypeOK, LocalInv, Refresh
    <2>2. issued < MaxToken => issued + 1 \in Token
        BY ConstantsAssumption DEF TypeOK, Token
    <2>3. QED
        BY <1>4, <2>1, <2>2 DEF TypeOK, Refresh
<1>5. CASE StoreRefreshed(w)
    BY <1>5 DEF TypeOK, StoreRefreshed
<1>6. CASE Use(w)
    BY <1>6 DEF TypeOK, Use, Revoke
<1>7. CASE MigrateRead(w)
    BY <1>7 DEF TypeOK, MigrateRead, CheckExpiry
<1>8. CASE MigrateInfo(w)
    <2>1. tok[w] \in Token
        BY <1>8 DEF TypeOK, LocalInv, MigrateInfo
    <2>2. QED
        BY <1>8, <2>1 DEF TypeOK, MigrateInfo
<1>9. CASE MigrateToken(w)
    BY <1>9 DEF TypeOK, MigrateToken
<1>10. CASE MigrateDelete(w)
    BY <1>10 DEF TypeOK, MigrateDelete, CheckExpiry
<1>11. CASE ConnectInfo(w)
    <2>1. tok[w] \in Token
        BY <1>11 DEF TypeOK, LocalInv, ConnectInfo, Fresh
    <2>2. QED
        BY <1>11, <2>1 DEF TypeOK, ConnectInfo
<1>12. CASE ConnectToken(w)
    BY <1>12 DEF TypeOK, ConnectToken
<1>13. CASE DisconnectRead(w)
    BY <1>13 DEF TypeOK, DisconnectRead
<1>14. CASE DeleteInfo(w)
    BY <1>14 DEF TypeOK, DeleteInfo, Disconnected
<1>15. CASE DeleteToken(w)
    BY <1>15 DEF TypeOK, DeleteToken, Disconnected
<1>16. CASE RefreshRefused(w)
    BY <1>16 DEF TypeOK, RefreshRefused, Revoke
<1>17. CASE RefreshFails(w)
    BY <1>17 DEF TypeOK, RefreshFails
<1> QED
    BY <1>1, <1>2, <1>3, <1>4, <1>5, <1>6, <1>7, <1>8, <1>9, <1>10, <1>11, <1>12,
       <1>13, <1>14, <1>15, <1>16, <1>17 DEF Step

\* Requests, faults and the passing of time keep every variable in its type.
LEMMA OtherType ==
    ASSUME TypeOK, LocalInv,
           Age \/ UNCHANGED vars \/ \E w \in Worker : Request(w) \/ Failure(w)
    PROVE  TypeOK'
<1> USE NoneIsNew DEF kv, gitlab, Goto, Release, Leave, Label, Locked, Connecting, Deleting
<1>1. CASE Age
    <2>1. PICK t \in 1 .. issued : due' = due \cup {t}
        BY <1>1 DEF Age
    <2>2. t \in Token
        BY ConstantsAssumption DEF TypeOK, Token
    <2>3. QED
        BY <1>1, <2>1, <2>2 DEF TypeOK, Age
<1>2. CASE UNCHANGED vars
    BY <1>2 DEF TypeOK, vars
<1>3. ASSUME NEW w \in Worker, Request(w)
      PROVE  TypeOK'
    <2>1. CASE Begin(w)
        BY <2>1 DEF TypeOK, Begin
    <2>2. CASE Authorise(w)
        <3>1. issued + 1 \in Token
            BY <2>2, ConstantsAssumption DEF TypeOK, Authorise, Token
        <3>2. QED
            BY <2>2, <3>1 DEF TypeOK, Authorise
    <2>3. CASE Disconnect(w)
        BY <2>3 DEF TypeOK, Disconnect, Revoke
    <2> QED
        BY <1>3, <2>1, <2>2, <2>3 DEF Request
<1>4. ASSUME NEW w \in Worker, Failure(w)
      PROVE  TypeOK'
    <2>0. faults < MaxFaults /\ faults' = faults + 1 => faults' \in 0 .. MaxFaults
        BY ConstantsAssumption DEF TypeOK
    <2>1. CASE Abort(w)
        BY <2>0, <2>1 DEF TypeOK, Abort, Fault
    <2>2. CASE ReadFails(w)
        BY <2>0, <2>2 DEF TypeOK, ReadFails, Fault
    <2>3. CASE RefreshLost(w)
        <3>1. tok[w] \in Token
            BY <2>3 DEF TypeOK, LocalInv, RefreshLost
        <3>2. QED
            BY <2>0, <2>3, <3>1 DEF TypeOK, RefreshLost, Fault
    <2>4. CASE DeleteFails(w)
        BY <2>0, <2>4 DEF TypeOK, DeleteFails, Fault
    <2> QED
        BY <1>4, <2>1, <2>2, <2>3, <2>4 DEF Failure
<1> QED
    BY <1>1, <1>2, <1>3, <1>4

-----------------------------------------------------------------------------

\* Mutual exclusion is kept: a worker enters a locked section by taking the mutex,
\* and the mutex is released only by the worker that leaves one.
LEMMA LockStep ==
    ASSUME TypeOK, LockInv, NEW w \in Worker, Step(w) \/ Request(w) \/ Failure(w)
    PROVE  LockInv'
<1> USE NoneIsNew DEF kv, gitlab, Goto, Release, Leave, Locked, Connecting
<1>1. CASE ReadToken(w)
    BY <1>1 DEF TypeOK, LockInv, ReadToken, CheckExpiry
<1>2. CASE TakeLock(w)
    BY <1>2 DEF TypeOK, LockInv, TakeLock, Acquire
<1>3. CASE Recheck(w)
    BY <1>3 DEF TypeOK, LockInv, Recheck
<1>4. CASE Refresh(w)
    BY <1>4 DEF TypeOK, LockInv, Refresh
<1>5. CASE RefreshRefused(w)
    BY <1>5 DEF TypeOK, LockInv, RefreshRefused, Revoke
<1>6. CASE RefreshFails(w)
    BY <1>6 DEF TypeOK, LockInv, RefreshFails
<1>7. CASE StoreRefreshed(w)
    BY <1>7 DEF TypeOK, LockInv, StoreRefreshed
<1>8. CASE Use(w)
    BY <1>8 DEF TypeOK, LockInv, Use, Revoke
<1>9. CASE MigrateRead(w)
    BY <1>9 DEF TypeOK, LockInv, MigrateRead, CheckExpiry
<1>10. CASE MigrateInfo(w)
    BY <1>10 DEF TypeOK, LockInv, MigrateInfo
<1>11. CASE MigrateToken(w)
    BY <1>11 DEF TypeOK, LockInv, MigrateToken
<1>12. CASE MigrateDelete(w)
    BY <1>12 DEF TypeOK, LockInv, MigrateDelete, CheckExpiry
<1>13. CASE ConnectInfo(w)
    BY <1>13 DEF TypeOK, LockInv, ConnectInfo
<1>14. CASE ConnectToken(w)
    BY <1>14 DEF TypeOK, LockInv, ConnectToken
<1>15. CASE DisconnectRead(w)
    BY <1>15 DEF TypeOK, LockInv, DisconnectRead
<1>16. CASE DeleteInfo(w)
    BY <1>16 DEF TypeOK, LockInv, DeleteInfo, Disconnected
<1>17. CASE DeleteToken(w)
    BY <1>17 DEF TypeOK, LockInv, DeleteToken, Disconnected
<1>18. CASE Begin(w)
    BY <1>18 DEF TypeOK, LockInv, Begin
<1>19. CASE Authorise(w)
    BY <1>19 DEF TypeOK, LockInv, Authorise
<1>20. CASE Disconnect(w)
    BY <1>20 DEF TypeOK, LockInv, Disconnect, Revoke
<1>21. CASE Abort(w)
    BY <1>21 DEF TypeOK, LockInv, Abort, Fault
<1>22. CASE ReadFails(w)
    BY <1>22 DEF TypeOK, LockInv, ReadFails, Fault
<1>23. CASE RefreshLost(w)
    BY <1>23 DEF TypeOK, LockInv, RefreshLost, Fault
<1>24. CASE DeleteFails(w)
    BY <1>24 DEF TypeOK, LockInv, DeleteFails, Fault
<1> QED
    BY <1>1, <1>2, <1>3, <1>4, <1>5, <1>6, <1>7, <1>8, <1>9, <1>10, <1>11, <1>12,
       <1>13, <1>14, <1>15, <1>16, <1>17, <1>18, <1>19, <1>20, <1>21, <1>22, <1>23, <1>24
    DEF Step, Request, Failure

\* The number of the next token GitLab issues is not in use anywhere.
LEMMA NewToken ==
    ASSUME TypeOK, LocalInv, issued < MaxToken
    PROVE  /\ issued + 1 \in Token
           /\ issued + 1 # None
           /\ \A t \in Token \cup {None} : t # None /\ t <= issued => t <= issued + 1
           /\ \A t \in {token, legacy} \cup dead : t # issued + 1
           /\ \A v \in Worker : tok[v] # issued + 1
<1>1. issued + 1 \in Token
    BY ConstantsAssumption DEF TypeOK, Token
<1>2. issued + 1 # None
    BY <1>1, NoneIsNew
<1>3. \A t \in Token : t <= issued => t # issued + 1 /\ t <= issued + 1
    BY DEF TypeOK, Token
<1>4. \A t \in {token, legacy} \cup dead : t # issued + 1
    BY <1>2, <1>3 DEF TypeOK, LocalInv
<1>5. \A v \in Worker : tok[v] # issued + 1
    BY <1>2, <1>3 DEF TypeOK, LocalInv
<1> QED
    BY <1>1, <1>2, <1>3, <1>4, <1>5

\* The worker's local token keeps its meaning: what was just received is new, and
\* only the holder of the mutex changes the old key.
LEMMA LocalStep ==
    ASSUME TypeOK, LockInv, LocalInv, NEW w \in Worker, Step(w) \/ Request(w) \/ Failure(w)
    PROVE  LocalInv'
<1> USE NoneIsNew DEF kv, gitlab, Goto, Release, Leave, Locked, Connecting
<1>1. CASE ReadToken(w)
    BY <1>1 DEF TypeOK, LockInv, LocalInv, Fresh, ReadToken, CheckExpiry
<1>2. CASE TakeLock(w)
    BY <1>2 DEF TypeOK, LockInv, LocalInv, Fresh, TakeLock, Acquire
<1>3. CASE Recheck(w)
    BY <1>3 DEF TypeOK, LockInv, LocalInv, Fresh, Recheck
<1>4. CASE Refresh(w)
    <2>1. /\ issued + 1 \in Token /\ issued + 1 # None
          /\ \A t \in Token : t <= issued => t <= issued + 1
          /\ \A t \in {token, legacy} \cup dead : t # issued + 1
          /\ \A v \in Worker : tok[v] # issued + 1
        BY <1>4, NewToken, NoneIsNew DEF Refresh
    <2>2. /\ tok' = [tok EXCEPT ![w] = issued + 1]
          /\ issued' = issued + 1
          /\ issued + 1 <= issued + 1
        BY <1>4, <2>1 DEF Refresh, Token
    <2>3. \A v \in Worker : v # w => tok'[v] = tok[v]
        BY <2>2 DEF TypeOK
    <2>4. \A t \in {token, legacy} \cup dead' : t # None => t <= issued'
        BY <1>4, <2>1, <2>2 DEF TypeOK, LocalInv, Refresh
    <2>5. \A v \in Worker : tok'[v] # None => tok'[v] <= issued'
        BY <2>1, <2>2, <2>3 DEF TypeOK, LocalInv
    <2>6. Fresh(w)'
        BY <1>4, <2>1, <2>2, <2>3 DEF TypeOK, Fresh, LocalInv, Refresh
    <2>7. ASSUME NEW v \in Worker, v # w, pc'[v] \in {"conInfo", "conTok", "store"}
          PROVE  Fresh(v)'
        BY <1>4, <2>1, <2>2, <2>3, <2>7 DEF TypeOK, Fresh, LocalInv, LockInv, Refresh
    <2>8. QED
        BY <1>4, <2>1, <2>2, <2>3, <2>4, <2>5, <2>6, <2>7 DEF TypeOK, LockInv, LocalInv, Refresh
<1>5. CASE RefreshRefused(w)
    BY <1>5 DEF TypeOK, LockInv, LocalInv, Fresh, RefreshRefused, Revoke
<1>6. CASE RefreshFails(w)
    BY <1>6 DEF TypeOK, LockInv, LocalInv, Fresh, RefreshFails
<1>7. CASE StoreRefreshed(w)
    BY <1>7 DEF TypeOK, LockInv, LocalInv, Fresh, StoreRefreshed
<1>8. CASE Use(w)
    BY <1>8 DEF TypeOK, LockInv, LocalInv, Fresh, Use, Revoke
<1>9. CASE MigrateRead(w)
    BY <1>9 DEF TypeOK, LockInv, LocalInv, Fresh, MigrateRead, CheckExpiry
<1>10. CASE MigrateInfo(w)
    BY <1>10 DEF TypeOK, LockInv, LocalInv, Fresh, MigrateInfo
<1>11. CASE MigrateToken(w)
    BY <1>11 DEF TypeOK, LockInv, LocalInv, Fresh, MigrateToken
<1>12. CASE MigrateDelete(w)
    BY <1>12 DEF TypeOK, LockInv, LocalInv, Fresh, MigrateDelete, CheckExpiry
<1>13. CASE ConnectInfo(w)
    BY <1>13 DEF TypeOK, LockInv, LocalInv, Fresh, ConnectInfo
<1>14. CASE ConnectToken(w)
    BY <1>14 DEF TypeOK, LockInv, LocalInv, Fresh, ConnectToken
<1>15. CASE DisconnectRead(w)
    BY <1>15 DEF TypeOK, LockInv, LocalInv, Fresh, DisconnectRead
<1>16. CASE DeleteInfo(w)
    BY <1>16 DEF TypeOK, LockInv, LocalInv, Fresh, DeleteInfo, Disconnected
<1>17. CASE DeleteToken(w)
    BY <1>17 DEF TypeOK, LockInv, LocalInv, Fresh, DeleteToken, Disconnected
<1>18. CASE Begin(w)
    BY <1>18 DEF TypeOK, LockInv, LocalInv, Fresh, Begin
<1>19. CASE Authorise(w)
    <2>1. /\ issued + 1 \in Token /\ issued + 1 # None
          /\ \A t \in Token : t <= issued => t <= issued + 1
          /\ \A t \in {token, legacy} \cup dead : t # issued + 1
          /\ \A v \in Worker : tok[v] # issued + 1
        BY <1>19, NewToken, NoneIsNew DEF Authorise
    <2>2. /\ tok' = [tok EXCEPT ![w] = issued + 1]
          /\ issued' = issued + 1
          /\ issued + 1 <= issued + 1
        BY <1>19, <2>1 DEF Authorise, Token
    <2>3. \A v \in Worker : v # w => tok'[v] = tok[v]
        BY <2>2 DEF TypeOK
    <2>4. \A t \in {token, legacy} \cup dead' : t # None => t <= issued'
        BY <1>19, <2>1, <2>2 DEF TypeOK, LocalInv, Authorise
    <2>5. \A v \in Worker : tok'[v] # None => tok'[v] <= issued'
        BY <2>1, <2>2, <2>3 DEF TypeOK, LocalInv
    <2>6. Fresh(w)'
        BY <1>19, <2>1, <2>2, <2>3 DEF TypeOK, Fresh, LocalInv, Authorise
    <2>7. ASSUME NEW v \in Worker, v # w, pc'[v] \in {"conInfo", "conTok", "store"}
          PROVE  Fresh(v)'
        BY <1>19, <2>1, <2>2, <2>3, <2>7 DEF TypeOK, Fresh, LocalInv, LockInv, Authorise
    <2>8. QED
        BY <1>19, <2>1, <2>2, <2>3, <2>4, <2>5, <2>6, <2>7 DEF TypeOK, LockInv, LocalInv, Authorise
<1>20. CASE Disconnect(w)
    BY <1>20 DEF TypeOK, LockInv, LocalInv, Fresh, Disconnect, Revoke
<1>21. CASE Abort(w)
    BY <1>21 DEF TypeOK, LockInv, LocalInv, Fresh, Abort, Fault
<1>22. CASE ReadFails(w)
    BY <1>22 DEF TypeOK, LockInv, LocalInv, Fresh, ReadFails, Fault
<1>23. CASE RefreshLost(w)
    BY <1>23 DEF TypeOK, LockInv, LocalInv, Fresh, RefreshLost, Fault
<1>24. CASE DeleteFails(w)
    BY <1>24 DEF TypeOK, LockInv, LocalInv, Fresh, DeleteFails, Fault
<1> QED
    BY <1>1, <1>2, <1>3, <1>4, <1>5, <1>6, <1>7, <1>8, <1>9, <1>10, <1>11, <1>12,
       <1>13, <1>14, <1>15, <1>16, <1>17, <1>18, <1>19, <1>20, <1>21, <1>22, <1>23, <1>24
    DEF Step, Request, Failure

\* Without faults the tokens of the store and the one being refreshed stay good:
\* the refreshed token is the store's, and its successor is stored before the
\* mutex is released.
LEMMA LiveStep ==
    ASSUME TypeOK, LockInv, LocalInv, LiveInv,
           NEW w \in Worker, Step(w) \/ Request(w) \/ Failure(w)
    PROVE  LiveInv'
<1> USE NoneIsNew DEF kv, gitlab, Goto, Release, Leave, Locked, Connecting
<1>1. CASE ReadToken(w)
    BY <1>1 DEF TypeOK, LockInv, LocalInv, LiveInv, Fresh, ReadToken, CheckExpiry
<1>2. CASE TakeLock(w)
    BY <1>2 DEF TypeOK, LockInv, LocalInv, LiveInv, Fresh, TakeLock, Acquire
<1>3. CASE Recheck(w)
    BY <1>3 DEF TypeOK, LockInv, LocalInv, LiveInv, Fresh, Recheck
<1>4. CASE Refresh(w)
    BY <1>4 DEF TypeOK, LockInv, LocalInv, LiveInv, Fresh, Refresh
<1>5. CASE RefreshRefused(w)
    BY <1>5 DEF TypeOK, LockInv, LocalInv, LiveInv, Fresh, RefreshRefused, Revoke
<1>6. CASE RefreshFails(w)
    BY <1>6 DEF TypeOK, LockInv, LocalInv, LiveInv, Fresh, RefreshFails
<1>7. CASE StoreRefreshed(w)
    BY <1>7 DEF TypeOK, LockInv, LocalInv, LiveInv, Fresh, StoreRefreshed
<1>8. CASE Use(w)
    BY <1>8 DEF TypeOK, LockInv, LocalInv, LiveInv, Fresh, Use, Revoke
<1>9. CASE MigrateRead(w)
    BY <1>9 DEF TypeOK, LockInv, LocalInv, LiveInv, Fresh, MigrateRead, CheckExpiry
<1>10. CASE MigrateInfo(w)
    BY <1>10 DEF TypeOK, LockInv, LocalInv, LiveInv, Fresh, MigrateInfo
<1>11. CASE MigrateToken(w)
    BY <1>11 DEF TypeOK, LockInv, LocalInv, LiveInv, Fresh, MigrateToken
<1>12. CASE MigrateDelete(w)
    BY <1>12 DEF TypeOK, LockInv, LocalInv, LiveInv, Fresh, MigrateDelete, CheckExpiry
<1>13. CASE ConnectInfo(w)
    BY <1>13 DEF TypeOK, LockInv, LocalInv, LiveInv, Fresh, ConnectInfo
<1>14. CASE ConnectToken(w)
    BY <1>14 DEF TypeOK, LockInv, LocalInv, LiveInv, Fresh, ConnectToken
<1>15. CASE DisconnectRead(w)
    BY <1>15 DEF TypeOK, LockInv, LocalInv, LiveInv, Fresh, DisconnectRead
<1>16. CASE DeleteInfo(w)
    BY <1>16 DEF TypeOK, LockInv, LocalInv, LiveInv, Fresh, DeleteInfo, Disconnected
<1>17. CASE DeleteToken(w)
    BY <1>17 DEF TypeOK, LockInv, LocalInv, LiveInv, Fresh, DeleteToken, Disconnected
<1>18. CASE Begin(w)
    BY <1>18 DEF TypeOK, LockInv, LocalInv, LiveInv, Fresh, Begin
<1>19. CASE Authorise(w)
    BY <1>19 DEF TypeOK, LockInv, LocalInv, LiveInv, Fresh, Authorise
<1>20. CASE Disconnect(w)
    BY <1>20 DEF TypeOK, LockInv, LocalInv, LiveInv, Fresh, Disconnect, Revoke
<1>21. CASE Abort(w)
    BY <1>21 DEF TypeOK, LockInv, LocalInv, LiveInv, Fresh, Abort, Fault
<1>22. CASE ReadFails(w)
    BY <1>22 DEF TypeOK, LockInv, LocalInv, LiveInv, Fresh, ReadFails, Fault
<1>23. CASE RefreshLost(w)
    BY <1>23 DEF TypeOK, LockInv, LocalInv, LiveInv, Fresh, RefreshLost, Fault
<1>24. CASE DeleteFails(w)
    BY <1>24 DEF TypeOK, LockInv, LocalInv, LiveInv, Fresh, DeleteFails, Fault
<1> QED
    BY <1>1, <1>2, <1>3, <1>4, <1>5, <1>6, <1>7, <1>8, <1>9, <1>10, <1>11, <1>12,
       <1>13, <1>14, <1>15, <1>16, <1>17, <1>18, <1>19, <1>20, <1>21, <1>22, <1>23, <1>24
    DEF Step, Request, Failure

\* Before the first disconnect, what a migration deletes it has written already.
LEMMA KeptStep ==
    ASSUME TypeOK, LockInv, LocalInv, KeptInv,
           NEW w \in Worker, Step(w) \/ Request(w) \/ Failure(w)
    PROVE  KeptInv'
<1> USE NoneIsNew DEF kv, gitlab, Goto, Release, Leave, Locked, Connecting, Deleting, CredentialKept
<1>1. CASE ReadToken(w)
    BY <1>1 DEF TypeOK, LockInv, LocalInv, KeptInv, Fresh, ReadToken, CheckExpiry
<1>2. CASE TakeLock(w)
    BY <1>2 DEF TypeOK, LockInv, LocalInv, KeptInv, Fresh, TakeLock, Acquire
<1>3. CASE Recheck(w)
    BY <1>3 DEF TypeOK, LockInv, LocalInv, KeptInv, Fresh, Recheck
<1>4. CASE Refresh(w)
    BY <1>4 DEF TypeOK, LockInv, LocalInv, KeptInv, Fresh, Refresh
<1>5. CASE RefreshRefused(w)
    BY <1>5 DEF TypeOK, LockInv, LocalInv, KeptInv, Fresh, RefreshRefused, Revoke
<1>6. CASE RefreshFails(w)
    BY <1>6 DEF TypeOK, LockInv, LocalInv, KeptInv, Fresh, RefreshFails
<1>7. CASE StoreRefreshed(w)
    BY <1>7 DEF TypeOK, LockInv, LocalInv, KeptInv, Fresh, StoreRefreshed
<1>8. CASE Use(w)
    BY <1>8 DEF TypeOK, LockInv, LocalInv, KeptInv, Fresh, Use, Revoke
<1>9. CASE MigrateRead(w)
    BY <1>9 DEF TypeOK, LockInv, LocalInv, KeptInv, Fresh, MigrateRead, CheckExpiry
<1>10. CASE MigrateInfo(w)
    BY <1>10 DEF TypeOK, LockInv, LocalInv, KeptInv, Fresh, MigrateInfo
<1>11. CASE MigrateToken(w)
    BY <1>11 DEF TypeOK, LockInv, LocalInv, KeptInv, Fresh, MigrateToken
<1>12. CASE MigrateDelete(w)
    BY <1>12 DEF TypeOK, LockInv, LocalInv, KeptInv, Fresh, MigrateDelete, CheckExpiry
<1>13. CASE ConnectInfo(w)
    <2>0. tok[w] \in Token
        BY <1>13 DEF TypeOK, LocalInv, Fresh, ConnectInfo
    <2>1. info' # None
        BY <1>13, <2>0 DEF TypeOK, ConnectInfo
    <2>2. QED
        BY <1>13, <2>1 DEF TypeOK, KeptInv, ConnectInfo
<1>14. CASE ConnectToken(w)
    BY <1>14 DEF TypeOK, LockInv, LocalInv, KeptInv, Fresh, ConnectToken
<1>15. CASE DisconnectRead(w)
    BY <1>15 DEF TypeOK, LockInv, LocalInv, KeptInv, Fresh, DisconnectRead
<1>16. CASE DeleteInfo(w)
    BY <1>16 DEF TypeOK, LockInv, LocalInv, KeptInv, Fresh, DeleteInfo, Disconnected
<1>17. CASE DeleteToken(w)
    BY <1>17 DEF TypeOK, LockInv, LocalInv, KeptInv, Fresh, DeleteToken, Disconnected
<1>18. CASE Begin(w)
    BY <1>18 DEF TypeOK, LockInv, LocalInv, KeptInv, Fresh, Begin
<1>19. CASE Authorise(w)
    BY <1>19 DEF TypeOK, LockInv, LocalInv, KeptInv, Fresh, Authorise
<1>20. CASE Disconnect(w)
    BY <1>20 DEF TypeOK, LockInv, LocalInv, KeptInv, Fresh, Disconnect, Revoke
<1>21. CASE Abort(w)
    BY <1>21 DEF TypeOK, LockInv, LocalInv, KeptInv, Fresh, Abort, Fault
<1>22. CASE ReadFails(w)
    BY <1>22 DEF TypeOK, LockInv, LocalInv, KeptInv, Fresh, ReadFails, Fault
<1>23. CASE RefreshLost(w)
    BY <1>23 DEF TypeOK, LockInv, LocalInv, KeptInv, Fresh, RefreshLost, Fault
<1>24. CASE DeleteFails(w)
    BY <1>24 DEF TypeOK, LockInv, LocalInv, KeptInv, Fresh, DeleteFails, Fault
<1> QED
    BY <1>1, <1>2, <1>3, <1>4, <1>5, <1>6, <1>7, <1>8, <1>9, <1>10, <1>11, <1>12,
       <1>13, <1>14, <1>15, <1>16, <1>17, <1>18, <1>19, <1>20, <1>21, <1>22, <1>23, <1>24
    DEF Step, Request, Failure

-----------------------------------------------------------------------------
(* The theorems *)

\* Every step keeps the inductive invariant.
LEMMA NextIInv == IInv /\ [Next]_vars => IInv'
<1> SUFFICES ASSUME IInv, [Next]_vars
             PROVE  IInv'
    OBVIOUS
<1>1. ASSUME NEW w \in Worker, Step(w) \/ Request(w) \/ Failure(w)
      PROVE  IInv'
    BY <1>1, StepType, OtherType, LockStep, LocalStep, LiveStep, KeptStep DEF IInv
<1>2. CASE Age
    <2>1. /\ TypeOK'
          /\ UNCHANGED <<info, token, legacy, lock, issued, dead, pc, tok, phase, faults>>
        BY <1>2, OtherType DEF IInv, Age, kv
    <2>2. QED
        BY <2>1 DEF IInv, LockInv, LocalInv, LiveInv, KeptInv, Fresh, CredentialKept
<1>3. CASE UNCHANGED vars
    BY <1>3 DEF vars, IInv, TypeOK, LockInv, LocalInv, LiveInv, KeptInv, Fresh, CredentialKept
<1> QED
    BY <1>1, <1>2, <1>3 DEF Next

\* The initial states satisfy it.
LEMMA InitIInv == Init => IInv
<1> SUFFICES ASSUME Init
             PROVE  IInv
    OBVIOUS
<1>1. TypeOK
    BY NoneIsNew, ConstantsAssumption DEF Init, TypeOK, Label
<1>2. LockInv /\ LocalInv /\ LiveInv /\ KeptInv
    BY NoneIsNew
       DEF Init, LockInv, LocalInv, LiveInv, KeptInv, Fresh, CredentialKept, Locked, Connecting, Deleting
<1> QED
    BY <1>1, <1>2 DEF IInv

\* The inductive invariant: mutual exclusion of the locked sections of
\* getOrRefreshTokenWithMutex and migrateGitlabToken, what each goroutine's local token
\* says of the stored one, and what a refresh or a migration under way has written.
THEOREM Invariant == Spec => []IInv
BY InitIInv, NextIInv, PTL DEF Spec

\* Every variable keeps its type: the store, GitLab's tokens and the goroutines of
\* server/plugin.go are always in one of the states the module names.
THEOREM TypeCorrect == Spec => []TypeOK
<1>1. IInv => TypeOK
    BY DEF IInv
<1> QED
    BY <1>1, Invariant, PTL

\* For any number of goroutines, tokens and accounts: while nothing fails, the
\* mutex and the second read of getOrRefreshTokenWithMutex, with the order of the
\* writes of a migration, let no goroutine exchange a token twice.
THEOREM RefreshOnce == Spec => []NoReplay
<1>1. IInv => NoReplay
    BY DEF IInv, LiveInv, NoReplay
<1> QED
    BY <1>1, Invariant, PTL

\* For any number of goroutines and faults: until a disconnect begins the user's
\* info and token stay in the store, under the new keys or the old one.
THEOREM CrashKeepsCredential == Spec => []CredentialKept
<1>1. IInv => CredentialKept
    BY DEF IInv, KeptInv, CredentialKept
<1> QED
    BY <1>1, Invariant, PTL

=============================================================================
