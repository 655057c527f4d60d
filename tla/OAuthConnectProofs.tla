---------------------------- MODULE OAuthConnectProofs ----------------------------
(***************************************************************************)
(* Theorems about OAuthConnect, for any number of nodes, users, requests,  *)
(* callbacks and faults: what a user is told of a connection is true, and  *)
(* a state is exchanged once.                                              *)
(***************************************************************************)
EXTENDS OAuthConnect, TLAPS

Working == {"get", "delete", "exchange", "info", "token"}

Connected(u) == u \in info /\ u \in token

\* A callback knows its user, and the state it carries until it has an outcome; it has a
\* success to publish only when both the info and the token are in the store.
CallbackInv ==
    \A c \in Callback :
        /\ cb[c].st # "none" =>
               cb[c].call \in 1 .. MaxCalls /\ cb[c].node \in Node /\ cb[c].user \in User
        /\ cb[c].st \in Working => cb[c].state \in Request
        /\ cb[c].st \in {"token", "ok"} => cb[c].user \in info
        /\ cb[c].st = "ok" => cb[c].user \in token

\* A success on its way to a goroutine, in an event or in its channel, is a success of its user.
TrueInv ==
    /\ \A e \in bus : e.outcome = "ok" => Connected(e.user)
    /\ \A n \in Node : \A r \in subs[n] : owner[r].node = n
    /\ \A r \in Request :
        /\ chan[r] = "ok" => Connected(owner[r].user)
        /\ chan[r] = "closed" => owner[r].node \in closed
        /\ pc[r] \in {"leave", "done"} /\ told[r] = "nothing" =>
               Connected(owner[r].user) \/ owner[r].node \in closed

\* A success that came while the goroutine waits is in its channel.
HeardInv ==
    \A r \in Request :
        /\ pc[r] \in {"new", "subscribe"} => came[r] = {}
        /\ pc[r] \in {"new", "subscribe", "wait"} => told[r] = "nothing"
        /\ pc[r] = "wait" /\ "ok" \in came[r] => chan[r] # "empty"
        /\ told[r] = "timeout" => "ok" \notin came[r]

\* Callback c may still pass with the state of request r.
Carries(c, r) == cb[c].state = r /\ cb[c].st \in {"get", "delete"}

\* Without a race a state has one carrier, and once it is used none that was found good.
StateInv ==
    \A r \in Request :
        /\ pc[r] = "new" => uses[r] = 0 /\ \A c \in Callback : ~Carries(c, r)
        /\ r \notin raced =>
            /\ \A c, d \in Callback : Carries(c, r) /\ Carries(d, r) => c = d
            /\ uses[r] > 0 =>
                   r \notin states /\ \A c \in Callback : Carries(c, r) => cb[c].st # "delete"
            /\ uses[r] <= 1

IInv == TypeOK /\ CallbackInv /\ TrueInv /\ HeardInv /\ StateInv

-----------------------------------------------------------------------------
(* Initial states *)

LEMMA InitInv == Init => IInv
<1> SUFFICES ASSUME Init PROVE IInv
  OBVIOUS
<1>1. TypeOK
  BY ConstantsAssumption DEF Init, TypeOK, NoCallback, Outcome
<1>2. CallbackInv
  BY DEF Init, CallbackInv, NoCallback, Working
<1>3. TrueInv
  BY DEF Init, TrueInv
<1>4. HeardInv
  BY DEF Init, HeardInv
<1>5. StateInv
  BY DEF Init, StateInv, Carries, NoCallback
<1>. QED BY <1>1, <1>2, <1>3, <1>4, <1>5 DEF IInv

\* The bounds hold.
LEMMA Bounds == IInv => calls \in 0 .. MaxCalls /\ faults \in 0 .. MaxFaults
BY DEF IInv, TypeOK

LEMMA FaultBound == ASSUME IInv, Fault PROVE faults' \in 0 .. MaxFaults
BY Bounds, ConstantsAssumption DEF Fault

-----------------------------------------------------------------------------
(* connectUserToGitlab *)

LEMMA StoreStateInv == ASSUME IInv, NEW r \in Request, StoreState(r) PROVE IInv'
<1> USE DEF StoreState, Goto, IInv
<1>1. TypeOK'
  BY FaultBound DEF TypeOK, broker, history
<1>2. CallbackInv'
  BY DEF CallbackInv, broker, kv
<1>3. TrueInv'
  BY DEF TrueInv, TypeOK, Connected, broker
<1>4. HeardInv'
  BY DEF HeardInv, TypeOK, broker
<1>5. StateInv'
  BY DEF StateInv, TypeOK, Carries, history
<1>. QED BY <1>1, <1>2, <1>3, <1>4, <1>5

LEMMA SubscribeInv == ASSUME IInv, NEW r \in Request, SubscribeOAuthComplete(r) PROVE IInv'
<1> USE DEF SubscribeOAuthComplete, Goto, IInv
<1>1. TypeOK'
  BY DEF TypeOK, kv, history
<1>2. CallbackInv'
  BY DEF CallbackInv, kv
<1>3. TrueInv'
  BY DEF TrueInv, TypeOK, Connected, kv
<1>4. HeardInv'
  BY DEF HeardInv, TypeOK
<1>5. StateInv'
  BY DEF StateInv, TypeOK, Carries, history, kv
<1>. QED BY <1>1, <1>2, <1>3, <1>4, <1>5

LEMMA ReceiveInv == ASSUME IInv, NEW r \in Request, Receive(r) PROVE IInv'
<1> USE DEF Receive, Goto, IInv
<1>1. TypeOK'
  BY DEF TypeOK, kv, history, Outcome
<1>2. CallbackInv'
  BY DEF CallbackInv, kv
<1>3. TrueInv'
  BY DEF TrueInv, TypeOK, Connected, kv, Outcome
<1>4. HeardInv'
  BY DEF HeardInv, TypeOK
<1>5. StateInv'
  BY DEF StateInv, TypeOK, Carries, history, kv
<1>. QED BY <1>1, <1>2, <1>3, <1>4, <1>5

LEMMA TimeoutInv == ASSUME IInv, NEW r \in Request, Timeout(r) PROVE IInv'
<1> USE DEF Timeout, Goto, IInv, broker
<1>1. TypeOK'
  BY DEF TypeOK, kv, history
<1>2. CallbackInv'
  BY DEF CallbackInv, kv
<1>3. TrueInv'
  BY DEF TrueInv, TypeOK, Connected, kv
<1>4. HeardInv'
  BY DEF HeardInv, TypeOK
<1>5. StateInv'
  BY DEF StateInv, TypeOK, Carries, history, kv
<1>. QED BY <1>1, <1>2, <1>3, <1>4, <1>5

LEMMA UnsubscribeInv == ASSUME IInv, NEW r \in Request, UnsubscribeOAuthComplete(r) PROVE IInv'
<1> USE DEF UnsubscribeOAuthComplete, Goto, IInv
<1>1. TypeOK'
  BY DEF TypeOK, kv, history
<1>2. CallbackInv'
  BY DEF CallbackInv, kv
<1>3. TrueInv'
  BY DEF TrueInv, TypeOK, Connected, kv
<1>4. HeardInv'
  BY DEF HeardInv, TypeOK
<1>5. StateInv'
  BY DEF StateInv, TypeOK, Carries, history, kv
<1>. QED BY <1>1, <1>2, <1>3, <1>4, <1>5

-----------------------------------------------------------------------------
(* completeConnectUserToGitlab *)

\* Nothing but the callbacks changes.
LEMMA CallbackOnly ==
  ASSUME IInv, UNCHANGED <<request, broker, info, token>>
  PROVE  TrueInv' /\ HeardInv'
<1>1. TrueInv'
  BY DEF IInv, TrueInv, Connected, request, broker
<1>2. HeardInv'
  BY DEF IInv, HeardInv, request, broker
<1>. QED BY <1>1, <1>2

LEMMA ComeInv == ASSUME IInv, NEW c \in Callback, Come(c) PROVE IInv'
<1>a. /\ cb[c].st = "none" /\ calls < MaxCalls /\ calls' = calls + 1
      /\ UNCHANGED <<request, broker, kv, uses, faults>>
  BY Zenon DEF Come
<1>0. calls' \in 1 .. MaxCalls /\ calls' \in 0 .. MaxCalls
  BY <1>a, Bounds, ConstantsAssumption
<1> USE <1>a DEF IInv
<1>1. CASE \E n \in Node, r \in Request :
              /\ pc[r] \in {"wait", "leave", "done"}
              /\ cb' = [cb EXCEPT ![c] = [st |-> "get", call |-> calls', node |-> n,
                                         user |-> owner[r].user, state |-> r]]
              /\ raced' = IF \E d \in Callback : cb[d].state = r /\ cb[d].st \in {"get", "delete"}
                          THEN raced \cup {r} ELSE raced
  <2>1. PICK n \in Node, r \in Request :
              /\ pc[r] \in {"wait", "leave", "done"}
              /\ cb' = [cb EXCEPT ![c] = [st |-> "get", call |-> calls', node |-> n,
                                         user |-> owner[r].user, state |-> r]]
              /\ raced' = IF \E d \in Callback : Carries(d, r) THEN raced \cup {r} ELSE raced
    BY <1>1 DEF Carries
  <2>2. /\ cb'[c] = [st |-> "get", call |-> calls', node |-> n, user |-> owner[r].user, state |-> r]
        /\ \A d \in Callback \ {c} : cb'[d] = cb[d]
        /\ owner[r].user \in User
    BY <2>1 DEF TypeOK
  <2>3. TypeOK'
    BY <1>0, <2>1, <2>2 DEF TypeOK, request, broker, kv
  <2>4. CallbackInv'
    BY <1>0, <2>2 DEF CallbackInv, kv, Working
  <2>5. StateInv'
    <3>1. UNCHANGED <<pc, uses, states>>
      BY DEF request, kv
    <3>2. \A d \in Callback : d # c => \A q \in Request : Carries(d, q)' <=> Carries(d, q)
      BY <2>2 DEF Carries
    <3>3. \A q \in Request : Carries(c, q)' <=> q = r
      BY <2>2 DEF Carries
    <3>. QED BY <2>1, <2>2, <3>1, <3>2, <3>3 DEF StateInv
  <2>. QED BY <2>3, <2>4, <2>5, CallbackOnly DEF kv
<1>2. CASE /\ \E n \in Node, u \in User :
                 cb' = [cb EXCEPT ![c] = [NoCallback EXCEPT !.st = "error", !.call = calls',
                                                            !.node = n, !.user = u]]
           /\ UNCHANGED raced
  <2>1. PICK n \in Node, u \in User :
                 cb' = [cb EXCEPT ![c] = [NoCallback EXCEPT !.st = "error", !.call = calls',
                                                            !.node = n, !.user = u]]
    BY <1>2
  <2>2. /\ cb'[c] = [st |-> "error", call |-> calls', node |-> n, user |-> u, state |-> None]
        /\ \A d \in Callback \ {c} : cb'[d] = cb[d]
    BY <2>1 DEF TypeOK, NoCallback
  <2>3. TypeOK'
    BY <1>0, <1>2, <2>1, <2>2 DEF TypeOK, request, broker, kv, NoCallback
  <2>4. CallbackInv'
    BY <1>0, <2>2 DEF CallbackInv, kv, Working
  <2>5. StateInv'
    BY <1>2, <2>2 DEF StateInv, Carries, request, kv
  <2>. QED BY <2>3, <2>4, <2>5, CallbackOnly DEF kv
<1>. QED BY <1>1, <1>2 DEF Come

\* A callback goes on, or ends; the state is used only where the action says so.
LEMMA GotoInv ==
  ASSUME IInv, NEW c \in Callback, NEW label \in Working \cup Outcome,
         cb[c].st \in Working, CallbackGoto(c, label)
  PROVE  /\ cb' \in [Callback -> [st : {"none"} \cup Working \cup Outcome,
                                 call : 0 .. MaxCalls, node : Node \cup {None},
                                 user : User \cup {None}, state : Request \cup {None}]]
         /\ cb'[c].st = label
         /\ cb[c].state \in Request /\ cb[c].user \in User
         /\ \A d \in Callback : /\ cb'[d].call = cb[d].call /\ cb'[d].node = cb[d].node
                                /\ cb'[d].user = cb[d].user /\ cb'[d].state = cb[d].state
                                /\ d # c => cb'[d].st = cb[d].st
<1>1. cb \in [Callback -> [st : {"none"} \cup Working \cup Outcome,
                           call : 0 .. MaxCalls, node : Node \cup {None},
                           user : User \cup {None}, state : Request \cup {None}]]
  BY DEF IInv, TypeOK, Working, Outcome
<1>2. cb[c].state \in Request /\ cb[c].user \in User
  BY DEF IInv, CallbackInv, Working
<1>. QED BY <1>1, <1>2 DEF CallbackGoto

LEMMA GetStateInv == ASSUME IInv, NEW c \in Callback, GetState(c) PROVE IInv'
<1> DEFINE label == IF cb[c].state \in states THEN "delete" ELSE "error"
<1>1. cb[c].st = "get" /\ UNCHANGED <<request, broker, kv, history, calls, faults>>
  BY DEF GetState
<1>2. PICK l \in {"delete", "error"} : l = label /\ CallbackGoto(c, l)
  BY DEF GetState
<1>3. cb[c].st \in Working /\ l \in Working \cup Outcome
  BY <1>1, <1>2 DEF Working, Outcome
<1> HIDE DEF label
<1>4. TypeOK'
  BY <1>1, <1>2, <1>3, GotoInv
     DEF IInv, TypeOK, request, broker, kv, history, Working, Outcome
<1>5. CallbackInv'
  BY <1>1, <1>2, <1>3, GotoInv DEF IInv, CallbackInv, kv, Working
<1>6. StateInv'
  BY <1>1, <1>2, <1>3, GotoInv DEF IInv, StateInv, Carries, request, kv, history, label
<1>. QED BY <1>1, <1>4, <1>5, <1>6, CallbackOnly DEF IInv, kv

LEMMA DeleteStateInv == ASSUME IInv, NEW c \in Callback, DeleteState(c) PROVE IInv'
<1>1. cb[c].st = "delete" /\ UNCHANGED <<request, broker, info, token, raced, calls>>
  BY DEF DeleteState
<1>2. cb[c].st \in Working
  BY <1>1 DEF Working
<1>3. CASE states' = states \ {cb[c].state} /\ CallbackGoto(c, "exchange") /\ Uses(c) /\ UNCHANGED faults
  <2>1. "exchange" \in Working \cup Outcome
    BY DEF Working
  <2>2. uses' \in [Request -> Nat]
    BY <1>3, <2>1, <1>2, GotoInv DEF IInv, TypeOK, Uses
  <2>3. TypeOK'
    BY <1>1, <1>2, <1>3, <2>1, <2>2, GotoInv DEF IInv, TypeOK, request, broker, Working, Outcome
  <2>4. CallbackInv'
    BY <1>1, <1>2, <1>3, <2>1, GotoInv DEF IInv, CallbackInv, Working
  <2>5. StateInv'
    <3>1. \A r \in Request : uses'[r] = IF r = cb[c].state THEN uses[r] + 1 ELSE uses[r]
      BY <1>3 DEF Uses, IInv, TypeOK
    <3>2. cb[c].state \in Request /\ Carries(c, cb[c].state)
      BY <1>1, <1>2, <1>3, <2>1, GotoInv DEF Carries
    <3>3. \A r \in Request, d \in Callback : Carries(d, r)' <=> Carries(d, r) /\ d # c
      BY <1>2, <1>3, <2>1, GotoInv DEF Carries
    <3>4. \A r \in Request, d \in Callback : Carries(d, r)' => cb'[d].st = cb[d].st
      BY <1>2, <1>3, <2>1, GotoInv DEF Carries
    <3>5. pc[cb[c].state] # "new" /\ (cb[c].state \notin raced => uses[cb[c].state] = 0)
      BY <1>1, <3>2 DEF IInv, StateInv, TypeOK
    <3>6. uses \in [Request -> Nat] /\ UNCHANGED <<pc, raced>>
      BY <1>1 DEF IInv, TypeOK, request
    <3>. QED BY <1>3, <3>1, <3>2, <3>3, <3>4, <3>5, <3>6 DEF IInv, StateInv
  <2>. QED BY <1>1, <2>3, <2>4, <2>5, CallbackOnly DEF IInv
<1>4. CASE Fault /\ CallbackGoto(c, "error") /\ UNCHANGED <<states, uses>>
  <2>1. "error" \in Working \cup Outcome
    BY DEF Outcome
  <2>2. TypeOK'
    BY <1>1, <1>2, <1>4, <2>1, GotoInv, FaultBound
       DEF IInv, TypeOK, request, broker, Working, Outcome
  <2>3. CallbackInv'
    BY <1>1, <1>2, <1>4, <2>1, GotoInv DEF IInv, CallbackInv, Working
  <2>4. StateInv'
    BY <1>1, <1>2, <1>4, <2>1, GotoInv DEF IInv, StateInv, Carries, request
  <2>. QED BY <1>1, <2>2, <2>3, <2>4, CallbackOnly DEF IInv
<1>. QED BY <1>3, <1>4 DEF DeleteState

\* The callbacks that no longer look at the state.
LEMMA LaterInv ==
  ASSUME IInv, NEW c \in Callback, cb[c].st \in {"exchange", "info", "token"},
         NEW label \in {"info", "token"} \cup Outcome, CallbackGoto(c, label),
         UNCHANGED <<pc, states, history>>
  PROVE  StateInv'
<1>1. cb[c].st \in Working /\ label \in Working \cup Outcome
  BY DEF Working, Outcome
<1>. QED BY <1>1, GotoInv DEF IInv, StateInv, Carries, history, Outcome

LEMMA ExchangeInv == ASSUME IInv, NEW c \in Callback, Exchange(c) PROVE IInv'
<1>1. cb[c].st = "exchange" /\ UNCHANGED <<request, broker, kv, history, calls, faults>>
  BY DEF Exchange
<1>2. PICK l \in {"info", "error"} : CallbackGoto(c, l)
  BY DEF Exchange
<1>3. cb[c].st \in Working /\ l \in Working \cup Outcome /\ l \in {"info", "token"} \cup Outcome
  BY <1>1, <1>2 DEF Working, Outcome
<1>4. TypeOK'
  BY <1>1, <1>2, <1>3, GotoInv
     DEF IInv, TypeOK, request, broker, kv, history, Working, Outcome
<1>5. CallbackInv'
  BY <1>1, <1>2, <1>3, GotoInv DEF IInv, CallbackInv, kv, Working
<1>6. StateInv'
  BY <1>1, <1>2, <1>3, LaterInv DEF request, kv
<1>. QED BY <1>1, <1>4, <1>5, <1>6, CallbackOnly DEF IInv, kv

\* The user's info, or token, is there, and nothing else has changed.
LEMMA StoredTrue ==
  ASSUME IInv, UNCHANGED <<request, broker>>, info \subseteq info', token \subseteq token'
  PROVE  TrueInv' /\ HeardInv'
<1>1. TrueInv'
  BY DEF IInv, TrueInv, Connected, request, broker
<1>2. HeardInv'
  BY DEF IInv, HeardInv, request, broker
<1>. QED BY <1>1, <1>2

LEMMA StoreInfoInv == ASSUME IInv, NEW c \in Callback, StoreInfo(c) PROVE IInv'
<1>1. cb[c].st = "info" /\ UNCHANGED <<request, broker, states, token, history, calls>>
  BY DEF StoreInfo
<1>2. PICK l \in {"token", "error"} :
          /\ CallbackGoto(c, l)
          /\ \/ l = "token" /\ info' = info \cup {cb[c].user} /\ UNCHANGED faults
             \/ l = "error" /\ Fault /\ UNCHANGED info
  BY DEF StoreInfo
<1>3. cb[c].st \in Working /\ l \in Working \cup Outcome /\ l \in {"info", "token"} \cup Outcome
  BY <1>1, <1>2 DEF Working, Outcome
<1>4. TypeOK'
  BY <1>1, <1>2, <1>3, GotoInv, FaultBound
     DEF IInv, TypeOK, request, broker, history, Working, Outcome
<1>5. CallbackInv'
  BY <1>1, <1>2, <1>3, GotoInv DEF IInv, CallbackInv, Working
<1>6. StateInv'
  BY <1>1, <1>2, <1>3, LaterInv DEF request
<1>7. info \subseteq info' /\ token \subseteq token'
  BY <1>1, <1>2
<1>. QED BY <1>1, <1>4, <1>5, <1>6, <1>7, StoredTrue DEF IInv

LEMMA StoreTokenInv == ASSUME IInv, NEW c \in Callback, StoreToken(c) PROVE IInv'
<1>1. cb[c].st = "token" /\ UNCHANGED <<request, broker, states, info, history, calls>>
  BY DEF StoreToken
<1>2. PICK l \in {"ok", "error"} :
          /\ CallbackGoto(c, l)
          /\ \/ l = "ok" /\ token' = token \cup {cb[c].user} /\ UNCHANGED faults
             \/ l = "error" /\ Fault /\ UNCHANGED token
  BY DEF StoreToken
<1>3. cb[c].st \in Working /\ l \in Working \cup Outcome /\ l \in {"info", "token"} \cup Outcome
  BY <1>1, <1>2 DEF Working, Outcome
<1>4. TypeOK'
  BY <1>1, <1>2, <1>3, GotoInv, FaultBound
     DEF IInv, TypeOK, request, broker, history, Working, Outcome
<1>5. CallbackInv'
  BY <1>1, <1>2, <1>3, GotoInv DEF IInv, CallbackInv, Working
<1>6. StateInv'
  BY <1>1, <1>2, <1>3, LaterInv DEF request
<1>7. info \subseteq info' /\ token \subseteq token'
  BY <1>1, <1>2
<1>. QED BY <1>1, <1>4, <1>5, <1>6, <1>7, StoredTrue DEF IInv

-----------------------------------------------------------------------------
(* The broker *)

\* A callback that is over: one that has published, or whose process has ended.
LEMMA OverInv ==
  ASSUME IInv, NEW c \in Callback, cb' = [cb EXCEPT ![c] = NoCallback],
         UNCHANGED <<pc, kv, history>>
  PROVE  /\ cb' \in [Callback -> [st : {"none", "get", "delete", "exchange", "info", "token",
                                       "ok", "error"},
                                 call : 0 .. MaxCalls, node : Node \cup {None},
                                 user : User \cup {None}, state : Request \cup {None}]]
         /\ CallbackInv' /\ StateInv'
<1>1. cb'[c] = NoCallback /\ \A d \in Callback \ {c} : cb'[d] = cb[d]
  BY DEF IInv, TypeOK
<1>2. cb' \in [Callback -> [st : {"none", "get", "delete", "exchange", "info", "token",
                                  "ok", "error"},
                            call : 0 .. MaxCalls, node : Node \cup {None},
                            user : User \cup {None}, state : Request \cup {None}]]
  BY ConstantsAssumption DEF IInv, TypeOK, NoCallback
<1>3. CallbackInv'
  BY <1>1 DEF IInv, CallbackInv, NoCallback, Working, kv
<1>4. StateInv'
  BY <1>1 DEF IInv, StateInv, Carries, NoCallback, kv, history
<1>. QED BY <1>2, <1>3, <1>4

\* A publication, or an event that can be read: a success is one, and it is put into the
\* channel of every goroutine that waits for the user, unless a value is there already.
LEMMA SentInv ==
  ASSUME IInv, NEW n \in Node, NEW u \in User, NEW o \in Outcome,
         o = "ok" => Connected(u),
         SendTo(n, u, o), Comes(n, u, o), bus' \subseteq Event,
         \A e \in bus' : e.outcome = "ok" => Connected(e.user),
         UNCHANGED <<request, subs, closed, info, token>>
  PROVE  /\ chan' \in [Request -> {"empty", "closed"} \cup Outcome]
         /\ came' \in [Request -> SUBSET Outcome]
         /\ TrueInv' /\ HeardInv'
<1>1. ASSUME NEW r \in Request
      PROVE  /\ chan'[r] = IF r \in Waiting(n, u) /\ chan[r] = "empty" THEN o ELSE chan[r]
             /\ came'[r] = IF r \in Waiting(n, u) /\ pc[r] = "wait" THEN came[r] \cup {o} ELSE came[r]
  BY DEF SendTo, Comes
<1>2. chan' \in [Request -> {"empty", "closed"} \cup Outcome] /\ came' \in [Request -> SUBSET Outcome]
  BY DEF SendTo, Comes, IInv, TypeOK
<1>3. TrueInv'
  BY <1>1 DEF IInv, TrueInv, Connected, Waiting, request, Outcome
<1>4. HeardInv'
  BY <1>1 DEF IInv, HeardInv, request, Outcome
<1>. QED BY <1>2, <1>3, <1>4

LEMMA PublishInv == ASSUME IInv, NEW c \in Callback, Publish(c) PROVE IInv'
<1>1. PICK n \in Node, u \in User, o \in Outcome :
          n = cb[c].node /\ u = cb[c].user /\ o = cb[c].st
  BY DEF Publish, IInv, CallbackInv, Outcome
<1>2. cb' = [cb EXCEPT ![c] = NoCallback] /\ UNCHANGED <<request, subs, closed, kv, history, calls, faults>>
  BY DEF Publish
<1>3. CASE n \in closed
  <2>1. UNCHANGED <<chan, came, bus>>
    BY <1>1, <1>3 DEF Publish
  <2>2. UNCHANGED broker
    BY <1>2, <2>1 DEF broker
  <2>3. TypeOK'
    BY <1>2, <2>1, OverInv DEF IInv, TypeOK, request, kv, history
  <2>. QED BY <1>2, <2>2, <2>3, OverInv, CallbackOnly DEF IInv, request, kv
<1>4. CASE n \notin closed
  <2>1. /\ SendTo(n, u, o) /\ Comes(n, u, o)
        /\ bus' = bus \cup [call : {cb[c].call}, user : {u}, to : Node \ {n}, outcome : {o}]
    BY <1>1, <1>4 DEF Publish
  <2>2. cb[c].call \in 1 .. MaxCalls /\ (o = "ok" => Connected(u))
    BY <1>1 DEF IInv, CallbackInv, Outcome, Connected
  <2>3. bus' \subseteq Event
    BY <2>1, <2>2 DEF IInv, TypeOK, Event
  <2>4. \A e \in bus' : e.outcome = "ok" => Connected(e.user)
    BY <2>1, <2>2 DEF IInv, TrueInv
  <2>5. /\ chan' \in [Request -> {"empty", "closed"} \cup Outcome]
        /\ came' \in [Request -> SUBSET Outcome]
        /\ TrueInv' /\ HeardInv'
    BY <1>2, <2>1, <2>2, <2>3, <2>4, SentInv DEF kv
  <2>6. TypeOK'
    BY <1>2, <2>3, <2>5, OverInv DEF IInv, TypeOK, request, kv, history
  <2>. QED BY <1>2, <2>5, <2>6, OverInv DEF IInv, request
<1>. QED BY <1>3, <1>4

\* Nothing but the channels, the events and their history changes.
LEMMA BrokerOnly ==
  ASSUME IInv, UNCHANGED <<pc, kv, cb, history>>
  PROVE  CallbackInv' /\ StateInv'
<1>1. CallbackInv'
  BY DEF IInv, CallbackInv, kv
<1>2. StateInv'
  BY DEF IInv, StateInv, Carries, kv, history
<1>. QED BY <1>1, <1>2

LEMMA EventInv == ASSUME IInv, NEW e \in bus, HandleClusterEvent(e) PROVE IInv'
<1>1. bus' \subseteq bus /\ UNCHANGED <<request, subs, closed, kv, cb, history, calls, faults>>
  BY DEF HandleClusterEvent
<1>2. e \in Event /\ bus' \subseteq Event /\ \A f \in bus' : f.outcome = "ok" => Connected(f.user)
  BY <1>1 DEF IInv, TypeOK, TrueInv
<1>3. e.user \in User /\ e.to \in Node /\ e.outcome \in Outcome
  BY <1>2 DEF Event
<1>4. e.outcome = "ok" => Connected(e.user)
  BY DEF IInv, TrueInv
<1>5. /\ chan' \in [Request -> {"empty", "closed"} \cup Outcome]
      /\ came' \in [Request -> SUBSET Outcome]
      /\ TrueInv' /\ HeardInv'
  <2>1. CASE e.to \in closed
    <3>1. UNCHANGED <<chan, came>>
      BY <2>1 DEF HandleClusterEvent
    <3>2. TrueInv'
      BY <1>1, <1>2, <3>1 DEF IInv, TrueInv, Connected, request, kv
    <3>3. HeardInv'
      BY <1>1, <3>1 DEF IInv, HeardInv, request
    <3>. QED BY <3>1, <3>2, <3>3 DEF IInv, TypeOK
  <2>2. CASE e.to \notin closed /\ e.outcome = "error"
    <3>1. UNCHANGED chan /\ Comes(e.to, e.user, "error")
      BY <2>2 DEF HandleClusterEvent
    <3>2. came' \in [Request -> SUBSET Outcome]
      BY <3>1 DEF Comes, IInv, TypeOK, Outcome
    <3>3. TrueInv'
      BY <1>1, <1>2, <3>1 DEF IInv, TrueInv, Connected, request, kv
    <3>4. \A r \in Request : /\ "ok" \in came'[r] => "ok" \in came[r]
                             /\ pc[r] # "wait" => came'[r] = came[r]
      BY <3>1 DEF Comes
    <3>5. HeardInv'
      BY <1>1, <3>1, <3>4 DEF IInv, HeardInv, request
    <3>. QED BY <3>1, <3>2, <3>3, <3>5 DEF IInv, TypeOK
  <2>3. CASE e.to \notin closed /\ e.outcome # "error"
    <3>1. SendTo(e.to, e.user, e.outcome) /\ Comes(e.to, e.user, e.outcome)
      BY <2>3 DEF HandleClusterEvent
    <3>. QED BY <1>1, <1>2, <1>3, <1>4, <3>1, SentInv DEF kv
  <2>. QED BY <2>1, <2>2, <2>3
<1>6. TypeOK'
  BY <1>1, <1>2, <1>5 DEF IInv, TypeOK, request, kv, history
<1>. QED BY <1>1, <1>5, <1>6, BrokerOnly DEF IInv, request

LEMMA CloseInv == ASSUME IInv, NEW n \in Node, Close(n) PROVE IInv'
<1>1. UNCHANGED <<request, subs, bus, came, kv, cb, history, calls>>
  BY DEF Close
<1>2. TypeOK'
  BY <1>1, FaultBound DEF Close, IInv, TypeOK, request, kv, history
<1>3. TrueInv'
  BY <1>1 DEF Close, IInv, TrueInv, Connected, request, kv
<1>4. HeardInv'
  BY <1>1 DEF Close, IInv, HeardInv, request
<1>. QED BY <1>1, <1>2, <1>3, <1>4, BrokerOnly DEF IInv, request

LEMMA VanishInv == ASSUME IInv, Vanish PROVE IInv'
<1>1. UNCHANGED <<request, chan, subs, closed, came, kv, history, calls>> /\ faults' \in 0 .. MaxFaults
  BY FaultBound DEF Vanish
<1>2. bus' \subseteq bus
  BY DEF Vanish
<1>3. TrueInv'
  BY <1>1, <1>2 DEF IInv, TrueInv, Connected, request, kv
<1>4. HeardInv'
  BY <1>1 DEF IInv, HeardInv, request
<1>5. CASE UNCHANGED cb
  <2>1. TypeOK'
    BY <1>1, <1>2, <1>5 DEF IInv, TypeOK, request, kv, history
  <2>. QED BY <1>1, <1>3, <1>4, <1>5, <2>1, BrokerOnly DEF IInv, request
<1>6. ASSUME NEW c \in Callback, cb' = [cb EXCEPT ![c] = NoCallback] PROVE IInv'
  <2>1. TypeOK'
    BY <1>1, <1>2, <1>6, OverInv DEF IInv, TypeOK, request, kv, history
  <2>. QED BY <1>1, <1>3, <1>4, <1>6, <2>1, OverInv DEF IInv, request
<1>. QED BY <1>5, <1>6 DEF Vanish

-----------------------------------------------------------------------------
(* The theorems *)

LEMMA NextInv == IInv /\ [Next]_vars => IInv'
<1> SUFFICES ASSUME IInv, [Next]_vars PROVE IInv'
  OBVIOUS
<1>1. ASSUME NEW r \in Request, Connect(r) PROVE IInv'
  BY <1>1, StoreStateInv, SubscribeInv, ReceiveInv, TimeoutInv, UnsubscribeInv DEF Connect
<1>2. ASSUME NEW c \in Callback, Come(c) \/ Complete(c) PROVE IInv'
  BY <1>2, ComeInv, GetStateInv, DeleteStateInv, ExchangeInv, StoreInfoInv, StoreTokenInv,
     PublishInv DEF Complete
<1>3. ASSUME NEW e \in bus, HandleClusterEvent(e) PROVE IInv'
  BY <1>3, EventInv
<1>4. ASSUME NEW n \in Node, Close(n) PROVE IInv'
  BY <1>4, CloseInv
<1>5. CASE UNCHANGED vars
  <2>1. TypeOK'
    BY <1>5 DEF vars, broker, IInv, TypeOK
  <2>. QED BY <1>5, <2>1, CallbackOnly, BrokerOnly DEF vars, request, broker, kv, history, IInv
<1>. QED BY <1>1, <1>2, <1>3, <1>4, <1>5, VanishInv DEF Next

LEMMA Invariant == Spec => []IInv
BY InitInv, NextInv, PTL DEF Spec

\* The state is well typed; and a goroutine of connectUserToGitlab that ends without a word
\* leaves its user connected, info and token, unless its node was shut down: only StoreToken
\* makes a success, and only a success or a closed broker ends the wait in silence.
THEOREM SilenceIsTrue == Spec => []OAuthInv
<1>1. IInv => OAuthInv
  BY DEF IInv, OAuthInv, TrueInv, Connected, SilentMeansConnected
<1>. QED BY <1>1, Invariant, PTL

\* A success that came to the node of a waiting goroutine is not answered with "timed out":
\* the non-blocking send of PublishOAuthComplete finds room, or a value that is read instead.
THEOREM Heard == Spec => []SuccessIsHeard
<1>1. IInv => SuccessIsHeard
  BY DEF IInv, HeardInv, SuccessIsHeard
<1>. QED BY <1>1, Invariant, PTL

\* A state that no two callbacks carry at the same time is exchanged at most once
\* (completeConnectUserToGitlab reads it, deletes it, and only then exchanges the code).
THEOREM UsedOnce == Spec => []StateUsedOnce
<1>1. IInv => StateUsedOnce
  BY DEF IInv, TypeOK, StateInv, StateUsedOnce
<1>. QED BY <1>1, Invariant, PTL
=============================================================================
