--------------------------- MODULE ConnectionsProofs ---------------------------
(* Proofs about Connections, for any users, accounts, goroutines and bounds. *)
EXTENDS Connections, SequenceTheorems, TLAPS

\* What a goroutine may have left to do when it writes the mappings of account a: it calls
\* another function only as its next step, after which only the info is written, and the
\* mappings it writes are those of an account.
Tame(s, a) ==
    /\ s \in Seq(Step)
    /\ \A i \in 2 .. Len(s) : s[i].do # "call"
    /\ Len(s) > 0 /\ s[1].do = "call" => \A i \in 2 .. Len(s) : s[i].key = "info"
    /\ \A i \in 1 .. Len(s) : s[i].do # "call" /\ s[i].key \in {"name", "id"} => a \in Account

\* A goroutine has read, or been given, only what its user is authorised for.
OwnWork ==
    \A w \in Worker :
        /\ Tame(work[w].steps, work[w].account)
        /\ work[w].steps # <<>> => work[w].user \in User
        /\ work[w].info # None => work[w].user \in authorised[work[w].info.account]
        /\ work[w].account # None => work[w].user \in authorised[work[w].account]

IInv == TypeOK /\ OwnWork /\ OwnAccountOnly

-----------------------------------------------------------------------------
(* Sequences of steps *)

LEMMA TailTame ==
    ASSUME NEW s, NEW a, Tame(s, a), s # <<>>
    PROVE  Tame(Tail(s), a)
<1>1. /\ Tail(s) \in Seq(Step) /\ Len(Tail(s)) = Len(s) - 1 /\ Len(s) \in Nat \ {0}
      /\ \A i \in 1 .. Len(s) - 1 : Tail(s)[i] = s[i + 1]
    BY DEF Tame
<1>2. QED
    BY <1>1 DEF Tame

\* After a call the account no longer matters.
LEMMA AfterCall ==
    ASSUME NEW s, NEW a, NEW b, Tame(s, a), s # <<>>, s[1].do = "call"
    PROVE  /\ Tame(Tail(s), b)
           /\ \A i \in 1 .. Len(Tail(s)) : Tail(s)[i].do # "call" /\ Tail(s)[i].key = "info"
<1>1. /\ Tail(s) \in Seq(Step) /\ Len(Tail(s)) = Len(s) - 1 /\ Len(s) \in Nat \ {0}
      /\ \A i \in 1 .. Len(s) - 1 : Tail(s)[i] = s[i + 1]
    BY DEF Tame
<1>2. QED
    BY <1>1 DEF Tame

\* Writes of the mappings of an account, before writes of the info.
LEMMA WritesTame ==
    ASSUME NEW s \in Seq(Step), NEW r \in Seq(Step), NEW a \in Account \cup {None},
           \A i \in 1 .. Len(s) :
                s[i].do # "call" /\ (s[i].key \in {"name", "id"} => a \in Account),
           \A i \in 1 .. Len(r) : r[i].do # "call" /\ r[i].key = "info"
    PROVE  Tame(s \o r, a)
<1> DEFINE t == s \o r
<1>1. /\ t \in Seq(Step) /\ Len(t) = Len(s) + Len(r) /\ Len(s) \in Nat /\ Len(r) \in Nat
      /\ \A i \in 1 .. Len(t) : t[i] = IF i <= Len(s) THEN s[i] ELSE r[i - Len(s)]
    OBVIOUS
<1>2. \A i \in 1 .. Len(t) :
          t[i].do # "call" /\ (t[i].key \in {"name", "id"} => a \in Account)
    <2>1. SUFFICES ASSUME NEW i \in 1 .. Len(t)
                   PROVE  t[i].do # "call" /\ (t[i].key \in {"name", "id"} => a \in Account)
        OBVIOUS
    <2>2. CASE i <= Len(s)
        BY <1>1, <2>2
    <2>3. CASE ~ i <= Len(s)
        BY <1>1, <2>3
    <2>4. QED
        BY <2>2, <2>3
<1> HIDE DEF t
<1>3. Tame(t, a)
    BY <1>1, <1>2 DEF Tame
<1>4. QED
    BY <1>3 DEF t

\* A call, before writes of the info.
LEMMA CallTame ==
    ASSUME NEW f \in Function, NEW r \in Seq(Step), NEW a,
           \A i \in 1 .. Len(r) : r[i].do # "call" /\ r[i].key = "info"
    PROVE  Tame(<<Call(f)>> \o r, a)
<1> DEFINE t == <<Call(f)>> \o r
<1>1. Call(f) \in Step
    BY DEF Call, Step
<1>2. /\ t \in Seq(Step) /\ Len(t) = 1 + Len(r) /\ Len(r) \in Nat
      /\ t[1] = Call(f)
      /\ \A i \in 2 .. Len(t) : t[i] = r[i - 1]
    BY <1>1
<1>3. \A i \in 2 .. Len(t) : t[i].do # "call" /\ t[i].key = "info"
    BY <1>2
<1>4. t[1].do = "call"
    BY <1>2 DEF Call
<1> HIDE DEF t
<1>5. Tame(t, a)
    BY <1>2, <1>3, <1>4 DEF Tame
<1>6. QED
    BY <1>5 DEF t

LEMMA StepsAre ==
    /\ DisconnectSteps \in Seq(Step)
    /\ \A i \in 1 .. Len(DisconnectSteps) : DisconnectSteps[i].do # "call"
    /\ \A known \in BOOLEAN :
        /\ ForceSteps(known) \in Seq(Step)
        /\ \A i \in 1 .. Len(ForceSteps(known)) :
              /\ ForceSteps(known)[i].do # "call"
              /\ ~ known => ForceSteps(known)[i].key \notin {"name", "id"}
<1>1. \A e \in Entry : Del(e) \in Step /\ Del(e).do # "call" /\ Del(e).key = e
    BY DEF Del, Step, Entry
<1>2. /\ DisconnectSteps \in Seq(Step)
      /\ \A i \in 1 .. Len(DisconnectSteps) : DisconnectSteps[i].do # "call"
    BY <1>1 DEF DisconnectSteps, Entry
<1>3. /\ ForceSteps(TRUE) \in Seq(Step)
      /\ \A i \in 1 .. Len(ForceSteps(TRUE)) : ForceSteps(TRUE)[i].do # "call"
    BY <1>1 DEF ForceSteps, Entry
<1>4. /\ ForceSteps(FALSE) \in Seq(Step)
      /\ \A i \in 1 .. Len(ForceSteps(FALSE)) :
            ForceSteps(FALSE)[i].do # "call" /\ ForceSteps(FALSE)[i].key \notin {"name", "id"}
    BY <1>1 DEF ForceSteps, Entry
<1>5. QED
    BY <1>2, <1>3, <1>4

LEMMA StartStepsAre ==
    /\ \A a \in Account : Tame(ConnectSteps, a)
    /\ \A a \in Account, on \in BOOLEAN : Tame(NotificationsSteps(on), a)
    /\ \A a : Tame(<<Must("info")>>, a) /\ Tame(<<Put("info")>>, a)
    /\ \A a : Tame(<<Call("disconnect")>>, a) /\ Tame(<<Call("force")>>, a)
    /\ \A a : Tame(<<Call("todo"), Put("info")>>, a)
<1>1. \A e \in Entry :
        /\ Put(e) \in Step /\ Put(e).do # "call" /\ Put(e).key = e
        /\ Must(e) \in Step /\ Must(e).do # "call" /\ Must(e).key = e
        /\ [Del(e) EXCEPT !.must = TRUE] \in Step
        /\ [Del(e) EXCEPT !.must = TRUE].do # "call" /\ [Del(e) EXCEPT !.must = TRUE].key = e
    BY DEF Put, Must, Del, Step, Entry
<1>2. \A f \in Function : Call(f) \in Step /\ Call(f).do = "call"
    BY DEF Call, Step, Function
<1>3. \A a \in Account : Tame(ConnectSteps, a)
    BY <1>1 DEF ConnectSteps, Tame, Entry
<1>4. \A a \in Account : Tame(NotificationsSteps(TRUE), a)
    BY <1>1 DEF NotificationsSteps, Tame, Entry
<1>5. \A a \in Account : Tame(NotificationsSteps(FALSE), a)
    BY <1>1 DEF NotificationsSteps, Tame, Entry
<1>6. \A a : Tame(<<Must("info")>>, a) /\ Tame(<<Put("info")>>, a)
    BY <1>1 DEF Tame, Entry
<1>7. \A a : Tame(<<Call("disconnect")>>, a) /\ Tame(<<Call("force")>>, a)
    BY <1>2 DEF Tame, Function
<1>8. \A a : Tame(<<Call("todo"), Put("info")>>, a)
    BY <1>1, <1>2 DEF Tame, Entry, Function
<1>9. QED
    BY <1>3, <1>4, <1>5, <1>6, <1>7, <1>8

-----------------------------------------------------------------------------
(* Starting and going on *)

\* A goroutine that starts with what its user is authorised for keeps the invariant.
LEMMA BeginKeeps ==
    ASSUME IInv, NEW w \in Worker, NEW u \in User, NEW i \in Info \cup {None},
           NEW a \in Account \cup {None}, NEW steps,
           Begin(w, u, i, a, steps),
           Tame(steps, a),
           authorised' \in [Account -> SUBSET User],
           \A b \in Account : authorised[b] \subseteq authorised'[b],
           i # None => u \in authorised'[i.account],
           a # None => u \in authorised'[a],
           told' \subseteq User, odd' \subseteq User
    PROVE  IInv'
<1>1. TypeOK'
    BY ConstantsAssumption DEF IInv, TypeOK, Begin, Tame, kv
<1>2. OwnAccountOnly'
    BY DEF IInv, TypeOK, OwnAccountOnly, Begin, kv, Info
<1>3. OwnWork'
    <2>1. SUFFICES ASSUME NEW v \in Worker
                   PROVE  /\ Tame(work'[v].steps, work'[v].account)
                          /\ work'[v].steps # <<>> => work'[v].user \in User
                          /\ work'[v].info # None => work'[v].user \in authorised'[work'[v].info.account]
                          /\ work'[v].account # None => work'[v].user \in authorised'[work'[v].account]
        BY DEF OwnWork
    <2>2. CASE v = w
        <3>1. work'[v] = [user |-> u, info |-> i, account |-> a, steps |-> steps]
            BY <2>2 DEF IInv, TypeOK, Begin
        <3>2. QED
            BY <3>1
    <2>3. CASE v # w
        <3>1. work'[v] = work[v]
            BY <2>3 DEF IInv, TypeOK, Begin
        <3>2. work[v].account \in Account \cup {None} /\ (work[v].info # None => work[v].info.account \in Account)
            BY DEF IInv, TypeOK, Info
        <3>3. QED
            BY <3>1, <3>2 DEF IInv, OwnWork
    <2>4. QED
        BY <2>2, <2>3
<1>4. QED
    BY <1>1, <1>2, <1>3 DEF IInv

\* A goroutine that goes on for an account its user is authorised for keeps OwnWork.
LEMMA ContinueKeeps ==
    ASSUME TypeOK, OwnWork, NEW w \in Worker, NEW a \in Account \cup {None}, NEW steps,
           work[w].steps # <<>>,
           Continue(w, a, steps),
           Tame(steps, a),
           a # None => work[w].user \in authorised[a],
           UNCHANGED authorised
    PROVE  /\ OwnWork'
           /\ work' \in [Worker -> [user : User \cup {None}, info : Info \cup {None},
                                    account : Account \cup {None}, steps : Seq(Step)]]
<1>1. Idle \in [user : User \cup {None}, info : Info \cup {None},
                account : Account \cup {None}, steps : Seq(Step)]
    BY DEF Idle
<1>2. steps \in Seq(Step)
    BY DEF Tame
<1>3. work' \in [Worker -> [user : User \cup {None}, info : Info \cup {None},
                            account : Account \cup {None}, steps : Seq(Step)]]
    BY <1>1, <1>2 DEF TypeOK, Continue
<1>4. \A v \in Worker \ {w} : work'[v] = work[v]
    BY DEF TypeOK, Continue
<1>5. CASE steps = <<>>
    <2>1. work'[w] = Idle
        BY <1>5 DEF TypeOK, Continue
    <2>2. Tame(Idle.steps, Idle.account)
        BY DEF Idle, Tame
    <2>3. QED
        BY <1>3, <1>4, <2>1, <2>2 DEF OwnWork, Idle
<1>6. CASE steps # <<>>
    <2>1. /\ work'[w].steps = steps /\ work'[w].account = a
          /\ work'[w].user = work[w].user /\ work'[w].info = work[w].info
        BY <1>6 DEF TypeOK, Continue
    <2>2. QED
        BY <1>3, <1>4, <2>1 DEF OwnWork
<1>7. QED
    BY <1>5, <1>6

-----------------------------------------------------------------------------
(* The actions *)

LEMMA InitKeeps == Init => IInv
<1> SUFFICES ASSUME Init PROVE IInv
    OBVIOUS
<1>1. TypeOK
    BY ConstantsAssumption DEF Init, TypeOK, Idle
<1>2. OwnWork
    <2>1. Tame(<<>>, None)
        BY DEF Tame
    <2>2. \A w \in Worker : work[w] = Idle
        BY DEF Init
    <2>3. QED
        BY <2>1, <2>2 DEF OwnWork, Idle
<1>3. OwnAccountOnly
    BY DEF Init, OwnAccountOnly
<1>4. QED
    BY <1>1, <1>2, <1>3 DEF IInv

\* What a stored info permits.
LEMMA InfoIsOwn ==
    ASSUME IInv, NEW u \in User, info[u] # None
    PROVE  info[u] \in Info /\ u \in authorised[info[u].account]
BY DEF IInv, TypeOK, OwnAccountOnly

LEMMA StartKeeps ==
    ASSUME IInv, NEW w \in Worker, Start(w)
    PROVE  IInv'
<1>0. authorised \in [Account -> SUBSET User] /\ told \subseteq User /\ odd \subseteq User
    BY DEF IInv, TypeOK
<1>1. CASE Connect(w)
    <2>1. PICK u \in User, a \in Account :
                /\ Begin(w, u, NewInfo(a), a, ConnectSteps)
                /\ authorised' = [authorised EXCEPT ![a] = @ \cup {u}]
                /\ told' = told \ {u}
                /\ odd' = odd
                      \cup (IF authorised[a] \subseteq {u} THEN {} ELSE authorised[a] \cup {u})
                      \cup (IF \E b \in Account \ {a} : name[b] = u THEN {u} ELSE {})
        BY <1>1 DEF Connect
    <2>2. NewInfo(a) \in Info /\ NewInfo(a).account = a
        BY DEF NewInfo, Info, IInv, TypeOK
    <2>3. /\ authorised' \in [Account -> SUBSET User]
          /\ \A b \in Account : authorised[b] \subseteq authorised'[b]
          /\ u \in authorised'[a]
        BY <1>0, <2>1
    <2>4. told' \subseteq User /\ odd' \subseteq User
        BY <1>0, <2>1
    <2>5. Tame(ConnectSteps, a)
        BY StartStepsAre
    <2>6. QED
        BY <2>1, <2>2, <2>3, <2>4, <2>5, BeginKeeps
<1>2. CASE Disconnect(w)
    <2>1. PICK u \in User : /\ Begin(w, u, None, None, <<Call("disconnect")>>)
                            /\ UNCHANGED <<authorised, told, odd>>
        BY <1>2 DEF Disconnect
    <2>2. Tame(<<Call("disconnect")>>, None)
        BY StartStepsAre
    <2>3. QED
        BY <1>0, <2>1, <2>2, BeginKeeps
<1>3. CASE ForceDisconnect(w)
    <2>1. PICK u \in User : /\ Begin(w, u, None, None, <<Call("force")>>)
                            /\ told' = told \cup {u}
                            /\ UNCHANGED <<authorised, odd>>
        BY <1>3 DEF ForceDisconnect
    <2>2. Tame(<<Call("force")>>, None)
        BY StartStepsAre
    <2>3. told' \subseteq User
        BY <1>0, <2>1
    <2>4. QED
        BY <1>0, <2>1, <2>2, <2>3, BeginKeeps
<1>4. CASE Settings(w)
    <2>1. PICK u \in User, on \in BOOLEAN :
                /\ info[u] # None
                /\ \/ Begin(w, u, [info[u] EXCEPT !.notify = on], info[u].account, NotificationsSteps(on))
                   \/ Begin(w, u, [info[u] EXCEPT !.remind = on], info[u].account, <<Must("info")>>)
                /\ UNCHANGED <<authorised, told, odd>>
        BY <1>4 DEF Settings
    <2>2. info[u] \in Info /\ u \in authorised[info[u].account]
        BY <2>1, InfoIsOwn
    <2>3. /\ info[u].account \in Account
          /\ [info[u] EXCEPT !.notify = on] \in Info /\ [info[u] EXCEPT !.notify = on].account = info[u].account
          /\ [info[u] EXCEPT !.remind = on] \in Info /\ [info[u] EXCEPT !.remind = on].account = info[u].account
        BY <2>2 DEF Info
    <2>4. Tame(NotificationsSteps(on), info[u].account) /\ Tame(<<Must("info")>>, info[u].account)
        BY <2>3, StartStepsAre
    <2>5. CASE Begin(w, u, [info[u] EXCEPT !.notify = on], info[u].account, NotificationsSteps(on))
        BY <1>0, <2>1, <2>2, <2>3, <2>4, <2>5, BeginKeeps
    <2>6. CASE Begin(w, u, [info[u] EXCEPT !.remind = on], info[u].account, <<Must("info")>>)
        BY <1>0, <2>1, <2>2, <2>3, <2>4, <2>6, BeginKeeps
    <2>7. QED
        BY <2>1, <2>5, <2>6
<1>5. CASE UpdateSettings(w)
    <2>1. PICK u \in User, notify \in BOOLEAN, remind \in BOOLEAN :
                /\ info[u] # None
                /\ Begin(w, u, [info[u] EXCEPT !.notify = notify, !.remind = remind], None, <<Put("info")>>)
                /\ odd' = IF notify = info[u].notify THEN odd ELSE odd \cup {u}
                /\ UNCHANGED <<authorised, told>>
        BY <1>5 DEF UpdateSettings
    <2>2. info[u] \in Info /\ u \in authorised[info[u].account]
        BY <2>1, InfoIsOwn
    <2>3. /\ [info[u] EXCEPT !.notify = notify, !.remind = remind] \in Info
          /\ [info[u] EXCEPT !.notify = notify, !.remind = remind].account = info[u].account
        BY <2>2 DEF Info
    <2>4. Tame(<<Put("info")>>, None)
        BY StartStepsAre
    <2>5. odd' \subseteq User
        BY <1>0, <2>1
    <2>6. QED
        BY <1>0, <2>1, <2>2, <2>3, <2>4, <2>5, BeginKeeps
<1>6. CASE Remind(w)
    <2>1. PICK u \in User :
                /\ info[u] # None
                /\ Begin(w, u, [info[u] EXCEPT !.last = day], None, <<Call("todo"), Put("info")>>)
                /\ UNCHANGED <<authorised, told, odd>>
        BY <1>6 DEF Remind
    <2>2. info[u] \in Info /\ u \in authorised[info[u].account] /\ day \in 0 .. MaxDay
        BY <2>1, InfoIsOwn DEF IInv, TypeOK
    <2>3. /\ [info[u] EXCEPT !.last = day] \in Info
          /\ [info[u] EXCEPT !.last = day].account = info[u].account
        BY <2>2 DEF Info
    <2>4. Tame(<<Call("todo"), Put("info")>>, None)
        BY StartStepsAre
    <2>5. QED
        BY <1>0, <2>1, <2>2, <2>3, <2>4, BeginKeeps
<1>7. QED
    BY <1>1, <1>2, <1>3, <1>4, <1>5, <1>6 DEF Start

LEMMA RunKeeps ==
    ASSUME IInv, NEW w \in Worker, Run(w)
    PROVE  IInv'
<1>0. TypeOK /\ OwnWork /\ OwnAccountOnly
    BY DEF IInv
<1>1. CASE Perform(w)
    <2> DEFINE s == Head(work[w].steps)
               u == work[w].user
               a == work[w].account
    <2>1. /\ work[w].steps # <<>> /\ s.do # "call"
          /\ UNCHANGED <<day, history, ops>>
        BY <1>1 DEF Perform
    <2>2. /\ Tame(work[w].steps, a) /\ u \in User
          /\ work[w].info # None => u \in authorised[work[w].info.account]
          /\ a # None => u \in authorised[a]
          /\ a \in Account \cup {None} /\ work[w].info \in Info \cup {None}
        BY <1>0, <2>1 DEF OwnWork, TypeOK
    <2>3. s \in Step /\ (s.key \in {"name", "id"} => a \in Account)
        BY <2>1, <2>2 DEF Tame
    <2>4. /\ Tame(Rest(w), a) /\ Tame(<<>>, a)
        BY <2>1, <2>2, TailTame DEF Rest, Tame
    <2>5. /\ OwnWork'
          /\ work' \in [Worker -> [user : User \cup {None}, info : Info \cup {None},
                                   account : Account \cup {None}, steps : Seq(Step)]]
        <3>1. CASE Continue(w, a, Rest(w))
            BY <1>0, <2>1, <2>2, <2>4, <3>1, ContinueKeeps DEF history
        <3>2. CASE Continue(w, a, <<>>)
            BY <1>0, <2>1, <2>2, <2>4, <3>2, ContinueKeeps DEF history
        <3>3. Continue(w, a, Rest(w)) \/ Continue(w, a, <<>>)
            BY <1>1 DEF Perform
        <3>4. QED
            BY <3>1, <3>2, <3>3
    <2>6. CASE UNCHANGED kv /\ Fault
        <3>1. TypeOK'
            BY <1>0, <2>1, <2>5, <2>6, ConstantsAssumption DEF TypeOK, Fault, kv, history
        <3>2. OwnAccountOnly'
            BY <1>0, <2>1, <2>6 DEF OwnAccountOnly, kv, history
        <3>3. QED
            BY <2>5, <3>1, <3>2 DEF IInv
    <2>7. CASE /\ info' = IF s.key = "info"
                         THEN [info EXCEPT ![u] = IF s.do = "put" THEN work[w].info ELSE None] ELSE info
               /\ token' = IF s.key # "token" THEN token
                          ELSE IF s.do = "put" THEN token \cup {u} ELSE token \ {u}
               /\ name' = IF s.key = "name" THEN [name EXCEPT ![a] = IF s.do = "put" THEN u ELSE None] ELSE name
               /\ id' = IF s.key # "id" THEN id ELSE IF s.do = "put" THEN id \cup {a} ELSE id \ {a}
               /\ UNCHANGED faults
        <3>1. /\ info' \in [User -> Info \cup {None}] /\ token' \subseteq User
              /\ name' \in [Account -> User \cup {None}] /\ id' \subseteq Account
            BY <1>0, <2>2, <2>3, <2>7 DEF TypeOK
        <3>2. TypeOK'
            BY <1>0, <2>1, <2>5, <2>7, <3>1 DEF TypeOK, history
        <3>3. \A v \in User : info'[v] # None => v \in authorised'[info'[v].account]
            BY <1>0, <2>1, <2>2, <2>7 DEF OwnAccountOnly, TypeOK, history
        <3>4. \A b \in Account : name'[b] # None => name'[b] \in authorised'[b]
            BY <1>0, <2>1, <2>2, <2>7, ConstantsAssumption DEF ConstantsAssumption, OwnAccountOnly, TypeOK, history
        <3>5. QED
            BY <2>5, <3>2, <3>3, <3>4 DEF IInv, OwnAccountOnly
    <2>8. QED
        BY <1>1, <2>6, <2>7 DEF Perform
\* After a call of another function, nothing of the store has changed.
<1>2. ASSUME NEW a \in Account \cup {None}, NEW steps,
             work[w].steps # <<>>, Head(work[w].steps).do = "call",
             Continue(w, a, steps), Tame(steps, a),
             a # None => work[w].user \in authorised[a],
             reminded' \in [User -> [0 .. MaxDay -> Nat]],
             told' \subseteq User, odd' \subseteq User, faults' \in 0 .. MaxFaults,
             UNCHANGED <<kv, day, authorised, overlap, ops>>
      PROVE  IInv'
    <2>1. /\ OwnWork'
          /\ work' \in [Worker -> [user : User \cup {None}, info : Info \cup {None},
                                   account : Account \cup {None}, steps : Seq(Step)]]
        BY <1>0, <1>2, ContinueKeeps
    <2>2. TypeOK'
        BY <1>0, <1>2, <2>1 DEF TypeOK, kv
    <2>3. OwnAccountOnly'
        BY <1>0, <1>2 DEF OwnAccountOnly, kv
    <2>4. QED
        BY <2>1, <2>2, <2>3 DEF IInv
<1>3. ASSUME work[w].steps # <<>>, Head(work[w].steps).do = "call"
      PROVE  /\ work[w].user \in User
             /\ Rest(w) \in Seq(Step)
             /\ \A i \in 1 .. Len(Rest(w)) : Rest(w)[i].do # "call" /\ Rest(w)[i].key = "info"
             /\ \A b : Tame(Rest(w), b)
             /\ \A f \in Function : \A b : Tame(<<Call(f)>> \o Rest(w), b)
             /\ \A b \in Account : Tame(DisconnectSteps \o Rest(w), b) /\ Tame(ForceSteps(TRUE) \o Rest(w), b)
             /\ Tame(ForceSteps(FALSE) \o Rest(w), None)
    <2>1. Tame(work[w].steps, work[w].account) /\ work[w].user \in User
        BY <1>0, <1>3 DEF OwnWork
    <2>2. work[w].steps[1].do = "call"
        BY <1>3, <2>1 DEF Tame
    <2>3. /\ \A b : Tame(Rest(w), b)
          /\ \A i \in 1 .. Len(Rest(w)) : Rest(w)[i].do # "call" /\ Rest(w)[i].key = "info"
        BY <1>3, <2>1, <2>2, AfterCall DEF Rest
    <2>4. Rest(w) \in Seq(Step)
        BY <2>3 DEF Tame
    <2>5. \A f \in Function : \A b : Tame(<<Call(f)>> \o Rest(w), b)
        BY <2>3, <2>4, CallTame
    <2>6. \A b \in Account : Tame(DisconnectSteps \o Rest(w), b)
        BY <2>3, <2>4, StepsAre, WritesTame
    <2>7. \A b \in Account : Tame(ForceSteps(TRUE) \o Rest(w), b)
        BY <2>3, <2>4, StepsAre, WritesTame
    <2>8. Tame(ForceSteps(FALSE) \o Rest(w), None)
        BY <2>3, <2>4, StepsAre, WritesTame
    <2>9. QED
        BY <2>1, <2>3, <2>4, <2>5, <2>6, <2>7, <2>8
<1>4. /\ reminded \in [User -> [0 .. MaxDay -> Nat]] /\ told \subseteq User /\ odd \subseteq User
      /\ faults \in 0 .. MaxFaults
      /\ Fault => faults' \in 0 .. MaxFaults
    BY <1>0, ConstantsAssumption DEF TypeOK, Fault
<1>5. CASE ReadForDisconnect(w)
    <2>1. /\ work[w].steps # <<>> /\ Head(work[w].steps).do = "call"
          /\ UNCHANGED <<kv, day, history, ops>>
        BY <1>5 DEF ReadForDisconnect, Calls
    <2>2. CASE /\ info[work[w].user] # None
               /\ Continue(w, info[work[w].user].account, DisconnectSteps \o Rest(w))
               /\ UNCHANGED faults
        <3>1. info[work[w].user] \in Info /\ work[w].user \in authorised[info[work[w].user].account]
            BY <1>3, <2>1, <2>2, InfoIsOwn
        <3>2. info[work[w].user].account \in Account
            BY <3>1 DEF Info
        <3>3. QED
            BY <1>2, <1>3, <1>4, <2>1, <2>2, <3>1, <3>2 DEF history
    <2>3. CASE /\ Continue(w, None, <<Call("force")>> \o Rest(w))
               /\ faults' \in 0 .. MaxFaults
        <3>1. Tame(<<Call("force")>> \o Rest(w), None)
            BY <1>3, <2>1 DEF Function
        <3>2. QED
            BY <1>2, <1>4, <2>1, <2>3, <3>1 DEF history
    <2>4. QED
        BY <1>4, <1>5, <2>2, <2>3 DEF ReadForDisconnect
<1>6. CASE ReadForForce(w)
    <2>1. /\ work[w].steps # <<>> /\ Head(work[w].steps).do = "call"
          /\ UNCHANGED <<kv, day, history, ops>>
        BY <1>6 DEF ReadForForce, Calls
    <2>2. CASE /\ info[work[w].user] # None
               /\ Continue(w, info[work[w].user].account, ForceSteps(TRUE) \o Rest(w))
               /\ UNCHANGED faults
        <3>1. info[work[w].user] \in Info /\ work[w].user \in authorised[info[work[w].user].account]
            BY <1>3, <2>1, <2>2, InfoIsOwn
        <3>2. info[work[w].user].account \in Account
            BY <3>1 DEF Info
        <3>3. QED
            BY <1>2, <1>3, <1>4, <2>1, <2>2, <3>1, <3>2 DEF history
    <2>3. CASE /\ Continue(w, None, ForceSteps(FALSE) \o Rest(w))
               /\ faults' \in 0 .. MaxFaults
        BY <1>2, <1>3, <1>4, <2>1, <2>3 DEF history
    <2>4. QED
        BY <1>4, <1>6, <2>2, <2>3 DEF ReadForForce
<1>7. CASE PostToDo(w)
    <2>1. /\ work[w].steps # <<>> /\ Head(work[w].steps).do = "call"
          /\ UNCHANGED <<kv, day, authorised, overlap, ops, faults>>
        BY <1>7 DEF PostToDo, Calls
    <2>2. /\ reminded' \in [User -> [0 .. MaxDay -> Nat]]
          /\ told' \subseteq User /\ odd' \subseteq User /\ faults' \in 0 .. MaxFaults
        <3>1. \/ UNCHANGED reminded
              \/ reminded' = [reminded EXCEPT ![work[w].user][work[w].info.last] = @ + 1]
            BY <1>7 DEF PostToDo
        <3>2. reminded' \in [User -> [0 .. MaxDay -> Nat]]
            <4>1. ASSUME NEW f \in [0 .. MaxDay -> Nat], NEW d
                  PROVE  [f EXCEPT ![d] = f[d] + 1] \in [0 .. MaxDay -> Nat]
                <5>1. CASE d \in 0 .. MaxDay
                    BY <5>1
                <5>2. CASE d \notin 0 .. MaxDay
                    <6>1. [f EXCEPT ![d] = f[d] + 1] = f
                        BY <5>2
                    <6>2. QED
                        BY <6>1
                <5>3. QED
                    BY <5>1, <5>2
            <4>2. work[w].user \in User
                BY <1>3, <2>1
            <4>3. reminded[work[w].user] \in [0 .. MaxDay -> Nat]
                BY <1>4, <4>2
            <4>4. [reminded[work[w].user] EXCEPT ![work[w].info.last] = reminded[work[w].user][work[w].info.last] + 1]
                        \in [0 .. MaxDay -> Nat]
                BY <4>1, <4>3
            <4>5. QED
                BY <1>4, <3>1, <4>2, <4>4
        <3>3. told' \in {told, told \cup {work[w].user}} /\ odd' \in {odd, odd \cup {work[w].user}}
            BY <1>7 DEF PostToDo
        <3>4. told' \subseteq User /\ odd' \subseteq User
            BY <1>3, <1>4, <2>1, <3>3
        <3>5. QED
            BY <1>4, <2>1, <3>2, <3>4
    <2>3. CASE Continue(w, None, Rest(w))
        BY <1>2, <1>3, <2>1, <2>2, <2>3
    <2>4. CASE Continue(w, None, <<Call("disconnect")>> \o Rest(w))
        <3>1. Tame(<<Call("disconnect")>> \o Rest(w), None)
            BY <1>3, <2>1 DEF Function
        <3>2. QED
            BY <1>2, <2>1, <2>2, <2>4, <3>1
    <2>5. QED
        BY <1>7, <2>3, <2>4 DEF PostToDo
<1>8. CASE Die(w)
    <2>1. /\ work' = [work EXCEPT ![w] = Idle] /\ Fault
          /\ UNCHANGED <<kv, day, history, ops>>
        BY <1>8 DEF Die
    <2>2. Tame(Idle.steps, Idle.account) /\ Idle \in [user : User \cup {None}, info : Info \cup {None},
                account : Account \cup {None}, steps : Seq(Step)]
        BY DEF Idle, Tame
    <2>3. TypeOK'
        BY <1>0, <1>4, <2>1, <2>2 DEF TypeOK, kv, history
    <2>4. OwnWork'
        <3>1. \A v \in Worker : work'[v] = work[v] \/ work'[v] = Idle
            BY <1>0, <2>1 DEF TypeOK
        <3>2. QED
            BY <1>0, <2>1, <2>2, <3>1 DEF OwnWork, Idle, history
    <2>5. OwnAccountOnly'
        BY <1>0, <2>1 DEF OwnAccountOnly, kv, history
    <2>6. QED
        BY <2>3, <2>4, <2>5 DEF IInv
<1>9. QED
    BY <1>1, <1>5, <1>6, <1>7, <1>8 DEF Run

LEMMA NextKeeps == IInv /\ [Next]_vars => IInv'
<1> SUFFICES ASSUME IInv, [Next]_vars PROVE IInv'
    OBVIOUS
<1>1. CASE NextDay
    <2>1. TypeOK'
        BY <1>1, ConstantsAssumption DEF NextDay, IInv, TypeOK, kv, history
    <2>2. OwnWork' /\ OwnAccountOnly'
        BY <1>1 DEF NextDay, IInv, OwnWork, OwnAccountOnly, kv, history
    <2>3. QED
        BY <2>1, <2>2 DEF IInv
<1>2. CASE \E w \in Worker : Start(w) \/ Run(w)
    BY <1>2, StartKeeps, RunKeeps
<1>3. CASE UNCHANGED vars
    <2>1. TypeOK'
        BY <1>3 DEF vars, IInv, TypeOK, kv, history
    <2>2. OwnWork' /\ OwnAccountOnly'
        BY <1>3 DEF vars, IInv, OwnWork, OwnAccountOnly, kv, history
    <2>3. QED
        BY <2>1, <2>2 DEF IInv
<1>4. QED
    BY <1>1, <1>2, <1>3 DEF Next

\* Whatever goroutines do and whichever of them fail or die, what the plugin stores has
\* its type, and every goroutine holds only what its user is authorised for.
THEOREM Invariant == Spec => []IInv
BY InitKeeps, NextKeeps, PTL DEF Spec

\* The entries of the store and the goroutines have the types of the code's structures.
THEOREM TypeCorrect == Spec => []TypeOK
<1>1. IInv => TypeOK
    BY DEF IInv
<1>2. QED
    BY Invariant, <1>1, PTL

\* Notifications of a GitLab account go only to users who have authorised the plugin to
\* use that account: no interleaving of connections, disconnections, settings and
\* reminders, with any number of users and accounts, stores anything else.
THEOREM NotificationsAreOwn == Spec => []OwnAccountOnly
<1>1. IInv => OwnAccountOnly
    BY DEF IInv
<1>2. QED
    BY Invariant, <1>1, PTL

-----------------------------------------------------------------------------
(* The invariant of users for whom one goroutine is at work at a time *)

Puts(s, key) == \E k \in 1 .. Len(s) : s[k].do = "put" /\ s[k].key = key
Dels(s, key) == \E k \in 1 .. Len(s) : s[k].do = "del" /\ s[k].key = key

\* No entry is written twice, and there is no call.
Distinct(s) ==
    /\ \A k \in 1 .. Len(s) : s[k].do # "call"
    /\ \A j, k \in 1 .. Len(s) : s[j].key = s[k].key => j = k

\* The entries of a user agree: the info, whether there is a token, the accounts that are
\* mapped to the user, and the accounts with an ID.
Agree(i, t, N, I) ==
    /\ i # None <=> t
    /\ \A a \in Account : a \in N <=> i # None /\ i.account = a /\ i.notify
    /\ i # None => i.account \in I

Named(u) == {a \in Account : name[a] = u}
Agreed(u) == Agree(info[u], u \in token, Named(u), id)

\* What a goroutine leaves behind, if nothing fails and nobody else comes in between.
InfoAfter(w) ==
    IF Puts(work[w].steps, "info") THEN work[w].info
    ELSE IF Dels(work[w].steps, "info") THEN None ELSE info[work[w].user]
TokenAfter(w) ==
    Puts(work[w].steps, "token") \/ (work[w].user \in token /\ ~ Dels(work[w].steps, "token"))
NamedAfter(w) ==
    IF Puts(work[w].steps, "name") THEN Named(work[w].user) \cup {work[w].account}
    ELSE IF Dels(work[w].steps, "name") THEN Named(work[w].user) \ {work[w].account}
    ELSE Named(work[w].user)
IdAfter(w) ==
    IF Puts(work[w].steps, "id") THEN id \cup {work[w].account}
    ELSE IF Dels(work[w].steps, "id") THEN id \ {work[w].account} ELSE id

AgreeAfter(w) == Agree(InfoAfter(w), TokenAfter(w), NamedAfter(w), IdAfter(w))

\* The entries agree until the goroutine has decided on its writes; from then on, those that
\* it has made and those that are left lead to entries that agree.
Heading(w) ==
    LET s == work[w].steps  u == work[w].user IN
    IF s[1].do = "call"
    THEN /\ Agreed(u)
         /\ s[1].key # "todo" => Len(s) = 1
         /\ s[1].key = "todo" =>
                /\ s = <<Call("todo"), Put("info")>>
                /\ info[u] # None /\ work[w].info # None
                /\ work[w].info.account = info[u].account /\ work[w].info.notify = info[u].notify
    ELSE Distinct(s) /\ AgreeAfter(w)

\* Goroutines of a user follow one another.
AloneInv ==
    /\ \A w \in Worker : work[w].user # None => work[w].steps # <<>>
    /\ \A u \in User \ overlap : \A v, w \in Worker : work[v].user = u /\ work[w].user = u => v = w

\* An account has one user, or all its users are odd.
ExclusiveInv == \A a \in Account : \A u \in authorised[a] \ odd : authorised[a] = {u}

AgreeInv ==
    faults = 0 => \A u \in User \ (overlap \cup odd) :
        /\ ~ Busy(u) => Agreed(u)
        /\ \A w \in Worker : work[w].user = u => Heading(w)

\* No day of a reminder is after the time that is kept in info i.
Past(u, i) == i # None => \A d \in 0 .. MaxDay : reminded[u][d] > 0 => d <= i.last

Daily(u) == \A d \in 0 .. MaxDay : reminded[u][d] <= 1 /\ (reminded[u][d] > 0 => d <= day)

\* The time that will be kept is that of the info which the goroutine writes, or the stored
\* one; a reminder that is not posted yet is the first of its day.
Reminding(w) ==
    LET s == work[w].steps  u == work[w].user  i == work[w].info IN
    /\ IF Puts(s, "info") THEN i # None /\ Past(u, i) ELSE Past(u, info[u])
    /\ s[1].do = "call" /\ s[1].key = "todo" =>
            Puts(s, "info") /\ i.last <= day /\ reminded[u][i.last] = 0

RemindedInv ==
    faults = 0 => \A u \in User \ overlap :
        /\ Daily(u)
        /\ ~ Busy(u) => Past(u, info[u])
        /\ \A w \in Worker : work[w].user = u => Reminding(w)

OrderInv == IInv /\ AloneInv /\ ExclusiveInv /\ AgreeInv /\ RemindedInv

-----------------------------------------------------------------------------
(* What lists of steps write *)

\* A list writes what its first step and the others write.
LEMMA TailWrites ==
    ASSUME NEW s \in Seq(Step), s # <<>>
    PROVE  /\ \A k : Puts(s, k) <=> (s[1].do = "put" /\ s[1].key = k) \/ Puts(Tail(s), k)
           /\ \A k : Dels(s, k) <=> (s[1].do = "del" /\ s[1].key = k) \/ Dels(Tail(s), k)
           /\ Distinct(s) => /\ Distinct(Tail(s))
                             /\ ~ Puts(Tail(s), s[1].key) /\ ~ Dels(Tail(s), s[1].key)
<1>1. /\ Tail(s) \in Seq(Step) /\ Len(Tail(s)) = Len(s) - 1 /\ Len(s) \in Nat \ {0}
      /\ \A i \in 1 .. Len(Tail(s)) : Tail(s)[i] = s[i + 1]
    OBVIOUS
<1>2. \A i \in 2 .. Len(s) : i - 1 \in 1 .. Len(Tail(s)) /\ Tail(s)[i - 1] = s[i]
    BY <1>1
<1>3. \A i \in 1 .. Len(Tail(s)) : i + 1 \in 1 .. Len(s) /\ i + 1 # 1 /\ Tail(s)[i] = s[i + 1]
    BY <1>1
<1>4. \A i \in 1 .. Len(s) : i = 1 \/ i \in 2 .. Len(s)
    BY <1>1
<1>5. 1 \in 1 .. Len(s)
    BY <1>1
<1>6. ASSUME NEW k
      PROVE  Puts(s, k) <=> (s[1].do = "put" /\ s[1].key = k) \/ Puts(Tail(s), k)
    BY <1>2, <1>3, <1>4, <1>5 DEF Puts
<1>7. ASSUME NEW k
      PROVE  Dels(s, k) <=> (s[1].do = "del" /\ s[1].key = k) \/ Dels(Tail(s), k)
    BY <1>2, <1>3, <1>4, <1>5 DEF Dels
<1>8. ASSUME Distinct(s)
      PROVE  Distinct(Tail(s)) /\ ~ Puts(Tail(s), s[1].key) /\ ~ Dels(Tail(s), s[1].key)
    <2>1. Distinct(Tail(s))
        <3>1. ASSUME NEW j \in 1 .. Len(Tail(s)), NEW k \in 1 .. Len(Tail(s)),
                     Tail(s)[j].key = Tail(s)[k].key
              PROVE  j = k
            <4>1. j + 1 = k + 1
                BY <1>3, <1>8, <3>1 DEF Distinct
            <4>2. QED
                BY <4>1
        <3>2. QED
            BY <1>3, <1>8, <3>1 DEF Distinct
    <2>2. \A i \in 1 .. Len(Tail(s)) : Tail(s)[i].key # s[1].key
        BY <1>3, <1>5, <1>8 DEF Distinct
    <2>3. QED
        BY <2>1, <2>2 DEF Puts, Dels
<1>9. QED
    BY <1>6, <1>7, <1>8

\* A list that follows another writes what both write.
LEMMA JoinWrites ==
    ASSUME NEW s \in Seq(Step), NEW r \in Seq(Step), NEW k
    PROVE  /\ Puts(s \o r, k) <=> Puts(s, k) \/ Puts(r, k)
           /\ Dels(s \o r, k) <=> Dels(s, k) \/ Dels(r, k)
<1> DEFINE t == s \o r
<1>1. /\ Len(t) = Len(s) + Len(r) /\ Len(s) \in Nat /\ Len(r) \in Nat
      /\ \A i \in 1 .. Len(t) : t[i] = IF i <= Len(s) THEN s[i] ELSE r[i - Len(s)]
    OBVIOUS
<1> HIDE DEF t
<1>2. \A i \in 1 .. Len(s) : i \in 1 .. Len(t) /\ t[i] = s[i]
    BY <1>1
<1>3. \A i \in 1 .. Len(r) : i + Len(s) \in 1 .. Len(t) /\ t[i + Len(s)] = r[i]
    BY <1>1
<1>4. \A i \in 1 .. Len(t) : \/ i \in 1 .. Len(s) /\ t[i] = s[i]
                             \/ i - Len(s) \in 1 .. Len(r) /\ t[i] = r[i - Len(s)]
    BY <1>1
<1>5. ASSUME NEW do
      PROVE  (\E i \in 1 .. Len(t) : t[i].do = do /\ t[i].key = k)
                <=> \/ \E i \in 1 .. Len(s) : s[i].do = do /\ s[i].key = k
                    \/ \E i \in 1 .. Len(r) : r[i].do = do /\ r[i].key = k
    <2>1. ASSUME NEW i \in 1 .. Len(t), t[i].do = do /\ t[i].key = k
          PROVE  \/ \E j \in 1 .. Len(s) : s[j].do = do /\ s[j].key = k
                 \/ \E j \in 1 .. Len(r) : r[j].do = do /\ r[j].key = k
        BY <1>4, <2>1
    <2>2. ASSUME NEW i \in 1 .. Len(s), s[i].do = do /\ s[i].key = k
          PROVE  \E j \in 1 .. Len(t) : t[j].do = do /\ t[j].key = k
        BY <1>2, <2>2
    <2>3. ASSUME NEW i \in 1 .. Len(r), r[i].do = do /\ r[i].key = k
          PROVE  \E j \in 1 .. Len(t) : t[j].do = do /\ t[j].key = k
        BY <1>3, <2>3
    <2>4. QED
        BY <2>1, <2>2, <2>3
<1>6. /\ Puts(t, k) <=> Puts(s, k) \/ Puts(r, k)
      /\ Dels(t, k) <=> Dels(s, k) \/ Dels(r, k)
    BY <1>5 DEF Puts, Dels
<1>7. QED
    BY <1>6 DEF t

LEMMA NothingWrites == \A k : ~ Puts(<<>>, k) /\ ~ Dels(<<>>, k)
    BY DEF Puts, Dels

\* What the lists of the code write, each entry once.
LEMMA ConnectWrites ==
    /\ Distinct(ConnectSteps) /\ ConnectSteps[1].do # "call"
    /\ \A k \in Entry : Puts(ConnectSteps, k)
<1>1. /\ Len(ConnectSteps) = 4
      /\ ConnectSteps[1] = Must("info") /\ ConnectSteps[2] = Must("token")
      /\ ConnectSteps[3] = Put("name") /\ ConnectSteps[4] = Put("id")
    BY DEF ConnectSteps
<1>2. \A k \in Entry : Put(k).do = "put" /\ Put(k).key = k /\ Must(k).do = "put" /\ Must(k).key = k
    BY DEF Put, Must
<1>3. /\ ConnectSteps[1].key = "info" /\ ConnectSteps[2].key = "token"
      /\ ConnectSteps[3].key = "name" /\ ConnectSteps[4].key = "id"
      /\ \A k \in 1 .. 4 : ConnectSteps[k].do = "put"
    BY <1>1, <1>2 DEF Entry
<1>4. QED
    BY <1>1, <1>3 DEF Distinct, Puts, Entry

LEMMA DisconnectWrites ==
    /\ DisconnectSteps # <<>> /\ Distinct(DisconnectSteps) /\ DisconnectSteps[1].do # "call"
    /\ \A k \in Entry : Dels(DisconnectSteps, k) /\ ~ Puts(DisconnectSteps, k)
<1>1. /\ Len(DisconnectSteps) = 4
      /\ DisconnectSteps[1] = Del("info") /\ DisconnectSteps[2] = Del("token")
      /\ DisconnectSteps[3] = Del("name") /\ DisconnectSteps[4] = Del("id")
    BY DEF DisconnectSteps
<1>2. \A k \in Entry : Del(k).do = "del" /\ Del(k).key = k
    BY DEF Del
<1>3. /\ DisconnectSteps[1].key = "info" /\ DisconnectSteps[2].key = "token"
      /\ DisconnectSteps[3].key = "name" /\ DisconnectSteps[4].key = "id"
      /\ \A k \in 1 .. 4 : DisconnectSteps[k].do = "del"
    BY <1>1, <1>2 DEF Entry
<1>4. DisconnectSteps # <<>>
    BY DEF DisconnectSteps
<1>5. QED
    BY <1>1, <1>3, <1>4 DEF Distinct, Puts, Dels, Entry

LEMMA ForceWrites ==
    /\ ForceSteps(TRUE) # <<>> /\ Distinct(ForceSteps(TRUE)) /\ ForceSteps(TRUE)[1].do # "call"
    /\ \A k \in Entry : Dels(ForceSteps(TRUE), k) /\ ~ Puts(ForceSteps(TRUE), k)
    /\ ForceSteps(FALSE) # <<>> /\ Distinct(ForceSteps(FALSE)) /\ ForceSteps(FALSE)[1].do # "call"
    /\ \A k \in {"info", "token"} : Dels(ForceSteps(FALSE), k) /\ ~ Puts(ForceSteps(FALSE), k)
    /\ \A k \in {"name", "id"} : ~ Dels(ForceSteps(FALSE), k) /\ ~ Puts(ForceSteps(FALSE), k)
<1> DEFINE s == ForceSteps(TRUE)
           r == ForceSteps(FALSE)
<1>1. /\ Len(s) = 4 /\ Len(r) = 2 /\ s # <<>> /\ r # <<>>
      /\ s[1] = Del("token") /\ s[2] = Del("info") /\ s[3] = Del("name") /\ s[4] = Del("id")
      /\ r[1] = Del("token") /\ r[2] = Del("info")
    BY DEF ForceSteps
<1>2. \A k \in Entry : Del(k).do = "del" /\ Del(k).key = k
    BY DEF Del
<1> HIDE DEF s, r
<1>3. /\ s[1].key = "token" /\ s[2].key = "info" /\ s[3].key = "name" /\ s[4].key = "id"
      /\ \A k \in 1 .. 4 : s[k].do = "del"
      /\ r[1].key = "token" /\ r[2].key = "info"
      /\ \A k \in 1 .. 2 : r[k].do = "del"
    BY <1>1, <1>2 DEF Entry
<1>4. Distinct(s) /\ s[1].do # "call" /\ \A k \in Entry : Dels(s, k) /\ ~ Puts(s, k)
    BY <1>1, <1>3 DEF Distinct, Puts, Dels, Entry
<1>5. /\ Distinct(r) /\ r[1].do # "call"
      /\ \A k \in {"info", "token"} : Dels(r, k) /\ ~ Puts(r, k)
      /\ \A k \in {"name", "id"} : ~ Dels(r, k) /\ ~ Puts(r, k)
    BY <1>1, <1>3 DEF Distinct, Puts, Dels
<1>6. QED
    BY <1>1, <1>4, <1>5 DEF s, r

\* The settings write the info, and the mapping as it should be.
LEMMA NotificationsWrite ==
    /\ \A on \in BOOLEAN : /\ NotificationsSteps(on) # <<>> /\ NotificationsSteps(on)[1].do # "call"
                           /\ Distinct(NotificationsSteps(on))
                           /\ Puts(NotificationsSteps(on), "info")
                           /\ ~ Puts(NotificationsSteps(on), "token") /\ ~ Dels(NotificationsSteps(on), "token")
                           /\ ~ Dels(NotificationsSteps(on), "id")
    /\ Puts(NotificationsSteps(TRUE), "name")
    /\ ~ Puts(NotificationsSteps(FALSE), "name") /\ Dels(NotificationsSteps(FALSE), "name")
    /\ ~ Puts(NotificationsSteps(FALSE), "id")
<1> DEFINE s == NotificationsSteps(TRUE)
           r == NotificationsSteps(FALSE)
<1>1. /\ Len(s) = 3 /\ Len(r) = 2 /\ s # <<>> /\ r # <<>>
      /\ s[1] = Must("name") /\ s[2] = Must("id") /\ s[3] = Must("info")
      /\ r[1] = [Del("name") EXCEPT !.must = TRUE] /\ r[2] = Must("info")
    BY DEF NotificationsSteps
<1> HIDE DEF s, r
<1>2. /\ s[1].key = "name" /\ s[2].key = "id" /\ s[3].key = "info"
      /\ s[1].do = "put" /\ s[2].do = "put" /\ s[3].do = "put"
      /\ r[1].key = "name" /\ r[2].key = "info" /\ r[1].do = "del" /\ r[2].do = "put"
    BY <1>1 DEF Must, Del
<1>3. /\ Distinct(s) /\ s[1].do # "call" /\ Puts(s, "info") /\ Puts(s, "name")
      /\ ~ Puts(s, "token") /\ ~ Dels(s, "token") /\ ~ Dels(s, "id")
    <2>1. \A k \in 1 .. Len(s) : k = 1 \/ k = 2 \/ k = 3
        BY <1>1
    <2>2. Distinct(s) /\ s[1].do # "call"
        BY <1>2, <2>1 DEF Distinct
    <2>3. Puts(s, "info") /\ Puts(s, "name")
        BY <1>1, <1>2 DEF Puts
    <2>4. ~ Puts(s, "token") /\ ~ Dels(s, "token") /\ ~ Dels(s, "id")
        BY <1>2, <2>1 DEF Puts, Dels
    <2>5. QED
        BY <2>2, <2>3, <2>4
<1>4. /\ Distinct(r) /\ r[1].do # "call" /\ Puts(r, "info") /\ ~ Puts(r, "name") /\ Dels(r, "name")
      /\ ~ Puts(r, "token") /\ ~ Dels(r, "token") /\ ~ Puts(r, "id") /\ ~ Dels(r, "id")
    <2>1. \A k \in 1 .. Len(r) : k = 1 \/ k = 2
        BY <1>1
    <2>2. Distinct(r) /\ r[1].do # "call"
        BY <1>2, <2>1 DEF Distinct
    <2>3. Puts(r, "info") /\ Dels(r, "name")
        <3>1. 1 \in 1 .. Len(r) /\ 2 \in 1 .. Len(r)
            BY <1>1
        <3>2. QED
            BY <1>2, <3>1 DEF Puts, Dels
    <2>4. /\ ~ Puts(r, "name") /\ ~ Puts(r, "token") /\ ~ Dels(r, "token")
          /\ ~ Puts(r, "id") /\ ~ Dels(r, "id")
        BY <1>2, <2>1 DEF Puts, Dels
    <2>5. QED
        BY <2>2, <2>3, <2>4
<1>5. \A on \in BOOLEAN : on = TRUE \/ on = FALSE
    OBVIOUS
<1>6. QED
    BY <1>1, <1>3, <1>4, <1>5 DEF s, r

\* Everything else writes the info alone.
LEMMA InfoWrites ==
    ASSUME NEW s, s = <<Must("info")>> \/ s = <<Put("info")>>
    PROVE  /\ s[1].do # "call" /\ Distinct(s) /\ Puts(s, "info")
           /\ \A k \in Entry \ {"info"} : ~ Puts(s, k) /\ ~ Dels(s, k)
<1>1. Len(s) = 1 /\ s[1].do = "put" /\ s[1].key = "info"
    BY DEF Must, Put
<1>2. QED
    BY <1>1 DEF Distinct, Puts, Dels, Entry

LEMMA CallWrites ==
    ASSUME NEW f \in Function
    PROVE  \A k : ~ Puts(<<Call(f)>>, k) /\ ~ Dels(<<Call(f)>>, k)
<1>1. Len(<<Call(f)>>) = 1 /\ <<Call(f)>>[1].do = "call"
    BY DEF Call
<1>2. QED
    BY <1>1 DEF Puts, Dels

LEMMA TodoWrites ==
    LET s == <<Call("todo"), Put("info")>> IN
    s[1].do = "call" /\ s[1].key = "todo" /\ Puts(s, "info") /\ Tail(s) = <<Put("info")>>
<1> DEFINE s == <<Call("todo"), Put("info")>>
<1>1. Len(s) = 2 /\ s[1].do = "call" /\ s[1].key = "todo" /\ s[2].do = "put" /\ s[2].key = "info"
    BY DEF Call, Put
<1>2. Tail(s) = <<Put("info")>>
    OBVIOUS
<1>3. QED
    BY <1>1, <1>2 DEF Puts

-----------------------------------------------------------------------------
(* Entries that agree *)

\* What is done for others leaves a user's entries as they are, and what they lead to.
LEMMA ElsewhereAgrees ==
    ASSUME IInv, NEW u \in User,
           info'[u] = info[u], u \in token' <=> u \in token, Named(u)' = Named(u),
           \A b \in Account : u \in authorised[b] => (b \in id' <=> b \in id)
    PROVE  /\ Agreed(u) => Agreed(u)'
           /\ \A w \in Worker : work[w].user = u /\ work'[w] = work[w] /\ Heading(w) => Heading(w)'
<1>1. info[u] # None => info[u].account \in Account /\ u \in authorised[info[u].account]
    BY DEF IInv, TypeOK, Info, OwnAccountOnly
<1>2. Agreed(u) => Agreed(u)'
    BY <1>1 DEF Agreed, Agree
<1>3. ASSUME NEW w \in Worker, work[w].user = u, work'[w] = work[w], Heading(w)
      PROVE  Heading(w)'
    <2>1. CASE work[w].steps[1].do = "call"
        BY <1>2, <1>3, <2>1 DEF Heading
    <2>2. CASE work[w].steps[1].do # "call"
        <3>1. work[w].info # None => work[w].info.account \in Account /\ u \in authorised[work[w].info.account]
            BY <1>3 DEF IInv, TypeOK, Info, OwnWork
        <3>2. InfoAfter(w) # None => InfoAfter(w).account \in Account /\ u \in authorised[InfoAfter(w).account]
            BY <1>1, <1>3, <3>1 DEF InfoAfter
        <3>3. InfoAfter(w)' = InfoAfter(w)
            BY <1>3 DEF InfoAfter
        <3>4. TokenAfter(w)' <=> TokenAfter(w)
            BY <1>3 DEF TokenAfter
        <3>5. NamedAfter(w)' = NamedAfter(w)
            BY <1>3 DEF NamedAfter
        <3>6. \A b \in Account : u \in authorised[b] => (b \in IdAfter(w)' <=> b \in IdAfter(w))
            BY <1>3 DEF IdAfter
        <3>7. Distinct(work[w].steps) /\ AgreeAfter(w)
            BY <1>3, <2>2 DEF Heading
        <3>8. AgreeAfter(w)'
            BY <3>2, <3>3, <3>4, <3>5, <3>6, <3>7 DEF AgreeAfter, Agree
        <3>9. QED
            BY <1>3, <2>2, <3>7, <3>8 DEF Heading
    <2>3. QED
        BY <2>1, <2>2
<1>4. QED
    BY <1>2, <1>3

\* A goroutine starts for a user for whom nothing is under way.
LEMMA BeginAgrees ==
    ASSUME OrderInv, NEW w \in Worker, NEW u \in User, NEW i, NEW a, NEW steps,
           Begin(w, u, i, a, steps), odd \subseteq odd',
           faults = 0 /\ u \notin odd' /\ Agreed(u) => Heading(w)'
    PROVE  AgreeInv'
<1>1. /\ IInv /\ AgreeInv
      /\ faults' = faults /\ UNCHANGED <<info, token, name, id>>
      /\ overlap \subseteq overlap' /\ (Busy(u) => u \in overlap')
      /\ work'[w].user = u /\ \A v \in Worker \ {w} : work'[v] = work[v]
    BY DEF OrderInv, IInv, TypeOK, Begin, kv
<1>2. work[w].user = None /\ None \notin User
    BY ConstantsAssumption DEF Begin, Idle
<1>3. SUFFICES ASSUME faults' = 0, NEW x \in User, x \notin overlap', x \notin odd'
               PROVE  /\ ~ Busy(x)' => Agreed(x)'
                      /\ \A v \in Worker : work'[v].user = x => Heading(v)'
    BY DEF AgreeInv
<1>4. /\ ~ Busy(x) => Agreed(x)
      /\ \A v \in Worker : work[v].user = x => Heading(v)
    BY <1>1, <1>3 DEF AgreeInv
<1>5. Named(x)' = Named(x)
    BY <1>1 DEF Named
<1>6. /\ Agreed(x) => Agreed(x)'
      /\ \A v \in Worker : work[v].user = x /\ work'[v] = work[v] /\ Heading(v) => Heading(v)'
    BY <1>1, <1>5, ElsewhereAgrees
<1>7. CASE x = u
    <2>1. ~ Busy(u)
        BY <1>1, <1>3, <1>7
    <2>2. Heading(w)'
        BY <1>1, <1>3, <1>4, <1>7, <2>1
    <2>3. Busy(u)'
        BY <1>1 DEF Busy
    <2>4. \A v \in Worker : work'[v].user = u => v = w
        BY <1>1, <2>1 DEF Busy
    <2>5. QED
        BY <1>7, <2>2, <2>3, <2>4
<1>8. CASE x # u
    <2>1. ~ Busy(x)' => ~ Busy(x)
        BY <1>1, <1>2 DEF Busy
    <2>2. \A v \in Worker : work'[v].user = x => v # w
        BY <1>1, <1>8
    <2>3. QED
        BY <1>1, <1>4, <1>6, <2>1, <2>2
<1>9. QED
    BY <1>7, <1>8

\* A goroutine goes on: it may write its own user's entries.
LEMMA StepAgrees ==
    ASSUME OrderInv, NEW w \in Worker, NEW u \in User, work[w].user = u,
           odd \subseteq odd', overlap \subseteq overlap', faults' = 0 => faults = 0,
           \A v \in Worker \ {w} : work'[v] = work[v],
           work'[w] = Idle \/ work'[w].user = u,
           \A x \in User \ (odd \cup {u}) :
                /\ info'[x] = info[x] /\ (x \in token' <=> x \in token) /\ Named(x)' = Named(x)
                /\ \A b \in Account : x \in authorised[b] => (b \in id' <=> b \in id),
           faults' = 0 /\ u \notin odd' /\ Heading(w) =>
                IF work'[w] = Idle THEN Agreed(u)' ELSE Heading(w)'
    PROVE  AgreeInv'
<1>1. IInv /\ AgreeInv /\ AloneInv
    BY DEF OrderInv
<1>2. Idle.user = None /\ None \notin User
    BY ConstantsAssumption DEF Idle
<1>3. SUFFICES ASSUME faults' = 0, NEW x \in User, x \notin overlap', x \notin odd'
               PROVE  /\ ~ Busy(x)' => Agreed(x)'
                      /\ \A v \in Worker : work'[v].user = x => Heading(v)'
    BY DEF AgreeInv
<1>4. /\ ~ Busy(x) => Agreed(x)
      /\ \A v \in Worker : work[v].user = x => Heading(v)
    BY <1>1, <1>3 DEF AgreeInv
<1>5. CASE x = u
    <2>1. \A v \in Worker : work[v].user = u => v = w
        BY <1>1, <1>3, <1>5 DEF AloneInv
    <2>2. \A v \in Worker : work'[v].user = u => v = w
        BY <2>1
    <2>3. IF work'[w] = Idle THEN Agreed(u)' ELSE Heading(w)'
        BY <1>3, <1>4, <1>5
    <2>4. ~ Busy(u)' => work'[w] = Idle
        BY DEF Busy
    <2>5. QED
        BY <1>2, <1>5, <2>2, <2>3, <2>4
<1>6. CASE x # u
    <2>1. /\ Agreed(x) => Agreed(x)'
          /\ \A v \in Worker : work[v].user = x /\ work'[v] = work[v] /\ Heading(v) => Heading(v)'
        <3>1. /\ info'[x] = info[x] /\ (x \in token' <=> x \in token) /\ Named(x)' = Named(x)
              /\ \A b \in Account : x \in authorised[b] => (b \in id' <=> b \in id)
            BY <1>3, <1>6
        <3>2. QED
            BY <1>1, <3>1, ElsewhereAgrees
    <2>2. \A v \in Worker : work'[v].user = x => v # w
        BY <1>2, <1>6
    <2>3. ~ Busy(x)' => ~ Busy(x)
        BY <1>6 DEF Busy
    <2>4. QED
        BY <1>4, <2>1, <2>2, <2>3
<1>7. QED
    BY <1>5, <1>6

\* The mappings that a goroutine writes are those of its user's accounts, which no other user
\* has that is not odd.
LEMMA PerformElsewhere ==
    ASSUME OrderInv, NEW w \in Worker, Perform(w), NEW x \in User \ odd, x # work[w].user
    PROVE  /\ info'[x] = info[x] /\ (x \in token' <=> x \in token) /\ Named(x)' = Named(x)
           /\ \A b \in Account : x \in authorised[b] => (b \in id' <=> b \in id)
<1> DEFINE s == Head(work[w].steps)
           u == work[w].user
           a == work[w].account
<1>1. CASE UNCHANGED kv
    BY <1>1 DEF kv, Named
<1>2. CASE /\ info' = IF s.key = "info"
                      THEN [info EXCEPT ![u] = IF s.do = "put" THEN work[w].info ELSE None] ELSE info
           /\ token' = IF s.key # "token" THEN token
                       ELSE IF s.do = "put" THEN token \cup {u} ELSE token \ {u}
           /\ name' = IF s.key = "name" THEN [name EXCEPT ![a] = IF s.do = "put" THEN u ELSE None] ELSE name
           /\ id' = IF s.key # "id" THEN id ELSE IF s.do = "put" THEN id \cup {a} ELSE id \ {a}
    <2>1. /\ work[w].steps # <<>> /\ s.do # "call"
          /\ Tame(work[w].steps, a) /\ u \in User
          /\ a # None => u \in authorised[a]
        BY DEF Perform, OrderInv, IInv, OwnWork
    <2>2. s.key \in {"name", "id"} => a \in Account /\ a # None
        BY <2>1, ConstantsAssumption DEF Tame
    <2>3. s.key \in {"name", "id"} => x \notin authorised[a]
        BY <2>1, <2>2 DEF OrderInv, ExclusiveInv
    <2>4. info'[x] = info[x]
        BY <1>2, <2>1 DEF OrderInv, IInv, TypeOK
    <2>5. x \in token' <=> x \in token
        BY <1>2
    <2>6. \A b \in Account : x \in authorised[b] => (b \in id' <=> b \in id)
        BY <1>2, <2>3
    <2>7. \A b \in Account : name'[b] = x <=> name[b] = x
        <3>1. CASE s.key # "name"
            BY <1>2, <3>1
        <3>2. CASE s.key = "name"
            <4>1. a \in Account /\ x \notin authorised[a]
                BY <2>2, <2>3, <3>2
            <4>2. name[a] # x
                BY <4>1, ConstantsAssumption DEF OrderInv, IInv, OwnAccountOnly
            <4>3. name' = [name EXCEPT ![a] = IF s.do = "put" THEN u ELSE None]
                BY <1>2, <3>2
            <4>4. name'[a] # x
                BY <4>1, <4>3, ConstantsAssumption DEF OrderInv, IInv, TypeOK
            <4>5. \A b \in Account \ {a} : name'[b] = name[b]
                BY <4>3 DEF OrderInv, IInv, TypeOK
            <4>6. QED
                BY <4>2, <4>4, <4>5
        <3>3. QED
            BY <3>1, <3>2
    <2>8. QED
        BY <2>4, <2>5, <2>6, <2>7 DEF Named
<1>3. QED
    BY <1>1, <1>2 DEF Perform

\* A write is one of those that lead to entries that agree.
LEMMA PerformOwn ==
    ASSUME IInv, NEW w \in Worker, Perform(w), faults' = 0, Heading(w),
           NEW u, u = work[w].user
    PROVE  IF work'[w] = Idle THEN Agreed(u)' ELSE Heading(w)'
<1> DEFINE all == work[w].steps
           s == Head(all)
           a == work[w].account
           i == work[w].info
           put == s.do = "put"
<1>1. /\ all \in Seq(Step) /\ all # <<>> /\ s = all[1] /\ s.do # "call" /\ s \in Step
      /\ u \in User /\ faults \in Nat
      /\ s.key \in {"name", "id"} => a \in Account
    <2>1. Tame(all, a) /\ all # <<>> /\ u \in User
        BY DEF Perform, IInv, OwnWork
    <2>2. s = all[1] /\ 1 \in 1 .. Len(all) /\ s \in Step
        BY <2>1 DEF Tame
    <2>3. QED
        BY <2>1, <2>2, ConstantsAssumption DEF Perform, IInv, TypeOK, Tame
<1>2. /\ info' = IF s.key = "info" THEN [info EXCEPT ![u] = IF put THEN i ELSE None] ELSE info
      /\ token' = IF s.key # "token" THEN token ELSE IF put THEN token \cup {u} ELSE token \ {u}
      /\ name' = IF s.key = "name" THEN [name EXCEPT ![a] = IF put THEN u ELSE None] ELSE name
      /\ id' = IF s.key # "id" THEN id ELSE IF put THEN id \cup {a} ELSE id \ {a}
      /\ Continue(w, a, Tail(all))
    BY <1>1 DEF Perform, Fault, Rest
<1>3. /\ \A k : Puts(all, k) <=> (put /\ s.key = k) \/ Puts(Tail(all), k)
      /\ \A k : Dels(all, k) <=> (s.do = "del" /\ s.key = k) \/ Dels(Tail(all), k)
      /\ Distinct(all) => /\ Distinct(Tail(all))
                          /\ ~ Puts(Tail(all), s.key) /\ ~ Dels(Tail(all), s.key)
    BY <1>1, TailWrites
<1>4. Distinct(all) /\ AgreeAfter(w)
    BY <1>1 DEF Heading
<1>5. s.do = "put" \/ s.do = "del"
    BY <1>1 DEF Step
<1> DEFINE t == Tail(all)
<1>6. InfoAfter(w) = IF Puts(t, "info") THEN i ELSE IF Dels(t, "info") THEN None ELSE info'[u]
    <2>1. info[u] = info[u] /\ info \in [User -> Info \cup {None}]
        BY DEF IInv, TypeOK
    <2>2. CASE s.key = "info"
        BY <1>1, <1>2, <1>3, <1>4, <1>5, <2>1, <2>2 DEF InfoAfter
    <2>3. CASE s.key # "info"
        BY <1>2, <1>3, <2>3 DEF InfoAfter
    <2>4. QED
        BY <2>2, <2>3
<1>7. TokenAfter(w) <=> Puts(t, "token") \/ (u \in token' /\ ~ Dels(t, "token"))
    BY <1>2, <1>3, <1>4, <1>5 DEF TokenAfter
<1>8. NamedAfter(w) = IF Puts(t, "name") THEN Named(u)' \cup {a}
                      ELSE IF Dels(t, "name") THEN Named(u)' \ {a} ELSE Named(u)'
    <2>1. CASE s.key = "name"
        <3>1. name' = [name EXCEPT ![a] = IF put THEN u ELSE None] /\ a \in Account
            BY <1>1, <1>2, <2>1
        <3>2. Named(u)' = IF put THEN Named(u) \cup {a} ELSE Named(u) \ {a}
            BY <1>1, <3>1, ConstantsAssumption DEF Named, IInv, TypeOK
        <3>3. QED
            BY <1>3, <1>4, <1>5, <2>1, <3>2 DEF NamedAfter
    <2>2. CASE s.key # "name"
        <3>1. Named(u)' = Named(u)
            BY <1>2, <2>2 DEF Named
        <3>2. QED
            BY <1>3, <2>2, <3>1 DEF NamedAfter
    <2>3. QED
        BY <2>1, <2>2
<1>9. IdAfter(w) = IF Puts(t, "id") THEN id' \cup {a} ELSE IF Dels(t, "id") THEN id' \ {a} ELSE id'
    <2>1. CASE s.key = "id"
        BY <1>2, <1>3, <1>4, <1>5, <2>1 DEF IdAfter
    <2>2. CASE s.key # "id"
        BY <1>2, <1>3, <2>2 DEF IdAfter
    <2>3. QED
        BY <2>1, <2>2
<1>10. CASE t = <<>>
    <2>1. work'[w] = Idle
        BY <1>2, <1>10 DEF IInv, TypeOK, Continue
    <2>2. Agreed(u)'
        <3>1. /\ InfoAfter(w) = info'[u] /\ (TokenAfter(w) <=> u \in token')
              /\ NamedAfter(w) = Named(u)' /\ IdAfter(w) = id'
            BY <1>6, <1>7, <1>8, <1>9, <1>10, NothingWrites
        <3>2. Agree(info'[u], u \in token', Named(u)', id')
            BY <1>4, <3>1 DEF AgreeAfter, Agree
        <3>3. QED
            BY <3>2 DEF Agreed
    <2>3. QED
        BY <2>1, <2>2
<1>11. CASE t # <<>>
    <2>1. /\ work'[w].user = u /\ work'[w].info = i /\ work'[w].account = a
          /\ work'[w].steps = t /\ work'[w] # Idle
        BY <1>2, <1>11 DEF IInv, TypeOK, Continue, Idle
    <2>2. t[1].do # "call"
        <3>1. t \in Seq(Step) /\ 1 \in 1 .. Len(t)
            BY <1>1, <1>11
        <3>2. QED
            BY <1>3, <1>4, <3>1 DEF Distinct
    <2>3. /\ InfoAfter(w)' = InfoAfter(w) /\ (TokenAfter(w)' <=> TokenAfter(w))
          /\ NamedAfter(w)' = NamedAfter(w) /\ IdAfter(w)' = IdAfter(w)
        BY <1>6, <1>7, <1>8, <1>9, <2>1 DEF InfoAfter, TokenAfter, NamedAfter, IdAfter
    <2>4. AgreeAfter(w)'
        BY <1>4, <2>3 DEF AgreeAfter, Agree
    <2>5. QED
        BY <1>3, <1>4, <2>1, <2>2, <2>4 DEF Heading
<1>12. QED
    BY <1>10, <1>11

\* What the continuation of a goroutine shows of it.
LEMMA Goes ==
    ASSUME TypeOK, NEW w \in Worker, NEW a, NEW steps, Continue(w, a, steps)
    PROVE  /\ \A v \in Worker \ {w} : work'[v] = work[v]
           /\ steps = <<>> => work'[w] = Idle
           /\ steps # <<>> => /\ work'[w].user = work[w].user /\ work'[w].info = work[w].info
                              /\ work'[w].account = a /\ work'[w].steps = steps
                              /\ work'[w] # Idle
BY DEF TypeOK, Continue, Idle

\* A disconnection that has read the info deletes what is there, and one that finds none
\* has nothing to delete.
LEMMA ReadOwn ==
    ASSUME IInv, NEW w \in Worker, ReadForDisconnect(w) \/ ReadForForce(w), faults' = 0, Heading(w),
           NEW u, u = work[w].user
    PROVE  work'[w] # Idle /\ Heading(w)'
<1>1. /\ TypeOK /\ u \in User /\ faults \in Nat
      /\ work[w].steps \in Seq(Step) /\ work[w].steps # <<>>
      /\ work[w].steps[1].do = "call" /\ work[w].steps[1].key # "todo"
      /\ UNCHANGED kv
    <2>1. work[w].steps # <<>> /\ work[w].steps \in Seq(Step) /\ TypeOK
        BY DEF ReadForDisconnect, ReadForForce, Calls, IInv, TypeOK
    <2>2. Head(work[w].steps) = work[w].steps[1]
        BY <2>1
    <2>3. /\ Head(work[w].steps).do = "call" /\ Head(work[w].steps).key # "todo"
          /\ UNCHANGED kv
        BY DEF ReadForDisconnect, ReadForForce, Calls
    <2>4. QED
        BY <2>1, <2>2, <2>3, ConstantsAssumption DEF IInv, OwnWork, TypeOK
<1>2. Agreed(u) /\ Rest(w) = <<>>
    <2>1. Len(work[w].steps) = 1 /\ Agreed(u)
        BY <1>1 DEF Heading
    <2>2. \A s \in Seq(Step) : Len(s) = 1 => Tail(s) = <<>>
        <3>1. \A s \in Seq(Step) : Len(s) = 1 => Tail(s) \in Seq(Step) /\ Len(Tail(s)) = 0
            OBVIOUS
        <3>2. QED
            BY <3>1, EmptySeq
    <2>3. QED
        BY <1>1, <2>1, <2>2 DEF Rest
<1>3. info' = info /\ token' = token /\ Named(u)' = Named(u) /\ id' = id
    BY <1>1 DEF kv, Named
<1>4. ASSUME NEW steps, Continue(w, info[u].account, steps), steps # <<>>, info[u] # None,
             Distinct(steps), steps[1].do # "call",
             \A k \in Entry : Dels(steps, k) /\ ~ Puts(steps, k)
      PROVE  work'[w] # Idle /\ Heading(w)'
    <2>1. /\ work'[w].user = u /\ work'[w].account = info[u].account /\ work'[w].steps = steps
          /\ work'[w] # Idle
        BY <1>1, <1>4, Goes
    <2>2. /\ InfoAfter(w)' = None /\ ~ TokenAfter(w)'
          /\ NamedAfter(w)' = Named(u) \ {info[u].account}
        BY <1>3, <1>4, <2>1 DEF InfoAfter, TokenAfter, NamedAfter, Entry
    <2>3. \A b \in Account : b \notin NamedAfter(w)'
        BY <1>2, <2>2 DEF Agreed, Agree
    <2>4. AgreeAfter(w)'
        BY <2>2, <2>3 DEF AgreeAfter, Agree
    <2>5. QED
        BY <1>4, <2>1, <2>4 DEF Heading
<1>5. ASSUME Continue(w, None, ForceSteps(FALSE)), info[u] = None
      PROVE  work'[w] # Idle /\ Heading(w)'
    <2>1. /\ work'[w].user = u /\ work'[w].steps = ForceSteps(FALSE) /\ work'[w] # Idle
        BY <1>1, <1>5, Goes, ForceWrites
    <2>2. /\ InfoAfter(w)' = None /\ ~ TokenAfter(w)'
          /\ NamedAfter(w)' = Named(u)
        BY <1>3, <1>5, <2>1, ForceWrites DEF InfoAfter, TokenAfter, NamedAfter
    <2>3. AgreeAfter(w)'
        BY <1>2, <1>5, <2>2 DEF AgreeAfter, Agree, Agreed
    <2>4. QED
        BY <2>1, <2>3, ForceWrites DEF Heading
<1>6. ASSUME Continue(w, None, <<Call("force")>>), info[u] = None
      PROVE  work'[w] # Idle /\ Heading(w)'
    <2>1. /\ work'[w].user = u /\ work'[w].steps = <<Call("force")>> /\ work'[w] # Idle
        <3>1. <<Call("force")>> # <<>>
            OBVIOUS
        <3>2. QED
            BY <1>1, <1>6, <3>1, Goes
    <2>2. Agreed(u)'
        BY <1>2, <1>3 DEF Agreed
    <2>3. /\ <<Call("force")>>[1].do = "call" /\ <<Call("force")>>[1].key = "force"
          /\ Len(<<Call("force")>>) = 1
        BY DEF Call
    <2>4. QED
        BY <2>1, <2>2, <2>3 DEF Heading
<1>7. \A s \in Seq(Step) : s \o <<>> = s
    OBVIOUS
<1>8. CASE ReadForDisconnect(w)
    <2>1. \/ info[u] # None /\ Continue(w, info[u].account, DisconnectSteps \o Rest(w))
          \/ info[u] = None /\ Continue(w, None, <<Call("force")>> \o Rest(w))
        BY <1>1, <1>8 DEF ReadForDisconnect, Fault
    <2>2. <<Call("force")>> \in Seq(Step)
        BY DEF Call, Step, Function
    <2>3. QED
        BY <1>2, <1>4, <1>6, <1>7, <2>1, <2>2, StepsAre, DisconnectWrites
<1>9. CASE ReadForForce(w)
    <2>1. \/ info[u] # None /\ Continue(w, info[u].account, ForceSteps(TRUE) \o Rest(w))
          \/ info[u] = None /\ Continue(w, None, ForceSteps(FALSE) \o Rest(w))
          \/ Fault
        BY <1>9, Zenon DEF ReadForForce
    <2>2. ~ Fault
        BY <1>1 DEF Fault
    <2>3. QED
        BY <1>2, <1>4, <1>5, <1>7, <2>1, <2>2, StepsAre, ForceWrites
<1>10. QED
    BY <1>8, <1>9

\* The reminder goes on to write the info that it has read.
LEMMA TodoOwn ==
    ASSUME IInv, NEW w \in Worker, PostToDo(w), Heading(w),
           NEW u, u = work[w].user, u \notin odd'
    PROVE  work'[w] # Idle /\ Heading(w)'
<1>1. /\ TypeOK /\ work[w].steps \in Seq(Step) /\ work[w].steps # <<>>
      /\ work[w].steps[1].do = "call" /\ work[w].steps[1].key = "todo"
      /\ UNCHANGED kv
    <2>1. work[w].steps # <<>> /\ work[w].steps \in Seq(Step) /\ TypeOK
        BY DEF PostToDo, Calls, IInv, TypeOK
    <2>2. Head(work[w].steps) = work[w].steps[1]
        BY <2>1
    <2>3. QED
        BY <2>1, <2>2 DEF PostToDo, Calls
<1>2. Continue(w, None, Rest(w))
    BY DEF PostToDo
<1>3. /\ Agreed(u) /\ work[w].steps = <<Call("todo"), Put("info")>>
      /\ info[u] # None /\ work[w].info # None
      /\ work[w].info.account = info[u].account /\ work[w].info.notify = info[u].notify
    BY <1>1 DEF Heading
<1>4. Rest(w) = <<Put("info")>> /\ <<Put("info")>> # <<>>
    BY <1>3, TodoWrites DEF Rest
<1>5. /\ work'[w].user = u /\ work'[w].info = work[w].info /\ work'[w].steps = <<Put("info")>>
      /\ work'[w] # Idle
    BY <1>1, <1>2, <1>4, Goes
<1>6. info' = info /\ token' = token /\ Named(u)' = Named(u) /\ id' = id
    BY <1>1 DEF kv, Named
<1>7. /\ <<Put("info")>>[1].do # "call" /\ Distinct(<<Put("info")>>) /\ Puts(<<Put("info")>>, "info")
      /\ \A k \in Entry \ {"info"} : ~ Puts(<<Put("info")>>, k) /\ ~ Dels(<<Put("info")>>, k)
    BY InfoWrites
<1>8. /\ InfoAfter(w)' = work[w].info /\ (TokenAfter(w)' <=> u \in token)
      /\ NamedAfter(w)' = Named(u) /\ IdAfter(w)' = id
    BY <1>5, <1>6, <1>7 DEF InfoAfter, TokenAfter, NamedAfter, IdAfter, Entry
<1>9. AgreeAfter(w)'
    BY <1>3, <1>8 DEF AgreeAfter, Agree, Agreed
<1>10. QED
    BY <1>5, <1>7, <1>9 DEF Heading

-----------------------------------------------------------------------------
(* What goroutines set out to do *)

\* The state of a goroutine that has just started.
LEMMA BeginIs ==
    ASSUME IInv, NEW w \in Worker, NEW u, NEW i, NEW a, NEW steps, Begin(w, u, i, a, steps)
    PROVE  /\ work'[w].user = u /\ work'[w].info = i /\ work'[w].account = a /\ work'[w].steps = steps
           /\ UNCHANGED <<info, token, name, id, day, reminded, faults>>
           /\ Named(u)' = Named(u)
BY DEF IInv, TypeOK, Begin, kv, Named

LEMMA ConnectHeads ==
    ASSUME IInv, NEW w \in Worker, NEW u \in User, NEW a \in Account,
           Begin(w, u, NewInfo(a), a, ConnectSteps),
           Agreed(u), \A b \in Account \ {a} : name[b] # u
    PROVE  Heading(w)'
<1>1. /\ work'[w].user = u /\ work'[w].info = NewInfo(a) /\ work'[w].account = a
      /\ work'[w].steps = ConnectSteps
      /\ UNCHANGED <<info, token, name, id>> /\ Named(u)' = Named(u)
    BY BeginIs
<1>2. /\ InfoAfter(w)' = NewInfo(a) /\ TokenAfter(w)' /\ NamedAfter(w)' = Named(u) \cup {a}
      /\ IdAfter(w)' = id \cup {a}
    BY <1>1, ConnectWrites DEF InfoAfter, TokenAfter, NamedAfter, IdAfter, Entry
<1>3. NewInfo(a) # None /\ NewInfo(a).account = a /\ NewInfo(a).notify = TRUE
    <2>1. day \in 0 .. MaxDay
        BY DEF IInv, TypeOK
    <2>2. NewInfo(a) \in Info
        BY <2>1 DEF NewInfo, Info
    <2>3. NewInfo(a).account = a /\ NewInfo(a).notify = TRUE
        BY DEF NewInfo
    <2>4. QED
        BY <2>2, <2>3, ConstantsAssumption
<1>4. \A b \in Account : b \in NamedAfter(w)' <=> b = a
    BY <1>2 DEF Named
<1>5. AgreeAfter(w)'
    BY <1>2, <1>3, <1>4 DEF AgreeAfter, Agree
<1>6. QED
    BY <1>1, <1>5, ConnectWrites DEF Heading

LEMMA CallHeads ==
    ASSUME IInv, NEW w \in Worker, NEW u \in User, NEW f \in {"disconnect", "force"},
           Begin(w, u, None, None, <<Call(f)>>),
           Agreed(u)
    PROVE  Heading(w)'
<1>1. /\ work'[w].user = u /\ work'[w].steps = <<Call(f)>>
      /\ UNCHANGED <<info, token, name, id>> /\ Named(u)' = Named(u)
    BY BeginIs
<1>2. <<Call(f)>>[1].do = "call" /\ <<Call(f)>>[1].key = f /\ Len(<<Call(f)>>) = 1
    BY DEF Call
<1>3. Agreed(u)'
    BY <1>1 DEF Agreed
<1>4. QED
    BY <1>1, <1>2, <1>3 DEF Heading

\* The command writes the mapping that the setting asks for.
LEMMA NotificationsHead ==
    ASSUME IInv, NEW w \in Worker, NEW u \in User, NEW on \in BOOLEAN, info[u] # None,
           Begin(w, u, [info[u] EXCEPT !.notify = on], info[u].account, NotificationsSteps(on)),
           Agreed(u)
    PROVE  Heading(w)'
<1> DEFINE i == [info[u] EXCEPT !.notify = on]
           a == info[u].account
<1>1. i \in Info /\ i.account = a /\ i.notify = on /\ a \in Account
    BY DEF IInv, TypeOK, Info
<1>2. i # None
    BY <1>1, ConstantsAssumption
<1>3. /\ work'[w].user = u /\ work'[w].info = i /\ work'[w].account = info[u].account
      /\ work'[w].steps = NotificationsSteps(on)
      /\ UNCHANGED <<info, token, name, id>> /\ Named(u)' = Named(u)
    BY BeginIs
<1> HIDE DEF i
<1>4. InfoAfter(w)' = i /\ (TokenAfter(w)' <=> u \in token) /\ id \subseteq IdAfter(w)'
    BY <1>3, NotificationsWrite DEF InfoAfter, TokenAfter, IdAfter
<1>5. NamedAfter(w)' = IF on THEN Named(u) \cup {a} ELSE Named(u) \ {a}
    <2>1. CASE on = TRUE
        BY <1>3, <2>1, NotificationsWrite DEF NamedAfter
    <2>2. CASE on = FALSE
        BY <1>3, <2>2, NotificationsWrite DEF NamedAfter
    <2>3. QED
        BY <2>1, <2>2
<1>6. /\ info[u] # None <=> u \in token
      /\ \A b \in Account : b \in Named(u) => b = a
      /\ a \in id
    BY DEF Agreed, Agree
<1>7. \A b \in Account : b \in NamedAfter(w)' <=> i # None /\ i.account = b /\ i.notify
    BY <1>1, <1>2, <1>5, <1>6
<1>8. AgreeAfter(w)'
    BY <1>1, <1>2, <1>4, <1>6, <1>7 DEF AgreeAfter, Agree
<1>9. QED
    BY <1>3, <1>8, NotificationsWrite DEF Heading

\* What writes the info alone keeps the account and leaves notifications as they are.
LEMMA InfoHeads ==
    ASSUME IInv, NEW w \in Worker, NEW u \in User, NEW i \in Info, NEW a, NEW steps,
           Begin(w, u, i, a, steps), steps = <<Must("info")>> \/ steps = <<Put("info")>>,
           info[u] # None, i.account = info[u].account, i.notify = info[u].notify,
           Agreed(u)
    PROVE  Heading(w)'
<1>1. /\ work'[w].user = u /\ work'[w].info = i /\ work'[w].steps = steps
      /\ UNCHANGED <<info, token, name, id>> /\ Named(u)' = Named(u)
    BY BeginIs
<1>2. /\ steps[1].do # "call" /\ Distinct(steps) /\ Puts(steps, "info")
      /\ \A k \in Entry \ {"info"} : ~ Puts(steps, k) /\ ~ Dels(steps, k)
    BY InfoWrites
<1>3. /\ InfoAfter(w)' = i /\ (TokenAfter(w)' <=> u \in token)
      /\ NamedAfter(w)' = Named(u) /\ IdAfter(w)' = id
    BY <1>1, <1>2 DEF InfoAfter, TokenAfter, NamedAfter, IdAfter, Entry
<1>4. i # None
    BY ConstantsAssumption
<1>5. AgreeAfter(w)'
    BY <1>3, <1>4 DEF AgreeAfter, Agree, Agreed
<1>6. QED
    BY <1>1, <1>2, <1>5 DEF Heading

LEMMA RemindHeads ==
    ASSUME IInv, NEW w \in Worker, NEW u \in User, NEW i \in Info,
           Begin(w, u, i, None, <<Call("todo"), Put("info")>>),
           info[u] # None, i.account = info[u].account, i.notify = info[u].notify,
           Agreed(u)
    PROVE  Heading(w)'
<1>1. /\ work'[w].user = u /\ work'[w].info = i /\ work'[w].steps = <<Call("todo"), Put("info")>>
      /\ UNCHANGED <<info, token, name, id>> /\ Named(u)' = Named(u)
    BY BeginIs
<1>2. Agreed(u)'
    BY <1>1 DEF Agreed
<1>3. i # None
    BY ConstantsAssumption
<1>4. QED
    BY <1>1, <1>2, <1>3, TodoWrites DEF Heading

\* Whatever starts for a user whose entries agree, and is not odd, leads to entries that agree.
LEMMA StartAgrees ==
    ASSUME OrderInv, NEW w \in Worker, Start(w)
    PROVE  AgreeInv'
<1>0. IInv
    BY DEF OrderInv
<1>1. CASE Connect(w)
    <2>1. PICK u \in User, a \in Account :
                /\ Begin(w, u, NewInfo(a), a, ConnectSteps)
                /\ odd' = odd
                      \cup (IF authorised[a] \subseteq {u} THEN {} ELSE authorised[a] \cup {u})
                      \cup (IF \E b \in Account \ {a} : name[b] = u THEN {u} ELSE {})
        BY <1>1 DEF Connect
    <2>2. u \notin odd' => \A b \in Account \ {a} : name[b] # u
        BY <2>1
    <2>3. u \notin odd' /\ Agreed(u) => Heading(w)'
        BY <1>0, <2>1, <2>2, ConnectHeads
    <2>4. QED
        BY <2>1, <2>3, BeginAgrees
<1>2. CASE Disconnect(w)
    <2>1. PICK u \in User : Begin(w, u, None, None, <<Call("disconnect")>>) /\ odd' = odd
        BY <1>2 DEF Disconnect
    <2>2. Agreed(u) => Heading(w)'
        BY <1>0, <2>1, CallHeads
    <2>3. QED
        BY <2>1, <2>2, BeginAgrees
<1>3. CASE ForceDisconnect(w)
    <2>1. PICK u \in User : Begin(w, u, None, None, <<Call("force")>>) /\ odd' = odd
        BY <1>3 DEF ForceDisconnect
    <2>2. Agreed(u) => Heading(w)'
        BY <1>0, <2>1, CallHeads
    <2>3. QED
        BY <2>1, <2>2, BeginAgrees
<1>4. CASE Settings(w)
    <2>1. PICK u \in User, on \in BOOLEAN :
                /\ info[u] # None
                /\ \/ Begin(w, u, [info[u] EXCEPT !.notify = on], info[u].account, NotificationsSteps(on))
                   \/ Begin(w, u, [info[u] EXCEPT !.remind = on], info[u].account, <<Must("info")>>)
                /\ odd' = odd
        BY <1>4 DEF Settings
    <2>2. CASE Begin(w, u, [info[u] EXCEPT !.notify = on], info[u].account, NotificationsSteps(on))
        <3>1. Agreed(u) => Heading(w)'
            BY <1>0, <2>1, <2>2, NotificationsHead
        <3>2. QED
            BY <2>1, <2>2, <3>1, BeginAgrees
    <2>3. CASE Begin(w, u, [info[u] EXCEPT !.remind = on], info[u].account, <<Must("info")>>)
        <3>1. /\ [info[u] EXCEPT !.remind = on] \in Info
              /\ [info[u] EXCEPT !.remind = on].account = info[u].account
              /\ [info[u] EXCEPT !.remind = on].notify = info[u].notify
            BY <1>0, <2>1 DEF IInv, TypeOK, Info
        <3>2. Agreed(u) => Heading(w)'
            BY <1>0, <2>1, <2>3, <3>1, InfoHeads
        <3>3. QED
            BY <2>1, <2>3, <3>2, BeginAgrees
    <2>4. QED
        BY <2>1, <2>2, <2>3
<1>5. CASE UpdateSettings(w)
    <2>1. PICK u \in User, notify \in BOOLEAN, remind \in BOOLEAN :
                /\ info[u] # None
                /\ Begin(w, u, [info[u] EXCEPT !.notify = notify, !.remind = remind], None, <<Put("info")>>)
                /\ odd' = IF notify = info[u].notify THEN odd ELSE odd \cup {u}
        BY <1>5 DEF UpdateSettings
    <2>2. /\ [info[u] EXCEPT !.notify = notify, !.remind = remind] \in Info
          /\ [info[u] EXCEPT !.notify = notify, !.remind = remind].account = info[u].account
          /\ [info[u] EXCEPT !.notify = notify, !.remind = remind].notify = notify
        BY <1>0, <2>1 DEF IInv, TypeOK, Info
    <2>3. u \notin odd' => notify = info[u].notify
        BY <2>1
    <2>4. u \notin odd' /\ Agreed(u) => Heading(w)'
        BY <1>0, <2>1, <2>2, <2>3, InfoHeads
    <2>5. odd \subseteq odd'
        BY <2>1
    <2>6. QED
        BY <2>1, <2>4, <2>5, BeginAgrees
<1>6. CASE Remind(w)
    <2>1. PICK u \in User :
                /\ info[u] # None
                /\ Begin(w, u, [info[u] EXCEPT !.last = day], None, <<Call("todo"), Put("info")>>)
                /\ odd' = odd
        BY <1>6 DEF Remind
    <2>2. /\ [info[u] EXCEPT !.last = day] \in Info
          /\ [info[u] EXCEPT !.last = day].account = info[u].account
          /\ [info[u] EXCEPT !.last = day].notify = info[u].notify
        BY <1>0, <2>1 DEF IInv, TypeOK, Info
    <2>3. Agreed(u) => Heading(w)'
        BY <1>0, <2>1, <2>2, RemindHeads
    <2>4. QED
        BY <2>1, <2>3, BeginAgrees
<1>7. QED
    BY <1>1, <1>2, <1>3, <1>4, <1>5, <1>6 DEF Start

\* Whatever a goroutine does next leads there.
LEMMA RunAgrees ==
    ASSUME OrderInv, NEW w \in Worker, Run(w)
    PROVE  AgreeInv'
<1>0. IInv /\ TypeOK /\ faults \in Nat
    BY ConstantsAssumption DEF OrderInv, IInv, TypeOK
<1>1. CASE Die(w)
    <2>1. faults' # 0
        BY <1>0, <1>1 DEF Die, Fault
    <2>2. QED
        BY <2>1 DEF AgreeInv
<1> DEFINE u == work[w].user
<1>2. SUFFICES ASSUME ~ Die(w) PROVE AgreeInv'
    BY <1>1
<1>3. Perform(w) \/ ReadForDisconnect(w) \/ ReadForForce(w) \/ PostToDo(w)
    BY <1>2 DEF Run
<1>4. work[w].steps # <<>> /\ u \in User
    BY <1>0, <1>3 DEF Perform, ReadForDisconnect, ReadForForce, PostToDo, Calls, IInv, OwnWork
<1>5. \E a, steps : Continue(w, a, steps)
    BY <1>3 DEF Perform, ReadForDisconnect, ReadForForce, PostToDo
<1>6. /\ \A v \in Worker \ {w} : work'[v] = work[v]
      /\ work'[w] = Idle \/ work'[w].user = u
    BY <1>0, <1>5, Goes
<1>7. odd \subseteq odd' /\ overlap \subseteq overlap' /\ (faults' = 0 => faults = 0)
    <2>1. CASE Perform(w)
        BY <1>0, <2>1 DEF Perform, Fault, history
    <2>2. CASE ReadForDisconnect(w)
        <3>1. UNCHANGED history /\ (UNCHANGED faults \/ faults' = faults + 1)
            BY <2>2 DEF ReadForDisconnect, Fault
        <3>2. QED
            BY <1>0, <3>1 DEF history
    <2>3. CASE ReadForForce(w)
        <3>1. UNCHANGED history /\ (UNCHANGED faults \/ faults' = faults + 1)
            BY <2>3 DEF ReadForForce, Fault
        <3>2. QED
            BY <1>0, <3>1 DEF history
    <2>4. CASE PostToDo(w)
        <3>1. odd \subseteq odd' /\ overlap' = overlap /\ faults' = faults
            BY <2>4 DEF PostToDo
        <3>2. QED
            BY <3>1
    <2>5. QED
        BY <1>3, <2>1, <2>2, <2>3, <2>4
<1>8. ASSUME NEW x \in User \ (odd \cup {u})
      PROVE  /\ info'[x] = info[x] /\ (x \in token' <=> x \in token) /\ Named(x)' = Named(x)
             /\ \A b \in Account : x \in authorised[b] => (b \in id' <=> b \in id)
    <2>1. CASE Perform(w)
        BY <1>8, <2>1, PerformElsewhere
    <2>2. CASE UNCHANGED kv
        BY <2>2 DEF kv, Named
    <2>3. QED
        BY <1>3, <2>1, <2>2 DEF ReadForDisconnect, ReadForForce, PostToDo
<1>9. ASSUME NEW x, x = u, faults' = 0, x \notin odd', Heading(w)
      PROVE  IF work'[w] = Idle THEN Agreed(x)' ELSE Heading(w)'
    <2>1. CASE Perform(w)
        BY <1>0, <1>9, <2>1, PerformOwn
    <2>2. CASE ReadForDisconnect(w) \/ ReadForForce(w)
        BY <1>0, <1>9, <2>2, ReadOwn
    <2>3. CASE PostToDo(w)
        BY <1>0, <1>9, <2>3, TodoOwn
    <2>4. QED
        BY <1>3, <2>1, <2>2, <2>3
<1>10. PICK x \in User : x = u
    BY <1>4
<1>11. faults' = 0 /\ x \notin odd' /\ Heading(w) =>
            IF work'[w] = Idle THEN Agreed(x)' ELSE Heading(w)'
    BY <1>9, <1>10
<1>12. work'[w] = Idle \/ work'[w].user = x
    BY <1>6, <1>10
<1> HIDE DEF u
<1>13. \A y \in User \ (odd \cup {x}) :
            /\ info'[y] = info[y] /\ (y \in token' <=> y \in token) /\ Named(y)' = Named(y)
            /\ \A b \in Account : y \in authorised[b] => (b \in id' <=> b \in id)
    BY <1>8, <1>10
<1>14. QED
    BY <1>6, <1>7, <1>10, <1>11, <1>12, <1>13, StepAgrees DEF u

-----------------------------------------------------------------------------
(* One goroutine at a time, and one user for each account *)

LEMMA AloneKept ==
    ASSUME OrderInv, NEW w \in Worker, Start(w) \/ Run(w)
    PROVE  AloneInv'
<1>0. IInv /\ TypeOK /\ AloneInv /\ IInv'
    BY StartKeeps, RunKeeps DEF OrderInv, IInv
<1>1. CASE Start(w)
    <2>1. PICK u \in User : \E i, a, steps : Begin(w, u, i, a, steps) /\ steps # <<>>
        <3>1. CASE Connect(w)
            BY <3>1 DEF Connect, ConnectSteps
        <3>2. CASE Disconnect(w)
            BY <3>2 DEF Disconnect
        <3>3. CASE ForceDisconnect(w)
            BY <3>3 DEF ForceDisconnect
        <3>4. CASE Settings(w)
            BY <3>4, NotificationsWrite DEF Settings
        <3>5. CASE UpdateSettings(w)
            BY <3>5 DEF UpdateSettings
        <3>6. CASE Remind(w)
            BY <3>6 DEF Remind
        <3>7. QED
            BY <1>1, <3>1, <3>2, <3>3, <3>4, <3>5, <3>6 DEF Start
    <2>2. /\ work'[w].user = u /\ work'[w].steps # <<>>
          /\ \A v \in Worker \ {w} : work'[v] = work[v]
          /\ overlap \subseteq overlap' /\ (Busy(u) => u \in overlap')
        BY <1>0, <2>1 DEF TypeOK, Begin
    <2>3. QED
        BY <1>0, <2>2 DEF AloneInv, Busy
<1>2. CASE Run(w)
    <2>1. /\ \A v \in Worker \ {w} : work'[v] = work[v]
          /\ work'[w] = Idle \/ (work'[w].user = work[w].user /\ work'[w].steps # <<>>)
        <3>1. CASE Die(w)
            BY <1>0, <3>1 DEF Die, TypeOK
        <3>2. CASE \E a, steps : Continue(w, a, steps)
            BY <1>0, <3>2, Goes
        <3>3. QED
            BY <1>2, <3>1, <3>2 DEF Run, Perform, ReadForDisconnect, ReadForForce, PostToDo
    <2>2. overlap' = overlap
        BY <1>2 DEF Run, Perform, ReadForDisconnect, ReadForForce, PostToDo, Die, history
    <2>3. Idle.user = None /\ None \notin User
        BY ConstantsAssumption DEF Idle
    <2>4. QED
        BY <1>0, <2>1, <2>2, <2>3 DEF AloneInv
<1>3. QED
    BY <1>1, <1>2

LEMMA ExclusiveKept ==
    ASSUME OrderInv, NEW w \in Worker, Start(w) \/ Run(w)
    PROVE  ExclusiveInv'
<1>0. TypeOK /\ ExclusiveInv
    BY DEF OrderInv, IInv
<1>1. ASSUME UNCHANGED authorised, odd \subseteq odd'
      PROVE  ExclusiveInv'
    BY <1>0, <1>1 DEF ExclusiveInv
<1>2. CASE Connect(w)
    <2>1. PICK u \in User, a \in Account :
                /\ authorised' = [authorised EXCEPT ![a] = @ \cup {u}]
                /\ odd' = odd
                      \cup (IF authorised[a] \subseteq {u} THEN {} ELSE authorised[a] \cup {u})
                      \cup (IF \E b \in Account \ {a} : name[b] = u THEN {u} ELSE {})
        BY <1>2 DEF Connect
    <2>2. authorised'[a] = authorised[a] \cup {u} /\ \A b \in Account \ {a} : authorised'[b] = authorised[b]
        BY <1>0, <2>1 DEF TypeOK
    <2>3. ASSUME NEW b \in Account, NEW x \in authorised'[b] \ odd'
          PROVE  authorised'[b] = {x}
        <3>1. CASE b = a /\ authorised[a] \subseteq {u}
            BY <2>2, <2>3, <3>1
        <3>2. CASE b = a /\ ~ (authorised[a] \subseteq {u})
            BY <2>1, <2>2, <2>3, <3>2
        <3>3. CASE b # a
            BY <1>0, <2>1, <2>2, <2>3, <3>3 DEF ExclusiveInv
        <3>4. QED
            BY <3>1, <3>2, <3>3
    <2>4. QED
        BY <2>3 DEF ExclusiveInv
<1>3. CASE Disconnect(w) \/ ForceDisconnect(w) \/ Settings(w) \/ Remind(w)
    BY <1>1, <1>3 DEF Disconnect, ForceDisconnect, Settings, Remind
<1>4. CASE UpdateSettings(w)
    <2>1. odd \subseteq odd' /\ UNCHANGED authorised
        BY <1>4 DEF UpdateSettings
    <2>2. QED
        BY <1>1, <2>1
<1>5. CASE PostToDo(w)
    <2>1. odd \subseteq odd' /\ UNCHANGED authorised
        BY <1>5 DEF PostToDo
    <2>2. QED
        BY <1>1, <2>1
<1>6. CASE Perform(w) \/ ReadForDisconnect(w) \/ ReadForForce(w) \/ Die(w)
    BY <1>1, <1>6 DEF Perform, ReadForDisconnect, ReadForForce, Die, history
<1>7. QED
    BY <1>2, <1>3, <1>4, <1>5, <1>6 DEF Start, Run

-----------------------------------------------------------------------------
(* The days of the reminders *)

\* What is done for others, and the time that passes, leaves a user's reminders as they are.
LEMMA ElsewhereReminds ==
    ASSUME IInv, NEW u \in User, info'[u] = info[u], reminded'[u] = reminded[u],
           day' \in Nat, day <= day'
    PROVE  /\ Daily(u) => Daily(u)'
           /\ Past(u, info[u]) => Past(u, info[u])'
           /\ \A w \in Worker : work[w].user = u /\ work'[w] = work[w] /\ Reminding(w) => Reminding(w)'
<1>1. day \in Nat /\ \A d \in 0 .. MaxDay : d \in Nat /\ reminded[u][d] \in Nat
    BY ConstantsAssumption DEF IInv, TypeOK
<1>2. Daily(u) => Daily(u)'
    BY <1>1 DEF Daily
<1>3. \A i : Past(u, i) => Past(u, i)'
    BY DEF Past
<1>4. Past(u, info[u]) => Past(u, info[u])'
    BY DEF Past
<1>5. ASSUME NEW w \in Worker, work[w].user = u, work'[w] = work[w], Reminding(w)
      PROVE  Reminding(w)'
    <2> DEFINE i == work[w].info
    <2>1. i # None => i.last \in Nat
        BY DEF IInv, TypeOK, Info
    <2>2. Past(u, i) => Past(work[w].user, work[w].info)'
        BY <1>5 DEF Past
    <2>3. Past(u, info[u]) => Past(work[w].user, info[work[w].user])'
        BY <1>5 DEF Past
    <2>4. QED
        BY <1>1, <1>5, <2>1, <2>2, <2>3 DEF Reminding
<1>6. QED
    BY <1>2, <1>4, <1>5

LEMMA BeginReminds ==
    ASSUME OrderInv, NEW w \in Worker, NEW u \in User, NEW i, NEW a, NEW steps,
           Begin(w, u, i, a, steps),
           Daily(u) /\ Past(u, info[u]) => Reminding(w)'
    PROVE  RemindedInv'
<1>1. /\ IInv /\ RemindedInv /\ day \in Nat
      /\ faults' = faults /\ UNCHANGED <<info, day, reminded>>
      /\ overlap \subseteq overlap' /\ (Busy(u) => u \in overlap')
      /\ work'[w].user = u /\ \A v \in Worker \ {w} : work'[v] = work[v]
    BY ConstantsAssumption DEF OrderInv, IInv, TypeOK, Begin, kv
<1>2. work[w].user = None /\ None \notin User
    BY ConstantsAssumption DEF Begin, Idle
<1>3. SUFFICES ASSUME faults' = 0, NEW x \in User, x \notin overlap'
               PROVE  /\ Daily(x)'
                      /\ ~ Busy(x)' => Past(x, info[x])'
                      /\ \A v \in Worker : work'[v].user = x => Reminding(v)'
    BY DEF RemindedInv
<1>4. /\ Daily(x)
      /\ ~ Busy(x) => Past(x, info[x])
      /\ \A v \in Worker : work[v].user = x => Reminding(v)
    BY <1>1, <1>3 DEF RemindedInv
<1>5. /\ Daily(x)' /\ (Past(x, info[x]) => Past(x, info[x])')
      /\ \A v \in Worker : work[v].user = x /\ work'[v] = work[v] /\ Reminding(v) => Reminding(v)'
    BY <1>1, <1>4, ElsewhereReminds
<1>6. CASE x = u
    <2>1. ~ Busy(u)
        BY <1>1, <1>3, <1>6
    <2>2. Reminding(w)'
        BY <1>4, <1>6, <2>1
    <2>3. Busy(u)'
        BY <1>1 DEF Busy
    <2>4. \A v \in Worker : work'[v].user = u => v = w
        BY <1>1, <2>1 DEF Busy
    <2>5. QED
        BY <1>5, <1>6, <2>2, <2>3, <2>4
<1>7. CASE x # u
    <2>1. ~ Busy(x)' => ~ Busy(x)
        BY <1>1, <1>2 DEF Busy
    <2>2. \A v \in Worker : work'[v].user = x => v # w
        BY <1>1, <1>7
    <2>3. QED
        BY <1>1, <1>4, <1>5, <2>1, <2>2
<1>8. QED
    BY <1>6, <1>7

LEMMA StepReminds ==
    ASSUME OrderInv, NEW w \in Worker, NEW u \in User, work[w].user = u,
           overlap' = overlap, faults' = 0 => faults = 0, day' = day,
           \A v \in Worker \ {w} : work'[v] = work[v],
           work'[w] = Idle \/ work'[w].user = u,
           \A x \in User \ {u} : info'[x] = info[x] /\ reminded'[x] = reminded[x],
           faults' = 0 /\ Daily(u) /\ Reminding(w) =>
                Daily(u)' /\ IF work'[w] = Idle THEN Past(u, info[u])' ELSE Reminding(w)'
    PROVE  RemindedInv'
<1>1. IInv /\ RemindedInv /\ AloneInv /\ day \in Nat /\ day <= day'
    BY ConstantsAssumption DEF OrderInv, IInv, TypeOK
<1>2. Idle.user = None /\ None \notin User
    BY ConstantsAssumption DEF Idle
<1>3. SUFFICES ASSUME faults' = 0, NEW x \in User, x \notin overlap'
               PROVE  /\ Daily(x)'
                      /\ ~ Busy(x)' => Past(x, info[x])'
                      /\ \A v \in Worker : work'[v].user = x => Reminding(v)'
    BY DEF RemindedInv
<1>4. /\ Daily(x)
      /\ ~ Busy(x) => Past(x, info[x])
      /\ \A v \in Worker : work[v].user = x => Reminding(v)
    BY <1>1, <1>3 DEF RemindedInv
<1>5. CASE x = u
    <2>1. \A v \in Worker : work[v].user = u => v = w
        BY <1>1, <1>3, <1>5 DEF AloneInv
    <2>2. \A v \in Worker : work'[v].user = u => v = w
        BY <2>1
    <2>3. Daily(u)' /\ IF work'[w] = Idle THEN Past(u, info[u])' ELSE Reminding(w)'
        BY <1>3, <1>4, <1>5
    <2>4. ~ Busy(u)' => work'[w] = Idle
        BY DEF Busy
    <2>5. QED
        BY <1>2, <1>5, <2>2, <2>3, <2>4
<1>6. CASE x # u
    <2>1. info'[x] = info[x] /\ reminded'[x] = reminded[x]
        BY <1>6
    <2>2. /\ Daily(x)' /\ (Past(x, info[x]) => Past(x, info[x])')
          /\ \A v \in Worker : work[v].user = x /\ work'[v] = work[v] /\ Reminding(v) => Reminding(v)'
        BY <1>1, <1>4, <2>1, ElsewhereReminds
    <2>3. \A v \in Worker : work'[v].user = x => v # w
        BY <1>2, <1>6
    <2>4. ~ Busy(x)' => ~ Busy(x)
        BY <1>6 DEF Busy
    <2>5. QED
        BY <1>4, <2>2, <2>3, <2>4
<1>7. QED
    BY <1>5, <1>6

\* A goroutine that sets out to write an info whose time is past all reminders.
LEMMA WritesRemind ==
    ASSUME IInv, NEW w \in Worker, NEW u \in User, NEW i \in Info, NEW a, NEW steps,
           Begin(w, u, i, a, steps), Puts(steps, "info"), steps[1].do # "call", Past(u, i)
    PROVE  Reminding(w)'
<1>1. /\ work'[w].user = u /\ work'[w].info = i /\ work'[w].steps = steps /\ reminded' = reminded
    BY BeginIs
<1>2. i # None
    BY ConstantsAssumption
<1>3. Past(work[w].user, work[w].info)'
    BY <1>1 DEF Past
<1>4. QED
    BY <1>1, <1>2, <1>3 DEF Reminding

\* Whatever starts for a user keeps the time of the last reminder, or sets it to this day.
LEMMA StartReminds ==
    ASSUME OrderInv, NEW w \in Worker, Start(w)
    PROVE  RemindedInv'
<1>0. /\ IInv /\ TypeOK /\ day \in 0 .. MaxDay /\ day \in Nat
      /\ \A u \in User, d \in 0 .. MaxDay : reminded[u][d] \in Nat
      /\ \A u \in User : info[u] # None => info[u] \in Info
    BY ConstantsAssumption DEF OrderInv, IInv, TypeOK
<1>1. CASE Connect(w)
    <2>1. PICK u \in User, a \in Account : Begin(w, u, NewInfo(a), a, ConnectSteps)
        BY <1>1 DEF Connect
    <2>2. NewInfo(a) \in Info /\ NewInfo(a).last = day
        BY <1>0 DEF NewInfo, Info
    <2>3. Puts(ConnectSteps, "info") /\ ConnectSteps[1].do # "call"
        BY ConnectWrites DEF Entry
    <2>4. Daily(u) => Past(u, NewInfo(a))
        BY <2>2 DEF Daily, Past
    <2>5. Daily(u) => Reminding(w)'
        BY <1>0, <2>1, <2>2, <2>3, <2>4, WritesRemind
    <2>6. QED
        BY <2>1, <2>5, BeginReminds
<1>2. CASE Disconnect(w) \/ ForceDisconnect(w)
    <2>1. PICK u \in User, f \in {"disconnect", "force"} : Begin(w, u, None, None, <<Call(f)>>)
        BY <1>2 DEF Disconnect, ForceDisconnect
    <2>2. /\ work'[w].user = u /\ work'[w].steps = <<Call(f)>>
          /\ UNCHANGED <<info, reminded>>
        BY <1>0, <2>1, BeginIs
    <2>3. <<Call(f)>>[1].key # "todo" /\ ~ Puts(<<Call(f)>>, "info")
        BY CallWrites DEF Call, Function
    <2>4. Past(u, info[u]) => Reminding(w)'
        BY <2>2, <2>3 DEF Reminding, Past
    <2>5. QED
        BY <2>1, <2>4, BeginReminds
<1>3. CASE Settings(w) \/ UpdateSettings(w)
    <2>1. PICK u \in User, notify \in BOOLEAN, remind \in BOOLEAN :
                /\ info[u] # None
                /\ \/ Begin(w, u, [info[u] EXCEPT !.notify = notify], info[u].account, NotificationsSteps(notify))
                   \/ Begin(w, u, [info[u] EXCEPT !.remind = remind], info[u].account, <<Must("info")>>)
                   \/ Begin(w, u, [info[u] EXCEPT !.notify = notify, !.remind = remind], None, <<Put("info")>>)
        BY <1>3 DEF Settings, UpdateSettings
    <2>2. ASSUME NEW i \in Info, i.last = info[u].last, NEW a, NEW steps, Begin(w, u, i, a, steps),
                 Puts(steps, "info"), steps[1].do # "call"
          PROVE  RemindedInv'
        <3>1. Past(u, info[u]) => Past(u, i)
            BY <2>1, <2>2 DEF Past
        <3>2. QED
            BY <1>0, <2>2, <3>1, WritesRemind, BeginReminds
    <2>3. CASE Begin(w, u, [info[u] EXCEPT !.notify = notify], info[u].account, NotificationsSteps(notify))
        <3>1. /\ [info[u] EXCEPT !.notify = notify] \in Info
              /\ [info[u] EXCEPT !.notify = notify].last = info[u].last
            BY <1>0, <2>1 DEF Info
        <3>2. QED
            BY <2>2, <2>3, <3>1, NotificationsWrite
    <2>4. CASE Begin(w, u, [info[u] EXCEPT !.remind = remind], info[u].account, <<Must("info")>>)
        <3>1. /\ [info[u] EXCEPT !.remind = remind] \in Info
              /\ [info[u] EXCEPT !.remind = remind].last = info[u].last
            BY <1>0, <2>1 DEF Info
        <3>2. QED
            BY <2>2, <2>4, <3>1, InfoWrites
    <2>5. CASE Begin(w, u, [info[u] EXCEPT !.notify = notify, !.remind = remind], None, <<Put("info")>>)
        <3>1. /\ [info[u] EXCEPT !.notify = notify, !.remind = remind] \in Info
              /\ [info[u] EXCEPT !.notify = notify, !.remind = remind].last = info[u].last
            BY <1>0, <2>1 DEF Info
        <3>2. QED
            BY <2>2, <2>5, <3>1, InfoWrites
    <2>6. QED
        BY <2>1, <2>3, <2>4, <2>5
<1>4. CASE Remind(w)
    <2>1. PICK u \in User :
                /\ info[u] # None /\ info[u].last < day
                /\ Begin(w, u, [info[u] EXCEPT !.last = day], None, <<Call("todo"), Put("info")>>)
        BY <1>4 DEF Remind
    <2> DEFINE i == [info[u] EXCEPT !.last = day]
    <2>2. i \in Info /\ i.last = day /\ i # None /\ info[u].last \in Nat
        BY <1>0, <2>1, ConstantsAssumption DEF Info
    <2>3. Daily(u) => Past(u, i)
        BY <2>2 DEF Daily, Past
    <2>4. Past(u, info[u]) => reminded[u][day] = 0
        BY <1>0, <2>1, <2>2 DEF Past
    <2>5. /\ work'[w].user = u /\ work'[w].info = i /\ work'[w].steps = <<Call("todo"), Put("info")>>
          /\ reminded' = reminded /\ day' = day
        BY <1>0, <2>1, BeginIs
    <2>6. Past(u, i) => Past(work[w].user, work[w].info)'
        BY <2>5 DEF Past
    <2> HIDE DEF i
    <2>7. Daily(u) /\ Past(u, info[u]) => Reminding(w)'
        BY <1>0, <2>2, <2>3, <2>4, <2>5, <2>6, TodoWrites DEF Reminding
    <2>8. QED
        BY <2>1, <2>7, BeginReminds DEF i
<1>5. QED
    BY <1>1, <1>2, <1>3, <1>4 DEF Start

\* A write keeps the time that will be left behind.
LEMMA PerformReminds ==
    ASSUME IInv, NEW w \in Worker, Perform(w), faults' = 0, Reminding(w),
           NEW u, u = work[w].user
    PROVE  IF work'[w] = Idle THEN Past(u, info[u])' ELSE Reminding(w)'
<1> DEFINE all == work[w].steps
           s == Head(all)
           t == Tail(all)
           a == work[w].account
           i == work[w].info
           put == s.do = "put"
<1>1. /\ all \in Seq(Step) /\ all # <<>> /\ s = all[1] /\ s.do # "call" /\ s \in Step
      /\ u \in User /\ faults \in Nat
      /\ \A k \in 2 .. Len(all) : all[k].do # "call"
    <2>1. Tame(all, a) /\ all # <<>> /\ u \in User
        BY DEF Perform, IInv, OwnWork
    <2>2. s = all[1] /\ 1 \in 1 .. Len(all) /\ s \in Step
        BY <2>1 DEF Tame
    <2>3. QED
        BY <2>1, <2>2, ConstantsAssumption DEF Perform, IInv, TypeOK, Tame
<1>2. /\ info' = IF s.key = "info" THEN [info EXCEPT ![u] = IF put THEN i ELSE None] ELSE info
      /\ Continue(w, a, t) /\ reminded' = reminded /\ day' = day
    BY <1>1 DEF Perform, Fault, Rest, history
<1>3. \A k : Puts(all, k) <=> (put /\ s.key = k) \/ Puts(t, k)
    BY <1>1, TailWrites
<1>4. IF Puts(all, "info") THEN i # None /\ Past(u, i) ELSE Past(u, info[u])
    BY DEF Reminding
<1>5. Puts(t, "info") => i # None /\ Past(u, i)
    BY <1>3, <1>4
<1>6. ~ Puts(t, "info") => Past(u, info'[u])
    <2>1. info \in [User -> Info \cup {None}]
        BY DEF IInv, TypeOK
    <2>2. CASE s.key = "info"
        <3>1. info'[u] = IF put THEN i ELSE None
            BY <1>1, <1>2, <2>1, <2>2
        <3>2. Past(u, None)
            BY DEF Past
        <3>3. QED
            BY <1>3, <1>4, <2>2, <3>1, <3>2
    <2>3. CASE s.key # "info"
        BY <1>2, <1>3, <1>4, <2>3
    <2>4. QED
        BY <2>2, <2>3
<1>7. CASE t = <<>>
    <2>1. work'[w] = Idle
        BY <1>2, <1>7 DEF IInv, TypeOK, Continue
    <2>2. Past(u, info[u])'
        BY <1>2, <1>6, <1>7, NothingWrites DEF Past
    <2>3. QED
        BY <2>1, <2>2
<1>8. CASE t # <<>>
    <2>1. /\ work'[w].user = u /\ work'[w].info = i /\ work'[w].steps = t /\ work'[w] # Idle
        BY <1>2, <1>8 DEF IInv, TypeOK, Continue, Idle
    <2>2. t[1].do # "call"
        <3>1. t[1] = all[2] /\ 2 \in 2 .. Len(all)
            BY <1>1, <1>8
        <3>2. QED
            BY <1>1, <3>1
    <2>3. Past(u, i) => Past(work[w].user, work[w].info)'
        BY <1>2, <2>1 DEF Past
    <2>4. Past(u, info'[u]) => Past(work[w].user, info[work[w].user])'
        BY <1>2, <2>1 DEF Past
    <2>5. QED
        BY <1>5, <1>6, <2>1, <2>2, <2>3, <2>4 DEF Reminding
<1>9. QED
    BY <1>7, <1>8

\* A function that is called puts steps before what is left, none of which writes an info.
LEMMA CallReminds ==
    ASSUME IInv, NEW w \in Worker, Reminding(w), NEW u, u = work[w].user, NEW a,
           work[w].steps # <<>>, Head(work[w].steps).do = "call",
           NEW s \in Seq(Step), s # <<>>, ~ Puts(s, "info"), s[1].key # "todo",
           Continue(w, a, s \o Rest(w)),
           UNCHANGED <<info, reminded>>
    PROVE  IF work'[w] = Idle THEN Past(u, info[u])' ELSE Reminding(w)'
<1> DEFINE all == work[w].steps
           r == Tail(all)
<1>1. TypeOK /\ all \in Seq(Step) /\ all # <<>> /\ Head(all) = all[1] /\ r \in Seq(Step)
    BY DEF IInv, TypeOK
<1>2. s \o r # <<>> /\ (s \o r)[1] = s[1]
    BY <1>1
<1>3. /\ work'[w].user = u /\ work'[w].info = work[w].info /\ work'[w].steps = s \o r
      /\ work'[w] # Idle
    <2> DEFINE t == s \o r
    <2>1. Continue(w, a, t) /\ t # <<>>
        BY <1>2 DEF Rest
    <2> HIDE DEF t
    <2>2. /\ work'[w].user = u /\ work'[w].info = work[w].info /\ work'[w].steps = t
          /\ work'[w] # Idle
        BY <1>1, <2>1, Goes
    <2>3. QED
        BY <2>2 DEF t
<1>4. Puts(all, "info") <=> Puts(r, "info")
    <2>1. all[1].do # "put"
        BY <1>1
    <2>2. QED
        BY <1>1, <2>1, TailWrites
<1>5. Puts(s \o r, "info") <=> Puts(r, "info")
    BY <1>1, JoinWrites
<1>6. Past(u, work[w].info) => Past(work[w].user, work[w].info)'
    BY <1>3 DEF Past
<1>7. Past(u, info[u]) => Past(work[w].user, info[work[w].user])'
    BY <1>3 DEF Past
<1> HIDE DEF r
<1>8. QED
    BY <1>2, <1>3, <1>4, <1>5, <1>6, <1>7 DEF Reminding

\* The reminder is posted for the time that is written next.
LEMMA TodoReminds ==
    ASSUME IInv, NEW w \in Worker, PostToDo(w), Reminding(w), NEW u, u = work[w].user, Daily(u)
    PROVE  Daily(u)' /\ IF work'[w] = Idle THEN Past(u, info[u])' ELSE Reminding(w)'
<1> DEFINE all == work[w].steps
           i == work[w].info
           r == Tail(all)
<1>1. /\ TypeOK /\ u \in User /\ all \in Seq(Step) /\ all # <<>> /\ Head(all) = all[1]
      /\ all[1].do = "call" /\ all[1].key = "todo" /\ r \in Seq(Step)
      /\ day' = day /\ info' = info
    <2>1. all # <<>> /\ all \in Seq(Step) /\ TypeOK /\ u \in User
        BY DEF PostToDo, Calls, IInv, OwnWork, TypeOK
    <2>2. Head(all) = all[1]
        BY <2>1
    <2>3. QED
        BY <2>1, <2>2 DEF PostToDo, Calls, kv
<1>2. /\ Puts(all, "info") /\ i # None /\ Past(u, i)
      /\ i.last <= day /\ reminded[u][i.last] = 0
    BY <1>1 DEF Reminding
<1>3. /\ i.last \in 0 .. MaxDay
      /\ reminded[u] \in [0 .. MaxDay -> Nat]
    BY <1>1, <1>2 DEF TypeOK, Info
<1>4. Puts(r, "info")
    BY <1>1, <1>2, TailWrites
<1>5. r # <<>>
    BY <1>4, NothingWrites
<1>6. r[1].do # "call"
    <2>1. r[1] = all[2] /\ 2 \in 2 .. Len(all)
        BY <1>1, <1>5
    <2>2. QED
        BY <2>1 DEF IInv, OwnWork, Tame
<1>7. ASSUME Continue(w, None, r), Past(u, i)'
      PROVE  IF work'[w] = Idle THEN Past(u, info[u])' ELSE Reminding(w)'
    <2>1. /\ work'[w].user = u /\ work'[w].info = i /\ work'[w].steps = r
          /\ work'[w] # Idle
        BY <1>1, <1>5, <1>7, Goes
    <2>2. Past(work[w].user, work[w].info)'
        BY <1>7, <2>1 DEF Past
    <2> HIDE DEF r, i
    <2>3. QED
        BY <1>2, <1>4, <1>6, <2>1, <2>2 DEF Reminding, i
<1>8. CASE reminded' = [reminded EXCEPT ![u][i.last] = @ + 1] /\ Continue(w, None, r)
    <2>1. /\ reminded'[u][i.last] = 1
          /\ \A d \in (0 .. MaxDay) \ {i.last} : reminded'[u][d] = reminded[u][d]
        <3>1. reminded \in [User -> [0 .. MaxDay -> Nat]]
            BY <1>1 DEF TypeOK
        <3>2. reminded'[u] = [reminded[u] EXCEPT ![i.last] = @ + 1]
            BY <1>1, <1>8, <3>1
        <3>3. ASSUME NEW f \in [0 .. MaxDay -> Nat], NEW l \in 0 .. MaxDay, f[l] = 0
              PROVE  LET g == [f EXCEPT ![l] = @ + 1] IN
                     g[l] = 1 /\ \A d \in (0 .. MaxDay) \ {l} : g[d] = f[d]
            BY <3>3
        <3>4. QED
            BY <1>2, <1>3, <3>2, <3>3
    <2>2. Daily(u)'
        BY <1>1, <1>2, <2>1 DEF Daily
    <2>3. Past(u, i)'
        <3>1. \A d \in 0 .. MaxDay : reminded'[u][d] > 0 => d <= i.last
            BY <1>2, <1>3, <2>1 DEF Past
        <3>2. i' = i
            BY <1>1, <1>5, <1>8, Goes
        <3>3. QED
            BY <3>1, <3>2 DEF Past
    <2>4. QED
        BY <1>7, <1>8, <2>2, <2>3
<1>9. CASE UNCHANGED reminded
    <2>1. Daily(u)'
        BY <1>1, <1>9 DEF Daily
    <2>2. CASE Continue(w, None, r)
        <3>1. i' = i
            BY <1>1, <1>5, <2>2, Goes
        <3>2. Past(u, i)'
            BY <1>2, <1>9, <3>1 DEF Past
        <3>3. QED
            BY <1>7, <2>1, <2>2, <3>2
    <2>3. CASE Continue(w, None, <<Call("disconnect")>> \o Rest(w))
        <3>1. /\ <<Call("disconnect")>> \in Seq(Step) /\ <<Call("disconnect")>> # <<>>
              /\ <<Call("disconnect")>>[1].key # "todo" /\ ~ Puts(<<Call("disconnect")>>, "info")
            BY CallWrites DEF Call, Step, Function
        <3>2. QED
            BY <1>1, <1>9, <2>1, <2>3, <3>1, CallReminds
    <2>4. QED
        BY <1>9, <2>2, <2>3 DEF PostToDo, Rest
<1>10. QED
    BY <1>8, <1>9 DEF PostToDo, Rest

LEMMA RunReminds ==
    ASSUME OrderInv, NEW w \in Worker, Run(w)
    PROVE  RemindedInv'
<1>0. IInv /\ TypeOK /\ faults \in Nat
    BY ConstantsAssumption DEF OrderInv, IInv, TypeOK
<1>1. CASE Die(w)
    <2>1. faults' # 0
        BY <1>0, <1>1 DEF Die, Fault
    <2>2. QED
        BY <2>1 DEF RemindedInv
<1>2. SUFFICES ASSUME ~ Die(w) PROVE RemindedInv'
    BY <1>1
<1>3. Perform(w) \/ ReadForDisconnect(w) \/ ReadForForce(w) \/ PostToDo(w)
    BY <1>2 DEF Run
<1>4. work[w].steps # <<>> /\ work[w].user \in User
    BY <1>0, <1>3 DEF Perform, ReadForDisconnect, ReadForForce, PostToDo, Calls, IInv, OwnWork
<1>5. PICK u \in User : u = work[w].user
    BY <1>4
<1>6. \E a, steps : Continue(w, a, steps)
    BY <1>3 DEF Perform, ReadForDisconnect, ReadForForce, PostToDo
<1>7. /\ \A v \in Worker \ {w} : work'[v] = work[v]
      /\ work'[w] = Idle \/ work'[w].user = u
    BY <1>0, <1>5, <1>6, Goes
<1>8. /\ overlap' = overlap /\ day' = day /\ (faults' = 0 => faults = 0)
      /\ \A x \in User \ {u} : info'[x] = info[x] /\ reminded'[x] = reminded[x]
    <2>1. CASE Perform(w)
        <3>1. UNCHANGED history /\ day' = day /\ (UNCHANGED faults \/ faults' = faults + 1)
            BY <2>1 DEF Perform, Fault
        <3>2. \A x \in User \ {u} : info'[x] = info[x]
            BY <1>0, <1>5, <2>1 DEF Perform, TypeOK, kv
        <3>3. QED
            BY <1>0, <3>1, <3>2 DEF history
    <2>2. CASE ReadForDisconnect(w) \/ ReadForForce(w)
        <3>1. UNCHANGED history /\ day' = day /\ UNCHANGED kv /\ (UNCHANGED faults \/ faults' = faults + 1)
            BY <2>2 DEF ReadForDisconnect, ReadForForce, Fault
        <3>2. QED
            BY <1>0, <3>1 DEF history, kv
    <2>3. CASE PostToDo(w)
        BY <1>0, <1>5, <2>3 DEF PostToDo, TypeOK, kv
    <2>4. QED
        BY <1>3, <2>1, <2>2, <2>3
<1>9. ASSUME faults' = 0, Daily(u), Reminding(w)
      PROVE  Daily(u)' /\ IF work'[w] = Idle THEN Past(u, info[u])' ELSE Reminding(w)'
    <2>1. CASE Perform(w)
        <3>1. Daily(u)'
            BY <1>9, <2>1 DEF Perform, history, Daily
        <3>2. QED
            BY <1>0, <1>5, <1>9, <2>1, <3>1, PerformReminds
    <2>2. CASE ReadForDisconnect(w) \/ ReadForForce(w)
        <3>1. /\ Head(work[w].steps).do = "call" /\ UNCHANGED <<info, reminded, day>>
            BY <2>2 DEF ReadForDisconnect, ReadForForce, Calls, kv, history
        <3>2. PICK s, a :
                /\ \/ s = DisconnectSteps \/ s = <<Call("force")>>
                   \/ s = ForceSteps(TRUE) \/ s = ForceSteps(FALSE)
                /\ Continue(w, a, s \o Rest(w))
            <4>1. CASE ReadForDisconnect(w)
                BY <4>1 DEF ReadForDisconnect
            <4>2. CASE ReadForForce(w)
                BY <4>2 DEF ReadForForce
            <4>3. QED
                BY <2>2, <4>1, <4>2
        <3>3. s \in Seq(Step) /\ s # <<>> /\ ~ Puts(s, "info") /\ s[1].key # "todo"
            <4>1. CASE s = <<Call("force")>>
                BY <4>1, CallWrites DEF Call, Step, Function
            <4>2. CASE s = DisconnectSteps
                BY <4>2, StepsAre, DisconnectWrites DEF DisconnectSteps, Del, Entry
            <4>3. CASE s = ForceSteps(TRUE) \/ s = ForceSteps(FALSE)
                <5>1. s \in Seq(Step) /\ s # <<>> /\ ~ Puts(s, "info")
                    BY <4>3, StepsAre, ForceWrites DEF Entry
                <5>2. s[1].key = "token"
                    BY <4>3 DEF ForceSteps, Del
                <5>3. QED
                    BY <5>1, <5>2
            <4>4. QED
                BY <3>2, <4>1, <4>2, <4>3
        <3>4. Daily(u)'
            BY <1>9, <3>1 DEF Daily
        <3>5. QED
            BY <1>0, <1>4, <1>5, <1>9, <3>1, <3>2, <3>3, <3>4, CallReminds
    <2>3. CASE PostToDo(w)
        BY <1>0, <1>5, <1>9, <2>3, TodoReminds
    <2>4. QED
        BY <1>3, <2>1, <2>2, <2>3
<1>10. QED
    BY <1>5, <1>7, <1>8, <1>9, StepReminds

-----------------------------------------------------------------------------
(* The whole invariant *)

LEMMA InitOrdered == Init => OrderInv
<1> SUFFICES ASSUME Init PROVE OrderInv
    OBVIOUS
<1>1. IInv
    BY InitKeeps
<1>2. \A w \in Worker : work[w].user = None
    BY DEF Init, Idle
<1>3. None \notin User
    BY ConstantsAssumption
<1>4. AloneInv /\ ExclusiveInv
    BY <1>2, <1>3 DEF Init, AloneInv, ExclusiveInv
<1>5. ASSUME NEW u \in User PROVE Agreed(u) /\ Past(u, info[u]) /\ Daily(u)
    BY <1>3, ConstantsAssumption DEF Init, Agreed, Agree, Named, Past, Daily
<1>6. AgreeInv /\ RemindedInv
    BY <1>2, <1>3, <1>5 DEF AgreeInv, RemindedInv
<1>7. QED
    BY <1>1, <1>4, <1>6 DEF OrderInv

LEMMA NextOrdered == OrderInv /\ [Next]_vars => OrderInv'
<1> SUFFICES ASSUME OrderInv, [Next]_vars PROVE OrderInv'
    OBVIOUS
<1>1. IInv'
    BY NextKeeps DEF OrderInv
<1>2. ASSUME NEW w \in Worker, Start(w) \/ Run(w) PROVE OrderInv'
    BY <1>1, <1>2, AloneKept, ExclusiveKept, StartAgrees, RunAgrees, StartReminds, RunReminds
    DEF OrderInv
<1>3. CASE UNCHANGED <<kv, work, history, faults>> /\ (UNCHANGED day \/ NextDay)
    <2>1. /\ info' = info /\ token' = token /\ name' = name /\ id' = id /\ work' = work
          /\ authorised' = authorised /\ reminded' = reminded /\ overlap' = overlap /\ odd' = odd
          /\ faults' = faults
        BY <1>3 DEF kv, history
    <2>2. IInv /\ day' \in Nat /\ day <= day'
        BY <1>3, ConstantsAssumption DEF OrderInv, IInv, TypeOK, NextDay
    <2>3. AloneInv' /\ ExclusiveInv'
        BY <2>1 DEF OrderInv, AloneInv, ExclusiveInv
    <2>4. ASSUME NEW u \in User
          PROVE  /\ Agreed(u) => Agreed(u)'
                 /\ Daily(u) => Daily(u)'
                 /\ Past(u, info[u]) => Past(u, info[u])'
                 /\ \A w \in Worker : work[w].user = u /\ Heading(w) => Heading(w)'
                 /\ \A w \in Worker : work[w].user = u /\ Reminding(w) => Reminding(w)'
        <3>1. Named(u)' = Named(u)
            BY <2>1 DEF Named
        <3>2. QED
            BY <2>1, <2>2, <3>1, ElsewhereAgrees, ElsewhereReminds
    <2>5. \A u \in User : Busy(u)' <=> Busy(u)
        BY <2>1 DEF Busy
    <2>6. AgreeInv'
        BY <2>1, <2>4, <2>5 DEF OrderInv, AgreeInv
    <2>7. RemindedInv'
        BY <2>1, <2>4, <2>5 DEF OrderInv, RemindedInv
    <2>8. QED
        BY <1>1, <2>3, <2>6, <2>7 DEF OrderInv
<1>4. NextDay => UNCHANGED <<kv, work, history, faults>>
    BY DEF NextDay
<1>5. UNCHANGED vars => UNCHANGED <<kv, work, history, faults>> /\ UNCHANGED day
    BY DEF vars
<1>6. QED
    BY <1>2, <1>3, <1>4, <1>5 DEF Next

\* The invariant is inductive: what a goroutine has left to write leads, from the entries as
\* they are, to entries that agree and to a time that is past all reminders.
THEOREM Ordered == Spec => []OrderInv
BY InitOrdered, NextOrdered, PTL DEF Spec

\* Connecting, disconnecting by any of the three ways, the settings commands and the
\* reminder, one after the other for a user, leave the info, the token and both mappings
\* in agreement.
THEOREM EntriesAgree == Spec => []ConnectionConsistent
<1>1. ASSUME OrderInv PROVE ConnectionConsistent
    <2>1. SUFFICES ASSUME faults = 0, NEW u \in User, u \notin overlap, u \notin odd, ~ Busy(u)
                   PROVE  /\ info[u] # None <=> u \in token
                          /\ \A a \in Account : name[a] = u <=> info[u] # None /\ info[u].account = a /\ info[u].notify
                          /\ info[u] # None => info[u].account \in id
        BY DEF ConnectionConsistent
    <2>2. Agreed(u)
        BY <1>1, <2>1 DEF OrderInv, AgreeInv
    <2>3. QED
        BY <2>2 DEF Agreed, Agree, Named
<1>2. QED
    BY <1>1, Ordered, PTL

\* The first time a user logs in on a day there is a reminder, and no second one on that
\* day, whatever the user connects, disconnects or sets in between.
THEOREM RemindedOnce == Spec => []OneReminderADay
<1>1. OrderInv => OneReminderADay
    BY DEF OrderInv, RemindedInv, Daily, OneReminderADay
<1>2. QED
    BY <1>1, Ordered, PTL
=============================================================================
