--------------------------- MODULE KeyRotationProofs ---------------------------
(***************************************************************************)
(* Proofs about KeyRotation, for any number of nodes, users, writers and   *)
(* faults: it implements UserTokens, and one rotation keeps the users and  *)
(* their tokens.                                                           *)
(***************************************************************************)
EXTENDS KeyRotation, FiniteSetTheorems, TLAPS

-----------------------------------------------------------------------------
(* The inductive invariant *)

\* A job that is about to write knows whose token, and which it has read.
JobInv ==
    \A j \in Job :
        /\ job[j].st \in {"swap", "drop"} => job[j].user \in User
        /\ job[j].st = "swap" => job[j].seen \in Cipher

\* A writer has a key, a node and a user.
WriterInv == \A w \in Writer : writer[w] # Idle => writer[w] \in [node : Node, user : User, key : Key]

\* The user's token is one of before the rotation, with the key of before.
Old(u) == store[u] # None /\ store[u].ver = 0 /\ store[u].key = 0

\* A job between its lock and its end; no job gets to "drop" while nothing fails.
Running(j) == job[j].st \in {"list", "next", "swap"}

\* What a job knows of the old tokens of the first page that are left: while it holds the
\* mutex nobody else touches them, so it has them on its list once it has fetched that page,
\* or is re-encrypting the one it has read.
OldKnown(j) ==
    /\ job[j].st = "list" /\ job[j].page # 0 =>
          \A u \in FirstPage : Old(u) => <<u, 0>> \in job[j].todo
    /\ job[j].st = "next" => \A u \in FirstPage : Old(u) => <<u, 0>> \in job[j].todo
    /\ job[j].st = "swap" => \A u \in FirstPage : Old(u) => <<u, 0>> \in job[j].todo \/ u = job[j].user
    /\ job[j].st = "swap" /\ Old(job[j].user) => store[job[j].user] = job[j].seen
    /\ job[j].st = "done" => \A u \in FirstPage : ~Old(u)

JobAlone(j) ==
    /\ job[j].st # "drop"
    /\ Running(j) => mutex = j
    /\ Running(j) \/ job[j].st = "wait" => job[j].prev = 0

OnceInv == Calm => dropped = {} /\ \A j \in Job : JobAlone(j) /\ OldKnown(j)

IInv == TypeOK /\ JobInv /\ WriterInv /\ OnceInv

-----------------------------------------------------------------------------
(* Types *)

LEMMA JobParts ==
  ASSUME NEW j \in Job
  PROVE  j[1] \in Node /\ j[2] \in 1 .. MaxKey /\ j[2] \in Key /\ j = <<j[1], j[2]>>
  BY ConstantsAssumption DEF Job, Key

JobRecord ==
    [st : {"none", "wait", "list", "next", "swap", "drop", "done"}, prev : Key \cup {None},
     page : Nat, todo : SUBSET (User \X Nat), user : User \cup {None}, seen : Cipher \cup {None}]

LEMMA InitInv == Init => IInv
<1> SUFFICES ASSUME Init PROVE IInv
  OBVIOUS
<1>1. TypeOK
  <2>1. 0 \in Key /\ 0 \in 0 .. MaxWrites /\ 0 \in 0 .. MaxFaults
    BY ConstantsAssumption DEF Key
  <2>2. NoJob \in JobRecord
    BY DEF NoJob, JobRecord
  <2>3. store \in [User -> Cipher \cup {None}]
    BY <2>1 DEF Init, Cipher
  <2>. QED BY <2>1, <2>2, <2>3 DEF Init, TypeOK, Idle, JobRecord
<1>2. JobInv /\ WriterInv
  BY DEF Init, JobInv, WriterInv, NoJob
<1>3. OnceInv
  BY DEF Init, OnceInv, JobAlone, OldKnown, Running, NoJob
<1>. QED BY <1>1, <1>2, <1>3 DEF IInv

-----------------------------------------------------------------------------
(* Each action keeps the invariant *)

\* While nothing becomes an old token, and no job changes, what is known of them stays.
LEMMA OnceSame ==
  ASSUME IInv, job' = job, mutex' = mutex, dropped' = dropped,
         Calm' => Calm, \A u \in User : store'[u] = store[u] \/ ~Old(u)'
  PROVE  OnceInv'
<1>. SUFFICES ASSUME Calm
              PROVE  dropped' = {} /\ \A j \in Job : JobAlone(j)' /\ OldKnown(j)'
  BY DEF OnceInv
<1>1. dropped = {} /\ \A j \in Job : JobAlone(j) /\ OldKnown(j)
  BY DEF IInv, OnceInv
<1>2. \A u \in User : Old(u)' => Old(u) /\ store'[u] = store[u]
  BY DEF Old
<1>3. ASSUME NEW j \in Job PROVE JobAlone(j)' /\ OldKnown(j)'
  <2>1. JobAlone(j)'
    BY <1>1 DEF JobAlone, Running
  <2>2. job[j].st = "swap" => job[j].user \in User
    BY DEF IInv, JobInv
  <2>3. OldKnown(j)'
    BY <1>1, <1>2, <2>2 DEF OldKnown, FirstPage
  <2>. QED BY <2>1, <2>3
<1>. QED BY <1>1, <1>3

LEMMA RotateInv == IInv /\ Rotate => IInv'
<1> SUFFICES ASSUME IInv, Rotate PROVE IInv'
  OBVIOUS
<1>1. TypeOK'
  BY ConstantsAssumption DEF IInv, TypeOK, Rotate, Key
<1>2. JobInv' /\ WriterInv'
  BY DEF IInv, JobInv, WriterInv, Rotate
<1>3. OnceInv'
  BY OnceSame DEF Rotate, Calm
<1>. QED BY <1>1, <1>2, <1>3 DEF IInv

LEMMA OnConfigurationChangeInv ==
  ASSUME IInv, NEW n \in Node, OnConfigurationChange(n)
  PROVE  IInv'
<1>1. CASE /\ cfg[n].key # setting
           /\ cfg' = [cfg EXCEPT ![n] = [key |-> setting, prev |-> cfg[n].key]]
           /\ job' = [job EXCEPT ![<<n, setting>>].st = "wait", ![<<n, setting>>].prev = cfg[n].key]
  <2>0. UNCHANGED <<setting, refused, store, mutex, writer, last, dropped, faults>>
    BY DEF OnConfigurationChange
  <2>1. setting \in Key /\ cfg[n].key \in Key
    BY DEF IInv, TypeOK
  <2>2. ASSUME NEW j \in Job
        PROVE  job'[j] = IF j = <<n, setting>>
                         THEN [job[j] EXCEPT !.st = "wait", !.prev = cfg[n].key] ELSE job[j]
    BY <1>1 DEF IInv, TypeOK
  <2>3. TypeOK'
    <3>1. job' \in [Job -> JobRecord]
      <4>1. job' = [j \in Job |-> job'[j]]
        <5> DEFINE f == [job EXCEPT ![<<n, setting>>].st = "wait"]
        <5>1. job = [j \in Job |-> job[j]]
          BY DEF IInv, TypeOK
        <5>2. f = [j \in Job |-> f[j]]
          BY <5>1
        <5>3. job' = [f EXCEPT ![<<n, setting>>].prev = cfg[n].key]
          BY <1>1
        <5> HIDE DEF f
        <5>. QED BY <5>2, <5>3
      <4>2. ASSUME NEW j \in Job PROVE job'[j] \in JobRecord
        <5>1. job[j] \in JobRecord
          BY DEF IInv, TypeOK, JobRecord
        <5>2. [job[j] EXCEPT !.st = "wait", !.prev = cfg[n].key] \in JobRecord
          BY <5>1, <2>1 DEF JobRecord
        <5>. QED BY <5>1, <5>2, <2>2
      <4>. QED BY <4>1, <4>2
    <3>. QED BY <1>1, <2>0, <2>1, <3>1 DEF IInv, TypeOK, JobRecord
  <2>4. JobInv'
    BY <2>2 DEF IInv, TypeOK, JobInv
  <2>5. WriterInv'
    BY <2>0 DEF IInv, WriterInv
  <2>6. OnceInv'
    <3> SUFFICES ASSUME Calm
                 PROVE  dropped' = {} /\ \A j \in Job : JobAlone(j)' /\ OldKnown(j)'
      BY <2>0 DEF OnceInv, Calm
    <3>1. dropped = {} /\ \A j \in Job : JobAlone(j) /\ OldKnown(j)
      BY DEF IInv, OnceInv
    <3>2. ASSUME NEW j \in Job PROVE JobAlone(j)' /\ OldKnown(j)'
      <4>1. CASE j = <<n, setting>>
        <5>1. job'[j].st = "wait" /\ job'[j].prev = cfg[n].key
          BY <2>2, <4>1 DEF IInv, TypeOK
        <5>2. cfg[n].key = 0
          BY <1>1, <2>1, <4>1, JobParts DEF Key, Calm
        <5>. QED BY <5>1, <5>2 DEF JobAlone, OldKnown, Running
      <4>2. CASE j # <<n, setting>>
        BY <2>0, <2>2, <3>1, <4>2 DEF JobAlone, OldKnown, Running, Old
      <4>. QED BY <4>1, <4>2
    <3>. QED BY <2>0, <3>1, <3>2
  <2>. QED BY <2>3, <2>4, <2>5, <2>6 DEF IInv
<1>2. CASE cfg' = [cfg EXCEPT ![n].prev = None] /\ UNCHANGED job
  <2>1. TypeOK'
    BY <1>2 DEF IInv, TypeOK, OnConfigurationChange
  <2>2. JobInv' /\ WriterInv'
    BY <1>2 DEF IInv, JobInv, WriterInv, OnConfigurationChange
  <2>3. OnceInv'
    BY <1>2, OnceSame DEF OnConfigurationChange, Calm
  <2>. QED BY <2>1, <2>2, <2>3 DEF IInv
<1>. QED BY <1>1, <1>2 DEF OnConfigurationChange

\* A fault ends what is said of rotations without one.
LEMMA FaultInv ==
  ASSUME TypeOK, faults' = faults + 1
  PROVE  OnceInv'
  BY ConstantsAssumption DEF TypeOK, OnceInv, Calm

LEMMA RestartInv ==
  ASSUME IInv, NEW n \in Node, Restart(n)
  PROVE  IInv'
<1>1. TypeOK'
  <2>1. NoJob \in JobRecord
    BY DEF NoJob, JobRecord
  <2>2. Idle \in [node : Node \cup {None}, user : User \cup {None}, key : Key \cup {None}]
    BY DEF Idle
  <2>3. faults' \in 0 .. MaxFaults
    BY ConstantsAssumption DEF IInv, TypeOK, Restart
  <2>4. job' \in [Job -> JobRecord]
    BY <2>1 DEF IInv, TypeOK, Restart, JobRecord
  <2>5. writer' \in [Writer -> [node : Node \cup {None}, user : User \cup {None}, key : Key \cup {None}]]
    BY <2>2 DEF IInv, TypeOK, Restart
  <2>6. setting' \in Key /\ refused' \subseteq Key /\ cfg' \in [Node -> [key : Key, prev : Key \cup {None}]]
    BY DEF IInv, TypeOK, Restart
  <2>7. UNCHANGED <<store, last, dropped>> /\ mutex' \in Job \cup {None}
    BY DEF IInv, TypeOK, Restart
  <2>. QED BY <2>3, <2>4, <2>5, <2>6, <2>7 DEF IInv, TypeOK, JobRecord
<1>2. JobInv'
  BY DEF IInv, TypeOK, JobInv, Restart, NoJob
<1>3. WriterInv'
  BY DEF IInv, TypeOK, WriterInv, Restart
<1>4. OnceInv'
  BY FaultInv DEF IInv, Restart
<1>. QED BY <1>1, <1>2, <1>3, <1>4 DEF IInv

\* One job goes on: what holds of the others, while nothing becomes an old token and the mutex
\* is this job's before and after, or is free on one side.
LEMMA OnceStep ==
  ASSUME IInv, NEW j \in Job, NEW r, job' = [job EXCEPT ![j] = r], dropped' = dropped,
         mutex = j \/ mutex = None,
         \A u \in User : store'[u] = store[u] \/ ~Old(u)',
         Calm => JobAlone(j)' /\ OldKnown(j)',
         faults' = faults, refused' = refused
  PROVE  OnceInv'
<1>. SUFFICES ASSUME Calm
              PROVE  dropped' = {} /\ \A i \in Job : JobAlone(i)' /\ OldKnown(i)'
  BY DEF OnceInv, Calm
<1>1. dropped = {} /\ \A i \in Job : JobAlone(i) /\ OldKnown(i)
  BY DEF IInv, OnceInv
<1>2. \A u \in User : Old(u)' => Old(u) /\ store'[u] = store[u]
  BY DEF Old
<1>3. ASSUME NEW i \in Job, i # j PROVE JobAlone(i)' /\ OldKnown(i)'
  <2>1. job'[i] = job[i]
    BY <1>3 DEF IInv, TypeOK
  <2>2. ~Running(i)
    BY <1>1, <1>3, ConstantsAssumption DEF JobAlone
  <2>3. JobAlone(i)'
    BY <1>1, <2>1, <2>2 DEF JobAlone, Running
  <2>4. OldKnown(i)'
    BY <1>1, <1>2, <2>1, <2>2 DEF OldKnown, Running, FirstPage
  <2>. QED BY <2>3, <2>4
<1>. QED BY <1>1, <1>3

\* The types of a step that changes one job.
LEMMA JobStep ==
  ASSUME IInv, NEW j \in Job, NEW r \in JobRecord, job' = [job EXCEPT ![j] = r],
         r.st \in {"swap", "drop"} => r.user \in User, r.st = "swap" => r.seen \in Cipher
  PROVE  job' \in [Job -> JobRecord] /\ JobInv'
<1>1. job \in [Job -> JobRecord]
  BY DEF IInv, TypeOK, JobRecord
<1>2. job' \in [Job -> JobRecord]
  BY <1>1
<1>3. JobInv'
  BY <1>1 DEF IInv, JobInv
<1>. QED BY <1>2, <1>3

LEMMA LockJobInv ==
  ASSUME IInv, NEW j \in Job, LockJob(j)
  PROVE  IInv'
<1> DEFINE r == [job[j] EXCEPT !.st = "list", !.page = 0]
<1>0. UNCHANGED <<setting, refused, cfg, store, writer, last, dropped, faults>> /\ mutex = None /\ mutex' = j
      /\ job[j].st = "wait" /\ job' = [job EXCEPT ![j] = r]
  BY DEF LockJob, AtLabel, IInv, TypeOK
<1>1. r \in JobRecord /\ r.st = "list" /\ r.page = 0
  BY DEF IInv, TypeOK, JobRecord
<1>2. r.prev = job[j].prev
  BY DEF IInv, TypeOK
<1>3. job'[j] = r
  BY <1>0 DEF IInv, TypeOK
<1> HIDE DEF r
<1>4. job' \in [Job -> JobRecord] /\ JobInv'
  BY <1>0, <1>1, JobStep
<1>5. TypeOK' /\ WriterInv'
  BY <1>0, <1>4 DEF IInv, TypeOK, WriterInv, JobRecord
<1>6. OnceInv'
  <2>1. Calm => JobAlone(j)' /\ OldKnown(j)'
    <3> SUFFICES ASSUME Calm PROVE JobAlone(j)' /\ OldKnown(j)'
      OBVIOUS
    <3>1. job[j].prev = 0
      BY <1>0 DEF IInv, OnceInv, JobAlone
    <3>2. job'[j].st = "list" /\ job'[j].page = 0 /\ job'[j].prev = 0 /\ mutex' = j
      BY <1>0, <1>1, <1>2, <1>3, <3>1
    <3>. QED BY <3>2 DEF JobAlone, OldKnown, Running
  <2>. QED BY <1>0, <2>1, OnceStep
<1>. QED BY <1>4, <1>5, <1>6 DEF IInv

\* A token of the first page is on it whatever other keys come and go.
LEMMA OnFirstPage ==
  ASSUME NEW u \in FirstPage, store[u] # None, NEW o \in SUBSET Others
  PROVE  u \in OnPage(0, o)
<1> DEFINE A == {v \in User : store[v] # None /\ Place[v] < Place[u]}
           B == {v \in User : Place[v] < Place[u]}
           C == {x \in o : x < Place[u]}
           D == {x \in Others : x < Place[u]}
<1>1. IsFiniteSet(B) /\ IsFiniteSet(D) /\ A \subseteq B /\ C \subseteq D
  BY ConstantsAssumption, FS_Subset
<1>2. IsFiniteSet(A) /\ Cardinality(A) <= Cardinality(B)
  BY <1>1, FS_Subset
<1>3. IsFiniteSet(C) /\ Cardinality(C) <= Cardinality(D)
  BY <1>1, FS_Subset
<1>4. Cardinality(A) \in Nat /\ Cardinality(B) \in Nat /\ Cardinality(C) \in Nat /\ Cardinality(D) \in Nat
  BY <1>1, <1>2, <1>3, FS_CardinalityType
<1>5. u \in User /\ Cardinality(B) + Cardinality(D) < PageSize
  BY DEF FirstPage
<1>6. Before(u, o) = Cardinality(A) + Cardinality(C)
  BY DEF Before
<1>7. PageSize \in Nat /\ 0 * PageSize = 0 /\ (0 + 1) * PageSize = PageSize
  BY ConstantsAssumption
<1> HIDE DEF A, B, C, D
<1>8. 0 <= Before(u, o) /\ Before(u, o) < PageSize
  BY <1>2, <1>3, <1>4, <1>5, <1>6, <1>7
<1>. QED BY <1>5, <1>7, <1>8 DEF OnPage

LEMMA ListKeysInv ==
  ASSUME IInv, NEW j \in Job, ListKeys(j)
  PROVE  IInv'
<1>0. UNCHANGED <<setting, refused, cfg, store, mutex, writer, last, dropped>> /\ job[j].st = "list"
  BY DEF ListKeys, AtLabel
<1>1. job[j].page \in Nat
  BY DEF IInv, TypeOK
<1>2. ASSUME NEW o \in SUBSET Others, UNCHANGED faults, NEW n \in Nat, NEW l \in {"list", "next"},
             job' = [job EXCEPT ![j].todo = @ \cup (OnPage(job[j].page, o) \X {job[j].page}),
                                ![j].page = n, ![j].st = l]
      PROVE  IInv'
  <2> DEFINE more == OnPage(job[j].page, o) \X {job[j].page}
  <2>1. more \in SUBSET (User \X Nat)
    BY <1>1 DEF OnPage
  <2>2. \A u \in FirstPage : Old(u) /\ job[j].page = 0 => <<u, 0>> \in more
    BY OnFirstPage DEF Old
  <2>a. job' = [job EXCEPT ![j].todo = @ \cup more, ![j].page = n, ![j].st = l]
    BY <1>2
  <2> HIDE DEF more
  <2> DEFINE r == [job[j] EXCEPT !.todo = @ \cup more, !.page = n, !.st = l]
  <2>b. /\ r \in JobRecord /\ r.st = l /\ r.page = n /\ r.prev = job[j].prev
        /\ r.todo = job[j].todo \cup more
    <3>1. job[j] \in JobRecord
      BY DEF IInv, TypeOK, JobRecord
    <3>. QED BY <1>2, <2>1, <3>1 DEF JobRecord
  <2>c. job' = [job EXCEPT ![j] = r]
    BY <2>a DEF IInv, TypeOK
  <2>d. job'[j] = r
    BY <2>c DEF IInv, TypeOK
  <2> HIDE DEF r
  <2>e. job' \in [Job -> JobRecord] /\ JobInv'
    BY <1>2, <2>b, <2>c, JobStep
  <2>3. /\ job' \in [Job -> JobRecord] /\ JobInv'
        /\ \E s : job' = [job EXCEPT ![j] = s]
        /\ job'[j].st = l /\ job'[j].page = n /\ job'[j].prev = job[j].prev
        /\ job'[j].todo = job[j].todo \cup more
    BY <2>b, <2>c, <2>d, <2>e
  <2>4. TypeOK' /\ WriterInv'
    BY <1>0, <1>2, <2>3 DEF IInv, TypeOK, WriterInv, JobRecord
  <2>5. ASSUME Calm PROVE mutex = j /\ JobAlone(j)' /\ OldKnown(j)'
    <3>1. JobAlone(j) /\ OldKnown(j)
      BY <2>5 DEF IInv, OnceInv
    <3>2. mutex = j /\ job[j].prev = 0
      BY <1>0, <3>1 DEF JobAlone, Running
    <3>3. JobAlone(j)'
      BY <1>0, <1>2, <2>3, <3>2 DEF JobAlone, Running
    <3>4. \A u \in FirstPage : Old(u)' => <<u, 0>> \in job'[j].todo
      <4>1. \A u \in FirstPage : Old(u)' <=> Old(u)
        BY <1>0 DEF Old
      <4>2. CASE job[j].page = 0
        BY <2>2, <2>3, <4>1, <4>2
      <4>3. CASE job[j].page # 0
        BY <1>0, <2>3, <3>1, <4>1, <4>3 DEF OldKnown
      <4>. QED BY <4>2, <4>3
    <3>5. OldKnown(j)'
      BY <1>2, <2>3, <3>4 DEF OldKnown
    <3>. QED BY <3>2, <3>3, <3>5
  <2>6. OnceInv'
    <3>1. CASE Calm
      BY <1>0, <1>2, <2>3, <2>5, <3>1, OnceStep
    <3>2. CASE ~Calm
      BY <1>0, <1>2, <3>2 DEF OnceInv, Calm
    <3>. QED BY <3>1, <3>2
  <2>. QED BY <2>3, <2>4, <2>6 DEF IInv
<1>3. ASSUME faults < MaxFaults, faults' = faults + 1,
             job' = [job EXCEPT ![j].page = 0, ![j].st = "next"]
      PROVE  IInv'
  <2> DEFINE r == [job[j] EXCEPT !.page = 0, !.st = "next"]
  <2>1. job[j] \in JobRecord
    BY DEF IInv, TypeOK, JobRecord
  <2>2. r \in JobRecord /\ r.st = "next"
    BY <2>1 DEF JobRecord
  <2>3. job' = [job EXCEPT ![j] = r]
    BY <1>3 DEF IInv, TypeOK
  <2> HIDE DEF r
  <2>4. job' \in [Job -> JobRecord] /\ JobInv'
    BY <2>2, <2>3, JobStep
  <2>5. faults' \in 0 .. MaxFaults
    BY <1>3, ConstantsAssumption DEF IInv, TypeOK
  <2>6. TypeOK' /\ WriterInv'
    BY <1>0, <2>4, <2>5 DEF IInv, TypeOK, WriterInv, JobRecord
  <2>7. OnceInv'
    BY <1>3, FaultInv DEF IInv
  <2>. QED BY <2>4, <2>6, <2>7 DEF IInv
<1>4. CASE UNCHANGED faults /\ \E o \in SUBSET Others :
              LET found == OnPage(job[j].page, o)
                  isLast == Cardinality(found) < PageSize IN
              job' = [job EXCEPT ![j].todo = @ \cup (found \X {job[j].page}),
                                 ![j].page = IF isLast THEN 0 ELSE @ + 1,
                                 ![j].st = IF isLast THEN "next" ELSE "list"]
  <2>1. PICK o \in SUBSET Others :
              LET found == OnPage(job[j].page, o)
                  isLast == Cardinality(found) < PageSize IN
              job' = [job EXCEPT ![j].todo = @ \cup (found \X {job[j].page}),
                                 ![j].page = IF isLast THEN 0 ELSE @ + 1,
                                 ![j].st = IF isLast THEN "next" ELSE "list"]
    BY <1>4
  <2>2. job[j].page + 1 \in Nat /\ 0 \in Nat
    BY <1>1
  <2>3. CASE Cardinality(OnPage(job[j].page, o)) < PageSize
    <3>1. job' = [job EXCEPT ![j].todo = @ \cup (OnPage(job[j].page, o) \X {job[j].page}),
                             ![j].page = 0, ![j].st = "next"]
      BY <2>1, <2>3
    <3>. QED BY <1>2, <1>4, <2>2, <3>1
  <2>4. CASE ~(Cardinality(OnPage(job[j].page, o)) < PageSize)
    <3>1. job' = [job EXCEPT ![j].todo = @ \cup (OnPage(job[j].page, o) \X {job[j].page}),
                             ![j].page = @ + 1, ![j].st = "list"]
      BY <2>1, <2>4
    <3>2. job' = [job EXCEPT ![j].todo = @ \cup (OnPage(job[j].page, o) \X {job[j].page}),
                             ![j].page = job[j].page + 1, ![j].st = "list"]
      BY <3>1 DEF IInv, TypeOK
    <3>. QED BY <1>2, <1>4, <2>2, <3>2
  <2>. QED BY <2>3, <2>4
<1>. QED BY <1>3, <1>4 DEF ListKeys

\* With one rotation there are two keys: what is not encrypted with the new one can be
\* decrypted with the fallback key, so a job finds nothing to drop.
LEMMA OneRotationDecides ==
  ASSUME IInv, Calm, NEW j \in Job, job[j].prev = 0, NEW u \in User
  PROVE  /\ Decide(j, store[u]) \in {"next", "swap"}
         /\ Decide(j, store[u]) = "next" => ~Old(u)
<1>1. j[2] = 1
  BY JobParts DEF Calm
<1>2. CASE store[u] = None
  BY <1>2 DEF Decide, Old
<1>3. CASE store[u] # None
  <2>1. store[u] \in Cipher
    BY <1>3 DEF IInv, TypeOK
  <2>2. store[u].key \in {0, 1}
    BY <2>1 DEF Cipher, Key, Calm
  <2>3. CASE store[u].key = 1
    BY <1>1, <1>3, <2>3 DEF Decide, Decrypt, Old
  <2>4. CASE store[u].key = 0
    BY <1>1, <1>3, <2>4 DEF Decide, Decrypt, Old
  <2>. QED BY <2>2, <2>3, <2>4
<1>. QED BY <1>2, <1>3

LEMMA ReadOneInv ==
  ASSUME IInv, NEW j \in Job, ReadOne(j)
  PROVE  IInv'
<1>0. UNCHANGED <<setting, refused, cfg, store, mutex, writer, last, dropped>> /\ job[j].st = "next"
  BY DEF ReadOne, AtLabel
<1>k. ASSUME NEW k \in job[j].todo PROVE k \in User \X Nat /\ k[1] \in User
  BY DEF IInv, TypeOK
<1>1. ASSUME NEW k \in job[j].todo, NEW u \in User, u = k[1], UNCHANGED faults,
             job' = [job EXCEPT ![j].todo = @ \ {k}, ![j].user = u, ![j].seen = store[u],
                                ![j].st = Decide(j, store[u])]
      PROVE  IInv'
  <2> DEFINE r == [job[j] EXCEPT !.todo = @ \ {k}, !.user = u, !.seen = store[u],
                                 !.st = Decide(j, store[u])]
  <2>1. job[j] \in JobRecord
    BY DEF IInv, TypeOK, JobRecord
  <2>2. Decide(j, store[u]) \in {"next", "swap", "drop"}
    BY DEF Decide
  <2>3. Decide(j, store[u]) = "swap" => store[u] \in Cipher
    BY DEF Decide, IInv, TypeOK
  <2>4. /\ r \in JobRecord /\ r.st = Decide(j, store[u]) /\ r.todo = job[j].todo \ {k}
        /\ r.user = u /\ r.seen = store[u] /\ r.prev = job[j].prev
    <3>1. store[u] \in Cipher \cup {None}
      BY DEF IInv, TypeOK
    <3>. QED BY <2>1, <2>2, <3>1 DEF JobRecord
  <2>5. job' = [job EXCEPT ![j] = r]
    BY <1>1 DEF IInv, TypeOK
  <2>6. job'[j] = r
    BY <2>5 DEF IInv, TypeOK
  <2> HIDE DEF r
  <2>7. job' \in [Job -> JobRecord] /\ JobInv'
    BY <2>3, <2>4, <2>5, JobStep
  <2>8. TypeOK' /\ WriterInv'
    BY <1>0, <1>1, <2>7 DEF IInv, TypeOK, WriterInv, JobRecord
  <2>9. OnceInv'
    <3>1. ASSUME Calm PROVE mutex = j /\ JobAlone(j)' /\ OldKnown(j)'
      <4>1. JobAlone(j) /\ OldKnown(j)
        BY <3>1 DEF IInv, OnceInv
      <4>2. mutex = j /\ job[j].prev = 0
        BY <1>0, <4>1 DEF JobAlone, Running
      <4>3. \A v \in FirstPage : Old(v) => <<v, 0>> \in job[j].todo
        BY <1>0, <4>1 DEF OldKnown
      <4>4. Decide(j, store[u]) \in {"next", "swap"} /\ (Decide(j, store[u]) = "next" => ~Old(u))
        BY <3>1, <4>2, OneRotationDecides
      <4>5. JobAlone(j)'
        BY <1>0, <2>4, <2>6, <4>2, <4>4 DEF JobAlone, Running
      <4>6. \A v \in User : Old(v)' <=> Old(v)
        BY <1>0 DEF Old
      <4>7. \A v \in FirstPage : Old(v) => <<v, 0>> \in r.todo \/ v = u
        BY <1>1, <2>4, <4>3
      <4>8. store'[u] = store[u] /\ r.user = u /\ r.seen = store[u]
        BY <1>0, <2>4
      <4>9. r.st \in {"next", "swap"} /\ (r.st = "next" => ~Old(u))
        BY <2>4, <4>4
      <4>10. \A v \in FirstPage : v \in User
        BY DEF FirstPage
      <4>11. \A v \in FirstPage : Old(v)' => <<v, 0>> \in job'[j].todo \/ v = u
        BY <2>6, <4>6, <4>7, <4>10
      <4>12. job'[j].st = "next" => \A v \in FirstPage : Old(v)' => <<v, 0>> \in job'[j].todo
        BY <2>6, <4>6, <4>9, <4>11
      <4>13. job'[j].st \in {"next", "swap"} /\ job'[j].user = u /\ store'[job'[j].user] = job'[j].seen
        BY <2>6, <4>8, <4>9
      <4>14. OldKnown(j)'
        BY <4>11, <4>12, <4>13 DEF OldKnown
      <4>. QED BY <4>2, <4>5, <4>14
    <3>2. CASE Calm
      BY <1>0, <1>1, <2>5, <3>1, <3>2, OnceStep
    <3>3. CASE ~Calm
      BY <1>0, <1>1, <3>3 DEF OnceInv, Calm
    <3>. QED BY <3>2, <3>3
  <2>. QED BY <2>7, <2>8, <2>9 DEF IInv
<1>2. ASSUME NEW k \in job[j].todo, NEW u \in User, faults < MaxFaults, faults' = faults + 1,
             job' = [job EXCEPT ![j].todo = @ \ {k}, ![j].user = u, ![j].st = "drop"]
      PROVE  IInv'
  <2> DEFINE r == [job[j] EXCEPT !.todo = @ \ {k}, !.user = u, !.st = "drop"]
  <2>0. job[j] \in JobRecord
    BY DEF IInv, TypeOK, JobRecord
  <2>1. r \in JobRecord /\ r.st = "drop" /\ r.user = u
    BY <2>0 DEF JobRecord
  <2>2. job' = [job EXCEPT ![j] = r]
    BY <1>2 DEF IInv, TypeOK
  <2> HIDE DEF r
  <2>3. job' \in [Job -> JobRecord] /\ JobInv'
    BY <2>1, <2>2, JobStep
  <2>4. faults' \in 0 .. MaxFaults
    BY <1>2, ConstantsAssumption DEF IInv, TypeOK
  <2>5. TypeOK' /\ WriterInv'
    BY <1>0, <2>3, <2>4 DEF IInv, TypeOK, WriterInv, JobRecord
  <2>6. OnceInv'
    BY <1>2, FaultInv DEF IInv
  <2>. QED BY <2>3, <2>5, <2>6 DEF IInv
<1>3. PICK k \in job[j].todo : LET u == k[1] IN
        \/ /\ job' = [job EXCEPT ![j].todo = @ \ {k}, ![j].user = u, ![j].seen = store[u],
                                  ![j].st = Decide(j, store[u])]
           /\ UNCHANGED faults
        \/ /\ faults < MaxFaults
           /\ faults' = faults + 1
           /\ job' = [job EXCEPT ![j].todo = @ \ {k}, ![j].user = u, ![j].st = "drop"]
  BY DEF ReadOne, FirstOf
<1>4. PICK u \in User : u = k[1]
  BY <1>k
<1>5. CASE /\ UNCHANGED faults
           /\ job' = [job EXCEPT ![j].todo = @ \ {k}, ![j].user = u, ![j].seen = store[u],
                                 ![j].st = Decide(j, store[u])]
  BY <1>1, <1>4, <1>5
<1>6. CASE /\ faults < MaxFaults /\ faults' = faults + 1
           /\ job' = [job EXCEPT ![j].todo = @ \ {k}, ![j].user = u, ![j].st = "drop"]
  BY <1>2, <1>6
<1>. QED BY <1>3, <1>4, <1>5, <1>6

\* A job at "swap" or "drop" goes to its next label, and changes nothing else of itself.
LEMMA RelabelInv ==
  ASSUME IInv, NEW j \in Job, job[j].st \in {"swap", "drop"}, NEW l \in {"next", "drop"},
         job' = [job EXCEPT ![j].st = l]
  PROVE  /\ job' \in [Job -> JobRecord] /\ JobInv'
         /\ job' = [job EXCEPT ![j] = [job[j] EXCEPT !.st = l]]
         /\ job'[j] = [job[j] EXCEPT !.st = l]
         /\ job'[j].st = l /\ job'[j].todo = job[j].todo /\ job'[j].prev = job[j].prev
<1> DEFINE r == [job[j] EXCEPT !.st = l]
<1>1. /\ r \in JobRecord /\ r.st = l /\ r.user = job[j].user
      /\ r.todo = job[j].todo /\ r.prev = job[j].prev
  BY DEF IInv, TypeOK, JobRecord
<1>2. job' = [job EXCEPT ![j] = r]
  BY DEF IInv, TypeOK
<1>3. job'[j] = r
  BY <1>2 DEF IInv, TypeOK
<1>4. job[j].user \in User
  BY DEF IInv, JobInv
<1> HIDE DEF r
<1>5. job' \in [Job -> JobRecord] /\ JobInv'
  BY <1>1, <1>2, <1>4, JobStep
<1>6. job'[j].st = l /\ job'[j].todo = job[j].todo /\ job'[j].prev = job[j].prev
  BY <1>1, <1>3
<1>. QED BY <1>2, <1>3, <1>5, <1>6 DEF r

LEMMA CompareAndSetInv ==
  ASSUME IInv, NEW j \in Job, CompareAndSet(j)
  PROVE  IInv'
<1>0. UNCHANGED <<setting, refused, cfg, mutex, writer, last, dropped>> /\ job[j].st = "swap"
  BY DEF CompareAndSet, AtLabel
<1>1. job[j].user \in User /\ job[j].seen \in Cipher /\ j[2] \in Key
  BY <1>0, JobParts DEF IInv, JobInv
<1>u. PICK u \in User : u = job[j].user
  BY <1>1
<1>2. WriterInv'
  BY <1>0 DEF IInv, WriterInv
<1>3. ASSUME UNCHANGED faults, job' = [job EXCEPT ![j].st = "next"],
             store' \in [User -> Cipher \cup {None}],
             \A v \in User \ {u} : store'[v] = store[v],
             Calm => ~Old(u)'
      PROVE  IInv'
  <2>1. job' \in [Job -> JobRecord] /\ JobInv' /\ job'[j].st = "next"
        /\ job'[j].todo = job[j].todo /\ job'[j].prev = job[j].prev
    BY <1>0, <1>3, RelabelInv
  <2>2. TypeOK'
    BY <1>0, <1>3, <2>1 DEF IInv, TypeOK, JobRecord
  <2>3. OnceInv'
    <3>1. ASSUME Calm PROVE mutex = j /\ JobAlone(j)' /\ OldKnown(j)'
      <4>1. JobAlone(j) /\ OldKnown(j)
        BY <3>1 DEF IInv, OnceInv
      <4>2. mutex = j /\ job[j].prev = 0 /\ \A v \in FirstPage : Old(v) => <<v, 0>> \in job[j].todo \/ v = u
        BY <1>0, <1>u, <4>1 DEF JobAlone, OldKnown, Running
      <4>3. JobAlone(j)'
        BY <1>0, <2>1, <4>2 DEF JobAlone, Running
      <4>4. \A v \in User : Old(v)' => v # u /\ Old(v)
        BY <1>3, <3>1 DEF Old
      <4>5. \A v \in FirstPage : Old(v)' => <<v, 0>> \in job'[j].todo
        BY <2>1, <4>2, <4>4 DEF FirstPage
      <4>6. OldKnown(j)'
        BY <2>1, <4>5 DEF OldKnown
      <4>. QED BY <4>2, <4>3, <4>6
    <3>2. CASE Calm
      <4>1. \A v \in User : store'[v] = store[v] \/ ~Old(v)'
        BY <1>3, <3>2
      <4>2. job' = [job EXCEPT ![j] = [job[j] EXCEPT !.st = "next"]]
        BY <1>0, <1>3, RelabelInv
      <4>. QED BY <1>0, <1>3, <3>1, <3>2, <4>1, <4>2, OnceStep
    <3>3. CASE ~Calm
      BY <1>0, <1>3, <3>3 DEF OnceInv, Calm
    <3>. QED BY <3>2, <3>3
  <2>. QED BY <1>2, <2>1, <2>2, <2>3 DEF IInv
<1>4. ASSUME NEW p \in Pads,
             store' = [store EXCEPT ![u] = [key |-> j[2], ver |-> job[j].seen.ver, pads |-> p]],
             job' = [job EXCEPT ![j].st = "next"], UNCHANGED faults
      PROVE  IInv'
  <2>1. [key |-> j[2], ver |-> job[j].seen.ver, pads |-> p] \in Cipher
    BY <1>1 DEF Cipher
  <2>2. store' \in [User -> Cipher \cup {None}]
    BY <1>1, <1>4, <2>1 DEF IInv, TypeOK
  <2>3. store'[u].key = j[2]
    BY <1>1, <1>4 DEF IInv, TypeOK
  <2>4. MaxKey = 1 => j[2] = 1
    BY JobParts
  <2>5. Calm => ~Old(u)'
    BY <2>3, <2>4 DEF Old, Calm
  <2>6. \A v \in User \ {u} : store'[v] = store[v]
    BY <1>4 DEF IInv, TypeOK
  <2>. QED BY <1>3, <1>4, <2>2, <2>5, <2>6
<1>5. CASE store[u] # job[j].seen /\ job' = [job EXCEPT ![j].st = "next"] /\ UNCHANGED <<store, faults>>
  <2>1. Calm => ~Old(u)
    BY <1>0, <1>u, <1>5 DEF IInv, OnceInv, OldKnown
  <2>2. Calm => ~Old(u)'
    BY <1>5, <2>1 DEF Old
  <2>3. store' \in [User -> Cipher \cup {None}]
    BY <1>5 DEF IInv, TypeOK
  <2>. QED BY <1>3, <1>5, <2>2, <2>3
<1>6. CASE /\ faults < MaxFaults /\ faults' = faults + 1
           /\ job' = [job EXCEPT ![j].st = "drop"] /\ UNCHANGED store
  <2>1. job' \in [Job -> JobRecord] /\ JobInv'
    BY <1>0, <1>6, RelabelInv
  <2>2. faults' \in 0 .. MaxFaults
    BY <1>6, ConstantsAssumption DEF IInv, TypeOK
  <2>3. TypeOK'
    BY <1>0, <1>6, <2>1, <2>2 DEF IInv, TypeOK, JobRecord
  <2>4. OnceInv'
    BY <1>6, FaultInv DEF IInv
  <2>. QED BY <1>2, <2>1, <2>3, <2>4 DEF IInv
<1>7. CASE /\ j[2] \in refused
           /\ job' = [job EXCEPT ![j].st = "drop"] /\ UNCHANGED <<store, faults>>
  <2>1. job' \in [Job -> JobRecord] /\ JobInv'
    BY <1>0, <1>7, RelabelInv
  <2>2. TypeOK'
    BY <1>0, <1>7, <2>1 DEF IInv, TypeOK, JobRecord
  <2>3. OnceInv'
    BY <1>0, <1>7 DEF OnceInv, Calm
  <2>. QED BY <1>2, <2>1, <2>2, <2>3 DEF IInv
<1>8. \/ j[2] \in refused /\ job' = [job EXCEPT ![j].st = "drop"] /\ UNCHANGED <<store, faults>>
      \/ /\ UNCHANGED faults /\ job' = [job EXCEPT ![j].st = "next"]
         /\ \E p \in Pads :
              store' = [store EXCEPT ![u] = [key |-> j[2], ver |-> job[j].seen.ver, pads |-> p]]
      \/ store[u] # job[j].seen /\ job' = [job EXCEPT ![j].st = "next"] /\ UNCHANGED <<store, faults>>
      \/ /\ faults < MaxFaults /\ faults' = faults + 1
         /\ job' = [job EXCEPT ![j].st = "drop"] /\ UNCHANGED store
  BY <1>u DEF CompareAndSet
<1>. QED BY <1>4, <1>5, <1>6, <1>7, <1>8

LEMMA ForceDisconnectInv ==
  ASSUME IInv, NEW j \in Job, ForceDisconnect(j)
  PROVE  IInv'
<1>0. UNCHANGED <<setting, refused, cfg, mutex, writer, last>> /\ job[j].st = "drop"
  BY DEF ForceDisconnect, AtLabel
<1>1. job[j].user \in User
  BY <1>0 DEF IInv, JobInv
<1>2. job' \in [Job -> JobRecord] /\ JobInv'
  BY <1>0, RelabelInv DEF ForceDisconnect
<1>3. TypeOK'
  <2>1. faults' \in 0 .. MaxFaults
    BY ConstantsAssumption DEF IInv, TypeOK, ForceDisconnect
  <2>2. store' \in [User -> Cipher \cup {None}] /\ dropped' \subseteq User
    BY <1>1 DEF IInv, TypeOK, ForceDisconnect
  <2>. QED BY <1>0, <1>2, <2>1, <2>2 DEF IInv, TypeOK, JobRecord
<1>4. WriterInv'
  BY <1>0 DEF IInv, WriterInv
<1>5. OnceInv'
  <2>1. ~Calm
    BY <1>0 DEF IInv, OnceInv, JobAlone
  <2>2. CASE UNCHANGED faults
    BY <1>0, <2>1, <2>2 DEF OnceInv, Calm
  <2>3. CASE faults' = faults + 1
    BY <2>3, FaultInv DEF IInv
  <2>. QED BY <2>2, <2>3 DEF ForceDisconnect
<1>. QED BY <1>2, <1>3, <1>4, <1>5 DEF IInv

LEMMA ClearFallbackInv ==
  ASSUME IInv, NEW j \in Job, ClearFallback(j)
  PROVE  IInv'
<1> DEFINE r == [NoJob EXCEPT !.st = "done"]
<1>0. /\ UNCHANGED <<setting, refused, store, writer, last, dropped, faults>> /\ job[j].st = "next"
      /\ job[j].todo = {} /\ mutex' = None /\ job' = [job EXCEPT ![j] = r]
  BY DEF ClearFallback, AtLabel
<1>1. r \in JobRecord /\ r.st = "done"
  BY DEF NoJob, JobRecord
<1>2. job'[j] = r
  BY <1>0 DEF IInv, TypeOK
<1> HIDE DEF r
<1>3. job' \in [Job -> JobRecord] /\ JobInv'
  BY <1>0, <1>1, JobStep
<1>4. cfg' \in [Node -> [key : Key, prev : Key \cup {None}]]
  BY JobParts DEF IInv, TypeOK, ClearFallback
<1>5. TypeOK' /\ WriterInv'
  BY <1>0, <1>3, <1>4 DEF IInv, TypeOK, WriterInv, JobRecord
<1>6. OnceInv'
  <2>1. ASSUME Calm PROVE mutex = j /\ JobAlone(j)' /\ OldKnown(j)'
    <3>1. JobAlone(j) /\ OldKnown(j)
      BY <2>1 DEF IInv, OnceInv
    <3>2. mutex = j /\ \A v \in FirstPage : ~Old(v)
      BY <1>0, <3>1 DEF JobAlone, OldKnown, Running
    <3>3. \A v \in FirstPage : ~Old(v)'
      BY <1>0, <3>2 DEF Old
    <3>4. job'[j].st = "done"
      BY <1>1, <1>2
    <3>. QED BY <3>2, <3>3, <3>4 DEF JobAlone, OldKnown, Running
  <2>2. CASE Calm
    BY <1>0, <2>1, <2>2, OnceStep
  <2>3. CASE ~Calm
    BY <1>0, <2>3 DEF OnceInv, Calm, ClearFallback
  <2>. QED BY <2>2, <2>3
<1>. QED BY <1>3, <1>5, <1>6 DEF IInv

LEMMA ReadKeyInv ==
  ASSUME IInv, NEW w \in Writer, ReadKey(w)
  PROVE  IInv'
<1>1. PICK n \in Node, u \in User :
          writer' = [writer EXCEPT ![w] = [node |-> n, user |-> u, key |-> cfg[n].key]]
  BY DEF ReadKey
<1>2. UNCHANGED <<setting, refused, cfg, store, mutex, job, last, dropped, faults>>
  BY DEF ReadKey
<1>3. cfg[n].key \in Key
  BY DEF IInv, TypeOK
<1>4. TypeOK' /\ WriterInv' /\ JobInv'
  BY <1>1, <1>2, <1>3 DEF IInv, TypeOK, WriterInv, JobInv
<1>5. OnceInv'
  BY <1>2, OnceSame DEF Calm
<1>. QED BY <1>4, <1>5 DEF IInv

LEMMA StoreTokenInv ==
  ASSUME IInv, NEW w \in Writer, StoreToken(w)
  PROVE  IInv'
<1>0. UNCHANGED <<setting, refused, cfg, mutex, job, dropped, faults>> /\ writer[w] # Idle
      /\ writer' = [writer EXCEPT ![w] = Idle]
  BY DEF StoreToken
<1>1. Idle \in [node : Node \cup {None}, user : User \cup {None}, key : Key \cup {None}]
  BY DEF Idle
<1>2. writer[w].user \in User /\ writer[w].key \in Key
  BY <1>0 DEF IInv, WriterInv
<1>3. ASSUME store' \in [User -> Cipher \cup {None}], last' \in 0 .. MaxWrites,
             \A u \in User : store'[u] = store[u] \/ ~Old(u)'
      PROVE  IInv'
  <2>1. TypeOK' /\ WriterInv' /\ JobInv'
    BY <1>0, <1>1, <1>3 DEF IInv, TypeOK, WriterInv, JobInv
  <2>2. OnceInv'
    BY <1>0, <1>3, OnceSame DEF Calm
  <2>. QED BY <2>1, <2>2 DEF IInv
<1>4. ASSUME NEW p \in Pads, last < MaxWrites, last' = last + 1,
             store' = [store EXCEPT ![writer[w].user] = [key |-> writer[w].key, ver |-> last', pads |-> p]]
      PROVE  IInv'
  <2>1. last' \in 1 .. MaxWrites /\ last' \in 0 .. MaxWrites
    BY <1>4, ConstantsAssumption DEF IInv, TypeOK
  <2>2. [key |-> writer[w].key, ver |-> last', pads |-> p] \in Cipher
    BY <1>2, <2>1 DEF Cipher
  <2>3. store' \in [User -> Cipher \cup {None}]
    BY <1>2, <1>4, <2>2 DEF IInv, TypeOK
  <2>4. store'[writer[w].user].ver = last'
    BY <1>2, <1>4 DEF IInv, TypeOK
  <2>5. \A u \in User \ {writer[w].user} : store'[u] = store[u]
    BY <1>4 DEF IInv, TypeOK
  <2>6. \A u \in User : store'[u] = store[u] \/ ~Old(u)'
    BY <2>1, <2>4, <2>5 DEF Old
  <2>. QED BY <1>3, <2>1, <2>3, <2>6
<1>5. CASE UNCHANGED <<last, store>>
  BY <1>3, <1>5 DEF IInv, TypeOK
<1>. QED BY <1>4, <1>5 DEF StoreToken

LEMMA NextInv == IInv /\ [Next]_vars => IInv'
<1> SUFFICES ASSUME IInv, [Next]_vars PROVE IInv'
  OBVIOUS
<1>1. CASE Rotate
  BY <1>1, RotateInv
<1>2. ASSUME NEW n \in Node, OnConfigurationChange(n) \/ Restart(n) PROVE IInv'
  BY <1>2, OnConfigurationChangeInv, RestartInv
<1>3. ASSUME NEW j \in Job, Run(j) PROVE IInv'
  BY <1>3, LockJobInv, ListKeysInv, ReadOneInv, CompareAndSetInv, ForceDisconnectInv, ClearFallbackInv
     DEF Run
<1>4. ASSUME NEW w \in Writer, ReadKey(w) \/ StoreToken(w) PROVE IInv'
  BY <1>4, ReadKeyInv, StoreTokenInv
<1>5. CASE UNCHANGED vars
  <2>1. TypeOK' /\ JobInv' /\ WriterInv'
    BY <1>5 DEF IInv, TypeOK, JobInv, WriterInv, vars
  <2>2. OnceInv'
    BY <1>5, OnceSame DEF vars, Calm
  <2>. QED BY <2>1, <2>2 DEF IInv
<1>. QED BY <1>1, <1>2, <1>3, <1>4, <1>5 DEF Next

-----------------------------------------------------------------------------
(* The theorems *)

\* A job that is over after one rotation without a fault has left no old token, and the new
\* key reads all the others of before.
LEMMA InvariantImplies == IInv => RotationInv
<1> SUFFICES ASSUME IInv PROVE RotationInv
  OBVIOUS
<1>1. RotationKeepsUsers
  BY DEF IInv, OnceInv, RotationKeepsUsers
<1>2. OldTokensMigrated
  <2> SUFFICES ASSUME Calm, NEW n \in Node, NEW k \in 1 .. MaxKey,
                      cfg[n].key = k, job[<<n, k>>].st = "done",
                      NEW u \in FirstPage, store[u] # None, store[u].ver = 0
               PROVE  Readable(n, u)
    BY DEF OldTokensMigrated, OldTokensReadable
  <2>1. <<n, k>> \in Job /\ k = 1
    BY DEF Job, Calm
  <2>2. ~Old(u)
    <3>1. OldKnown(<<n, k>>)
      BY <2>1 DEF IInv, OnceInv
    <3>. QED BY <3>1 DEF OldKnown
  <2>3. store[u].key \in 0 .. 1
    <3>1. u \in User /\ store[u] \in Cipher
      BY DEF IInv, TypeOK, FirstPage
    <3>. QED BY <3>1 DEF Cipher, Key, Calm
  <2>4. store[u].key = 1
    BY <2>2, <2>3 DEF Old
  <2>. QED BY <2>1, <2>4 DEF Readable, Decrypt
<1>. QED BY <1>1, <1>2 DEF RotationInv, IInv

\* The state is well typed; and one rotation of the key, on any number of nodes that see it in
\* any order, disconnects nobody and leaves no token of the first page of keys unreadable where the
\* job is over, as long as the store answers and AES takes the key (reEncryptUserData, its
\* loop over pages of keys and its cluster mutex).
THEOREM RotationSafe == Spec => []RotationInv
<1>1. Spec => []IInv
  BY InitInv, NextInv, PTL DEF Spec
<1>. QED BY <1>1, InvariantImplies, PTL

\* The tokens as UserTokens sees them.
Tokens == [u \in User |-> IF store[u] = None THEN None ELSE store[u].ver]

\* A token that is written where another one was.
LEMMA Written ==
  ASSUME IInv, NEW u \in User, NEW c \in Cipher, store' = [store EXCEPT ![u] = c]
  PROVE  Tokens' = [Tokens EXCEPT ![u] = c.ver]
<1>1. store'[u] = c /\ c # None /\ \A v \in User \ {u} : store'[v] = store[v]
  BY ConstantsAssumption DEF IInv, TypeOK
<1>2. ASSUME NEW v \in User PROVE Tokens'[v] = IF v = u THEN c.ver ELSE Tokens[v]
  BY <1>1 DEF Tokens
<1>3. Tokens' = [v \in User |-> Tokens'[v]] /\ Tokens = [v \in User |-> Tokens[v]]
  BY DEF Tokens
<1>. QED BY <1>2, <1>3

LEMMA InitRefines == Init => Abstract!Init
<1> SUFFICES ASSUME Init PROVE Abstract!Init
  OBVIOUS
<1>1. PICK p \in [User -> Pads] : store = [u \in User |-> [key |-> 0, ver |-> 0, pads |-> p[u]]]
  BY DEF Init
<1>2. ASSUME NEW u \in User PROVE store[u] # None /\ store[u].ver = 0
  <2>1. [key |-> 0, ver |-> 0, pads |-> p[u]] \in Cipher
    BY ConstantsAssumption DEF Cipher, Key
  <2>. QED BY <1>1, <2>1, ConstantsAssumption
<1>3. last = 0
  BY DEF Init
<1>. QED BY <1>2, <1>3 DEF Abstract!Init

\* A writer's token replaces the user's, a job's drop takes it away, a job's swap writes the one
\* it has read, which is still there; nothing else touches the tokens.
LEMMA NextRefines == IInv /\ [Next]_vars => [Abstract!Next]_<<Tokens, last>>
<1> SUFFICES ASSUME IInv, [Next]_vars PROVE [Abstract!Next]_<<Tokens, last>>
  OBVIOUS
<1>1. ASSUME UNCHANGED <<store, last>> PROVE UNCHANGED <<Tokens, last>>
  BY <1>1 DEF Tokens
<1>2. CASE Rotate
  BY <1>1, <1>2 DEF Rotate
<1>3. ASSUME NEW n \in Node, OnConfigurationChange(n) \/ Restart(n) PROVE UNCHANGED <<Tokens, last>>
  BY <1>1, <1>3 DEF OnConfigurationChange, Restart
<1>4. ASSUME NEW j \in Job, CompareAndSet(j) PROVE UNCHANGED <<Tokens, last>>
  <2>1. job[j].user \in User /\ job[j].seen \in Cipher /\ j[2] \in Key /\ UNCHANGED last
    BY <1>4, JobParts DEF CompareAndSet, AtLabel, IInv, JobInv
  <2>2. ASSUME NEW p \in Pads, store[job[j].user] = job[j].seen,
               store' = [store EXCEPT ![job[j].user] =
                            [key |-> j[2], ver |-> job[j].seen.ver, pads |-> p]]
        PROVE  Tokens' = Tokens
    <3>1. [key |-> j[2], ver |-> job[j].seen.ver, pads |-> p] \in Cipher
      BY <2>1 DEF Cipher
    <3>2. Tokens' = [Tokens EXCEPT ![job[j].user] = job[j].seen.ver]
      BY <2>1, <2>2, <3>1, Written
    <3>3. Tokens[job[j].user] = job[j].seen.ver
      BY <2>1, <2>2, ConstantsAssumption DEF Tokens
    <3>4. Tokens = [u \in User |-> Tokens[u]]
      BY DEF Tokens
    <3>. QED BY <3>2, <3>3, <3>4
  <2>. QED BY <1>1, <1>4, <2>1, <2>2 DEF CompareAndSet
<1>5. ASSUME NEW j \in Job, ForceDisconnect(j) PROVE Abstract!Next \/ UNCHANGED <<Tokens, last>>
  <2>1. job[j].user \in User /\ UNCHANGED last
    BY <1>5 DEF ForceDisconnect, AtLabel, IInv, JobInv
  <2>2. CASE store' = [store EXCEPT ![job[j].user] = None]
    <3>1. PICK u \in User : store' = [store EXCEPT ![u] = None]
      BY <2>1, <2>2
    <3>2. Tokens' = [Tokens EXCEPT ![u] = None]
      BY <3>1 DEF Tokens, IInv, TypeOK
    <3>3. Abstract!Drop(u)
      BY <2>1, <3>2 DEF Abstract!Drop, Tokens
    <3>. QED BY <3>3 DEF Abstract!Next
  <2>3. CASE UNCHANGED store
    BY <1>1, <2>1, <2>3
  <2>. QED BY <1>5, <2>2, <2>3 DEF ForceDisconnect
<1>6. ASSUME NEW j \in Job, LockJob(j) \/ ListKeys(j) \/ ReadOne(j) \/ ClearFallback(j)
      PROVE  UNCHANGED <<Tokens, last>>
  BY <1>1, <1>6 DEF LockJob, ListKeys, ReadOne, ClearFallback
<1>7. ASSUME NEW w \in Writer, ReadKey(w) PROVE UNCHANGED <<Tokens, last>>
  BY <1>1, <1>7 DEF ReadKey
<1>8. ASSUME NEW w \in Writer, StoreToken(w) PROVE Abstract!Next \/ UNCHANGED <<Tokens, last>>
  <2>1. writer[w].user \in User /\ writer[w].key \in Key
    BY <1>8 DEF StoreToken, IInv, WriterInv
  <2>2. ASSUME NEW p \in Pads, last < MaxWrites, last' = last + 1,
               store' = [store EXCEPT ![writer[w].user] =
                            [key |-> writer[w].key, ver |-> last', pads |-> p]]
        PROVE  Abstract!Next
    <3>1. last' \in 0 .. MaxWrites
      BY <2>2, ConstantsAssumption DEF IInv, TypeOK
    <3>2. PICK u \in User, c \in Cipher : c.ver = last' /\ store' = [store EXCEPT ![u] = c]
      BY <2>1, <2>2, <3>1 DEF Cipher
    <3>3. Tokens' = [Tokens EXCEPT ![u] = last']
      BY <3>2, Written
    <3>4. Abstract!Put(u)
      BY <2>2, <3>3 DEF Abstract!Put, Tokens
    <3>. QED BY <3>4 DEF Abstract!Next
  <2>3. CASE UNCHANGED <<last, store>>
    BY <1>1, <2>3
  <2>. QED BY <1>8, <2>2, <2>3 DEF StoreToken
<1>9. CASE UNCHANGED vars
  BY <1>1, <1>9 DEF vars
<1>. QED BY <1>2, <1>3, <1>4, <1>5, <1>6, <1>7, <1>8, <1>9 DEF Next, Run

\* Whatever the number of nodes, keys, writers and faults, a rotation does nothing to a user's
\* token but let it be replaced by a newer one or dropped: KVCompareAndSet never puts an old
\* one back.
THEOREM Transparent == Spec => RotationIsTransparent
<1>1. Spec => []IInv
  BY InitInv, NextInv, PTL DEF Spec
<1>2. Spec => Abstract!Spec
  BY <1>1, InitRefines, NextRefines, PTL DEF Spec, Abstract!Spec, Tokens
<1>. QED BY <1>2 DEF RotationIsTransparent
=============================================================================
