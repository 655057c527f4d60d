--------------------------- MODULE SubscriptionsProofs ---------------------------
(***************************************************************************)
(* Theorems about Subscriptions, for any number of workers, names,         *)
(* channels, users and commands.                                           *)
(***************************************************************************)
EXTENDS Subscriptions, SequenceTheorems, WellFoundedInduction, TLAPS

Map == [Path -> Seq(Sub)]

\* A list has at most one subscription of each channel.
One(list) == \A i, j \in 1 .. Len(list) : list[i].channel = list[j].channel => i = j

\* A channel has a subscription to the path of a link.
Linked(map, l) == IndexOf(map[l[1]], l[2]) # 0

-----------------------------------------------------------------------------
(* Lists *)

LEMMA MinIsElement == ASSUME NEW T \in SUBSET Nat, T # {} PROVE Min(T) \in T
<1>1. PICK x \in T : \A y \in T : ~(<<y, x>> \in OpToRel(<, Nat))
  BY NatLessThanWellFounded, WFMin, Zenon
<1>2. ASSUME NEW y \in T PROVE x =< y
  <2>1. ~(y < x)
    <3>1. ASSUME y < x PROVE <<y, x>> \in OpToRel(<, Nat)
      BY <3>1 DEF OpToRel
    <3>. QED BY <1>1, <3>1
  <2>. QED BY <2>1
<1>. QED BY <1>2 DEF Min

LEMMA IndexOfProperties ==
  ASSUME NEW list \in Seq(Sub), NEW c
  PROVE  /\ IndexOf(list, c) \in 0 .. Len(list)
         /\ IndexOf(list, c) # 0 => list[IndexOf(list, c)].channel = c
         /\ IndexOf(list, c) = 0 => \A i \in 1 .. Len(list) : list[i].channel # c
<1> DEFINE at == {i \in 1 .. Len(list) : list[i].channel = c}
<1>1. IndexOf(list, c) = IF at # {} THEN Min(at) ELSE 0
  BY DEF IndexOf, SelectInSeq
<1>2. Len(list) \in Nat /\ at \in SUBSET Nat
  BY LenProperties
<1>3. at # {} => Min(at) \in at
  BY <1>2, MinIsElement
<1>. QED BY <1>1, <1>2, <1>3

LEMMA FoundIn ==
  ASSUME NEW list \in Seq(Sub), NEW c, IndexOf(list, c) # 0
  PROVE  \E j \in 1 .. Len(list) : list[j].channel = c
<1>1. IndexOf(list, c) \in 0 .. Len(list) /\ list[IndexOf(list, c)].channel = c
  BY IndexOfProperties
<1>. QED BY <1>1, LenProperties

LEMMA RemoveAtProperties ==
  ASSUME NEW list \in Seq(Sub), NEW i \in 1 .. Len(list)
  PROVE  /\ RemoveAt(list, i) \in Seq(Sub)
         /\ Len(RemoveAt(list, i)) = Len(list) - 1
         /\ \A j \in 1 .. Len(list) - 1 :
                RemoveAt(list, i)[j] = IF j < i THEN list[j] ELSE list[j + 1]
<1> DEFINE a == SubSeq(list, 1, i - 1)
           b == SubSeq(list, i + 1, Len(list))
<1>1. Len(list) \in Nat /\ i \in Nat /\ i >= 1 /\ i <= Len(list)
  BY LenProperties
<1>2. \A j \in 1 .. Len(list) : list[j] \in Sub
  BY ElementOfSeq
<1>3. a \in Seq(Sub) /\ Len(a) = i - 1 /\ \A j \in 1 .. i - 1 : a[j] = list[j]
  <2>1. 1 \in Int /\ i - 1 \in Int /\ \A j \in 1 .. i - 1 : list[j] \in Sub
    BY <1>1, <1>2
  <2>2. /\ a \in Seq(Sub) /\ Len(a) = IF 1 <= i - 1 THEN i - 1 - 1 + 1 ELSE 0
        /\ \A j \in 1 .. i - 1 - 1 + 1 : a[j] = list[1 + j - 1]
    BY <2>1, SubSeqProperties
  <2>. QED BY <1>1, <2>2
<1>4. b \in Seq(Sub) /\ Len(b) = Len(list) - i /\ \A j \in 1 .. Len(list) - i : b[j] = list[i + j]
  <2>1. i + 1 \in Int /\ Len(list) \in Int /\ \A j \in i + 1 .. Len(list) : list[j] \in Sub
    BY <1>1, <1>2
  <2>2. /\ b \in Seq(Sub)
        /\ Len(b) = IF i + 1 <= Len(list) THEN Len(list) - (i + 1) + 1 ELSE 0
        /\ \A j \in 1 .. Len(list) - (i + 1) + 1 : b[j] = list[i + 1 + j - 1]
    BY <2>1, SubSeqProperties
  <2>. QED BY <1>1, <2>2
<1>5. RemoveAt(list, i) = a \o b
  BY DEF RemoveAt
<1> HIDE DEF a, b
<1>6. /\ a \o b \in Seq(Sub) /\ Len(a \o b) = Len(a) + Len(b)
      /\ \A j \in 1 .. Len(a) + Len(b) : (a \o b)[j] = IF j <= Len(a) THEN a[j] ELSE b[j - Len(a)]
  BY <1>3, <1>4, ConcatProperties
<1>7. ASSUME NEW j \in 1 .. Len(list) - 1
      PROVE  (a \o b)[j] = IF j < i THEN list[j] ELSE list[j + 1]
  <2>1. CASE j < i
    BY <1>1, <1>3, <1>4, <1>6, <2>1
  <2>2. CASE ~(j < i)
    <3>1. j \in 1 .. Len(a) + Len(b) /\ ~(j <= Len(a)) /\ j - Len(a) \in 1 .. Len(list) - i
      BY <1>1, <1>3, <1>4, <2>2
    <3>2. i + (j - Len(a)) = j + 1
      BY <1>1, <1>3, <1>7
    <3>. QED BY <1>4, <1>6, <2>2, <3>1, <3>2
  <2>. QED BY <2>1, <2>2
<1>. QED BY <1>1, <1>3, <1>4, <1>5, <1>6, <1>7

LEMMA ReplacedIn ==
  ASSUME NEW list \in Seq(Sub), NEW i \in 1 .. Len(list), NEW s \in Sub
  PROVE  /\ [list EXCEPT ![i] = s] \in Seq(Sub) /\ Len([list EXCEPT ![i] = s]) = Len(list)
         /\ \A j \in 1 .. Len(list) : [list EXCEPT ![i] = s][j] = IF j = i THEN s ELSE list[j]
BY ExceptSeq

\* The subscription s stands in the new list at k, where its channel's stood, or where nothing was.
SetAt(list, new, s, k) ==
    /\ new \in Seq(Sub) /\ k \in 1 .. Len(new) /\ new[k] = s
    /\ \A j \in 1 .. Len(new) : j # k => j \in 1 .. Len(list) /\ new[j] = list[j]
    /\ \A j \in 1 .. Len(list) : j \in 1 .. Len(new) /\ (j = k <=> list[j].channel = s.channel)

LEMMA OneIsSet ==
  ASSUME NEW list \in Seq(Sub), NEW new, NEW s \in Sub, NEW k, SetAt(list, new, s, k), One(list)
  PROVE  /\ One(new)
         /\ \A x \in Sub : x.channel # s.channel => (x \in ToSet(new) <=> x \in ToSet(list))
         /\ \A c \in Channel : c # s.channel /\ IndexOf(new, c) # 0 => IndexOf(list, c) # 0
<1>1. DOMAIN list = 1 .. Len(list) /\ DOMAIN new = 1 .. Len(new)
  BY LenProperties DEF SetAt
<1>2. One(new)
  BY DEF One, SetAt
<1>3. ASSUME NEW x \in Sub, x.channel # s.channel PROVE x \in ToSet(new) <=> x \in ToSet(list)
  <2>1. ASSUME x \in ToSet(new) PROVE x \in ToSet(list)
    <3>1. PICK j \in 1 .. Len(new) : new[j] = x
      BY <1>1, <2>1 DEF ToSet, SetAt
    <3>. QED BY <1>1, <1>3, <3>1 DEF ToSet, SetAt
  <2>2. ASSUME x \in ToSet(list) PROVE x \in ToSet(new)
    <3>1. PICK j \in 1 .. Len(list) : list[j] = x
      BY <1>1, <2>2 DEF ToSet, SetAt
    <3>2. j \in 1 .. Len(new) /\ new[j] = x
      BY <1>3, <3>1 DEF SetAt
    <3>. QED BY <1>1, <3>2 DEF ToSet, SetAt
  <2>. QED BY <2>1, <2>2
<1>4. ASSUME NEW c \in Channel, c # s.channel, IndexOf(new, c) # 0 PROVE IndexOf(list, c) # 0
  <2>1. PICK j \in 1 .. Len(new) : new[j].channel = c
    BY <1>4, FoundIn DEF SetAt
  <2>2. j \in 1 .. Len(list) /\ list[j].channel = c
    BY <1>4, <2>1 DEF SetAt
  <2>. QED BY <2>2, IndexOfProperties
<1>. QED BY <1>2, <1>3, <1>4

\* AddSubscription, on the list of one path.
Added(list, s) ==
    LET i == IndexOf(list, s.channel)
    IN IF i = 0 THEN Append(list, s) ELSE [list EXCEPT ![i] = s]

LEMMA AddedToList ==
  ASSUME NEW list \in Seq(Sub), One(list), NEW s \in Sub, NEW new, new = Added(list, s)
  PROVE  /\ new \in Seq(Sub) /\ One(new)
         /\ \A x \in Sub : x.channel # s.channel => (x \in ToSet(new) <=> x \in ToSet(list))
         /\ \A c \in Channel : c # s.channel /\ IndexOf(new, c) # 0 => IndexOf(list, c) # 0
<1>1. PICK i \in 0 .. Len(list) :
          /\ i # 0 => list[i].channel = s.channel
          /\ i = 0 => \A j \in 1 .. Len(list) : list[j].channel # s.channel
          /\ i = IndexOf(list, s.channel)
  BY IndexOfProperties
<1>2. Len(list) \in Nat
  BY LenProperties
<1>3. CASE i = 0
  <2>1. new = Append(list, s)
    BY <1>1, <1>3 DEF Added
  <2>2. /\ new \in Seq(Sub) /\ Len(new) = Len(list) + 1 /\ new[Len(list) + 1] = s
        /\ \A j \in 1 .. Len(list) : new[j] = list[j]
    BY <2>1, AppendProperties
  <2>3. PICK k \in 1 .. Len(new) : k = Len(list) + 1
    BY <1>2, <2>2
  <2>4. /\ new[k] = s
        /\ \A j \in 1 .. Len(new) : j # k => j \in 1 .. Len(list) /\ new[j] = list[j]
    BY <1>2, <2>2, <2>3, Z3
  <2>5. \A j \in 1 .. Len(list) :
            j \in 1 .. Len(new) /\ (j = k <=> list[j].channel = s.channel)
    BY <1>1, <1>2, <1>3, <2>2, <2>3
  <2>6. SetAt(list, new, s, k)
    BY <2>2, <2>4, <2>5, Zenon DEF SetAt
  <2>. QED BY <2>2, <2>6, OneIsSet
<1>4. CASE i # 0
  <2>0. i \in 1 .. Len(list)
    BY <1>2, <1>4
  <2>1. new = [list EXCEPT ![i] = s]
    BY <1>1, <1>4 DEF Added
  <2>2. /\ new \in Seq(Sub) /\ Len(new) = Len(list)
        /\ \A j \in 1 .. Len(list) : new[j] = IF j = i THEN s ELSE list[j]
    BY <2>0, <2>1, ReplacedIn
  <2>3. \A j \in 1 .. Len(list) : j = i <=> list[j].channel = s.channel
    BY <1>1, <2>0 DEF One
  <2>4. PICK k \in 1 .. Len(new) : k = i
    BY <2>0, <2>2
  <2>5. /\ new[k] = s
        /\ \A j \in 1 .. Len(new) : j # k => j \in 1 .. Len(list) /\ new[j] = list[j]
    BY <2>0, <2>2, <2>4
  <2>6. \A j \in 1 .. Len(list) :
            j \in 1 .. Len(new) /\ (j = k <=> list[j].channel = s.channel)
    BY <2>2, <2>3, <2>4
  <2>7. SetAt(list, new, s, k)
    BY <2>2, <2>5, <2>6, Zenon DEF SetAt
  <2>. QED BY <2>2, <2>7, OneIsSet
<1>. QED BY <1>3, <1>4

\* A list without one of its subscriptions.
LEMMA OneIsGone ==
  ASSUME NEW list \in Seq(Sub), NEW new \in Seq(Sub), NEW i \in 1 .. Len(list), One(list),
         Len(new) = Len(list) - 1,
         \A j \in 1 .. Len(list) - 1 : new[j] = IF j < i THEN list[j] ELSE list[j + 1]
  PROVE  /\ One(new) /\ IndexOf(new, list[i].channel) = 0
         /\ \A x \in Sub : x.channel # list[i].channel => (x \in ToSet(new) <=> x \in ToSet(list))
         /\ \A d \in Channel : IndexOf(new, d) # 0 => IndexOf(list, d) # 0
<1> DEFINE old(j) == IF j < i THEN j ELSE j + 1
<1>1. Len(list) \in Nat /\ DOMAIN list = 1 .. Len(list) /\ DOMAIN new = 1 .. Len(new)
  BY LenProperties
<1>2. \A j \in 1 .. Len(new) : old(j) \in 1 .. Len(list) /\ old(j) # i /\ new[j] = list[old(j)]
  BY <1>1
<1>3. \A j, k \in 1 .. Len(new) : old(j) = old(k) => j = k
  BY <1>1
<1>4. ASSUME NEW k \in 1 .. Len(list), k # i PROVE \E j \in 1 .. Len(new) : old(j) = k
  <2>1. CASE k < i
    <3>1. k \in 1 .. Len(new) /\ old(k) = k
      BY <1>1, <2>1
    <3>. QED BY <3>1
  <2>2. CASE k > i
    <3>1. k - 1 \in 1 .. Len(new) /\ old(k - 1) = k
      BY <1>1, <2>2
    <3>. QED BY <3>1
  <2>. QED BY <1>1, <1>4, <2>1, <2>2
<1> HIDE DEF old
<1>5. One(new)
  BY <1>2, <1>3 DEF One
<1>6. IndexOf(new, list[i].channel) = 0
  <2>1. \A j \in 1 .. Len(new) : new[j].channel # list[i].channel
    BY <1>2 DEF One
  <2>. QED BY <2>1, FoundIn
<1>7. ASSUME NEW x \in Sub, x.channel # list[i].channel
      PROVE  x \in ToSet(new) <=> x \in ToSet(list)
  <2>1. ASSUME x \in ToSet(new) PROVE x \in ToSet(list)
    <3>1. PICK j \in 1 .. Len(new) : new[j] = x
      BY <1>1, <2>1 DEF ToSet
    <3>. QED BY <1>1, <1>2, <3>1 DEF ToSet
  <2>2. ASSUME x \in ToSet(list) PROVE x \in ToSet(new)
    <3>1. PICK k \in 1 .. Len(list) : list[k] = x
      BY <1>1, <2>2 DEF ToSet
    <3>2. PICK j \in 1 .. Len(new) : old(j) = k
      BY <1>4, <1>7, <3>1
    <3>. QED BY <1>1, <1>2, <3>1, <3>2 DEF ToSet
  <2>. QED BY <2>1, <2>2
<1>8. ASSUME NEW d \in Channel, IndexOf(new, d) # 0 PROVE IndexOf(list, d) # 0
  <2>1. PICK j \in 1 .. Len(new) : new[j].channel = d
    BY <1>8, FoundIn
  <2>. QED BY <1>2, <2>1, IndexOfProperties
<1>. QED BY <1>5, <1>6, <1>7, <1>8

\* Unsubscribe, on the list of one path.
Removed(list, c) ==
    LET i == IndexOf(list, c) IN IF i = 0 THEN list ELSE RemoveAt(list, i)

LEMMA RemovedFromList ==
  ASSUME NEW list \in Seq(Sub), One(list), NEW c \in Channel, NEW new, new = Removed(list, c)
  PROVE  /\ new \in Seq(Sub) /\ One(new) /\ IndexOf(new, c) = 0
         /\ \A x \in Sub : x.channel # c => (x \in ToSet(new) <=> x \in ToSet(list))
         /\ \A d \in Channel : IndexOf(new, d) # 0 => IndexOf(list, d) # 0
<1>1. PICK i \in 0 .. Len(list) : (i # 0 => list[i].channel = c) /\ i = IndexOf(list, c)
  BY IndexOfProperties
<1>2. CASE i = 0
  BY <1>1, <1>2 DEF Removed
<1>3. CASE i # 0
  <2>1. i \in 1 .. Len(list) /\ list[i].channel = c
    BY <1>1, <1>3, LenProperties
  <2>2. new = RemoveAt(list, i)
    BY <1>1, <1>3 DEF Removed
  <2>3. /\ new \in Seq(Sub) /\ Len(new) = Len(list) - 1
        /\ \A j \in 1 .. Len(list) - 1 : new[j] = IF j < i THEN list[j] ELSE list[j + 1]
    BY <2>1, <2>2, RemoveAtProperties
  <2>4. /\ One(new) /\ IndexOf(new, list[i].channel) = 0
        /\ \A x \in Sub : x.channel # list[i].channel => (x \in ToSet(new) <=> x \in ToSet(list))
        /\ \A d \in Channel : IndexOf(new, d) # 0 => IndexOf(list, d) # 0
    BY <2>1, <2>3, OneIsGone, Zenon
  <2>. QED BY <2>1, <2>3, <2>4
<1>. QED BY <1>2, <1>3

-----------------------------------------------------------------------------
(* Maps *)

\* AddTo changes only what the link of the command is about.
LEMMA AddToProperties ==
  ASSUME NEW m \in Map, \A p \in Path : One(m[p]), NEW p \in Path, NEW s \in Sub,
         NEW n, n = AddTo(m, p, s)
  PROVE  /\ n \in Map /\ \A q \in Path : One(n[q])
         /\ \A c \in Channel : c # s.channel => OfChannel(n, c) = OfChannel(m, c)
         /\ \A l \in Link : Linked(n, l) => Linked(m, l) \/ l = <<p, s.channel>>
<1>1. m[p] \in Seq(Sub) /\ One(m[p])
  BY DEF Map
<1>2. n = [m EXCEPT ![p] = Added(m[p], s)]
  BY DEF AddTo, Added, Map
<1>3. PICK new : new = Added(m[p], s)
  OBVIOUS
<1>4. /\ new \in Seq(Sub) /\ One(new)
      /\ \A x \in Sub : x.channel # s.channel => (x \in ToSet(new) <=> x \in ToSet(m[p]))
      /\ \A c \in Channel : c # s.channel /\ IndexOf(new, c) # 0 => IndexOf(m[p], c) # 0
  BY <1>1, <1>3, AddedToList
<1>5. n \in Map /\ n[p] = new /\ \A q \in Path \ {p} : n[q] = m[q]
  BY <1>2, <1>3, <1>4 DEF Map
<1>6. \A q \in Path : One(n[q])
  BY <1>4, <1>5
<1>7. ASSUME NEW c \in Channel, c # s.channel PROVE OfChannel(n, c) = OfChannel(m, c)
  <2>1. ASSUME NEW v \in Path \X User
        PROVE  [channel |-> c, creator |-> v[2]] \in ToSet(n[v[1]]) <=>
               [channel |-> c, creator |-> v[2]] \in ToSet(m[v[1]])
    <3>1. PICK x \in Sub : x = [channel |-> c, creator |-> v[2]]
      BY DEF Sub
    <3>2. v[1] \in Path
      OBVIOUS
    <3>3. x \in ToSet(n[v[1]]) <=> x \in ToSet(m[v[1]])
      BY <1>4, <1>5, <1>7, <3>1, <3>2
    <3>. QED BY <3>1, <3>3
  <2>. QED BY <2>1 DEF OfChannel
<1>8. ASSUME NEW l \in Link, Linked(n, l) PROVE Linked(m, l) \/ l = <<p, s.channel>>
  <2>1. l[1] \in Path /\ l[2] \in Channel /\ l = <<l[1], l[2]>>
    BY DEF Link
  <2>2. CASE l[1] = p
    BY <1>4, <1>5, <1>8, <2>1, <2>2 DEF Linked
  <2>3. CASE l[1] # p
    BY <1>5, <1>8, <2>1, <2>3 DEF Linked
  <2>. QED BY <2>2, <2>3
<1>. QED BY <1>5, <1>6, <1>7, <1>8

\* RemoveFrom leaves none of the links it is about, and the others as they are.
LEMMA RemoveFromProperties ==
  ASSUME NEW m \in Map, \A p \in Path : One(m[p]), NEW name \in Name, NEW c \in Channel,
         NEW n, n = RemoveFrom(m, name, c)
  PROVE  /\ n \in Map /\ \A q \in Path : One(n[q])
         /\ \A d \in Channel : d # c => OfChannel(n, d) = OfChannel(m, d)
         /\ \A l \in Link : Linked(n, l) => Linked(m, l)
         /\ \A l \in Link : l[1][1] = name /\ l[2] = c => ~Linked(n, l)
<1>1. \A p \in Path : m[p] \in Seq(Sub) /\ One(m[p])
  BY DEF Map
<1>2. ASSUME NEW p \in Path
      PROVE  /\ n[p] \in Seq(Sub) /\ One(n[p])
             /\ \A x \in Sub : x.channel # c => (x \in ToSet(n[p]) <=> x \in ToSet(m[p]))
             /\ \A d \in Channel : IndexOf(n[p], d) # 0 => IndexOf(m[p], d) # 0
             /\ p[1] = name => IndexOf(n[p], c) = 0
  <2>1. n[p] = IF p[1] # name THEN m[p] ELSE Removed(m[p], c)
    BY DEF RemoveFrom, Removed
  <2>2. CASE p[1] # name
    BY <1>1, <2>1, <2>2
  <2>3. CASE p[1] = name
    <3>1. PICK new : new = Removed(m[p], c)
      OBVIOUS
    <3>2. /\ new \in Seq(Sub) /\ One(new) /\ IndexOf(new, c) = 0
          /\ \A x \in Sub : x.channel # c => (x \in ToSet(new) <=> x \in ToSet(m[p]))
          /\ \A d \in Channel : IndexOf(new, d) # 0 => IndexOf(m[p], d) # 0
      BY <1>1, <3>1, RemovedFromList
    <3>. QED BY <2>1, <2>3, <3>1, <3>2
  <2>. QED BY <2>2, <2>3
<1>3. n \in Map
  <2>1. n = [p \in Path |-> n[p]]
    BY DEF RemoveFrom
  <2>. QED BY <1>2, <2>1 DEF Map
<1>4. ASSUME NEW d \in Channel, d # c PROVE OfChannel(n, d) = OfChannel(m, d)
  <2>1. ASSUME NEW v \in Path \X User
        PROVE  [channel |-> d, creator |-> v[2]] \in ToSet(n[v[1]]) <=>
               [channel |-> d, creator |-> v[2]] \in ToSet(m[v[1]])
    <3>1. PICK x \in Sub : x = [channel |-> d, creator |-> v[2]]
      BY DEF Sub
    <3>2. v[1] \in Path
      OBVIOUS
    <3>3. x \in ToSet(n[v[1]]) <=> x \in ToSet(m[v[1]])
      BY <1>2, <1>4, <3>1, <3>2
    <3>. QED BY <3>1, <3>3
  <2>. QED BY <2>1 DEF OfChannel
<1>5. \A l \in Link : l[1] \in Path /\ l[2] \in Channel
  BY DEF Link
<1>. QED BY <1>2, <1>3, <1>4, <1>5 DEF Linked

-----------------------------------------------------------------------------
(* The invariant *)

\* Whatever a command has read, the copy it writes has at most one subscription of a channel.
WorkInv ==
    \A w \in Worker :
        /\ pc[w] # "idle" => op[w] \in Add \cup Delete
        /\ pc[w] \in {"set", "send"} => copy[w] \in Map /\ \A p \in Path : One(copy[w][p])

\* The channel, and the links, of a command.
Chan(o) == IF o.kind = "add" THEN o.sub.channel ELSE o.channel

Own(o) ==
    IF o.kind = "add" THEN {<<o.path, o.sub.channel>>}
    ELSE {l \in Link : l[1][1] = o.name /\ l[2] = o.channel}

\* A copy differs from the stored map only as the command says.
Differs(m, o) ==
    /\ \A c \in Channel : c # Chan(o) => OfChannel(m, c) = OfChannel(subs, c)
    /\ \A l \in Link : Linked(m, l) => Linked(subs, l) \/ (o.kind = "add" /\ l \in Own(o))
    /\ o.kind = "delete" => \A l \in Own(o) : ~Linked(m, l)

\* A command that is alone: what it has checked, asked for, read and written still holds.
CommandInv(w) ==
    /\ pc[w] # "idle" /\ op[w].kind = "add" =>
           op[w].path[1] \notin locked /\ \A l \in Own(op[w]) : links[l] = "unknown"
    /\ pc[w] = "get" => \A c \in Channel : view[c] = OfChannel(subs, c)
    /\ pc[w] = "set" => /\ Differs(copy[w], op[w])
                        /\ \A c \in Channel : view[c] = OfChannel(subs, c)
    /\ pc[w] = "send" => /\ copy[w] = subs
                         /\ op[w].kind = "delete" => \A l \in Own(op[w]) : ~Linked(subs, l)
                         /\ \A c \in Channel : c # Chan(op[w]) => view[c] = OfChannel(subs, c)

SequentialInv ==
    /\ \A v, w \in Worker : pc[v] # "idle" /\ pc[w] # "idle" => v = w
    /\ \A w \in Worker : CommandInv(w)
    /\ Quiet => \A c \in Channel : view[c] = OfChannel(subs, c)
    /\ \A l \in Link : links[l] = "deleted" => ~Linked(subs, l)
    /\ \A l \in Link : l[1][1] \in locked /\ Linked(subs, l) => l \in told

IInv ==
    /\ TypeOK
    /\ WorkInv
    /\ \A p \in Path : One(subs[p])
    /\ Sequential => SequentialInv

LEMMA InitInv == Init => IInv
<1> SUFFICES ASSUME Init PROVE IInv
  OBVIOUS
<1>0. /\ <<>> \in Seq(Sub) /\ One(<<>>) /\ ToSet(<<>>) = {}
      /\ \A c : IndexOf(<<>>, c) = 0
  <2>1. <<>> \in Seq(Sub) /\ Len(<<>>) = 0
    BY EmptySeq
  <2>2. \A c : IndexOf(<<>>, c) \in 0 .. 0
    BY <2>1, IndexOfProperties
  <2>3. ToSet(<<>>) = {}
    BY <2>1, LenProperties DEF ToSet
  <2>. QED BY <2>1, <2>2, <2>3 DEF One
<1>1. TypeOK
  <2>1. 0 \in 0 .. MaxOps /\ 0 \in 0 .. MaxLocks /\ 0 \in 0 .. MaxFaults
    BY ConstantsAssumption
  <2>2. subs \in [Path -> Seq(Sub)]
    BY <1>0 DEF Init
  <2>. QED BY <2>1, <2>2 DEF Init, TypeOK
<1>2. WorkInv
  BY DEF Init, WorkInv
<1>3. \A p \in Path : One(subs[p]) /\ ToSet(subs[p]) = {} /\ \A c : IndexOf(subs[p], c) = 0
  BY <1>0 DEF Init
<1>4. \A l \in Link : ~Linked(subs, l)
  BY <1>3 DEF Linked, Link
<1>5. \A c \in Channel : OfChannel(subs, c) = {}
  BY <1>3 DEF OfChannel
<1>6. SequentialInv
  BY <1>4, <1>5 DEF Init, SequentialInv, CommandInv
<1>. QED BY <1>1, <1>2, <1>3, <1>6 DEF IInv

-----------------------------------------------------------------------------
(* The commands *)

LEMMA Bounds == IInv => ops \in 0 .. MaxOps /\ locks \in 0 .. MaxLocks /\ faults \in 0 .. MaxFaults
BY DEF IInv, TypeOK

LEMMA Overlapping ==
  ASSUME IInv, overlap' = (overlap \/ ~Quiet)
  PROVE  overlap' \in BOOLEAN /\ (~overlap' => ~overlap /\ Quiet)
<1>1. overlap \in BOOLEAN
  BY DEF IInv, TypeOK
<1>. QED BY <1>1

\* A command that starts alone finds everything settled.
LEMMA StartInv ==
  ASSUME IInv, NEW w \in Worker, NEW o \in Add \cup Delete, Start(w, o),
         links' \in [Link -> {"unknown", "deleting", "deleted"}],
         \A l \in Link : links'[l] = "deleted" => links[l] = "deleted",
         o.kind = "add" => o.path[1] \notin locked /\ \A l \in Own(o) : links'[l] = "unknown"
  PROVE  IInv'
<1>1. /\ pc[w] = "idle" /\ ops < MaxOps /\ ops' = ops + 1 /\ overlap' = (overlap \/ ~Quiet)
      /\ pc' = [pc EXCEPT ![w] = "get"] /\ op' = [op EXCEPT ![w] = o]
      /\ UNCHANGED <<subs, locked, view, copy, told, locks, faults>>
  BY DEF Start, store
<1>2. ops' \in 0 .. MaxOps
  BY <1>1, Bounds, ConstantsAssumption
<1>3. overlap' \in BOOLEAN /\ (~overlap' => ~overlap /\ Quiet)
  BY <1>1, Overlapping
<1>4. TypeOK'
  BY <1>1, <1>2, <1>3 DEF IInv, TypeOK
<1>5. /\ pc'[w] = "get" /\ op'[w] = o
      /\ \A v \in Worker \ {w} : pc'[v] = pc[v] /\ op'[v] = op[v]
  BY <1>1 DEF IInv, TypeOK
<1>6. WorkInv'
  BY <1>1, <1>5 DEF IInv, WorkInv
<1>7. ASSUME Sequential' PROVE SequentialInv'
  <2>1. Sequential /\ Quiet
    BY <1>1, <1>3, <1>7 DEF Sequential
  <2>2. SequentialInv
    BY <2>1 DEF IInv
  <2>3. \A v \in Worker \ {w} : pc'[v] = "idle"
    BY <1>5, <2>1 DEF Quiet
  <2>4. \A c \in Channel : view'[c] = OfChannel(subs', c)
    BY <1>1, <2>1, <2>2 DEF SequentialInv
  <2>5. \A v \in Worker : CommandInv(v)'
    BY <1>1, <1>5, <2>3, <2>4 DEF CommandInv
  <2>6. \A l \in Link : /\ links'[l] = "deleted" => ~Linked(subs', l)
                        /\ l[1][1] \in locked' /\ Linked(subs', l) => l \in told'
    BY <1>1, <2>2 DEF SequentialInv
  <2>. QED BY <1>5, <2>3, <2>4, <2>5, <2>6 DEF SequentialInv
<1>. QED BY <1>1, <1>4, <1>6, <1>7 DEF IInv

LEMMA SubscribeInv == ASSUME IInv, NEW w \in Worker, Subscribe(w) PROVE IInv'
<1>1. PICK p \in Path, c \in Channel, u \in User :
          /\ p[1] \notin locked
          /\ Start(w, [kind |-> "add", path |-> p, sub |-> [channel |-> c, creator |-> u]])
          /\ links' = [links EXCEPT ![<<p, c>>] = "unknown"]
  BY DEF Subscribe
<1>2. PICK o \in Add : o = [kind |-> "add", path |-> p, sub |-> [channel |-> c, creator |-> u]]
  BY DEF Add, Sub
<1>3. <<p, c>> \in Link /\ links \in [Link -> {"unknown", "deleting", "deleted"}]
  BY DEF Link, IInv, TypeOK
<1>4. Own(o) = {<<p, c>>} /\ o.path = p /\ Start(w, o)
  BY <1>1, <1>2 DEF Own
<1>. QED BY <1>1, <1>3, <1>4, StartInv

LEMMA UnsubscribeInv == ASSUME IInv, NEW w \in Worker, Unsubscribe(w) PROVE IInv'
<1>1. PICK n \in Name, c \in Channel :
          /\ Start(w, [kind |-> "delete", name |-> n, channel |-> c])
          /\ links' = [l \in Link |-> IF l[1][1] = n /\ l[2] = c /\ ~Adding(l)
                                      THEN "deleting" ELSE links[l]]
  BY DEF Unsubscribe
<1>2. PICK o \in Delete : o = [kind |-> "delete", name |-> n, channel |-> c]
  BY DEF Delete
<1>3. links \in [Link -> {"unknown", "deleting", "deleted"}]
  BY DEF IInv, TypeOK
<1>. QED BY <1>1, <1>2, <1>3, StartInv

LEMMA GetInv == ASSUME IInv, NEW w \in Worker, Get(w) PROVE IInv'
<1>1. /\ pc[w] = "get"
      /\ UNCHANGED <<subs, locked, view, op, links, told, overlap, ops, locks, faults>>
  BY DEF Get, store, history, bounds
<1>2. subs \in Map /\ (\A p \in Path : One(subs[p])) /\ op[w] \in Add \cup Delete
  BY <1>1 DEF IInv, TypeOK, Map, WorkInv
<1>3. PICK m \in Map, label \in {"idle", "set"} :
          /\ \A p \in Path : One(m[p])
          /\ Differs(m, op[w])
          /\ copy' = [copy EXCEPT ![w] = m]
          /\ pc' = [pc EXCEPT ![w] = label]
  <2>1. CASE op[w].kind = "add"
    <3>1. PICK o \in Add : o = op[w]
      BY <1>2, <2>1 DEF Delete
    <3>2. PICK m : m = AddTo(subs, o.path, o.sub)
      OBVIOUS
    <3>3. o.path \in Path /\ o.sub \in Sub /\ o.kind = "add"
      BY DEF Add
    <3>4. /\ m \in Map /\ \A p \in Path : One(m[p])
          /\ \A c \in Channel : c # o.sub.channel => OfChannel(m, c) = OfChannel(subs, c)
          /\ \A l \in Link : Linked(m, l) => Linked(subs, l) \/ l = <<o.path, o.sub.channel>>
      BY <1>2, <3>2, <3>3, AddToProperties
    <3>5. Differs(m, op[w])
      BY <3>1, <3>3, <3>4 DEF Differs, Chan, Own
    <3>6. copy' = [copy EXCEPT ![w] = m] /\ pc' = [pc EXCEPT ![w] = "set"]
      BY <2>1, <3>1, <3>2 DEF Get
    <3>. QED BY <3>4, <3>5, <3>6
  <2>2. CASE op[w].kind = "delete"
    <3>1. PICK o \in Delete : o = op[w]
      BY <1>2, <2>2 DEF Add
    <3>2. PICK m : m = RemoveFrom(subs, o.name, o.channel)
      OBVIOUS
    <3>3. o.name \in Name /\ o.channel \in Channel /\ o.kind = "delete"
      BY DEF Delete
    <3>4. /\ m \in Map /\ \A p \in Path : One(m[p])
          /\ \A c \in Channel : c # o.channel => OfChannel(m, c) = OfChannel(subs, c)
          /\ \A l \in Link : Linked(m, l) => Linked(subs, l)
          /\ \A l \in Link : l[1][1] = o.name /\ l[2] = o.channel => ~Linked(m, l)
      BY <1>2, <3>2, <3>3, RemoveFromProperties
    <3>5. Differs(m, op[w])
      BY <3>1, <3>3, <3>4 DEF Differs, Chan, Own
    <3>6. copy' = [copy EXCEPT ![w] = m]
          /\ pc' = [pc EXCEPT ![w] = IF copy'[w] = subs THEN "idle" ELSE "set"]
      BY <2>2, <3>1, <3>2 DEF Get
    <3>. QED BY <3>4, <3>5, <3>6
  <2>. QED BY <2>1, <2>2 DEF Get
<1>4. /\ pc'[w] = label /\ copy'[w] = m
      /\ \A v \in Worker \ {w} : pc'[v] = pc[v] /\ copy'[v] = copy[v]
  BY <1>3 DEF IInv, TypeOK
<1>5. TypeOK'
  BY <1>1, <1>3 DEF IInv, TypeOK, Map
<1>6. WorkInv'
  BY <1>1, <1>2, <1>3, <1>4 DEF IInv, WorkInv
<1>7. ASSUME Sequential' PROVE SequentialInv'
  <2>1. SequentialInv
    BY <1>1, <1>7 DEF IInv, Sequential
  <2>2. \A v \in Worker \ {w} : pc'[v] = "idle"
    BY <1>1, <1>4, <2>1 DEF SequentialInv
  <2>3. \A c \in Channel : view'[c] = OfChannel(subs', c)
    BY <1>1, <2>1 DEF SequentialInv, CommandInv
  <2>4. Differs(copy[w], op[w])'
    BY <1>1, <1>3, <1>4 DEF Differs, Linked
  <2>5. CommandInv(w)'
    BY <1>1, <1>4, <2>1, <2>3, <2>4 DEF SequentialInv, CommandInv
  <2>6. \A v \in Worker \ {w} : CommandInv(v)'
    BY <2>2 DEF CommandInv
  <2>7. \A l \in Link : /\ links'[l] = "deleted" => ~Linked(subs', l)
                        /\ l[1][1] \in locked' /\ Linked(subs', l) => l \in told'
    BY <1>1, <2>1 DEF SequentialInv
  <2>. QED BY <2>2, <2>3, <2>5, <2>6, <2>7 DEF SequentialInv
<1>. QED BY <1>1, <1>5, <1>6, <1>7 DEF IInv

LEMMA SetInv == ASSUME IInv, NEW w \in Worker, Set(w) PROVE IInv'
<1>1. /\ pc[w] = "set" /\ pc' = [pc EXCEPT ![w] = "send"]
      /\ UNCHANGED <<locked, view, op, copy, links, told, overlap, ops, locks>>
  BY DEF Set, history
<1>2. /\ copy[w] \in Map /\ (\A p \in Path : One(copy[w][p])) /\ op[w] \in Add \cup Delete
  BY <1>1 DEF IInv, WorkInv
<1>3. \/ subs' = copy[w] /\ faults' = faults
      \/ subs' = subs /\ faults' \in 0 .. MaxFaults /\ faults' # 0
  BY Bounds, ConstantsAssumption DEF Set
<1>4. pc'[w] = "send" /\ \A v \in Worker \ {w} : pc'[v] = pc[v]
  BY <1>1 DEF IInv, TypeOK
<1>5. TypeOK'
  BY <1>1, <1>2, <1>3 DEF IInv, TypeOK, Map
<1>6. WorkInv'
  BY <1>1, <1>2, <1>4 DEF IInv, WorkInv
<1>7. (\A p \in Path : One(subs[p]))'
  BY <1>2, <1>3 DEF IInv
<1>8. ASSUME Sequential' PROVE SequentialInv'
  <2>1. Sequential /\ subs' = copy[w]
    BY <1>1, <1>3, <1>8 DEF Sequential
  <2>2. SequentialInv
    BY <2>1 DEF IInv
  <2>3. \A v \in Worker \ {w} : pc'[v] = "idle"
    BY <1>1, <1>4, <2>2 DEF SequentialInv
  <2>4. Differs(copy[w], op[w]) /\ \A c \in Channel : view[c] = OfChannel(subs, c)
    BY <1>1, <2>2 DEF SequentialInv, CommandInv
  <2>5. op[w].kind = "add" =>
            op[w].path[1] \notin locked /\ \A l \in Own(op[w]) : links[l] = "unknown"
    BY <1>1, <2>2 DEF SequentialInv, CommandInv
  <2>6. \A c \in Channel : c # Chan(op[w]) => view'[c] = OfChannel(subs', c)
    BY <1>1, <2>1, <2>4 DEF Differs
  <2>7. op[w].kind = "delete" => \A l \in Own(op[w]) : ~Linked(subs', l)
    BY <2>1, <2>4 DEF Differs
  <2>8. CommandInv(w)'
    BY <1>1, <1>4, <2>1, <2>5, <2>6, <2>7 DEF CommandInv
  <2>9. \A v \in Worker \ {w} : CommandInv(v)'
    BY <2>3 DEF CommandInv
  <2>10. ASSUME NEW l \in Link, Linked(subs', l)
         PROVE  Linked(subs, l) \/ (links[l] = "unknown" /\ l[1][1] \notin locked)
    <3>1. Linked(subs, l) \/ (op[w].kind = "add" /\ l \in Own(op[w]))
      BY <2>1, <2>4, <2>10 DEF Differs
    <3>2. op[w].kind = "add" /\ l \in Own(op[w]) => l[1] = op[w].path
      BY DEF Own
    <3>. QED BY <2>5, <3>1, <3>2
  <2>11. \A l \in Link : /\ links'[l] = "deleted" => ~Linked(subs', l)
                         /\ l[1][1] \in locked' /\ Linked(subs', l) => l \in told'
    BY <1>1, <2>2, <2>10 DEF SequentialInv
  <2>12. ~Quiet'
    BY <1>4 DEF Quiet
  <2>. QED BY <2>3, <2>8, <2>9, <2>11, <2>12 DEF SequentialInv
<1>. QED BY <1>5, <1>6, <1>7, <1>8 DEF IInv

LEMMA SendInv == ASSUME IInv, NEW w \in Worker, Send(w) PROVE IInv'
<1>1. /\ pc[w] = "send" /\ links' = Answered(w)
      /\ view' = [view EXCEPT ![Chan(op[w])] = OfChannel(copy[w], Chan(op[w]))]
      /\ pc' = [pc EXCEPT ![w] = "idle"] /\ op' = [op EXCEPT ![w] = None]
      /\ copy' = [copy EXCEPT ![w] = None]
      /\ UNCHANGED <<subs, locked, told, overlap, ops, locks, faults>>
  BY DEF Send, Chan, store, bounds
<1>2. op[w] \in Add \cup Delete
  BY <1>1 DEF IInv, WorkInv
<1>3. PICK c \in Channel : c = Chan(op[w])
  BY <1>2 DEF Chan, Add, Delete, Sub
<1>4. /\ pc'[w] = "idle"
      /\ \A v \in Worker \ {w} : pc'[v] = pc[v] /\ op'[v] = op[v] /\ copy'[v] = copy[v]
  BY <1>1 DEF IInv, TypeOK
<1>5. TypeOK'
  <2>1. links' \in [Link -> {"unknown", "deleting", "deleted"}]
    BY <1>1 DEF Answered, IInv, TypeOK
  <2>2. view' \in [Channel -> SUBSET (Path \X User)]
    BY <1>1, <1>3 DEF OfChannel, IInv, TypeOK
  <2>. QED BY <1>1, <2>1, <2>2 DEF IInv, TypeOK
<1>6. WorkInv'
  BY <1>4 DEF IInv, WorkInv
<1>7. ASSUME Sequential' PROVE SequentialInv'
  <2>1. SequentialInv
    BY <1>1, <1>7 DEF IInv, Sequential
  <2>2. \A v \in Worker : pc'[v] = "idle"
    BY <1>1, <1>4, <2>1 DEF SequentialInv
  <2>3. /\ copy[w] = subs
        /\ op[w].kind = "delete" => \A l \in Own(op[w]) : ~Linked(subs, l)
        /\ \A d \in Channel : d # c => view[d] = OfChannel(subs, d)
    BY <1>1, <1>3, <2>1 DEF SequentialInv, CommandInv
  <2>4. \A d \in Channel : view'[d] = OfChannel(subs, d)
    BY <1>1, <1>3, <2>3 DEF IInv, TypeOK
  <2>5. \A l \in Link : links'[l] = "deleted" => ~Linked(subs, l)
    <3>1. SUFFICES ASSUME NEW l \in Link, links'[l] = "deleted" PROVE ~Linked(subs, l)
      OBVIOUS
    <3>2. links[l] = "deleted" \/ (op[w].kind = "delete" /\ l \in Own(op[w]))
      BY <1>1, <3>1 DEF Answered, Own
    <3>. QED BY <2>1, <2>3, <3>2 DEF SequentialInv
  <2>6. \A l \in Link : l[1][1] \in locked /\ Linked(subs, l) => l \in told
    BY <2>1 DEF SequentialInv
  <2>7. \A v \in Worker : CommandInv(v)'
    BY <2>2 DEF CommandInv
  <2>. QED BY <1>1, <2>2, <2>4, <2>5, <2>6, <2>7 DEF SequentialInv
<1>. QED BY <1>1, <1>5, <1>6, <1>7 DEF IInv

LEMMA ChangeGroupInv == ASSUME IInv, ChangeGroup PROVE IInv'
<1>1. /\ locks < MaxLocks /\ locks' = locks + 1 /\ locked' \subseteq Name
      /\ told' = {l \in Link : l[1][1] \in locked' /\ Linked(subs, l)}
      /\ overlap' = (overlap \/ ~Quiet)
      /\ UNCHANGED <<subs, view, pc, op, copy, links, ops, faults>>
  BY DEF ChangeGroup, Linked
<1>2. locks' \in 0 .. MaxLocks
  BY <1>1, Bounds, ConstantsAssumption
<1>3. overlap' \in BOOLEAN /\ (~overlap' => ~overlap /\ Quiet)
  BY <1>1, Overlapping
<1>4. TypeOK'
  BY <1>1, <1>2, <1>3 DEF IInv, TypeOK
<1>5. WorkInv'
  BY <1>1 DEF IInv, WorkInv
<1>6. ASSUME Sequential' PROVE SequentialInv'
  <2>1. Sequential /\ Quiet
    BY <1>1, <1>3, <1>6 DEF Sequential
  <2>2. SequentialInv
    BY <2>1 DEF IInv
  <2>3. \A w \in Worker : pc'[w] = "idle"
    BY <1>1, <2>1 DEF Quiet
  <2>4. \A w \in Worker : CommandInv(w)'
    BY <2>3 DEF CommandInv
  <2>5. \A c \in Channel : view'[c] = OfChannel(subs', c)
    BY <1>1, <2>1, <2>2 DEF SequentialInv
  <2>6. \A l \in Link : /\ links'[l] = "deleted" => ~Linked(subs', l)
                        /\ l[1][1] \in locked' /\ Linked(subs', l) => l \in told'
    BY <1>1, <2>2 DEF SequentialInv
  <2>. QED BY <2>3, <2>4, <2>5, <2>6 DEF SequentialInv
<1>. QED BY <1>1, <1>4, <1>5, <1>6 DEF IInv

-----------------------------------------------------------------------------
(* The theorems *)

LEMMA NextInv == IInv /\ [Next]_vars => IInv'
<1> SUFFICES ASSUME IInv, [Next]_vars PROVE IInv'
  OBVIOUS
<1>1. ASSUME NEW w \in Worker, Command(w) PROVE IInv'
  BY <1>1, SubscribeInv, UnsubscribeInv DEF Command
<1>2. ASSUME NEW w \in Worker, Step(w) PROVE IInv'
  BY <1>2, GetInv, SetInv, SendInv DEF Step
<1>3. CASE UNCHANGED vars
  <2>1. TypeOK' /\ WorkInv'
    BY <1>3 DEF IInv, TypeOK, WorkInv, vars
  <2>2. Sequential' => SequentialInv'
    BY <1>3 DEF IInv, Sequential, SequentialInv, CommandInv, Differs, Linked, Quiet, vars
  <2>. QED BY <1>3, <2>1, <2>2 DEF IInv, vars
<1>. QED BY <1>1, <1>2, <1>3, ChangeGroupInv DEF Next

LEMMA Invariant == Spec => []IInv
BY InitInv, NextInv, PTL DEF Spec

\* The state is well typed, and however the commands of any number of users interleave, a
\* channel has at most one subscription to a path: AddSubscription replaces the one it finds in
\* the copy, and a copy is only ever written as a whole.
THEOREM SubscribedOnce == Spec => []SubscriptionsInv
<1>1. IInv => SubscriptionsInv
  BY DEF IInv, One, SubscriptionsInv, OnePerChannel
<1>. QED BY <1>1, Invariant, PTL

\* Commands that follow one another delete what they say, as a project and as a group, and every
\* creator of a subscription that the group lock excludes has been told (Unsubscribe,
\* notifyUsersOfDisallowedSubscriptions).
THEOREM AloneTrue == Spec => []CommandsAlone
<1>1. IInv => CommandsAlone
  BY DEF IInv, SequentialInv, CommandsAlone, UnsubscribeDeletes, LockedTold, Linked
<1>. QED BY <1>1, Invariant, PTL

\* Commands that follow one another leave every channel's sidebar with what is stored:
\* sendChannelSubscriptionsUpdated reaches the only channel whose list has changed.
THEOREM ViewsCurrent == Spec => []ViewCurrent
<1>1. IInv => ViewCurrent
  BY DEF IInv, SequentialInv, ViewCurrent
<1>. QED BY <1>1, Invariant, PTL
=============================================================================
