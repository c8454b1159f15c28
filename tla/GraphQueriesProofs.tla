------------------------- MODULE GraphQueriesProofs -------------------------
(* Proofs about GraphQueries, for any nodes, endpoints, names and types. *)
EXTENDS GraphQueries, FunctionTheorems, FiniteSetTheorems, SequenceTheorems,
        WellFoundedInduction, TLAPS

-----------------------------------------------------------------------------
(* What the operators on numbers and sequences return. *)

\* Some natural numbers, if there are any, have a least one.
LEMMA MinProperties ==
  ASSUME NEW S \in SUBSET Nat, S # {}
  PROVE  Min(S) \in S /\ \A i \in S : Min(S) <= i
  <1> DEFINE below == {0..i : i \in S}
  <1>1. IsWellFoundedOn(StrictSubsetOrdering(Nat), FiniteSubsetsOf(Nat))
    BY FS_StrictSubsetOrderingWellFounded
  <1>2. below \subseteq FiniteSubsetsOf(Nat) /\ below # {}
    <2>1. ASSUME NEW i \in S PROVE 0..i \in SUBSET Nat /\ IsFiniteSet(0..i)
      BY FS_Interval
    <2> QED
      BY <2>1 DEF FiniteSubsetsOf
  <1>3. PICK b \in below : \A c \in below : <<c, b>> \notin StrictSubsetOrdering(Nat)
    <2> HIDE DEF below
    <2> QED
      BY <1>1, <1>2, WFMin
  <1>4. PICK m \in S : b = 0..m
    OBVIOUS
  <1>5. ASSUME NEW i \in S PROVE m <= i
    <2> SUFFICES ASSUME i < m PROVE FALSE
      OBVIOUS
    <2>1. 0..i \subseteq 0..m /\ m \in 0..m /\ m \notin 0..i
      OBVIOUS
    <2>2. 0..i \in SUBSET Nat /\ 0..m \in SUBSET Nat
      OBVIOUS
    <2> HIDE DEF below
    <2>3. <<0..i, 0..m>> \notin StrictSubsetOrdering(Nat)
      BY <1>3, <1>4 DEF below
    <2> QED
      BY <2>1, <2>2, <2>3 DEF StrictSubsetOrdering
  <1> QED
    BY <1>5 DEF Min

\* std::vector::erase(): an element goes, and what is behind it moves up.
LEMMA RemoveAtProperties ==
  ASSUME NEW S, NEW s \in Seq(S), NEW gone \in 1..Len(s)
  PROVE  /\ RemoveAt(s, gone) \in Seq(S)
         /\ Len(RemoveAt(s, gone)) = Len(s) - 1
         /\ \A i \in 1..(Len(s) - 1) :
              RemoveAt(s, gone)[i] = IF i < gone THEN s[i] ELSE s[i + 1]
  <1>1. Len(s) \in Nat /\ gone \in Int
    BY LenProperties
  <1> DEFINE a == SubSeq(s, 1, gone - 1)
             b == SubSeq(s, gone + 1, Len(s))
  <1>2. /\ a \in Seq(S) /\ Len(a) = gone - 1
        /\ \A i \in 1..(gone - 1) : a[i] = s[i]
    BY <1>1, ElementOfSeq, SubSeqProperties
  <1>3. /\ b \in Seq(S) /\ Len(b) = Len(s) - gone
        /\ \A i \in 1..(Len(s) - gone) : b[i] = s[i + gone]
    <2>1. gone + 1 \in Int /\ \A i \in (gone + 1)..Len(s) : s[i] \in S
      BY <1>1, ElementOfSeq
    <2>2. /\ b \in Seq(S)
          /\ Len(b) = IF gone + 1 <= Len(s) THEN Len(s) - (gone + 1) + 1 ELSE 0
          /\ \A i \in 1..(Len(s) - (gone + 1) + 1) : b[i] = s[(gone + 1) + i - 1]
      BY <1>1, <2>1, SubSeqProperties
    <2>3. \A i \in 1..(Len(s) - gone) : (gone + 1) + i - 1 = i + gone
      BY <1>1
    <2>4. Len(s) - (gone + 1) + 1 = Len(s) - gone
      BY <1>1
    <2> HIDE DEF b
    <2>5. CASE gone < Len(s)
      BY <1>1, <2>2, <2>3, <2>4, <2>5
    <2>6. CASE gone = Len(s)
      BY <1>1, <2>2, <2>3, <2>4, <2>6
    <2> QED
      BY <1>1, <2>5, <2>6
  <1>4. RemoveAt(s, gone) = a \o b
    BY DEF RemoveAt
  <1> HIDE DEF a, b
  <1>5. Len(a) + Len(b) = Len(s) - 1
    BY <1>1, <1>2, <1>3
  <1>6. /\ a \o b \in Seq(S) /\ Len(a \o b) = Len(a) + Len(b)
        /\ \A i \in 1..(Len(a) + Len(b)) :
             (a \o b)[i] = IF i <= Len(a) THEN a[i] ELSE b[i - Len(a)]
    BY <1>2, <1>3, ConcatProperties
  <1>7. ASSUME NEW i \in 1..(Len(s) - 1)
       PROVE  (a \o b)[i] = IF i < gone THEN s[i] ELSE s[i + 1]
    <2>1. CASE i < gone
      BY <1>1, <1>2, <1>5, <1>6, <2>1
    <2>2. CASE ~(i < gone)
      <3>1. b[i - Len(a)] = s[i - Len(a) + gone] /\ i - Len(a) + gone = i + 1
        BY <1>1, <1>2, <1>3, <2>2
      <3> QED
        BY <1>1, <1>2, <1>5, <1>6, <2>2, <3>1
    <2> QED
      BY <2>1, <2>2
  <1> QED
    BY <1>4, <1>5, <1>6, <1>7

\* Where an element is found when the one at a place before it is gone.
Later(i, gone) == IF i > gone THEN i - 1 ELSE i

\* std::find_if and erase: of a sequence that has x, one x goes; the other
\* elements stay, and move up.
LEMMA RemoveFirstProperties ==
  ASSUME NEW S, NEW s \in Seq(S), NEW x, \E i \in DOMAIN s : s[i] = x
  PROVE  /\ RemoveFirst(s, x) \in Seq(S)
         /\ Len(RemoveFirst(s, x)) = Len(s) - 1
         /\ \E gone \in DOMAIN s :
              /\ s[gone] = x
              /\ \A i \in DOMAIN s \ {gone} : RemoveFirst(s, x)[Later(i, gone)] = s[i]
  <1>1. Len(s) \in Nat /\ DOMAIN s = 1..Len(s)
    BY LenProperties
  <1>2. PICK gone \in 1..Len(s) : s[gone] = x /\ RemoveFirst(s, x) = RemoveAt(s, gone)
    <2> DEFINE equal == {i \in 1..Len(s) : s[i] = x}
    <2>1. RemoveFirst(s, x) = RemoveAt(s, Min(equal))
      BY <1>1 DEF RemoveFirst, SelectInSeq
    <2>2. equal \in SUBSET Nat /\ equal # {}
      BY <1>1
    <2>3. Min(equal) \in equal
      <3> HIDE DEF equal
      <3> QED
        BY <2>2, MinProperties
    <2> QED
      BY <2>1, <2>3
  <1>3. PICK r \in Seq(S) :
          /\ r = RemoveFirst(s, x) /\ Len(r) = Len(s) - 1
          /\ \A i \in 1..(Len(s) - 1) : r[i] = IF i < gone THEN s[i] ELSE s[i + 1]
    BY <1>2, RemoveAtProperties
  <1>4. ASSUME NEW i \in 1..Len(s), i # gone PROVE r[Later(i, gone)] = s[i]
    <2>1. CASE i < gone
      BY <1>1, <1>3, <2>1 DEF Later
    <2>2. CASE i > gone
      <3>1. i - 1 \in 1..(Len(s) - 1) /\ ~(i - 1 < gone) /\ i - 1 + 1 = i
        BY <1>1, <2>2
      <3> QED
        BY <1>3, <2>2, <3>1 DEF Later
    <2> QED
      BY <1>1, <1>4, <2>1, <2>2
  <1> QED
    BY <1>1, <1>2, <1>3, <1>4

-----------------------------------------------------------------------------
(* Announcements. *)

\* The strings of endpoints tell the kinds from each other, and from the
\* strings of the greeting.
LEMMA PrefixesDiffer ==
  /\ \A kind, other \in Kinds : Prefix[kind] = Prefix[other] => kind = other
  /\ \A kind \in Kinds : Prefix[kind] \notin {"name=", "namespace="}
  <1>1. /\ Prefix["subscribers"] = "subscriber&topic="
        /\ Prefix["publishers"] = "publisher&topic="
        /\ Prefix["services"] = "service&topic="
        /\ Prefix["clients"] = "client&topic="
    BY DEF Prefix
  <1>2. \A kind \in Kinds : kind \in {"subscribers", "publishers", "services", "clients"}
    BY DEF Kinds
  <1>4. \A kind, other \in Kinds : Prefix[kind] = Prefix[other] => kind = other
    BY <1>1, <1>2
  <1>5. \A kind \in Kinds : Prefix[kind] \notin {"name=", "namespace="}
    BY <1>1, <1>2
  <1> QED
    BY <1>4, <1>5

LEMMA StringsAreTyped ==
  /\ \A e \in Endpoints : DiscoveryName(e) \in Strings
  /\ \A p \in Peers : Greeting(p) \in Seq(Strings)
  <1>1. ASSUME NEW e \in Endpoints PROVE DiscoveryName(e) \in Strings
    BY <1>1, GraphAssumption DEF DiscoveryName, Text, Strings
  <1>2. ASSUME NEW p \in Peers PROVE Greeting(p) \in Seq(Strings)
    <2>1. <<>> \in Seq(TypeNames)
      BY EmptySeq
    <2>2. Name[p].name \in STRING /\ Name[p].namespace \in STRING
      BY GraphAssumption
    <2>3. /\ Text("namespace=", Name[p].namespace, <<>>) \in Strings
          /\ Text("name=", Name[p].name, <<>>) \in Strings
      BY <2>1, <2>2 DEF Text, Strings
    <2> QED
      BY <2>3 DEF Greeting
  <1> QED
    BY <1>1, <1>2

\* _add_discovery_topic() puts one more endpoint last.
LEMMA AppendAnnounces ==
  ASSUME NEW s \in Seq(Strings), Len(s) >= 2,
         NEW own \in SUBSET Endpoints, NEW e \in Endpoints, e \notin own,
         Announces(s, own)
  PROVE  Announces(Append(s, DiscoveryName(e)), own \cup {e})
  <1> DEFINE t == Append(s, DiscoveryName(e))
  <1>1. /\ t \in Seq(Strings) /\ Len(t) = Len(s) + 1
        /\ t[Len(s) + 1] = DiscoveryName(e) /\ \A i \in 1..Len(s) : t[i] = s[i]
    <2>1. DiscoveryName(e) \in Strings
      BY StringsAreTyped
    <2> QED
      BY <2>1, AppendProperties
  <1> HIDE DEF t
  <1>2. Len(s) \in Nat
    BY LenProperties
  <1>3. PICK place \in [own -> 3..Len(s)] :
          /\ \A d, f \in own : place[d] = place[f] => d = f
          /\ \A i \in 3..Len(s) : \E d \in own : place[d] = i
          /\ \A d \in own : s[place[d]] = DiscoveryName(d)
    BY DEF Announces, Bijection, Injection, Surjection, IsInjective
  <1> DEFINE other == [d \in own \cup {e} |-> IF d = e THEN Len(s) + 1 ELSE place[d]]
  <1>4. other \in [own \cup {e} -> 3..Len(t)]
    BY <1>1, <1>2, <1>3
  <1>5. \A d, f \in own \cup {e} : other[d] = other[f] => d = f
    BY <1>2, <1>3
  <1>6. ASSUME NEW i \in 3..Len(t) PROVE \E d \in own \cup {e} : other[d] = i
    <2>1. CASE i = Len(s) + 1
      BY <2>1
    <2>2. CASE i \in 3..Len(s)
      BY <1>3, <2>2
    <2>3. i = Len(s) + 1 \/ i \in 3..Len(s)
      BY <1>1, <1>2
    <2> QED
      BY <2>1, <2>2, <2>3
  <1>7. other \in Bijection(own \cup {e}, 3..Len(t))
    BY <1>4, <1>5, <1>6, Fun_IsBij
  <1>8. \A d \in own \cup {e} : t[other[d]] = DiscoveryName(d)
    BY <1>1, <1>2, <1>3
  <1> QED
    BY <1>7, <1>8 DEF Announces, t

\* _remove_discovery_topic() erases a string that is equal to the endpoint's:
\* if it was another's, that one is found where the endpoint was.
LEMMA RemoveAnnounces ==
  ASSUME NEW s \in Seq(Strings), Len(s) >= 2,
         \A i \in {1, 2}, e \in Endpoints : s[i] # DiscoveryName(e),
         NEW own \in SUBSET Endpoints, NEW e \in own,
         Announces(s, own)
  PROVE  /\ RemoveFirst(s, DiscoveryName(e)) \in Seq(Strings)
         /\ Len(RemoveFirst(s, DiscoveryName(e))) >= 2
         /\ \A i \in {1, 2} : RemoveFirst(s, DiscoveryName(e))[i] = s[i]
         /\ Announces(RemoveFirst(s, DiscoveryName(e)), own \ {e})
  <1>1. Len(s) \in Nat /\ DOMAIN s = 1..Len(s)
    BY LenProperties
  <1>2. PICK place \in [own -> 3..Len(s)] :
          /\ \A d, f \in own : place[d] = place[f] => d = f
          /\ \A i \in 3..Len(s) : \E d \in own : place[d] = i
          /\ \A d \in own : s[place[d]] = DiscoveryName(d)
    BY DEF Announces, Bijection, Injection, Surjection, IsInjective
  <1>3. \A d \in own : s[place[d]] = DiscoveryName(d)
    BY <1>2
  <1> DEFINE r == RemoveFirst(s, DiscoveryName(e))
  <1>4. /\ r \in Seq(Strings) /\ Len(r) = Len(s) - 1
        /\ \E gone \in DOMAIN s :
             /\ s[gone] = DiscoveryName(e)
             /\ \A i \in DOMAIN s \ {gone} : r[Later(i, gone)] = s[i]
    <2>1. place[e] \in DOMAIN s /\ s[place[e]] = DiscoveryName(e)
      BY <1>1, <1>2, <1>3
    <2> QED
      BY <2>1, RemoveFirstProperties
  <1> HIDE DEF r
  <1>5. PICK gone \in 1..Len(s) :
          /\ s[gone] = DiscoveryName(e)
          /\ \A i \in (1..Len(s)) \ {gone} : r[Later(i, gone)] = s[i]
    BY <1>1, <1>4
  <1>6. gone >= 3
    BY <1>1, <1>5
  <1>7. Len(r) >= 2 /\ \A i \in {1, 2} : r[i] = s[i]
    BY <1>1, <1>4, <1>5, <1>6 DEF Later
  \* Where an endpoint is before the string goes, but that e has the place of
  \* the string that goes.
  <1> DEFINE before(d) == IF place[d] = gone THEN place[e] ELSE place[d]
             other == [d \in own \ {e} |-> Later(before(d), gone)]
  <1>8. ASSUME NEW d \in own \ {e}
       PROVE  /\ before(d) \in (3..Len(s)) \ {gone}
              /\ s[before(d)] = DiscoveryName(d)
    <2>1. CASE place[d] = gone
      BY <1>2, <1>3, <1>5, <2>1
    <2>2. CASE place[d] # gone
      BY <1>2, <1>3, <2>2
    <2> QED
      BY <2>1, <2>2
  <1>9. \A d, f \in own \ {e} : before(d) = before(f) => d = f
    BY <1>2
  <1>10. ASSUME NEW i \in (3..Len(s)) \ {gone} PROVE \E d \in own \ {e} : before(d) = i
    <2>1. CASE i = place[e]
      <3>1. PICK d \in own : place[d] = gone
        BY <1>1, <1>2, <1>5, <1>6
      <3> QED
        BY <1>10, <2>1, <3>1
    <2>2. CASE i # place[e]
      BY <1>2, <1>10, <2>2
    <2> QED
      BY <2>1, <2>2
  <1> HIDE DEF before
  <1>11. other \in Bijection(own \ {e}, 3..Len(r))
    <2>1. ASSUME NEW d \in own \ {e} PROVE other[d] \in 3..Len(r)
      BY <1>1, <1>4, <1>5, <1>6, <1>8 DEF Later
    <2>2. ASSUME NEW d \in own \ {e}, NEW f \in own \ {e}, other[d] = other[f]
         PROVE  d = f
      <3>1. before(d) = before(f)
        BY <1>1, <1>5, <1>8, <2>2 DEF Later
      <3> QED
        BY <1>9, <3>1
    <2>3. ASSUME NEW i \in 3..Len(r) PROVE \E d \in own \ {e} : other[d] = i
      <3> DEFINE j == IF i < gone THEN i ELSE i + 1
      <3>1. j \in (3..Len(s)) \ {gone} /\ Later(j, gone) = i
        BY <1>1, <1>4, <1>5, <1>6 DEF Later
      <3>2. PICK d \in own \ {e} : before(d) = j
        BY <1>10, <3>1
      <3> QED
        BY <3>1, <3>2
    <2> QED
      BY <2>1, <2>2, <2>3, Fun_IsBij
  <1>12. \A d \in own \ {e} : r[other[d]] = DiscoveryName(d)
    BY <1>1, <1>5, <1>8
  <1> QED
    BY <1>4, <1>7, <1>11, <1>12 DEF Announces, r

\* onDiscovery() makes of a payload a node of its name and namespace, and of
\* one entry for each endpoint.
LEMMA NodeOfAnnounced ==
  ASSUME NEW p \in Peers, NEW s \in Seq(Strings),
         Len(s) >= 2, \A i \in {1, 2} : s[i] = Greeting(p)[i],
         NEW own \in SUBSET Endpoints, Announces(s, own)
  PROVE  /\ NodeOf(s) \in NodeInfos
         /\ NodeOf(s).name = Name[p].name
         /\ NodeOf(s).namespace = Name[p].namespace
         /\ \E place \in Injection(own, PlacesOf(NodeOf(s))) :
              \A kind \in Kinds : NodeOf(s)[kind] = ListedAt(place, kind)
  <1>1. Len(s) \in Nat /\ DOMAIN s = 1..Len(s)
    BY LenProperties
  <1>2. PICK place \in [own -> 3..Len(s)] :
          /\ \A d, f \in own : place[d] = place[f] => d = f
          /\ \A i \in 3..Len(s) : \E d \in own : place[d] = i
          /\ \A d \in own : s[place[d]] = DiscoveryName(d)
    BY DEF Announces, Bijection, Injection, Surjection, IsInjective
  <1>3. \A e \in own : s[place[e]] = DiscoveryName(e)
    BY <1>2
  <1>4. /\ s[1].prefix = "namespace=" /\ s[1].text = Name[p].namespace
        /\ s[2].prefix = "name=" /\ s[2].text = Name[p].name
    BY DEF Greeting, Text
  <1>5. \A e \in own : /\ s[place[e]].prefix = Prefix[Kind[e]]
                       /\ s[place[e]].text = Topic[e] /\ s[place[e]].types = Types[e]
    <2>1. ASSUME NEW e \in own
         PROVE  /\ DiscoveryName(e).prefix = Prefix[Kind[e]]
                /\ DiscoveryName(e).text = Topic[e] /\ DiscoveryName(e).types = Types[e]
      BY DEF DiscoveryName, Text
    <2> QED
      BY <1>3, <2>1
  <1>6. \A e \in own : Kind[e] \in Kinds
    BY GraphAssumption
  <1>7. \A i \in DOMAIN s : i = 1 \/ i = 2 \/ \E e \in own : i = place[e]
    BY <1>1, <1>2
  <1>8. WithPrefix(s, "namespace=") = {1} /\ WithPrefix(s, "name=") = {2}
    <2>1. \A e \in own : s[place[e]].prefix \notin {"name=", "namespace="}
      BY <1>5, <1>6, PrefixesDiffer
    <2>2. \A i \in DOMAIN s : i = 1 \/ i = 2 \/ s[i].prefix \notin {"name=", "namespace="}
      BY <1>7, <2>1
    <2>3. 1 \in DOMAIN s /\ 2 \in DOMAIN s
      BY <1>1
    <2> QED
      BY <1>4, <2>2, <2>3 DEF WithPrefix
  <1>9. /\ Named(s, "name=") = Name[p].name
        /\ Named(s, "namespace=") = Name[p].namespace
    <2>1. Max({1}) = 1 /\ Max({2}) = 2
      BY DEF Max
    <2> QED
      BY <1>4, <1>8, <2>1 DEF Named
  <1>10. ASSUME NEW kind \in Kinds
        PROVE  WithPrefix(s, Prefix[kind]) = {place[e] : e \in {f \in own : Kind[f] = kind}}
    <2>1. \A i \in DOMAIN s : s[i].prefix = Prefix[kind] => \E e \in own : i = place[e] /\ Kind[e] = kind
      BY <1>4, <1>5, <1>6, <1>7, PrefixesDiffer
    <2>2. \A e \in own : place[e] \in DOMAIN s
      BY <1>1, <1>2
    <2> QED
      BY <1>5, <2>1, <2>2 DEF WithPrefix
  <1>11. ASSUME NEW kind \in Kinds PROVE Topics(s, Prefix[kind]) = ListedAt(place, kind)
    <2> DEFINE of == {f \in own : Kind[f] = kind}
               entry(i) == [at |-> i, topic |-> s[i].text, types |-> s[i].types]
               listed(e) == [at |-> place[e], topic |-> Topic[e], types |-> Types[e]]
    <2>1. WithPrefix(s, Prefix[kind]) = {place[e] : e \in of}
      BY <1>10
    <2>2. ListedAt(place, kind) = {listed(e) : e \in of}
      <3>1. DOMAIN place = own
        BY <1>2
      <3> QED
        BY <3>1 DEF ListedAt
    <2>3. \A e \in of : entry(place[e]) = listed(e)
      BY <1>5
    <2>4. Topics(s, Prefix[kind]) = {entry(i) : i \in WithPrefix(s, Prefix[kind])}
      BY DEF Topics
    <2> HIDE DEF of, entry, listed
    <2>5. Topics(s, Prefix[kind]) = {entry(place[e]) : e \in of}
      BY <2>1, <2>4
    <2> QED
      BY <2>2, <2>3, <2>5
  <1>12. \A kind \in Kinds : ListedAt(place, kind) \in SUBSET TopicInfos
    <2>1. \A e \in own : place[e] \in Nat /\ Topic[e] \in STRING /\ Types[e] \in Seq(TypeNames)
      BY <1>1, <1>2, GraphAssumption
    <2> QED
      BY <1>2, <2>1 DEF ListedAt, TopicInfos
  <1>13. \A kind \in Kinds : NodeOf(s)[kind] = ListedAt(place, kind)
    <2>1. /\ NodeOf(s)["subscribers"] = Topics(s, Prefix["subscribers"])
          /\ NodeOf(s)["publishers"] = Topics(s, Prefix["publishers"])
          /\ NodeOf(s)["services"] = Topics(s, Prefix["services"])
          /\ NodeOf(s)["clients"] = Topics(s, Prefix["clients"])
      BY DEF NodeOf
    <2> QED
      BY <1>11, <2>1 DEF Kinds
  <1>14. NodeOf(s) \in NodeInfos
    <2>1. Name[p].name \in STRING /\ Name[p].namespace \in STRING
      BY GraphAssumption
    <2>2. \A kind \in Kinds : Topics(s, Prefix[kind]) \in SUBSET TopicInfos
      BY <1>11, <1>12
    <2>3. /\ Topics(s, Prefix.subscribers) \in SUBSET TopicInfos
          /\ Topics(s, Prefix.publishers) \in SUBSET TopicInfos
          /\ Topics(s, Prefix.services) \in SUBSET TopicInfos
          /\ Topics(s, Prefix.clients) \in SUBSET TopicInfos
      BY <2>2 DEF Kinds
    <2> QED
      BY <1>9, <2>1, <2>3 DEF NodeOf, NodeInfos
  <1>15. place \in Injection(own, PlacesOf(NodeOf(s)))
    <2>1. ASSUME NEW e \in own PROVE place[e] \in PlacesOf(NodeOf(s))
      <3>1. [at |-> place[e], topic |-> Topic[e], types |-> Types[e]] \in NodeOf(s)[Kind[e]]
        BY <1>2, <1>6, <1>13 DEF ListedAt
      <3> QED
        BY <1>6, <3>1 DEF PlacesOf
    <2> QED
      BY <1>2, <2>1, Fun_IsInj
  <1> QED
    <2>1. NodeOf(s).name = Name[p].name /\ NodeOf(s).namespace = Name[p].namespace
      BY <1>9 DEF NodeOf
    <2> QED
      BY <1>13, <1>14, <1>15, <2>1

-----------------------------------------------------------------------------
(* What the nodes announce, and what is known of them. *)

GraphInv == GraphTypeOK /\ PayloadIsTrue /\ DiscoveredIsTrue

\* No endpoint's string is one of the greeting.
LEMMA GreetingDiffers ==
  ASSUME NEW p \in Peers, NEW i \in {1, 2}, NEW e \in Endpoints
  PROVE  Greeting(p)[i] # DiscoveryName(e)
  <1>1. Greeting(p)[i].prefix \in {"name=", "namespace="}
    BY DEF Greeting, Text
  <1>2. DiscoveryName(e).prefix = Prefix[Kind[e]]
    BY DEF DiscoveryName, Text
  <1> QED
    BY <1>1, <1>2, PrefixesDiffer, GraphAssumption

LEMMA GraphInit == Init => GraphInv
  <1> SUFFICES ASSUME Init PROVE GraphInv
    OBVIOUS
  <1>1. ASSUME NEW p \in Peers
       PROVE  /\ payload[p] = Greeting(p) /\ Len(payload[p]) = 2
              /\ EndpointsOfNode(p) = {}
    BY DEF Init, Greeting, EndpointsOfNode
  <1>2. ASSUME NEW p \in Peers PROVE Announces(payload[p], {})
    <2> DEFINE place == [e \in {} |-> 3]
    <2>1. place \in Bijection({}, 3..2)
      BY DEF Bijection, Injection, Surjection, IsInjective
    <2> QED
      BY <1>1, <2>1 DEF Announces
  <1>3. PayloadIsTrue
    BY <1>1, <1>2 DEF PayloadIsTrue
  <1>4. GraphTypeOK
    BY StringsAreTyped DEF Init, GraphTypeOK
  <1>5. DiscoveredIsTrue
    BY DEF Init, DiscoveredIsTrue
  <1> QED
    BY <1>3, <1>4, <1>5 DEF GraphInv

LEMMA GraphCreate ==
  ASSUME GraphInv, NEW e \in Endpoints, Create(e)
  PROVE  GraphInv'
  <1> USE DEF GraphInv
  <1>1. /\ e \notin live /\ live' = live \cup {e}
        /\ payload' = [payload EXCEPT ![Owner[e]] = Append(@, DiscoveryName(e))]
        /\ discovered' = discovered /\ seen' = seen
    BY DEF Create
  <1>2. Owner[e] \in Peers /\ DiscoveryName(e) \in Strings
    BY GraphAssumption, StringsAreTyped
  <1>3. \A p \in Peers : payload[p] \in Seq(Strings)
    BY DEF GraphTypeOK
  <1>4. ASSUME NEW p \in Peers, p # Owner[e]
       PROVE  /\ payload'[p] = payload[p]
              /\ EndpointsOfNode(p)' = EndpointsOfNode(p)
    BY <1>1, <1>4 DEF GraphTypeOK, EndpointsOfNode
  <1>5. /\ payload'[Owner[e]] = Append(payload[Owner[e]], DiscoveryName(e))
        /\ EndpointsOfNode(Owner[e])' = EndpointsOfNode(Owner[e]) \cup {e}
    BY <1>1, <1>2 DEF GraphTypeOK, EndpointsOfNode
  <1>6. GraphTypeOK'
    <2>1. payload' \in [Peers -> Seq(Strings)]
      BY <1>1, <1>2, <1>3, AppendProperties DEF GraphTypeOK
    <2> QED
      BY <1>1, <2>1 DEF GraphTypeOK
  <1>7. DiscoveredIsTrue'
    BY <1>1 DEF DiscoveredIsTrue
  <1>8. PayloadIsTrue'
    <2> SUFFICES ASSUME NEW p \in Peers
                 PROVE  /\ Len(payload'[p]) >= 2
                        /\ \A i \in {1, 2} : payload'[p][i] = Greeting(p)[i]
                        /\ Announces(payload'[p], EndpointsOfNode(p)')
      BY DEF PayloadIsTrue
    <2>1. /\ Len(payload[p]) >= 2
          /\ \A i \in {1, 2} : payload[p][i] = Greeting(p)[i]
          /\ Announces(payload[p], EndpointsOfNode(p))
      BY DEF PayloadIsTrue
    <2>2. CASE p # Owner[e]
      BY <1>4, <2>1, <2>2
    <2>3. CASE p = Owner[e]
      <3>1. /\ Len(Append(payload[p], DiscoveryName(e))) >= 2
            /\ \A i \in {1, 2} : Append(payload[p], DiscoveryName(e))[i] = payload[p][i]
        BY <1>2, <1>3, <2>1, AppendProperties, LenProperties
      <3>2. Announces(Append(payload[p], DiscoveryName(e)),
                      EndpointsOfNode(p) \cup {e})
        BY <1>1, <1>3, <2>1, AppendAnnounces DEF GraphTypeOK, EndpointsOfNode
      <3> QED
        BY <1>5, <2>1, <2>3, <3>1, <3>2
    <2> QED
      BY <2>2, <2>3
  <1> QED
    BY <1>6, <1>7, <1>8

LEMMA GraphDestroy ==
  ASSUME GraphInv, NEW e \in Endpoints, Destroy(e)
  PROVE  GraphInv'
  <1> USE DEF GraphInv
  <1>1. /\ e \in live /\ live' = live \ {e}
        /\ payload' = [payload EXCEPT ![Owner[e]] = RemoveFirst(@, DiscoveryName(e))]
        /\ discovered' = discovered /\ seen' = seen
    BY DEF Destroy
  <1>2. Owner[e] \in Peers
    BY GraphAssumption
  <1>3. \A p \in Peers : payload[p] \in Seq(Strings)
    BY DEF GraphTypeOK
  <1>4. ASSUME NEW p \in Peers, p # Owner[e]
       PROVE  /\ payload'[p] = payload[p]
              /\ EndpointsOfNode(p)' = EndpointsOfNode(p)
    BY <1>1, <1>4 DEF GraphTypeOK, EndpointsOfNode
  <1>5. /\ payload'[Owner[e]] = RemoveFirst(payload[Owner[e]], DiscoveryName(e))
        /\ EndpointsOfNode(Owner[e])' = EndpointsOfNode(Owner[e]) \ {e}
        /\ e \in EndpointsOfNode(Owner[e])
    BY <1>1, <1>2 DEF GraphTypeOK, EndpointsOfNode
  <1>6. \A p \in Peers : /\ Len(payload[p]) >= 2
                         /\ \A i \in {1, 2} : payload[p][i] = Greeting(p)[i]
                         /\ Announces(payload[p], EndpointsOfNode(p))
    BY DEF PayloadIsTrue
  <1>7. /\ payload'[Owner[e]] \in Seq(Strings) /\ Len(payload'[Owner[e]]) >= 2
        /\ \A i \in {1, 2} : payload'[Owner[e]][i] = Greeting(Owner[e])[i]
        /\ Announces(payload'[Owner[e]], EndpointsOfNode(Owner[e])')
    <2>1. \A i \in {1, 2}, d \in Endpoints : payload[Owner[e]][i] # DiscoveryName(d)
      BY <1>2, <1>6, GreetingDiffers
    <2>2. EndpointsOfNode(Owner[e]) \in SUBSET Endpoints
      BY DEF GraphTypeOK, EndpointsOfNode
    <2> DEFINE s == payload[Owner[e]]
               own == EndpointsOfNode(Owner[e])
               r == RemoveFirst(s, DiscoveryName(e))
    <2>3. /\ s \in Seq(Strings) /\ Len(s) >= 2
          /\ \A i \in {1, 2} : s[i] = Greeting(Owner[e])[i]
          /\ Announces(s, own) /\ own \in SUBSET Endpoints /\ e \in own
          /\ \A i \in {1, 2}, d \in Endpoints : s[i] # DiscoveryName(d)
      BY <1>2, <1>3, <1>5, <1>6, <2>1, <2>2
    <2>4. /\ r \in Seq(Strings) /\ Len(r) >= 2 /\ \A i \in {1, 2} : r[i] = s[i]
          /\ Announces(r, own \ {e})
      <3> HIDE DEF s, own
      <3> QED
        BY <2>3, RemoveAnnounces
    <2> QED
      BY <1>5, <2>3, <2>4
  <1>8. GraphTypeOK'
    <2>1. payload' \in [Peers -> Seq(Strings)]
      BY <1>1, <1>3, <1>7 DEF GraphTypeOK
    <2> QED
      BY <1>1, <2>1 DEF GraphTypeOK
  <1>9. DiscoveredIsTrue'
    BY <1>1 DEF DiscoveredIsTrue
  <1>10. PayloadIsTrue'
    BY <1>4, <1>6, <1>7 DEF PayloadIsTrue
  <1> QED
    BY <1>8, <1>9, <1>10

\* onDiscovery() of an announcement makes what is known of a node true.
LEMMA GraphOnDiscovery ==
  ASSUME GraphInv, NEW p \in Peers, OnDiscovery(p)
  PROVE  GraphInv'
  <1> USE DEF GraphInv
  <1> DEFINE node == NodeOf(payload[p])
             own == EndpointsOfNode(p)
  <1>1. /\ discovered' = [discovered EXCEPT ![p] = node]
        /\ seen' = [seen EXCEPT ![p] = own]
        /\ live' = live /\ payload' = payload
    BY DEF OnDiscovery
  <1>2. own \in SUBSET Endpoints /\ \A e \in own : Owner[e] = p
    BY DEF GraphTypeOK, EndpointsOfNode
  <1>3. /\ node \in NodeInfos
        /\ node.name = Name[p].name /\ node.namespace = Name[p].namespace
        /\ \E place \in Injection(own, PlacesOf(node)) :
             \A kind \in Kinds : node[kind] = ListedAt(place, kind)
    <2>1. payload[p] \in Seq(Strings)
      BY DEF GraphTypeOK
    <2>2. /\ Len(payload[p]) >= 2
          /\ \A i \in {1, 2} : payload[p][i] = Greeting(p)[i]
          /\ Announces(payload[p], own)
      BY DEF PayloadIsTrue
    <2> QED
      BY <1>2, <2>1, <2>2, NodeOfAnnounced
  <1>4. node # None
    BY <1>3, GraphAssumption
  <1> HIDE DEF node, own
  <1>5. GraphTypeOK'
    BY <1>1, <1>2, <1>3 DEF GraphTypeOK
  <1>6. PayloadIsTrue'
    BY <1>1 DEF PayloadIsTrue, EndpointsOfNode
  <1>7. /\ discovered'[p] = node /\ seen'[p] = own
        /\ \A q \in Peers \ {p} : discovered'[q] = discovered[q] /\ seen'[q] = seen[q]
    BY <1>1 DEF GraphTypeOK
  <1>8. DiscoveredIsTrue'
    <2> SUFFICES ASSUME NEW q \in Peers
                 PROVE  \/ discovered'[q] = None /\ seen'[q] = None
                        \/ /\ seen'[q] \subseteq {e \in Endpoints : Owner[e] = q}
                           /\ discovered'[q] # None
                           /\ discovered'[q].name = Name[q].name
                           /\ discovered'[q].namespace = Name[q].namespace
                           /\ \E place \in Injection(seen'[q], PlacesOf(discovered'[q])) :
                                \A kind \in Kinds : discovered'[q][kind] = ListedAt(place, kind)
      BY DEF DiscoveredIsTrue
    <2>1. CASE q = p
      BY <1>2, <1>3, <1>4, <1>7, <2>1
    <2>2. CASE q # p
      BY <1>7, <2>2 DEF DiscoveredIsTrue
    <2> QED
      BY <2>1, <2>2
  <1> QED
    BY <1>5, <1>6, <1>8

LEMMA GraphOnLeave ==
  ASSUME GraphInv, NEW p \in Peers, OnLeave(p)
  PROVE  GraphInv'
  <1> USE DEF GraphInv
  <1>1. /\ discovered' = [discovered EXCEPT ![p] = None]
        /\ seen' = [seen EXCEPT ![p] = None]
        /\ live' = live /\ payload' = payload
    BY DEF OnLeave
  <1>2. GraphTypeOK'
    BY <1>1 DEF GraphTypeOK
  <1>3. PayloadIsTrue'
    BY <1>1 DEF PayloadIsTrue, EndpointsOfNode
  <1>4. /\ discovered'[p] = None /\ seen'[p] = None
        /\ \A q \in Peers \ {p} : discovered'[q] = discovered[q] /\ seen'[q] = seen[q]
    BY <1>1 DEF GraphTypeOK
  <1>5. DiscoveredIsTrue'
    BY <1>4 DEF DiscoveredIsTrue
  <1> QED
    BY <1>2, <1>3, <1>5

-----------------------------------------------------------------------------
(* What the queries read. *)

\* A node is known if and only if seen has endpoints of it, and each of its
\* entries is that of one of these.
LEMMA KnownNode ==
  ASSUME GraphInv, NEW p \in Peers
  PROVE  /\ p \in Known <=> seen[p] # None
         /\ p \in Known =>
              /\ seen[p] \subseteq {e \in Endpoints : Owner[e] = p}
              /\ discovered[p].name = Name[p].name
              /\ discovered[p].namespace = Name[p].namespace
              /\ \E place \in Injection(seen[p], PlacesOf(discovered[p])) :
                   \A kind \in Kinds : discovered[p][kind] = ListedAt(place, kind)
  <1>1. seen[p] \subseteq Endpoints => seen[p] # None
    BY GraphAssumption
  <1>2. {e \in Endpoints : Owner[e] = p} \subseteq Endpoints
    OBVIOUS
  <1> QED
    BY <1>1, <1>2 DEF GraphInv, DiscoveredIsTrue, Known

\* The entry of an endpoint at a place of the payload.
Entry(place, e) == [at |-> place[e], topic |-> Topic[e], types |-> Types[e]]

\* rmw_count_*(): the entries of a kind and a topic are as many as the
\* endpoints.
LEMMA CountIsTrue ==
  ASSUME GraphInv, NEW kind \in Kinds, NEW t
  PROVE  CountOf(kind, t) =
           Cardinality({e \in EndpointsOf(seen) : Kind[e] = kind /\ Topic[e] = t})
  <1> DEFINE own == {e \in EndpointsOf(seen) : Kind[e] = kind /\ Topic[e] = t}
             counted == UNION {{p} \X {x \in discovered[p][kind] : x.topic = t} : p \in Known}
             place(p) == CHOOSE f \in Injection(seen[p], PlacesOf(discovered[p])) :
                           \A k \in Kinds : discovered[p][k] = ListedAt(f, k)
             entry == [e \in own |-> <<Owner[e], Entry(place(Owner[e]), e)>>]
  <1>1. ASSUME NEW p \in Known
       PROVE  /\ seen[p] \subseteq {e \in Endpoints : Owner[e] = p}
              /\ DOMAIN place(p) = seen[p]
              /\ \A d, e \in seen[p] : place(p)[d] = place(p)[e] => d = e
              /\ discovered[p][kind] = ListedAt(place(p), kind)
    <2>1. /\ place(p) \in Injection(seen[p], PlacesOf(discovered[p]))
          /\ \A k \in Kinds : discovered[p][k] = ListedAt(place(p), k)
      BY KnownNode DEF Known
    <2> QED
      BY <2>1, KnownNode DEF Known, Injection, IsInjective
  <1>2. ASSUME NEW e \in own
       PROVE  Owner[e] \in Known /\ e \in seen[Owner[e]] /\ Kind[e] = kind /\ Topic[e] = t
    <2>1. PICK p \in Peers : seen[p] # None /\ e \in seen[p]
      BY DEF EndpointsOf
    <2>2. p \in Known
      BY <2>1, KnownNode
    <2>3. Owner[e] = p
      BY <1>1, <2>1, <2>2
    <2> QED
      BY <2>1, <2>2, <2>3
  <1>3. own \in SUBSET Endpoints
    BY <1>1, <1>2
  <1> HIDE DEF place
  <1>4. ASSUME NEW p \in Known
       PROVE  {x \in discovered[p][kind] : x.topic = t}
                = {Entry(place(p), e) : e \in {f \in own : Owner[f] = p}}
    <2>1. ASSUME NEW e \in seen[p], Kind[e] = kind, Topic[e] = t PROVE e \in own /\ Owner[e] = p
      BY <1>1, <2>1, KnownNode DEF EndpointsOf, Known
    <2>2. ASSUME NEW x \in discovered[p][kind], x.topic = t
         PROVE  \E e \in own : Owner[e] = p /\ x = Entry(place(p), e)
      <3>1. PICK e \in seen[p] : Kind[e] = kind /\ x = Entry(place(p), e)
        BY <1>1 DEF ListedAt, Entry
      <3>2. Topic[e] = t
        BY <2>2, <3>1 DEF Entry
      <3> QED
        BY <2>1, <3>1, <3>2
    <2>3. ASSUME NEW e \in own, Owner[e] = p
         PROVE  Entry(place(p), e) \in discovered[p][kind] /\ Entry(place(p), e).topic = t
      BY <1>1, <1>2, <2>3 DEF ListedAt, Entry
    <2> QED
      BY <2>2, <2>3
  <1>5. entry \in Bijection(own, counted)
    <2>1. ASSUME NEW e \in own PROVE entry[e] \in counted
      BY <1>2, <1>4
    <2>2. ASSUME NEW d \in own, NEW e \in own, entry[d] = entry[e] PROVE d = e
      <3>1. Owner[d] = Owner[e] /\ Entry(place(Owner[d]), d) = Entry(place(Owner[e]), e)
        BY <2>2
      <3>2. place(Owner[e])[d] = place(Owner[e])[e]
        BY <3>1 DEF Entry
      <3> QED
        BY <1>1, <1>2, <3>1, <3>2
    <2>3. ASSUME NEW y \in counted PROVE \E e \in own : entry[e] = y
      <3>1. PICK p \in Known : y \in {p} \X {x \in discovered[p][kind] : x.topic = t}
        OBVIOUS
      <3>2. PICK e \in own : Owner[e] = p /\ y = <<p, Entry(place(p), e)>>
        BY <1>4, <3>1
      <3> QED
        BY <3>2
    <2> HIDE DEF own, counted
    <2> QED
      BY <2>1, <2>2, <2>3, Fun_IsBij
  <1>6. IsFiniteSet(own)
    BY <1>3, GraphAssumption, FS_Subset
  <1> HIDE DEF own, counted, entry
  <1>7. Cardinality(counted) = Cardinality(own)
    BY <1>5, <1>6, Fun_ExistsBij, FS_Bijection
  <1> QED
    BY <1>7 DEF CountOf, own, counted

\* The counts follow, and so does what is said of the servers.
LEMMA CountsTrue == GraphInv => CountsAreTrue
  <1> SUFFICES ASSUME GraphInv PROVE CountsAreTrue
    OBVIOUS
  <1>1. ASSUME NEW c \in Endpoints
       PROVE  ServerIsAvailable(c)
                <=> \E e \in EndpointsOf(seen) : Kind[e] = "services" /\ Topic[e] = Topic[c]
    <2> DEFINE servers ==
          {e \in EndpointsOf(seen) : Kind[e] = "services" /\ Topic[e] = Topic[c]}
    <2>1. CountOf("services", Topic[c]) = Cardinality(servers)
      BY CountIsTrue DEF Kinds
    <2>2. servers \in SUBSET Endpoints
      BY KnownNode DEF EndpointsOf
    <2>3. IsFiniteSet(servers)
      BY <2>2, GraphAssumption, FS_Subset
    <2>4. Cardinality(servers) \in Nat /\ (Cardinality(servers) = 0 <=> servers = {})
      <3> HIDE DEF servers
      <3> QED
        BY <2>3, FS_CardinalityType, FS_EmptySet
    <2>5. DpsTopic(c)[2] = Topic[c]
      BY DEF DpsTopic
    <2>6. ServerIsAvailable(c) <=> servers # {}
      <3> HIDE DEF servers
      <3> QED
        BY <2>1, <2>4, <2>5 DEF ServerIsAvailable
    <2> QED
      BY <2>6
  <1> QED
    BY <1>1, CountIsTrue DEF CountsAreTrue

\* Each of some entries is that of one of some endpoints, and the other way.
Represent(topics, found) ==
  /\ \A x \in topics : \E e \in found : x.topic = Topic[e] /\ x.types = Types[e]
  /\ \A e \in found : \E x \in topics : x.topic = Topic[e] /\ x.types = Types[e]

LEMMA KnownTopics ==
  ASSUME GraphInv, NEW p \in Known, NEW kind \in Kinds
  PROVE  /\ seen[p] # None /\ seen[p] \subseteq Endpoints
         /\ Represent(discovered[p][kind], {e \in seen[p] : Kind[e] = kind})
  <1>1. PICK place \in Injection(seen[p], PlacesOf(discovered[p])) :
          discovered[p][kind] = ListedAt(place, kind)
    BY KnownNode DEF Known
  <1>2. DOMAIN place = seen[p]
    BY DEF Injection
  <1> QED
    <2>1. seen[p] # None /\ seen[p] \subseteq Endpoints
      BY KnownNode DEF Known
    <2>2. \A x \in discovered[p][kind] :
            \E e \in seen[p] : Kind[e] = kind /\ x.topic = Topic[e] /\ x.types = Types[e]
      BY <1>1, <1>2 DEF ListedAt
    <2>3. ASSUME NEW e \in seen[p], Kind[e] = kind
         PROVE  \E x \in discovered[p][kind] : x.topic = Topic[e] /\ x.types = Types[e]
      <3>1. Entry(place, e) \in discovered[p][kind]
        BY <1>1, <1>2, <2>3 DEF ListedAt, Entry
      <3> QED
        BY <3>1 DEF Entry
    <2> QED
      BY <2>1, <2>2, <2>3 DEF Represent

\* names_and_types: every type of every topic of the endpoints, and no other.
LEMMA NamesAndTypesTrue ==
  ASSUME NEW topics, NEW found \in SUBSET Endpoints, Represent(topics, found)
  PROVE  NamesAndTypes(topics) = [t \in {Topic[e] : e \in found} |-> TypesIn(found, t)]
  <1>1. {x.topic : x \in topics} = {Topic[e] : e \in found}
    BY DEF Represent
  <1>2. ASSUME NEW t
       PROVE  UNION {ToSet(x.types) : x \in {y \in topics : y.topic = t}} = TypesIn(found, t)
    <2> DEFINE listed == {y \in topics : y.topic = t}
               owners == {e \in found : Topic[e] = t}
    <2>1. \A x \in listed : \E e \in owners : x.types = Types[e]
      BY DEF Represent
    <2>2. \A e \in owners : \E x \in listed : x.types = Types[e]
      BY DEF Represent
    <2>3. {ToSet(x.types) : x \in listed} = {ToSet(Types[e]) : e \in owners}
      <3> HIDE DEF listed, owners
      <3> QED
        BY <2>1, <2>2
    <2> QED
      BY <2>3 DEF TypesIn
  <1> QED
    BY <1>1, <1>2 DEF NamesAndTypes

\* The fields of the queries.
LEMMA QueryFields ==
  ASSUME NEW q \in Queries
  PROVE  /\ q.what \in {"node", "topics", "services", "nodes"} /\ q.raw \in BOOLEAN
         /\ q.what = "node" => q.kind \in Kinds /\ \E p \in Peers : q.name = Name[p]
         /\ q.what = "nodes" \/ AboutServices(q) => ~q.raw
  <1>1. CASE q \in [what : {"node"}, kind : Kinds \ Services,
                    name : {Name[p] : p \in Peers}, raw : BOOLEAN]
    BY <1>1 DEF AboutServices
  <1>2. CASE q \in [what : {"node"}, kind : Services,
                    name : {Name[p] : p \in Peers}, raw : {FALSE}]
    BY <1>2 DEF AboutServices, Kinds, Services
  <1>3. CASE q \in [what : {"topics"}, raw : BOOLEAN]
    BY <1>3 DEF AboutServices
  <1>4. CASE q \in [what : {"services", "nodes"}, raw : {FALSE}]
    BY <1>4 DEF AboutServices
  <1> QED
    BY <1>1, <1>2, <1>3, <1>4 DEF Queries

\* What a query takes under the mutex is what seen says of the endpoints it is
\* about, at that instant.
LEMMA TopicsOfTrue ==
  ASSUME GraphInv, NEW q \in Queries, q.what # "nodes", then' = seen
  PROVE  \E found \in SUBSET Endpoints :
           About(q, found)' /\ Represent(TopicsOf(q), found)
  <1>1. q.what \in {"node", "topics", "services"}
    BY QueryFields
  <1>2. CASE q.what = "node" /\ Nodes(q.name) = {}
    <2>1. ASSUME NEW p \in Peers, seen[p] # None PROVE Name[p] # q.name
      <3>1. /\ p \in Known /\ discovered[p].name = Name[p].name
            /\ discovered[p].namespace = Name[p].namespace
        BY <2>1, KnownNode
      <3> QED
        BY <1>2, <3>1 DEF Nodes
    <2>2. Represent(TopicsOf(q), {})
      BY <1>2 DEF TopicsOf, Represent
    <2>3. About(q, {})'
      BY <1>2, <2>1 DEF About
    <2> QED
      BY <2>2, <2>3
  <1>3. CASE q.what = "node" /\ Nodes(q.name) # {}
    <2>1. FirstNode(q.name) \in Nodes(q.name)
      BY <1>3, GraphAssumption, MinProperties DEF FirstNode, Nodes, Known
    <2>2. PICK p \in Known : /\ p = FirstNode(q.name) /\ discovered[p].name = q.name.name
                             /\ discovered[p].namespace = q.name.namespace
      BY <2>1 DEF Nodes
    <2>3. Name[p] = q.name
      <3>1. Name[p].name = q.name.name /\ Name[p].namespace = q.name.namespace
        BY <2>2, KnownNode DEF Known
      <3>2. /\ Name[p] \in [name : STRING, namespace : STRING]
            /\ q.name \in [name : STRING, namespace : STRING]
        BY <1>3, GraphAssumption, QueryFields DEF Known
      <3> QED
        BY <3>1, <3>2
    <2>4. q.kind \in Kinds
      BY <1>3, QueryFields
    <2>5. PICK found \in SUBSET Endpoints : found = {e \in seen[p] : Kind[e] = q.kind}
      BY <2>4, KnownTopics
    <2>6. Represent(TopicsOf(q), found)
      <3>1. TopicsOf(q) = discovered[p][q.kind]
        BY <1>3, <2>2 DEF TopicsOf
      <3> QED
        BY <2>4, <2>5, <3>1, KnownTopics
    <2>7. About(q, found)'
      <3>1. p \in Peers /\ seen[p] # None
        BY <2>4, KnownTopics DEF Known
      <3> QED
        BY <1>3, <2>3, <2>5, <3>1 DEF About
    <2> QED
      BY <2>6, <2>7
  <1>4. CASE q.what = "topics"
    <2>1. \A p \in Known : /\ seen[p] # None /\ seen[p] \subseteq Endpoints
                           /\ Represent(discovered[p]["subscribers"],
                                        {e \in seen[p] : Kind[e] = "subscribers"})
                           /\ Represent(discovered[p]["publishers"],
                                        {e \in seen[p] : Kind[e] = "publishers"})
      BY KnownTopics DEF Kinds
    <2>2. \A e \in Endpoints :
            Kind[e] \notin Services <=> Kind[e] = "subscribers" \/ Kind[e] = "publishers"
      BY GraphAssumption DEF Kinds, Services
    <2>3. \A e : e \in EndpointsOf(seen) <=> \E p \in Known : e \in seen[p]
      BY <2>1, KnownNode DEF EndpointsOf, Known
    <2> PICK found \in SUBSET Endpoints :
          found = {e \in EndpointsOf(seen) : Kind[e] \notin Services}
      BY <2>1, <2>3
    <2>4. TopicsOf(q) =
            UNION {discovered[p]["subscribers"] \cup discovered[p]["publishers"] : p \in Known}
      BY <1>4 DEF TopicsOf
    <2>5. \A x \in TopicsOf(q) : \E e \in found : x.topic = Topic[e] /\ x.types = Types[e]
      BY <2>1, <2>2, <2>3, <2>4 DEF Represent
    <2>6. \A e \in found : \E x \in TopicsOf(q) : x.topic = Topic[e] /\ x.types = Types[e]
      BY <2>1, <2>2, <2>3, <2>4 DEF Represent
    <2>7. About(q, found)'
      BY <1>4 DEF About, EndpointsOf
    <2> QED
      BY <2>5, <2>6, <2>7 DEF Represent
  <1>5. CASE q.what = "services"
    <2>1. \A p \in Known : /\ seen[p] # None /\ seen[p] \subseteq Endpoints
                           /\ Represent(discovered[p]["services"],
                                        {e \in seen[p] : Kind[e] = "services"})
      BY KnownTopics DEF Kinds
    <2>2. \A e : e \in EndpointsOf(seen) <=> \E p \in Known : e \in seen[p]
      BY <2>1, KnownNode DEF EndpointsOf, Known
    <2> PICK found \in SUBSET Endpoints :
          found = {e \in EndpointsOf(seen) : Kind[e] = "services"}
      BY <2>1, <2>2
    <2>3. TopicsOf(q) = UNION {discovered[p]["services"] : p \in Known}
      BY <1>5 DEF TopicsOf
    <2>4. Represent(TopicsOf(q), found)
      BY <2>1, <2>2, <2>3 DEF Represent
    <2>5. About(q, found)'
      BY <1>5 DEF About, EndpointsOf
    <2> QED
      BY <2>4, <2>5
  <1> QED
    BY <1>1, <1>2, <1>3, <1>4, <1>5

-----------------------------------------------------------------------------
(* What a query copies. *)

QueryInv == QueryTypeOK /\ TopicsInHand /\ NodesInHand /\ NothingInHand

\* No topic has more types than can be counted.
LEMMA TypesAreFinite ==
  ASSUME NEW found \in SUBSET Endpoints, NEW t
  PROVE  IsFiniteSet(TypesIn(found, t)) /\ TypesIn(found, t) \subseteq TypeNames
  <1>1. ASSUME NEW s \in Seq(TypeNames) PROVE IsFiniteSet(ToSet(s)) /\ ToSet(s) \subseteq TypeNames
    <2>1. Len(s) \in Nat /\ DOMAIN s = 1..Len(s) /\ s \in [1..Len(s) -> TypeNames]
      BY LenProperties
    <2>2. ToSet(s) = Range(s) /\ ToSet(s) \subseteq TypeNames
      BY <2>1 DEF ToSet, Range
    <2>3. s \in Surjection(1..Len(s), ToSet(s))
      BY <2>1 DEF ToSet, Surjection
    <2>4. IsFiniteSet(1..Len(s))
      BY <2>1, FS_Interval
    <2> QED
      BY <2>2, <2>3, <2>4, FS_Surjection
  <1> DEFINE owners == {e \in found : Topic[e] = t}
             sets == {ToSet(Types[e]) : e \in owners}
  <1>2. IsFiniteSet(owners)
    BY GraphAssumption, FS_Subset
  <1>3. IsFiniteSet(sets)
    <2>1. [e \in owners |-> ToSet(Types[e])] \in Surjection(owners, sets)
      BY DEF Surjection
    <2> HIDE DEF owners, sets
    <2> QED
      BY <1>2, <2>1, FS_Surjection
  <1>4. \A S \in sets : IsFiniteSet(S) /\ S \subseteq TypeNames
    BY <1>1, GraphAssumption
  <1>5. TypesIn(found, t) = UNION sets
    BY DEF TypesIn
  <1> HIDE DEF sets
  <1> QED
    BY <1>3, <1>4, <1>5, FS_UNION

LEMMA QueryInit == Init => QueryInv
  <1> SUFFICES ASSUME Init PROVE QueryInv
    OBVIOUS
  <1>1. QueryTypeOK
    BY EmptySeq DEF Init, QueryTypeOK
  <1>2. TopicsInHand /\ NodesInHand
    BY DEF Init, TopicsInHand, NodesInHand
  <1>3. NothingInHand
    BY DEF Init, NothingInHand
  <1> QED
    BY <1>1, <1>2, <1>3 DEF QueryInv

\* The graph may change while a query copies.
LEMMA QueryUnchanged ==
  ASSUME QueryInv, UNCHANGED queryVars
  PROVE  QueryInv'
  <1> USE DEF queryVars
  <1>1. QueryTypeOK'
    BY DEF QueryInv, QueryTypeOK
  <1>2. \A q, found : About(q, found)' = About(q, found)
    BY DEF About, EndpointsOf
  <1>3. TopicsInHand'
    <2>1. \A found : Divided(found)' = Divided(found)
      BY DEF Divided
    <2>2. \A found, i : TypesInHand(found, i)' = TypesInHand(found, i)
      BY DEF TypesInHand, Left
    <2> QED
      BY <1>2, <2>1, <2>2 DEF QueryInv, TopicsInHand
  <1>4. NodesInHand'
    BY DEF QueryInv, NodesInHand
  <1>5. NothingInHand'
    BY DEF QueryInv, NothingInHand
  <1> QED
    BY <1>1, <1>3, <1>4, <1>5 DEF QueryInv

LEMMA EmptyArrays ==
  /\ DOMAIN <<>> = {} /\ Len(<<>>) = 0 /\ ToSet(<<>>) = {} /\ IsInjective(<<>>)
  /\ \A S : <<>> \in Seq(S)
  BY DEF ToSet, IsInjective

\* Under the mutex a query takes everything that it is to copy.
LEMMA QueryRead ==
  ASSUME GraphInv, QueryInv, NEW q \in Queries, ReadGraph(q)
  PROVE  QueryInv'
  <1>1. /\ status = "idle" /\ status' = "copying" /\ asked' = q /\ then' = seen
        /\ pending' = pending /\ names' = names /\ lists' = lists
    BY DEF ReadGraph
  <1>2. names = <<>> /\ lists = <<>> /\ pending = {}
    BY <1>1 DEF QueryInv, NothingInHand
  <1>3. QueryTypeOK'
    <2>1. then' \in [Peers -> {None} \cup SUBSET Endpoints]
      BY <1>1 DEF GraphInv, GraphTypeOK
    <2> QED
      BY <1>1, <1>2, <2>1, EmptyArrays DEF QueryTypeOK
  <1>4. NothingInHand'
    BY <1>1 DEF NothingInHand
  <1>5. TopicsInHand'
    <2> SUFFICES ASSUME q.what # "nodes"
                 PROVE  \E found \in SUBSET Endpoints :
                          /\ About(q, found)' /\ Divided(found)'
                          /\ \A i \in DOMAIN names' : TypesInHand(found, i)'
      BY <1>1 DEF TopicsInHand
    <2>1. PICK found \in SUBSET Endpoints : About(q, found)' /\ Represent(TopicsOf(q), found)
      BY <1>1, TopicsOfTrue
    <2>2. todo' = [t \in {Topic[e] : e \in found} |-> TypesIn(found, t)]
      BY <2>1, NamesAndTypesTrue DEF ReadGraph
    <2>3. Divided(found)'
      BY <1>1, <1>2, <2>2, EmptyArrays DEF Divided
    <2> QED
      BY <1>1, <1>2, <2>1, <2>3, EmptyArrays
  <1>6. NodesInHand'
    <2> SUFFICES ASSUME q.what = "nodes" PROVE NodesInHand'
      BY <1>1 DEF NodesInHand
    <2>1. /\ DOMAIN todo' = Known
          /\ \A p \in Known : todo'[p] = discovered[p]
      BY DEF ReadGraph, Restrict
    <2>2. Known = {p \in Peers : then'[p] # None}
      BY <1>1, KnownNode DEF Known
    <2>3. \A p \in DOMAIN todo' :
            todo'[p].name = Name[p].name /\ todo'[p].namespace = Name[p].namespace
      BY <2>1, KnownNode DEF Known
    <2>4. PICK place : place = [p \in {} |-> 1]
      OBVIOUS
    <2>5. DOMAIN place = {} /\ place \in Bijection({}, {})
      BY <2>4 DEF Bijection, Injection, Surjection, IsInjective
    <2>6. {p \in Peers : then'[p] # None} \ DOMAIN todo' = {} /\ DOMAIN names' = {}
      BY <1>1, <1>2, <2>1, <2>2, EmptyArrays
    <2> QED
      BY <1>1, <1>2, <2>1, <2>2, <2>3, <2>5, <2>6 DEF NodesInHand
  <1> QED
    BY <1>3, <1>4, <1>5, <1>6 DEF QueryInv

\* A query returns when nothing is left, and fails only before.
LEMMA QueryReturn ==
  ASSUME QueryInv, ReturnOk \/ OutOfMemory \/ Finish
  PROVE  QueryInv'
  <1>1. CASE ReturnOk
    <2> USE <1>1 DEF ReturnOk
    <2>1. QueryTypeOK'
      BY DEF QueryInv, QueryTypeOK
    <2>2. \A q, found : About(q, found)' = About(q, found)
      BY DEF About, EndpointsOf
    <2>3. TopicsInHand'
      <3>1. \A found : Divided(found)' = Divided(found)
        BY DEF Divided
      <3>2. \A found, i : TypesInHand(found, i)' = TypesInHand(found, i)
        BY DEF TypesInHand, Left
      <3> QED
        BY <2>2, <3>1, <3>2 DEF QueryInv, TopicsInHand
    <2>4. NodesInHand'
      BY DEF QueryInv, NodesInHand
    <2>5. NothingInHand'
      BY DEF NothingInHand
    <2> QED
      BY <2>1, <2>3, <2>4, <2>5 DEF QueryInv
  <1>2. CASE OutOfMemory
    <2> USE <1>2 DEF OutOfMemory
    <2>1. QueryTypeOK'
      BY EmptyArrays DEF QueryInv, QueryTypeOK
    <2>2. TopicsInHand' /\ NodesInHand' /\ NothingInHand'
      BY EmptyArrays DEF TopicsInHand, NodesInHand, NothingInHand
    <2> QED
      BY <2>1, <2>2 DEF QueryInv
  <1>3. CASE Finish
    <2> USE <1>3 DEF Finish
    <2>1. QueryTypeOK'
      BY EmptyArrays DEF QueryInv, QueryTypeOK
    <2>2. TopicsInHand' /\ NodesInHand' /\ NothingInHand'
      BY EmptyArrays DEF QueryInv, TopicsInHand, NodesInHand, NothingInHand
    <2> QED
      BY <2>1, <2>2 DEF QueryInv
  <1> QED
    BY <1>1, <1>2, <1>3

\* An array with one more element.
LEMMA OneMore ==
  ASSUME NEW S, NEW s \in Seq(S), NEW x \in S
  PROVE  /\ Append(s, x) \in Seq(S) /\ Len(s) \in Nat
         /\ Len(Append(s, x)) = Len(s) + 1
         /\ DOMAIN s = 1..Len(s) /\ DOMAIN Append(s, x) = 1..(Len(s) + 1)
         /\ \A i \in 1..Len(s) : Append(s, x)[i] = s[i] /\ s[i] \in S
         /\ Append(s, x)[Len(s) + 1] = x
         /\ ToSet(Append(s, x)) = ToSet(s) \cup {x}
  <1>1. /\ Append(s, x) \in Seq(S) /\ Len(Append(s, x)) = Len(s) + 1
        /\ \A i \in 1..Len(s) : Append(s, x)[i] = s[i]
        /\ Append(s, x)[Len(s) + 1] = x
    BY AppendProperties
  <1>2. Len(s) \in Nat /\ DOMAIN s = 1..Len(s) /\ \A i \in 1..Len(s) : s[i] \in S
    BY LenProperties, ElementOfSeq
  <1> DEFINE t == Append(s, x)
  <1> HIDE DEF t
  <1>3. /\ t \in Seq(S) /\ Len(t) = Len(s) + 1
        /\ \A i \in 1..Len(s) : t[i] = s[i]
        /\ t[Len(s) + 1] = x
    BY <1>1 DEF t
  <1>4. DOMAIN t = 1..(Len(s) + 1)
    BY <1>3, LenProperties
  <1>5. ToSet(t) = ToSet(s) \cup {x}
    BY <1>2, <1>3, <1>4 DEF ToSet
  <1> QED
    BY <1>2, <1>3, <1>4, <1>5 DEF t

\* The name of a topic that was not listed, and room for its types.
LEMMA QueryCopyTopic ==
  ASSUME QueryInv, CopyTopic
  PROVE  QueryInv'
  <1> USE DEF QueryInv
  <1>1. PICK t \in DOMAIN todo :
          /\ status = "copying" /\ asked.what # "nodes" /\ pending = {}
          /\ names' = Append(names, t) /\ lists' = Append(lists, <<>>)
          /\ pending' = todo[t] /\ todo' = Restrict(todo, DOMAIN todo \ {t})
          /\ status' = status /\ asked' = asked /\ then' = then
    BY DEF CopyTopic
  <1>2. PICK found \in SUBSET Endpoints :
          About(asked, found) /\ Divided(found) /\ \A i \in DOMAIN names : TypesInHand(found, i)
    BY <1>1 DEF TopicsInHand
  <1>3. t \in STRING /\ t \notin ToSet(names) /\ todo[t] = TypesIn(found, t)
    BY <1>2, GraphAssumption DEF Divided
  <1> DEFINE n == Len(names)
  <1>4. /\ names \in Seq(STRING) /\ lists \in Seq(Seq(Lines(asked)))
        /\ Len(lists) = n /\ <<>> \in Seq(Lines(asked))
    BY <1>1, EmptyArrays DEF QueryTypeOK
  <1>5. /\ names' \in Seq(STRING) /\ Len(names') = n + 1 /\ n \in Nat
        /\ DOMAIN names = 1..n /\ DOMAIN names' = 1..(n + 1)
        /\ \A i \in 1..n : names'[i] = names[i]
        /\ names'[n + 1] = t /\ ToSet(names') = ToSet(names) \cup {t}
    BY <1>1, <1>3, <1>4, OneMore
  <1>6. /\ lists' \in Seq(Seq(Lines(asked))) /\ Len(lists') = n + 1
        /\ \A i \in 1..n : lists'[i] = lists[i]
        /\ lists'[n + 1] = <<>>
    BY <1>1, <1>4, OneMore
  <1>7. DOMAIN todo' = DOMAIN todo \ {t} /\ \A u \in DOMAIN todo' : todo'[u] = todo[u]
    BY <1>1 DEF Restrict
  <1>8. QueryTypeOK'
    <2>1. Lines(asked)' = Lines(asked)
      BY <1>1 DEF Lines
    <2> QED
      BY <1>1, <1>3, <1>5, <1>6, <2>1, TypesAreFinite DEF QueryTypeOK
  <1>9. About(asked, found)'
    <2>1. \A q : About(q, found)' = About(q, found)
      BY <1>1 DEF About, EndpointsOf
    <2> QED
      BY <1>1, <1>2, <2>1
  <1>10. Divided(found)'
    <2>1. IsInjective(names')
      <3>1. \A i \in 1..n : names[i] # t
        BY <1>3, <1>5 DEF ToSet
      <3>2. \A i, j \in 1..n : names[i] = names[j] => i = j
        BY <1>2, <1>5 DEF Divided, IsInjective
      <3> QED
        BY <1>5, <3>1, <3>2 DEF IsInjective
    <2>2. ToSet(names') \cap DOMAIN todo' = {}
      BY <1>2, <1>5, <1>7 DEF Divided
    <2>3. ToSet(names') \cup DOMAIN todo' = {Topic[e] : e \in found}
      BY <1>2, <1>5, <1>7 DEF Divided
    <2>4. names' # <<>>
      BY <1>5, EmptyArrays
    <2> QED
      BY <1>2, <1>7, <2>1, <2>2, <2>3, <2>4 DEF Divided
  <1>11. ASSUME NEW i \in DOMAIN names' PROVE TypesInHand(found, i)'
    <2>1. CASE i \in 1..n
      <3>1. Left(i)' = {} /\ Left(i) = {}
        BY <1>1, <1>5, <2>1 DEF Left
      <3>2. TypesInHand(found, i)
        BY <1>2, <1>5, <2>1
      <3> QED
        BY <1>1, <1>5, <1>6, <2>1, <3>1, <3>2 DEF TypesInHand
    <2>2. CASE i = n + 1
      <3>1. Left(i)' = TypesIn(found, t)
        BY <1>1, <1>3, <1>5, <2>2 DEF Left
      <3>2. TypesIn(found, t) \ Left(i)' = {}
        BY <3>1
      <3>3. Cardinality({}) = 0
        BY FS_EmptySet
      <3> QED
        BY <1>5, <1>6, <2>2, <3>1, <3>2, <3>3, EmptyArrays DEF TypesInHand
    <2> QED
      BY <1>5, <2>1, <2>2
  <1>12. TopicsInHand'
    BY <1>9, <1>10, <1>11 DEF TopicsInHand
  <1>13. NodesInHand' /\ NothingInHand'
    BY <1>1 DEF NodesInHand, NothingInHand
  <1> QED
    BY <1>8, <1>12, <1>13

\* What a query makes of a type.
LEMMA DemangleTypeIsTyped ==
  ASSUME NEW q \in Queries, q.what # "nodes", NEW t \in TypeNames
  PROVE  DemangleType(q, t) \in Lines(q)
  <1>1. t.ns \in STRING /\ t.base \in STRING /\ t.suffix \in {"_", "_Request_", "_Response_"}
    BY DEF TypeNames
  <1>2. CASE q.raw
    <2>1. ~AboutServices(q)
      BY <1>2, QueryFields
    <2> QED
      BY <1>2, <2>1 DEF DemangleType, Lines
  <1>3. CASE ~q.raw
    <2> DEFINE lines == {<<>>} \cup (STRING \X STRING \X {"", "_Request", "_Response"})
    <2>1. Lines(q) = lines
      BY <1>3 DEF Lines
    <2>2. DemangleServiceTypeOnly(t) \in lines
      BY <1>1 DEF DemangleServiceTypeOnly
    <2>3. DemangleIfRosType(t) \in lines
      BY <1>1 DEF DemangleIfRosType
    <2> HIDE DEF lines
    <2> QED
      BY <1>3, <2>1, <2>2, <2>3 DEF DemangleType
  <1> QED
    BY <1>2, <1>3

\* One more of the types of the topic in hand.
LEMMA QueryCopyType ==
  ASSUME QueryInv, CopyType
  PROVE  QueryInv'
  <1> USE DEF QueryInv
  <1>1. PICK t \in pending :
          /\ status = "copying" /\ pending' = pending \ {t}
          /\ lists' = [lists EXCEPT ![Len(lists)] = Append(@, DemangleType(asked, t))]
          /\ status' = status /\ asked' = asked /\ then' = then
          /\ todo' = todo /\ names' = names
    BY DEF CopyType
  <1>2. asked.what # "nodes"
    BY <1>1 DEF NodesInHand
  <1>3. PICK found \in SUBSET Endpoints :
          About(asked, found) /\ Divided(found) /\ \A i \in DOMAIN names : TypesInHand(found, i)
    BY <1>1, <1>2 DEF TopicsInHand
  <1> DEFINE n == Len(names)
             line == DemangleType(asked, t)
             types == TypesIn(found, names[n])
  <1>4. /\ names \in Seq(STRING) /\ lists \in Seq(Seq(Lines(asked)))
        /\ Len(lists) = n /\ asked \in Queries /\ t \in TypeNames
    BY <1>1 DEF QueryTypeOK
  <1>5. n \in Nat \ {0} /\ DOMAIN names = 1..n
    BY <1>1, <1>3, <1>4, LenProperties, EmptySeq DEF Divided
  <1>6. line \in Lines(asked)
    BY <1>2, <1>4, DemangleTypeIsTyped
  <1> HIDE DEF line
  <1>7. lists[n] \in Seq(Lines(asked))
    BY <1>4, <1>5, ElementOfSeq
  <1>8. /\ Append(lists[n], line) \in Seq(Lines(asked))
        /\ Len(Append(lists[n], line)) = Len(lists[n]) + 1
        /\ ToSet(Append(lists[n], line)) = ToSet(lists[n]) \cup {line}
    BY <1>6, <1>7, OneMore
  <1>9. lists' = [lists EXCEPT ![n] = Append(lists[n], line)]
    BY <1>1, <1>4 DEF line
  <1>10. /\ lists' \in Seq(Seq(Lines(asked))) /\ Len(lists') = n
         /\ \A i \in 1..n : i # n => lists'[i] = lists[i]
         /\ lists'[n] = Append(lists[n], line)
    <2>1. n \in 1..Len(lists)
      BY <1>4, <1>5
    <2> QED
      BY <1>4, <1>5, <1>8, <1>9, <2>1, ExceptSeq
  <1>11. QueryTypeOK'
    <2>1. Lines(asked)' = Lines(asked)
      BY <1>1 DEF Lines
    <2> QED
      BY <1>1, <1>10, <2>1 DEF QueryTypeOK
  <1>12. About(asked, found)'
    <2>1. \A q : About(q, found)' = About(q, found)
      BY <1>1 DEF About, EndpointsOf
    <2> QED
      BY <1>1, <1>3, <2>1
  <1>13. Divided(found)'
    BY <1>1, <1>3 DEF Divided
  <1>14. ASSUME NEW i \in DOMAIN names' PROVE TypesInHand(found, i)'
    <2>1. CASE i # n
      <3>1. Left(i)' = {} /\ Left(i) = {}
        BY <1>1, <2>1 DEF Left
      <3>2. TypesInHand(found, i) /\ lists'[i] = lists[i]
        BY <1>1, <1>3, <1>5, <1>10, <2>1
      <3> QED
        BY <1>1, <3>1, <3>2 DEF TypesInHand
    <2>2. CASE i = n
      <3>1. /\ pending \subseteq types
            /\ Len(lists[n]) = Cardinality(types \ pending)
            /\ ToSet(lists[n]) = {DemangleType(asked, u) : u \in types \ pending}
        <4>1. TypesInHand(found, n) /\ Left(n) = pending
          BY <1>3, <1>5 DEF Left
        <4> QED
          BY <4>1 DEF TypesInHand
      <3>2. Left(n)' = pending \ {t}
        BY <1>1 DEF Left
      <3>3. /\ types \ (pending \ {t}) = (types \ pending) \cup {t}
            /\ t \notin types \ pending
        BY <1>1, <3>1
      <3>4. IsFiniteSet(types \ pending)
        BY TypesAreFinite, FS_Difference
      <3> HIDE DEF types
      <3>5. Cardinality(types \ (pending \ {t})) = Cardinality(types \ pending) + 1
        BY <3>3, <3>4, FS_AddElement
      <3>6. {DemangleType(asked, u) : u \in types \ (pending \ {t})}
              = {DemangleType(asked, u) : u \in types \ pending} \cup {line}
        BY <3>3 DEF line
      <3>7. /\ Len(lists'[n]) = Cardinality(types \ (pending \ {t}))
            /\ ToSet(lists'[n]) = {DemangleType(asked, u) : u \in types \ (pending \ {t})}
        BY <1>8, <1>10, <3>1, <3>5, <3>6
      <3>8. pending \ {t} \subseteq types
        BY <3>1
      <3> QED
        BY <1>1, <2>2, <3>2, <3>7, <3>8 DEF TypesInHand, types
    <2> QED
      BY <2>1, <2>2
  <1>15. TopicsInHand'
    BY <1>12, <1>13, <1>14 DEF TopicsInHand
  <1>16. NodesInHand' /\ NothingInHand'
    BY <1>1, <1>2 DEF NodesInHand, NothingInHand
  <1> QED
    BY <1>11, <1>15, <1>16

\* The name and the namespace of a node that was not listed.
LEMMA QueryCopyNode ==
  ASSUME QueryInv, CopyNode
  PROVE  QueryInv'
  <1> USE DEF QueryInv
  <1>1. PICK p \in DOMAIN todo :
          /\ status = "copying" /\ asked.what = "nodes"
          /\ names' = Append(names, todo[p].name)
          /\ lists' = Append(lists, <<todo[p].namespace>>)
          /\ todo' = Restrict(todo, DOMAIN todo \ {p})
          /\ status' = status /\ asked' = asked /\ then' = then /\ pending' = pending
    BY DEF CopyNode
  <1> DEFINE n == Len(names)
             read == {q \in Peers : then[q] # None}
  <1>2. /\ pending = {} /\ DOMAIN todo \subseteq read
        /\ \A q \in DOMAIN todo :
             todo[q].name = Name[q].name /\ todo[q].namespace = Name[q].namespace
        /\ \E place \in Bijection(read \ DOMAIN todo, DOMAIN names) :
             \A q \in DOMAIN place : /\ names[place[q]] = Name[q].name
                                     /\ lists[place[q]] = <<Name[q].namespace>>
    BY <1>1 DEF NodesInHand
  <1>3. PICK place :
          /\ place \in [read \ DOMAIN todo -> DOMAIN names]
          /\ \A q, r \in read \ DOMAIN todo : place[q] = place[r] => q = r
          /\ \A i \in DOMAIN names : \E q \in read \ DOMAIN todo : place[q] = i
          /\ \A q \in read \ DOMAIN todo : /\ names[place[q]] = Name[q].name
                                           /\ lists[place[q]] = <<Name[q].namespace>>
    <2>1. PICK f \in Bijection(read \ DOMAIN todo, DOMAIN names) :
            \A q \in DOMAIN f : /\ names[f[q]] = Name[q].name
                                /\ lists[f[q]] = <<Name[q].namespace>>
      BY <1>2
    <2> HIDE DEF read
    <2>2. /\ f \in [read \ DOMAIN todo -> DOMAIN names]
          /\ \A q, r \in read \ DOMAIN todo : f[q] = f[r] => q = r
          /\ \A i \in DOMAIN names : \E q \in read \ DOMAIN todo : f[q] = i
      BY DEF Bijection, Injection, Surjection, IsInjective
    <2>3. DOMAIN f = read \ DOMAIN todo
      BY <2>2
    <2> QED
      BY <2>1, <2>2, <2>3
  <1>4. p \in read /\ Name[p].name \in STRING /\ Name[p].namespace \in STRING
    BY <1>2, GraphAssumption
  <1>5. /\ names \in Seq(STRING) /\ lists \in Seq(Seq(STRING)) /\ Len(lists) = n
    <2>1. Lines(asked) = STRING
      BY <1>1, QueryFields DEF QueryTypeOK, Lines
    <2> QED
      BY <1>1, <2>1 DEF QueryTypeOK
  <1>6. /\ names' \in Seq(STRING) /\ Len(names') = n + 1 /\ n \in Nat
        /\ DOMAIN names = 1..n /\ DOMAIN names' = 1..(n + 1)
        /\ \A i \in 1..n : names'[i] = names[i]
        /\ names'[n + 1] = Name[p].name
    BY <1>1, <1>2, <1>4, <1>5, OneMore
  <1>7. /\ lists' \in Seq(Seq(STRING)) /\ Len(lists') = n + 1
        /\ \A i \in 1..n : lists'[i] = lists[i]
        /\ lists'[n + 1] = <<Name[p].namespace>>
    <2>1. <<Name[p].namespace>> \in Seq(STRING)
      BY <1>4
    <2> QED
      BY <1>1, <1>2, <1>5, <2>1, OneMore
  <1>8. DOMAIN todo' = DOMAIN todo \ {p} /\ \A q \in DOMAIN todo' : todo'[q] = todo[q]
    BY <1>1 DEF Restrict
  <1>9. QueryTypeOK'
    <2>1. Lines(asked)' = STRING
      BY <1>1, QueryFields DEF QueryTypeOK, Lines
    <2> QED
      BY <1>1, <1>6, <1>7, <2>1 DEF QueryTypeOK
  <1>10. NodesInHand'
    <2> DEFINE copied == (read \ DOMAIN todo) \cup {p}
               other == [q \in copied |-> IF q = p THEN n + 1 ELSE place[q]]
    <2>1. read \ (DOMAIN todo \ {p}) = copied
      BY <1>4
    <2>2. p \notin read \ DOMAIN todo
      BY <1>1
    <2>3. \A q \in read \ DOMAIN todo : place[q] \in 1..n
      BY <1>3, <1>6
    <2>4. other \in [copied -> 1..(n + 1)]
      BY <1>6, <2>3
    <2>5. \A q, r \in copied : other[q] = other[r] => q = r
      BY <1>3, <1>6, <2>2, <2>3
    <2>6. \A i \in 1..(n + 1) : \E q \in copied : other[q] = i
      <3>1. other[p] = n + 1
        OBVIOUS
      <3>2. \A i \in 1..n : \E q \in copied : other[q] = i
        BY <1>3, <1>6, <2>2
      <3>3. \A i \in 1..(n + 1) : i \in 1..n \/ i = n + 1
        BY <1>6
      <3> QED
        BY <3>1, <3>2, <3>3
    <2>7. \A q \in copied : /\ names'[other[q]] = Name[q].name
                            /\ lists'[other[q]] = <<Name[q].namespace>>
      BY <1>3, <1>6, <1>7, <2>3
    <2> HIDE DEF copied, other
    <2>8. other \in Bijection(copied, 1..(n + 1)) /\ DOMAIN other = copied
      BY <2>4, <2>5, <2>6 DEF Bijection, Injection, Surjection, IsInjective
    <2>9. \E f \in Bijection(read \ DOMAIN todo', DOMAIN names') :
            \A q \in DOMAIN f : /\ names'[f[q]] = Name[q].name
                                /\ lists'[f[q]] = <<Name[q].namespace>>
      <3>1. read \ DOMAIN todo' = copied /\ DOMAIN names' = 1..(n + 1)
        BY <1>6, <1>8, <2>1
      <3> QED
        BY <2>7, <2>8, <3>1
    <2>10. DOMAIN todo' \subseteq read /\ \A q \in DOMAIN todo' :
             todo'[q].name = Name[q].name /\ todo'[q].namespace = Name[q].namespace
      BY <1>2, <1>8
    <2>11. read = {q \in Peers : then'[q] # None}
      BY <1>1
    <2> HIDE DEF read
    <2> QED
      BY <1>1, <1>2, <2>9, <2>10, <2>11 DEF NodesInHand
  <1>11. TopicsInHand' /\ NothingInHand'
    BY <1>1 DEF TopicsInHand, NothingInHand
  <1> QED
    BY <1>9, <1>10, <1>11

-----------------------------------------------------------------------------
(* The theorems. *)

\* What the nodes announce, what is known of them, and what a query has in
\* hand are true in every state.
THEOREM Invariance == Spec => []Inv
  <1> USE DEF Inv, TypeOK, GraphInv, QueryInv
  <1>1. Init => Inv
    BY GraphInit, QueryInit
  <1>2. Inv /\ [Next]_vars => Inv'
    <2> SUFFICES ASSUME Inv, [Next]_vars PROVE Inv'
      OBVIOUS
    <2>1. GraphInv /\ QueryInv
      OBVIOUS
    <2>2. UNCHANGED graphVars => GraphInv'
      BY <2>1 DEF graphVars, GraphTypeOK, PayloadIsTrue, EndpointsOfNode, DiscoveredIsTrue
    <2> SUFFICES GraphInv' /\ QueryInv'
      OBVIOUS
    <2> HIDE DEF Inv, TypeOK, GraphInv, QueryInv
    <2>3. CASE \E e \in Endpoints : Create(e) \/ Destroy(e)
      <3>1. UNCHANGED queryVars
        BY <2>3 DEF Create, Destroy
      <3> QED
        BY <2>1, <2>3, <3>1, GraphCreate, GraphDestroy, QueryUnchanged
    <2>4. CASE \E p \in Peers : OnDiscovery(p) \/ OnLeave(p)
      <3>1. UNCHANGED queryVars
        BY <2>4 DEF OnDiscovery, OnLeave
      <3> QED
        BY <2>1, <2>4, <3>1, GraphOnDiscovery, GraphOnLeave, QueryUnchanged
    <2>5. CASE \E q \in Queries : ReadGraph(q)
      BY <2>1, <2>2, <2>5, QueryRead DEF ReadGraph
    <2>6. CASE CopyTopic
      BY <2>1, <2>2, <2>6, QueryCopyTopic DEF CopyTopic
    <2>7. CASE CopyType
      BY <2>1, <2>2, <2>7, QueryCopyType DEF CopyType
    <2>8. CASE CopyNode
      BY <2>1, <2>2, <2>8, QueryCopyNode DEF CopyNode
    <2>9. CASE ReturnOk \/ OutOfMemory \/ Finish
      BY <2>1, <2>2, <2>9, QueryReturn DEF ReturnOk, OutOfMemory, Finish
    <2>10. CASE UNCHANGED vars
      BY <2>1, <2>2, <2>10, QueryUnchanged DEF vars
    <2> QED
      BY <2>3, <2>4, <2>5, <2>6, <2>7, <2>8, <2>9, <2>10 DEF Next
  <1> QED
    BY <1>1, <1>2, PTL DEF Spec

\* The variables are of their types: what a node announces and what is listed
\* are strings of the forms that the code puts together.
THEOREM Typing == Spec => []TypeOK
  <1>1. Inv => TypeOK
    BY DEF Inv
  <1> QED
    BY <1>1, Invariance, PTL

\* rmw_count_*() and rmw_service_server_is_available() count each endpoint of
\* each node once, as the node last announced it, however many are equal and
\* whichever of them were destroyed.
THEOREM CountsEachOnce == Spec => []CountsAreTrue
  <1>1. Inv => CountsAreTrue
    BY CountsTrue DEF Inv, TypeOK, GraphInv
  <1> QED
    BY <1>1, Invariance, PTL

\* A query that returns RMW_RET_OK lists the topics and the types of one
\* instant, whatever the listener changed while it copied them.
THEOREM ListsOneInstant == Spec => []ListingIsTrue
  <1>1. Inv => ListingIsTrue
    <2> SUFFICES ASSUME Inv, status = "ok", asked.what # "nodes" PROVE ListingIsTrue
      BY DEF ListingIsTrue
    <2>1. pending = {} /\ DOMAIN todo = {}
      BY DEF Inv, NothingInHand
    <2>2. PICK found \in SUBSET Endpoints :
            About(asked, found) /\ Divided(found) /\ \A i \in DOMAIN names : TypesInHand(found, i)
      BY DEF Inv, TopicsInHand
    <2>3. IsInjective(names) /\ ToSet(names) = {Topic[e] : e \in found}
      BY <2>1, <2>2 DEF Divided
    <2>4. ASSUME NEW i \in DOMAIN names
         PROVE  /\ Len(lists[i]) = Cardinality(TypesIn(found, names[i]))
                /\ ToSet(lists[i]) = {DemangleType(asked, t) : t \in TypesIn(found, names[i])}
      <3>1. Left(i) = {}
        BY <2>1 DEF Left
      <3> QED
        BY <2>2, <3>1 DEF TypesInHand
    <2> QED
      BY <2>2, <2>3, <2>4 DEF ListingIsTrue
  <1> QED
    BY <1>1, Invariance, PTL

\* rmw_get_node_names() returns the nodes of one instant: each of them once,
\* its name and its namespace at one index, though others have its name.
THEOREM ListsNodesOnce == Spec => []NodeNamesAreTrue
  <1>1. Inv => NodeNamesAreTrue
    <2> SUFFICES ASSUME Inv, status = "ok", asked.what = "nodes",
                        NEW n \in {Name[p] : p \in Peers}
                 PROVE  Cardinality({i \in DOMAIN names :
                                       names[i] = n.name /\ lists[i] = <<n.namespace>>})
                          = Cardinality({p \in Peers : then[p] # None /\ Name[p] = n})
      BY DEF NodeNamesAreTrue
    <2> DEFINE read == {p \in Peers : then[p] # None}
               at == {i \in DOMAIN names : names[i] = n.name /\ lists[i] = <<n.namespace>>}
               of == {p \in Peers : then[p] # None /\ Name[p] = n}
    <2>1. DOMAIN todo = {}
      BY DEF Inv, NothingInHand
    <2>2. PICK place \in Bijection(read, DOMAIN names) :
            \A p \in DOMAIN place : /\ names[place[p]] = Name[p].name
                                    /\ lists[place[p]] = <<Name[p].namespace>>
      BY <2>1 DEF Inv, NodesInHand
    <2>3. /\ place \in [read -> DOMAIN names]
          /\ \A p, q \in read : place[p] = place[q] => p = q
          /\ \A i \in DOMAIN names : \E p \in read : place[p] = i
      <3> HIDE DEF read
      <3> QED
        BY DEF Bijection, Injection, Surjection, IsInjective
    <2>4. ASSUME NEW p \in read PROVE place[p] \in at <=> Name[p] = n
      <3>1. /\ Name[p] \in [name : STRING, namespace : STRING]
            /\ n \in [name : STRING, namespace : STRING]
        BY GraphAssumption
      <3>2. names[place[p]] = Name[p].name /\ lists[place[p]] = <<Name[p].namespace>>
        BY <2>2, <2>3
      <3>3. Name[p] = n <=> Name[p].name = n.name /\ Name[p].namespace = n.namespace
        BY <3>1
      <3> QED
        BY <2>3, <3>2, <3>3
    <2> DEFINE f == [p \in of |-> place[p]]
    <2>5. f \in Bijection(of, at)
      <3>1. \A p \in of : f[p] \in at
        BY <2>4
      <3>2. \A p, q \in of : f[p] = f[q] => p = q
        BY <2>3
      <3>3. \A i \in at : \E p \in of : f[p] = i
        BY <2>3, <2>4
      <3> HIDE DEF of, at
      <3> QED
        BY <3>1, <3>2, <3>3, Fun_IsBij
    <2>6. IsFiniteSet(of)
      BY GraphAssumption, FS_Subset
    <2>7. ExistsBijection(of, at)
      BY <2>5, Fun_ExistsBij
    <2> HIDE DEF of, at
    <2>8. Cardinality(at) = Cardinality(of)
      BY <2>6, <2>7, FS_Bijection
    <2> QED
      BY <2>8 DEF of, at
  <1> QED
    BY <1>1, Invariance, PTL

-----------------------------------------------------------------------------
(* The queries implement GraphView. *)

\* A type that is copied counts as much as it did when it was left.
LEMMA CopiedForLeft ==
  ASSUME NEW q, NEW L, NEW copied \in Seq(L), NEW types, IsFiniteSet(types),
         NEW t \in types, DemangleType(q, t) \in L
  PROVE  Shown(q, Append(copied, DemangleType(q, t)), types \ {t}) = Shown(q, copied, types)
  <1> DEFINE line == DemangleType(q, t)
             more == Append(copied, line)
             n == Len(copied)
             At(s, l) == {i \in DOMAIN s : s[i] = l}
             To(rest, l) == {u \in rest : DemangleType(q, u) = l}
  <1>1. /\ n \in Nat /\ DOMAIN copied = 1..n /\ DOMAIN more = 1..(n + 1)
        /\ \A i \in 1..n : more[i] = copied[i]
        /\ more[n + 1] = line /\ ToSet(more) = ToSet(copied) \cup {line}
    BY OneMore
  <1>2. ToSet(more) \cup {DemangleType(q, u) : u \in types \ {t}}
          = ToSet(copied) \cup {DemangleType(q, u) : u \in types}
    BY <1>1
  <1>3. ASSUME NEW l
        PROVE  Cardinality(At(more, l)) + Cardinality(To(types \ {t}, l))
                 = Cardinality(At(copied, l)) + Cardinality(To(types, l))
    <2>1. IsFiniteSet(At(copied, l)) /\ IsFiniteSet(To(types, l))
      <3>1. At(copied, l) \subseteq 1..n /\ IsFiniteSet(1..n)
        BY <1>1, FS_Interval
      <3>2. To(types, l) \subseteq types
        OBVIOUS
      <3> HIDE DEF At, To
      <3> QED
        BY <3>1, <3>2, FS_Subset
    <2>2. Cardinality(At(copied, l)) \in Nat /\ Cardinality(To(types, l)) \in Nat
      BY <2>1, FS_CardinalityType
    <2>3. CASE line = l
      <3>1. At(more, l) = At(copied, l) \cup {n + 1} /\ n + 1 \notin At(copied, l)
        BY <1>1, <2>3
      <3>2. To(types \ {t}, l) = To(types, l) \ {t} /\ t \in To(types, l)
        BY <2>3
      <3> HIDE DEF At, To
      <3>3. Cardinality(At(more, l)) = Cardinality(At(copied, l)) + 1
        BY <2>1, <3>1, FS_AddElement
      <3>4. Cardinality(To(types \ {t}, l)) = Cardinality(To(types, l)) - 1
        BY <2>1, <3>2, FS_RemoveElement
      <3> QED
        BY <2>2, <3>3, <3>4
    <2>4. CASE line # l
      <3>1. At(more, l) = At(copied, l)
        BY <1>1, <2>4
      <3>2. To(types \ {t}, l) = To(types, l)
        BY <2>4
      <3> QED
        BY <3>1, <3>2
    <2> QED
      BY <2>3, <2>4
  <1> QED
    BY <1>2, <1>3 DEF Shown

\* Of a topic that is left altogether, the types are what GraphView shows.
LEMMA NothingCopied ==
  ASSUME NEW q, NEW types, IsFiniteSet(types)
  PROVE  Shown(q, <<>>, types) = View!Tally(q, types)
  <1>1. ToSet(<<>>) \cup {DemangleType(q, t) : t \in types}
          = {DemangleType(q, t) : t \in types}
    BY EmptyArrays
  <1>2. ASSUME NEW l
        PROVE  Cardinality({i \in DOMAIN <<>> : <<>>[i] = l})
                 + Cardinality({t \in types : DemangleType(q, t) = l})
                 = Cardinality({t \in types : DemangleType(q, t) = l})
    <2>1. {i \in DOMAIN <<>> : <<>>[i] = l} = {}
      BY EmptyArrays
    <2>2. Cardinality({t \in types : DemangleType(q, t) = l}) \in Nat
      BY FS_Subset, FS_CardinalityType
    <2> QED
      BY <2>1, <2>2, FS_EmptySet
  <1> QED
    BY <1>1, <1>2 DEF Shown, View!Tally

LEMMA ViewInit == Init => View!Init
  BY DEF Init, View!Init, Answer

\* What the graph does, no query notices.
LEMMA AnswerUnchanged == UNCHANGED queryVars => UNCHANGED <<status, asked, Answer>>
  BY DEF queryVars, Answer, NodesShown, TopicsShown, TopicShown, CopiedAs, LeftAs, IndexOf, Left

LEMMA IndexIsUnique ==
  ASSUME NEW s, IsInjective(s), NEW i \in DOMAIN s
  PROVE  (CHOOSE j \in DOMAIN s : s[j] = s[i]) = i
  BY DEF IsInjective

\* The name of a topic is copied, and its types become those that are pending:
\* it is counted among the copied topics, and no longer among those left.
LEMMA ViewCopyTopic ==
  ASSUME QueryInv, CopyTopic
  PROVE  UNCHANGED Answer
  <1> USE DEF QueryInv
  <1>1. PICK t \in DOMAIN todo :
          /\ status = "copying" /\ asked.what # "nodes" /\ pending = {}
          /\ names' = Append(names, t) /\ lists' = Append(lists, <<>>)
          /\ pending' = todo[t] /\ todo' = Restrict(todo, DOMAIN todo \ {t})
          /\ status' = status /\ asked' = asked
    BY DEF CopyTopic
  <1>2. PICK found \in SUBSET Endpoints : Divided(found)
    BY <1>1 DEF TopicsInHand
  <1>3. t \in STRING /\ t \notin ToSet(names) /\ IsInjective(names)
    BY <1>2, GraphAssumption DEF Divided
  <1> DEFINE n == Len(names)
  <1>4. /\ names \in Seq(STRING) /\ lists \in Seq(Seq(Lines(asked)))
        /\ Len(lists) = n /\ <<>> \in Seq(Lines(asked))
    BY <1>1, EmptyArrays DEF QueryTypeOK
  <1>5. /\ Len(names') = n + 1 /\ n \in Nat
        /\ DOMAIN names = 1..n /\ DOMAIN names' = 1..(n + 1)
        /\ \A i \in 1..n : names'[i] = names[i]
        /\ names'[n + 1] = t /\ ToSet(names') = ToSet(names) \cup {t}
    BY <1>1, <1>3, <1>4, OneMore
  <1>6. /\ \A i \in 1..n : lists'[i] = lists[i]
        /\ lists'[n + 1] = <<>>
    BY <1>1, <1>4, OneMore
  <1>7. DOMAIN todo' = DOMAIN todo \ {t} /\ \A u \in DOMAIN todo' : todo'[u] = todo[u]
    BY <1>1 DEF Restrict
  <1>8. IsInjective(names')
    <2>1. \A i \in 1..n : names[i] # t
      BY <1>3, <1>5 DEF ToSet
    <2>2. \A i \in 1..(n + 1) : i \in 1..n \/ i = n + 1
      BY <1>5
    <2> QED
      BY <1>3, <1>5, <2>1, <2>2 DEF IsInjective
  <1>9. ASSUME NEW u \in ToSet(names)
        PROVE  IndexOf(u) \in 1..n /\ IndexOf(u)' = IndexOf(u)
    <2>1. PICK i \in 1..n : names[i] = u
      BY <1>5 DEF ToSet
    <2>2. IndexOf(u) = i
      BY <1>3, <1>5, <2>1, IndexIsUnique DEF IndexOf
    <2>3. i \in DOMAIN names' /\ names'[i] = u
      BY <1>5, <2>1
    <2>4. IndexOf(u)' = i
      BY <1>8, <2>3, IndexIsUnique DEF IndexOf
    <2> QED
      BY <2>2, <2>4
  <1>10. IndexOf(t)' = n + 1
    BY <1>5, <1>8, IndexIsUnique DEF IndexOf
  <1>11. ASSUME NEW u \in ToSet(names) \cup DOMAIN todo
         PROVE  TopicShown(u)' = TopicShown(u)
    <2>1. CASE u \in DOMAIN todo'
      BY <1>1, <1>7, <2>1 DEF TopicShown
    <2>2. CASE u = t
      <3>1. TopicShown(t) = Shown(asked, <<>>, todo[t])
        BY DEF TopicShown
      <3>2. Left(IndexOf(t))' = todo[t]
        BY <1>1, <1>5, <1>10 DEF Left
      <3>3. t \notin DOMAIN todo'
        BY <1>7
      <3> QED
        BY <1>1, <1>6, <1>10, <2>2, <3>1, <3>2, <3>3 DEF TopicShown
    <2>3. CASE u \in ToSet(names)
      <3>1. \A i \in 1..n : Left(i) = {}
        BY <1>1 DEF Left
      <3>2. \A i \in 1..n : Left(i)' = {}
        BY <1>1, <1>5 DEF Left
      <3>3. u \notin DOMAIN todo /\ u \notin DOMAIN todo'
        BY <1>2, <1>7, <2>3 DEF Divided
      <3> QED
        BY <1>1, <1>6, <1>9, <2>3, <3>1, <3>2, <3>3 DEF TopicShown
    <2> QED
      BY <1>7, <2>1, <2>2, <2>3
  <1>12. ToSet(names') \cup DOMAIN todo' = ToSet(names) \cup DOMAIN todo
    BY <1>5, <1>7
  <1>13. TopicsShown' = TopicsShown
    BY <1>11, <1>12 DEF TopicsShown
  <1> QED
    BY <1>1, <1>13 DEF Answer

\* A type that is copied was left before.
LEMMA ViewCopyType ==
  ASSUME QueryInv, CopyType
  PROVE  UNCHANGED Answer
  <1> USE DEF QueryInv
  <1>1. PICK t \in pending :
          /\ status = "copying" /\ pending' = pending \ {t}
          /\ lists' = [lists EXCEPT ![Len(lists)] = Append(@, DemangleType(asked, t))]
          /\ status' = status /\ asked' = asked
          /\ todo' = todo /\ names' = names
    BY DEF CopyType
  <1>2. asked.what # "nodes"
    BY <1>1 DEF NodesInHand
  <1>3. PICK found \in SUBSET Endpoints : Divided(found) /\ \A i \in DOMAIN names : TypesInHand(found, i)
    BY <1>1, <1>2 DEF TopicsInHand
  <1> DEFINE n == Len(names)
  <1>4. /\ names \in Seq(STRING) /\ lists \in Seq(Seq(Lines(asked)))
        /\ Len(lists) = n /\ asked \in Queries /\ t \in TypeNames
    BY <1>1 DEF QueryTypeOK
  <1>5. n \in Nat \ {0} /\ DOMAIN names = 1..n /\ DOMAIN lists = 1..n
    <2>1. n \in Nat /\ DOMAIN names = 1..n
      BY <1>4, LenProperties
    <2>2. DOMAIN lists = 1..n
      BY <1>4, LenProperties
    <2>3. names # <<>>
      BY <1>1, <1>3 DEF Divided
    <2> QED
      BY <1>4, <2>1, <2>2, <2>3, EmptySeq
  <1>6. IsFiniteSet(pending)
    <2>1. n \in DOMAIN names /\ Left(n) = pending
      BY <1>5 DEF Left
    <2>2. TypesInHand(found, n)
      BY <1>3, <2>1
    <2>3. pending \subseteq TypesIn(found, names[n])
      BY <2>1, <2>2 DEF TypesInHand
    <2> QED
      BY <2>3, TypesAreFinite, FS_Subset
  <1>7. lists[n] \in Seq(Lines(asked)) /\ DemangleType(asked, t) \in Lines(asked)
    BY <1>2, <1>4, <1>5, ElementOfSeq, DemangleTypeIsTyped
  <1>8. Shown(asked, lists'[n], pending \ {t}) = Shown(asked, lists[n], pending)
    <2>1. lists'[n] = Append(lists[n], DemangleType(asked, t))
      BY <1>1, <1>4, <1>5
    <2> QED
      BY <1>6, <1>7, <2>1, CopiedForLeft
  <1>9. ASSUME NEW i \in 1..n
        PROVE  Shown(asked, lists[i], Left(i))' = Shown(asked, lists[i], Left(i))
    <2>1. CASE i = n
      BY <1>1, <1>8, <2>1 DEF Left
    <2>2. CASE i # n
      <3>1. lists'[i] = lists[i] /\ Left(i)' = Left(i)
        BY <1>1, <1>4, <1>5, <2>2 DEF Left
      <3> QED
        BY <1>1, <3>1
    <2> QED
      BY <2>1, <2>2
  <1>10. ASSUME NEW u \in ToSet(names) \cup DOMAIN todo
         PROVE  TopicShown(u)' = TopicShown(u)
    <2>1. CASE u \in DOMAIN todo
      BY <1>1, <2>1 DEF TopicShown
    <2>2. CASE u \notin DOMAIN todo
      <3>1. PICK i \in 1..n : names[i] = u
        BY <1>5, <2>2 DEF ToSet
      <3>2. IndexOf(u) = i /\ IndexOf(u)' = i
        BY <1>1, <1>3, <1>5, <3>1, IndexIsUnique DEF IndexOf, Divided
      <3> QED
        BY <1>1, <1>9, <2>2, <3>2 DEF TopicShown
    <2> QED
      BY <2>1, <2>2
  <1>11. TopicsShown' = TopicsShown
    BY <1>1, <1>10 DEF TopicsShown
  <1> QED
    BY <1>1, <1>2, <1>11 DEF Answer

\* A node that is copied is one fewer of those left of its name.
LEMMA ViewCopyNode ==
  ASSUME QueryInv, CopyNode
  PROVE  UNCHANGED Answer
  <1> USE DEF QueryInv
  <1>1. PICK p \in DOMAIN todo :
          /\ status = "copying" /\ asked.what = "nodes"
          /\ names' = Append(names, todo[p].name)
          /\ lists' = Append(lists, <<todo[p].namespace>>)
          /\ todo' = Restrict(todo, DOMAIN todo \ {p})
          /\ status' = status /\ asked' = asked
    BY DEF CopyNode
  <1>2. DOMAIN todo \subseteq Peers /\ IsFiniteSet(DOMAIN todo)
    <2>1. DOMAIN todo \subseteq Peers
      BY <1>1 DEF NodesInHand
    <2> QED
      BY <2>1, FS_Subset, GraphAssumption
  <1> DEFINE n == Len(names)
             name == todo[p].name
             namespace == todo[p].namespace
  <1>3. /\ names \in Seq(STRING) /\ lists \in Seq(Seq(STRING)) /\ Len(lists) = n
        /\ name \in STRING /\ <<namespace>> \in Seq(STRING)
    <2>1. Lines(asked) = STRING
      BY <1>1, QueryFields DEF QueryTypeOK, Lines
    <2>2. name = Name[p].name /\ namespace = Name[p].namespace
      BY <1>1 DEF NodesInHand
    <2>3. Name[p] \in [name : STRING, namespace : STRING]
      BY <1>2, GraphAssumption
    <2> QED
      BY <1>1, <2>1, <2>2, <2>3 DEF QueryTypeOK
  <1>4. /\ n \in Nat /\ DOMAIN names = 1..n /\ DOMAIN names' = 1..(n + 1)
        /\ \A i \in 1..n : names'[i] = names[i]
        /\ names'[n + 1] = name
    BY <1>1, <1>3, OneMore
  <1>5. (\A i \in 1..n : lists'[i] = lists[i]) /\ lists'[n + 1] = <<namespace>>
    BY <1>1, <1>3, OneMore
  <1>6. DOMAIN todo' = DOMAIN todo \ {p} /\ \A q \in DOMAIN todo' : todo'[q] = todo[q]
    BY <1>1 DEF Restrict
  <1> HIDE DEF n, name, namespace
  <1>7. ASSUME NEW m
        PROVE  /\ Cardinality(CopiedAs(m))' + Cardinality(LeftAs(m))'
                    = Cardinality(CopiedAs(m)) + Cardinality(LeftAs(m))
               /\ CopiedAs(m)' \cup LeftAs(m)' # {} <=> CopiedAs(m) \cup LeftAs(m) # {}
    <2>1. IsFiniteSet(CopiedAs(m)) /\ IsFiniteSet(LeftAs(m))
      <3>1. CopiedAs(m) \subseteq 1..n /\ IsFiniteSet(1..n)
        BY <1>4, FS_Interval DEF CopiedAs
      <3>2. LeftAs(m) \subseteq DOMAIN todo
        BY DEF LeftAs
      <3> QED
        BY <1>2, <3>1, <3>2, FS_Subset
    <2>2. Cardinality(CopiedAs(m)) \in Nat /\ Cardinality(LeftAs(m)) \in Nat
      BY <2>1, FS_CardinalityType
    <2>3. CASE name = m.name /\ namespace = m.namespace
      <3>1. CopiedAs(m)' = CopiedAs(m) \cup {n + 1} /\ n + 1 \notin CopiedAs(m)
        BY <1>4, <1>5, <2>3 DEF CopiedAs
      <3>2. LeftAs(m)' = LeftAs(m) \ {p} /\ p \in LeftAs(m)
        BY <1>1, <1>6, <2>3 DEF LeftAs, name, namespace
      <3>3. Cardinality(CopiedAs(m) \cup {n + 1}) = Cardinality(CopiedAs(m)) + 1
        BY <2>1, <3>1, FS_AddElement
      <3>4. Cardinality(LeftAs(m) \ {p}) = Cardinality(LeftAs(m)) - 1
        BY <2>1, <3>2, FS_RemoveElement
      <3> QED
        BY <2>2, <3>1, <3>2, <3>3, <3>4
    <2>4. CASE ~(name = m.name /\ namespace = m.namespace)
      <3>1. CopiedAs(m)' = CopiedAs(m)
        <4>1. ~(name = m.name /\ <<namespace>> = <<m.namespace>>)
          BY <2>4
        <4> QED
          BY <1>4, <1>5, <4>1 DEF CopiedAs
      <3>2. LeftAs(m)' = LeftAs(m)
        BY <1>6, <2>4 DEF LeftAs, name, namespace
      <3> QED
        BY <3>1, <3>2
    <2> QED
      BY <2>3, <2>4
  <1>8. NodesShown' = NodesShown
    BY <1>7 DEF NodesShown
  <1> QED
    BY <1>1, <1>8 DEF Answer

\* What a query takes under the mutex is the answer of that instant.
LEMMA ViewRead ==
  ASSUME GraphInv, QueryInv, NEW q \in Queries, ReadGraph(q)
  PROVE  View!Ask(q)
  <1>1. /\ status = "idle" /\ status' = "copying" /\ asked' = q /\ then' = seen
        /\ names' = <<>> /\ pending' = {} /\ seen' = seen
    BY DEF ReadGraph, QueryInv, NothingInHand, graphVars
  <1>2. View!Known = Known
    BY KnownNode DEF View!Known, Known
  <1>3. CASE q.what = "nodes"
    <2>1. DOMAIN todo' = Known /\ \A p \in Known : todo'[p] = discovered[p]
      BY <1>3 DEF ReadGraph, Restrict
    <2>2. ASSUME NEW m \in {Name[p] : p \in Peers}
          PROVE  CopiedAs(m)' = {} /\ LeftAs(m)' = {p \in Known : Name[p] = m}
      <3>1. \A p \in Known : /\ todo'[p].name = Name[p].name
                              /\ todo'[p].namespace = Name[p].namespace
        BY <2>1, KnownNode DEF Known
      <3>2. \A p \in Known : Name[p].name = m.name /\ Name[p].namespace = m.namespace
                                <=> Name[p] = m
        <4>1. \A a, b \in [name : STRING, namespace : STRING] :
                a.name = b.name /\ a.namespace = b.namespace <=> a = b
          OBVIOUS
        <4>2. \A p \in Peers : Name[p] \in [name : STRING, namespace : STRING]
          BY GraphAssumption
        <4> QED
          BY <4>1, <4>2 DEF Known
      <3>3. LeftAs(m)' = {p \in Known : Name[p] = m}
        BY <2>1, <3>1, <3>2 DEF LeftAs
      <3>4. CopiedAs(m)' = {}
        BY <1>1, EmptyArrays DEF CopiedAs
      <3> QED
        BY <3>3, <3>4
    <2>3. {m \in {Name[p] : p \in Peers} : CopiedAs(m)' \cup LeftAs(m)' # {}}
            = {Name[p] : p \in Known}
      BY <2>2 DEF Known
    <2>4. ASSUME NEW m \in {Name[p] : p \in Known}
          PROVE  Cardinality(CopiedAs(m)') + Cardinality(LeftAs(m)')
                   = Cardinality({p \in Known : Name[p] = m})
      <3>1. CopiedAs(m)' = {} /\ LeftAs(m)' = {p \in Known : Name[p] = m}
        BY <2>2 DEF Known
      <3>2. IsFiniteSet({p \in Known : Name[p] = m})
        BY FS_Subset, GraphAssumption DEF Known
      <3> QED
        BY <3>1, <3>2, FS_EmptySet, FS_CardinalityType
    <2>5. NodesShown' = View!NodesAnswer
      BY <1>2, <2>3, <2>4 DEF NodesShown, View!NodesAnswer
    <2> QED
      BY <1>1, <1>3, <2>5 DEF View!Ask, View!Answers, Answer
  <1>4. CASE q.what # "nodes"
    <2>1. PICK found \in SUBSET Endpoints : About(q, found)' /\ Represent(TopicsOf(q), found)
      BY <1>1, <1>4, TopicsOfTrue
    <2>2. todo' = [t \in {Topic[e] : e \in found} |-> TypesIn(found, t)]
      BY <1>4, <2>1, NamesAndTypesTrue DEF ReadGraph
    <2>3. found \in View!Subjects(q)
      <3>1. View!Everywhere = EndpointsOf(then)'
        BY <1>1 DEF View!Everywhere, View!Known, EndpointsOf
      <3>2. \A e \in Endpoints : Kind[e] \notin Services <=> Kind[e] \in {"subscribers", "publishers"}
        BY GraphAssumption DEF Kinds, Services
      <3>3. EndpointsOf(then)' \subseteq Endpoints
        BY <1>1 DEF GraphInv, GraphTypeOK, EndpointsOf
      <3>4. CASE q.what = "node"
        BY <1>1, <2>1, <3>4 DEF About, View!Subjects, View!Known
      <3>5. CASE q.what = "topics"
        BY <1>1, <2>1, <3>1, <3>2, <3>3, <3>5 DEF About, View!Subjects
      <3>6. CASE q.what = "services"
        BY <1>1, <2>1, <3>1, <3>6 DEF About, View!Subjects
      <3> QED
        BY <1>4, <3>4, <3>5, <3>6, QueryFields
    <2>4. \A t : View!TypesIn(found, t) = TypesIn(found, t)
      BY DEF View!TypesIn, TypesIn, View!ToSet, ToSet
    <2>5. TopicsShown' = View!TopicsAnswer(q, found)
      <3>1. ToSet(names') \cup DOMAIN todo' = {Topic[e] : e \in found}
        BY <1>1, <2>2, EmptyArrays
      <3>2. ASSUME NEW t \in {Topic[e] : e \in found}
            PROVE  TopicShown(t)' = View!Tally(q, TypesIn(found, t))
        <4>1. t \in DOMAIN todo' /\ todo'[t] = TypesIn(found, t)
          BY <2>2
        <4>2. Shown(q, <<>>, TypesIn(found, t)) = View!Tally(q, TypesIn(found, t))
          BY NothingCopied, TypesAreFinite
        <4> QED
          BY <1>1, <4>1, <4>2 DEF TopicShown
      <3> QED
        BY <2>4, <3>1, <3>2 DEF TopicsShown, View!TopicsAnswer
    <2> QED
      BY <1>1, <1>4, <2>3, <2>5 DEF View!Ask, View!Answers, Answer
  <1> QED
    BY <1>3, <1>4

\* Each step is one of GraphView, or none.
LEMMA ViewStep ==
  ASSUME Inv, [Next]_vars
  PROVE  [View!Next]_View!vars
  <1>1. GraphInv /\ QueryInv
    BY DEF Inv, TypeOK, GraphInv, QueryInv
  <1> USE DEF View!vars
  <1>2. CASE UNCHANGED vars
    BY <1>2, AnswerUnchanged DEF vars, graphVars
  <1>3. ASSUME NEW e \in Endpoints, Create(e) \/ Destroy(e)
        PROVE  UNCHANGED View!vars
    BY <1>3, AnswerUnchanged DEF Create, Destroy
  <1>4. ASSUME NEW p \in Peers, OnDiscovery(p) \/ OnLeave(p)
        PROVE  View!Learn(p)
    <2>1. UNCHANGED <<status, asked, Answer>>
      BY <1>4, AnswerUnchanged DEF OnDiscovery, OnLeave
    <2>2. EndpointsOfNode(p) \in SUBSET {e \in Endpoints : Owner[e] = p}
      BY <1>1 DEF EndpointsOfNode, GraphInv, GraphTypeOK
    <2> QED
      BY <1>4, <2>1, <2>2 DEF OnDiscovery, OnLeave, View!Learn
  <1>5. ASSUME NEW q \in Queries, ReadGraph(q) PROVE View!Ask(q)
    BY <1>1, <1>5, ViewRead
  <1>6. CASE CopyTopic
    BY <1>1, <1>6, ViewCopyTopic DEF CopyTopic, graphVars
  <1>7. CASE CopyType
    BY <1>1, <1>7, ViewCopyType DEF CopyType, graphVars
  <1>8. CASE CopyNode
    BY <1>1, <1>8, ViewCopyNode DEF CopyNode, graphVars
  <1>9. CASE ReturnOk
    <2>1. UNCHANGED Answer
      BY <1>9 DEF ReturnOk, Answer, NodesShown, TopicsShown, TopicShown, CopiedAs, LeftAs,
                  IndexOf, Left
    <2> QED
      BY <1>9, <2>1 DEF ReturnOk, graphVars, View!Next, View!Return
  <1>10. CASE OutOfMemory
    BY <1>10 DEF OutOfMemory, graphVars, Answer, View!Next, View!Fail
  <1>11. CASE Finish
    BY <1>11 DEF Finish, graphVars, Answer, View!Next, View!Free
  <1> QED
    BY <1>2, <1>3, <1>4, <1>5, <1>6, <1>7, <1>8, <1>9, <1>10, <1>11 DEF Next, View!Next

\* The queries implement GraphView: what a query returns is the answer of the
\* instant at which it held the mutex, each topic, type and node as often as
\* it was there, for any network and however the copying is interrupted.
THEOREM QueriesImplementView == Spec => ImplementsView
  <1> QED
    BY ViewInit, ViewStep, Invariance, PTL DEF Spec, ImplementsView, View!Spec

=============================================================================
