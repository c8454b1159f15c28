-------------------------- MODULE DiscoveryProofs --------------------------
(* Proofs about Discovery, for any network and any local endpoints. *)
EXTENDS Discovery, SequenceTheorems, FiniteSetTheorems, TLAPS

\* Changing how often one endpoint's topic is listed keeps an announcement one.
LEMMA ListedType ==
  ASSUME DiscoveryAssumption, NEW info \in Infos, NEW e \in Endpoints, NEW n \in Nat
  PROVE  Listed(info, e, n) \in Infos
  <1>1. Kind[e] \in Kinds /\ Topic[e] \in Topics
    BY DEF DiscoveryAssumption
  <1>2. [info[Kind[e]] EXCEPT ![Topic[e]] = n] \in [Topics -> Nat]
    BY <1>1 DEF Infos
  <1>. QED
    BY <1>1, <1>2 DEF Listed, Infos

\* The announcement without endpoints is one.
LEMMA NoEndpointsType == NoEndpoints \in Infos
  BY DEF NoEndpoints, Infos

\* An announcement of a peer may join the queue.
LEMMA InboxAppend ==
  ASSUME TypeOK, NEW p \in Peers, NEW info \in Infos \cup {None}
  PROVE  Append(inbox, <<p, info>>) \in Seq(Peers \X (Infos \cup {None}))
  BY DEF TypeOK

\* The head of the queue is an announcement of a peer, and the rest is a queue.
LEMMA InboxHead ==
  ASSUME TypeOK, inbox # <<>>
  PROVE  /\ Head(inbox)[1] \in Peers
         /\ Head(inbox)[2] \in Infos \cup {None}
         /\ Tail(inbox) \in Seq(Peers \X (Infos \cup {None}))
  <1>1. Head(inbox) \in Peers \X (Infos \cup {None})
    BY DEF TypeOK
  <1>2. Tail(inbox) \in Seq(Peers \X (Infos \cup {None}))
    BY DEF TypeOK
  <1>. QED
    BY <1>1, <1>2

\* Matches stay sets of peers.
LEMMA RematchedType ==
  ASSUME TypeOK, NEW k \in Kinds
  PROVE  Rematched(k) \in [Endpoints -> SUBSET Peers]
  <1>1. \A e \in Endpoints : /\ matched[e] \in SUBSET Peers
                             /\ matched[e] \cup {peer} \in SUBSET Peers
                             /\ matched[e] \ {peer} \in SUBSET Peers
    BY DEF TypeOK
  <1>. QED
    BY <1>1 DEF Rematched

\* Every variable keeps its type: a payload entry is never removed twice, and
\* only endpoints that cache their matches are registered.
THEOREM Typing == Spec => []TypeOK
  <1> USE DiscoveryAssumption
  <1>1. Init => TypeOK
    <2>1. <<<<Self, NoEndpoints>>>> \in Seq(Peers \X (Infos \cup {None}))
      BY NoEndpointsType DEF DiscoveryAssumption
    <2>2. 0 \in 0..MaxFailures /\ Self \in Peers
      BY DEF DiscoveryAssumption
    <2>. QED
      BY <2>1, <2>2, NoEndpointsType DEF Init, TypeOK, Stages
  <1>2. TypeOK /\ [Next]_vars => TypeOK'
    <2> SUFFICES ASSUME TypeOK, [Next]_vars PROVE TypeOK'
      OBVIOUS
    <2>n. \A e \in Endpoints : /\ Kind[e] \in Kinds /\ Topic[e] \in Topics
                               /\ payload[Kind[e]][Topic[e]] \in Nat
      BY DEF DiscoveryAssumption, TypeOK, Infos
    <2>2. ASSUME NEW e \in Endpoints, AddTopic(e)
          PROVE  TypeOK'
      <3>1. payload' \in Infos
        BY <2>2, <2>n, ListedType DEF AddTopic, TypeOK
      <3>2. inbox' \in Seq(Peers \X (Infos \cup {None}))
        BY <2>2, <3>1, InboxAppend DEF AddTopic, Publish, DiscoveryAssumption
      <3>. QED
        BY <2>2, <3>1, <3>2 DEF AddTopic, Publish, TypeOK, Stages, handlerVars, readerVars
    <2>3. ASSUME NEW e \in Endpoints, AddTopicFails(e)
          PROVE  TypeOK'
      <3>1. payload' \in Infos
        BY <2>3, <2>n, ListedType DEF AddTopicFails, TypeOK
      <3>. QED
        BY <2>3, <3>1 DEF AddTopicFails, Refuse, TypeOK, handlerVars, readerVars, DiscoveryAssumption
    <2>4. ASSUME NEW e \in Endpoints, Register(e)
          PROVE  TypeOK'
      <3>1. Caches(e)
        BY <2>4 DEF Register
      <3>. QED
        BY <2>4, <3>1 DEF Register, TypeOK, Stages, handlerVars, readerVars
    <2>5. ASSUME NEW e \in Endpoints, Unregister(e)
          PROVE  TypeOK'
      BY <2>5 DEF Unregister, TypeOK, Stages, handlerVars, readerVars
    <2>6. ASSUME NEW e \in Endpoints, RemoveTopic(e)
          PROVE  TypeOK'
      <3>1. payload' \in Infos
        BY <2>6, <2>n, ListedType DEF RemoveTopic, TypeOK, Has
      <3>2. inbox' \in Seq(Peers \X (Infos \cup {None}))
        <4>1. inbox' = inbox \/ inbox' = Append(inbox, <<Self, payload'>>)
          BY <2>6 DEF RemoveTopic, Publish, Refuse
        <4>2. Append(inbox, <<Self, payload'>>) \in Seq(Peers \X (Infos \cup {None}))
          BY <3>1, InboxAppend DEF DiscoveryAssumption
        <4>. QED
          BY <4>1, <4>2 DEF TypeOK
      <3>3. failures' \in 0..MaxFailures
        BY <2>6 DEF RemoveTopic, Publish, Refuse, TypeOK, DiscoveryAssumption
      <3>. QED
        BY <2>6, <3>1, <3>2, <3>3 DEF RemoveTopic, TypeOK, Stages, handlerVars, readerVars
    <2>7. ASSUME NEW p \in Peers, NEW info \in RemoteInfos \cup {None}, RemoteAnnounce(p, info)
          PROVE  TypeOK'
      BY <2>7, InboxAppend DEF RemoteAnnounce, TypeOK, localVars, handlerVars, readerVars, DiscoveryAssumption
    <2>8. CASE Lose
      BY <2>8, InboxHead DEF Lose, TypeOK, localVars, handlerVars, readerVars
    <2>9. CASE UpdateNodes
      <3>1. /\ discovered' \in [Peers -> Infos \cup {None}]
            /\ peer' \in Peers /\ old' \in Infos /\ new' \in Infos /\ trigger' \in BOOLEAN
        BY <2>9, InboxHead, NoEndpointsType DEF UpdateNodes, TypeOK
      <3>2. inbox' \in Seq(Peers \X (Infos \cup {None}))
        BY <2>9, InboxHead DEF UpdateNodes
      <3>. QED
        BY <2>9, <3>1, <3>2 DEF UpdateNodes, TypeOK, localVars
    <2>10. CASE UpdatePublishers
      BY <2>10, RematchedType DEF UpdatePublishers, TypeOK, localVars, Kinds
    <2>11. CASE UpdateSubscribers
      BY <2>11, RematchedType DEF UpdateSubscribers, TypeOK, localVars, Kinds
    <2>12. CASE NotifyGraph
      BY <2>12, NoEndpointsType DEF NotifyGraph, TypeOK, localVars, readerVars, DiscoveryAssumption
    <2>13. CASE GraphChanged
      BY <2>13 DEF GraphChanged, TypeOK, localVars, handlerVars
    <2>14. CASE ReadGraph
      BY <2>14 DEF ReadGraph, TypeOK, localVars, handlerVars
    <2>15. CASE UNCHANGED vars
      BY <2>15 DEF vars, TypeOK, localVars, handlerVars, readerVars
    <2>. QED
      BY <2>2, <2>3, <2>4, <2>5, <2>6, <2>7, <2>8, <2>9, <2>10, <2>11,
         <2>12, <2>13, <2>14, <2>15 DEF Next, OnDiscovery
  <1>3. QED
    BY <1>1, <1>2, PTL DEF Spec

-----------------------------------------------------------------------------
\* Two equal announcements make no difference to any match.
LEMMA SameAnnouncement ==
  ASSUME TypeOK, old = new, NEW k \in Kinds
  PROVE  Rematched(k) = matched
  BY DEF Rematched, Difference, TypeOK

\* Only a handler that will trigger the guard condition changes nodes or matches,
\* and the reader clears the guard condition before it reads.
LEMMA ChangeStep ==
  TypeOK /\ ChangeIsAnnounced /\ [Next]_vars => ChangeIsAnnounced'
  <1> SUFFICES ASSUME TypeOK, ChangeIsAnnounced, [Next]_vars
               PROVE  ChangeIsAnnounced'
    OBVIOUS
  <1>t. unseen \in BOOLEAN /\ graphGuard \in BOOLEAN /\ trigger \in BOOLEAN
    BY DEF TypeOK
  <1>1. CASE UpdateNodes
    <2>1. trigger' = (discovered'  # discovered)
      BY <1>1, InboxHead DEF UpdateNodes, TypeOK
    <2>2. ~trigger' => old' = new'
      BY <1>1 DEF UpdateNodes
    <2>. QED
      BY <1>1, <1>t, <2>1, <2>2 DEF UpdateNodes, ChangeIsAnnounced
  <1>2. CASE UpdatePublishers
    BY <1>2, <1>t, SameAnnouncement DEF UpdatePublishers, ChangeIsAnnounced, Kinds
  <1>3. CASE UpdateSubscribers
    BY <1>3, <1>t, SameAnnouncement DEF UpdateSubscribers, ChangeIsAnnounced, Kinds
  <1>4. CASE NotifyGraph
    BY <1>4, <1>t DEF NotifyGraph, ChangeIsAnnounced, readerVars
  <1>5. CASE GraphChanged \/ ReadGraph
    BY <1>5, <1>t DEF GraphChanged, ReadGraph, ChangeIsAnnounced, handlerVars
  <1>6. CASE UNCHANGED <<handlerVars, graphGuard, readerVars>>
    BY <1>6 DEF ChangeIsAnnounced, handlerVars, readerVars
  <1>. QED
    BY <1>1, <1>2, <1>3, <1>4, <1>5, <1>6
       DEF Next, OnDiscovery, AddTopic, AddTopicFails, Register,
           Unregister, RemoveTopic, RemoteAnnounce, Lose, vars

\* Registering an endpoint, or taking one out, keeps every other's matches.
LEMMA MatchesFrame ==
  ASSUME MatchesFollow, UNCHANGED <<registered, matched, discovered, handlerVars>>
  PROVE  MatchesFollow'
  BY DEF MatchesFollow, Pending, handlerVars

\* onDiscovery() brings the matches of the peer from the old announcement to the
\* new one, the publishers' and then the subscriptions'.
LEMMA MatchesStep ==
  TypeOK /\ MatchesFollow /\ [Next]_vars => MatchesFollow'
  <1> SUFFICES ASSUME TypeOK, MatchesFollow, [Next]_vars PROVE MatchesFollow'
    OBVIOUS
  <1>t. matched \in [Endpoints -> SUBSET Peers]
    BY DEF TypeOK
  <1>1. ASSUME NEW e \in Endpoints, Register(e)
        PROVE  MatchesFollow'
    BY <1>1, <1>t DEF Register, MatchesFollow, Pending, handlerVars
  <1>2. ASSUME NEW e \in Endpoints, Unregister(e)
        PROVE  MatchesFollow'
    BY <1>2, <1>t DEF Unregister, MatchesFollow, Pending, handlerVars
  <1>3. CASE UpdateNodes
    <2>1. /\ handler = "idle" /\ handler' = "publishers"
          /\ registered' = registered /\ matched' = matched
          /\ peer' \in Peers
          /\ old' = IF discovered[peer'] = None THEN NoEndpoints ELSE discovered[peer']
          /\ new' = IF discovered'[peer'] = None THEN NoEndpoints ELSE discovered'[peer']
          /\ \A p \in Peers \ {peer'} : discovered'[p] = discovered[p]
      BY <1>3, InboxHead DEF UpdateNodes, TypeOK
    <2>2. ASSUME NEW e \in registered, NEW p \in matched[e]
          PROVE  IF p = peer' THEN Has(old', Opposite(Kind[e]), Topic[e])
                 ELSE discovered'[p] # None /\ Has(discovered'[p], Opposite(Kind[e]), Topic[e])
      <3>1. discovered[p] # None /\ Has(discovered[p], Opposite(Kind[e]), Topic[e])
        BY <2>1 DEF MatchesFollow, Pending
      <3>2. p \in Peers
        BY DEF TypeOK
      <3>. QED
        BY <2>1, <3>1, <3>2
    <2>. QED
      BY <2>1, <2>2 DEF MatchesFollow, Pending
  <1>4. ASSUME NEW k \in {"publisher", "subscriber"}, matched' = Rematched(k),
               handler = IF k = "publisher" THEN "publishers" ELSE "subscribers",
               handler' = IF k = "publisher" THEN "subscribers" ELSE "notify",
               UNCHANGED <<registered, discovered, peer, old, new>>
        PROVE  MatchesFollow'
    <2>1. \A e \in Endpoints \ registered : matched'[e] = {}
      BY <1>4 DEF MatchesFollow, Rematched
    <2>2. ASSUME NEW e \in registered, NEW p \in matched'[e]
          PROVE  IF Pending(e)' /\ p = peer'
                 THEN Has(old', Opposite(Kind[e]), Topic[e])
                 ELSE discovered'[p] # None /\ Has(discovered'[p], Opposite(Kind[e]), Topic[e])
      <3>0. e \in Endpoints /\ Kind[e] \in {"publisher", "subscriber"} /\ Topic[e] \in Topics
        BY DiscoveryAssumption DEF TypeOK, Caches, DiscoveryAssumption
      <3>1. CASE Kind[e] # k
        <4>1. p \in matched[e]
          BY <1>4, <3>0, <3>1 DEF Rematched
        <4>2. Pending(e)' <=> Pending(e)
          BY <1>4, <3>0, <3>1 DEF Pending
        <4>. QED
          BY <1>4, <4>1, <4>2 DEF MatchesFollow
      <3>2. CASE Kind[e] = k
        <4>1. Pending(e) /\ ~Pending(e)'
          BY <1>4, <3>2 DEF Pending
        <4>2. CASE p # peer
          <5>1. p \in matched[e]
            BY <1>4, <3>0, <4>2 DEF Rematched
          <5>. QED
            BY <1>4, <4>1, <4>2, <5>1 DEF MatchesFollow
        <4>3. CASE p = peer
          <5>1. Has(new, Opposite(Kind[e]), Topic[e])
            <6>1. CASE p \in matched[e]
              <7>1. Has(old, Opposite(Kind[e]), Topic[e])
                BY <4>1, <4>3, <6>1 DEF MatchesFollow
              <7>2. Topic[e] \notin Difference(old, new, Opposite(k))
                BY <1>4, <3>0, <3>2, <4>3 DEF Rematched
              <7>. QED
                BY <3>0, <3>2, <7>1, <7>2 DEF Difference
            <6>2. CASE p \notin matched[e]
              <7>1. Topic[e] \in Difference(new, old, Opposite(k))
                BY <1>4, <3>0, <3>2, <6>2 DEF Rematched
              <7>. QED
                BY <3>2, <7>1 DEF Difference
            <6>. QED
              BY <6>1, <6>2
          <5>2. handler # "idle" /\ Opposite(Kind[e]) \in Kinds
            BY <1>4 DEF Opposite, Kinds
          <5>3. ~Has(NoEndpoints, Opposite(Kind[e]), Topic[e])
            BY <3>0, <5>2 DEF NoEndpoints, Has
          <5>. QED
            BY <1>4, <4>1, <4>3, <5>1, <5>2, <5>3 DEF MatchesFollow
        <4>. QED
          BY <4>2, <4>3
      <3>. QED
        BY <3>1, <3>2
    <2>3. new' = IF discovered'[peer'] = None THEN NoEndpoints ELSE discovered'[peer']
      BY <1>4 DEF MatchesFollow
    <2>. QED
      BY <1>4, <2>1, <2>2, <2>3 DEF MatchesFollow
  <1>5. CASE NotifyGraph
    <2>1. \A e \in Endpoints : ~Pending(e) /\ ~Pending(e)'
      BY <1>5 DEF NotifyGraph, Pending
    <2>2. registered \subseteq Endpoints
      BY DEF TypeOK
    <2>. QED
      BY <1>5, <2>1, <2>2 DEF NotifyGraph, MatchesFollow
  <1>6. CASE UpdatePublishers
    BY <1>4, <1>6 DEF UpdatePublishers
  <1>7. CASE UpdateSubscribers
    BY <1>4, <1>7 DEF UpdateSubscribers
  <1>8. CASE UNCHANGED <<registered, matched, discovered, handlerVars>>
    BY <1>8, MatchesFrame
  <1>. QED
    BY <1>1, <1>2, <1>3, <1>5, <1>6, <1>7, <1>8
       DEF Next, OnDiscovery, AddTopic, AddTopicFails, RemoveTopic,
           RemoteAnnounce, Lose, GraphChanged, ReadGraph, vars

\* The inductive invariant of Discovery: types, who still owes the reader of the
\* graph a notification, and what the cached matches say of each node.
THEOREM Invariance == Spec => []Inv
  <1>1. Init => ChangeIsAnnounced /\ MatchesFollow
    BY DEF Init, ChangeIsAnnounced, MatchesFollow
  <1>2. TypeOK /\ ChangeIsAnnounced /\ MatchesFollow /\ [Next]_vars
          => (ChangeIsAnnounced /\ MatchesFollow)'
    BY ChangeStep, MatchesStep
  <1>. QED
    BY <1>1, <1>2, Typing, PTL DEF Spec, Inv

\* Whoever waits for the graph guard condition and then reads the graph has
\* seen every change of the nodes and of the matches, whatever announcements
\* arrive, are lost or come while it reads.
THEOREM GraphChangesAreSeen == Spec => []NoMissedGraphChange
  <1>1. Inv => NoMissedGraphChange
    BY DEF Inv, TypeOK, ChangeIsAnnounced, NoMissedGraphChange
  <1>. QED
    BY <1>1, Invariance, PTL

\* An endpoint counts no node that has left, or that has no matching endpoint
\* any more, except while onDiscovery() is about to take that node out.
THEOREM MatchesAreSound == Spec => []MatchedIsSound
  <1>1. Inv => MatchedIsSound
    <2> SUFFICES ASSUME Inv, NEW e \in registered, NEW p \in matched[e]
                 PROVE  p \in Matching(discovered, e) \cup (IF Pending(e) THEN {peer} ELSE {})
      BY DEF MatchedIsSound
    <2>1. p \in Peers
      BY DEF Inv, TypeOK
    <2>2. IF Pending(e) /\ p = peer
          THEN Has(old, Opposite(Kind[e]), Topic[e])
          ELSE discovered[p] # None /\ Has(discovered[p], Opposite(Kind[e]), Topic[e])
      BY DEF Inv, MatchesFollow
    <2>. QED
      BY <2>1, <2>2 DEF Matching
  <1>. QED
    BY <1>1, Invariance, PTL

-----------------------------------------------------------------------------
\* Endpoints that hold the payload entry for kind k and topic t.
Holders(k, t) ==
  {e \in Endpoints : stage[e] # "absent" /\ Kind[e] = k /\ Topic[e] = t}

\* They are finitely many, and one that leaves or comes counts for one.
LEMMA HoldersCount ==
  ASSUME DiscoveryAssumption, NEW k, NEW t
  PROVE  /\ IsFiniteSet(Holders(k, t)) /\ Cardinality(Holders(k, t)) \in Nat
         /\ \A e \in Endpoints \ Holders(k, t) :
               Cardinality(Holders(k, t) \cup {e}) = Cardinality(Holders(k, t)) + 1
         /\ \A e \in Holders(k, t) :
               Cardinality(Holders(k, t) \ {e}) = Cardinality(Holders(k, t)) - 1
  <1>1. IsFiniteSet(Holders(k, t))
    BY FS_Subset DEF Holders, DiscoveryAssumption
  <1>. QED
    BY <1>1, FS_CardinalityType, FS_AddElement, FS_RemoveElement

\* The entries of every other kind and topic stay as they are.
LEMMA ListedEntries ==
  ASSUME DiscoveryAssumption, NEW info \in Infos, NEW e \in Endpoints, NEW n \in Nat,
         NEW k \in Kinds, NEW t \in Topics
  PROVE  Listed(info, e, n)[k][t]
           = IF k = Kind[e] /\ t = Topic[e] THEN n ELSE info[k][t]
  BY DEF Listed, Infos, DiscoveryAssumption

\* The payload lists an endpoint for as long as it exists, although endpoints
\* of one kind and topic share equal entries and a creation that fails leaves
\* its entry behind.
THEOREM PayloadCoversEndpoints == Spec => []PayloadCovers
  <1> USE DiscoveryAssumption
  <1>1. Init => PayloadCovers
    <2> SUFFICES ASSUME Init, NEW k \in Kinds, NEW t \in Topics
                 PROVE  Cardinality(Holders(k, t)) <= payload[k][t]
      BY DEF PayloadCovers, Holders
    <2>1. Holders(k, t) = {}
      BY DEF Init, Holders
    <2>. QED
      BY <2>1, FS_EmptySet DEF Init, NoEndpoints
  <1>2. TypeOK /\ PayloadCovers /\ [Next]_vars => PayloadCovers'
    <2> SUFFICES ASSUME TypeOK, PayloadCovers, [Next]_vars,
                        NEW k \in Kinds, NEW t \in Topics
                 PROVE  Cardinality(Holders(k, t)') <= payload'[k][t]
      BY DEF PayloadCovers, Holders
    <2>1. /\ Cardinality(Holders(k, t)) <= payload[k][t]
          /\ payload \in Infos /\ payload[k][t] \in Nat
          /\ stage \in [Endpoints -> Stages]
      BY DEF PayloadCovers, Holders, TypeOK, Infos
    <2>2. \A e \in Endpoints : payload[Kind[e]][Topic[e]] \in Nat
      BY <2>1 DEF Infos, DiscoveryAssumption
    <2>3. ASSUME NEW e \in Endpoints, AddTopic(e) \/ AddTopicFails(e)
          PROVE  Cardinality(Holders(k, t)') <= payload'[k][t]
      <3>1. payload'[k][t] = IF k = Kind[e] /\ t = Topic[e] THEN payload[k][t] + 1
                             ELSE payload[k][t]
        BY <2>1, <2>2, <2>3, ListedEntries DEF AddTopic, AddTopicFails
      <3>2. \/ Holders(k, t)' = Holders(k, t)
            \/ /\ k = Kind[e] /\ t = Topic[e] /\ e \notin Holders(k, t)
               /\ Holders(k, t)' = Holders(k, t) \cup {e}
        BY <2>1, <2>3 DEF AddTopic, AddTopicFails, Holders
      <3>. QED
        BY <2>1, <3>1, <3>2, HoldersCount
    <2>4. ASSUME NEW e \in Endpoints, RemoveTopic(e)
          PROVE  Cardinality(Holders(k, t)') <= payload'[k][t]
      <3>1. /\ e \in Holders(Kind[e], Topic[e])
            /\ Holders(k, t)' = IF k = Kind[e] /\ t = Topic[e]
                                THEN Holders(k, t) \ {e} ELSE Holders(k, t)
        BY <2>1, <2>4 DEF RemoveTopic, Holders
      <3>2. CASE k = Kind[e] /\ t = Topic[e]
        <4>1. Cardinality(Holders(k, t)') = Cardinality(Holders(k, t)) - 1
          BY <3>1, <3>2, HoldersCount
        <4>2. payload'[k][t] = payload[k][t] \/ payload'[k][t] = payload[k][t] - 1
          <5>1. CASE ~Has(payload, Kind[e], Topic[e])
            BY <2>4, <5>1 DEF RemoveTopic
          <5>2. CASE Has(payload, Kind[e], Topic[e])
            <6>1. payload[k][t] - 1 \in Nat
              BY <2>1, <3>2, <5>2 DEF Has
            <6>. QED
              BY <2>1, <2>4, <3>2, <5>2, <6>1, ListedEntries DEF RemoveTopic
          <5>. QED
            BY <5>1, <5>2
        <4>. QED
          BY <2>1, <4>1, <4>2, HoldersCount
      <3>3. CASE ~(k = Kind[e] /\ t = Topic[e])
        <4>1. payload'[k][t] = payload[k][t]
          <5>1. CASE ~Has(payload, Kind[e], Topic[e])
            BY <2>4, <5>1 DEF RemoveTopic
          <5>2. CASE Has(payload, Kind[e], Topic[e])
            <6>1. payload[Kind[e]][Topic[e]] - 1 \in Nat
              BY <2>2, <5>2 DEF Has
            <6>. QED
              BY <2>1, <2>4, <3>3, <5>2, <6>1, ListedEntries DEF RemoveTopic
          <5>. QED
            BY <5>1, <5>2
        <4>. QED
          BY <2>1, <3>1, <3>3, <4>1
      <3>. QED
        BY <3>2, <3>3
    <2>5. ASSUME NEW e \in Endpoints, Register(e) \/ Unregister(e)
          PROVE  Cardinality(Holders(k, t)') <= payload'[k][t]
      <3>1. Holders(k, t)' = Holders(k, t) /\ payload' = payload
        BY <2>1, <2>5 DEF Register, Unregister, Holders
      <3>. QED
        BY <2>1, <3>1
    <2>6. CASE UNCHANGED <<payload, stage>>
      <3>1. Holders(k, t)' = Holders(k, t)
        BY <2>6 DEF Holders
      <3>. QED
        BY <2>1, <2>6, <3>1
    <2>. QED
      BY <2>3, <2>4, <2>5, <2>6
         DEF Next, OnDiscovery, RemoteAnnounce, Lose, UpdateNodes, UpdatePublishers,
             UpdateSubscribers, NotifyGraph, GraphChanged, ReadGraph, vars, localVars
  <1>. QED
    BY <1>1, <1>2, Typing, PTL DEF Spec

=============================================================================
