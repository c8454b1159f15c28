----------------------------- MODULE Discovery -----------------------------
(***************************************************************************)
(* Graph discovery in one node (CustomNodeInfo and NodeListener).          *)
(*                                                                         *)
(* Application threads create and destroy publishers, subscriptions,       *)
(* services and clients.  Each adds its topic to the node's discovery      *)
(* payload, or removes it, and publishes the payload.  The DPS loop thread *)
(* calls onDiscovery() for each announcement that arrives, the node's own  *)
(* included.  onDiscovery() updates the map of discovered nodes, then the  *)
(* set of matches each local publisher and each local subscription caches, *)
(* then triggers the node's graph guard condition, under a different mutex *)
(* (or none) in each of these steps.  A thread of the application waits    *)
(* for that guard condition and then reads the graph.                      *)
(*                                                                         *)
(* Names and types only tell payload entries apart; an announcement is how *)
(* many entries of each kind it has for each topic.                        *)
(***************************************************************************)
EXTENDS Naturals, Sequences, FiniteSets

CONSTANTS
  Peers,          \* the nodes of the network, by UUID
  Self,           \* this node
  Topics,         \* topic and service names
  Endpoints,      \* the local publishers, subscriptions, services and clients
  Kind,           \* Kind[e]: one of Kinds
  Topic,          \* Topic[e]: the topic of local endpoint e
  RemoteInfos,    \* announcements other nodes may make
  Lossy,          \* whether the network may lose an announcement
  MaxInbox,       \* bound: announcements under way to this node
  MaxFailures,    \* bound: announcements DPS refuses to publish
  None            \* no announcement: an unknown node, or a node that left

Kinds == {"publisher", "subscriber", "service", "client"}
Infos == [Kinds -> [Topics -> Nat]]
NoEndpoints == [k \in Kinds |-> [t \in Topics |-> 0]]

ASSUME DiscoveryAssumption ==
  /\ Self \in Peers
  /\ Kind \in [Endpoints -> Kinds]
  /\ Topic \in [Endpoints -> Topics]
  /\ RemoteInfos \subseteq Infos
  /\ None \notin Infos
  /\ IsFiniteSet(Endpoints)
  /\ Lossy \in BOOLEAN
  /\ MaxInbox \in Nat /\ MaxFailures \in Nat

VARIABLES
  payload,      \* discovery_payload_, as an announcement
  failures,     \* announcements refused so far (bounded by MaxFailures)
  stage,        \* stage[e]: how far e's creation or destruction has come
  registered,   \* the endpoints in publishers_ and subscribers_
  matched,      \* matched[e]: subscriptions_ of a publisher, publishers_ of
                \*   a subscription; the atomic count next to it is its size
  inbox,        \* announcements on their way to onDiscovery(), in order
  discovered,   \* discovered_nodes_: the announcement last seen of each node
  handler,      \* where the DPS loop thread is in onDiscovery()
  peer, old, new, trigger,  \* onDiscovery()'s uuid, old, node and trigger
  graphGuard,   \* whether the graph guard condition is triggered
  reader,       \* where the thread that watches the graph is
  unseen        \* whether nodes or matches changed since it last read them

localVars   == <<payload, failures, stage>>
handlerVars == <<handler, peer, old, new, trigger>>
readerVars  == <<reader, unseen>>
vars == <<localVars, registered, matched, inbox, discovered, handlerVars,
          graphGuard, readerVars>>

-----------------------------------------------------------------------------
Has(info, k, t) == info[k][t] > 0

\* The kind of endpoint whose presence elsewhere makes a match for kind k.
Opposite(k) == IF k = "publisher" THEN "subscriber" ELSE "publisher"

\* Publishers and subscriptions cache their matches; services and clients
\* are only listed in the payload.
Caches(e) == Kind[e] \in {"publisher", "subscriber"}

Matching(nodes, e) ==
  {p \in Peers : nodes[p] # None /\ Has(nodes[p], Opposite(Kind[e]), Topic[e])}

Listed(info, e, n) ==
  [info EXCEPT ![Kind[e]] = [@ EXCEPT ![Topic[e]] = n]]

Stages == {"absent", "announced", "live", "unregistered"}

TypeOK ==
  /\ payload \in Infos
  /\ failures \in 0..MaxFailures
  /\ stage \in [Endpoints -> Stages]
  /\ registered \subseteq {e \in Endpoints : Caches(e)}
  /\ matched \in [Endpoints -> SUBSET Peers]
  /\ inbox \in Seq(Peers \X (Infos \cup {None}))
  /\ discovered \in [Peers -> Infos \cup {None}]
  /\ handler \in {"idle", "publishers", "subscribers", "notify"}
  /\ peer \in Peers
  /\ old \in Infos /\ new \in Infos
  /\ trigger \in BOOLEAN
  /\ graphGuard \in BOOLEAN
  /\ reader \in {"waiting", "reading"}
  /\ unseen \in BOOLEAN

\* create_node() has announced the node, with a name and no endpoint.
Init ==
  /\ payload = NoEndpoints
  /\ failures = 0
  /\ stage = [e \in Endpoints |-> "absent"]
  /\ registered = {}
  /\ matched = [e \in Endpoints |-> {}]
  /\ inbox = <<<<Self, NoEndpoints>>>>
  /\ discovered = [p \in Peers |-> None]
  /\ handler = "idle"
  /\ peer = Self /\ old = NoEndpoints /\ new = NoEndpoints /\ trigger = FALSE
  /\ graphGuard = FALSE
  /\ reader = "waiting"
  /\ unseen = FALSE

-----------------------------------------------------------------------------
(* Creating and destroying local endpoints. *)

\* DPS_DiscoveryPublish() of a payload: accepted, it is on its way to every
\* node, this one included.
Publish(info) ==
  /\ Len(inbox) < MaxInbox
  /\ inbox' = Append(inbox, <<Self, info>>)
  /\ UNCHANGED failures

\* DPS_DiscoveryPublish() returns an error.
Refuse ==
  /\ failures < MaxFailures
  /\ failures' = failures + 1
  /\ UNCHANGED inbox

\* Mutant: the payload is changed and not published.
AddTopicSilently(e) ==
  /\ stage[e] = "absent"
  /\ payload' = Listed(payload, e, payload[Kind[e]][Topic[e]] + 1)
  /\ stage' = [stage EXCEPT ![e] = IF Caches(e) THEN "announced" ELSE "live"]
  /\ UNCHANGED <<failures, registered, matched, inbox, discovered, handlerVars,
                 graphGuard, readerVars>>

\* _add_discovery_topic() under discovery_mutex_.  A service or a client is
\* complete once its topic is published; a publisher or a subscription is
\* still to be entered in the node's map.
AddTopic(e) ==
  /\ stage[e] = "absent"
  /\ payload' = Listed(payload, e, payload[Kind[e]][Topic[e]] + 1)
  /\ Publish(payload')
  /\ stage' = [stage EXCEPT ![e] = IF Caches(e) THEN "announced" ELSE "live"]
  /\ UNCHANGED <<registered, matched, discovered, handlerVars, graphGuard,
                 readerVars>>

\* The publish fails: the creation fails with it, but the topic was already
\* pushed to the payload and stays there.
AddTopicFails(e) ==
  /\ stage[e] = "absent"
  /\ payload' = Listed(payload, e, payload[Kind[e]][Topic[e]] + 1)
  /\ Refuse
  /\ UNCHANGED <<stage, registered, matched, discovered, handlerVars,
                 graphGuard, readerVars>>

\* The new publisher or subscription enters publishers_ or subscribers_ with
\* no match.
Register(e) ==
  /\ stage[e] = "announced" /\ Caches(e)
  /\ registered' = registered \cup {e}
  /\ stage' = [stage EXCEPT ![e] = "live"]
  /\ UNCHANGED <<payload, failures, matched, inbox, discovered, handlerVars,
                 graphGuard, readerVars>>

\* Destruction takes the endpoint out of the map first ...
Unregister(e) ==
  /\ stage[e] = "live" /\ Caches(e)
  /\ registered' = registered \ {e}
  /\ matched' = [matched EXCEPT ![e] = {}]
  /\ stage' = [stage EXCEPT ![e] = "unregistered"]
  /\ UNCHANGED <<payload, failures, inbox, discovered, handlerVars, graphGuard,
                 readerVars>>

\* Mutant: every equal entry is erased.
RemoveTopicEverywhere(e) ==
  /\ stage[e] = IF Caches(e) THEN "unregistered" ELSE "live"
  /\ stage' = [stage EXCEPT ![e] = "absent"]
  /\ IF Has(payload, Kind[e], Topic[e])
     THEN /\ payload' = Listed(payload, e, 0)
          /\ Publish(payload') \/ Refuse
     ELSE UNCHANGED <<payload, inbox, failures>>
  /\ UNCHANGED <<registered, matched, discovered, handlerVars, graphGuard,
                 readerVars>>

\* ... and then its topic out of the payload (_remove_discovery_topic()).  A
\* refused publish is ignored, the endpoint is gone all the same.
RemoveTopic(e) ==
  /\ stage[e] = IF Caches(e) THEN "unregistered" ELSE "live"
  /\ stage' = [stage EXCEPT ![e] = "absent"]
  /\ IF Has(payload, Kind[e], Topic[e])
     THEN /\ payload' = Listed(payload, e, payload[Kind[e]][Topic[e]] - 1)
          /\ Publish(payload') \/ Refuse
     ELSE UNCHANGED <<payload, inbox, failures>>
  /\ UNCHANGED <<registered, matched, discovered, handlerVars, graphGuard,
                 readerVars>>

-----------------------------------------------------------------------------
(* The network: the DPS discovery service, external to this code. *)

\* Another node announces itself, changes its announcement, repeats it, or
\* leaves (an empty payload).
RemoteAnnounce(p, info) ==
  /\ p # Self /\ Len(inbox) < MaxInbox
  /\ inbox' = Append(inbox, <<p, info>>)
  /\ UNCHANGED <<localVars, registered, matched, discovered, handlerVars,
                 graphGuard, readerVars>>

Lose ==
  /\ Lossy /\ inbox # <<>>
  /\ inbox' = Tail(inbox)
  /\ UNCHANGED <<localVars, registered, matched, discovered, handlerVars,
                 graphGuard, readerVars>>

-----------------------------------------------------------------------------
(* NodeListener::onDiscovery(), on the DPS loop thread. *)

\* Mutant: the announcement of an unknown node has no default.
UpdateNodesNoDefault ==
  /\ handler = "idle" /\ inbox # <<>>
  /\ LET p    == Head(inbox)[1]
         info == Head(inbox)[2]
         was  == discovered[p]
     IN /\ peer' = p
        /\ old' = was
        /\ new' = IF info = None THEN NoEndpoints ELSE info
        /\ discovered' = [discovered EXCEPT ![p] = info]
        /\ trigger' = (was # info)
  /\ unseen' = (unseen \/ discovered' # discovered)
  /\ inbox' = Tail(inbox)
  /\ handler' = "publishers"
  /\ UNCHANGED <<localVars, registered, matched, graphGuard, reader>>

\* Mutant: only a change of a known node triggers the graph guard condition.
UpdateNodesKnown ==
  /\ handler = "idle" /\ inbox # <<>>
  /\ LET p    == Head(inbox)[1]
         info == Head(inbox)[2]
         was  == discovered[p]
     IN /\ peer' = p
        /\ old' = IF was = None THEN NoEndpoints ELSE was
        /\ new' = IF info = None THEN NoEndpoints ELSE info
        /\ discovered' = [discovered EXCEPT ![p] = info]
        /\ trigger' = (was # None /\ was # info)
  /\ unseen' = (unseen \/ discovered' # discovered)
  /\ inbox' = Tail(inbox)
  /\ handler' = "publishers"
  /\ UNCHANGED <<localVars, registered, matched, graphGuard, reader>>

\* Under mutex_: the map of discovered nodes.  An unknown node counts as a
\* node without endpoints.
UpdateNodes ==
  /\ handler = "idle" /\ inbox # <<>>
  /\ LET p    == Head(inbox)[1]
         info == Head(inbox)[2]
         was  == discovered[p]
     IN /\ peer' = p
        /\ old' = IF was = None THEN NoEndpoints ELSE was
        /\ new' = IF info = None THEN NoEndpoints ELSE info
        /\ discovered' = [discovered EXCEPT ![p] = info]
        /\ trigger' = (was # info)
  /\ unseen' = (unseen \/ discovered' # discovered)
  /\ inbox' = Tail(inbox)
  /\ handler' = "publishers"
  /\ UNCHANGED <<localVars, registered, matched, graphGuard, reader>>

\* Mutant: the announcements are swapped.
DifferenceSwapped(a, b, k) == {t \in Topics : ~Has(a, k, t) /\ Has(b, k, t)}

\* topic_difference(): the topics of kind k that one announcement has and the
\* other has not.
Difference(a, b, k) == {t \in Topics : Has(a, k, t) /\ ~Has(b, k, t)}

\* Mutant: a peer is only ever added.
RematchedAdding(k) ==
  [e \in Endpoints |->
     IF /\ e \in registered /\ Kind[e] = k
        /\ Topic[e] \in Difference(new, old, Opposite(k))
     THEN matched[e] \cup {peer} ELSE matched[e]]

\* The matches of the registered endpoints of kind k, after the peer changed
\* from old to new.
Rematched(k) ==
  LET removed == Difference(old, new, Opposite(k))
      added   == Difference(new, old, Opposite(k))
  IN [e \in Endpoints |->
        IF e \notin registered \/ Kind[e] # k THEN matched[e]
        ELSE IF Topic[e] \in removed THEN matched[e] \ {peer}
        ELSE IF Topic[e] \in added THEN matched[e] \cup {peer}
        ELSE matched[e]]

\* Under publishers_mutex_: the publishers' subscriptions_.
UpdatePublishers ==
  /\ handler = "publishers"
  /\ matched' = Rematched("publisher")
  /\ unseen' = (unseen \/ matched' # matched)
  /\ handler' = "subscribers"
  /\ UNCHANGED <<localVars, registered, inbox, discovered, peer, old, new,
                 trigger, graphGuard, reader>>

\* Under subscribers_mutex_: the subscriptions' publishers_.
UpdateSubscribers ==
  /\ handler = "subscribers"
  /\ matched' = Rematched("subscriber")
  /\ unseen' = (unseen \/ matched' # matched)
  /\ handler' = "notify"
  /\ UNCHANGED <<localVars, registered, inbox, discovered, peer, old, new,
                 trigger, graphGuard, reader>>

\* rmw_trigger_guard_condition(); onDiscovery() returns and its variables
\* are gone.
NotifyGraph ==
  /\ handler = "notify"
  /\ graphGuard' = (graphGuard \/ trigger)
  /\ handler' = "idle"
  /\ peer' = Self /\ old' = NoEndpoints /\ new' = NoEndpoints /\ trigger' = FALSE
  /\ UNCHANGED <<localVars, registered, matched, inbox, discovered, readerVars>>

-----------------------------------------------------------------------------
(* The thread that watches the graph: rmw_wait() on the graph guard          *)
(* condition clears it, then the thread reads the graph.                     *)

GraphChanged ==
  /\ reader = "waiting" /\ graphGuard
  /\ graphGuard' = FALSE
  /\ reader' = "reading"
  /\ UNCHANGED <<localVars, registered, matched, inbox, discovered,
                 handlerVars, unseen>>

ReadGraph ==
  /\ reader = "reading"
  /\ unseen' = FALSE
  /\ reader' = "waiting"
  /\ UNCHANGED <<localVars, registered, matched, inbox, discovered,
                 handlerVars, graphGuard>>

-----------------------------------------------------------------------------
OnDiscovery == UpdateNodes \/ UpdatePublishers \/ UpdateSubscribers \/ NotifyGraph

Next ==
  \/ \E e \in Endpoints : \/ AddTopic(e) \/ AddTopicFails(e) \/ Register(e)
                          \/ Unregister(e) \/ RemoveTopic(e)
  \/ \E p \in Peers, info \in RemoteInfos \cup {None} : RemoteAnnounce(p, info)
  \/ Lose
  \/ OnDiscovery
  \/ GraphChanged \/ ReadGraph

Spec == Init /\ [][Next]_vars

\* The DPS loop thread and the thread that watches the graph keep running.
Fairness == WF_vars(OnDiscovery) /\ WF_vars(GraphChanged \/ ReadGraph)

FairSpec == Spec /\ Fairness

-----------------------------------------------------------------------------
(* Properties. *)

\* No graph change is missed (custom_node_info.hpp:215-222): a thread that
\* waits for the graph guard condition and then reads the graph has, once
\* nothing is in progress, read the nodes and the matches as they are now.
NoMissedGraphChange ==
  handler = "idle" /\ reader = "waiting" /\ ~graphGuard => ~unseen

\* Whether onDiscovery() has yet to bring endpoint e's matches up to date.
Pending(e) ==
  handler = "publishers" \/ (handler = "subscribers" /\ Kind[e] = "subscriber")

\* A match is never stale: a node an endpoint counts is a discovered node
\* that has a matching endpoint now, except the one onDiscovery() is about to
\* remove.
MatchedIsSound ==
  \A e \in registered :
     matched[e] \subseteq Matching(discovered, e) \cup (IF Pending(e) THEN {peer} ELSE {})

\* custom_node_info.hpp:177 and 196, "Update cached subscriber counts" and
\* "Update cached publisher counts": outside onDiscovery(), the count a
\* publisher or a subscription caches is that of the nodes that match it.
MatchedIsComplete ==
  \A e \in registered :
     handler = "idle" => Matching(discovered, e) \subseteq matched[e]

\* Endpoints are announced for as long as they exist: several endpoints of one
\* topic share one string in the payload, and destroying one of them must not
\* take another's entry, whatever failed before.
PayloadCovers ==
  \A k \in Kinds, t \in Topics :
     Cardinality({e \in Endpoints : stage[e] # "absent" /\ Kind[e] = k /\ Topic[e] = t})
        <= payload[k][t]

\* What the node's own application may rely on (rmw_count_publishers() and
\* its like): an endpoint that exists, and stays, shows up in the graph.
EndpointIsDiscovered ==
  \A e \in Endpoints :
     stage[e] = "live" ~>
        \/ stage[e] # "live"
        \/ discovered[Self] # None /\ Has(discovered[Self], Kind[e], Topic[e])

-----------------------------------------------------------------------------
(* The invariant behind them. *)

\* A change the reader has not seen is announced, or will be by the handler;
\* a handler that will not announce anything changes nothing.
ChangeIsAnnounced ==
  /\ handler # "idle" /\ ~trigger => old = new
  /\ unseen => graphGuard \/ reader = "reading" \/ (handler # "idle" /\ trigger)

\* What the matches of an endpoint say of a node: the announcement before the
\* one in the handler, if the handler has yet to update them.
MatchesFollow ==
  /\ handler # "idle" =>
        new = IF discovered[peer] = None THEN NoEndpoints ELSE discovered[peer]
  /\ \A e \in Endpoints \ registered : matched[e] = {}
  /\ \A e \in registered : \A p \in matched[e] :
        IF Pending(e) /\ p = peer
        THEN Has(old, Opposite(Kind[e]), Topic[e])
        ELSE discovered[p] # None /\ Has(discovered[p], Opposite(Kind[e]), Topic[e])

Inv == TypeOK /\ ChangeIsAnnounced /\ MatchesFollow

=============================================================================
