----------------------------- MODULE GraphQueries -----------------------------
(***************************************************************************)
(* What a node reads of the graph: what a node announces of itself, what   *)
(* NodeListener makes of the announcements, and the queries, which count   *)
(* or list what is in discovered_nodes_.                                   *)
(*                                                                         *)
(* A query takes what it needs under the listener's mutex, then copies it, *)
(* one allocation after the other, each of which may fail, into arrays of  *)
(* the caller, while nodes change and go.  In what order and when          *)
(* announcements arrive is the subject of Discovery; here the latest one   *)
(* of a node is handled at some time, or never.                            *)
(*                                                                         *)
(* A string is a record or a tuple of the parts that the code puts         *)
(* together and takes apart; the parts themselves are not.  The order of   *)
(* std::map and std::set is left open, but of the nodes; a vector of       *)
(* endpoints, of which no query shows the order, is the set of its         *)
(* elements, each with its place in the announcement.                      *)
(***************************************************************************)
EXTENDS Naturals, Sequences, FiniteSets, SequencesExt

CONSTANTS
  Peers,      \* the nodes of the network, numbered in the order of UUIDs
  Name,       \* Name[p]: the name and the namespace of node p
  Domain,     \* Domain[p]: the domain id of node p
  Endpoints,  \* the publishers, subscriptions, services and clients
  Owner,      \* Owner[e]: the node that e is created in
  Kind,       \* Kind[e]: one of Kinds
  Topic,      \* Topic[e]: the topic or service name of e
  Types,      \* Types[e]: the type of e, or those of request and response
  None        \* no node

Kinds == {"subscribers", "publishers", "services", "clients"}
Services == {"services", "clients"}

\* _create_type_name()
TypeNames == [ns : STRING, mark : {"dps_::"}, base : STRING,
              suffix : {"_", "_Request_", "_Response_"}]

\* Node and Topic: an endpoint of a node is of one of its four vectors.
TopicInfos == [at : Nat, topic : STRING, types : Seq(TypeNames)]
NodeInfos ==
  [name : STRING, namespace : STRING,
   subscribers : SUBSET TopicInfos, publishers : SUBSET TopicInfos,
   services : SUBSET TopicInfos, clients : SUBSET TopicInfos]

ASSUME GraphAssumption ==
  /\ Peers \subseteq Nat /\ IsFiniteSet(Peers) /\ IsFiniteSet(Endpoints)
  /\ \A p \in Peers : Name[p] \in [name : STRING, namespace : STRING]
  /\ Domain \in [Peers -> Nat]
  /\ Owner \in [Endpoints -> Peers] /\ Kind \in [Endpoints -> Kinds]
  /\ Topic \in [Endpoints -> STRING]
  /\ \A e \in Endpoints : Types[e] \in Seq(TypeNames)
  /\ None \notin NodeInfos /\ \A E \in SUBSET Endpoints : None # E

VARIABLES
  live,        \* the endpoints that exist
  payload,     \* payload[p]: discovery_payload_ of node p
  discovered,  \* discovered_nodes_ of this node, or None
  seen,        \* seen[p]: the endpoints p had when it announced what
               \*   discovered[p] says (a history variable)
  status,      \* whether a query runs, or how it returned
  asked,       \* the query
  todo,        \* what is to be copied: types by topic, or nodes
  pending,     \* the types to be copied of the topic in hand
  names,       \* the caller's array of names
  lists,       \* beside each name: its types, or the node's namespace
  then         \* seen, when the query read the nodes (a history variable)

graphVars == <<live, payload, discovered, seen>>
queryVars == <<status, asked, todo, pending, names, lists, then>>
vars == <<graphVars, queryVars>>

-----------------------------------------------------------------------------
(* Announcements. *)

Prefix ==
  [subscribers |-> "subscriber&topic=", publishers |-> "publisher&topic=",
   services |-> "service&topic=", clients |-> "client&topic="]

\* The strings of an announcement.
Strings ==
  [prefix : {Prefix[kind] : kind \in Kinds} \cup {"name=", "namespace="},
   text : STRING, types : Seq(TypeNames)]

Text(prefix, text, types) == [prefix |-> prefix, text |-> text, types |-> types]

DiscoveryName(e) == Text(Prefix[Kind[e]], Topic[e], Types[e])

\* create_node(): what a node announces of itself before it has endpoints.
Greeting(p) ==
  <<Text("namespace=", Name[p].namespace, <<>>), Text("name=", Name[p].name, <<>>)>>

\* The strings of a prefix, by their places.
WithPrefix(s, prefix) == {i \in DOMAIN s : s[i].prefix = prefix}

\* process_topic_info() of each string.
Topics(s, prefix) ==
  {[at |-> i, topic |-> s[i].text, types |-> s[i].types] : i \in WithPrefix(s, prefix)}

\* The last one counts.
Named(s, prefix) ==
  LET found == WithPrefix(s, prefix)
  IN  IF found = {} THEN "" ELSE s[Max(found)].text

\* onDiscovery(): the Node that a payload describes.
NodeOf(s) ==
  [name |-> Named(s, "name="), namespace |-> Named(s, "namespace="),
   subscribers |-> Topics(s, Prefix.subscribers),
   publishers  |-> Topics(s, Prefix.publishers),
   services    |-> Topics(s, Prefix.services),
   clients     |-> Topics(s, Prefix.clients)]

-----------------------------------------------------------------------------
(* Queries, as functions of the discovered nodes. *)

Known == {p \in Peers : discovered[p] # None}

\* count_subscribers(), count_publishers(), count_services()
CountOf(kind, topic) ==
  Cardinality(UNION {{p} \X {x \in discovered[p][kind] : x.topic = topic} : p \in Known})

\* _get_dps_topic_name(): the domain id, then the name, which begins with "/".
DpsTopic(e) == <<Domain[Owner[e]], Topic[e]>>

\* rmw_service_server_is_available() takes the name out of the DPS topic of
\* a client (here any endpoint of its domain and topic).
ServerIsAvailable(c) == CountOf("services", DpsTopic(c)[2]) > 0

\* find_if in discovered_nodes_: the first node of that name.
Nodes(n) == {p \in Known : discovered[p].name = n.name /\ discovered[p].namespace = n.namespace}
FirstNode(n) == Min(Nodes(n))

\* Mutant: of two endpoints of one topic the types of one are kept.
NamesAndTypesLast(topics) ==
  [t \in {x.topic : x \in topics} |->
     ToSet((CHOOSE x \in topics : x.topic = t).types)]

\* names_and_types: every type of every topic.
NamesAndTypes(topics) ==
  [t \in {x.topic : x \in topics} |->
     UNION {ToSet(x.types) : x \in {y \in topics : y.topic = t}}]

\* The queries: of one kind of endpoint in the node of a name, of all topics,
\* of all services, of the nodes.  "raw" is no_demangle.
Queries ==
  [what : {"node"}, kind : Kinds \ Services, name : {Name[p] : p \in Peers}, raw : BOOLEAN]
    \cup [what : {"node"}, kind : Services, name : {Name[p] : p \in Peers}, raw : {FALSE}]
    \cup [what : {"topics"}, raw : BOOLEAN]
    \cup [what : {"services", "nodes"}, raw : {FALSE}]

TopicsOf(q) ==
  CASE q.what = "node" ->
         IF Nodes(q.name) = {} THEN {} ELSE discovered[FirstNode(q.name)][q.kind]
    [] q.what = "topics" ->
         UNION {discovered[p].subscribers \cup discovered[p].publishers : p \in Known}
    [] q.what = "services" -> UNION {discovered[p].services : p \in Known}

AboutServices(q) == q.what = "services" \/ (q.what = "node" /\ q.kind \in Services)

\* _demangle_if_ros_type(): the namespace, then the name without the last "_".
DemangleIfRosType(t) ==
  <<t.ns, t.base, CASE t.suffix = "_"          -> ""
                    [] t.suffix = "_Request_"  -> "_Request"
                    [] t.suffix = "_Response_" -> "_Response">>

\* _demangle_service_type_only(): the type of the service; nothing if the
\* type is not that of a request or response.
DemangleServiceTypeOnly(t) ==
  IF t.suffix \in {"_Request_", "_Response_"} THEN <<t.ns, t.base, "">> ELSE <<>>

DemangleType(q, t) ==
  CASE AboutServices(q) -> DemangleServiceTypeOnly(t)
    [] q.raw            -> t
    [] OTHER            -> DemangleIfRosType(t)

-----------------------------------------------------------------------------
\* The lines beside a name: a namespace, type names, or demangled ones.
Lines(q) ==
  CASE q.what = "nodes" -> STRING
    [] q.raw            -> TypeNames
    [] OTHER            -> {<<>>} \cup (STRING \X STRING \X {"", "_Request", "_Response"})

GraphTypeOK ==
  /\ live \subseteq Endpoints
  /\ payload \in [Peers -> Seq(Strings)]
  /\ discovered \in [Peers -> {None} \cup NodeInfos]
  /\ seen \in [Peers -> {None} \cup SUBSET Endpoints]

QueryTypeOK ==
  /\ then \in [Peers -> {None} \cup SUBSET Endpoints]
  /\ status \in {"idle", "copying", "ok", "failed"}
  /\ status # "idle" => asked \in Queries /\ lists \in Seq(Seq(Lines(asked)))
  /\ pending \subseteq TypeNames
  /\ names \in Seq(STRING) /\ Len(names) = Len(lists)

TypeOK == GraphTypeOK /\ QueryTypeOK

Init ==
  /\ live = {}
  /\ payload = [p \in Peers |-> Greeting(p)]
  /\ discovered = [p \in Peers |-> None]
  /\ seen = [p \in Peers |-> None]
  /\ status = "idle" /\ asked = None /\ todo = <<>> /\ pending = {}
  /\ names = <<>> /\ lists = <<>>
  /\ then = seen

-----------------------------------------------------------------------------
(* The graph. *)

EndpointsOfNode(p) == {e \in live : Owner[e] = p}

\* _add_discovery_topic(), when DPS accepts the announcement.
Create(e) ==
  /\ e \notin live
  /\ live' = live \cup {e}
  /\ payload' = [payload EXCEPT ![Owner[e]] = Append(@, DiscoveryName(e))]
  /\ UNCHANGED <<discovered, seen, queryVars>>

\* Mutant: std::remove in place of std::find_if and erase.
DestroyEqual(e) ==
  /\ e \in live
  /\ live' = live \ {e}
  /\ payload' = [payload EXCEPT ![Owner[e]] = Remove(@, DiscoveryName(e))]
  /\ UNCHANGED <<discovered, seen, queryVars>>

\* _remove_discovery_topic(): the first string that is equal.
Destroy(e) ==
  /\ e \in live
  /\ live' = live \ {e}
  /\ payload' = [payload EXCEPT ![Owner[e]] = RemoveFirst(@, DiscoveryName(e))]
  /\ UNCHANGED <<discovered, seen, queryVars>>

\* onDiscovery() of an announcement.
OnDiscovery(p) ==
  /\ discovered' = [discovered EXCEPT ![p] = NodeOf(payload[p])]
  /\ seen' = [seen EXCEPT ![p] = EndpointsOfNode(p)]
  /\ UNCHANGED <<live, payload, queryVars>>

\* onDiscovery() without a payload: the node is gone.
OnLeave(p) ==
  /\ discovered' = [discovered EXCEPT ![p] = None]
  /\ seen' = [seen EXCEPT ![p] = None]
  /\ UNCHANGED <<live, payload, queryVars>>

-----------------------------------------------------------------------------
(* A query, by a thread of the application, into arrays that are empty. *)

\* The part under the mutex.
ReadGraph(q) ==
  /\ status = "idle"
  /\ status' = "copying" /\ asked' = q /\ then' = seen
  /\ todo' = IF q.what = "nodes" THEN Restrict(discovered, Known)
             ELSE NamesAndTypes(TopicsOf(q))
  /\ UNCHANGED <<graphVars, pending, names, lists>>

\* Mutant: the types of a topic are looked up when they are copied.
CopyTopicLate ==
  /\ status = "copying" /\ asked.what # "nodes" /\ pending = {}
  /\ \E t \in DOMAIN todo :
       /\ names' = Append(names, t) /\ lists' = Append(lists, <<>>)
       /\ pending' = LET now == NamesAndTypes(TopicsOf(asked))
                     IN  IF t \in DOMAIN now THEN now[t] ELSE {}
       /\ todo' = Restrict(todo, DOMAIN todo \ {t})
  /\ UNCHANGED <<graphVars, status, asked, then>>

\* _copy_data_to_results(): the name of a topic, and room for its types.
CopyTopic ==
  /\ status = "copying" /\ asked.what # "nodes" /\ pending = {}
  /\ \E t \in DOMAIN todo :
       /\ names' = Append(names, t) /\ lists' = Append(lists, <<>>)
       /\ pending' = todo[t]
       /\ todo' = Restrict(todo, DOMAIN todo \ {t})
  /\ UNCHANGED <<graphVars, status, asked, then>>

CopyType ==
  /\ status = "copying"
  /\ \E t \in pending :
       /\ lists' = [lists EXCEPT ![Len(lists)] = Append(@, DemangleType(asked, t))]
       /\ pending' = pending \ {t}
  /\ UNCHANGED <<graphVars, status, asked, todo, names, then>>

\* Mutant: a node whose name is listed already is passed over.
CopyNodeOnce ==
  /\ status = "copying" /\ asked.what = "nodes"
  /\ \E p \in DOMAIN todo :
       /\ names' = IF todo[p].name \in ToSet(names) THEN names
                    ELSE Append(names, todo[p].name)
       /\ lists' = IF todo[p].name \in ToSet(names) THEN lists
                    ELSE Append(lists, <<todo[p].namespace>>)
       /\ todo' = Restrict(todo, DOMAIN todo \ {p})
  /\ UNCHANGED <<graphVars, status, asked, pending, then>>

\* rmw_get_node_names(): the name and the namespace of a node.
CopyNode ==
  /\ status = "copying" /\ asked.what = "nodes"
  /\ \E p \in DOMAIN todo :
       /\ names' = Append(names, todo[p].name)
       /\ lists' = Append(lists, <<todo[p].namespace>>)
       /\ todo' = Restrict(todo, DOMAIN todo \ {p})
  /\ UNCHANGED <<graphVars, status, asked, pending, then>>

ReturnOk ==
  /\ status = "copying" /\ DOMAIN todo = {} /\ pending = {}
  /\ status' = "ok"
  /\ UNCHANGED <<graphVars, asked, todo, pending, names, lists, then>>

\* Mutant: of two arrays one is freed.
OutOfMemoryHalf ==
  /\ status = "copying" /\ (DOMAIN todo # {} \/ pending # {})
  /\ status' = "failed"
  /\ names' = <<>> /\ todo' = <<>> /\ pending' = {}
  /\ UNCHANGED <<graphVars, asked, then, lists>>

\* An allocation fails: what was copied is freed.
OutOfMemory ==
  /\ status = "copying" /\ (DOMAIN todo # {} \/ pending # {})
  /\ status' = "failed"
  /\ names' = <<>> /\ lists' = <<>> /\ todo' = <<>> /\ pending' = {}
  /\ UNCHANGED <<graphVars, asked, then>>

\* The caller frees what it got.
Finish ==
  /\ status \in {"ok", "failed"}
  /\ status' = "idle" /\ asked' = None /\ then' = [p \in Peers |-> None]
  /\ names' = <<>> /\ lists' = <<>> /\ todo' = <<>>
  /\ UNCHANGED <<graphVars, pending>>

-----------------------------------------------------------------------------
Next ==
  \/ \E e \in Endpoints : Create(e) \/ Destroy(e)
  \/ \E p \in Peers : OnDiscovery(p) \/ OnLeave(p)
  \/ \E q \in Queries : ReadGraph(q)
  \/ CopyTopic \/ CopyType \/ CopyNode
  \/ ReturnOk \/ OutOfMemory \/ Finish

Spec == Init /\ [][Next]_vars

-----------------------------------------------------------------------------
(* Properties. *)

\* The endpoints that a history variable has, of the nodes it knows.
EndpointsOf(nodes) == UNION {nodes[p] : p \in {q \in Peers : nodes[q] # None}}

\* rmw_count_publishers() and rmw_count_subscribers(), and the count behind
\* rmw_service_server_is_available(), count each endpoint of each node once,
\* as the node last announced it, though equal endpoints put equal strings in
\* the payload and any of them may be destroyed.
CountsAreTrue ==
  /\ \A kind \in Kinds, t \in {Topic[e] : e \in Endpoints} :
       CountOf(kind, t) =
         Cardinality({e \in EndpointsOf(seen) : Kind[e] = kind /\ Topic[e] = t})
  /\ \A c \in Endpoints :
       ServerIsAvailable(c)
         <=> \E e \in EndpointsOf(seen) : Kind[e] = "services" /\ Topic[e] = Topic[c]

\* What a query is about, at the time it read the nodes: if two nodes have
\* the name, it is about one of them.
About(q, found) ==
  CASE q.what = "node" ->
         \/ \E p \in Peers : /\ then[p] # None /\ Name[p] = q.name
                             /\ found = {e \in then[p] : Kind[e] = q.kind}
         \/ /\ \A p \in Peers : then[p] # None => Name[p] # q.name
            /\ found = {}
    [] q.what = "topics" ->
         found = {e \in EndpointsOf(then) : Kind[e] \notin Services}
    [] q.what = "services" ->
         found = {e \in EndpointsOf(then) : Kind[e] = "services"}

\* The types of a topic.
TypesIn(found, t) == UNION {ToSet(Types[e]) : e \in {f \in found : Topic[f] = t}}

\* A query that returns RMW_RET_OK lists the graph as it was at one instant:
\* every topic once with every type, whatever changed while it copied, and
\* nothing else.
ListingIsTrue ==
  status = "ok" /\ asked.what # "nodes" =>
    \E found \in SUBSET Endpoints :
       /\ About(asked, found)
       /\ IsInjective(names) /\ ToSet(names) = {Topic[e] : e \in found}
       /\ \A i \in DOMAIN names :
            /\ Len(lists[i]) = Cardinality(TypesIn(found, names[i]))
            /\ ToSet(lists[i]) = {DemangleType(asked, t) : t \in TypesIn(found, names[i])}

\* rmw_get_node_names() lists every node once, and beside each name the
\* namespace of that node.
NodeNamesAreTrue ==
  status = "ok" /\ asked.what = "nodes" =>
    \A n \in {Name[p] : p \in Peers} :
       Cardinality({i \in DOMAIN names : names[i] = n.name /\ lists[i] = <<n.namespace>>})
         = Cardinality({p \in Peers : then[p] # None /\ Name[p] = n})

\* The invariant behind these, in parts.  A payload announces endpoints: after
\* the greeting it has one string for each, and nothing else; endpoints that
\* are equal may have each other's place.
Announces(s, own) ==
  \E place \in Bijection(own, 3..Len(s)) : \A e \in own : s[place[e]] = DiscoveryName(e)

\* A node announces who it is and the endpoints it has.
PayloadIsTrue ==
  \A p \in Peers :
    /\ Len(payload[p]) >= 2 /\ \A i \in {1, 2} : payload[p][i] = Greeting(p)[i]
    /\ Announces(payload[p], EndpointsOfNode(p))

\* What is listed of some endpoints, each at its place.
ListedAt(place, kind) ==
  {[at |-> place[e], topic |-> Topic[e], types |-> Types[e]] :
     e \in {f \in DOMAIN place : Kind[f] = kind}}

PlacesOf(node) == {x.at : x \in UNION {node[kind] : kind \in Kinds}}

\* A node that is known has its own name, and one entry for each endpoint it
\* had when it announced what is known of it.
DiscoveredIsTrue ==
  \A p \in Peers :
    \/ discovered[p] = None /\ seen[p] = None
    \/ /\ seen[p] \subseteq {e \in Endpoints : Owner[e] = p}
       /\ discovered[p] # None
       /\ discovered[p].name = Name[p].name
       /\ discovered[p].namespace = Name[p].namespace
       /\ \E place \in Injection(seen[p], PlacesOf(discovered[p])) :
            \A kind \in Kinds : discovered[p][kind] = ListedAt(place, kind)

\* What a query has yet to copy of the topic of one of its names.
Left(i) == IF i = Len(names) THEN pending ELSE {}

\* Beside a name are those of its types that are not left.
TypesInHand(found, i) ==
  LET types == TypesIn(found, names[i])
  IN  /\ Left(i) \subseteq types
      /\ Len(lists[i]) = Cardinality(types \ Left(i))
      /\ ToSet(lists[i]) = {DemangleType(asked, t) : t \in types \ Left(i)}

\* Of the topics that a query is about, each is either in the array, with its
\* types, or still to be copied.
Divided(found) ==
  /\ IsInjective(names) /\ ToSet(names) \cap DOMAIN todo = {}
  /\ ToSet(names) \cup DOMAIN todo = {Topic[e] : e \in found}
  /\ \A t \in DOMAIN todo : todo[t] = TypesIn(found, t)
  /\ pending # {} => names # <<>>

TopicsInHand ==
  status \in {"copying", "ok"} /\ asked.what # "nodes" =>
    \E found \in SUBSET Endpoints :
       About(asked, found) /\ Divided(found) /\ \A i \in DOMAIN names : TypesInHand(found, i)

\* Of the nodes that a query read, each is either in the arrays or still to
\* be copied.
NodesInHand ==
  status \in {"copying", "ok"} /\ asked.what = "nodes" =>
    /\ pending = {}
    /\ DOMAIN todo \subseteq {p \in Peers : then[p] # None}
    /\ \A p \in DOMAIN todo :
         todo[p].name = Name[p].name /\ todo[p].namespace = Name[p].namespace
    /\ \E place \in Bijection({p \in Peers : then[p] # None} \ DOMAIN todo, DOMAIN names) :
         \A p \in DOMAIN place : /\ names[place[p]] = Name[p].name
                                /\ lists[place[p]] = <<Name[p].namespace>>

\* Only a query that copies has something to copy, and a query that failed
\* leaves nothing behind in the caller's arrays.
NothingInHand ==
  /\ status # "copying" => pending = {} /\ DOMAIN todo = {}
  /\ status \in {"idle", "failed"} => names = <<>> /\ lists = <<>>

\* What nodes announce, what this node knows of them, and what a query has
\* copied and has yet to copy, agree with the endpoints there are, or were.
Inv ==
  /\ TypeOK
  /\ PayloadIsTrue /\ DiscoveredIsTrue
  /\ TopicsInHand /\ NodesInHand /\ NothingInHand

-----------------------------------------------------------------------------
(* The queries implement GraphView. *)

\* How often each line appears beside a name once those of the types that are
\* left have been copied, too.
Shown(q, copied, types) ==
  [l \in ToSet(copied) \cup {DemangleType(q, t) : t \in types} |->
     Cardinality({i \in DOMAIN copied : copied[i] = l})
       + Cardinality({t \in types : DemangleType(q, t) = l})]

IndexOf(t) == CHOOSE i \in DOMAIN names : names[i] = t

TopicShown(t) ==
  IF t \in DOMAIN todo THEN Shown(asked, <<>>, todo[t])
  ELSE Shown(asked, lists[IndexOf(t)], Left(IndexOf(t)))

TopicsShown == [t \in ToSet(names) \cup DOMAIN todo |-> TopicShown(t)]

\* Where the nodes of a name are in the arrays, and those that are left.
CopiedAs(n) == {i \in DOMAIN names : names[i] = n.name /\ lists[i] = <<n.namespace>>}
LeftAs(n) == {p \in DOMAIN todo : todo[p].name = n.name /\ todo[p].namespace = n.namespace}

NodesShown ==
  [n \in {m \in {Name[p] : p \in Peers} : CopiedAs(m) \cup LeftAs(m) # {}} |->
     Cardinality(CopiedAs(n)) + Cardinality(LeftAs(n))]

\* What a query will return.
Answer ==
  CASE status \notin {"copying", "ok"} -> None
    [] status \in {"copying", "ok"} /\ asked.what = "nodes" -> NodesShown
    [] OTHER -> TopicsShown

View == INSTANCE GraphView WITH
  Line <- DemangleType, Size <- Cardinality,
  graph <- seen,
  phase <- IF status = "copying" THEN "asked" ELSE status,
  question <- asked,
  answer <- Answer

\* Queries implement GraphView: an answer that is put together from one
\* allocation to the next, while nodes change and go, is the answer of one
\* instant, with every topic, type and node in it as often as it is there.
ImplementsView == View!Spec

-----------------------------------------------------------------------------
\* What the test of rmw_get_service_names_and_types() asserts: it lists the
\* types of the request and of the response by their DPS names.
ServiceTypesAreListed ==
  status = "ok" /\ asked.what = "services" =>
    \A i \in DOMAIN names :
       ToSet(lists[i]) = TypesIn({e \in EndpointsOf(then) : Kind[e] = "services"}, names[i])

=============================================================================
