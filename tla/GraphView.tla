------------------------------ MODULE GraphView ------------------------------
(***************************************************************************)
(* What the queries of the graph promise: the answer is that of the graph  *)
(* as this node knows it at one instant of the call, or there is none.     *)
(* Nothing here is copied, no string is taken apart, and nothing is kept   *)
(* in an order.                                                            *)
(***************************************************************************)
EXTENDS Sequences, SequencesExt

CONSTANTS
  Peers, Name,                            \* the nodes
  Endpoints, Owner, Kind, Topic, Types,   \* their publishers, subscriptions, ...
  Queries,                                \* the questions
  Line(_, _),                             \* Line(q, t): how q shows type t
  Size(_),                                \* Size(S): how many are in S
  None                                    \* no node, no question, no answer

VARIABLES
  graph,     \* graph[p]: the endpoints that p has, as far as known, or None
  phase,     \* whether a question is asked, or how it was answered
  question,
  answer     \* what a caller that is told "ok" gets

vars == <<graph, phase, question, answer>>

Known == {p \in Peers : graph[p] # None}
Everywhere == UNION {graph[p] : p \in Known}

\* The endpoints that a question is about: of two nodes of one name, those of
\* either.
Subjects(q) ==
  CASE q.what = "node" ->
         LET named == {p \in Known : Name[p] = q.name}
         IN  IF named = {} THEN {{}} ELSE {{e \in graph[p] : Kind[e] = q.kind} : p \in named}
    [] q.what = "topics" -> {{e \in Everywhere : Kind[e] \in {"subscribers", "publishers"}}}
    [] q.what = "services" -> {{e \in Everywhere : Kind[e] = "services"}}

TypesIn(found, t) == UNION {ToSet(Types[e]) : e \in {f \in found : Topic[f] = t}}

\* How often each line appears when each of these types is shown once.
Tally(q, types) ==
  [l \in {Line(q, t) : t \in types} |-> Size({t \in types : Line(q, t) = l})]

TopicsAnswer(q, found) ==
  [t \in {Topic[e] : e \in found} |-> Tally(q, TypesIn(found, t))]

\* How many nodes there are of each name.
NodesAnswer == [n \in {Name[p] : p \in Known} |-> Size({p \in Known : Name[p] = n})]

Answers(q) ==
  IF q.what = "nodes" THEN {NodesAnswer} ELSE {TopicsAnswer(q, found) : found \in Subjects(q)}

-----------------------------------------------------------------------------
Init ==
  /\ graph = [p \in Peers |-> None]
  /\ phase = "idle" /\ question = None /\ answer = None

\* A node is heard of, changes, or goes.
Learn(p) ==
  /\ \E nodes \in {None} \cup SUBSET {e \in Endpoints : Owner[e] = p} :
       graph' = [graph EXCEPT ![p] = nodes]
  /\ UNCHANGED <<phase, question, answer>>

Ask(q) ==
  /\ phase = "idle" /\ phase' = "asked" /\ question' = q
  /\ answer' \in Answers(q)
  /\ UNCHANGED graph

Return ==
  /\ phase = "asked" /\ phase' = "ok"
  /\ UNCHANGED <<graph, question, answer>>

Fail ==
  /\ phase = "asked" /\ phase' = "failed" /\ answer' = None
  /\ UNCHANGED <<graph, question>>

Free ==
  /\ phase \in {"ok", "failed"}
  /\ phase' = "idle" /\ question' = None /\ answer' = None
  /\ UNCHANGED graph

Next ==
  \/ \E p \in Peers : Learn(p)
  \/ \E q \in Queries : Ask(q)
  \/ Return \/ Fail \/ Free

Spec == Init /\ [][Next]_vars

=============================================================================
