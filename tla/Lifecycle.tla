------------------------------ MODULE Lifecycle ------------------------------
(***************************************************************************)
(* The creation and destruction of a node and of its publishers,           *)
(* subscriptions, services and clients, with every error path, beside the  *)
(* DPS loop thread that calls their listeners and walks the node's maps of *)
(* publishers and subscriptions.  The question is who frees which object,  *)
(* when, and who may still use it.                                         *)
(*                                                                         *)
(* Each rmw_create_* and rmw_destroy_* is a program: the sequence of the   *)
(* things it obtains, hands over and gives back.  One step of a program is *)
(* one step here, so that callbacks come between any two.  What the calls  *)
(* do to the discovery payload is the subject of Discovery.                *)
(*                                                                         *)
(* A caller destroys what it created, once, when it no longer uses it, and *)
(* a node after everything in it.                                          *)
(***************************************************************************)
EXTENDS Naturals, Sequences, FiniteSets

CONSTANTS
  Node,                                        \* the node
  Publishers, Subscriptions, Services, Clients,  \* what is created in it
  MaxEndpoints,                                \* bound: endpoints created
  MaxCalls                                     \* bound: calls DPS makes

Endpoints == Publishers \cup Subscriptions \cup Services \cup Clients
Entities  == Endpoints \cup {Node}

\* The endpoints whose DPS object calls a Listener.
Listening == Subscriptions \cup Services \cup Clients

ASSUME LifecycleAssumption ==
  /\ Node \notin Endpoints
  /\ Publishers \cap Listening = {}
  /\ Subscriptions \cap (Services \cup Clients) = {}
  /\ Services \cap Clients = {}
  /\ MaxEndpoints \in Nat /\ MaxCalls \in Nat

VARIABLES
  stage,    \* stage[e]: which of its calls is running, or what came of it
  at,       \* at[e]: the next step of that call
  done,     \* done[e]: the steps of the creation that succeeded
  freed,    \* freed[e][o]: how often object o of e was freed
  doomed,   \* DPS objects that DPS was asked to destroy and has not yet
  loop,     \* what the DPS loop thread is calling: <<what, of whom>>
  calls     \* calls begun so far (bounded by MaxCalls)

vars == <<stage, at, done, freed, doomed, loop, calls>>

-----------------------------------------------------------------------------
(* The programs. *)

Kind(e) ==
  CASE e \in Publishers    -> "publisher"
    [] e \in Subscriptions -> "subscription"
    [] e \in Services      -> "service"
    [] e \in Clients       -> "client"
    [] OTHER               -> "node"

\* What there is to free: the custom info, its type supports, the DPS object,
\* the listener, the rmw handle with its name; of a node also the discovery
\* service and the graph guard condition.
Objects == {"info", "types", "dps", "listener", "handle", "svc", "guard"}

\* The other steps: the listener is handed to the DPS object ("data"), calls
\* may come ("start"), the topic is announced, the map has the endpoint.
Links == {"data", "start", "announce", "register"}

\* rmw_create_publisher() and so on: what each obtains or does, in order.
CreatePublisher == <<"info", "types", "dps", "start", "handle", "announce", "register">>
CreateSubscription ==
  <<"info", "types", "dps", "listener", "data", "start", "handle", "announce", "register">>
CreateService == <<"info", "types", "listener", "dps", "data", "start", "handle", "announce">>
CreateClient == <<"info", "types", "dps", "listener", "data", "start", "handle", "announce">>
CreateNode ==
  <<"handle", "info", "guard", "listener", "dps", "start", "svc", "data", "announce">>

CreateSteps ==
  [publisher |-> CreatePublisher, subscription |-> CreateSubscription,
   service |-> CreateService, client |-> CreateClient, node |-> CreateNode]

\* The steps with an error path.  (Operator new throws; only create_node
\* catches it, for its info.  It also checks its guard condition, which is never
\* null: only a context that rmw_create_node has checked would make it so.)
MayFail(e, step) ==
  \/ step \in {"dps", "data", "start", "svc", "handle", "announce"}
  \/ e = Node /\ step = "info"

\* Steps of a release: delete an object; ask DPS to destroy one; wait for DPS
\* to have done so; take the endpoint out of the node's map.
Delete(o) == <<"delete", o>>
Destroy(o) == <<"destroy", o>>
Await(o) == <<"await", o>>
Leave == <<"leave", "register">>

\* Mutant: DPS is asked to destroy the node's listener too.
NodeReleaseConfused ==
  <<Destroy("svc"), Await("svc"), Destroy("dps"), Destroy("listener"), Await("dps"),
    Delete("guard"), Delete("info"), Delete("handle")>>

\* Mutant: the node waits for its discovery service after it has freed what
\* the service's handler uses.
NodeReleaseLate ==
  <<Destroy("svc"), Delete("listener"), Delete("guard"), Await("svc"),
    Destroy("dps"), Await("dps"), Delete("info"), Delete("handle")>>

\* destroy_node()
NodeRelease ==
  <<Destroy("svc"), Await("svc"), Destroy("dps"), Await("dps"),
    Delete("listener"), Delete("guard"), Delete("info"), Delete("handle")>>

\* The code under the label fail of each creation.
FailPublisher == <<Delete("types"), Destroy("dps"), Delete("info"), Delete("handle")>>
FailSubscription == <<Destroy("dps"), Delete("types"), Delete("info"), Delete("handle")>>
FailService == <<Destroy("dps"), Delete("types"), Delete("info"), Delete("handle")>>
FailClient == <<Delete("types"), Destroy("dps"), Delete("info"), Delete("handle")>>

\* Mutant: the error path of a subscription also deletes its listener.
FailStepsTwice ==
  [publisher |-> FailPublisher,
   subscription |-> <<Destroy("dps"), Delete("listener"), Delete("types"),
                      Delete("info"), Delete("handle")>>,
   service |-> FailService, client |-> FailClient, node |-> NodeRelease]

FailSteps ==
  [publisher |-> FailPublisher, subscription |-> FailSubscription,
   service |-> FailService, client |-> FailClient, node |-> NodeRelease]

\* rmw_destroy_publisher() and so on.
DestroyPublisher ==
  <<Leave, Destroy("dps"), Delete("types"), Delete("info"), Delete("handle")>>
DestroySubscription ==
  <<Leave, Destroy("dps"), Delete("types"), Delete("info"), Delete("handle")>>
DestroyService == <<Destroy("dps"), Delete("types"), Delete("info"), Delete("handle")>>
DestroyClient == <<Delete("types"), Destroy("dps"), Delete("info"), Delete("handle")>>

\* Mutant: the info is deleted while it is in the node's map.
DestroyStepsLeaveLast ==
  [publisher |-> Tail(DestroyPublisher) \o <<Leave>>,
   subscription |-> Tail(DestroySubscription) \o <<Leave>>,
   service |-> DestroyService, client |-> DestroyClient, node |-> NodeRelease]

DestroySteps ==
  [publisher |-> DestroyPublisher, subscription |-> DestroySubscription,
   service |-> DestroyService, client |-> DestroyClient, node |-> NodeRelease]

Program(e) ==
  CASE stage[e] = "creating"   -> CreateSteps[Kind(e)]
    [] stage[e] = "failing"    -> FailSteps[Kind(e)]
    [] stage[e] = "destroying" -> DestroySteps[Kind(e)]
    [] OTHER                   -> <<>>

Running(e) == at[e] \in 1..Len(Program(e))
NextStep(e) == Program(e)[at[e]]

Alive(e, o) == o \in done[e] /\ freed[e][o] = 0

Idle == <<"idle", Node>>

TypeOK ==
  /\ stage \in [Entities -> {"new", "creating", "created", "failing",
                             "destroying", "gone", "leaked"}]
  /\ at \in [Entities -> 1..10]
  /\ done \in [Entities -> SUBSET (Objects \cup Links)]
  /\ freed \in [Entities -> [Objects -> Nat]]
  /\ doomed \subseteq Entities \X {"dps", "svc"}
  /\ loop \in ({"idle", "publishers", "subscribers", "graph"} \X {Node})
                 \cup ({"listener"} \X Listening)
  /\ calls \in 0..MaxCalls

Init ==
  /\ stage = [e \in Entities |-> "new"]
  /\ at = [e \in Entities |-> 1]
  /\ done = [e \in Entities |-> {}]
  /\ freed = [e \in Entities |-> [o \in Objects |-> 0]]
  /\ doomed = {}
  /\ loop = Idle
  /\ calls = 0

-----------------------------------------------------------------------------
(* Application threads. *)

Enter(e, s) == stage' = [stage EXCEPT ![e] = s] /\ at' = [at EXCEPT ![e] = 1]
Advance(e) == at' = [at EXCEPT ![e] = @ + 1] /\ UNCHANGED stage

\* rmw_create_*
Create(e) ==
  /\ stage[e] = "new"
  /\ e \in Endpoints =>
        /\ stage[Node] = "created"
        /\ Cardinality({f \in Endpoints : stage[f] # "new"}) < MaxEndpoints
  /\ Enter(e, "creating")
  /\ UNCHANGED <<done, freed, doomed, loop, calls>>

\* onDiscovery holds publishers_mutex_, then subscribers_mutex_.
MapIsFree(e) ==
  /\ e \in Publishers => loop[1] # "publishers"
  /\ e \in Subscriptions => loop[1] # "subscribers"

Obtain(e) ==
  /\ stage[e] = "creating" /\ Running(e)
  /\ NextStep(e) = "register" => MapIsFree(e)
  /\ done' = [done EXCEPT ![e] = @ \cup {NextStep(e)}]
  /\ Advance(e)
  /\ UNCHANGED <<freed, doomed, loop, calls>>

\* A step that fails did nothing, but when a node announces itself
\* DPS_DiscoveryPublish() may have kept the handler it was given, and call it.
FailedStep(e) ==
  /\ stage[e] = "creating" /\ Running(e) /\ MayFail(e, NextStep(e))
  /\ \/ UNCHANGED done
     \/ /\ e = Node /\ NextStep(e) = "announce"
        /\ done' = [done EXCEPT ![e] = @ \cup {"announce"}]

\* goto fail
Fail(e) ==
  /\ FailedStep(e)
  /\ Enter(e, "failing")
  /\ UNCHANGED <<freed, doomed, loop, calls>>

\* create_node fails, and destroy_node has no event to wait with: it returns
\* and frees nothing.  (rmw_destroy_node changes nothing in that case.)
Leak ==
  /\ FailedStep(Node)
  /\ "info" \in done[Node]
  /\ Enter(Node, "leaked")
  /\ UNCHANGED <<freed, doomed, loop, calls>>

\* rmw_destroy_*
Release(e) ==
  /\ stage[e] = "created"
  /\ e = Node => \A f \in Endpoints : stage[f] \in {"new", "gone"}
  /\ Enter(e, "destroying")
  /\ UNCHANGED <<done, freed, doomed, loop, calls>>

Releasing(e) == stage[e] \in {"failing", "destroying"} /\ Running(e)

\* A pointer that was never set is skipped, or deleted to no effect.
DeleteObject(e) ==
  /\ Releasing(e) /\ NextStep(e)[1] = "delete"
  /\ freed' = [freed EXCEPT ![e] =
                 [o \in Objects |->
                    @[o] + IF o = NextStep(e)[2] /\ o \in done[e] THEN 1 ELSE 0]]
  /\ Advance(e)
  /\ UNCHANGED <<done, doomed, loop, calls>>

\* DPS_DestroyPublication(), DPS_DestroySubscription(),
\* DPS_DestroyDiscoveryService(), DPS_DestroyNode() start the destruction.  (A
\* node is shut down first, and that awaited.)
DestroyObject(e) ==
  /\ Releasing(e) /\ NextStep(e)[1] = "destroy"
  /\ doomed' = doomed \cup ({e} \X ({NextStep(e)[2]} \cap done[e]))
  /\ Advance(e)
  /\ UNCHANGED <<done, freed, loop, calls>>

\* Mutant: the event is awaited even if there was nothing to destroy.
AwaitEvent(e) ==
  /\ Releasing(e) /\ NextStep(e)[1] = "await"
  /\ freed[e][NextStep(e)[2]] > 0
  /\ Advance(e)
  /\ UNCHANGED <<done, freed, doomed, loop, calls>>

\* DPS_WaitForEvent()
AwaitObject(e) ==
  /\ Releasing(e) /\ NextStep(e)[1] = "await"
  /\ <<e, NextStep(e)[2]>> \notin doomed
  /\ Advance(e)
  /\ UNCHANGED <<done, freed, doomed, loop, calls>>

LeaveMap(e) ==
  /\ Releasing(e) /\ NextStep(e)[1] = "leave" /\ MapIsFree(e)
  /\ done' = [done EXCEPT ![e] = @ \ {"register"}]
  /\ Advance(e)
  /\ UNCHANGED <<freed, doomed, loop, calls>>

Return(e) ==
  /\ stage[e] \in {"creating", "failing", "destroying"} /\ ~Running(e)
  /\ Enter(e, IF stage[e] = "creating" THEN "created" ELSE "gone")
  /\ UNCHANGED <<done, freed, doomed, loop, calls>>

-----------------------------------------------------------------------------
(* The DPS loop thread, which does one thing at a time. *)

\* Listener::onPublication(), Listener::onAcknowledgement()
CallListener(e) ==
  /\ loop = Idle /\ calls < MaxCalls
  /\ "start" \in done[e] /\ Alive(e, "dps")
  /\ loop' = <<"listener", e>>
  /\ calls' = calls + 1
  /\ UNCHANGED <<stage, at, done, freed, doomed>>

\* NodeListener::onDiscovery(): the nodes, then the matches of the publishers
\* and those of the subscriptions, then the graph guard condition.
OnDiscovery ==
  /\ loop = Idle /\ calls < MaxCalls
  /\ "announce" \in done[Node] /\ Alive(Node, "svc")
  /\ loop' = <<"publishers", Node>>
  /\ calls' = calls + 1
  /\ UNCHANGED <<stage, at, done, freed, doomed>>

Successor == [publishers |-> "subscribers", subscribers |-> "graph", graph |-> "idle"]

Continue ==
  /\ loop[1] \in DOMAIN Successor
  /\ loop' = <<Successor[loop[1]], Node>>
  /\ UNCHANGED <<stage, at, done, freed, doomed, calls>>

EndListener ==
  /\ loop[1] = "listener"
  /\ loop' = Idle
  /\ UNCHANGED <<stage, at, done, freed, doomed, calls>>

\* Mutant: the listener is left to whoever created it.
DestroyedKeeping(e, o) ==
  /\ loop = Idle /\ <<e, o>> \in doomed
  /\ <<e, o>> = <<Node, "dps">> => doomed = {<<Node, "dps">>}
  /\ doomed' = doomed \ {<<e, o>>}
  /\ freed' = [freed EXCEPT ![e][o] = @ + 1]
  /\ UNCHANGED <<stage, at, done, loop, calls>>

\* DPS has destroyed an object and says so: the callbacks given to
\* DPS_DestroySubscription() and DPS_DestroyPublication() delete the listener
\* the object has, those of a node signal the event.  A node goes after what
\* was asked to go before it.
Destroyed(e, o) ==
  /\ loop = Idle /\ <<e, o>> \in doomed
  /\ <<e, o>> = <<Node, "dps">> => doomed = {<<Node, "dps">>}
  /\ doomed' = doomed \ {<<e, o>>}
  /\ freed' = [freed EXCEPT ![e] =
                 [p \in Objects |->
                    @[p] + IF \/ p = o
                              \/ p = "listener" /\ e \in Listening /\ "data" \in done[e]
                           THEN 1 ELSE 0]]
  /\ UNCHANGED <<stage, at, done, loop, calls>>

-----------------------------------------------------------------------------
ThreadStep(e) ==
  \/ Obtain(e) \/ DeleteObject(e) \/ DestroyObject(e) \/ AwaitObject(e)
  \/ LeaveMap(e) \/ Return(e)

LoopStep ==
  \/ Continue \/ EndListener
  \/ \E e \in Entities, o \in {"dps", "svc"} : Destroyed(e, o)

Next ==
  \/ \E e \in Entities : Create(e) \/ Fail(e) \/ Release(e) \/ ThreadStep(e)
  \/ Leak
  \/ \E e \in Listening : CallListener(e)
  \/ OnDiscovery
  \/ LoopStep

Spec == Init /\ [][Next]_vars

\* Threads run: those that are in a call, and the loop's.
Fairness ==
  /\ \A e \in Entities : WF_vars(ThreadStep(e))
  /\ WF_vars(Continue) /\ WF_vars(EndListener)
  /\ \A e \in Entities, o \in {"dps", "svc"} : WF_vars(Destroyed(e, o))

FairSpec == Spec /\ Fairness

-----------------------------------------------------------------------------
(* Properties. *)

\* The loop thread finds alive whatever it uses: the listener it calls, and
\* during onDiscovery the node's listener, info and handle, each publisher or
\* subscription in the map it walks, and the graph guard condition.
CallbacksFindObjects ==
  /\ loop[1] = "listener" => Alive(loop[2], "listener")
  /\ loop[1] \in DOMAIN Successor =>
        \A o \in {"handle", "info", "listener", "guard", "svc"} : Alive(Node, o)
  /\ \A e \in Endpoints :
        /\ "register" \in done[e]
        /\ \/ loop[1] = "publishers" /\ e \in Publishers
           \/ loop[1] = "subscribers" /\ e \in Subscriptions
        => Alive(e, "info")

\* Nothing is freed twice, whichever path a call takes and whoever frees:
\* the call, or the callback of DPS.
FreedOnce == \A e \in Entities, o \in Objects : freed[e][o] <= 1

\* A call that failed or destroyed leaves nothing behind, once DPS is done,
\* but a listener that no DPS object was given.
NothingElseLeaks ==
  \A e \in Entities, o \in Objects :
     stage[e] = "gone" /\ ({e} \X {"dps", "svc"}) \cap doomed = {} /\ Alive(e, o)
       => o = "listener" /\ "data" \notin done[e]

\* The invariant behind these three, in parts.

\* Nothing is freed or doomed before a release begins.
NothingFreedEarly ==
  \A e \in Entities : stage[e] \in {"new", "creating", "created", "leaked"} =>
     /\ \A o \in Objects : freed[e][o] = 0
     /\ \A o \in {"dps", "svc"} : <<e, o>> \notin doomed

\* A creation has done the steps it has passed.
StepsInOrder ==
  \A e \in Entities :
     /\ stage[e] = "new" => done[e] = {}
     /\ stage[e] = "creating" => done[e] = {CreateSteps[Kind(e)][i] : i \in 1..(at[e] - 1)}

\* DPS calls a listener only once it has it, and the listener goes with the
\* DPS object.
ListenerOfObject ==
  \A e \in Listening :
     /\ "start" \in done[e] => "listener" \in done[e]
     /\ freed[e]["dps"] = 0 => freed[e]["listener"] = 0
     /\ loop = <<"listener", e>> => "start" \in done[e] /\ freed[e]["dps"] = 0
     /\ <<e, "svc">> \notin doomed

\* What is in a map has its info, and a release begins with leaving the map.
InfoOfRegistered ==
  \A e \in Endpoints : "register" \in done[e] =>
     /\ e \in Publishers \cup Subscriptions
     /\ "info" \in done[e] /\ freed[e]["info"] = 0
     /\ stage[e] \in {"creating", "created", "destroying"}
     /\ stage[e] = "creating" => ~Running(e)
     /\ stage[e] = "destroying" => at[e] = 1

\* What onDiscovery uses of the node.
HandlerUses == {"handle", "info", "listener", "guard"}

\* The node frees what onDiscovery uses once the discovery service is gone.
ServiceGoesFirst ==
  /\ "announce" \in done[Node] => HandlerUses \cup {"svc"} \subseteq done[Node]
  /\ "svc" \in done[Node] /\ freed[Node]["svc"] = 0 =>
        /\ \A o \in HandlerUses : freed[Node][o] = 0
        /\ stage[Node] \in {"creating", "created", "leaked", "failing", "destroying"}
        /\ stage[Node] \in {"failing", "destroying"} =>
              at[Node] = 1 \/ (at[Node] = 2 /\ <<Node, "svc">> \in doomed)
  /\ loop[1] \in DOMAIN Successor => "announce" \in done[Node] /\ freed[Node]["svc"] = 0

\* The steps of a release that are still to come.
ToCome(e) ==
  IF stage[e] \in {"failing", "destroying"}
  THEN {Program(e)[i] : i \in at[e]..Len(Program(e))} ELSE {}

\* Nobody has freed, or asked DPS to destroy, what a release is yet to free.
FreedByOne(e) ==
  /\ \A o \in Objects :
        /\ freed[e][o] <= 1
        /\ Delete(o) \in ToCome(e) \/ Destroy(o) \in ToCome(e) => freed[e][o] = 0
  /\ \A o \in {"dps", "svc"} :
        /\ <<e, o>> \in doomed => freed[e][o] = 0
        /\ Destroy(o) \in ToCome(e) => <<e, o>> \notin doomed

\* What a creation obtained was freed, or will be: by its release or by DPS, which
\* frees the listener it has with the object.
EverythingGoes(e) ==
  /\ done[e] \subseteq {CreateSteps[Kind(e)][i] : i \in 1..Len(CreateSteps[Kind(e)])}
  /\ stage[e] \in {"failing", "destroying", "gone"} =>
        \A o \in Objects \cap done[e] :
           \/ freed[e][o] > 0 \/ <<e, o>> \in doomed
           \/ Delete(o) \in ToCome(e) \/ Destroy(o) \in ToCome(e)
           \/ o = "listener" /\ e \in Listening
  /\ e \in Listening /\ "data" \in done[e] =>
        "dps" \in done[e] /\ (freed[e]["dps"] > 0 => freed[e]["listener"] > 0)

Accounts == \A e \in Entities : FreedByOne(e) /\ EverythingGoes(e)

Inv ==
  /\ TypeOK /\ NothingFreedEarly /\ StepsInOrder /\ ListenerOfObject
  /\ InfoOfRegistered /\ ServiceGoesFirst /\ Accounts

\* Every release comes to its end, DPS's part included: a node that waits for
\* DPS does not wait for ever, nor does a call that waits for a map.
ReleaseEnds ==
  \A e \in Entities :
     stage[e] \in {"failing", "destroying"} ~>
        stage[e] = "gone" /\ ({e} \X {"dps", "svc"}) \cap doomed = {}

=============================================================================
