--------------------------- MODULE LifecycleProofs ---------------------------
(***************************************************************************)
(* Proofs about Lifecycle: types, the inductive invariant, and that the    *)
(* loop thread finds alive whatever it uses, that nothing is freed twice   *)
(* and that releases are complete, for any number of endpoints.            *)
(***************************************************************************)
EXTENDS Lifecycle, TLAPS

USE LifecycleAssumption

Kinds == {"publisher", "subscription", "service", "client", "node"}
-----------------------------------------------------------------------------
(* What the programs are. *)

\* An entity has the kind of the set it is in.
LEMMA KindOf ==
  ASSUME NEW e \in Entities
  PROVE  /\ Kind(e) \in Kinds
         /\ e = Node <=> Kind(e) = "node"
         /\ e \in Publishers <=> Kind(e) = "publisher"
         /\ e \in Subscriptions <=> Kind(e) = "subscription"
         /\ e \in Listening <=> Kind(e) \in {"subscription", "service", "client"}
         /\ e \in Endpoints <=> Kind(e) # "node"
  BY DEF Kind, Kinds, Entities, Endpoints, Listening

\* Creations are of at most nine steps, which obtain an object or make a link.
LEMMA CreateFacts ==
  ASSUME NEW k \in Kinds
  PROVE  /\ Len(CreateSteps[k]) \in 1..9
         /\ \A i \in 1..Len(CreateSteps[k]) : CreateSteps[k][i] \in Objects \cup Links
<1> USE DEF CreatePublisher, CreateSubscription, CreateService, CreateClient, CreateNode
<1>1. CASE k = "publisher"
  BY <1>1 DEF CreateSteps, Objects, Links
<1>2. CASE k = "subscription"
  BY <1>2 DEF CreateSteps, Objects, Links
<1>3. CASE k = "service"
  BY <1>3 DEF CreateSteps, Objects, Links
<1>4. CASE k = "client"
  BY <1>4 DEF CreateSteps, Objects, Links
<1>5. CASE k = "node"
  BY <1>5 DEF CreateSteps, Objects, Links
<1> QED
  BY <1>1, <1>2, <1>3, <1>4, <1>5 DEF Kinds

\* The listener is there before calls start.
LEMMA ListenerFirst ==
  ASSUME NEW k \in {"subscription", "service", "client"},
         NEW i \in 1..Len(CreateSteps[k]), CreateSteps[k][i] = "start"
  PROVE  \E j \in 1..(i - 1) : CreateSteps[k][j] = "listener"
<1> USE DEF CreatePublisher, CreateSubscription, CreateService, CreateClient, CreateNode
<1>1. CASE k = "subscription"
  BY <1>1 DEF CreateSteps
<1>2. CASE k = "service"
  BY <1>2 DEF CreateSteps
<1>3. CASE k = "client"
  BY <1>3 DEF CreateSteps
<1> QED
  BY <1>1, <1>2, <1>3

\* Publishers and subscriptions are registered, as the last step, with their info.
LEMMA RegisterLast ==
  ASSUME NEW k \in Kinds, NEW i \in 1..Len(CreateSteps[k]),
         CreateSteps[k][i] = "register"
  PROVE  /\ i = Len(CreateSteps[k]) /\ k \in {"publisher", "subscription"}
         /\ \E j \in 1..(i - 1) : CreateSteps[k][j] = "info"
<1> USE DEF CreatePublisher, CreateSubscription, CreateService, CreateClient, CreateNode
<1>1. CASE k = "publisher"
  BY <1>1 DEF CreateSteps
<1>2. CASE k = "subscription"
  BY <1>2 DEF CreateSteps
<1>3. CASE k = "service"
  BY <1>3 DEF CreateSteps
<1>4. CASE k = "client"
  BY <1>4 DEF CreateSteps
<1>5. CASE k = "node"
  BY <1>5 DEF CreateSteps
<1> QED
  BY <1>1, <1>2, <1>3, <1>4, <1>5 DEF Kinds

\* A node is announced when it has everything onDiscovery uses.
LEMMA NodeOrder ==
  /\ Len(CreateSteps["node"]) = 9
  /\ \A i \in 1..9 : CreateSteps["node"][i] = "announce" <=> i = 9
  /\ HandlerUses \cup {"svc"} \subseteq {CreateSteps["node"][i] : i \in 1..8}
<1> USE DEF CreatePublisher, CreateSubscription, CreateService, CreateClient, CreateNode
<1>1. /\ CreateSteps["node"][1] = "handle" /\ CreateSteps["node"][2] = "info"
      /\ CreateSteps["node"][3] = "guard" /\ CreateSteps["node"][4] = "listener"
      /\ CreateSteps["node"][7] = "svc"
  BY DEF CreateSteps
<1>2. HandlerUses \cup {"svc"} \subseteq {CreateSteps["node"][i] : i \in 1..8}
  BY <1>1 DEF HandlerUses
<1> QED
  BY <1>2 DEF CreateSteps

\* The steps of a release are of four sorts, and at most eight.
LEMMA ReleaseFacts ==
  ASSUME NEW k \in Kinds, NEW P \in {FailSteps[k], DestroySteps[k]}
  PROVE  /\ Len(P) \in 1..8
         /\ \A i \in 1..Len(P) :
              /\ P[i] \in {"delete", "destroy", "await", "leave"} \X (Objects \cup {"register"})
              /\ P[i][1] = "delete" => P[i][2] \in Objects
              /\ P[i][1] \in {"destroy", "await"} => P[i][2] \in {"dps", "svc"}
<1> USE DEF FailPublisher, FailSubscription, FailService, FailClient,
            DestroyPublisher, DestroySubscription, DestroyService, DestroyClient
<1>1. CASE k = "publisher"
  BY <1>1 DEF FailSteps, DestroySteps, NodeRelease, Delete, Destroy,
            Await, Leave, Objects
<1>2. CASE k = "subscription"
  BY <1>2 DEF FailSteps, DestroySteps, NodeRelease, Delete, Destroy,
            Await, Leave, Objects
<1>3. CASE k = "service"
  BY <1>3 DEF FailSteps, DestroySteps, NodeRelease, Delete, Destroy,
            Await, Leave, Objects
<1>4. CASE k = "client"
  BY <1>4 DEF FailSteps, DestroySteps, NodeRelease, Delete, Destroy,
            Await, Leave, Objects
<1>5. CASE k = "node"
  <2>1. P = NodeRelease
    BY <1>5 DEF FailSteps, DestroySteps
  <2>2. Len(NodeRelease) = 8
    BY DEF NodeRelease
  <2>3. ASSUME NEW i \in 1..8
        PROVE  NodeRelease[i] \in
                 {<<"delete", "listener">>, <<"delete", "guard">>, <<"delete", "info">>,
                  <<"delete", "handle">>, <<"destroy", "dps">>, <<"destroy", "svc">>,
                  <<"await", "dps">>, <<"await", "svc">>}
    BY DEF NodeRelease, Delete, Destroy, Await
  <2> QED
    BY <2>1, <2>2, <2>3 DEF Objects
<1> QED
  BY <1>1, <1>2, <1>3, <1>4, <1>5 DEF Kinds

\* An endpoint deletes neither its listener nor its DPS object, and has no
\* discovery service to destroy.
LEMMA EndpointRelease ==
  ASSUME NEW k \in Kinds \ {"node"}, NEW P \in {FailSteps[k], DestroySteps[k]},
         NEW i \in 1..Len(P)
  PROVE  /\ P[i] # <<"delete", "listener">> /\ P[i] # <<"delete", "dps">>
         /\ P[i] # <<"destroy", "svc">>
<1> USE DEF FailPublisher, FailSubscription, FailService, FailClient,
            DestroyPublisher, DestroySubscription, DestroyService, DestroyClient
<1>1. CASE k = "publisher"
  <2>1. CASE P = FailSteps[k]
    BY <1>1, <2>1 DEF FailSteps, Delete, Destroy
  <2>2. CASE P = DestroySteps[k]
    BY <1>1, <2>2 DEF FailSteps, DestroySteps, Delete, Destroy, Leave
  <2> QED
    BY <2>1, <2>2
<1>2. CASE k = "subscription"
  <2>1. CASE P = FailSteps[k]
    BY <1>2, <2>1 DEF FailSteps, Delete, Destroy
  <2>2. CASE P = DestroySteps[k]
    BY <1>2, <2>2 DEF FailSteps, DestroySteps, Delete, Destroy, Leave
  <2> QED
    BY <2>1, <2>2
<1>3. CASE k = "service"
  <2>1. CASE P = FailSteps[k]
    BY <1>3, <2>1 DEF FailSteps, Delete, Destroy
  <2>2. CASE P = DestroySteps[k]
    BY <1>3, <2>2 DEF FailSteps, DestroySteps, Delete, Destroy, Leave
  <2> QED
    BY <2>1, <2>2
<1>4. CASE k = "client"
  <2>1. CASE P = FailSteps[k]
    BY <1>4, <2>1 DEF FailSteps, Delete, Destroy
  <2>2. CASE P = DestroySteps[k]
    BY <1>4, <2>2 DEF FailSteps, DestroySteps, Delete, Destroy, Leave
  <2> QED
    BY <2>1, <2>2
<1> QED
  BY <1>1, <1>2, <1>3, <1>4 DEF Kinds

\* A publisher or a subscription that is destroyed leaves the map first.
LEMMA LeaveFirst ==
  ASSUME NEW k \in {"publisher", "subscription"}
  PROVE  DestroySteps[k][1] = <<"leave", "register">>
  BY DEF DestroySteps, DestroyPublisher, DestroySubscription, Leave

\* A node begins by waiting for its discovery service, and deletes no DPS object.
LEMMA NodeReleaseFacts ==
  /\ FailSteps["node"] = NodeRelease /\ DestroySteps["node"] = NodeRelease
  /\ Len(NodeRelease) = 8
  /\ NodeRelease[1] = <<"destroy", "svc">> /\ NodeRelease[2] = <<"await", "svc">>
  /\ \A i \in 1..8 : NodeRelease[i] # <<"delete", "svc">> /\ NodeRelease[i] # <<"delete", "dps">>
<1>1. Len(NodeRelease) = 8
  BY DEF NodeRelease
<1>2. /\ NodeRelease[1] = <<"destroy", "svc">> /\ NodeRelease[2] = <<"await", "svc">>
  BY DEF NodeRelease, Destroy, Await
<1>3. ASSUME NEW i \in 1..8
      PROVE  NodeRelease[i] # <<"delete", "svc">> /\ NodeRelease[i] # <<"delete", "dps">>
  BY DEF NodeRelease, Delete, Destroy, Await
<1>4. FailSteps["node"] = NodeRelease /\ DestroySteps["node"] = NodeRelease
  BY DEF FailSteps, DestroySteps
<1> QED
  BY <1>1, <1>2, <1>3, <1>4

-----------------------------------------------------------------------------
(* What a step of a program is. *)

\* What is between the steps of onDiscovery.
LEMMA Walks == DOMAIN Successor = {"publishers", "subscribers", "graph"}
  BY DEF Successor

\* A creation's next step.
LEMMA CreateStep ==
  ASSUME TypeOK, NEW e \in Entities, stage[e] = "creating", Running(e)
  PROVE  /\ Program(e) = CreateSteps[Kind(e)]
         /\ at[e] \in 1..Len(CreateSteps[Kind(e)]) /\ at[e] \in 1..9
         /\ NextStep(e) = CreateSteps[Kind(e)][at[e]]
         /\ NextStep(e) \in Objects \cup Links
<1>1. Program(e) = CreateSteps[Kind(e)]
  BY DEF Program
<1>2. Kind(e) \in Kinds
  BY KindOf
<1> QED
  BY <1>1, <1>2, CreateFacts DEF Running, NextStep

\* A step that fails leaves what was done as it was, or adds that a node is
\* announced, which is the last step of its creation.
LEMMA FailedStepFacts ==
  ASSUME TypeOK, NEW e \in Entities, FailedStep(e)
  PROVE  /\ stage[e] = "creating" /\ Running(e)
         /\ \A f \in Entities \ {e} : done'[f] = done[f]
         /\ \/ done'[e] = done[e]
            \/ e = Node /\ at[e] = 9 /\ done'[e] = done[e] \cup {"announce"}
         /\ done' \in [Entities -> SUBSET (Objects \cup Links)]
<1>1. stage[e] = "creating" /\ Running(e)
  BY DEF FailedStep
<1>2. CASE UNCHANGED done
  BY <1>1, <1>2 DEF TypeOK
<1>3. CASE /\ e = Node /\ NextStep(e) = "announce"
           /\ done' = [done EXCEPT ![e] = @ \cup {"announce"}]
  <2>1. Kind(e) = "node"
    BY <1>3, KindOf
  <2>2. at[e] \in 1..9 /\ CreateSteps["node"][at[e]] = "announce"
    BY <1>1, <1>3, <2>1, CreateStep, NodeOrder
  <2>3. at[e] = 9
    BY <2>2, NodeOrder
  <2>4. /\ \A f \in Entities \ {e} : done'[f] = done[f]
        /\ done'[e] = done[e] \cup {"announce"}
    BY <1>3 DEF TypeOK
  <2>5. done' \in [Entities -> SUBSET (Objects \cup Links)]
    BY <1>3 DEF TypeOK, Links
  <2> QED
    BY <1>1, <1>3, <2>3, <2>4, <2>5
<1> QED
  BY <1>2, <1>3 DEF FailedStep

\* A release's next step.
LEMMA ReleaseStep ==
  ASSUME TypeOK, NEW e \in Entities, stage[e] \in {"failing", "destroying"}, Running(e)
  PROVE  /\ Program(e) \in {FailSteps[Kind(e)], DestroySteps[Kind(e)]}
         /\ stage[e] = "destroying" => Program(e) = DestroySteps[Kind(e)]
         /\ at[e] \in 1..Len(Program(e)) /\ at[e] \in 1..8
         /\ NextStep(e) = Program(e)[at[e]]
         /\ NextStep(e) \in {"delete", "destroy", "await", "leave"} \X (Objects \cup {"register"})
         /\ NextStep(e)[1] = "delete" => NextStep(e)[2] \in Objects
         /\ NextStep(e)[1] \in {"destroy", "await"} => NextStep(e)[2] \in {"dps", "svc"}
<1>1. /\ Program(e) \in {FailSteps[Kind(e)], DestroySteps[Kind(e)]}
      /\ stage[e] = "destroying" => Program(e) = DestroySteps[Kind(e)]
  BY DEF Program
<1>2. Kind(e) \in Kinds
  BY KindOf
<1> DEFINE P == Program(e)
<1>3. /\ Len(P) \in 1..8
      /\ \A i \in 1..Len(P) :
           /\ P[i] \in {"delete", "destroy", "await", "leave"} \X (Objects \cup {"register"})
           /\ P[i][1] = "delete" => P[i][2] \in Objects
           /\ P[i][1] \in {"destroy", "await"} => P[i][2] \in {"dps", "svc"}
  BY <1>1, <1>2, ReleaseFacts
<1> QED
  BY <1>1, <1>3 DEF Running, NextStep

\* Steps keep the types.
LEMMA TypeStep ==
  ASSUME TypeOK, [Next]_vars
  PROVE  TypeOK'
<1>1. ASSUME NEW e \in Entities, Create(e)
      PROVE  TypeOK'
  BY <1>1 DEF Create, Enter, TypeOK, Idle
<1>2. ASSUME NEW e \in Entities, Fail(e)
      PROVE  TypeOK'
  <2>1. done' \in [Entities -> SUBSET (Objects \cup Links)]
    BY <1>2, FailedStepFacts DEF Fail
  <2>2. /\ stage' \in [Entities -> {"new", "creating", "created", "failing",
                               "destroying", "gone", "leaked"}]
        /\ at' \in [Entities -> 1..10]
    BY <1>2 DEF Fail, Enter, TypeOK
  <2> QED
    BY <1>2, <2>1, <2>2 DEF Fail, TypeOK, Idle
<1>3. ASSUME NEW e \in Entities, Release(e)
      PROVE  TypeOK'
  BY <1>3 DEF Release, Enter, TypeOK, Idle
<1>4. ASSUME NEW e \in Entities, Obtain(e)
      PROVE  TypeOK'
  <2>1. at[e] \in 1..9 /\ NextStep(e) \in Objects \cup Links
    BY <1>4, CreateStep DEF Obtain
  <2> QED
    BY <1>4, <2>1 DEF Obtain, Advance, TypeOK
<1>5. ASSUME NEW e \in Entities, DeleteObject(e)
      PROVE  TypeOK'
  <2>1. stage[e] \in {"failing", "destroying"} /\ Running(e)
    BY <1>5 DEF DeleteObject, Releasing
  <2>2. /\ at[e] \in 1..8
        /\ NextStep(e)[1] \in {"destroy", "await"} => NextStep(e)[2] \in {"dps", "svc"}
    BY <2>1, ReleaseStep
  <2> QED
    BY <1>5, <2>2 DEF DeleteObject, Advance, TypeOK
<1>6. ASSUME NEW e \in Entities, DestroyObject(e)
      PROVE  TypeOK'
  <2>1. stage[e] \in {"failing", "destroying"} /\ Running(e)
    BY <1>6 DEF DestroyObject, Releasing
  <2>2. /\ at[e] \in 1..8
        /\ NextStep(e)[1] \in {"destroy", "await"} => NextStep(e)[2] \in {"dps", "svc"}
    BY <2>1, ReleaseStep
  <2> QED
    BY <1>6, <2>2 DEF DestroyObject, Advance, TypeOK
<1>7. ASSUME NEW e \in Entities, AwaitObject(e)
      PROVE  TypeOK'
  <2>1. stage[e] \in {"failing", "destroying"} /\ Running(e)
    BY <1>7 DEF AwaitObject, Releasing
  <2>2. /\ at[e] \in 1..8
        /\ NextStep(e)[1] \in {"destroy", "await"} => NextStep(e)[2] \in {"dps", "svc"}
    BY <2>1, ReleaseStep
  <2> QED
    BY <1>7, <2>2 DEF AwaitObject, Advance, TypeOK
<1>8. ASSUME NEW e \in Entities, LeaveMap(e)
      PROVE  TypeOK'
  <2>1. stage[e] \in {"failing", "destroying"} /\ Running(e)
    BY <1>8 DEF LeaveMap, Releasing
  <2>2. /\ at[e] \in 1..8
        /\ NextStep(e)[1] \in {"destroy", "await"} => NextStep(e)[2] \in {"dps", "svc"}
    BY <2>1, ReleaseStep
  <2> QED
    BY <1>8, <2>2 DEF LeaveMap, Advance, TypeOK
<1>9. ASSUME NEW e \in Entities, Return(e)
      PROVE  TypeOK'
  BY <1>9 DEF Return, Enter, TypeOK, Idle
<1>10. ASSUME Leak
       PROVE  TypeOK'
  <2>1. Node \in Entities
    BY DEF Entities
  <2>2. done' \in [Entities -> SUBSET (Objects \cup Links)]
    BY <1>10, <2>1, FailedStepFacts DEF Leak
  <2>3. /\ stage' \in [Entities -> {"new", "creating", "created", "failing",
                               "destroying", "gone", "leaked"}]
        /\ at' \in [Entities -> 1..10]
    BY <1>10, <2>1 DEF Leak, Enter, TypeOK
  <2> QED
    BY <1>10, <2>1, <2>2, <2>3 DEF Leak, TypeOK, Idle
<1>11. ASSUME NEW e \in Listening, CallListener(e)
       PROVE  TypeOK'
  BY <1>11 DEF CallListener, TypeOK
<1>12. ASSUME OnDiscovery
       PROVE  TypeOK'
  BY <1>12 DEF OnDiscovery, TypeOK, Idle
<1>13. ASSUME Continue
       PROVE  TypeOK'
  BY <1>13, Walks DEF Continue, Successor, TypeOK
<1>14. ASSUME EndListener
       PROVE  TypeOK'
  BY <1>14 DEF EndListener, TypeOK, Idle
<1>15. ASSUME NEW e \in Entities, NEW o \in {"dps", "svc"}, Destroyed(e, o)
       PROVE  TypeOK'
  BY <1>15 DEF Destroyed, TypeOK, Idle
<1>16. ASSUME UNCHANGED vars
       PROVE  TypeOK'
  BY <1>16 DEF vars, TypeOK, Idle
<1> QED
  BY <1>1, <1>2, <1>3, <1>4, <1>5, <1>6, <1>7, <1>8, <1>9, <1>10, <1>11, <1>12, <1>13, <1>14, <1>15, <1>16
     DEF Next, ThreadStep, LoopStep

\* Steps keep what has not begun to be released as it is.
LEMMA EarlyStep ==
  ASSUME TypeOK, NothingFreedEarly, [Next]_vars
  PROVE  NothingFreedEarly'
<1>1. ASSUME NEW e \in Entities, Create(e)
      PROVE  NothingFreedEarly'
  BY <1>1 DEF Create, Enter, TypeOK, NothingFreedEarly, Releasing
<1>2. ASSUME NEW e \in Entities, Fail(e)
      PROVE  NothingFreedEarly'
  BY <1>2 DEF Fail, Enter, TypeOK, NothingFreedEarly, Releasing
<1>3. ASSUME NEW e \in Entities, Release(e)
      PROVE  NothingFreedEarly'
  BY <1>3 DEF Release, Enter, TypeOK, NothingFreedEarly, Releasing
<1>4. ASSUME NEW e \in Entities, Obtain(e)
      PROVE  NothingFreedEarly'
  BY <1>4 DEF Obtain, Advance, TypeOK, NothingFreedEarly, Releasing
<1>5. ASSUME NEW e \in Entities, DeleteObject(e)
      PROVE  NothingFreedEarly'
  <2>1. \A f \in Entities \ {e}, p \in Objects : freed'[f][p] = freed[f][p]
    BY <1>5 DEF DeleteObject, TypeOK
  <2> QED
    BY <1>5, <2>1 DEF DeleteObject, Advance, Releasing, NothingFreedEarly, TypeOK
<1>6. ASSUME NEW e \in Entities, DestroyObject(e)
      PROVE  NothingFreedEarly'
  BY <1>6 DEF DestroyObject, Advance, TypeOK, NothingFreedEarly, Releasing
<1>7. ASSUME NEW e \in Entities, AwaitObject(e)
      PROVE  NothingFreedEarly'
  BY <1>7 DEF AwaitObject, Advance, TypeOK, NothingFreedEarly, Releasing
<1>8. ASSUME NEW e \in Entities, LeaveMap(e)
      PROVE  NothingFreedEarly'
  BY <1>8 DEF LeaveMap, Advance, TypeOK, NothingFreedEarly, Releasing
<1>9. ASSUME NEW e \in Entities, Return(e)
      PROVE  NothingFreedEarly'
  <2>1. \A f \in Entities \ {e} : stage'[f] = stage[f]
    BY <1>9 DEF Return, Enter, TypeOK
  <2>2. stage'[e] = "created" => stage[e] = "creating"
    BY <1>9 DEF Return, Enter, TypeOK
  <2>3. stage'[e] \in {"created", "gone"}
    BY <1>9 DEF Return, Enter, TypeOK
  <2> QED
    BY <1>9, <2>1, <2>2, <2>3 DEF Return, NothingFreedEarly
<1>10. ASSUME Leak
       PROVE  NothingFreedEarly'
  <2>1. \A f \in Entities \ {Node} : stage'[f] = stage[f]
    BY <1>10 DEF Leak, Enter, TypeOK
  <2>2. stage[Node] = "creating"
    BY <1>10, FailedStepFacts DEF Leak, Entities
  <2> QED
    BY <1>10, <2>1, <2>2 DEF Leak, NothingFreedEarly
<1>11. ASSUME NEW e \in Listening, CallListener(e)
       PROVE  NothingFreedEarly'
  BY <1>11 DEF CallListener, TypeOK, NothingFreedEarly, Releasing
<1>12. ASSUME OnDiscovery
       PROVE  NothingFreedEarly'
  BY <1>12 DEF OnDiscovery, TypeOK, NothingFreedEarly, Releasing
<1>13. ASSUME Continue
       PROVE  NothingFreedEarly'
  BY <1>13 DEF Continue, TypeOK, NothingFreedEarly, Releasing
<1>14. ASSUME EndListener
       PROVE  NothingFreedEarly'
  BY <1>14 DEF EndListener, TypeOK, NothingFreedEarly, Releasing
<1>15. ASSUME NEW e \in Entities, NEW o \in {"dps", "svc"}, Destroyed(e, o)
       PROVE  NothingFreedEarly'
  <2>1. stage[e] \notin {"new", "creating", "created", "leaked"}
    BY <1>15 DEF Destroyed, NothingFreedEarly, TypeOK
  <2>2. \A f \in Entities \ {e}, p \in Objects : freed'[f][p] = freed[f][p]
    BY <1>15 DEF Destroyed, TypeOK
  <2> QED
    BY <1>15, <2>1, <2>2 DEF Destroyed, NothingFreedEarly, TypeOK
<1>16. ASSUME UNCHANGED vars
       PROVE  NothingFreedEarly'
  BY <1>16 DEF vars, TypeOK, NothingFreedEarly, Releasing
<1> QED
  BY <1>1, <1>2, <1>3, <1>4, <1>5, <1>6, <1>7, <1>8, <1>9, <1>10, <1>11, <1>12, <1>13, <1>14, <1>15, <1>16
     DEF Next, ThreadStep, LoopStep

\* A creation's step is added to those it has done.
LEMMA OrderStep ==
  ASSUME TypeOK, StepsInOrder, [Next]_vars
  PROVE  StepsInOrder'
<1>1. ASSUME NEW e \in Entities, Create(e)
      PROVE  StepsInOrder'
  <2>1. {CreateSteps[Kind(e)][i] : i \in 1..0} = {}
    OBVIOUS
  <2>2. done'[e] = {} /\ stage'[e] = "creating" /\ at'[e] = 1
    BY <1>1 DEF Create, Enter, StepsInOrder, TypeOK
  <2>3. ASSUME NEW f \in Entities \ {e}
        PROVE  stage'[f] = stage[f] /\ at'[f] = at[f] /\ done'[f] = done[f]
    BY <1>1 DEF Create, Enter, TypeOK
  <2> QED
    BY <2>1, <2>2, <2>3 DEF StepsInOrder
<1>2. ASSUME NEW e \in Entities, Fail(e)
      PROVE  StepsInOrder'
  <2>1. e \in Entities
    BY <1>2 DEF Entities
  <2>2. stage'[e] = "failing"
    BY <1>2, <2>1 DEF Fail, Enter, TypeOK
  <2>3. ASSUME NEW f \in Entities \ {e}
        PROVE  stage'[f] = stage[f] /\ at'[f] = at[f] /\ done'[f] = done[f]
    BY <1>2, <2>1, FailedStepFacts DEF Fail, Enter, TypeOK
  <2> QED
    BY <2>2, <2>3 DEF StepsInOrder
<1>3. ASSUME NEW e \in Entities, Release(e)
      PROVE  StepsInOrder'
  BY <1>3 DEF Release, Enter, TypeOK, StepsInOrder, Releasing
<1>4. ASSUME NEW e \in Entities, Obtain(e)
      PROVE  StepsInOrder'
  <2>1. /\ at[e] \in 1..9 /\ NextStep(e) = CreateSteps[Kind(e)][at[e]]
    BY <1>4, CreateStep DEF Obtain
  <2> DEFINE S(m) == {CreateSteps[Kind(e)][i] : i \in 1..(m - 1)}
  <2>2. S(at[e] + 1) = S(at[e]) \cup {NextStep(e)}
    <3>1. 1..(at[e] + 1 - 1) = 1..(at[e] - 1) \cup {at[e]}
      BY <2>1
    <3> QED
      BY <3>1, <2>1
  <2>3. done'[e] = S(at'[e]) /\ stage'[e] = "creating"
    BY <1>4, <2>2 DEF Obtain, Advance, StepsInOrder, TypeOK
  <2>4. ASSUME NEW f \in Entities \ {e}
        PROVE  stage'[f] = stage[f] /\ at'[f] = at[f] /\ done'[f] = done[f]
    BY <1>4 DEF Obtain, Advance, TypeOK
  <2> QED
    BY <2>3, <2>4 DEF StepsInOrder
<1>5. ASSUME NEW e \in Entities, DeleteObject(e)
      PROVE  StepsInOrder'
  BY <1>5 DEF DeleteObject, Advance, TypeOK, StepsInOrder, Releasing
<1>6. ASSUME NEW e \in Entities, DestroyObject(e)
      PROVE  StepsInOrder'
  BY <1>6 DEF DestroyObject, Advance, TypeOK, StepsInOrder, Releasing
<1>7. ASSUME NEW e \in Entities, AwaitObject(e)
      PROVE  StepsInOrder'
  BY <1>7 DEF AwaitObject, Advance, TypeOK, StepsInOrder, Releasing
<1>8. ASSUME NEW e \in Entities, LeaveMap(e)
      PROVE  StepsInOrder'
  BY <1>8 DEF LeaveMap, Advance, TypeOK, StepsInOrder, Releasing
<1>9. ASSUME NEW e \in Entities, Return(e)
      PROVE  StepsInOrder'
  BY <1>9 DEF Return, Enter, TypeOK, StepsInOrder, Releasing
<1>10. ASSUME Leak
       PROVE  StepsInOrder'
  <2>1. Node \in Entities
    BY <1>10 DEF Entities
  <2>2. stage'[Node] = "leaked"
    BY <1>10, <2>1 DEF Leak, Enter, TypeOK
  <2>3. ASSUME NEW f \in Entities \ {Node}
        PROVE  stage'[f] = stage[f] /\ at'[f] = at[f] /\ done'[f] = done[f]
    BY <1>10, <2>1, FailedStepFacts DEF Leak, Enter, TypeOK
  <2> QED
    BY <2>2, <2>3 DEF StepsInOrder
<1>11. ASSUME NEW e \in Listening, CallListener(e)
       PROVE  StepsInOrder'
  BY <1>11 DEF CallListener, TypeOK, StepsInOrder, Releasing
<1>12. ASSUME OnDiscovery
       PROVE  StepsInOrder'
  BY <1>12 DEF OnDiscovery, TypeOK, StepsInOrder, Releasing
<1>13. ASSUME Continue
       PROVE  StepsInOrder'
  BY <1>13 DEF Continue, TypeOK, StepsInOrder, Releasing
<1>14. ASSUME EndListener
       PROVE  StepsInOrder'
  BY <1>14 DEF EndListener, TypeOK, StepsInOrder, Releasing
<1>15. ASSUME NEW e \in Entities, NEW o \in {"dps", "svc"}, Destroyed(e, o)
       PROVE  StepsInOrder'
  BY <1>15 DEF Destroyed, TypeOK, StepsInOrder, Releasing
<1>16. ASSUME UNCHANGED vars
       PROVE  StepsInOrder'
  BY <1>16 DEF vars, TypeOK, StepsInOrder, Releasing
<1> QED
  BY <1>1, <1>2, <1>3, <1>4, <1>5, <1>6, <1>7, <1>8, <1>9, <1>10, <1>11, <1>12, <1>13, <1>14, <1>15, <1>16
     DEF Next, ThreadStep, LoopStep

\* A listener comes before the calls to it, and goes with the DPS object.
LEMMA ListenerStep ==
  ASSUME TypeOK, NothingFreedEarly, StepsInOrder, ListenerOfObject, [Next]_vars
  PROVE  ListenerOfObject'
<1>1. ASSUME NEW e \in Entities, Create(e)
      PROVE  ListenerOfObject'
  BY <1>1 DEF Create, Enter, ListenerOfObject
<1>2. ASSUME NEW e \in Entities, Fail(e)
      PROVE  ListenerOfObject'
  <2>1. e \in Entities /\ Node \notin Listening /\ Listening \subseteq Entities
    BY <1>2 DEF Entities, Endpoints, Listening
  <2>2. \A f \in Listening : done'[f] = done[f]
    BY <1>2, <2>1, FailedStepFacts DEF Fail
  <2> QED
    BY <1>2, <2>2 DEF Fail, ListenerOfObject
<1>3. ASSUME NEW e \in Entities, Release(e)
      PROVE  ListenerOfObject'
  BY <1>3 DEF Release, Enter, ListenerOfObject
<1>4. ASSUME NEW e \in Entities, Obtain(e)
      PROVE  ListenerOfObject'
  <2>1. ASSUME NextStep(e) = "start", e \in Listening
        PROVE  "listener" \in done[e]
    <3>1. /\ at[e] \in 1..Len(CreateSteps[Kind(e)])
          /\ CreateSteps[Kind(e)][at[e]] = "start"
      BY <1>4, <2>1, CreateStep DEF Obtain
    <3>2. Kind(e) \in {"subscription", "service", "client"} /\ Kind(e) \in Kinds
      BY <2>1, KindOf
    <3>3. \E j \in 1..(at[e] - 1) : CreateSteps[Kind(e)][j] = "listener"
      BY <3>1, <3>2, ListenerFirst
    <3> QED
      BY <1>4, <3>3 DEF Obtain, StepsInOrder
  <2>2. \A f \in Entities \ {e} : done'[f] = done[f]
    BY <1>4 DEF Obtain, TypeOK
  <2>3. done'[e] = done[e] \cup {NextStep(e)}
    BY <1>4 DEF Obtain, TypeOK
  <2>4. Listening \subseteq Entities
    BY DEF Entities, Endpoints, Listening
  <2> QED
    BY <1>4, <2>1, <2>2, <2>3, <2>4 DEF Obtain, ListenerOfObject
<1>5. ASSUME NEW e \in Entities, DeleteObject(e)
      PROVE  ListenerOfObject'
  <2>1. \A f \in Entities \ {e}, p \in Objects : freed'[f][p] = freed[f][p]
    BY <1>5 DEF DeleteObject, TypeOK
  <2>2. ASSUME e \in Listening, NEW p \in {"dps", "listener"}
        PROVE  freed'[e][p] = freed[e][p]
    <3>1. /\ Program(e) \in {FailSteps[Kind(e)], DestroySteps[Kind(e)]}
          /\ at[e] \in 1..Len(Program(e)) /\ NextStep(e) = Program(e)[at[e]]
          /\ NextStep(e) \in {"delete", "destroy", "await", "leave"} \X (Objects \cup {"register"})
      BY <1>5, ReleaseStep DEF DeleteObject, Releasing
    <3>2. Kind(e) \in Kinds \ {"node"}
      BY <2>2, KindOf
    <3>3. ~(NextStep(e) = <<"delete", p>>)
      BY <3>1, <3>2, EndpointRelease, <2>2
    <3>4. ~(NextStep(e)[2] = p)
      BY <1>5, <3>1, <3>3 DEF DeleteObject
    <3>5. p \in Objects
      BY DEF Objects
    <3> QED
      BY <1>5, <3>4, <3>5 DEF DeleteObject, TypeOK
  <2>3. Listening \subseteq Entities /\ {"dps", "listener"} \subseteq Objects
    BY DEF Entities, Endpoints, Listening, Objects
  <2>4. \A f \in Listening, p \in {"dps", "listener"} : freed'[f][p] = freed[f][p]
    BY <2>1, <2>2, <2>3
  <2>5. UNCHANGED <<done, doomed, loop>>
    BY <1>5 DEF DeleteObject
  <2> QED
    BY <2>4, <2>5 DEF ListenerOfObject
<1>6. ASSUME NEW e \in Entities, DestroyObject(e)
      PROVE  ListenerOfObject'
  <2>1. ASSUME e \in Listening
        PROVE  ~(NextStep(e)[2] = "svc")
    <3>1. /\ Program(e) \in {FailSteps[Kind(e)], DestroySteps[Kind(e)]}
          /\ at[e] \in 1..Len(Program(e)) /\ NextStep(e) = Program(e)[at[e]]
          /\ NextStep(e) \in {"delete", "destroy", "await", "leave"} \X (Objects \cup {"register"})
      BY <1>6, ReleaseStep DEF DestroyObject, Releasing
    <3>2. Kind(e) \in Kinds \ {"node"}
      BY <2>1, KindOf
    <3>3. ~(NextStep(e) = <<"destroy", "svc">>)
      BY <3>1, <3>2, EndpointRelease
    <3> QED
      BY <1>6, <3>1, <3>3 DEF DestroyObject
  <2> QED
    BY <1>6, <2>1 DEF DestroyObject, ListenerOfObject
<1>7. ASSUME NEW e \in Entities, AwaitObject(e)
      PROVE  ListenerOfObject'
  BY <1>7 DEF AwaitObject, Advance, ListenerOfObject
<1>8. ASSUME NEW e \in Entities, LeaveMap(e)
      PROVE  ListenerOfObject'
  <2>1. \A f \in Listening : ("start" \in done'[f] <=> "start" \in done[f])
                         /\ ("listener" \in done'[f] <=> "listener" \in done[f])
    BY <1>8 DEF LeaveMap, TypeOK, Listening, Entities, Endpoints
  <2> QED
    BY <1>8, <2>1 DEF LeaveMap, ListenerOfObject
<1>9. ASSUME NEW e \in Entities, Return(e)
      PROVE  ListenerOfObject'
  BY <1>9 DEF Return, Enter, ListenerOfObject
<1>10. ASSUME Leak
       PROVE  ListenerOfObject'
  <2>1. Node \in Entities /\ Node \notin Listening /\ Listening \subseteq Entities
    BY <1>10 DEF Entities, Endpoints, Listening
  <2>2. \A f \in Listening : done'[f] = done[f]
    BY <1>10, <2>1, FailedStepFacts DEF Leak
  <2> QED
    BY <1>10, <2>2 DEF Leak, ListenerOfObject
<1>11. ASSUME NEW e \in Listening, CallListener(e)
       PROVE  ListenerOfObject'
  BY <1>11 DEF CallListener, ListenerOfObject, Alive
<1>12. ASSUME OnDiscovery
       PROVE  ListenerOfObject'
  BY <1>12 DEF OnDiscovery, ListenerOfObject
<1>13. ASSUME Continue
       PROVE  ListenerOfObject'
  <2>1. loop'[1] \in {"subscribers", "graph", "idle"}
    BY <1>13, Walks DEF Continue, Successor
  <2> QED
    BY <1>13, <2>1 DEF Continue, ListenerOfObject
<1>14. ASSUME EndListener
       PROVE  ListenerOfObject'
  BY <1>14 DEF EndListener, Idle, ListenerOfObject
<1>15. ASSUME NEW e \in Entities, NEW o \in {"dps", "svc"}, Destroyed(e, o)
       PROVE  ListenerOfObject'
  <2>1. \A f \in Entities \ {e}, p \in Objects : freed'[f][p] = freed[f][p]
    BY <1>15 DEF Destroyed, TypeOK
  <2>2. e \in Listening => o = "dps"
    BY <1>15 DEF Destroyed, ListenerOfObject
  <2>3. ~(freed'[e][o] = 0)
    <3>1. o \in Objects /\ freed[e][o] \in Nat
      BY DEF TypeOK, Objects
    <3> QED
      BY <1>15, <3>1 DEF Destroyed, TypeOK
  <2>4. Listening \subseteq Entities /\ {"dps", "listener"} \subseteq Objects
    BY DEF Entities, Endpoints, Listening, Objects
  <2>5. done' = done /\ loop' = loop /\ loop = Idle /\ doomed' \subseteq doomed
    BY <1>15 DEF Destroyed
  <2>6. ASSUME NEW f \in Listening, freed'[f]["dps"] = 0
        PROVE  f # e /\ freed'[f]["listener"] = freed[f]["listener"] /\ freed[f]["dps"] = 0
    BY <2>1, <2>2, <2>3, <2>4, <2>6
  <2>7. \A f \in Listening : loop # <<"listener", f>>
    BY <2>5 DEF Idle
  <2> QED
    BY <2>5, <2>6, <2>7 DEF ListenerOfObject
<1>16. ASSUME UNCHANGED vars
       PROVE  ListenerOfObject'
  BY <1>16 DEF vars, ListenerOfObject
<1> QED
  BY <1>1, <1>2, <1>3, <1>4, <1>5, <1>6, <1>7, <1>8, <1>9, <1>10, <1>11, <1>12, <1>13, <1>14, <1>15, <1>16
     DEF Next, ThreadStep, LoopStep

\* An endpoint is in a map only while it has its info.
LEMMA RegisteredStep ==
  ASSUME TypeOK, NothingFreedEarly, StepsInOrder, InfoOfRegistered, [Next]_vars
  PROVE  InfoOfRegistered'
<1>1. ASSUME NEW e \in Entities, Create(e)
      PROVE  InfoOfRegistered'
  <2>1. \A f \in Entities \ {e} : stage'[f] = stage[f] /\ at'[f] = at[f]
    BY <1>1 DEF Create, Enter, TypeOK
  <2>2. done[e] = {}
    BY <1>1 DEF Create, StepsInOrder
  <2>3. \A f \in Entities \ {e} : Running(f)' <=> Running(f)
    BY <2>1 DEF Running, Program
  <2> QED
    BY <1>1, <2>1, <2>2, <2>3 DEF Create, InfoOfRegistered, Entities
<1>2. ASSUME NEW e \in Entities, Fail(e)
      PROVE  InfoOfRegistered'
  <2>1. \A f \in Entities \ {e} : stage'[f] = stage[f] /\ at'[f] = at[f]
    BY <1>2 DEF Fail, Enter, TypeOK
  <2>2. \A f \in Entities \ {e} : Running(f)' <=> Running(f)
    BY <2>1 DEF Running, Program
  <2>3. \A f \in Endpoints : done'[f] = done[f]
    BY <1>2, FailedStepFacts DEF Fail, Entities, Endpoints
  <2>4. stage[e] = "creating" /\ Running(e)
    BY <1>2, FailedStepFacts DEF Fail
  <2> QED
    BY <1>2, <2>1, <2>2, <2>3, <2>4 DEF Fail, InfoOfRegistered, Entities
<1>3. ASSUME NEW e \in Entities, Release(e)
      PROVE  InfoOfRegistered'
  <2>1. \A f \in Entities \ {e} : stage'[f] = stage[f] /\ at'[f] = at[f]
    BY <1>3 DEF Release, Enter, TypeOK
  <2>2. \A f \in Entities \ {e} : Running(f)' <=> Running(f)
    BY <2>1 DEF Running, Program
  <2>3. stage'[e] = "destroying" /\ at'[e] = 1
    BY <1>3 DEF Release, Enter, TypeOK
  <2> QED
    BY <1>3, <2>1, <2>2, <2>3 DEF Release, InfoOfRegistered, Entities
<1>4. ASSUME NEW e \in Entities, Obtain(e)
      PROVE  InfoOfRegistered'
  <2>1. \A f \in Entities \ {e} : stage'[f] = stage[f] /\ at'[f] = at[f] /\ done'[f] = done[f]
    BY <1>4 DEF Obtain, Advance, TypeOK
  <2>2. \A f \in Entities \ {e} : Running(f)' <=> Running(f)
    BY <2>1 DEF Running, Program
  <2>3. /\ at[e] \in 1..Len(CreateSteps[Kind(e)]) /\ at[e] \in 1..9
        /\ NextStep(e) = CreateSteps[Kind(e)][at[e]]
    BY <1>4, CreateStep DEF Obtain
  <2>4. Kind(e) \in Kinds /\ Len(CreateSteps[Kind(e)]) \in 1..9
    BY KindOf, CreateFacts
  <2>5. /\ stage'[e] = "creating" /\ at'[e] = at[e] + 1
        /\ done'[e] = done[e] \cup {NextStep(e)}
    BY <1>4 DEF Obtain, Advance, TypeOK
  <2>6. ASSUME e \in Endpoints, "register" \in done'[e]
        PROVE  /\ e \in Publishers \cup Subscriptions
               /\ "info" \in done'[e] /\ freed'[e]["info"] = 0
               /\ ~Running(e)'
    <3>1. NextStep(e) = "register"
      BY <1>4, <2>5, <2>6 DEF InfoOfRegistered, Obtain
    <3>2. /\ at[e] = Len(CreateSteps[Kind(e)])
          /\ Kind(e) \in {"publisher", "subscription"}
          /\ \E j \in 1..(at[e] - 1) : CreateSteps[Kind(e)][j] = "info"
      BY <2>3, <2>4, <3>1, RegisterLast
    <3>3. "info" \in done[e]
      BY <1>4, <3>2 DEF Obtain, StepsInOrder
    <3>4. e \in Publishers \cup Subscriptions
      BY <3>2, KindOf
    <3>5. freed[e]["info"] = 0
      BY <1>4 DEF Obtain, NothingFreedEarly, Objects
    <3>6. Program(e)' = CreateSteps[Kind(e)]
      BY <2>5 DEF Program
    <3> QED
      BY <1>4, <2>4, <2>5, <3>2, <3>3, <3>4, <3>5, <3>6 DEF Running, Obtain
  <2> QED
    BY <1>4, <2>1, <2>2, <2>5, <2>6 DEF Obtain, InfoOfRegistered, Entities
<1>5. ASSUME NEW e \in Entities, DeleteObject(e)
      PROVE  InfoOfRegistered'
  <2>1. stage[e] \in {"failing", "destroying"} /\ Running(e)
    BY <1>5 DEF DeleteObject, Releasing
  <2>2. ASSUME e \in Endpoints
        PROVE  "register" \notin done[e]
    <3>1. SUFFICES ASSUME "register" \in done[e]
                   PROVE  FALSE
      OBVIOUS
    <3>2. stage[e] = "destroying" /\ at[e] = 1 /\ e \in Publishers \cup Subscriptions
      BY <2>1, <2>2, <3>1 DEF InfoOfRegistered
    <3>3. Kind(e) \in {"publisher", "subscription"}
      BY <3>2, KindOf
    <3>4. NextStep(e) = <<"leave", "register">>
      BY <2>1, <3>2, <3>3, ReleaseStep, LeaveFirst
    <3> QED
      BY <1>5, <3>4 DEF DeleteObject
  <2>3. \A f \in Entities \ {e} : stage'[f] = stage[f] /\ at'[f] = at[f]
    BY <1>5 DEF DeleteObject, Advance, TypeOK
  <2>4. \A f \in Entities \ {e} : (Running(f)' <=> Running(f)) /\ freed'[f]["info"] = freed[f]["info"]
    BY <1>5, <2>3 DEF Running, Program, DeleteObject, TypeOK, Objects
  <2> QED
    BY <1>5, <2>2, <2>3, <2>4 DEF DeleteObject, InfoOfRegistered, Entities
<1>6. ASSUME NEW e \in Entities, DestroyObject(e)
      PROVE  InfoOfRegistered'
  <2>1. stage[e] \in {"failing", "destroying"} /\ Running(e)
    BY <1>6 DEF DestroyObject, Releasing
  <2>2. ASSUME e \in Endpoints
        PROVE  "register" \notin done[e]
    <3>1. SUFFICES ASSUME "register" \in done[e]
                   PROVE  FALSE
      OBVIOUS
    <3>2. stage[e] = "destroying" /\ at[e] = 1 /\ e \in Publishers \cup Subscriptions
      BY <2>1, <2>2, <3>1 DEF InfoOfRegistered
    <3>3. Kind(e) \in {"publisher", "subscription"}
      BY <3>2, KindOf
    <3>4. NextStep(e) = <<"leave", "register">>
      BY <2>1, <3>2, <3>3, ReleaseStep, LeaveFirst
    <3> QED
      BY <1>6, <3>4 DEF DestroyObject
  <2>3. \A f \in Entities \ {e} : stage'[f] = stage[f] /\ at'[f] = at[f]
    BY <1>6 DEF DestroyObject, Advance, TypeOK
  <2>4. \A f \in Entities \ {e} : (Running(f)' <=> Running(f)) /\ freed'[f]["info"] = freed[f]["info"]
    BY <1>6, <2>3 DEF Running, Program, DestroyObject, TypeOK, Objects
  <2> QED
    BY <1>6, <2>2, <2>3, <2>4 DEF DestroyObject, InfoOfRegistered, Entities
<1>7. ASSUME NEW e \in Entities, AwaitObject(e)
      PROVE  InfoOfRegistered'
  <2>1. stage[e] \in {"failing", "destroying"} /\ Running(e)
    BY <1>7 DEF AwaitObject, Releasing
  <2>2. ASSUME e \in Endpoints
        PROVE  "register" \notin done[e]
    <3>1. SUFFICES ASSUME "register" \in done[e]
                   PROVE  FALSE
      OBVIOUS
    <3>2. stage[e] = "destroying" /\ at[e] = 1 /\ e \in Publishers \cup Subscriptions
      BY <2>1, <2>2, <3>1 DEF InfoOfRegistered
    <3>3. Kind(e) \in {"publisher", "subscription"}
      BY <3>2, KindOf
    <3>4. NextStep(e) = <<"leave", "register">>
      BY <2>1, <3>2, <3>3, ReleaseStep, LeaveFirst
    <3> QED
      BY <1>7, <3>4 DEF AwaitObject
  <2>3. \A f \in Entities \ {e} : stage'[f] = stage[f] /\ at'[f] = at[f]
    BY <1>7 DEF AwaitObject, Advance, TypeOK
  <2>4. \A f \in Entities \ {e} : (Running(f)' <=> Running(f)) /\ freed'[f]["info"] = freed[f]["info"]
    BY <1>7, <2>3 DEF Running, Program, AwaitObject, TypeOK, Objects
  <2> QED
    BY <1>7, <2>2, <2>3, <2>4 DEF AwaitObject, InfoOfRegistered, Entities
<1>8. ASSUME NEW e \in Entities, LeaveMap(e)
      PROVE  InfoOfRegistered'
  <2>1. \A f \in Entities \ {e} : stage'[f] = stage[f] /\ at'[f] = at[f] /\ done'[f] = done[f]
    BY <1>8 DEF LeaveMap, Advance, TypeOK
  <2>2. \A f \in Entities \ {e} : Running(f)' <=> Running(f)
    BY <2>1 DEF Running, Program
  <2>3. "register" \notin done'[e]
    BY <1>8 DEF LeaveMap, TypeOK
  <2> QED
    BY <1>8, <2>1, <2>2, <2>3 DEF LeaveMap, InfoOfRegistered, Entities
<1>9. ASSUME NEW e \in Entities, Return(e)
      PROVE  InfoOfRegistered'
  <2>1. \A f \in Entities \ {e} : stage'[f] = stage[f] /\ at'[f] = at[f]
    BY <1>9 DEF Return, Enter, TypeOK
  <2>2. \A f \in Entities \ {e} : Running(f)' <=> Running(f)
    BY <2>1 DEF Running, Program
  <2>3. ASSUME e \in Endpoints, "register" \in done[e]
        PROVE  stage[e] = "creating"
    <3>1. SUFFICES ASSUME stage[e] = "destroying"
                   PROVE  FALSE
      BY <1>9, <2>3 DEF InfoOfRegistered, Return
    <3>2. at[e] = 1 /\ Kind(e) \in Kinds
      BY <2>3, <3>1, KindOf DEF InfoOfRegistered
    <3>3. Program(e) = DestroySteps[Kind(e)] /\ Len(Program(e)) \in 1..8
      BY <3>1, <3>2, ReleaseFacts DEF Program
    <3>4. at[e] \in 1..Len(Program(e))
      <4> DEFINE m == Len(Program(e))
      <4>1. m \in 1..8
        BY <3>3
      <4>2. 1 \in 1..m
        <5> HIDE DEF m
        <5> QED
          BY <4>1
      <4> QED
        BY <3>2, <4>2
    <3> QED
      BY <1>9, <3>4 DEF Return, Running
  <2>4. stage[e] = "creating" => stage'[e] = "created"
    BY <1>9 DEF Return, Enter, TypeOK
  <2> QED
    BY <1>9, <2>1, <2>2, <2>3, <2>4 DEF Return, InfoOfRegistered, Entities
<1>10. ASSUME Leak
       PROVE  InfoOfRegistered'
  <2>1. \A f \in Endpoints : stage'[f] = stage[f] /\ at'[f] = at[f]
    BY <1>10 DEF Leak, Enter, TypeOK, Entities
  <2>2. \A f \in Endpoints : Running(f)' <=> Running(f)
    BY <2>1 DEF Running, Program
  <2>3. \A f \in Endpoints : done'[f] = done[f]
    BY <1>10, FailedStepFacts DEF Leak, Entities
  <2> QED
    BY <1>10, <2>1, <2>2, <2>3 DEF Leak, InfoOfRegistered
<1>11. ASSUME NEW e \in Listening, CallListener(e)
       PROVE  InfoOfRegistered'
  BY <1>11 DEF CallListener, InfoOfRegistered, Running, Program
<1>12. ASSUME OnDiscovery
       PROVE  InfoOfRegistered'
  BY <1>12 DEF OnDiscovery, InfoOfRegistered, Running, Program
<1>13. ASSUME Continue
       PROVE  InfoOfRegistered'
  BY <1>13 DEF Continue, InfoOfRegistered, Running, Program
<1>14. ASSUME EndListener
       PROVE  InfoOfRegistered'
  BY <1>14 DEF EndListener, InfoOfRegistered, Running, Program
<1>15. ASSUME NEW e \in Entities, NEW o \in {"dps", "svc"}, Destroyed(e, o)
       PROVE  InfoOfRegistered'
  <2>1. \A f \in Entities : freed'[f]["info"] = freed[f]["info"]
    BY <1>15 DEF Destroyed, TypeOK, Objects
  <2>2. \A f \in Entities : Running(f)' <=> Running(f)
    BY <1>15 DEF Destroyed, Running, Program
  <2> QED
    BY <1>15, <2>1, <2>2 DEF Destroyed, InfoOfRegistered, Entities
<1>16. ASSUME UNCHANGED vars
       PROVE  InfoOfRegistered'
  BY <1>16 DEF vars, InfoOfRegistered, Running, Program
<1> QED
  BY <1>1, <1>2, <1>3, <1>4, <1>5, <1>6, <1>7, <1>8, <1>9, <1>10, <1>11, <1>12, <1>13, <1>14, <1>15, <1>16
     DEF Next, ThreadStep, LoopStep

\* While a node has its discovery service, its release is at one of its first
\* two steps, and DPS has been asked to destroy the service before the second.
LEMMA ServiceWaits ==
  ASSUME TypeOK, ServiceGoesFirst,
         stage[Node] \in {"failing", "destroying"}, Running(Node),
         "svc" \in done[Node], freed[Node]["svc"] = 0
  PROVE  \/ at[Node] = 1 /\ NextStep(Node) = <<"destroy", "svc">>
         \/ at[Node] = 2 /\ NextStep(Node) = <<"await", "svc">> /\ <<Node, "svc">> \in doomed
<1>1. NextStep(Node) = NodeRelease[at[Node]]
  BY ReleaseStep, NodeReleaseFacts, KindOf DEF Entities
<1> QED
  BY <1>1, NodeReleaseFacts DEF ServiceGoesFirst

\* A node whose announcement fails has everything onDiscovery uses.
LEMMA FailedAnnouncement ==
  ASSUME TypeOK, NothingFreedEarly, StepsInOrder, FailedStep(Node)
  PROVE  \/ done'[Node] = done[Node]
         \/ /\ done'[Node] = done[Node] \cup {"announce"}
            /\ HandlerUses \cup {"svc"} \subseteq done[Node]
            /\ \A o \in HandlerUses : freed[Node][o] = 0
<1>1. Node \in Entities /\ Kind(Node) = "node"
  BY KindOf DEF Entities
<1>2. stage[Node] = "creating"
  BY <1>1, FailedStepFacts
<1>3. \A o \in HandlerUses : freed[Node][o] = 0
  BY <1>1, <1>2 DEF NothingFreedEarly, HandlerUses, Objects
<1>4. ASSUME at[Node] = 9
      PROVE  HandlerUses \cup {"svc"} \subseteq done[Node]
  <2>1. at[Node] - 1 = 8
    BY <1>4
  <2> QED
    BY <1>1, <1>2, <2>1, NodeOrder DEF StepsInOrder
<1> QED
  BY <1>1, <1>3, <1>4, FailedStepFacts

\* A node frees what onDiscovery uses after its discovery service.
LEMMA ServiceStep ==
  ASSUME TypeOK, NothingFreedEarly, StepsInOrder, ServiceGoesFirst, [Next]_vars
  PROVE  ServiceGoesFirst'
<1>1. ASSUME NEW e \in Entities, Create(e)
      PROVE  ServiceGoesFirst'
  <2>1. e = Node => done[e] = {}
    BY <1>1 DEF Create, StepsInOrder
  <2>2. \A f \in Entities \ {e} : stage'[f] = stage[f] /\ at'[f] = at[f]
    BY <1>1 DEF Create, Enter, TypeOK
  <2> QED
    BY <1>1, <2>1, <2>2 DEF Create, ServiceGoesFirst, Entities
<1>2. ASSUME NEW e \in Entities, Fail(e)
      PROVE  ServiceGoesFirst'
  <2>1. \A f \in Entities \ {e} : stage'[f] = stage[f] /\ at'[f] = at[f]
    BY <1>2 DEF Fail, Enter, TypeOK
  <2>2. stage'[e] = "failing" /\ at'[e] = 1
    BY <1>2 DEF Fail, Enter, TypeOK
  <2>3. CASE e = Node
    <3>1. \/ done'[e] = done[e]
          \/ /\ done'[e] = done[e] \cup {"announce"}
             /\ HandlerUses \cup {"svc"} \subseteq done[e]
             /\ \A o \in HandlerUses : freed[e][o] = 0
      BY <1>2, <2>3, FailedAnnouncement DEF Fail
    <3> QED
      BY <1>2, <2>2, <2>3, <3>1 DEF Fail, ServiceGoesFirst
  <2>4. CASE ~(e = Node)
    <3>1. done'[Node] = done[Node]
      BY <1>2, <2>4, FailedStepFacts DEF Fail, Entities
    <3> QED
      BY <1>2, <2>1, <2>4, <3>1 DEF Fail, ServiceGoesFirst, Entities
  <2> QED
    BY <2>3, <2>4
<1>3. ASSUME NEW e \in Entities, Release(e)
      PROVE  ServiceGoesFirst'
  <2>1. \A f \in Entities \ {e} : stage'[f] = stage[f] /\ at'[f] = at[f]
    BY <1>3 DEF Release, Enter, TypeOK
  <2>2. stage'[e] = "destroying" /\ at'[e] = 1
    BY <1>3 DEF Release, Enter, TypeOK
  <2> QED
    BY <1>3, <2>1, <2>2 DEF Release, ServiceGoesFirst, Entities
<1>4. ASSUME NEW e \in Entities, Obtain(e)
      PROVE  ServiceGoesFirst'
  <2>1. \A f \in Entities \ {e} : stage'[f] = stage[f] /\ at'[f] = at[f] /\ done'[f] = done[f]
    BY <1>4 DEF Obtain, Advance, TypeOK
  <2>2. done'[e] = done[e] \cup {NextStep(e)} /\ stage'[e] = "creating"
    BY <1>4 DEF Obtain, Advance, TypeOK
  <2>3. ASSUME e = Node, NextStep(e) = "announce"
        PROVE  HandlerUses \cup {"svc"} \subseteq done[e]
    <3>1. Kind(e) = "node"
      BY <2>3, KindOf
    <3>2. at[e] \in 1..9 /\ CreateSteps["node"][at[e]] = "announce"
      BY <1>4, <2>3, <3>1, CreateStep, NodeOrder DEF Obtain
    <3>3. at[e] - 1 = 8
      BY <3>2, NodeOrder
    <3> QED
      BY <1>4, <3>1, <3>3, NodeOrder DEF Obtain, StepsInOrder
  <2>4. e = Node => \A o \in HandlerUses : freed[Node][o] = 0
    BY <1>4 DEF Obtain, NothingFreedEarly, HandlerUses, Objects
  <2> QED
    BY <1>4, <2>1, <2>2, <2>3, <2>4 DEF Obtain, ServiceGoesFirst, Entities
<1>5. ASSUME NEW e \in Entities, DeleteObject(e)
      PROVE  ServiceGoesFirst'
  <2>1. \A f \in Entities \ {e} : stage'[f] = stage[f] /\ at'[f] = at[f]
    BY <1>5 DEF DeleteObject, Advance, TypeOK
  <2>2. ASSUME e = Node, "svc" \in done[Node], freed[Node]["svc"] = 0
        PROVE  \/ at[e] = 1 /\ NextStep(e) = <<"destroy", "svc">>
               \/ at[e] = 2 /\ NextStep(e) = <<"await", "svc">> /\ <<e, "svc">> \in doomed
    <3>1. stage[e] \in {"failing", "destroying"} /\ Running(e)
      BY <1>5 DEF DeleteObject, Releasing
    <3> QED
      BY <2>2, <3>1, ServiceWaits
  <2>3. ASSUME e = Node
        PROVE  /\ freed'[Node]["svc"] = freed[Node]["svc"]
               /\ ~("svc" \in done[Node] /\ freed[Node]["svc"] = 0)
    <3>1. stage[e] \in {"failing", "destroying"} /\ Running(e)
      BY <1>5 DEF DeleteObject, Releasing
    <3>2. NextStep(e) = NodeRelease[at[e]] /\ at[e] \in 1..8
      BY <2>3, <3>1, ReleaseStep, NodeReleaseFacts, KindOf
    <3>3. NextStep(e) \in {"delete", "destroy", "await", "leave"} \X (Objects \cup {"register"})
      BY <3>1, ReleaseStep
    <3>4. ~(NextStep(e)[2] = "svc")
      BY <1>5, <3>2, <3>3, NodeReleaseFacts DEF DeleteObject
    <3>5. freed'[Node]["svc"] = freed[Node]["svc"]
      BY <1>5, <2>3, <3>4 DEF DeleteObject, TypeOK, Objects
    <3> QED
      BY <1>5, <2>2, <2>3, <3>5 DEF DeleteObject
  <2>4. ~(e = Node) => freed'[Node] = freed[Node]
    BY <1>5 DEF DeleteObject, TypeOK
  <2> QED
    BY <1>5, <2>1, <2>3, <2>4 DEF DeleteObject, ServiceGoesFirst, Entities
<1>6. ASSUME NEW e \in Entities, DestroyObject(e)
      PROVE  ServiceGoesFirst'
  <2>1. \A f \in Entities \ {e} : stage'[f] = stage[f] /\ at'[f] = at[f]
    BY <1>6 DEF DestroyObject, Advance, TypeOK
  <2>2. ASSUME e = Node, "svc" \in done[Node], freed[Node]["svc"] = 0
        PROVE  \/ at[e] = 1 /\ NextStep(e) = <<"destroy", "svc">>
               \/ at[e] = 2 /\ NextStep(e) = <<"await", "svc">> /\ <<e, "svc">> \in doomed
    <3>1. stage[e] \in {"failing", "destroying"} /\ Running(e)
      BY <1>6 DEF DestroyObject, Releasing
    <3> QED
      BY <2>2, <3>1, ServiceWaits
  <2>3. at'[e] = at[e] + 1 /\ stage'[e] = stage[e]
    BY <1>6 DEF DestroyObject, Advance, TypeOK
  <2>4. "svc" \in done[e] /\ NextStep(e) = <<"destroy", "svc">> => <<e, "svc">> \in doomed'
    BY <1>6 DEF DestroyObject
  <2>5. doomed \subseteq doomed' /\ UNCHANGED <<done, freed, loop>>
    BY <1>6 DEF DestroyObject
  <2>6. ASSUME e = Node, "svc" \in done[Node], freed[Node]["svc"] = 0
        PROVE  at'[e] = 2 /\ <<Node, "svc">> \in doomed'
    BY <1>6, <2>2, <2>3, <2>4, <2>6 DEF DestroyObject
  <2> QED
    BY <2>1, <2>3, <2>5, <2>6 DEF ServiceGoesFirst, Entities
<1>7. ASSUME NEW e \in Entities, AwaitObject(e)
      PROVE  ServiceGoesFirst'
  <2>1. \A f \in Entities \ {e} : stage'[f] = stage[f] /\ at'[f] = at[f]
    BY <1>7 DEF AwaitObject, Advance, TypeOK
  <2>2. ASSUME e = Node, "svc" \in done[Node], freed[Node]["svc"] = 0
        PROVE  \/ at[e] = 1 /\ NextStep(e) = <<"destroy", "svc">>
               \/ at[e] = 2 /\ NextStep(e) = <<"await", "svc">> /\ <<e, "svc">> \in doomed
    <3>1. stage[e] \in {"failing", "destroying"} /\ Running(e)
      BY <1>7 DEF AwaitObject, Releasing
    <3> QED
      BY <2>2, <3>1, ServiceWaits
  <2>3. e = Node => ~("svc" \in done[Node] /\ freed[Node]["svc"] = 0)
    BY <1>7, <2>2 DEF AwaitObject
  <2> QED
    BY <1>7, <2>1, <2>3 DEF AwaitObject, ServiceGoesFirst, Entities
<1>8. ASSUME NEW e \in Entities, LeaveMap(e)
      PROVE  ServiceGoesFirst'
  <2>1. \A f \in Entities \ {e} : stage'[f] = stage[f] /\ at'[f] = at[f]
    BY <1>8 DEF LeaveMap, Advance, TypeOK
  <2>2. ASSUME e = Node, "svc" \in done[Node], freed[Node]["svc"] = 0
        PROVE  \/ at[e] = 1 /\ NextStep(e) = <<"destroy", "svc">>
               \/ at[e] = 2 /\ NextStep(e) = <<"await", "svc">> /\ <<e, "svc">> \in doomed
    <3>1. stage[e] \in {"failing", "destroying"} /\ Running(e)
      BY <1>8 DEF LeaveMap, Releasing
    <3> QED
      BY <2>2, <3>1, ServiceWaits
  <2>3. e = Node => ~("svc" \in done[Node] /\ freed[Node]["svc"] = 0)
    BY <1>8, <2>2 DEF LeaveMap
  <2>4. \A x \in HandlerUses \cup {"svc", "announce"} : x \in done'[Node] <=> x \in done[Node]
    BY <1>8 DEF LeaveMap, TypeOK, HandlerUses, Entities
  <2> QED
    BY <1>8, <2>1, <2>3, <2>4 DEF LeaveMap, ServiceGoesFirst, Entities
<1>9. ASSUME NEW e \in Entities, Return(e)
      PROVE  ServiceGoesFirst'
  <2>1. \A f \in Entities \ {e} : stage'[f] = stage[f] /\ at'[f] = at[f]
    BY <1>9 DEF Return, Enter, TypeOK
  <2>2. ASSUME e = Node, "svc" \in done[Node], freed[Node]["svc"] = 0
        PROVE  stage'[e] = "created"
    <3>1. SUFFICES ASSUME stage[e] \in {"failing", "destroying"}
                   PROVE  FALSE
      BY <1>9 DEF Return, Enter, TypeOK
    <3>2. Program(e) = NodeRelease /\ at[e] \in {1, 2}
      BY <2>2, <3>1, KindOf, NodeReleaseFacts DEF Program, ServiceGoesFirst
    <3> QED
      BY <1>9, <3>2, NodeReleaseFacts DEF Return, Running
  <2> QED
    BY <1>9, <2>1, <2>2 DEF Return, ServiceGoesFirst, Entities
<1>10. ASSUME Leak
       PROVE  ServiceGoesFirst'
  <2>1. stage'[Node] = "leaked"
    BY <1>10 DEF Leak, Enter, TypeOK, Entities
  <2>2. \/ done'[Node] = done[Node]
        \/ /\ done'[Node] = done[Node] \cup {"announce"}
           /\ HandlerUses \cup {"svc"} \subseteq done[Node]
           /\ \A o \in HandlerUses : freed[Node][o] = 0
    BY <1>10, FailedAnnouncement DEF Leak
  <2> QED
    BY <1>10, <2>1, <2>2 DEF Leak, ServiceGoesFirst
<1>11. ASSUME NEW e \in Listening, CallListener(e)
       PROVE  ServiceGoesFirst'
  <2>1. loop'[1] = "listener"
    BY <1>11 DEF CallListener
  <2> QED
    BY <1>11, <2>1, Walks DEF CallListener, ServiceGoesFirst
<1>12. ASSUME OnDiscovery
       PROVE  ServiceGoesFirst'
  <2>1. "announce" \in done[Node] /\ freed[Node]["svc"] = 0
    BY <1>12 DEF OnDiscovery, Alive
  <2> QED
    BY <1>12, <2>1 DEF OnDiscovery, ServiceGoesFirst
<1>13. ASSUME Continue
       PROVE  ServiceGoesFirst'
  BY <1>13 DEF Continue, ServiceGoesFirst
<1>14. ASSUME EndListener
       PROVE  ServiceGoesFirst'
  BY <1>14, Walks DEF EndListener, Idle, ServiceGoesFirst
<1>15. ASSUME NEW e \in Entities, NEW o \in {"dps", "svc"}, Destroyed(e, o)
       PROVE  ServiceGoesFirst'
  <2>1. ~(loop'[1] \in DOMAIN Successor)
    BY <1>15, Walks DEF Destroyed, Idle
  <2>2. CASE e = Node
    <3>1. Node \notin Listening
      BY DEF Endpoints, Listening
    <3>2. \A p \in HandlerUses : freed'[Node][p] = freed[Node][p]
      BY <1>15, <2>2, <3>1 DEF Destroyed, TypeOK, HandlerUses, Objects
    <3>3. o = "svc" => ~(freed'[Node]["svc"] = 0)
      <4>1. freed[Node]["svc"] \in Nat
        BY DEF TypeOK, Entities, Objects
      <4>2. o = "svc" => freed'[Node]["svc"] = freed[Node]["svc"] + 1
        BY <1>15, <2>2 DEF Destroyed, TypeOK, Objects
      <4> QED
        BY <4>1, <4>2
    <3>4. o = "dps" => <<Node, "svc">> \notin doomed /\ freed'[Node]["svc"] = freed[Node]["svc"]
      BY <1>15, <2>2 DEF Destroyed, TypeOK, Objects
    <3> QED
      BY <1>15, <2>1, <2>2, <3>2, <3>3, <3>4 DEF Destroyed, ServiceGoesFirst
  <2>3. CASE ~(e = Node)
    <3>1. freed'[Node] = freed[Node]
      BY <1>15, <2>3 DEF Destroyed, TypeOK
    <3>2. <<Node, "svc">> \in doomed' <=> <<Node, "svc">> \in doomed
      BY <1>15, <2>3 DEF Destroyed
    <3> QED
      BY <1>15, <2>1, <3>1, <3>2 DEF Destroyed, ServiceGoesFirst
  <2> QED
    BY <2>2, <2>3
<1>16. ASSUME UNCHANGED vars
       PROVE  ServiceGoesFirst'
  BY <1>16 DEF vars, ServiceGoesFirst
<1> QED
  BY <1>1, <1>2, <1>3, <1>4, <1>5, <1>6, <1>7, <1>8, <1>9, <1>10, <1>11, <1>12, <1>13, <1>14, <1>15, <1>16
     DEF Next, ThreadStep, LoopStep

-----------------------------------------------------------------------------
(* Who frees what. *)

\* The steps of a release differ, and what it gives to DPS it does not delete.
LEMMA OneWay ==
  ASSUME NEW k \in Kinds, NEW P \in {FailSteps[k], DestroySteps[k]},
         NEW i \in 1..Len(P), NEW j \in 1..Len(P), i # j
  PROVE  /\ P[i] # P[j]
         /\ P[i] # Delete("dps") /\ P[i] # Delete("svc")
         /\ k \in {"subscription", "service", "client"} => P[i] # Delete("listener")
<1> USE DEF FailPublisher, FailSubscription, FailService, FailClient,
            DestroyPublisher, DestroySubscription, DestroyService, DestroyClient,
            FailSteps, DestroySteps, Delete, Destroy, Leave
<1>1. CASE k = "publisher"
  <2>1. CASE P = FailPublisher
    BY <1>1, <2>1
  <2>2. CASE P = DestroyPublisher
    BY <1>1, <2>2
  <2> QED
    BY <1>1, <2>1, <2>2
<1>2. CASE k = "subscription"
  <2>1. CASE P = FailSubscription
    BY <1>2, <2>1
  <2>2. CASE P = DestroySubscription
    BY <1>2, <2>2
  <2> QED
    BY <1>2, <2>1, <2>2
<1>3. CASE k = "service"
  <2>1. CASE P = FailService
    BY <1>3, <2>1
  <2>2. CASE P = DestroyService
    BY <1>3, <2>2
  <2> QED
    BY <1>3, <2>1, <2>2
<1>4. CASE k = "client"
  <2>1. CASE P = FailClient
    BY <1>4, <2>1
  <2>2. CASE P = DestroyClient
    BY <1>4, <2>2
  <2> QED
    BY <1>4, <2>1, <2>2
<1>5. CASE k = "node"
  <2>1. P = NodeRelease
    BY <1>5
  <2>2. /\ Len(NodeRelease) = 8
        /\ NodeRelease[1] = <<"destroy", "svc">> /\ NodeRelease[2] = <<"await", "svc">>
        /\ NodeRelease[3] = <<"destroy", "dps">> /\ NodeRelease[4] = <<"await", "dps">>
        /\ NodeRelease[5] = <<"delete", "listener">> /\ NodeRelease[6] = <<"delete", "guard">>
        /\ NodeRelease[7] = <<"delete", "info">> /\ NodeRelease[8] = <<"delete", "handle">>
    BY DEF NodeRelease, Await
  <2>3. /\ i \in {1, 2, 3, 4, 5, 6, 7, 8} /\ j \in {1, 2, 3, 4, 5, 6, 7, 8}
    BY <2>1, <2>2
  <2>4. P[i] # Delete("dps") /\ P[i] # Delete("svc")
    BY <2>1, <2>2, <2>3
  <2>5. P[i] # P[j]
    BY <2>1, <2>2, <2>3
  <2> QED
    BY <1>5, <2>4, <2>5
<1> QED
  BY <1>1, <1>2, <1>3, <1>4, <1>5 DEF Kinds

\* A release frees every object that the creation obtains, but the listener of
\* a DPS object.
LEMMA AllWays ==
  ASSUME NEW k \in Kinds, NEW P \in {FailSteps[k], DestroySteps[k]},
         NEW o \in Objects, NEW i \in 1..Len(CreateSteps[k]), CreateSteps[k][i] = o
  PROVE  \/ \E j \in 1..Len(P) : P[j] = Delete(o) \/ P[j] = Destroy(o)
         \/ o = "listener" /\ k \in {"subscription", "service", "client"}
<1> USE DEF CreateSteps, FailSteps, DestroySteps, Delete, Destroy, Leave
<1> DEFINE W(S) == \E j \in 1..Len(P) : P[j] \in S
<1>1. CASE k = "publisher"
  <2>1. o \in {"info", "types", "dps", "handle"}
    BY <1>1 DEF CreatePublisher, Objects
  <2>2. CASE P = FailPublisher
    <3>1. Len(P) = 4 /\ P[1] = Delete("types") /\ P[2] = Destroy("dps")
          /\ P[3] = Delete("info") /\ P[4] = Delete("handle")
      BY <2>2 DEF FailPublisher
    <3> QED
      BY <2>1, <3>1
  <2>3. CASE P = DestroyPublisher
    <3>1. Len(P) = 5 /\ P[2] = Destroy("dps") /\ P[3] = Delete("types")
          /\ P[4] = Delete("info") /\ P[5] = Delete("handle")
      BY <2>3 DEF DestroyPublisher
    <3> QED
      BY <2>1, <3>1
  <2> QED
    BY <1>1, <2>2, <2>3
<1>2. CASE k = "subscription"
  <2>1. o \in {"info", "types", "dps", "handle", "listener"}
    BY <1>2 DEF CreateSubscription, Objects
  <2>2. CASE P = FailSubscription
    <3>1. Len(P) = 4 /\ P[1] = Destroy("dps") /\ P[2] = Delete("types")
          /\ P[3] = Delete("info") /\ P[4] = Delete("handle")
      BY <2>2 DEF FailSubscription
    <3> QED
      BY <1>2, <2>1, <3>1
  <2>3. CASE P = DestroySubscription
    <3>1. Len(P) = 5 /\ P[2] = Destroy("dps") /\ P[3] = Delete("types")
          /\ P[4] = Delete("info") /\ P[5] = Delete("handle")
      BY <2>3 DEF DestroySubscription
    <3> QED
      BY <1>2, <2>1, <3>1
  <2> QED
    BY <1>2, <2>2, <2>3
<1>3. CASE k = "service"
  <2>1. o \in {"info", "types", "dps", "handle", "listener"}
    BY <1>3 DEF CreateService, Objects
  <2>2. Len(P) = 4 /\ P[1] = Destroy("dps") /\ P[2] = Delete("types")
        /\ P[3] = Delete("info") /\ P[4] = Delete("handle")
    BY <1>3 DEF FailService, DestroyService
  <2> QED
    BY <1>3, <2>1, <2>2
<1>4. CASE k = "client"
  <2>1. o \in {"info", "types", "dps", "handle", "listener"}
    BY <1>4 DEF CreateClient, Objects
  <2>2. Len(P) = 4 /\ P[1] = Delete("types") /\ P[2] = Destroy("dps")
        /\ P[3] = Delete("info") /\ P[4] = Delete("handle")
    BY <1>4 DEF FailClient, DestroyClient
  <2> QED
    BY <1>4, <2>1, <2>2
<1>5. CASE k = "node"
  <2>1. o \in {"handle", "info", "guard", "listener", "dps", "svc"}
    BY <1>5 DEF CreateNode, Objects
  <2>2. Len(P) = 8 /\ P[1] = Destroy("svc") /\ P[3] = Destroy("dps")
        /\ P[5] = Delete("listener") /\ P[6] = Delete("guard")
        /\ P[7] = Delete("info") /\ P[8] = Delete("handle")
    BY <1>5 DEF NodeRelease, Await
  <2> QED
    BY <2>1, <2>2
<1> QED
  BY <1>1, <1>2, <1>3, <1>4, <1>5 DEF Kinds

\* A listener is handed to the DPS object that is there.
LEMMA ObjectFirst ==
  ASSUME NEW k \in {"subscription", "service", "client"},
         NEW i \in 1..Len(CreateSteps[k]), CreateSteps[k][i] = "data"
  PROVE  \E j \in 1..(i - 1) : CreateSteps[k][j] = "dps"
<1> USE DEF CreateSubscription, CreateService, CreateClient
<1>1. CASE k = "subscription"
  BY <1>1 DEF CreateSteps
<1>2. CASE k = "service"
  BY <1>2 DEF CreateSteps
<1>3. CASE k = "client"
  BY <1>3 DEF CreateSteps
<1> QED
  BY <1>1, <1>2, <1>3

\* The same, of one step.
LEMMA ReleaseForms ==
  ASSUME NEW k \in Kinds, NEW P \in {FailSteps[k], DestroySteps[k]}, NEW i \in 1..Len(P)
  PROVE  /\ P[i] # Delete("dps") /\ P[i] # Delete("svc")
         /\ k \in {"subscription", "service", "client"} => P[i] # Delete("listener")
<1>1. Len(P) \in 4..8
  <2>1. CASE k = "publisher"
    <3>1. Len(FailPublisher) = 4 /\ Len(DestroyPublisher) \in {4, 5}
      BY DEF FailPublisher, DestroyPublisher
    <3> QED
      BY <2>1, <3>1 DEF FailSteps, DestroySteps
  <2>2. CASE k = "subscription"
    <3>1. Len(FailSubscription) = 4 /\ Len(DestroySubscription) \in {4, 5}
      BY DEF FailSubscription, DestroySubscription
    <3> QED
      BY <2>2, <3>1 DEF FailSteps, DestroySteps
  <2>3. CASE k = "service"
    <3>1. Len(FailService) = 4 /\ Len(DestroyService) \in {4, 5}
      BY DEF FailService, DestroyService
    <3> QED
      BY <2>3, <3>1 DEF FailSteps, DestroySteps
  <2>4. CASE k = "client"
    <3>1. Len(FailClient) = 4 /\ Len(DestroyClient) \in {4, 5}
      BY DEF FailClient, DestroyClient
    <3> QED
      BY <2>4, <3>1 DEF FailSteps, DestroySteps
  <2>5. CASE k = "node"
    <3>1. Len(NodeRelease) = 8
      BY DEF NodeRelease
    <3>2. P = NodeRelease
      BY <2>5 DEF FailSteps, DestroySteps
    <3> QED
      BY <3>1, <3>2
  <2> QED
    BY <2>1, <2>2, <2>3, <2>4, <2>5 DEF Kinds
<1>2. ASSUME NEW n \in 4..8
      PROVE  1 \in 1..n /\ 2 \in 1..n
  OBVIOUS
<1>3. PICK j \in {1, 2} : i # j
  OBVIOUS
<1>4. j \in 1..Len(P) /\ i # j
  BY <1>1, <1>2, <1>3
<1> QED
  BY <1>4, OneWay

\* The accounts of an entity are kept by a step that leaves it alone.
LEMMA SameRow ==
  ASSUME NEW f \in Entities, FreedByOne(f), EverythingGoes(f),
         stage'[f] = stage[f], at'[f] = at[f], done'[f] = done[f], freed'[f] = freed[f],
         \A o \in Objects : <<f, o>> \in doomed' <=> <<f, o>> \in doomed
  PROVE  FreedByOne(f)' /\ EverythingGoes(f)'
<1>1. ToCome(f)' = ToCome(f)
  BY DEF ToCome, Program
<1>2. FreedByOne(f)'
  <2>1. {"dps", "svc"} \subseteq Objects
    BY DEF Objects
  <2> QED
    BY <1>1, <2>1 DEF FreedByOne
<1>3. EverythingGoes(f)'
  BY <1>1 DEF EverythingGoes
<1> QED
  BY <1>2, <1>3

\* It is enough to look at the one entity that a step is about.
LEMMA OneRow ==
  ASSUME NEW e \in Entities, Accounts, FreedByOne(e)', EverythingGoes(e)',
         \A f \in Entities \ {e} :
            /\ stage'[f] = stage[f] /\ at'[f] = at[f]
            /\ done'[f] = done[f] /\ freed'[f] = freed[f],
         \A f \in Entities \ {e}, o \in Objects :
            <<f, o>> \in doomed' <=> <<f, o>> \in doomed
  PROVE  Accounts'
<1>1. ASSUME NEW f \in Entities \ {e}
      PROVE  FreedByOne(f)' /\ EverythingGoes(f)'
  <2>1. FreedByOne(f) /\ EverythingGoes(f)
    BY DEF Accounts
  <2> QED
    BY <2>1, SameRow
<1> QED
  BY <1>1 DEF Accounts

\* What a release has still to do is of what releases do.
LEMMA ToComeFacts ==
  ASSUME TypeOK, NEW e \in Entities
  PROVE  /\ Delete("dps") \notin ToCome(e) /\ Delete("svc") \notin ToCome(e)
         /\ e \in Listening => Delete("listener") \notin ToCome(e)
         /\ \A o \in Objects : Destroy(o) \in ToCome(e) => o \in {"dps", "svc"}
<1> SUFFICES ASSUME stage[e] \in {"failing", "destroying"}
             PROVE  /\ Delete("dps") \notin ToCome(e) /\ Delete("svc") \notin ToCome(e)
                    /\ e \in Listening => Delete("listener") \notin ToCome(e)
                    /\ \A o \in Objects : Destroy(o) \in ToCome(e) => o \in {"dps", "svc"}
  BY DEF ToCome
<1>1. Program(e) \in {FailSteps[Kind(e)], DestroySteps[Kind(e)]}
  BY DEF Program
<1>2. PICK P : P = Program(e)
  OBVIOUS
<1>3. /\ Kind(e) \in Kinds
      /\ e \in Listening => Kind(e) \in {"subscription", "service", "client"}
  BY KindOf
<1>4. Len(P) \in 1..8 /\ \A i \in 1..Len(P) : P[i][1] = "destroy" => P[i][2] \in {"dps", "svc"}
  BY <1>1, <1>2, <1>3, ReleaseFacts
<1>5. ASSUME NEW i \in 1..Len(P)
      PROVE  /\ P[i] # Delete("dps") /\ P[i] # Delete("svc")
             /\ e \in Listening => P[i] # Delete("listener")
  BY <1>1, <1>2, <1>3, ReleaseForms
<1>6. ASSUME NEW s \in ToCome(e)
      PROVE  \E i \in 1..Len(P) : s = P[i]
  <2>1. PICK i \in at[e]..Len(P) : s = P[i]
    BY <1>2 DEF ToCome
  <2>2. at[e] \in 1..10
    BY DEF TypeOK
  <2> QED
    BY <1>4, <2>1, <2>2
<1>7. ASSUME NEW o \in Objects, Destroy(o) \in ToCome(e)
      PROVE  o \in {"dps", "svc"}
  <2>1. PICK i \in 1..Len(P) : Destroy(o) = P[i]
    BY <1>6, <1>7
  <2>2. P[i][1] = "destroy" /\ P[i][2] = o
    BY <2>1 DEF Destroy
  <2> QED
    BY <1>4, <2>2
<1> QED
  BY <1>5, <1>6, <1>7

\* A step of a release is one less to come, and does not come again.
LEMMA OneLess ==
  ASSUME TypeOK, NEW e \in Entities, Releasing(e), Advance(e)
  PROVE  /\ ToCome(e) = ToCome(e)' \cup {NextStep(e)}
         /\ NextStep(e) \notin ToCome(e)'
<1>1. /\ Program(e) \in {FailSteps[Kind(e)], DestroySteps[Kind(e)]}
      /\ at[e] \in 1..Len(Program(e)) /\ NextStep(e) = Program(e)[at[e]]
  BY ReleaseStep DEF Releasing
<1>2. PICK P, n : P = Program(e) /\ n = at[e]
  OBVIOUS
<1>3. Program(e)' = P /\ at'[e] = n + 1 /\ stage'[e] \in {"failing", "destroying"}
  BY <1>2 DEF Advance, Program, TypeOK, Releasing
<1>4. Kind(e) \in Kinds
  BY KindOf
<1>5. Len(P) \in 1..8
  BY <1>1, <1>2, <1>4, ReleaseFacts
<1>6. n \in 1..Len(P) /\ NextStep(e) = P[n]
  BY <1>1, <1>2
<1>7. ToCome(e) = {P[i] : i \in n..Len(P)} /\ ToCome(e)' = {P[i] : i \in (n + 1)..Len(P)}
  BY <1>2, <1>3 DEF ToCome, Releasing
<1>8. n..Len(P) = (n + 1)..Len(P) \cup {n}
  BY <1>5, <1>6
<1>9. \A i \in (n + 1)..Len(P) : i \in 1..Len(P) /\ i # n
  BY <1>5, <1>6
<1>10. \A i \in (n + 1)..Len(P) : P[i] # P[n]
  BY <1>1, <1>2, <1>4, <1>6, <1>9, OneWay
<1> QED
  BY <1>6, <1>7, <1>8, <1>10

\* Whoever frees an object, it is the one that was to free it.
LEMMA AccountStep ==
  ASSUME TypeOK, NothingFreedEarly, StepsInOrder, ListenerOfObject, Accounts, [Next]_vars
  PROVE  Accounts'
<1>1. ASSUME NEW e \in Entities, Create(e)
      PROVE  Accounts'
  <2>1. /\ stage[e] = "new" /\ stage'[e] = "creating" /\ done'[e] = done[e]
        /\ freed' = freed /\ doomed' = doomed
    BY <1>1 DEF Create, Enter, TypeOK
  <2>2. ToCome(e) = {} /\ ToCome(e)' = {}
    BY <2>1 DEF ToCome
  <2>3. FreedByOne(e)'
    BY <2>1, <2>2 DEF Accounts, FreedByOne
  <2>4. EverythingGoes(e)'
    BY <2>1, <2>2 DEF Accounts, EverythingGoes
  <2>5. \A f \in Entities \ {e} :
          /\ stage'[f] = stage[f] /\ at'[f] = at[f]
          /\ done'[f] = done[f] /\ freed'[f] = freed[f]
    BY <1>1 DEF Create, Enter, TypeOK
  <2> QED
    BY <2>1, <2>3, <2>4, <2>5, OneRow
<1>2. ASSUME NEW e \in Entities, stage[e] \in {"creating", "created"},
             Enter(e, "failing") \/ Enter(e, "destroying"),
             \A f \in Entities \ {e} : done'[f] = done[f],
             done'[e] = done[e] \/ (e = Node /\ done'[e] = done[e] \cup {"announce"}),
             UNCHANGED <<freed, doomed>>
      PROVE  Accounts'
  <2>1. stage'[e] \in {"failing", "destroying"} /\ at'[e] = 1
    BY <1>2 DEF Enter, TypeOK
  <2>2. PICK P : P = Program(e)'
    OBVIOUS
  <2>3. P \in {FailSteps[Kind(e)], DestroySteps[Kind(e)]}
    BY <2>1, <2>2 DEF Program
  <2>4. ToCome(e)' = {P[i] : i \in 1..Len(P)}
    BY <2>1, <2>2 DEF ToCome
  <2>5. /\ \A o \in Objects : freed'[e][o] = 0
        /\ \A o \in {"dps", "svc"} : <<e, o>> \notin doomed'
    BY <1>2 DEF NothingFreedEarly
  <2>6. FreedByOne(e)'
    BY <2>5 DEF FreedByOne
  <2>7. Kind(e) \in Kinds /\ (Kind(e) \in {"subscription", "service", "client"} => e \in Listening)
    BY KindOf
  <2>8. /\ done'[e] \subseteq {CreateSteps[Kind(e)][i] : i \in 1..Len(CreateSteps[Kind(e)])}
        /\ e \in Listening /\ "data" \in done'[e] => "dps" \in done'[e]
    <3>1. /\ done[e] \subseteq {CreateSteps[Kind(e)][i] : i \in 1..Len(CreateSteps[Kind(e)])}
          /\ e \in Listening /\ "data" \in done[e] => "dps" \in done[e]
      BY DEF Accounts, EverythingGoes
    <3>2. e = Node => "announce" \in {CreateSteps[Kind(e)][i] : i \in 1..Len(CreateSteps[Kind(e)])}
      BY KindOf, NodeOrder
    <3>3. Node \notin Listening
      BY DEF Endpoints, Listening
    <3> QED
      BY <1>2, <3>1, <3>2, <3>3
  <2>9. ASSUME NEW o \in Objects \cap done'[e]
        PROVE  Delete(o) \in ToCome(e)' \/ Destroy(o) \in ToCome(e)' \/ (o = "listener" /\ e \in Listening)
    <3>1. PICK i \in 1..Len(CreateSteps[Kind(e)]) : CreateSteps[Kind(e)][i] = o
      BY <2>8
    <3>2. \/ \E j \in 1..Len(P) : P[j] = Delete(o) \/ P[j] = Destroy(o)
          \/ o = "listener" /\ Kind(e) \in {"subscription", "service", "client"}
      BY <2>3, <2>7, <3>1, AllWays
    <3> QED
      BY <2>4, <2>7, <3>2
  <2>10. EverythingGoes(e)'
    <3>1. "dps" \in Objects
      BY DEF Objects
    <3>2. ~(freed'[e]["dps"] > 0)
      BY <2>5, <3>1
    <3> QED
      BY <2>8, <2>9, <3>2 DEF EverythingGoes
  <2>11. \A f \in Entities \ {e} :
          /\ stage'[f] = stage[f] /\ at'[f] = at[f]
          /\ done'[f] = done[f] /\ freed'[f] = freed[f]
    BY <1>2 DEF Enter, TypeOK
  <2> QED
    BY <1>2, <2>6, <2>10, <2>11, OneRow
<1>3. ASSUME NEW e \in Entities, Obtain(e)
      PROVE  Accounts'
  <2>1. /\ stage[e] = "creating" /\ stage'[e] = "creating"
        /\ done'[e] = done[e] \cup {NextStep(e)}
        /\ freed' = freed /\ doomed' = doomed
    BY <1>3 DEF Obtain, Advance, TypeOK
  <2>2. ToCome(e) = {} /\ ToCome(e)' = {}
    BY <2>1 DEF ToCome
  <2>3. /\ \A o \in Objects : freed'[e][o] = 0
        /\ \A o \in {"dps", "svc"} : <<e, o>> \notin doomed'
    BY <2>1 DEF NothingFreedEarly
  <2>4. FreedByOne(e)'
    BY <2>2, <2>3 DEF FreedByOne
  <2>5. /\ at[e] \in 1..Len(CreateSteps[Kind(e)])
        /\ NextStep(e) = CreateSteps[Kind(e)][at[e]]
    BY <1>3, CreateStep DEF Obtain
  <2>6. ASSUME e \in Listening, "data" \in done'[e]
        PROVE  "dps" \in done'[e]
    <3>1. CASE "data" \in done[e]
      BY <2>1, <2>6, <3>1 DEF Accounts, EverythingGoes
    <3>2. CASE "data" = NextStep(e)
      <4>1. Kind(e) \in {"subscription", "service", "client"}
        BY <2>6, KindOf
      <4>2. \E j \in 1..(at[e] - 1) : CreateSteps[Kind(e)][j] = "dps"
        BY <2>5, <3>2, <4>1, ObjectFirst
      <4> QED
        BY <2>1, <4>2 DEF StepsInOrder
    <3> QED
      BY <2>1, <2>6, <3>1, <3>2
  <2>7. EverythingGoes(e)'
    <3>1. "dps" \in Objects
      BY DEF Objects
    <3>2. ~(freed'[e]["dps"] > 0)
      BY <2>3, <3>1
    <3>3. done'[e] \subseteq {CreateSteps[Kind(e)][i] : i \in 1..Len(CreateSteps[Kind(e)])}
      BY <2>1, <2>5 DEF Accounts, EverythingGoes
    <3> QED
      BY <2>1, <2>6, <3>2, <3>3 DEF EverythingGoes
  <2>8. \A f \in Entities \ {e} :
          /\ stage'[f] = stage[f] /\ at'[f] = at[f]
          /\ done'[f] = done[f] /\ freed'[f] = freed[f]
    BY <1>3 DEF Obtain, Advance, TypeOK
  <2> QED
    BY <2>1, <2>4, <2>7, <2>8, OneRow
<1>4. ASSUME NEW e \in Entities, DeleteObject(e)
      PROVE  Accounts'
  <2>1. Releasing(e) /\ Advance(e) /\ UNCHANGED <<done, doomed>> /\ stage'[e] = stage[e]
    BY <1>4 DEF DeleteObject, Advance
  <2>2. PICK o \in Objects : NextStep(e) = Delete(o)
    <3>1. /\ NextStep(e) \in {"delete", "destroy", "await", "leave"} \X (Objects \cup {"register"})
          /\ NextStep(e)[1] = "delete" => NextStep(e)[2] \in Objects
      BY <2>1, ReleaseStep DEF Releasing
    <3>2. NextStep(e)[1] = "delete" /\ NextStep(e) = <<NextStep(e)[1], NextStep(e)[2]>>
      BY <1>4, <3>1 DEF DeleteObject
    <3> QED
      BY <3>1, <3>2 DEF Delete
  <2>3. \A p \in Objects :
          freed'[e][p] = freed[e][p] + IF p = o /\ p \in done[e] THEN 1 ELSE 0
    <3>1. NextStep(e)[2] = o
      BY <2>2 DEF Delete
    <3> QED
      BY <1>4, <3>1 DEF DeleteObject, TypeOK
  <2>4. \A p \in Objects : freed[e][p] \in Nat
    BY DEF TypeOK
  <2>5. PICK T, U : T = ToCome(e) /\ U = ToCome(e)'
    OBVIOUS
  <2>6. T = U \cup {Delete(o)} /\ Delete(o) \notin U
    BY <2>1, <2>2, <2>5, OneLess
  <2>7. /\ o # "dps" /\ o # "svc" /\ \A p \in Objects : Destroy(p) \in T => p \in {"dps", "svc"}
    BY <2>5, <2>6, ToComeFacts
  <2>8. /\ \A p \in Objects :
             freed[e][p] <= 1 /\ (Delete(p) \in T \/ Destroy(p) \in T => freed[e][p] = 0)
        /\ \A p \in {"dps", "svc"} :
             /\ <<e, p>> \in doomed => freed[e][p] = 0
             /\ Destroy(p) \in T => <<e, p>> \notin doomed
    BY <2>5 DEF Accounts, FreedByOne
  <2>9. ASSUME NEW p \in Objects \ {o}
        PROVE  freed'[e][p] = freed[e][p]
    BY <2>3, <2>4
  <2>10. FreedByOne(e)'
    <3>1. freed'[e][o] <= 1
      BY <2>3, <2>6, <2>8
    <3>2. Delete(o) \notin U /\ Destroy(o) \notin U
      BY <2>6, <2>7
    <3>3. {"dps", "svc"} \subseteq Objects \ {o}
      BY <2>7 DEF Objects
    <3>4. ASSUME NEW p \in Objects
          PROVE  freed'[e][p] <= 1 /\ (Delete(p) \in U \/ Destroy(p) \in U => freed'[e][p] = 0)
      BY <2>6, <2>8, <2>9, <3>1, <3>2
    <3>5. ASSUME NEW p \in {"dps", "svc"}
          PROVE  /\ <<e, p>> \in doomed' => freed'[e][p] = 0
                 /\ Destroy(p) \in U => <<e, p>> \notin doomed'
      BY <2>1, <2>6, <2>8, <2>9, <3>3
    <3> QED
      BY <2>5, <3>4, <3>5 DEF FreedByOne
  <2>11. EverythingGoes(e)'
    <3>1. ASSUME NEW p \in Objects \cap done'[e]
          PROVE  \/ freed'[e][p] > 0 \/ <<e, p>> \in doomed'
                 \/ Delete(p) \in U \/ Destroy(p) \in U
                 \/ p = "listener" /\ e \in Listening
      <4>1. \/ freed[e][p] > 0 \/ <<e, p>> \in doomed
            \/ Delete(p) \in T \/ Destroy(p) \in T
            \/ p = "listener" /\ e \in Listening
        BY <2>1, <2>5 DEF Accounts, EverythingGoes, Releasing
      <4>2. Delete(p) = Delete(o) => p = o
        BY DEF Delete
      <4>3. Destroy(p) # Delete(o)
        BY DEF Delete, Destroy
      <4>4. p = o => freed'[e][p] > 0
        BY <2>1, <2>3, <2>4
      <4> QED
        BY <2>1, <2>6, <2>9, <4>1, <4>2, <4>3, <4>4
    <3>2. "dps" \in Objects \ {o} /\ "listener" \in Objects
      BY <2>7 DEF Objects
    <3>3. freed'[e]["dps"] = freed[e]["dps"] /\ freed'[e]["listener"] >= freed[e]["listener"]
      BY <2>3, <2>4, <2>9, <3>2
    <3>4. freed[e]["listener"] \in Nat /\ freed'[e]["listener"] \in Nat
      BY <2>3, <2>4, <3>2
    <3>5. /\ done[e] \subseteq {CreateSteps[Kind(e)][i] : i \in 1..Len(CreateSteps[Kind(e)])}
          /\ e \in Listening /\ "data" \in done[e] =>
               "dps" \in done[e] /\ (freed[e]["dps"] > 0 => freed[e]["listener"] > 0)
      BY DEF Accounts, EverythingGoes
    <3>6. e \in Listening /\ "data" \in done'[e] =>
            "dps" \in done'[e] /\ (freed'[e]["dps"] > 0 => freed'[e]["listener"] > 0)
      BY <2>1, <3>3, <3>4, <3>5
    <3> QED
      BY <2>1, <2>5, <3>1, <3>5, <3>6 DEF EverythingGoes
  <2>12. \A f \in Entities \ {e} :
          /\ stage'[f] = stage[f] /\ at'[f] = at[f]
          /\ done'[f] = done[f] /\ freed'[f] = freed[f]
    BY <1>4 DEF DeleteObject, Advance, TypeOK
  <2> QED
    BY <2>1, <2>10, <2>11, <2>12, OneRow
<1>5. ASSUME NEW e \in Entities, DestroyObject(e)
      PROVE  Accounts'
  <2>1. Releasing(e) /\ Advance(e) /\ UNCHANGED <<done, freed>> /\ stage'[e] = stage[e]
    BY <1>5 DEF DestroyObject, Advance
  <2>2. PICK o \in {"dps", "svc"} : NextStep(e) = Destroy(o)
    <3>1. /\ NextStep(e) \in {"delete", "destroy", "await", "leave"} \X (Objects \cup {"register"})
          /\ NextStep(e)[1] \in {"destroy", "await"} => NextStep(e)[2] \in {"dps", "svc"}
      BY <2>1, ReleaseStep DEF Releasing
    <3>2. NextStep(e)[1] = "destroy" /\ NextStep(e) = <<NextStep(e)[1], NextStep(e)[2]>>
      BY <1>5, <3>1 DEF DestroyObject
    <3> QED
      BY <3>1, <3>2 DEF Destroy
  <2>3. doomed' = doomed \cup ({e} \X ({o} \cap done[e]))
    <3>1. NextStep(e)[2] = o
      BY <2>2 DEF Destroy
    <3> QED
      BY <1>5, <3>1 DEF DestroyObject
  <2>4. PICK T, U : T = ToCome(e) /\ U = ToCome(e)'
    OBVIOUS
  <2>5. T = U \cup {Destroy(o)} /\ Destroy(o) \notin U
    BY <2>1, <2>2, <2>4, OneLess
  <2>6. /\ \A p \in Objects :
             freed[e][p] <= 1 /\ (Delete(p) \in T \/ Destroy(p) \in T => freed[e][p] = 0)
        /\ \A p \in {"dps", "svc"} :
             /\ <<e, p>> \in doomed => freed[e][p] = 0
             /\ Destroy(p) \in T => <<e, p>> \notin doomed
    BY <2>4 DEF Accounts, FreedByOne
  <2>7. o \in Objects
    BY DEF Objects
  <2>8. freed[e][o] = 0
    BY <2>5, <2>6, <2>7
  <2>9. \A p : <<e, p>> \in doomed' => <<e, p>> \in doomed \/ p = o
    BY <2>3
  <2>10. FreedByOne(e)'
    <3>1. ASSUME NEW p \in Objects
          PROVE  freed'[e][p] <= 1 /\ (Delete(p) \in U \/ Destroy(p) \in U => freed'[e][p] = 0)
      BY <2>1, <2>5, <2>6
    <3>2. ASSUME NEW p \in {"dps", "svc"}
          PROVE  /\ <<e, p>> \in doomed' => freed'[e][p] = 0
                 /\ Destroy(p) \in U => <<e, p>> \notin doomed'
      BY <2>1, <2>5, <2>6, <2>8, <2>9
    <3> QED
      BY <2>4, <3>1, <3>2 DEF FreedByOne
  <2>11. EverythingGoes(e)'
    <3>1. ASSUME NEW p \in Objects \cap done'[e]
          PROVE  \/ freed'[e][p] > 0 \/ <<e, p>> \in doomed'
                 \/ Delete(p) \in U \/ Destroy(p) \in U
                 \/ p = "listener" /\ e \in Listening
      <4>1. \/ freed[e][p] > 0 \/ <<e, p>> \in doomed
            \/ Delete(p) \in T \/ Destroy(p) \in T
            \/ p = "listener" /\ e \in Listening
        BY <2>1, <2>4 DEF Accounts, EverythingGoes, Releasing
      <4>2. Destroy(p) = Destroy(o) => p = o
        BY DEF Destroy
      <4>3. Delete(p) # Destroy(o)
        BY DEF Delete, Destroy
      <4>4. p = o => <<e, p>> \in doomed'
        BY <2>1, <2>3
      <4>5. <<e, p>> \in doomed => <<e, p>> \in doomed'
        BY <2>3
      <4> QED
        BY <2>1, <2>5, <4>1, <4>2, <4>3, <4>4, <4>5
    <3> QED
      BY <2>1, <2>4, <3>1 DEF Accounts, EverythingGoes
  <2>12. \A f \in Entities \ {e} :
          /\ stage'[f] = stage[f] /\ at'[f] = at[f]
          /\ done'[f] = done[f] /\ freed'[f] = freed[f]
    BY <1>5 DEF DestroyObject, Advance, TypeOK
  <2>13. \A f \in Entities \ {e}, p \in Objects : <<f, p>> \in doomed' <=> <<f, p>> \in doomed
    BY <2>3
  <2> QED
    BY <2>10, <2>11, <2>12, <2>13, OneRow
<1>6. ASSUME NEW e \in Entities, Releasing(e), NextStep(e)[1] \in {"await", "leave"},
             Advance(e), UNCHANGED <<freed, doomed>>,
             \A f \in Entities \ {e} : done'[f] = done[f],
             done'[e] = done[e] \/ done'[e] = done[e] \ {"register"}
      PROVE  Accounts'
  <2>1. stage'[e] = stage[e]
    BY <1>6 DEF Advance
  <2>2. PICK T, U : T = ToCome(e) /\ U = ToCome(e)'
    OBVIOUS
  <2>3. T = U \cup {NextStep(e)}
    BY <1>6, <2>2, OneLess
  <2>4. \A p : Delete(p) # NextStep(e) /\ Destroy(p) # NextStep(e)
    BY <1>6 DEF Delete, Destroy
  <2>5. \A p : (Delete(p) \in U <=> Delete(p) \in T) /\ (Destroy(p) \in U <=> Destroy(p) \in T)
    BY <2>3, <2>4
  <2>6. FreedByOne(e)'
    BY <1>6, <2>2, <2>5 DEF Accounts, FreedByOne
  <2>7. done'[e] \subseteq done[e]
        /\ \A p \in Objects \cup {"data"} : p \in done'[e] <=> p \in done[e]
    BY <1>6 DEF Objects
  <2>8. EverythingGoes(e)'
    <3>1. "dps" \in Objects
      BY DEF Objects
    <3> QED
      BY <1>6, <2>1, <2>2, <2>5, <2>7, <3>1 DEF Accounts, EverythingGoes
  <2>9. \A f \in Entities \ {e} :
          /\ stage'[f] = stage[f] /\ at'[f] = at[f]
          /\ done'[f] = done[f] /\ freed'[f] = freed[f]
    BY <1>6 DEF Advance, TypeOK
  <2> QED
    BY <1>6, <2>6, <2>8, <2>9, OneRow
<1>7. ASSUME NEW e \in Entities, Return(e)
      PROVE  Accounts'
  <2>1. /\ stage'[e] = IF stage[e] = "creating" THEN "created" ELSE "gone"
        /\ UNCHANGED <<done, freed, doomed>>
    BY <1>7 DEF Return, Enter, TypeOK
  <2>2. PICK T, U : T = ToCome(e) /\ U = ToCome(e)'
    OBVIOUS
  <2>3. T = {}
    <3>1. ASSUME stage[e] \in {"failing", "destroying"}
          PROVE  at[e]..Len(Program(e)) = {}
      <4>1. Program(e) \in {FailSteps[Kind(e)], DestroySteps[Kind(e)]}
        BY <3>1 DEF Program
      <4>2. Kind(e) \in Kinds
        BY KindOf
      <4>3. Len(Program(e)) \in 1..8
        BY <4>1, <4>2, ReleaseFacts
      <4>4. at[e] \in 1..10 /\ at[e] \notin 1..Len(Program(e))
        BY <1>7 DEF Return, Running, TypeOK
      <4> QED
        BY <4>3, <4>4
    <3> QED
      BY <2>2, <3>1 DEF ToCome
  <2>4. U = {}
    BY <2>1, <2>2 DEF ToCome
  <2>5. FreedByOne(e)'
    BY <2>1, <2>2, <2>4 DEF Accounts, FreedByOne
  <2>6. EverythingGoes(e)'
    <3>1. stage'[e] = "gone" => stage[e] \in {"failing", "destroying"}
      BY <1>7, <2>1 DEF Return
    <3>2. stage'[e] \in {"created", "gone"}
      BY <2>1
    <3> QED
      BY <2>1, <2>2, <2>3, <3>1, <3>2 DEF Accounts, EverythingGoes
  <2>7. \A f \in Entities \ {e} :
          /\ stage'[f] = stage[f] /\ at'[f] = at[f]
          /\ done'[f] = done[f] /\ freed'[f] = freed[f]
    BY <1>7 DEF Return, Enter, TypeOK
  <2> QED
    BY <2>1, <2>5, <2>6, <2>7, OneRow
<1>8. ASSUME Leak
      PROVE  Accounts'
  <2>1. Node \in Entities
    BY DEF Entities
  <2>2. /\ stage[Node] = "creating" /\ stage'[Node] = "leaked"
        /\ done'[Node] = done[Node] \/ done'[Node] = done[Node] \cup {"announce"}
        /\ UNCHANGED <<freed, doomed>>
    BY <1>8, <2>1, FailedStepFacts DEF Leak, Enter, TypeOK
  <2>3. ToCome(Node) = {} /\ ToCome(Node)' = {}
    BY <2>2 DEF ToCome
  <2>4. FreedByOne(Node)'
    BY <2>1, <2>2, <2>3 DEF Accounts, FreedByOne
  <2>5. EverythingGoes(Node)'
    <3>1. /\ "announce" \in {CreateSteps[Kind(Node)][i] : i \in 1..Len(CreateSteps[Kind(Node)])}
          /\ Node \notin Listening
      BY <2>1, KindOf, NodeOrder DEF Endpoints, Listening
    <3> QED
      BY <2>1, <2>2, <3>1 DEF Accounts, EverythingGoes
  <2>6. \A f \in Entities \ {Node} :
          /\ stage'[f] = stage[f] /\ at'[f] = at[f]
          /\ done'[f] = done[f] /\ freed'[f] = freed[f]
    BY <1>8, <2>1, FailedStepFacts DEF Leak, Enter, TypeOK
  <2> QED
    BY <2>1, <2>2, <2>4, <2>5, <2>6, OneRow
<1>9. ASSUME UNCHANGED <<stage, at, done, freed, doomed>>
      PROVE  Accounts'
  <2>1. Node \in Entities /\ FreedByOne(Node) /\ EverythingGoes(Node)
    BY DEF Entities, Accounts
  <2>2. FreedByOne(Node)' /\ EverythingGoes(Node)'
    BY <1>9, <2>1, SameRow
  <2> QED
    BY <1>9, <2>1, <2>2, OneRow
<1>10. ASSUME NEW e \in Entities, NEW o \in {"dps", "svc"}, Destroyed(e, o)
       PROVE  Accounts'
  <2>1. <<e, o>> \in doomed /\ doomed' = doomed \ {<<e, o>>} /\ UNCHANGED <<stage, at, done>>
    BY <1>10 DEF Destroyed
  <2> DEFINE L == e \in Listening /\ "data" \in done[e]
  <2>2. \A p \in Objects :
          freed'[e][p] = freed[e][p] + IF p = o \/ (p = "listener" /\ L) THEN 1 ELSE 0
    BY <1>10 DEF Destroyed, TypeOK
  <2>3. \A p \in Objects : freed[e][p] \in Nat
    BY DEF TypeOK
  <2>4. PICK T : T = ToCome(e) /\ T = ToCome(e)'
    BY <2>1 DEF ToCome, Program
  <2>5. /\ \A p \in Objects :
             freed[e][p] <= 1 /\ (Delete(p) \in T \/ Destroy(p) \in T => freed[e][p] = 0)
        /\ \A p \in {"dps", "svc"} :
             /\ <<e, p>> \in doomed => freed[e][p] = 0
             /\ Destroy(p) \in T => <<e, p>> \notin doomed
    BY <2>4 DEF Accounts, FreedByOne
  <2>6. {"dps", "svc", "listener"} \subseteq Objects /\ o # "listener"
    BY DEF Objects
  <2>7. L => o = "dps" /\ freed[e]["listener"] = 0
    <3>1. ASSUME L
          PROVE  o = "dps"
      BY <2>1, <3>1 DEF ListenerOfObject
    <3> QED
      BY <2>1, <2>5, <3>1 DEF ListenerOfObject
  <2>8. /\ Delete("dps") \notin T /\ Delete("svc") \notin T
        /\ e \in Listening => Delete("listener") \notin T
        /\ \A p \in Objects : Destroy(p) \in T => p \in {"dps", "svc"}
    BY <2>4, ToComeFacts
  <2>9. ASSUME NEW p \in Objects
        PROVE  \/ freed'[e][p] = freed[e][p]
               \/ p = o /\ freed[e][p] = 0 /\ freed'[e][p] = 1
               \/ p = "listener" /\ L /\ freed[e][p] = 0 /\ freed'[e][p] = 1
    BY <2>1, <2>2, <2>3, <2>5, <2>7
  <2>10. FreedByOne(e)'
    <3>1. ASSUME NEW p \in Objects
          PROVE  freed'[e][p] <= 1 /\ (Delete(p) \in T \/ Destroy(p) \in T => freed'[e][p] = 0)
      <4>1. Delete(o) \notin T /\ Destroy(o) \notin T
        BY <2>1, <2>5, <2>8
      <4>2. L => Delete("listener") \notin T /\ Destroy("listener") \notin T
        BY <2>6, <2>8
      <4> QED
        BY <2>5, <2>9, <4>1, <4>2
    <3>2. ASSUME NEW p \in {"dps", "svc"}
          PROVE  /\ <<e, p>> \in doomed' => freed'[e][p] = 0
                 /\ Destroy(p) \in T => <<e, p>> \notin doomed'
      BY <2>1, <2>5, <2>6, <2>9
    <3> QED
      BY <2>4, <3>1, <3>2 DEF FreedByOne
  <2>11. EverythingGoes(e)'
    <3>1. ASSUME stage'[e] \in {"failing", "destroying", "gone"}, NEW p \in Objects \cap done'[e]
          PROVE  \/ freed'[e][p] > 0 \/ <<e, p>> \in doomed'
                 \/ Delete(p) \in T \/ Destroy(p) \in T
                 \/ p = "listener" /\ e \in Listening
      <4>1. \/ freed[e][p] > 0 \/ <<e, p>> \in doomed
            \/ Delete(p) \in T \/ Destroy(p) \in T
            \/ p = "listener" /\ e \in Listening
        BY <2>1, <2>4, <3>1 DEF Accounts, EverythingGoes
      <4>2. freed[e][p] > 0 => freed'[e][p] > 0
        BY <2>9
      <4>3. <<e, p>> \in doomed => <<e, p>> \in doomed' \/ p = o
        BY <2>1
      <4>4. freed'[e][o] > 0
        BY <2>2, <2>3, <2>6
      <4> QED
        BY <4>1, <4>2, <4>3, <4>4
    <3>2. /\ done[e] \subseteq {CreateSteps[Kind(e)][i] : i \in 1..Len(CreateSteps[Kind(e)])}
          /\ e \in Listening /\ "data" \in done[e] =>
               "dps" \in done[e] /\ (freed[e]["dps"] > 0 => freed[e]["listener"] > 0)
      BY DEF Accounts, EverythingGoes
    <3>3. L => freed'[e]["listener"] > 0
      BY <2>2, <2>3, <2>6
    <3> QED
      BY <2>1, <2>4, <3>1, <3>2, <3>3 DEF EverythingGoes
  <2>12. \A f \in Entities \ {e} :
          /\ stage'[f] = stage[f] /\ at'[f] = at[f]
          /\ done'[f] = done[f] /\ freed'[f] = freed[f]
    BY <1>10 DEF Destroyed, TypeOK
  <2>13. \A f \in Entities \ {e}, p \in Objects : <<f, p>> \in doomed' <=> <<f, p>> \in doomed
    BY <2>1
  <2> QED
    BY <2>10, <2>11, <2>12, <2>13, OneRow
<1>11. ASSUME NEW e \in Entities, Fail(e) \/ Release(e)
       PROVE  Accounts'
  <2>1. CASE Fail(e)
    BY <1>2, <2>1, FailedStepFacts DEF Fail
  <2>2. CASE Release(e)
    BY <1>2, <2>2 DEF Release
  <2> QED
    BY <1>11, <2>1, <2>2
<1>12. ASSUME NEW e \in Entities, AwaitObject(e) \/ LeaveMap(e)
       PROVE  Accounts'
  <2>1. /\ Releasing(e) /\ NextStep(e)[1] \in {"await", "leave"}
        /\ Advance(e) /\ UNCHANGED <<freed, doomed>>
    BY <1>12 DEF AwaitObject, LeaveMap
  <2>2. /\ \A f \in Entities \ {e} : done'[f] = done[f]
        /\ done'[e] = done[e] \/ done'[e] = done[e] \ {"register"}
    BY <1>12 DEF AwaitObject, LeaveMap, TypeOK
  <2> QED
    BY <1>6, <2>1, <2>2
<1>13. ASSUME \/ \E e \in Listening : CallListener(e)
              \/ OnDiscovery \/ Continue \/ EndListener \/ UNCHANGED vars
       PROVE  Accounts'
  BY <1>9, <1>13 DEF CallListener, OnDiscovery, Continue, EndListener, vars
<1> QED
  BY <1>1, <1>3, <1>4, <1>5, <1>7, <1>8, <1>10, <1>11, <1>12, <1>13
     DEF Next, ThreadStep, LoopStep

-----------------------------------------------------------------------------
(* Theorems. *)

\* The types of the state: in particular only DPS objects are given to DPS to
\* destroy, and a call never runs past the end of its program.
THEOREM Typing == Spec => []TypeOK
<1>1. Init => TypeOK
  BY DEF Init, TypeOK, Idle, Entities
<1>2. TypeOK /\ [Next]_vars => TypeOK'
  BY TypeStep
<1> QED
  BY <1>1, <1>2, PTL DEF Spec

\* The inductive invariant of creation and destruction: who frees what, and
\* not before whom.
THEOREM Invariance == Spec => []Inv
<1>1. Init => Inv
  <2> SUFFICES ASSUME Init
               PROVE  Inv
    OBVIOUS
  <2>1. TypeOK
    BY DEF Init, TypeOK, Idle, Entities
  <2>2. NothingFreedEarly /\ StepsInOrder
    BY DEF Init, NothingFreedEarly, StepsInOrder
  <2>3. ListenerOfObject
    BY DEF Init, ListenerOfObject, Idle, Listening, Entities, Endpoints, Objects
  <2>4. InfoOfRegistered
    BY DEF Init, InfoOfRegistered, Entities
  <2>5. ServiceGoesFirst
    BY Walks DEF Init, ServiceGoesFirst, Idle, Entities
  <2>6. ASSUME NEW e \in Entities
        PROVE  FreedByOne(e) /\ EverythingGoes(e)
    <3>1. ToCome(e) = {} /\ done[e] = {} /\ stage[e] = "new" /\ doomed = {}
      BY DEF Init, ToCome
    <3>2. \A o \in Objects : freed[e][o] = 0
      BY DEF Init
    <3> QED
      BY <3>1, <3>2 DEF FreedByOne, EverythingGoes
  <2> QED
    BY <2>1, <2>2, <2>3, <2>4, <2>5, <2>6 DEF Inv, Accounts
<1>2. Inv /\ [Next]_vars => Inv'
  BY TypeStep, EarlyStep, OrderStep, ListenerStep, RegisteredStep, ServiceStep, AccountStep
     DEF Inv
<1> QED
  BY <1>1, <1>2, PTL DEF Spec

\* Whatever the DPS loop thread calls or walks is alive while it does, in the
\* midst of any creation, failed or not, and any destruction.
THEOREM CallbacksAreSafe == Spec => []CallbacksFindObjects
<1>1. Inv => CallbacksFindObjects
  <2> SUFFICES ASSUME Inv
               PROVE  CallbacksFindObjects
    OBVIOUS
  <2>1. ASSUME loop[1] = "listener"
        PROVE  Alive(loop[2], "listener")
    <3>1. PICK e \in Listening : loop = <<"listener", e>>
      BY <2>1 DEF Inv, TypeOK
    <3> QED
      BY <3>1 DEF Inv, ListenerOfObject, Alive
  <2>2. ASSUME loop[1] \in DOMAIN Successor,
               NEW o \in {"handle", "info", "listener", "guard", "svc"}
        PROVE  Alive(Node, o)
    BY <2>2 DEF Inv, ServiceGoesFirst, HandlerUses, Alive
  <2>3. ASSUME NEW e \in Endpoints, "register" \in done[e]
        PROVE  Alive(e, "info")
    BY <2>3 DEF Inv, InfoOfRegistered, Alive
  <2> QED
    BY <2>1, <2>2, <2>3 DEF CallbacksFindObjects
<1> QED
  BY <1>1, Invariance, PTL

\* Whichever path a call takes, through its error paths or DPS's callbacks, it
\* frees no object twice.
THEOREM NothingFreedTwice == Spec => []FreedOnce
<1>1. Inv => FreedOnce
  BY DEF Inv, Accounts, FreedByOne, FreedOnce
<1> QED
  BY <1>1, Invariance, PTL

\* A call that is over leaves no object behind but a listener that it created
\* and handed to no DPS object.
THEOREM ReleasesAreComplete == Spec => []NothingElseLeaks
<1>1. Inv => NothingElseLeaks
  <2> SUFFICES ASSUME Inv, NEW e \in Entities, NEW o \in Objects, stage[e] = "gone",
                      ({e} \X {"dps", "svc"}) \cap doomed = {}, Alive(e, o)
               PROVE  o = "listener" /\ "data" \notin done[e]
    BY DEF NothingElseLeaks
  <2>1. ToCome(e) = {}
    BY DEF ToCome
  <2>2. \A p \in {"dps", "svc"} : <<e, p>> \notin doomed
    OBVIOUS
  <2>3. doomed \subseteq Entities \X {"dps", "svc"} /\ \A p \in Objects : freed[e][p] \in Nat
    BY DEF Inv, TypeOK
  <2>4. \A p : <<e, p>> \notin doomed
    BY <2>2, <2>3
  <2>5. EverythingGoes(e)
    BY DEF Inv, Accounts
  <2>6. ASSUME NEW p \in Objects \cap done[e], freed[e][p] = 0
        PROVE  p = "listener" /\ e \in Listening
    <3>1. \/ freed[e][p] > 0 \/ <<e, p>> \in doomed
          \/ Delete(p) \in ToCome(e) \/ Destroy(p) \in ToCome(e)
          \/ p = "listener" /\ e \in Listening
      BY <2>5 DEF EverythingGoes
    <3> QED
      BY <2>1, <2>4, <2>6, <3>1
  <2>7. o = "listener" /\ e \in Listening /\ freed[e]["listener"] = 0
    BY <2>6 DEF Alive
  <2>8. ASSUME "data" \in done[e]
        PROVE  FALSE
    <3>1. "dps" \in done[e] /\ (freed[e]["dps"] > 0 => freed[e]["listener"] > 0)
      BY <2>5, <2>7, <2>8 DEF EverythingGoes
    <3>2. "dps" \in Objects /\ "dps" # "listener"
      BY DEF Objects
    <3>3. freed[e]["dps"] = 0
      BY <2>3, <2>7, <3>1, <3>2
    <3> QED
      BY <2>6, <3>1, <3>2, <3>3
  <2> QED
    BY <2>7, <2>8
<1> QED
  BY <1>1, Invariance, PTL

==============================================================================
