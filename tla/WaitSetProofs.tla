--------------------------- MODULE WaitSetProofs ---------------------------
(* Proofs about WaitSet, for any number of threads, entities and signals. *)
EXTENDS WaitSet, TLAPS

\* A signal stored in an entity keeps every readiness count a natural number
\* and a guard condition's flag 0 or 1.
LEMMA StoredType ==
  ASSUME TypeOK, NEW e \in Entities
  PROVE  /\ Stored(e) \in [Entities -> Nat]
         /\ \A g \in Guards : Stored(e)[g] <= 1
         /\ Stored(e)[e] > 0
         /\ \A f \in Entities \ {e} : Stored(e)[f] = ready[f]
  BY DEF TypeOK, Stored, Entities

\* Every variable keeps its type; a guard condition's flag is 0 or 1.
THEOREM Typing == Spec => []TypeOK
  <1>1. Init => TypeOK
    BY EntitiesAssumption DEF Init, TypeOK, WaiterPCs, Deadlines, SignalerPCs, Entities
  <1>2. TypeOK /\ [Next]_vars => TypeOK'
  <2> SUFFICES ASSUME TypeOK, [Next]_vars PROVE TypeOK'
    OBVIOUS
  <2> USE EntitiesAssumption, WaitListsAssumption DEF TypeOK, Entities, Current, More
  <2>1. ASSUME NEW w \in Waiters, CreateWaitSet(w)
       PROVE  TypeOK'
    BY <2>1 DEF lockVars, callVars, signalVars, WaiterPCs, SignalerPCs, Deadlines, WaitSetOf, CreateWaitSet
  <2>2. ASSUME NEW w \in Waiters, DestroyWaitSet(w)
       PROVE  TypeOK'
    BY <2>2 DEF lockVars, callVars, signalVars, WaiterPCs, SignalerPCs, Deadlines, WaitSetOf, DestroyWaitSet
  <2>3. ASSUME NEW w \in Waiters, NEW l \in WaitLists[w], NEW d \in Deadlines, Call(w, l, d)
       PROVE  TypeOK'
    BY <2>3 DEF lockVars, callVars, signalVars, WaiterPCs, SignalerPCs, Deadlines, WaitSetOf, Call
  <2>4. ASSUME NEW w \in Waiters, Attach(w)
       PROVE  TypeOK'
    BY <2>4 DEF lockVars, callVars, signalVars, WaiterPCs, SignalerPCs, Deadlines, WaitSetOf, Attach
  <2>5. ASSUME NEW w \in Waiters, LockForCheck(w)
       PROVE  TypeOK'
    BY <2>5 DEF lockVars, callVars, signalVars, WaiterPCs, SignalerPCs, Deadlines, WaitSetOf, LockForCheck
  <2>6. ASSUME NEW w \in Waiters, CheckNext(w)
       PROVE  TypeOK'
    BY <2>6 DEF lockVars, callVars, signalVars, WaiterPCs, SignalerPCs, Deadlines, WaitSetOf, CheckNext
  <2>7. ASSUME NEW w \in Waiters, CheckTrue(w)
       PROVE  TypeOK'
    BY <2>7 DEF lockVars, callVars, signalVars, WaiterPCs, SignalerPCs, Deadlines, WaitSetOf, CheckTrue
  <2>8. ASSUME NEW w \in Waiters, GiveUp(w)
       PROVE  TypeOK'
    BY <2>8 DEF lockVars, callVars, signalVars, WaiterPCs, SignalerPCs, Deadlines, WaitSetOf, GiveUp
  <2>9. ASSUME NEW w \in Waiters, Block(w)
       PROVE  TypeOK'
    BY <2>9 DEF lockVars, callVars, signalVars, WaiterPCs, SignalerPCs, Deadlines, WaitSetOf, Block
  <2>10. ASSUME NEW w \in Waiters, WakeSpuriously(w)
       PROVE  TypeOK'
    BY <2>10 DEF lockVars, callVars, signalVars, WaiterPCs, SignalerPCs, Deadlines, WaitSetOf, WakeSpuriously
  <2>11. ASSUME NEW w \in Waiters, Expire(w)
       PROVE  TypeOK'
    BY <2>11 DEF lockVars, callVars, signalVars, WaiterPCs, SignalerPCs, Deadlines, WaitSetOf, Expire
  <2>12. ASSUME NEW w \in Waiters, Reacquire(w)
       PROVE  TypeOK'
    BY <2>12 DEF lockVars, callVars, signalVars, WaiterPCs, SignalerPCs, Deadlines, WaitSetOf, Reacquire
  <2>13. ASSUME NEW w \in Waiters, Unlock(w)
       PROVE  TypeOK'
    BY <2>13 DEF lockVars, callVars, signalVars, WaiterPCs, SignalerPCs, Deadlines, WaitSetOf, Unlock
  <2>14. ASSUME NEW w \in Waiters, Detach(w)
       PROVE  TypeOK'
    BY <2>14 DEF lockVars, callVars, signalVars, WaiterPCs, SignalerPCs, Deadlines, WaitSetOf, Detach
  <2>15. ASSUME NEW w \in Waiters, Read(w)
       PROVE  TypeOK'
    BY <2>15 DEF lockVars, callVars, signalVars, WaiterPCs, SignalerPCs, Deadlines, WaitSetOf, Read
  <2>16. ASSUME NEW w \in Waiters, Return(w)
       PROVE  TypeOK'
    BY <2>16 DEF lockVars, callVars, signalVars, WaiterPCs, SignalerPCs, Deadlines, WaitSetOf, Return
  <2>17. ASSUME NEW w \in Waiters, NEW e \in Listeners, TakeNextData(w, e)
       PROVE  TypeOK'
    BY <2>17 DEF lockVars, callVars, signalVars, WaiterPCs, SignalerPCs, Deadlines, WaitSetOf, TakeNextData
  <2>18. ASSUME NEW w \in Waiters, Done(w)
       PROVE  TypeOK'
    BY <2>18 DEF lockVars, callVars, signalVars, WaiterPCs, SignalerPCs, Deadlines, WaitSetOf, Done
  <2>19. ASSUME NEW e \in Polled, Poll(e)
       PROVE  TypeOK'
    BY <2>19 DEF lockVars, callVars, signalVars, WaiterPCs, SignalerPCs, Deadlines, WaitSetOf, Poll
  <2>20. ASSUME NEW s \in Signalers, NEW e \in Entities, Signal(s, e)
       PROVE  TypeOK'
    BY <2>20 DEF lockVars, callVars, signalVars, WaiterPCs, SignalerPCs, Deadlines, WaitSetOf, Signal
  <2>21. ASSUME NEW s \in Signalers, StoreDetached(s)
       PROVE  TypeOK'
    <3>1. CASE target[s] \notin Entities
      BY <2>21, <3>1 DEF StoreDetached, Stored, lockVars, callVars, signalVars, WaiterPCs, SignalerPCs, WaitSetOf
    <3>2. CASE target[s] \in Entities
      BY <2>21, <3>2, StoredType DEF StoreDetached, lockVars, callVars, signalVars, WaiterPCs, SignalerPCs, WaitSetOf
    <3>. QED  BY <3>1, <3>2
  <2>22. ASSUME NEW s \in Signalers, LockCondition(s)
       PROVE  TypeOK'
    BY <2>22 DEF lockVars, callVars, signalVars, WaiterPCs, SignalerPCs, Deadlines, WaitSetOf, LockCondition
  <2>23. ASSUME NEW s \in Signalers, StoreAttached(s)
       PROVE  TypeOK'
    <3>1. CASE target[s] \notin Entities
      BY <2>23, <3>1 DEF StoreAttached, Stored, lockVars, callVars, signalVars, WaiterPCs, SignalerPCs, WaitSetOf
    <3>2. CASE target[s] \in Entities
      BY <2>23, <3>2, StoredType DEF StoreAttached, lockVars, callVars, signalVars, WaiterPCs, SignalerPCs, WaitSetOf
    <3>. QED  BY <3>1, <3>2
  <2>24. ASSUME NEW s \in Signalers, Notify(s)
       PROVE  TypeOK'
    BY <2>24 DEF lockVars, callVars, signalVars, WaiterPCs, SignalerPCs, Deadlines, WaitSetOf, Notify
  <2>25. CASE UNCHANGED vars
    BY <2>25 DEF lockVars, callVars, signalVars, WaiterPCs, SignalerPCs, Deadlines, WaitSetOf, vars, lockVars, callVars, signalVars
  <2>. QED
    BY <2>1, <2>2, <2>3, <2>4, <2>5, <2>6, <2>7, <2>8, <2>9, <2>10, <2>11, <2>12, <2>13, <2>14, <2>15, <2>16, <2>17, <2>18, <2>19, <2>20, <2>21, <2>22, <2>23, <2>24, <2>25 DEF Next, WaitStep, CallerStep, SignalStep
  <1>3. QED
    BY <1>1, <1>2, PTL DEF Spec

\* The shape of the calls in progress depends on little: a step that keeps the
\* lists, the reports and the wait sets, and starts or ends no call, keeps it.
LEMMA ShapeFrame ==
  ASSUME CallShape, list' = list, reported' = reported, alive' = alive,
         \A w \in Waiters : InCall(w)' <=> InCall(w)
  PROVE  CallShape'
  BY DEF CallShape

\* A call names each entity once, in no other call's list, from its first step
\* to its last, and only its own waiter changes that.
LEMMA ShapeStep == TypeOK /\ CallShape /\ [Next]_vars => CallShape'
  <1> SUFFICES ASSUME TypeOK, CallShape, [Next]_vars PROVE CallShape'
    OBVIOUS
  <1>t. /\ pc \in [Waiters -> WaiterPCs]
        /\ alive \in [Waiters -> BOOLEAN]
        /\ list \in [Waiters -> Seq(Entities)]
        /\ idx \in [Waiters -> Nat \ {0}]
        /\ reported \in [Waiters -> SUBSET Entities]
    BY DEF TypeOK
  <1>1. ASSUME NEW w \in Waiters, CreateWaitSet(w)
       PROVE  CallShape'
    BY <1>1, <1>t DEF CreateWaitSet, CallShape, callVars, InCall
  <1>2. ASSUME NEW w \in Waiters, DestroyWaitSet(w)
       PROVE  CallShape'
    BY <1>2, <1>t DEF DestroyWaitSet, CallShape, callVars, InCall
  <1>3. ASSUME NEW w \in Waiters, NEW l \in WaitLists[w], NEW d \in Deadlines, Call(w, l, d)
       PROVE  CallShape'
    <2>1. /\ \A i, j \in 1..Len(l) : l[i] = l[j] => i = j
          /\ l \in Seq(Entities)
      BY WaitListsAssumption
    <2>2. /\ list'[w] = l /\ pc'[w] = "attach" /\ alive'[w] /\ reported'[w] = {}
          /\ \A v \in Waiters \ {w} : list'[v] = list[v] /\ pc'[v] = pc[v]
          /\ alive' = alive /\ reported' = reported
      BY <1>3, <1>t DEF Call, CallShape, InCall
    <2>3. \A v \in Waiters \ {w} : /\ RangeOf(list'[v]) \cap RangeOf(list'[w]) = {}
                                  /\ RangeOf(list'[w]) \cap RangeOf(list'[v]) = {}
      BY <1>3, <2>2 DEF Call
    <2>4. /\ InCall(w)' => alive'[w]
          /\ ~InCall(w)' => list'[w] = <<>> /\ reported'[w] = {}
          /\ \A i, j \in 1..Len(list'[w]) : list'[w][i] = list'[w][j] => i = j
          /\ reported'[w] \subseteq RangeOf(list'[w])
      BY <2>1, <2>2 DEF InCall
    <2>5. ASSUME NEW v \in Waiters \ {w}
          PROVE  /\ InCall(v)' => alive'[v]
                 /\ ~InCall(v)' => list'[v] = <<>> /\ reported'[v] = {}
                 /\ \A i, j \in 1..Len(list'[v]) : list'[v][i] = list'[v][j] => i = j
                 /\ reported'[v] \subseteq RangeOf(list'[v])
      BY <2>2 DEF CallShape, InCall
    <2>6. ASSUME NEW v \in Waiters \ {w}, NEW u \in Waiters \ {v}, u # w
          PROVE  RangeOf(list'[u]) \cap RangeOf(list'[v]) = {}
      BY <2>2, <2>6 DEF CallShape
    <2>7. \A v \in Waiters : \A u \in Waiters \ {v} :
             RangeOf(list'[u]) \cap RangeOf(list'[v]) = {}
      BY <2>3, <2>6
    <2>. QED
      BY <2>4, <2>5, <2>7 DEF CallShape
  <1>4. ASSUME NEW w \in Waiters, Attach(w)
       PROVE  CallShape'
    BY <1>4, <1>t, ShapeFrame DEF lockVars, callVars, signalVars, InCall, Attach
  <1>5. ASSUME NEW w \in Waiters, LockForCheck(w)
       PROVE  CallShape'
    BY <1>5, <1>t, ShapeFrame DEF lockVars, callVars, signalVars, InCall, LockForCheck
  <1>6. ASSUME NEW w \in Waiters, CheckNext(w)
       PROVE  CallShape'
    BY <1>6, <1>t, ShapeFrame DEF lockVars, callVars, signalVars, InCall, CheckNext
  <1>7. ASSUME NEW w \in Waiters, CheckTrue(w)
       PROVE  CallShape'
    BY <1>7, <1>t, ShapeFrame DEF lockVars, callVars, signalVars, InCall, CheckTrue
  <1>8. ASSUME NEW w \in Waiters, GiveUp(w)
       PROVE  CallShape'
    BY <1>8, <1>t, ShapeFrame DEF lockVars, callVars, signalVars, InCall, GiveUp
  <1>9. ASSUME NEW w \in Waiters, Block(w)
       PROVE  CallShape'
    BY <1>9, <1>t, ShapeFrame DEF lockVars, callVars, signalVars, InCall, Block
  <1>10. ASSUME NEW w \in Waiters, WakeSpuriously(w)
       PROVE  CallShape'
    BY <1>10, <1>t, ShapeFrame DEF lockVars, callVars, signalVars, InCall, WakeSpuriously
  <1>11. ASSUME NEW w \in Waiters, Expire(w)
       PROVE  CallShape'
    BY <1>11, <1>t, ShapeFrame DEF lockVars, callVars, signalVars, InCall, Expire
  <1>12. ASSUME NEW w \in Waiters, Reacquire(w)
       PROVE  CallShape'
    BY <1>12, <1>t, ShapeFrame DEF lockVars, callVars, signalVars, InCall, Reacquire
  <1>13. ASSUME NEW w \in Waiters, Unlock(w)
       PROVE  CallShape'
    BY <1>13, <1>t, ShapeFrame DEF lockVars, callVars, signalVars, InCall, Unlock
  <1>14. ASSUME NEW w \in Waiters, Detach(w)
       PROVE  CallShape'
    BY <1>14, <1>t, ShapeFrame DEF lockVars, callVars, signalVars, InCall, Detach
  <1>15. ASSUME NEW w \in Waiters, Read(w)
       PROVE  CallShape'
    <2>1. Current(w) \in RangeOf(list[w])
      BY <1>15, <1>t DEF Read, Current, RangeOf, TypeOK, More
    <2>2. /\ reported'[w] \subseteq reported[w] \cup {Current(w)}
          /\ \A v \in Waiters \ {w} : reported'[v] = reported[v]
      BY <1>15, <1>t DEF Read
    <2>3. list' = list /\ alive' = alive /\ \A v \in Waiters : InCall(v)' <=> InCall(v)
      BY <1>15, <1>t DEF Read, InCall
    <2>4. \A v \in Waiters : reported'[v] \subseteq RangeOf(list[v])
      BY <2>1, <2>2 DEF CallShape
    <2>5. \A v \in Waiters : ~InCall(v)' => reported'[v] = {}
      BY <2>2, <2>3, <1>15, <1>t DEF CallShape, Read, InCall
    <2>. QED
      BY <2>3, <2>4, <2>5 DEF CallShape
  <1>16. ASSUME NEW w \in Waiters, Return(w)
       PROVE  CallShape'
    BY <1>16, <1>t, ShapeFrame DEF lockVars, callVars, signalVars, InCall, Return
  <1>17. ASSUME NEW w \in Waiters, NEW e \in Listeners, TakeNextData(w, e)
       PROVE  CallShape'
    BY <1>17, <1>t, ShapeFrame DEF lockVars, callVars, signalVars, InCall, TakeNextData
  <1>18. ASSUME NEW w \in Waiters, Done(w)
       PROVE  CallShape'
    <2>1. /\ list'[w] = <<>> /\ pc'[w] = "idle" /\ reported'[w] = {}
          /\ \A v \in Waiters \ {w} :
                list'[v] = list[v] /\ pc'[v] = pc[v] /\ reported'[v] = reported[v]
          /\ alive' = alive
      BY <1>18, <1>t DEF Done
    <2>2. RangeOf(list'[w]) = {}
      BY <2>1 DEF RangeOf
    <2>3. ASSUME NEW v \in Waiters
          PROVE  /\ InCall(v)' => alive'[v]
                 /\ ~InCall(v)' => list'[v] = <<>> /\ reported'[v] = {}
                 /\ \A i, j \in 1..Len(list'[v]) : list'[v][i] = list'[v][j] => i = j
                 /\ reported'[v] \subseteq RangeOf(list'[v])
      <3>1. CASE v = w
        BY <2>1, <3>1 DEF InCall
      <3>2. CASE v # w
        BY <2>1, <3>2 DEF CallShape, InCall
      <3>. QED
        BY <3>1, <3>2
    <2>4. ASSUME NEW v \in Waiters, NEW u \in Waiters \ {v}
          PROVE  RangeOf(list'[u]) \cap RangeOf(list'[v]) = {}
      <3>1. CASE u = w \/ v = w
        BY <2>2, <3>1
      <3>2. CASE u # w /\ v # w
        BY <2>1, <3>2 DEF CallShape
      <3>. QED
        BY <3>1, <3>2
    <2>. QED
      BY <2>3, <2>4 DEF CallShape
  <1>19. ASSUME NEW e \in Polled, Poll(e)
       PROVE  CallShape'
    BY <1>19, <1>t, ShapeFrame DEF lockVars, callVars, signalVars, InCall, Poll
  <1>20. ASSUME NEW s \in Signalers, NEW e \in Entities, Signal(s, e)
       PROVE  CallShape'
    BY <1>20, <1>t, ShapeFrame DEF lockVars, callVars, signalVars, InCall, Signal
  <1>21. ASSUME NEW s \in Signalers, StoreDetached(s)
       PROVE  CallShape'
    BY <1>21, <1>t, ShapeFrame DEF lockVars, callVars, signalVars, InCall, StoreDetached
  <1>22. ASSUME NEW s \in Signalers, LockCondition(s)
       PROVE  CallShape'
    BY <1>22, <1>t, ShapeFrame DEF lockVars, callVars, signalVars, InCall, LockCondition
  <1>23. ASSUME NEW s \in Signalers, StoreAttached(s)
       PROVE  CallShape'
    BY <1>23, <1>t, ShapeFrame DEF lockVars, callVars, signalVars, InCall, StoreAttached
  <1>24. ASSUME NEW s \in Signalers, Notify(s)
       PROVE  CallShape'
    BY <1>24, <1>t, ShapeFrame DEF lockVars, callVars, signalVars, InCall, Notify
  <1>25. CASE UNCHANGED vars
    BY <1>25, <1>t, ShapeFrame DEF lockVars, callVars, signalVars, InCall, vars, lockVars, callVars, signalVars
  <1>. QED
    BY <1>1, <1>2, <1>3, <1>4, <1>5, <1>6, <1>7, <1>8, <1>9, <1>10, <1>11, <1>12, <1>13, <1>14, <1>15, <1>16, <1>17, <1>18, <1>19, <1>20, <1>21, <1>22, <1>23, <1>24, <1>25 DEF Next, WaitStep, CallerStep, SignalStep

\* Mutual exclusion.  It rests on nothing but the types: an entity's condition
\* pointer changes only while its internal mutex is free, so a signaler inside
\* keeps the wait set it found, and a mutex is released only by its owner.
LEMMA LocksStep == TypeOK /\ LocksHeld /\ [Next]_vars => LocksHeld'
  <1> SUFFICES ASSUME TypeOK, LocksHeld, [Next]_vars PROVE LocksHeld'
    OBVIOUS
  <1>t. /\ pc \in [Waiters -> WaiterPCs]
        /\ spc \in [Signalers -> SignalerPCs]
        /\ target \in [Signalers -> Entities \cup {None}]
        /\ cond \in [Entities -> Waiters \cup {None}]
        /\ internalMutex \in [Entities -> Signalers \cup {None}]
        /\ conditionMutex \in [Waiters -> Waiters \cup Signalers \cup {None}]
    BY DEF TypeOK
  <1>1. ASSUME NEW w \in Waiters, CreateWaitSet(w)
       PROVE  LocksHeld'
    BY <1>1, <1>t, ThreadsAssumption DEF LocksHeld, WaitSetOf, lockVars, callVars, signalVars, Current, More, CreateWaitSet
  <1>2. ASSUME NEW w \in Waiters, DestroyWaitSet(w)
       PROVE  LocksHeld'
    BY <1>2, <1>t, ThreadsAssumption DEF LocksHeld, WaitSetOf, lockVars, callVars, signalVars, Current, More, DestroyWaitSet
  <1>3. ASSUME NEW w \in Waiters, NEW l \in WaitLists[w], NEW d \in Deadlines, Call(w, l, d)
       PROVE  LocksHeld'
    BY <1>3, <1>t, ThreadsAssumption DEF LocksHeld, WaitSetOf, lockVars, callVars, signalVars, Current, More, Call
  <1>4. ASSUME NEW w \in Waiters, Attach(w)
       PROVE  LocksHeld'
    BY <1>4, <1>t, ThreadsAssumption DEF LocksHeld, WaitSetOf, lockVars, callVars, signalVars, Current, More, Attach
  <1>5. ASSUME NEW w \in Waiters, LockForCheck(w)
       PROVE  LocksHeld'
    BY <1>5, <1>t, ThreadsAssumption DEF LocksHeld, WaitSetOf, lockVars, callVars, signalVars, Current, More, LockForCheck
  <1>6. ASSUME NEW w \in Waiters, CheckNext(w)
       PROVE  LocksHeld'
    BY <1>6, <1>t, ThreadsAssumption DEF LocksHeld, WaitSetOf, lockVars, callVars, signalVars, Current, More, CheckNext
  <1>7. ASSUME NEW w \in Waiters, CheckTrue(w)
       PROVE  LocksHeld'
    BY <1>7, <1>t, ThreadsAssumption DEF LocksHeld, WaitSetOf, lockVars, callVars, signalVars, Current, More, CheckTrue
  <1>8. ASSUME NEW w \in Waiters, GiveUp(w)
       PROVE  LocksHeld'
    BY <1>8, <1>t, ThreadsAssumption DEF LocksHeld, WaitSetOf, lockVars, callVars, signalVars, Current, More, GiveUp
  <1>9. ASSUME NEW w \in Waiters, Block(w)
       PROVE  LocksHeld'
    BY <1>9, <1>t, ThreadsAssumption DEF LocksHeld, WaitSetOf, lockVars, callVars, signalVars, Current, More, Block
  <1>10. ASSUME NEW w \in Waiters, WakeSpuriously(w)
       PROVE  LocksHeld'
    BY <1>10, <1>t, ThreadsAssumption DEF LocksHeld, WaitSetOf, lockVars, callVars, signalVars, Current, More, WakeSpuriously
  <1>11. ASSUME NEW w \in Waiters, Expire(w)
       PROVE  LocksHeld'
    BY <1>11, <1>t, ThreadsAssumption DEF LocksHeld, WaitSetOf, lockVars, callVars, signalVars, Current, More, Expire
  <1>12. ASSUME NEW w \in Waiters, Reacquire(w)
       PROVE  LocksHeld'
    BY <1>12, <1>t, ThreadsAssumption DEF LocksHeld, WaitSetOf, lockVars, callVars, signalVars, Current, More, Reacquire
  <1>13. ASSUME NEW w \in Waiters, Unlock(w)
       PROVE  LocksHeld'
    BY <1>13, <1>t, ThreadsAssumption DEF LocksHeld, WaitSetOf, lockVars, callVars, signalVars, Current, More, Unlock
  <1>14. ASSUME NEW w \in Waiters, Detach(w)
       PROVE  LocksHeld'
    BY <1>14, <1>t, ThreadsAssumption DEF LocksHeld, WaitSetOf, lockVars, callVars, signalVars, Current, More, Detach
  <1>15. ASSUME NEW w \in Waiters, Read(w)
       PROVE  LocksHeld'
    BY <1>15, <1>t, ThreadsAssumption DEF LocksHeld, WaitSetOf, lockVars, callVars, signalVars, Current, More, Read
  <1>16. ASSUME NEW w \in Waiters, Return(w)
       PROVE  LocksHeld'
    BY <1>16, <1>t, ThreadsAssumption DEF LocksHeld, WaitSetOf, lockVars, callVars, signalVars, Current, More, Return
  <1>17. ASSUME NEW w \in Waiters, NEW e \in Listeners, TakeNextData(w, e)
       PROVE  LocksHeld'
    BY <1>17, <1>t, ThreadsAssumption DEF LocksHeld, WaitSetOf, lockVars, callVars, signalVars, Current, More, TakeNextData
  <1>18. ASSUME NEW w \in Waiters, Done(w)
       PROVE  LocksHeld'
    BY <1>18, <1>t, ThreadsAssumption DEF LocksHeld, WaitSetOf, lockVars, callVars, signalVars, Current, More, Done
  <1>19. ASSUME NEW e \in Polled, Poll(e)
       PROVE  LocksHeld'
    BY <1>19, <1>t, ThreadsAssumption DEF LocksHeld, WaitSetOf, lockVars, callVars, signalVars, Current, More, Poll
  <1>20. ASSUME NEW s \in Signalers, NEW e \in Entities, Signal(s, e)
       PROVE  LocksHeld'
    BY <1>20, <1>t, ThreadsAssumption DEF LocksHeld, WaitSetOf, lockVars, callVars, signalVars, Current, More, Signal
  <1>21. ASSUME NEW s \in Signalers, StoreDetached(s)
       PROVE  LocksHeld'
    BY <1>21, <1>t, ThreadsAssumption DEF LocksHeld, WaitSetOf, lockVars, callVars, signalVars, Current, More, StoreDetached
  <1>22. ASSUME NEW s \in Signalers, LockCondition(s)
       PROVE  LocksHeld'
    BY <1>22, <1>t, ThreadsAssumption DEF LocksHeld, WaitSetOf, lockVars, callVars, signalVars, Current, More, LockCondition
  <1>23. ASSUME NEW s \in Signalers, StoreAttached(s)
       PROVE  LocksHeld'
    BY <1>23, <1>t, ThreadsAssumption DEF LocksHeld, WaitSetOf, lockVars, callVars, signalVars, Current, More, StoreAttached
  <1>24. ASSUME NEW s \in Signalers, Notify(s)
       PROVE  LocksHeld'
    BY <1>24, <1>t, ThreadsAssumption DEF LocksHeld, WaitSetOf, lockVars, callVars, signalVars, Current, More, Notify
  <1>25. CASE UNCHANGED vars
    BY <1>25, <1>t, ThreadsAssumption DEF LocksHeld, WaitSetOf, lockVars, callVars, signalVars, Current, More, vars, lockVars, callVars, signalVars
  <1>. QED
    BY <1>1, <1>2, <1>3, <1>4, <1>5, <1>6, <1>7, <1>8, <1>9, <1>10, <1>11, <1>12, <1>13, <1>14, <1>15, <1>16, <1>17, <1>18, <1>19, <1>20, <1>21, <1>22, <1>23, <1>24, <1>25 DEF Next, WaitStep, CallerStep, SignalStep

\* Which wait set an entity points to follows from where its waiter is.
LEMMA RangeOfMember ==
  ASSUME NEW l \in Seq(Entities), NEW i \in 1..Len(l)
  PROVE  l[i] \in RangeOf(l) /\ l[i] \in Entities
  BY DEF RangeOf

\* What is attached depends on the condition pointers and the place of each call.
LEMMA AttachmentFrame ==
  ASSUME Attachment, cond' = cond, list' = list,
         \A w \in Waiters : \A i \in 1..Len(list[w]) :
            AttachedAt(w, i)' <=> AttachedAt(w, i)
  PROVE  Attachment'
  BY DEF Attachment

\* The attach loop and the detach loop touch each entity of the call exactly once,
\* and no other call touches it.
LEMMA AttachmentStep ==
  TypeOK /\ CallShape /\ Attachment /\ [Next]_vars => Attachment'
  <1> SUFFICES ASSUME TypeOK, CallShape, Attachment, [Next]_vars
               PROVE  Attachment'
    OBVIOUS
  <1>t. /\ pc \in [Waiters -> WaiterPCs]
        /\ idx \in [Waiters -> Nat \ {0}]
        /\ list \in [Waiters -> Seq(Entities)]
        /\ cond \in [Entities -> Waiters \cup {None}]
    BY DEF TypeOK
  <1>d. \A v, w \in Waiters : \A i \in 1..Len(list[v]), j \in 1..Len(list[w]) :
           list[v][i] = list[w][j] => v = w /\ i = j
    <2> SUFFICES ASSUME NEW v \in Waiters, NEW w \in Waiters,
                        NEW i \in 1..Len(list[v]), NEW j \in 1..Len(list[w]),
                        list[v][i] = list[w][j]
                 PROVE  v = w /\ i = j
      OBVIOUS
    <2>1. list[v][i] \in RangeOf(list[v]) /\ list[w][j] \in RangeOf(list[w])
      BY <1>t, RangeOfMember
    <2>2. v = w
      BY <2>1 DEF CallShape
    <2>. QED
      BY <2>2 DEF CallShape
  <1>1. ASSUME NEW w \in Waiters, CreateWaitSet(w)
       PROVE  Attachment'
    BY <1>1, <1>t, AttachmentFrame DEF AttachedAt, lockVars, callVars, signalVars, CreateWaitSet
  <1>2. ASSUME NEW w \in Waiters, DestroyWaitSet(w)
       PROVE  Attachment'
    BY <1>2, <1>t, AttachmentFrame DEF AttachedAt, lockVars, callVars, signalVars, DestroyWaitSet
  <1>3. ASSUME NEW w \in Waiters, NEW l \in WaitLists[w], NEW d \in Deadlines, Call(w, l, d)
       PROVE  Attachment'
    <2>1. /\ l \in Seq(Entities) /\ list'[w] = l /\ cond' = cond
          /\ pc'[w] = "attach" /\ idx'[w] = 1
          /\ \A v \in Waiters \ {w} :
                list'[v] = list[v] /\ pc'[v] = pc[v] /\ idx'[v] = idx[v]
      BY <1>3, <1>t, WaitListsAssumption DEF Call
    <2>2. \A e \in Entities : cond[e] # w
      BY <1>3 DEF Call, Attachment, CallShape, InCall, RangeOf
    <2>3. \A e \in Entities, v \in Waiters : cond'[e] = v => e \in RangeOf(list'[v])
      BY <2>1, <2>2 DEF Attachment
    <2>4. \A i \in 1..Len(list'[w]) : cond'[list'[w][i]] # w /\ ~AttachedAt(w, i)'
      BY <2>1, <2>2, RangeOfMember DEF AttachedAt
    <2>5. ASSUME NEW v \in Waiters \ {w}, NEW i \in 1..Len(list'[v])
          PROVE  cond'[list'[v][i]] = v <=> AttachedAt(v, i)'
      BY <2>1 DEF Attachment, AttachedAt
    <2>. QED
      BY <2>3, <2>4, <2>5 DEF Attachment
  <1>4. ASSUME NEW w \in Waiters, Attach(w)
       PROVE  Attachment'
    <2>1. Current(w) \in Entities /\ Current(w) \in RangeOf(list[w])
      BY <1>4, <1>t, RangeOfMember DEF Attach, More, Current
    <2>2. \A e \in Entities, v \in Waiters : cond'[e] = v => e \in RangeOf(list'[v])
      BY <1>4, <1>t, <2>1, ThreadsAssumption DEF Attach, Attachment
    <2>3. ASSUME NEW v \in Waiters, NEW i \in 1..Len(list'[v])
          PROVE  cond'[list'[v][i]] = v <=> AttachedAt(v, i)'
      <3>1. list' = list /\ list[v][i] \in Entities
        BY <1>4, <1>t, RangeOfMember DEF Attach
      <3>2. CASE v = w /\ i = idx[w]
        BY <1>4, <1>t, <2>1, <3>1, <3>2, ThreadsAssumption DEF Attach, AttachedAt, Current
      <3>3. CASE ~(v = w /\ i = idx[w])
        <4>1. cond'[list[v][i]] = cond[list[v][i]]
          BY <1>4, <1>t, <1>d, <2>1, <3>1, <3>3 DEF Attach, Current, More
        <4>2. AttachedAt(v, i)' <=> AttachedAt(v, i)
          BY <1>4, <1>t, <3>1, <3>3 DEF Attach, AttachedAt
        <4>. QED
          BY <3>1, <4>1, <4>2 DEF Attachment
      <3>. QED  BY <3>2, <3>3
    <2>. QED
      BY <2>2, <2>3 DEF Attachment
  <1>5. ASSUME NEW w \in Waiters, LockForCheck(w)
       PROVE  Attachment'
    BY <1>5, <1>t, AttachmentFrame DEF AttachedAt, lockVars, callVars, signalVars, More, LockForCheck
  <1>6. ASSUME NEW w \in Waiters, CheckNext(w)
       PROVE  Attachment'
    BY <1>6, <1>t, AttachmentFrame DEF AttachedAt, lockVars, callVars, signalVars, CheckNext
  <1>7. ASSUME NEW w \in Waiters, CheckTrue(w)
       PROVE  Attachment'
    BY <1>7, <1>t, AttachmentFrame DEF AttachedAt, lockVars, callVars, signalVars, CheckTrue
  <1>8. ASSUME NEW w \in Waiters, GiveUp(w)
       PROVE  Attachment'
    BY <1>8, <1>t, AttachmentFrame DEF AttachedAt, lockVars, callVars, signalVars, GiveUp
  <1>9. ASSUME NEW w \in Waiters, Block(w)
       PROVE  Attachment'
    BY <1>9, <1>t, AttachmentFrame DEF AttachedAt, lockVars, callVars, signalVars, Block
  <1>10. ASSUME NEW w \in Waiters, WakeSpuriously(w)
       PROVE  Attachment'
    BY <1>10, <1>t, AttachmentFrame DEF AttachedAt, lockVars, callVars, signalVars, WakeSpuriously
  <1>11. ASSUME NEW w \in Waiters, Expire(w)
       PROVE  Attachment'
    BY <1>11, <1>t, AttachmentFrame DEF AttachedAt, lockVars, callVars, signalVars, Expire
  <1>12. ASSUME NEW w \in Waiters, Reacquire(w)
       PROVE  Attachment'
    BY <1>12, <1>t, AttachmentFrame DEF AttachedAt, lockVars, callVars, signalVars, Reacquire
  <1>13. ASSUME NEW w \in Waiters, Unlock(w)
       PROVE  Attachment'
    BY <1>13, <1>t, AttachmentFrame DEF AttachedAt, lockVars, callVars, signalVars, Unlock
  <1>14. ASSUME NEW w \in Waiters, Detach(w)
       PROVE  Attachment'
    <2>1. Current(w) \in Entities /\ Current(w) \in RangeOf(list[w])
      BY <1>14, <1>t, RangeOfMember DEF Detach, callVars, More, Current
    <2>2. \A e \in Entities, v \in Waiters : cond'[e] = v => e \in RangeOf(list'[v])
      BY <1>14, <1>t, <2>1, ThreadsAssumption DEF Detach, callVars, Attachment
    <2>3. ASSUME NEW v \in Waiters, NEW i \in 1..Len(list'[v])
          PROVE  cond'[list'[v][i]] = v <=> AttachedAt(v, i)'
      <3>1. list' = list /\ list[v][i] \in Entities
        BY <1>14, <1>t, RangeOfMember DEF Detach, callVars
      <3>2. CASE v = w /\ i = idx[w]
        BY <1>14, <1>t, <2>1, <3>1, <3>2, ThreadsAssumption DEF Detach, callVars, AttachedAt, Current
      <3>3. CASE ~(v = w /\ i = idx[w])
        <4>1. cond'[list[v][i]] = cond[list[v][i]]
          BY <1>14, <1>t, <1>d, <2>1, <3>1, <3>3 DEF Detach, callVars, Current, More
        <4>2. AttachedAt(v, i)' <=> AttachedAt(v, i)
          BY <1>14, <1>t, <3>1, <3>3 DEF Detach, callVars, AttachedAt
        <4>. QED
          BY <3>1, <4>1, <4>2 DEF Attachment
      <3>. QED  BY <3>2, <3>3
    <2>. QED
      BY <2>2, <2>3 DEF Attachment
  <1>15. ASSUME NEW w \in Waiters, Read(w)
       PROVE  Attachment'
    BY <1>15, <1>t, AttachmentFrame DEF AttachedAt, lockVars, callVars, signalVars, Read
  <1>16. ASSUME NEW w \in Waiters, Return(w)
       PROVE  Attachment'
    BY <1>16, <1>t, AttachmentFrame DEF AttachedAt, lockVars, callVars, signalVars, More, Return
  <1>17. ASSUME NEW w \in Waiters, NEW e \in Listeners, TakeNextData(w, e)
       PROVE  Attachment'
    BY <1>17, <1>t, AttachmentFrame DEF AttachedAt, lockVars, callVars, signalVars, TakeNextData
  <1>18. ASSUME NEW w \in Waiters, Done(w)
       PROVE  Attachment'
    <2>1. /\ list'[w] = <<>> /\ cond' = cond
          /\ \A v \in Waiters \ {w} :
                list'[v] = list[v] /\ pc'[v] = pc[v] /\ idx'[v] = idx[v]
      BY <1>18, <1>t DEF Done
    <2>2. \A i \in 1..Len(list[w]) : cond[list[w][i]] # w
      BY <1>18 DEF Done, Attachment, AttachedAt
    <2>3. \A e \in Entities : cond[e] # w
      BY <2>2 DEF Attachment, RangeOf
    <2>4. \A e \in Entities, v \in Waiters : cond'[e] = v => e \in RangeOf(list'[v])
      BY <2>1, <2>3 DEF Attachment
    <2>5. ASSUME NEW v \in Waiters \ {w}, NEW i \in 1..Len(list'[v])
          PROVE  cond'[list'[v][i]] = v <=> AttachedAt(v, i)'
      BY <2>1 DEF Attachment, AttachedAt
    <2>. QED
      BY <2>1, <2>4, <2>5 DEF Attachment
  <1>19. ASSUME NEW e \in Polled, Poll(e)
       PROVE  Attachment'
    BY <1>19, <1>t, AttachmentFrame DEF AttachedAt, lockVars, callVars, signalVars, Poll
  <1>20. ASSUME NEW s \in Signalers, NEW e \in Entities, Signal(s, e)
       PROVE  Attachment'
    BY <1>20, <1>t, AttachmentFrame DEF AttachedAt, lockVars, callVars, signalVars, Signal
  <1>21. ASSUME NEW s \in Signalers, StoreDetached(s)
       PROVE  Attachment'
    BY <1>21, <1>t, AttachmentFrame DEF AttachedAt, lockVars, callVars, signalVars, StoreDetached
  <1>22. ASSUME NEW s \in Signalers, LockCondition(s)
       PROVE  Attachment'
    BY <1>22, <1>t, AttachmentFrame DEF AttachedAt, lockVars, callVars, signalVars, LockCondition
  <1>23. ASSUME NEW s \in Signalers, StoreAttached(s)
       PROVE  Attachment'
    BY <1>23, <1>t, AttachmentFrame DEF AttachedAt, lockVars, callVars, signalVars, StoreAttached
  <1>24. ASSUME NEW s \in Signalers, Notify(s)
       PROVE  Attachment'
    BY <1>24, <1>t, AttachmentFrame DEF AttachedAt, lockVars, callVars, signalVars, WaitSetOf, Notify
  <1>25. CASE UNCHANGED vars
    BY <1>25, <1>t, AttachmentFrame DEF AttachedAt, lockVars, callVars, signalVars, vars, lockVars, callVars, signalVars
  <1>. QED
    BY <1>1, <1>2, <1>3, <1>4, <1>5, <1>6, <1>7, <1>8, <1>9, <1>10, <1>11, <1>12, <1>13, <1>14, <1>15, <1>16, <1>17, <1>18, <1>19, <1>20, <1>21, <1>22, <1>23, <1>24, <1>25 DEF Next, WaitStep, CallerStep, SignalStep

\* A store misses the entities of a call that is checking: a signaler that
\* found no wait set signals an entity outside the call, and one that holds a
\* wait set's mutex excludes the waiter from its check.
LEMMA DetachedTarget ==
  ASSUME ThreadsAssumption, Attachment,
         NEW s \in Signalers, WaitSetOf(s) = None,
         NEW w \in Waiters, NEW i \in 1..Len(list[w]),
         pc[w] \in {"check", "blocked"}
  PROVE  list[w][i] # target[s]
  BY DEF ThreadsAssumption, Attachment, AttachedAt, WaitSetOf

\* A signaler that holds the mutex of a wait set does not store into a call that
\* checks with another.
LEMMA ExcludedTarget ==
  ASSUME ThreadsAssumption, LocksHeld, Attachment,
         NEW s \in Signalers, spc[s] = "condition",
         NEW w \in Waiters, NEW i \in 1..Len(list[w]), pc[w] = "check"
  PROVE  list[w][i] # target[s]
  BY DEF ThreadsAssumption, LocksHeld, Attachment, AttachedAt, WaitSetOf

\* A step that leaves the place and the lists of the calls as they are, and makes
\* nothing ready in a call that checks, keeps what the check has passed.
LEMMA CheckedEmptyFrame ==
  ASSUME CheckedEmpty, list' = list,
         \A w \in Waiters : pc'[w] = "check" =>
            /\ pc[w] = "check" /\ idx'[w] = idx[w]
            /\ \A i \in 1..Len(list[w]) :
                  ready[list[w][i]] = 0 => ready'[list[w][i]] = 0
  PROVE  CheckedEmpty'
  BY DEF CheckedEmpty

\* Nothing becomes ready behind a check.
LEMMA CheckedEmptyStep ==
  TypeOK /\ LocksHeld /\ Attachment /\ CheckedEmpty /\ [Next]_vars => CheckedEmpty'
  <1> SUFFICES ASSUME TypeOK, LocksHeld, Attachment, CheckedEmpty, [Next]_vars
               PROVE  CheckedEmpty'
    OBVIOUS
  <1>t. /\ pc \in [Waiters -> WaiterPCs]
        /\ idx \in [Waiters -> Nat \ {0}]
        /\ list \in [Waiters -> Seq(Entities)]
        /\ ready \in [Entities -> Nat]
        /\ target \in [Signalers -> Entities \cup {None}]
    BY DEF TypeOK
  <1>1. ASSUME NEW w \in Waiters, CreateWaitSet(w)
       PROVE  CheckedEmpty'
    BY <1>1, <1>t, CheckedEmptyFrame DEF lockVars, callVars, signalVars, CreateWaitSet
  <1>2. ASSUME NEW w \in Waiters, DestroyWaitSet(w)
       PROVE  CheckedEmpty'
    BY <1>2, <1>t, CheckedEmptyFrame DEF lockVars, callVars, signalVars, DestroyWaitSet
  <1>3. ASSUME NEW w \in Waiters, NEW l \in WaitLists[w], NEW d \in Deadlines, Call(w, l, d)
       PROVE  CheckedEmpty'
    BY <1>3, <1>t DEF Call, CheckedEmpty
  <1>4. ASSUME NEW w \in Waiters, Attach(w)
       PROVE  CheckedEmpty'
    BY <1>4, <1>t, CheckedEmptyFrame DEF lockVars, callVars, signalVars, Attach
  <1>5. ASSUME NEW w \in Waiters, LockForCheck(w)
       PROVE  CheckedEmpty'
    BY <1>5, <1>t DEF LockForCheck, CheckedEmpty
  <1>6. ASSUME NEW w \in Waiters, CheckNext(w)
       PROVE  CheckedEmpty'
    BY <1>6, <1>t DEF CheckNext, CheckedEmpty, Current
  <1>7. ASSUME NEW w \in Waiters, CheckTrue(w)
       PROVE  CheckedEmpty'
    BY <1>7, <1>t, CheckedEmptyFrame DEF lockVars, callVars, signalVars, CheckTrue
  <1>8. ASSUME NEW w \in Waiters, GiveUp(w)
       PROVE  CheckedEmpty'
    BY <1>8, <1>t, CheckedEmptyFrame DEF lockVars, callVars, signalVars, GiveUp
  <1>9. ASSUME NEW w \in Waiters, Block(w)
       PROVE  CheckedEmpty'
    BY <1>9, <1>t, CheckedEmptyFrame DEF lockVars, callVars, signalVars, Block
  <1>10. ASSUME NEW w \in Waiters, WakeSpuriously(w)
       PROVE  CheckedEmpty'
    BY <1>10, <1>t, CheckedEmptyFrame DEF lockVars, callVars, signalVars, WakeSpuriously
  <1>11. ASSUME NEW w \in Waiters, Expire(w)
       PROVE  CheckedEmpty'
    BY <1>11, <1>t, CheckedEmptyFrame DEF lockVars, callVars, signalVars, Expire
  <1>12. ASSUME NEW w \in Waiters, Reacquire(w)
       PROVE  CheckedEmpty'
    BY <1>12, <1>t DEF Reacquire, CheckedEmpty
  <1>13. ASSUME NEW w \in Waiters, Unlock(w)
       PROVE  CheckedEmpty'
    BY <1>13, <1>t, CheckedEmptyFrame DEF lockVars, callVars, signalVars, Unlock
  <1>14. ASSUME NEW w \in Waiters, Detach(w)
       PROVE  CheckedEmpty'
    BY <1>14, <1>t, CheckedEmptyFrame DEF lockVars, callVars, signalVars, Detach
  <1>15. ASSUME NEW w \in Waiters, Read(w)
       PROVE  CheckedEmpty'
    <2>1. \A f \in Entities : ready[f] = 0 => ready'[f] = 0
      BY <1>15, <1>t DEF Read, TypeOK
    <2>2. \A v \in Waiters : \A i \in 1..Len(list[v]) : list[v][i] \in Entities
      BY <1>t, RangeOfMember
    <2>. QED
      BY <1>15, <1>t, <2>1, <2>2, CheckedEmptyFrame DEF Read, callVars
  <1>16. ASSUME NEW w \in Waiters, Return(w)
       PROVE  CheckedEmpty'
    BY <1>16, <1>t, CheckedEmptyFrame DEF lockVars, callVars, signalVars, Return
  <1>17. ASSUME NEW w \in Waiters, NEW e \in Listeners, TakeNextData(w, e)
       PROVE  CheckedEmpty'
    <2>1. \A f \in Entities : ready[f] = 0 => ready'[f] = 0
      BY <1>17, <1>t DEF TakeNextData, TypeOK
    <2>2. \A v \in Waiters : \A i \in 1..Len(list[v]) : list[v][i] \in Entities
      BY <1>t, RangeOfMember
    <2>. QED
      BY <1>17, <1>t, <2>1, <2>2, CheckedEmptyFrame DEF TakeNextData, callVars
  <1>18. ASSUME NEW w \in Waiters, Done(w)
       PROVE  CheckedEmpty'
    BY <1>18, <1>t DEF Done, CheckedEmpty
  <1>19. ASSUME NEW e \in Polled, Poll(e)
       PROVE  CheckedEmpty'
    <2>1. \A f \in Entities : ready[f] = 0 => ready'[f] = 0
      BY <1>19, <1>t DEF Poll, TypeOK
    <2>2. \A v \in Waiters : \A i \in 1..Len(list[v]) : list[v][i] \in Entities
      BY <1>t, RangeOfMember
    <2>. QED
      BY <1>19, <1>t, <2>1, <2>2, CheckedEmptyFrame DEF Poll, callVars
  <1>20. ASSUME NEW s \in Signalers, NEW e \in Entities, Signal(s, e)
       PROVE  CheckedEmpty'
    BY <1>20, <1>t, CheckedEmptyFrame DEF lockVars, callVars, signalVars, Signal
  <1>21. ASSUME NEW s \in Signalers, StoreDetached(s)
       PROVE  CheckedEmpty'
    <2>1. target[s] \in Entities
      BY <1>21 DEF StoreDetached, LocksHeld
    <2>2. ASSUME NEW w \in Waiters, pc'[w] = "check", NEW i \in 1..Len(list[w])
          PROVE  ready'[list[w][i]] = ready[list[w][i]]
      <3>1. list[w][i] # target[s]
        BY <1>21, <2>2, ThreadsAssumption, DetachedTarget DEF StoreDetached
      <3>2. list[w][i] \in Entities
        BY <1>t, RangeOfMember
      <3>. QED
        BY <1>21, <2>1, <3>1, <3>2, StoredType DEF StoreDetached
    <2>. QED
      BY <1>21, <2>2, CheckedEmptyFrame DEF StoreDetached, callVars
  <1>22. ASSUME NEW s \in Signalers, LockCondition(s)
       PROVE  CheckedEmpty'
    BY <1>22, <1>t, CheckedEmptyFrame DEF lockVars, callVars, signalVars, LockCondition
  <1>23. ASSUME NEW s \in Signalers, StoreAttached(s)
       PROVE  CheckedEmpty'
    <2>1. target[s] \in Entities
      BY <1>23 DEF StoreAttached, LocksHeld
    <2>2. ASSUME NEW w \in Waiters, pc'[w] = "check", NEW i \in 1..Len(list[w])
          PROVE  ready'[list[w][i]] = ready[list[w][i]]
      <3>1. list[w][i] # target[s]
        BY <1>23, <2>2, ThreadsAssumption, ExcludedTarget DEF StoreAttached
      <3>2. list[w][i] \in Entities
        BY <1>t, RangeOfMember
      <3>. QED
        BY <1>23, <2>1, <3>1, <3>2, StoredType DEF StoreAttached
    <2>. QED
      BY <1>23, <2>2, CheckedEmptyFrame DEF StoreAttached, callVars
  <1>24. ASSUME NEW s \in Signalers, Notify(s)
       PROVE  CheckedEmpty'
    BY <1>24, <1>t, CheckedEmptyFrame DEF lockVars, callVars, signalVars, Notify
  <1>25. CASE UNCHANGED vars
    BY <1>25, <1>t, CheckedEmptyFrame DEF lockVars, callVars, signalVars, vars, lockVars, callVars, signalVars
  <1>. QED
    BY <1>1, <1>2, <1>3, <1>4, <1>5, <1>6, <1>7, <1>8, <1>9, <1>10, <1>11, <1>12, <1>13, <1>14, <1>15, <1>16, <1>17, <1>18, <1>19, <1>20, <1>21, <1>22, <1>23, <1>24, <1>25 DEF Next, WaitStep, CallerStep, SignalStep

\* A step that blocks nobody, makes nothing ready in a blocked call and ends
\* no pending notification loses no wakeup.
LEMMA WakeupFrame ==
  ASSUME NoLostWakeup, list' = list,
         \A w \in Waiters : pc'[w] = "blocked" =>
            /\ pc[w] = "blocked"
            /\ \A e \in RangeOf(list[w]) : ready'[e] > 0 => ready[e] > 0,
         \A s \in Signalers : spc[s] = "notify" =>
            spc'[s] = "notify" /\ WaitSetOf(s)' = WaitSetOf(s)
  PROVE  NoLostWakeup'
  BY DEF NoLostWakeup

\* A waiter blocks only after a check that found nothing, with the mutex held
\* until it sleeps; who makes an entity of its call ready afterwards notifies it.
LEMMA WakeupStep ==
  TypeOK /\ CallShape /\ LocksHeld /\ Attachment /\ CheckedEmpty /\ NoLostWakeup
     /\ [Next]_vars => NoLostWakeup'
  <1> SUFFICES ASSUME TypeOK, CallShape, LocksHeld, Attachment, CheckedEmpty,
                      NoLostWakeup, [Next]_vars
               PROVE  NoLostWakeup'
    OBVIOUS
  <1>t. /\ pc \in [Waiters -> WaiterPCs]
        /\ spc \in [Signalers -> SignalerPCs]
        /\ idx \in [Waiters -> Nat \ {0}]
        /\ list \in [Waiters -> Seq(Entities)]
        /\ ready \in [Entities -> Nat]
        /\ cond \in [Entities -> Waiters \cup {None}]
        /\ target \in [Signalers -> Entities \cup {None}]
    BY DEF TypeOK
  <1>r. \A w \in Waiters : \A e \in RangeOf(list[w]) :
           e \in Entities /\ \E i \in 1..Len(list[w]) : e = list[w][i]
    BY <1>t, RangeOfMember DEF RangeOf
  <1>1. ASSUME NEW w \in Waiters, CreateWaitSet(w)
       PROVE  NoLostWakeup'
    BY <1>1, <1>t, WakeupFrame DEF lockVars, callVars, signalVars, WaitSetOf, CreateWaitSet
  <1>2. ASSUME NEW w \in Waiters, DestroyWaitSet(w)
       PROVE  NoLostWakeup'
    BY <1>2, <1>t, WakeupFrame DEF lockVars, callVars, signalVars, WaitSetOf, DestroyWaitSet
  <1>3. ASSUME NEW w \in Waiters, NEW l \in WaitLists[w], NEW d \in Deadlines, Call(w, l, d)
       PROVE  NoLostWakeup'
    BY <1>3, <1>t DEF Call, NoLostWakeup, WaitSetOf, signalVars
  <1>4. ASSUME NEW w \in Waiters, Attach(w)
       PROVE  NoLostWakeup'
    <2>1. Current(w) \in Entities
      BY <1>4, <1>t, RangeOfMember DEF Attach, More, Current
    <2>2. \A s \in Signalers : spc[s] = "notify" => target[s] # Current(w)
      BY <1>4, <2>1, ThreadsAssumption DEF Attach, LocksHeld
    <2>. QED
      BY <1>4, <1>t, <2>1, <2>2, WakeupFrame DEF Attach, callVars, signalVars, WaitSetOf, LocksHeld
  <1>5. ASSUME NEW w \in Waiters, LockForCheck(w)
       PROVE  NoLostWakeup'
    BY <1>5, <1>t, WakeupFrame DEF lockVars, callVars, signalVars, WaitSetOf, LockForCheck
  <1>6. ASSUME NEW w \in Waiters, CheckNext(w)
       PROVE  NoLostWakeup'
    BY <1>6, <1>t, WakeupFrame DEF lockVars, callVars, signalVars, WaitSetOf, CheckNext
  <1>7. ASSUME NEW w \in Waiters, CheckTrue(w)
       PROVE  NoLostWakeup'
    BY <1>7, <1>t, WakeupFrame DEF lockVars, callVars, signalVars, WaitSetOf, CheckTrue
  <1>8. ASSUME NEW w \in Waiters, GiveUp(w)
       PROVE  NoLostWakeup'
    BY <1>8, <1>t, WakeupFrame DEF lockVars, callVars, signalVars, WaitSetOf, GiveUp
  <1>9. ASSUME NEW w \in Waiters, Block(w)
       PROVE  NoLostWakeup'
    <2>1. \A e \in RangeOf(list[w]) : ready[e] = 0
      BY <1>9, <1>t, <1>r DEF Block, More, CheckedEmpty
    <2>. QED
      BY <1>9, <1>t, <1>r, <2>1 DEF Block, NoLostWakeup, WaitSetOf, callVars, signalVars
  <1>10. ASSUME NEW w \in Waiters, WakeSpuriously(w)
       PROVE  NoLostWakeup'
    BY <1>10, <1>t, WakeupFrame DEF lockVars, callVars, signalVars, WaitSetOf, WakeSpuriously
  <1>11. ASSUME NEW w \in Waiters, Expire(w)
       PROVE  NoLostWakeup'
    BY <1>11, <1>t, WakeupFrame DEF lockVars, callVars, signalVars, WaitSetOf, Expire
  <1>12. ASSUME NEW w \in Waiters, Reacquire(w)
       PROVE  NoLostWakeup'
    BY <1>12, <1>t, WakeupFrame DEF lockVars, callVars, signalVars, WaitSetOf, Reacquire
  <1>13. ASSUME NEW w \in Waiters, Unlock(w)
       PROVE  NoLostWakeup'
    BY <1>13, <1>t, WakeupFrame DEF lockVars, callVars, signalVars, WaitSetOf, Unlock
  <1>14. ASSUME NEW w \in Waiters, Detach(w)
       PROVE  NoLostWakeup'
    <2>1. Current(w) \in Entities
      BY <1>14, <1>t, RangeOfMember DEF Detach, More, Current
    <2>2. \A s \in Signalers : spc[s] = "notify" => target[s] # Current(w)
      BY <1>14, <2>1, ThreadsAssumption DEF Detach, LocksHeld
    <2>. QED
      BY <1>14, <1>t, <2>1, <2>2, WakeupFrame DEF Detach, callVars, signalVars, WaitSetOf, LocksHeld
  <1>15. ASSUME NEW w \in Waiters, Read(w)
       PROVE  NoLostWakeup'
    <2>1. \A f \in Entities : ready'[f] > 0 => ready[f] > 0
      BY <1>15, <1>t DEF Read, TypeOK
    <2>. QED
      BY <1>15, <1>t, <1>r, <2>1, WakeupFrame DEF Read, callVars, signalVars, WaitSetOf
  <1>16. ASSUME NEW w \in Waiters, Return(w)
       PROVE  NoLostWakeup'
    BY <1>16, <1>t, WakeupFrame DEF lockVars, callVars, signalVars, WaitSetOf, Return
  <1>17. ASSUME NEW w \in Waiters, NEW e \in Listeners, TakeNextData(w, e)
       PROVE  NoLostWakeup'
    <2>1. \A f \in Entities : ready'[f] > 0 => ready[f] > 0
      BY <1>17, <1>t DEF TakeNextData, TypeOK
    <2>. QED
      BY <1>17, <1>t, <1>r, <2>1, WakeupFrame DEF TakeNextData, callVars, signalVars, WaitSetOf
  <1>18. ASSUME NEW w \in Waiters, Done(w)
       PROVE  NoLostWakeup'
    BY <1>18, <1>t DEF Done, NoLostWakeup, WaitSetOf, signalVars
  <1>19. ASSUME NEW e \in Polled, Poll(e)
       PROVE  NoLostWakeup'
    <2>1. \A f \in Entities : ready'[f] > 0 => ready[f] > 0
      BY <1>19, <1>t DEF Poll, TypeOK
    <2>. QED
      BY <1>19, <1>t, <1>r, <2>1, WakeupFrame DEF Poll, callVars, signalVars, WaitSetOf
  <1>20. ASSUME NEW s \in Signalers, NEW e \in Entities, Signal(s, e)
       PROVE  NoLostWakeup'
    BY <1>20, <1>t, WakeupFrame DEF lockVars, callVars, signalVars, WaitSetOf, Signal
  <1>21. ASSUME NEW s \in Signalers, StoreDetached(s)
       PROVE  NoLostWakeup'
    <2>1. target[s] \in Entities
      BY <1>21 DEF StoreDetached, LocksHeld
    <2>2. ASSUME NEW w \in Waiters, pc[w] = "blocked", NEW e \in RangeOf(list[w])
          PROVE  ready'[e] = ready[e]
      <3>1. PICK i \in 1..Len(list[w]) : e = list[w][i]
        BY <1>r
      <3>2. e # target[s]
        BY <1>21, <2>2, <3>1, ThreadsAssumption, DetachedTarget DEF StoreDetached
      <3>. QED
        BY <1>21, <1>r, <2>1, <3>2, StoredType DEF StoreDetached
    <2>. QED
      BY <1>21, <1>t, <2>2, WakeupFrame DEF StoreDetached, callVars, WaitSetOf
  <1>22. ASSUME NEW s \in Signalers, LockCondition(s)
       PROVE  NoLostWakeup'
    BY <1>22, <1>t, WakeupFrame DEF lockVars, callVars, signalVars, WaitSetOf, LockCondition
  <1>23. ASSUME NEW s \in Signalers, StoreAttached(s)
       PROVE  NoLostWakeup'
    <2>1. /\ target[s] \in Entities /\ spc'[s] = "notify"
          /\ cond' = cond /\ target' = target /\ list' = list /\ pc' = pc
          /\ \A r \in Signalers : spc[r] = "notify" => spc'[r] = "notify"
      BY <1>23, <1>t DEF StoreAttached, LocksHeld, callVars
    <2> SUFFICES ASSUME NEW w \in Waiters, pc[w] = "blocked",
                        NEW e \in RangeOf(list[w]), ready'[e] > 0
                 PROVE  \E r \in Signalers : spc'[r] = "notify" /\ WaitSetOf(r)' = w
      BY <2>1 DEF NoLostWakeup
    <2>2. CASE e = target[s]
      <3>1. cond[e] = w
        BY <1>r DEF Attachment, AttachedAt
      <3>. QED
        BY <2>1, <2>2, <3>1 DEF WaitSetOf
    <2>3. CASE e # target[s]
      <3>1. ready[e] > 0
        BY <1>23, <1>r, <2>1, <2>3, StoredType DEF StoreAttached
      <3>. QED
        BY <2>1, <3>1 DEF NoLostWakeup, WaitSetOf
    <2>. QED  BY <2>2, <2>3
  <1>24. ASSUME NEW s \in Signalers, Notify(s)
       PROVE  NoLostWakeup'
    <2>1. /\ WaitSetOf(s) \in Waiters /\ pc'[WaitSetOf(s)] # "blocked"
          /\ \A w \in Waiters \ {WaitSetOf(s)} : pc'[w] = pc[w]
      BY <1>24, <1>t DEF Notify, LocksHeld, WaitSetOf
    <2>2. \A r \in Signalers \ {s} : spc'[r] = spc[r] /\ WaitSetOf(r)' = WaitSetOf(r)
      BY <1>24, <1>t DEF Notify, WaitSetOf
    <2>3. ready' = ready /\ list' = list
      BY <1>24 DEF Notify, callVars
    <2> SUFFICES ASSUME NEW w \in Waiters, pc'[w] = "blocked",
                        NEW e \in RangeOf(list[w]), ready[e] > 0
                 PROVE  \E r \in Signalers : spc'[r] = "notify" /\ WaitSetOf(r)' = w
      BY <2>3 DEF NoLostWakeup
    <2>4. PICK r \in Signalers : spc[r] = "notify" /\ WaitSetOf(r) = w
      BY <2>1 DEF NoLostWakeup
    <2>. QED
      BY <2>1, <2>2, <2>4
  <1>25. CASE UNCHANGED vars
    BY <1>25, <1>t, WakeupFrame DEF lockVars, callVars, signalVars, WaitSetOf, vars, lockVars, callVars, signalVars
  <1>. QED
    BY <1>1, <1>2, <1>3, <1>4, <1>5, <1>6, <1>7, <1>8, <1>9, <1>10, <1>11, <1>12, <1>13, <1>14, <1>15, <1>16, <1>17, <1>18, <1>19, <1>20, <1>21, <1>22, <1>23, <1>24, <1>25 DEF Next, WaitStep, CallerStep, SignalStep

\* A call that has decided keeps what it will report as long as nobody takes
\* from the entities it has not read yet.
LEMMA WillReportFrame ==
  ASSUME WillReport, list' = list,
         \A w \in Waiters : pc'[w] \in {"decided", "detach", "read", "returned"} =>
            /\ pc'[w] = pc[w] /\ result'[w] = result[w] /\ idx'[w] = idx[w]
            /\ reported[w] \subseteq reported'[w],
         \A w \in Waiters : \A i \in 1..Len(list[w]) :
            /\ pc[w] \in {"decided", "detach", "read"}
            /\ RangeOf(list[w]) \cap Polled = {}
            /\ ready[list[w][i]] > 0
            => ready'[list[w][i]] > 0
  PROVE  WillReport'
  BY DEF WillReport

\* From the decision to the return, an entity the check found ready stays ready
\* until it is read.
LEMMA WillReportStep ==
  TypeOK /\ CallShape /\ LocksHeld /\ WillReport /\ [Next]_vars => WillReport'
  <1> SUFFICES ASSUME TypeOK, CallShape, LocksHeld, WillReport, [Next]_vars
               PROVE  WillReport'
    OBVIOUS
  <1>t. /\ pc \in [Waiters -> WaiterPCs]
        /\ idx \in [Waiters -> Nat \ {0}]
        /\ list \in [Waiters -> Seq(Entities)]
        /\ ready \in [Entities -> Nat]
        /\ result \in [Waiters -> {"OK", "TIMEOUT"}]
        /\ reported \in [Waiters -> SUBSET Entities]
    BY DEF TypeOK
  <1>r. \A w \in Waiters : \A i \in 1..Len(list[w]) :
           list[w][i] \in RangeOf(list[w]) /\ list[w][i] \in Entities
    BY <1>t, RangeOfMember
  <1>1. ASSUME NEW w \in Waiters, CreateWaitSet(w)
       PROVE  WillReport'
    BY <1>1, <1>t, WillReportFrame DEF lockVars, callVars, signalVars, CreateWaitSet
  <1>2. ASSUME NEW w \in Waiters, DestroyWaitSet(w)
       PROVE  WillReport'
    BY <1>2, <1>t, WillReportFrame DEF lockVars, callVars, signalVars, DestroyWaitSet
  <1>3. ASSUME NEW w \in Waiters, NEW l \in WaitLists[w], NEW d \in Deadlines, Call(w, l, d)
       PROVE  WillReport'
    BY <1>3, <1>t DEF Call, WillReport
  <1>4. ASSUME NEW w \in Waiters, Attach(w)
       PROVE  WillReport'
    BY <1>4, <1>t, WillReportFrame DEF lockVars, callVars, signalVars, Attach
  <1>5. ASSUME NEW w \in Waiters, LockForCheck(w)
       PROVE  WillReport'
    BY <1>5, <1>t, WillReportFrame DEF lockVars, callVars, signalVars, LockForCheck
  <1>6. ASSUME NEW w \in Waiters, CheckNext(w)
       PROVE  WillReport'
    BY <1>6, <1>t, WillReportFrame DEF lockVars, callVars, signalVars, CheckNext
  <1>7. ASSUME NEW w \in Waiters, CheckTrue(w)
       PROVE  WillReport'
    <2>1. idx[w] \in 1..Len(list[w]) /\ ready[list[w][idx[w]]] > 0
      BY <1>7, <1>t DEF CheckTrue, More, Current
    <2>. QED
      BY <1>7, <1>t, <2>1 DEF CheckTrue, WillReport
  <1>8. ASSUME NEW w \in Waiters, GiveUp(w)
       PROVE  WillReport'
    BY <1>8, <1>t DEF GiveUp, WillReport
  <1>9. ASSUME NEW w \in Waiters, Block(w)
       PROVE  WillReport'
    BY <1>9, <1>t, WillReportFrame DEF lockVars, callVars, signalVars, Block
  <1>10. ASSUME NEW w \in Waiters, WakeSpuriously(w)
       PROVE  WillReport'
    BY <1>10, <1>t, WillReportFrame DEF lockVars, callVars, signalVars, WakeSpuriously
  <1>11. ASSUME NEW w \in Waiters, Expire(w)
       PROVE  WillReport'
    BY <1>11, <1>t, WillReportFrame DEF lockVars, callVars, signalVars, Expire
  <1>12. ASSUME NEW w \in Waiters, Reacquire(w)
       PROVE  WillReport'
    BY <1>12, <1>t, WillReportFrame DEF lockVars, callVars, signalVars, Reacquire
  <1>13. ASSUME NEW w \in Waiters, Unlock(w)
       PROVE  WillReport'
    <2>1. ASSUME NEW v \in Waiters \ {w},
                 pc'[v] \in {"decided", "detach", "read", "returned"},
                 result'[v] = "OK", RangeOf(list'[v]) \cap Polled = {}
          PROVE  \/ reported'[v] # {}
                 \/ \E i \in 1..Len(list'[v]) :
                       /\ ready'[list'[v][i]] > 0
                       /\ pc'[v] = "decided" \/ (pc'[v] \in {"detach", "read"} /\ i >= idx'[v])
      BY <1>13, <1>t, <2>1 DEF Unlock, WillReport, callVars
    <2>2. ASSUME result'[w] = "OK", RangeOf(list'[w]) \cap Polled = {}
          PROVE  \/ reported'[w] # {}
                 \/ \E i \in 1..Len(list'[w]) :
                       /\ ready'[list'[w][i]] > 0
                       /\ pc'[w] \in {"detach", "read"} /\ i >= idx'[w]
      <3>1. /\ list' = list /\ result[w] = "OK" /\ reported' = reported
            /\ ready' = ready /\ idx'[w] = 1
            /\ pc[w] = "decided" /\ pc'[w] = "detach"
        BY <1>13, <1>t, <2>2 DEF Unlock
      <3>2. \/ reported[w] # {}
            \/ \E i \in 1..Len(list[w]) : ready[list[w][i]] > 0
        BY <2>2, <3>1 DEF WillReport
      <3>. QED
        BY <1>t, <3>1, <3>2
    <2>. QED
      BY <2>1, <2>2 DEF WillReport
  <1>14. ASSUME NEW w \in Waiters, Detach(w)
       PROVE  WillReport'
    BY <1>14, <1>t DEF Detach, WillReport, callVars
  <1>15. ASSUME NEW w \in Waiters, Read(w)
       PROVE  WillReport'
    <2>1. /\ idx[w] \in 1..Len(list[w]) /\ Current(w) = list[w][idx[w]]
          /\ Current(w) \in Entities /\ Current(w) \in RangeOf(list[w])
      BY <1>15, <1>t, <1>r DEF Read, TypeOK, More, Current
    <2>2. \A f \in Entities \ {Current(w)} : ready'[f] = ready[f]
      BY <1>15, <1>t DEF Read
    <2>3. /\ list' = list /\ result' = result
          /\ pc[w] = "read" /\ pc'[w] = "detach" /\ idx'[w] = idx[w] + 1
          /\ reported[w] \subseteq reported'[w]
          /\ ready[Current(w)] > 0 => reported'[w] # {}
      BY <1>15, <1>t DEF Read
    <2>4. \A v \in Waiters \ {w} :
             pc'[v] = pc[v] /\ idx'[v] = idx[v] /\ reported'[v] = reported[v]
      BY <1>15, <1>t DEF Read
    <2>5. ASSUME NEW v \in Waiters \ {w}, NEW i \in 1..Len(list[v])
          PROVE  ready'[list[v][i]] = ready[list[v][i]]
      <3>1. list[v][i] # Current(w)
        <4>1. list[v][i] \in RangeOf(list[v])
          BY <1>r
        <4>2. RangeOf(list[v]) \cap RangeOf(list[w]) = {}
          BY DEF CallShape
        <4>. QED
          BY <2>1, <4>1, <4>2
      <3>. QED
        BY <1>r, <2>2, <3>1
    <2>6. ASSUME NEW i \in 1..Len(list[w]), i # idx[w]
          PROVE  ready'[list[w][i]] = ready[list[w][i]]
      BY <1>r, <2>1, <2>2, <2>6 DEF CallShape
    <2>7. ASSUME result[w] = "OK", RangeOf(list[w]) \cap Polled = {}
          PROVE  \/ reported'[w] # {}
                 \/ \E i \in 1..Len(list[w]) : ready'[list[w][i]] > 0 /\ i >= idx'[w]
      <3>1. \/ reported[w] # {}
            \/ \E i \in 1..Len(list[w]) : ready[list[w][i]] > 0 /\ i >= idx[w]
        BY <2>3, <2>7 DEF WillReport
      <3>2. CASE reported[w] # {} \/ ready[Current(w)] > 0
        BY <2>3, <3>2
      <3>3. CASE \E i \in 1..Len(list[w]) : ready[list[w][i]] > 0 /\ i >= idx[w] /\ i # idx[w]
        <4>1. PICK i \in 1..Len(list[w]) : ready[list[w][i]] > 0 /\ i >= idx[w] /\ i # idx[w]
          BY <3>3
        <4>2. ready'[list[w][i]] > 0 /\ i >= idx'[w]
          BY <1>t, <2>3, <2>6, <4>1
        <4>. QED
          BY <4>2
      <3>. QED
        BY <2>1, <3>1, <3>2, <3>3
    <2>8. ASSUME NEW v \in Waiters \ {w},
                 pc[v] \in {"decided", "detach", "read", "returned"},
                 result[v] = "OK", RangeOf(list[v]) \cap Polled = {}
          PROVE  \/ reported'[v] # {}
                 \/ \E i \in 1..Len(list[v]) :
                       /\ ready'[list[v][i]] > 0
                       /\ pc[v] = "decided" \/ (pc[v] \in {"detach", "read"} /\ i >= idx[v])
      BY <2>4, <2>5, <2>8 DEF WillReport
    <2>. QED
      BY <2>3, <2>4, <2>7, <2>8 DEF WillReport
  <1>16. ASSUME NEW w \in Waiters, Return(w)
       PROVE  WillReport'
    <2>1. ASSUME NEW v \in Waiters \ {w},
                 pc'[v] \in {"decided", "detach", "read", "returned"},
                 result'[v] = "OK", RangeOf(list'[v]) \cap Polled = {}
          PROVE  \/ reported'[v] # {}
                 \/ \E i \in 1..Len(list'[v]) :
                       /\ ready'[list'[v][i]] > 0
                       /\ pc'[v] = "decided" \/ (pc'[v] \in {"detach", "read"} /\ i >= idx'[v])
      BY <1>16, <1>t, <2>1 DEF Return, WillReport, callVars
    <2>2. ASSUME result'[w] = "OK", RangeOf(list'[w]) \cap Polled = {}
          PROVE  \/ reported'[w] # {}
                 \/ \E i \in 1..Len(list'[w]) :
                       /\ ready'[list'[w][i]] > 0
                       /\ pc'[w] \in {"detach", "read"} /\ i >= idx'[w]
      <3>1. /\ list' = list /\ result[w] = "OK" /\ reported' = reported
            /\ pc[w] = "detach" /\ ~(idx[w] <= Len(list[w]))
        BY <1>16, <2>2 DEF Return, callVars, More
      <3>2. \/ reported[w] # {}
            \/ \E i \in 1..Len(list[w]) : i >= idx[w]
        BY <2>2, <3>1 DEF WillReport
      <3>. QED
        BY <1>t, <3>1, <3>2
    <2>. QED
      BY <2>1, <2>2 DEF WillReport
  <1>17. ASSUME NEW w \in Waiters, NEW e \in Listeners, TakeNextData(w, e)
       PROVE  WillReport'
    <2>1. \A f \in Entities \ {e} : ready'[f] = ready[f]
      BY <1>17, <1>t DEF TakeNextData
    <2>2. ASSUME NEW v \in Waiters, NEW i \in 1..Len(list[v]),
                 pc[v] \in {"decided", "detach", "read"},
                 RangeOf(list[v]) \cap Polled = {}
          PROVE  list[v][i] # e
      <3>1. e \in RangeOf(list[w]) /\ v # w
        BY <1>17, <2>2 DEF TakeNextData, CallShape
      <3>. QED
        <4>1. list[v][i] \in RangeOf(list[v])
          BY <1>r
        <4>2. RangeOf(list[v]) \cap RangeOf(list[w]) = {}
          BY <3>1 DEF CallShape
        <4>. QED
          BY <3>1, <4>1, <4>2
    <2>. QED
      BY <1>17, <1>t, <1>r, <2>1, <2>2, WillReportFrame DEF TakeNextData, callVars
  <1>18. ASSUME NEW w \in Waiters, Done(w)
       PROVE  WillReport'
    BY <1>18, <1>t DEF Done, WillReport
  <1>19. ASSUME NEW e \in Polled, Poll(e)
       PROVE  WillReport'
    <2>1. \A f \in Entities \ {e} : ready'[f] = ready[f]
      BY <1>19, <1>t DEF Poll
    <2>2. ASSUME NEW v \in Waiters, NEW i \in 1..Len(list[v]),
                 pc[v] \in {"decided", "detach", "read"},
                 RangeOf(list[v]) \cap Polled = {}
          PROVE  list[v][i] # e
      BY <1>19, <1>r, <2>2 DEF Poll
    <2>. QED
      BY <1>19, <1>t, <1>r, <2>1, <2>2, WillReportFrame DEF Poll, callVars
  <1>20. ASSUME NEW s \in Signalers, NEW e \in Entities, Signal(s, e)
       PROVE  WillReport'
    BY <1>20, <1>t, WillReportFrame DEF lockVars, callVars, signalVars, Signal
  <1>21. ASSUME NEW s \in Signalers, StoreDetached(s)
       PROVE  WillReport'
    <2>1. target[s] \in Entities
      BY <1>21 DEF StoreDetached, LocksHeld
    <2>2. \A f \in Entities : ready[f] > 0 => ready'[f] > 0
      BY <1>21, <2>1, StoredType DEF StoreDetached
    <2>. QED
      BY <1>21, <1>t, <1>r, <2>2, WillReportFrame DEF StoreDetached, callVars
  <1>22. ASSUME NEW s \in Signalers, LockCondition(s)
       PROVE  WillReport'
    BY <1>22, <1>t, WillReportFrame DEF lockVars, callVars, signalVars, LockCondition
  <1>23. ASSUME NEW s \in Signalers, StoreAttached(s)
       PROVE  WillReport'
    <2>1. target[s] \in Entities
      BY <1>23 DEF StoreAttached, LocksHeld
    <2>2. \A f \in Entities : ready[f] > 0 => ready'[f] > 0
      BY <1>23, <2>1, StoredType DEF StoreAttached
    <2>. QED
      BY <1>23, <1>t, <1>r, <2>2, WillReportFrame DEF StoreAttached, callVars
  <1>24. ASSUME NEW s \in Signalers, Notify(s)
       PROVE  WillReport'
    BY <1>24, <1>t, WillReportFrame DEF lockVars, callVars, signalVars, Notify
  <1>25. CASE UNCHANGED vars
    BY <1>25, <1>t, WillReportFrame DEF lockVars, callVars, signalVars, vars, lockVars, callVars, signalVars
  <1>. QED
    BY <1>1, <1>2, <1>3, <1>4, <1>5, <1>6, <1>7, <1>8, <1>9, <1>10, <1>11, <1>12, <1>13, <1>14, <1>15, <1>16, <1>17, <1>18, <1>19, <1>20, <1>21, <1>22, <1>23, <1>24, <1>25 DEF Next, WaitStep, CallerStep, SignalStep

-----------------------------------------------------------------------------
\* The invariant holds for every set of waiters, signalers and entities.
THEOREM Invariance == Spec => []Inv
  <1>1. Init => Inv
    <2> SUFFICES ASSUME Init PROVE Inv
      OBVIOUS
    <2>1. TypeOK
      BY EntitiesAssumption DEF Init, TypeOK, WaiterPCs, Deadlines, SignalerPCs, Entities
    <2>2. RangeOf(<<>>) = {}
      BY DEF RangeOf
    <2>3. CallShape
      <3>1. \A w \in Waiters : /\ list[w] = <<>> /\ reported[w] = {} /\ pc[w] = "idle"
                               /\ RangeOf(list[w]) = {}
        BY <2>2 DEF Init
      <3>2. \A w \in Waiters : \A i, j \in 1..Len(list[w]) : list[w][i] = list[w][j] => i = j
        BY <3>1
      <3>. QED
        BY <3>1, <3>2 DEF CallShape, InCall
    <2>4. LocksHeld
      BY DEF Init, LocksHeld
    <2>5. Attachment
      BY ThreadsAssumption DEF Init, Attachment
    <2>6. CheckedEmpty /\ NoLostWakeup /\ WillReport
      BY DEF Init, CheckedEmpty, NoLostWakeup, WillReport
    <2>. QED
      BY <2>1, <2>3, <2>4, <2>5, <2>6 DEF Inv
  <1>2. Inv /\ TypeOK' /\ [Next]_vars => Inv'
    BY ShapeStep, LocksStep, AttachmentStep, CheckedEmptyStep, WakeupStep,
       WillReportStep DEF Inv
  <1>3. QED
    BY <1>1, <1>2, Typing, PTL DEF Spec

\* No waiter sleeps through a message or a trigger.
THEOREM WakeupsAreNotLost == Spec => []NoLostWakeup
  <1>1. Inv => NoLostWakeup
    BY DEF Inv
  <1>. QED
    BY <1>1, Invariance, PTL

\* A callback never touches the mutex or the condition variable of a wait set
\* whose rmw_wait() has returned.
THEOREM CallbacksFindTheWaitSet == Spec => []NoDanglingCondition
  <1>1. Inv => NoDanglingCondition
    <2> SUFFICES ASSUME Inv, NEW s \in Signalers, spc[s] \in {"condition", "notify"}
                 PROVE  \E w \in Waiters : /\ WaitSetOf(s) = w /\ alive[w]
                                           /\ pc[w] \notin {"idle", "returned"}
      BY DEF NoDanglingCondition
    <2>1. PICK w \in Waiters : cond[target[s]] = w /\ target[s] \in Entities
      BY DEF Inv, LocksHeld, TypeOK, WaitSetOf
    <2>2. PICK i \in 1..Len(list[w]) : target[s] = list[w][i]
      BY <2>1 DEF Inv, Attachment, RangeOf
    <2>3. AttachedAt(w, i)
      BY <2>1, <2>2 DEF Inv, Attachment
    <2>. QED
      BY <2>1, <2>3 DEF Inv, CallShape, InCall, AttachedAt, WaitSetOf
  <1>. QED
    BY <1>1, Invariance, PTL

\* No entity keeps a wait set after the call that attached it.
THEOREM NoAttachmentIsStale == Spec => []NoStaleAttachment
  <1>1. Inv => NoStaleAttachment
    <2> SUFFICES ASSUME Inv, NEW e \in Entities, NEW w \in Waiters, cond[e] = w
                 PROVE  InCall(w) /\ e \in RangeOf(list[w]) /\ alive[w]
      BY DEF NoStaleAttachment
    <2>1. e \in RangeOf(list[w])
      BY DEF Inv, Attachment
    <2>2. list[w] # <<>>
      BY <2>1 DEF RangeOf
    <2>. QED
      BY <2>1, <2>2 DEF Inv, CallShape
  <1>. QED
    BY <1>1, Invariance, PTL

\* RMW_RET_OK comes with something to do, unless another thread took it.
THEOREM OkIsReported == Spec => []OkMeansReady
  <1>1. Inv => OkMeansReady
    BY DEF Inv, WillReport, OkMeansReady
  <1>. QED
    BY <1>1, Invariance, PTL

-----------------------------------------------------------------------------
(* The refinement. *)

\* What is left of a list when the loop index moves.
LEMMA RestOfFacts ==
  ASSUME NEW l \in Seq(Entities), NEW k \in Nat \ {0}
  PROVE  /\ RestOf(l, 1) = RangeOf(l)
         /\ RestOf(l, k) \subseteq Entities
         /\ k > Len(l) => RestOf(l, k) = {}
         /\ k <= Len(l) => l[k] \in RestOf(l, k)
         /\ k <= Len(l) /\ (\A i, j \in 1..Len(l) : l[i] = l[j] => i = j)
              => RestOf(l, k + 1) = RestOf(l, k) \ {l[k]}
  <1>1. RestOf(l, 1) = RangeOf(l)
    BY DEF RestOf, RangeOf
  <1>2. RestOf(l, k) \subseteq Entities
    BY DEF RestOf
  <1>3. k > Len(l) => RestOf(l, k) = {}
    BY DEF RestOf
  <1>4. k <= Len(l) => l[k] \in RestOf(l, k)
    BY DEF RestOf
  <1>5. ASSUME k <= Len(l), \A i, j \in 1..Len(l) : l[i] = l[j] => i = j
        PROVE  RestOf(l, k + 1) = RestOf(l, k) \ {l[k]}
    <2>1. ASSUME NEW x \in RestOf(l, k + 1) PROVE x \in RestOf(l, k) \ {l[k]}
      BY <1>5 DEF RestOf
    <2>2. ASSUME NEW x \in RestOf(l, k) \ {l[k]} PROVE x \in RestOf(l, k + 1)
      <3>1. PICK i \in k..Len(l) : x = l[i]
        BY DEF RestOf
      <3>2. i \in (k + 1)..Len(l)
        BY <3>1, <2>2
      <3>. QED
        BY <3>1, <3>2 DEF RestOf
    <2>. QED
      BY <2>1, <2>2
  <1>. QED
    BY <1>1, <1>2, <1>3, <1>4, <1>5

\* A step that keeps what WaitSelect sees is a stuttering step of it.
LEMMA SelectFrame ==
  ASSUME ready' = ready, result' = result, reported' = reported,
         \A w \in Waiters : /\ Phase(w)' = Phase(w) /\ Unread(w)' = Unread(w)
                            /\ (deadline'[w] # "never") = (deadline[w] # "never")
  PROVE  UNCHANGED Select!vars
  BY DEF Select!vars

\* Every step of rmw_wait(), of a callback or of a take is a step of
\* WaitSelect or changes nothing WaitSelect sees.
LEMMA SelectStep == Inv /\ [Next]_vars => [Select!Next]_(Select!vars)
  <1> SUFFICES ASSUME Inv, [Next]_vars PROVE [Select!Next]_(Select!vars)
    OBVIOUS
  <1>t. /\ pc \in [Waiters -> WaiterPCs]
        /\ idx \in [Waiters -> Nat \ {0}]
        /\ list \in [Waiters -> Seq(Entities)]
        /\ deadline \in [Waiters -> Deadlines]
        /\ ready \in [Entities -> Nat]
        /\ result \in [Waiters -> {"OK", "TIMEOUT"}]
        /\ reported \in [Waiters -> SUBSET Entities]
    BY DEF Inv, TypeOK
  <1>r. \A w \in Waiters : \A i \in 1..Len(list[w]) :
           list[w][i] \in RangeOf(list[w]) /\ list[w][i] \in Entities
    BY <1>t, RangeOfMember
  <1>1. ASSUME NEW w \in Waiters, CreateWaitSet(w)
       PROVE  [Select!Next]_(Select!vars)
    BY <1>1, <1>t, SelectFrame DEF lockVars, callVars, signalVars, Phase, Unread, CreateWaitSet
  <1>2. ASSUME NEW w \in Waiters, DestroyWaitSet(w)
       PROVE  [Select!Next]_(Select!vars)
    BY <1>2, <1>t, SelectFrame DEF lockVars, callVars, signalVars, Phase, Unread, DestroyWaitSet
  <1>3. ASSUME NEW w \in Waiters, NEW l \in WaitLists[w], NEW d \in Deadlines, Call(w, l, d)
       PROVE  [Select!Next]_(Select!vars)
    <2>1. Select!Begin(w, RangeOf(l), d # "never")
      BY <1>3, <1>t DEF Call, Phase, Unread, Select!Begin
    <2>2. RangeOf(l) \in SUBSET Entities
      BY WaitListsAssumption, RangeOfMember DEF RangeOf
    <2>. QED
      BY <2>1, <2>2 DEF Select!Next, Select!Entities, Entities
  <1>4. ASSUME NEW w \in Waiters, Attach(w)
       PROVE  [Select!Next]_(Select!vars)
    BY <1>4, <1>t, SelectFrame DEF lockVars, callVars, signalVars, Phase, Unread, Attach
  <1>5. ASSUME NEW w \in Waiters, LockForCheck(w)
       PROVE  [Select!Next]_(Select!vars)
    BY <1>5, <1>t, SelectFrame DEF lockVars, callVars, signalVars, Phase, Unread, LockForCheck
  <1>6. ASSUME NEW w \in Waiters, CheckNext(w)
       PROVE  [Select!Next]_(Select!vars)
    BY <1>6, <1>t, SelectFrame DEF lockVars, callVars, signalVars, Phase, Unread, CheckNext
  <1>7. ASSUME NEW w \in Waiters, CheckTrue(w)
       PROVE  [Select!Next]_(Select!vars)
    <2>1. ready[Current(w)] > 0 /\ Current(w) \in RangeOf(list[w])
      BY <1>7, <1>t, <1>r DEF CheckTrue, More, Current
    <2>2. Select!AnyReady(RangeOf(list[w]))
      BY <2>1 DEF Select!AnyReady
    <2>3. Select!Decide(w, "OK")
      BY <1>7, <1>t, <2>2 DEF CheckTrue, Phase, Unread, Select!Decide
    <2>. QED
      BY <2>3 DEF Select!Next, Select!Progress
  <1>8. ASSUME NEW w \in Waiters, GiveUp(w)
       PROVE  [Select!Next]_(Select!vars)
    <2>1. \A e \in RangeOf(list[w]) : ready[e] = 0
      BY <1>8, <1>t DEF GiveUp, More, Inv, CheckedEmpty, RangeOf
    <2>2. ~Select!AnyReady(RangeOf(list[w]))
      BY <2>1 DEF Select!AnyReady
    <2>3. Select!Decide(w, "TIMEOUT")
      BY <1>8, <1>t, <2>2 DEF GiveUp, Phase, Unread, Select!Decide
    <2>. QED
      BY <2>3 DEF Select!Next, Select!Progress
  <1>9. ASSUME NEW w \in Waiters, Block(w)
       PROVE  [Select!Next]_(Select!vars)
    BY <1>9, <1>t, SelectFrame DEF lockVars, callVars, signalVars, Phase, Unread, Block
  <1>10. ASSUME NEW w \in Waiters, WakeSpuriously(w)
       PROVE  [Select!Next]_(Select!vars)
    BY <1>10, <1>t, SelectFrame DEF lockVars, callVars, signalVars, Phase, Unread, WakeSpuriously
  <1>11. ASSUME NEW w \in Waiters, Expire(w)
       PROVE  [Select!Next]_(Select!vars)
    BY <1>11, <1>t, SelectFrame DEF lockVars, callVars, signalVars, Phase, Unread, Expire
  <1>12. ASSUME NEW w \in Waiters, Reacquire(w)
       PROVE  [Select!Next]_(Select!vars)
    BY <1>12, <1>t, SelectFrame DEF lockVars, callVars, signalVars, Phase, Unread, Reacquire
  <1>13. ASSUME NEW w \in Waiters, Unlock(w)
       PROVE  [Select!Next]_(Select!vars)
    BY <1>13, <1>t, SelectFrame, RestOfFacts DEF Unlock, Phase, Unread
  <1>14. ASSUME NEW w \in Waiters, Detach(w)
       PROVE  [Select!Next]_(Select!vars)
    BY <1>14, <1>t, SelectFrame DEF lockVars, callVars, signalVars, Phase, Unread, Detach
  <1>15. ASSUME NEW w \in Waiters, Read(w)
       PROVE  [Select!Next]_(Select!vars)
    <2>1. idx[w] <= Len(list[w]) /\ Current(w) = list[w][idx[w]] /\ Current(w) \in Entities
      BY <1>15, <1>t, <1>r DEF Read, Inv, TypeOK, More, Current
    <2>2. /\ Current(w) \in RestOf(list[w], idx[w])
          /\ RestOf(list[w], idx[w] + 1) = RestOf(list[w], idx[w]) \ {Current(w)}
      <3>1. list[w] \in Seq(Entities) /\ idx[w] \in Nat \ {0}
        BY <1>t
      <3>2. \A i, j \in 1..Len(list[w]) : list[w][i] = list[w][j] => i = j
        BY DEF Inv, CallShape
      <3>. QED
        BY <2>1, <3>1, <3>2, RestOfFacts
    <2>3. Select!Collect(w, Current(w))
      BY <1>15, <1>t, <2>2 DEF Read, Phase, Unread, Select!Collect
    <2>. QED
      BY <2>1, <2>3 DEF Select!Next, Select!Progress, Select!Entities, Entities
  <1>16. ASSUME NEW w \in Waiters, Return(w)
       PROVE  [Select!Next]_(Select!vars)
    <2>1. RestOf(list[w], idx[w]) = {}
      <3>1. list[w] \in Seq(Entities) /\ idx[w] \in Nat \ {0} /\ idx[w] > Len(list[w])
        BY <1>16, <1>t DEF Return, More
      <3>. QED
        BY <3>1, RestOfFacts
    <2>2. Select!Return(w)
      BY <1>16, <1>t, <2>1 DEF Return, Phase, Unread, callVars, Select!Return
    <2>. QED
      BY <2>2 DEF Select!Next, Select!Progress
  <1>17. ASSUME NEW w \in Waiters, NEW e \in Listeners, TakeNextData(w, e)
       PROVE  [Select!Next]_(Select!vars)
    <2>1. e \in Listeners
      BY <1>17, EntitiesAssumption
    <2>2. Select!Take(e)
      BY <1>17, <1>t, <2>1 DEF TakeNextData, Phase, Unread, callVars, Select!Take
    <2>. QED
      BY <2>1, <2>2 DEF Select!Next, Select!Entities
  <1>18. ASSUME NEW w \in Waiters, Done(w)
       PROVE  [Select!Next]_(Select!vars)
    <2>1. RangeOf(<<>>) = {}
      BY DEF RangeOf
    <2>2. Select!End(w)
      BY <1>18, <1>t, <2>1 DEF Done, Phase, Unread, Select!End
    <2>. QED
      BY <2>2 DEF Select!Next
  <1>19. ASSUME NEW e \in Polled, Poll(e)
       PROVE  [Select!Next]_(Select!vars)
    <2>1. e \in Listeners
      BY <1>19, EntitiesAssumption
    <2>2. Select!Take(e)
      BY <1>19, <1>t, <2>1 DEF Poll, Phase, Unread, callVars, Select!Take
    <2>. QED
      BY <2>1, <2>2 DEF Select!Next, Select!Entities
  <1>20. ASSUME NEW s \in Signalers, NEW e \in Entities, Signal(s, e)
       PROVE  [Select!Next]_(Select!vars)
    BY <1>20, <1>t, SelectFrame DEF lockVars, callVars, signalVars, Phase, Unread, Signal
  <1>21. ASSUME NEW s \in Signalers, StoreDetached(s)
       PROVE  [Select!Next]_(Select!vars)
    <2>1. target[s] \in Entities
      BY <1>21 DEF StoreDetached, Inv, LocksHeld
    <2>2. Select!Arrive(target[s])
      BY <1>21, <1>t, <2>1 DEF StoreDetached, Stored, Phase, Unread, callVars, Select!Arrive
    <2>. QED
      BY <2>1, <2>2 DEF Select!Next, Select!Entities, Entities
  <1>22. ASSUME NEW s \in Signalers, LockCondition(s)
       PROVE  [Select!Next]_(Select!vars)
    BY <1>22, <1>t, SelectFrame DEF lockVars, callVars, signalVars, Phase, Unread, LockCondition
  <1>23. ASSUME NEW s \in Signalers, StoreAttached(s)
       PROVE  [Select!Next]_(Select!vars)
    <2>1. target[s] \in Entities
      BY <1>23 DEF StoreAttached, Inv, LocksHeld
    <2>2. Select!Arrive(target[s])
      BY <1>23, <1>t, <2>1 DEF StoreAttached, Stored, Phase, Unread, callVars, Select!Arrive
    <2>. QED
      BY <2>1, <2>2 DEF Select!Next, Select!Entities, Entities
  <1>24. ASSUME NEW s \in Signalers, Notify(s)
       PROVE  [Select!Next]_(Select!vars)
    BY <1>24, <1>t, SelectFrame DEF lockVars, callVars, signalVars, Phase, Unread, Notify
  <1>25. CASE UNCHANGED vars
    BY <1>25, <1>t, SelectFrame DEF lockVars, callVars, signalVars, Phase, Unread, vars, lockVars, callVars, signalVars
  <1>. QED
    BY <1>1, <1>2, <1>3, <1>4, <1>5, <1>6, <1>7, <1>8, <1>9, <1>10, <1>11, <1>12, <1>13, <1>14, <1>15, <1>16, <1>17, <1>18, <1>19, <1>20, <1>21, <1>22, <1>23, <1>24, <1>25 DEF Next, WaitStep, CallerStep, SignalStep

\* rmw_wait() implements WaitSelect's safety part, for every instance.
THEOREM WaitImplementsSelect == Spec => ImplementsSelectSafely
  <1>1. Init => Select!Init
    <2>1. RangeOf(<<>>) = {}
      BY DEF RangeOf
    <2> SUFFICES ASSUME Init PROVE Select!Init
      OBVIOUS
    <2>2. \A w \in Waiters : pc[w] = "idle" /\ list[w] = <<>> /\ deadline[w] = "never"
      BY DEF Init
    <2>3. [w \in Waiters |-> Phase(w)] = [w \in Waiters |-> "idle"]
      BY <2>2 DEF Phase
    <2>4. [w \in Waiters |-> Unread(w)] = [w \in Waiters |-> {}]
      BY <2>1, <2>2 DEF Unread
    <2>5. [w \in Waiters |-> deadline[w] # "never"] = [w \in Waiters |-> FALSE]
      BY <2>2
    <2>. QED
      BY <2>3, <2>4, <2>5 DEF Init, Select!Init, Select!Entities, Entities
  <1>. QED
    BY <1>1, SelectStep, Invariance, PTL DEF Spec, ImplementsSelectSafely, Select!SafeSpec

=============================================================================
