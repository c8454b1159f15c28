------------------------------ MODULE WaitSet ------------------------------
(***************************************************************************)
(* rmw_wait() and what it waits for.                                       *)
(*                                                                         *)
(* A thread (a "waiter") calls rmw_wait() on a wait set of its own: it     *)
(* attaches the wait set's mutex and condition variable to every entity it *)
(* was given, checks whether one is ready, blocks on the condition         *)
(* variable if none is, detaches, and reports the entities that are ready. *)
(* An entity is a Listener (a queue of publications or acknowledgements,   *)
(* filled by the DPS loop thread and emptied by the take functions) or a   *)
(* GuardCondition (a flag set by trigger()).  A thread that fills a        *)
(* Listener or triggers a GuardCondition is a "signaler".                  *)
(*                                                                         *)
(* A step is what a thread does between two points where another thread    *)
(* can see or disturb it.  A critical section that takes one mutex, cannot *)
(* block inside and is left again at once is a single step.                *)
(***************************************************************************)
EXTENDS Naturals, Sequences

CONSTANTS
  Waiters,     \* threads that call rmw_wait(), each with its own wait set
  Signalers,   \* the DPS loop thread and the threads that trigger guards
  Listeners,   \* the listeners of subscriptions, clients and services
  Guards,      \* the guard conditions
  WaitLists,   \* WaitLists[w]: the entity lists waiter w may pass
  Reach,       \* Reach[s]: the entities signaler s may signal
  Polled,      \* listeners that threads outside the wait also take from
  MaxSignals,  \* bound: signals one signaler sends
  None         \* a null condition pointer; an unlocked mutex

Entities == Listeners \cup Guards

RangeOf(l) == {l[i] : i \in 1..Len(l)}
RestOf(l, k) == {l[i] : i \in k..Len(l)}

ASSUME ThreadsAssumption ==
  /\ Waiters \cap Signalers = {}
  /\ None \notin Waiters \cup Signalers

ASSUME EntitiesAssumption ==
  /\ Listeners \cap Guards = {}
  /\ Polled \subseteq Listeners
  /\ Reach \in [Signalers -> SUBSET Entities]
  /\ MaxSignals \in Nat

\* A list passed to rmw_wait() names an entity once: the code's detach loop
\* reads a guard condition with an exchange, so a second entry would find
\* nothing.
ASSUME WaitListsAssumption ==
  \A w \in Waiters : \A l \in WaitLists[w] :
     /\ l \in Seq(Entities)
     /\ \A i, j \in 1..Len(l) : l[i] = l[j] => i = j

VARIABLES
  ready,          \* ready[e]: Listener::data_.size(), or hasTriggered_ as 0/1
  cond,           \* cond[e]: the wait set in conditionMutex_/conditionVariable_
  internalMutex,  \* internalMutex[e]: the signaler inside, or None
  conditionMutex, \* conditionMutex[w]: owner of the wait set's mutex, or None
  alive,          \* alive[w]: w's wait set exists
  pc,             \* pc[w]: where waiter w is in rmw_wait()
  list,           \* list[w]: the entities of w's call, in attach order
  idx,            \* idx[w]: loop index of the attach, check and detach loops
  deadline,       \* deadline[w]: of the wait_timeout argument
  result,         \* result[w]: what the call will return
  reported,       \* reported[w]: entries the call leaves non-null
  spc,            \* spc[s]: where signaler s is
  target,         \* target[s]: the entity s is signalling
  sent            \* sent[s]: signals s has sent (bounded by MaxSignals)

lockVars   == <<internalMutex, conditionMutex>>
callVars   == <<list, idx, deadline, result, reported>>
signalVars == <<spc, target, sent>>
vars == <<ready, cond, lockVars, alive, pc, callVars, signalVars>>

-----------------------------------------------------------------------------
(* A null wait_timeout is "never"; a positive one is "pending" until it     *)
(* elapses; {0,0} is "past" from the start: the code then returns           *)
(* RMW_RET_TIMEOUT as soon as the check fails.                              *)

Deadlines == {"never", "pending", "past"}
WaiterPCs == {"idle", "attach", "check", "blocked", "wake", "decided",
              "detach", "read", "returned"}
SignalerPCs == {"idle", "internal", "condition", "notify"}

InCall(w) == pc[w] # "idle"

\* The entity the loop index of w's call stands at.
Current(w) == list[w][idx[w]]
More(w) == idx[w] <= Len(list[w])

\* The wait set that signaler s found in the entity it is signalling.
WaitSetOf(s) == cond[target[s]]

TypeOK ==
  /\ ready \in [Entities -> Nat]
  /\ \A g \in Guards : ready[g] <= 1
  /\ cond \in [Entities -> Waiters \cup {None}]
  /\ internalMutex \in [Entities -> Signalers \cup {None}]
  /\ conditionMutex \in [Waiters -> Waiters \cup Signalers \cup {None}]
  /\ alive \in [Waiters -> BOOLEAN]
  /\ pc \in [Waiters -> WaiterPCs]
  /\ list \in [Waiters -> Seq(Entities)]
  /\ idx \in [Waiters -> Nat \ {0}]
  /\ deadline \in [Waiters -> Deadlines]
  /\ result \in [Waiters -> {"OK", "TIMEOUT"}]
  /\ reported \in [Waiters -> SUBSET Entities]
  /\ spc \in [Signalers -> SignalerPCs]
  /\ target \in [Signalers -> Entities \cup {None}]
  /\ sent \in [Signalers -> 0..MaxSignals]
  /\ \A w \in Waiters : pc[w] = "read" => More(w)

Init ==
  /\ ready = [e \in Entities |-> 0]
  /\ cond = [e \in Entities |-> None]
  /\ internalMutex = [e \in Entities |-> None]
  /\ conditionMutex = [w \in Waiters |-> None]
  /\ alive = [w \in Waiters |-> FALSE]
  /\ pc = [w \in Waiters |-> "idle"]
  /\ list = [w \in Waiters |-> <<>>]
  /\ idx = [w \in Waiters |-> 1]
  /\ deadline = [w \in Waiters |-> "never"]
  /\ result = [w \in Waiters |-> "OK"]
  /\ reported = [w \in Waiters |-> {}]
  /\ spc = [s \in Signalers |-> "idle"]
  /\ target = [s \in Signalers |-> None]
  /\ sent = [s \in Signalers |-> 0]

-----------------------------------------------------------------------------
(* The wait set's life, in the hands of its waiter. *)

CreateWaitSet(w) ==
  /\ pc[w] = "idle" /\ ~alive[w]
  /\ alive' = [alive EXCEPT ![w] = TRUE]
  /\ UNCHANGED <<ready, cond, lockVars, pc, callVars, signalVars>>

DestroyWaitSet(w) ==
  /\ pc[w] = "idle" /\ alive[w]
  /\ alive' = [alive EXCEPT ![w] = FALSE]
  /\ UNCHANGED <<ready, cond, lockVars, pc, callVars, signalVars>>

-----------------------------------------------------------------------------
(* rmw_wait(). *)

\* The code keeps one condition pointer per entity and asserts nothing about
\* it, so its callers keep an entity in at most one wait set at a time: the
\* lists of calls in progress are disjoint.
Call(w, l, d) ==
  /\ pc[w] = "idle" /\ alive[w]
  /\ \A v \in Waiters \ {w} : RangeOf(list[v]) \cap RangeOf(l) = {}
  /\ pc' = [pc EXCEPT ![w] = "attach"]
  /\ list' = [list EXCEPT ![w] = l]
  /\ idx' = [idx EXCEPT ![w] = 1]
  /\ deadline' = [deadline EXCEPT ![w] = d]
  /\ UNCHANGED <<ready, cond, lockVars, alive, result, reported, signalVars>>

\* attachCondition() of the next entity.
Attach(w) ==
  /\ pc[w] = "attach" /\ More(w)
  /\ internalMutex[Current(w)] = None
  /\ cond' = [cond EXCEPT ![Current(w)] = w]
  /\ idx' = [idx EXCEPT ![w] = @ + 1]
  /\ UNCHANGED <<ready, lockVars, alive, pc, list, deadline, result, reported,
                 signalVars>>

\* Mutant: the first check is made before the mutex is taken.
LockForCheckNot(w) ==
  /\ pc[w] = "attach" /\ ~More(w)
  /\ pc' = [pc EXCEPT ![w] = "check"]
  /\ idx' = [idx EXCEPT ![w] = 1]
  /\ UNCHANGED <<ready, cond, lockVars, alive, list, deadline, result,
                 reported, signalVars>>

\* std::unique_lock of the condition mutex, before the first check.
LockForCheck(w) ==
  /\ pc[w] = "attach" /\ ~More(w)
  /\ conditionMutex[w] = None
  /\ conditionMutex' = [conditionMutex EXCEPT ![w] = w]
  /\ pc' = [pc EXCEPT ![w] = "check"]
  /\ idx' = [idx EXCEPT ![w] = 1]
  /\ UNCHANGED <<ready, cond, internalMutex, alive, list, deadline, result,
                 reported, signalVars>>

\* check_wait_set_for_data(), one entity at a time.  wait() and wait_for()
\* evaluate it once more before they block; nothing an entity of the call is
\* stored in between, since the mutex is held throughout.
CheckNext(w) ==
  /\ pc[w] = "check" /\ More(w)
  /\ ready[Current(w)] = 0
  /\ idx' = [idx EXCEPT ![w] = @ + 1]
  /\ UNCHANGED <<ready, cond, lockVars, alive, pc, list, deadline, result,
                 reported, signalVars>>

\* The check short-circuits at the first entity that is ready.
CheckTrue(w) ==
  /\ pc[w] = "check" /\ More(w)
  /\ ready[Current(w)] > 0
  /\ pc' = [pc EXCEPT ![w] = "decided"]
  /\ result' = [result EXCEPT ![w] = "OK"]
  /\ UNCHANGED <<ready, cond, lockVars, alive, list, idx, deadline, reported,
                 signalVars>>

\* No entity is ready and there is no time left.
GiveUp(w) ==
  /\ pc[w] = "check" /\ ~More(w)
  /\ deadline[w] = "past"
  /\ pc' = [pc EXCEPT ![w] = "decided"]
  /\ result' = [result EXCEPT ![w] = "TIMEOUT"]
  /\ UNCHANGED <<ready, cond, lockVars, alive, list, idx, deadline, reported,
                 signalVars>>

\* Mutant: the thread sleeps with the mutex held.
BlockHolding(w) ==
  /\ pc[w] = "check" /\ ~More(w)
  /\ deadline[w] # "past"
  /\ pc' = [pc EXCEPT ![w] = "blocked"]
  /\ UNCHANGED <<ready, cond, lockVars, alive, callVars, signalVars>>

\* The condition variable releases the mutex and blocks in one step.
Block(w) ==
  /\ pc[w] = "check" /\ ~More(w)
  /\ deadline[w] # "past"
  /\ pc' = [pc EXCEPT ![w] = "blocked"]
  /\ conditionMutex' = [conditionMutex EXCEPT ![w] = None]
  /\ UNCHANGED <<ready, cond, internalMutex, alive, callVars, signalVars>>

\* A condition variable may wake a thread that nobody notified.
WakeSpuriously(w) ==
  /\ pc[w] = "blocked"
  /\ pc' = [pc EXCEPT ![w] = "wake"]
  /\ UNCHANGED <<ready, cond, lockVars, alive, callVars, signalVars>>

\* wait_for() runs out of time, blocked or already on its way to the mutex.
Expire(w) ==
  /\ pc[w] \in {"blocked", "wake"}
  /\ deadline[w] = "pending"
  /\ deadline' = [deadline EXCEPT ![w] = "past"]
  /\ pc' = [pc EXCEPT ![w] = "wake"]
  /\ UNCHANGED <<ready, cond, lockVars, alive, list, idx, result, reported,
                 signalVars>>

\* Mutant: a wakeup is taken for a ready entity.
ReacquireDecided(w) ==
  /\ pc[w] = "wake"
  /\ conditionMutex[w] = None
  /\ conditionMutex' = [conditionMutex EXCEPT ![w] = w]
  /\ pc' = [pc EXCEPT ![w] = "decided"]
  /\ result' = [result EXCEPT ![w] = "OK"]
  /\ UNCHANGED <<ready, cond, internalMutex, alive, list, idx, deadline,
                 reported, signalVars>>

\* Mutant: wait_for() without its predicate reports the timeout unchecked.
ReacquireTimedOut(w) ==
  /\ pc[w] = "wake"
  /\ conditionMutex[w] = None
  /\ conditionMutex' = [conditionMutex EXCEPT ![w] = w]
  /\ pc' = [pc EXCEPT ![w] = IF deadline[w] = "past" THEN "decided" ELSE "check"]
  /\ result' = [result EXCEPT ![w] = IF deadline[w] = "past" THEN "TIMEOUT" ELSE @]
  /\ idx' = [idx EXCEPT ![w] = 1]
  /\ UNCHANGED <<ready, cond, internalMutex, alive, list, deadline, reported,
                 signalVars>>

\* The woken thread gets the mutex back and evaluates the predicate again.
Reacquire(w) ==
  /\ pc[w] = "wake"
  /\ conditionMutex[w] = None
  /\ conditionMutex' = [conditionMutex EXCEPT ![w] = w]
  /\ pc' = [pc EXCEPT ![w] = "check"]
  /\ idx' = [idx EXCEPT ![w] = 1]
  /\ UNCHANGED <<ready, cond, internalMutex, alive, list, deadline, result,
                 reported, signalVars>>

\* Mutant: the mutex is kept while the conditions are detached.
UnlockLater(w) ==
  /\ pc[w] = "decided"
  /\ pc' = [pc EXCEPT ![w] = "detach"]
  /\ idx' = [idx EXCEPT ![w] = 1]
  /\ UNCHANGED <<ready, cond, lockVars, alive, list, deadline, result, reported,
                 signalVars>>

\* lock.unlock(), before any condition is detached.
Unlock(w) ==
  /\ pc[w] = "decided"
  /\ conditionMutex' = [conditionMutex EXCEPT ![w] = None]
  /\ pc' = [pc EXCEPT ![w] = "detach"]
  /\ idx' = [idx EXCEPT ![w] = 1]
  /\ UNCHANGED <<ready, cond, internalMutex, alive, list, deadline, result,
                 reported, signalVars>>

\* Mutant: detachCondition() does not take internalMutex_.
DetachUnguarded(w) ==
  /\ pc[w] = "detach" /\ More(w)
  /\ cond' = [cond EXCEPT ![Current(w)] = None]
  /\ pc' = [pc EXCEPT ![w] = "read"]
  /\ UNCHANGED <<ready, lockVars, alive, callVars, signalVars>>

\* Mutant: the guard conditions are not detached.
DetachListeners(w) ==
  /\ pc[w] = "detach" /\ More(w)
  /\ internalMutex[Current(w)] = None
  /\ cond' = IF Current(w) \in Guards THEN cond
             ELSE [cond EXCEPT ![Current(w)] = None]
  /\ pc' = [pc EXCEPT ![w] = "read"]
  /\ UNCHANGED <<ready, lockVars, alive, callVars, signalVars>>

\* detachCondition() of the next entity.
Detach(w) ==
  /\ pc[w] = "detach" /\ More(w)
  /\ internalMutex[Current(w)] = None
  /\ cond' = [cond EXCEPT ![Current(w)] = None]
  /\ pc' = [pc EXCEPT ![w] = "read"]
  /\ UNCHANGED <<ready, lockVars, alive, callVars, signalVars>>

\* Mutant: a guard condition is cleared before it is read.
ReadCleared(w) ==
  LET e == Current(w) IN
  /\ pc[w] = "read"
  /\ reported' = [reported EXCEPT ![w] =
                    IF e \in Listeners /\ ready[e] > 0 THEN @ \cup {e} ELSE @]
  /\ ready' = IF e \in Guards THEN [ready EXCEPT ![e] = 0] ELSE ready
  /\ pc' = [pc EXCEPT ![w] = "detach"]
  /\ idx' = [idx EXCEPT ![w] = @ + 1]
  /\ UNCHANGED <<cond, lockVars, alive, list, deadline, result, signalVars>>

\* hasData() of a listener, or getHasTriggered() of a guard condition, which
\* also clears it.  No mutex is held: the entry stays if ready, else it is
\* set to null.
Read(w) ==
  LET e == Current(w) IN
  /\ pc[w] = "read"
  /\ reported' = [reported EXCEPT ![w] =
                    IF ready[e] > 0 THEN @ \cup {e} ELSE @]
  /\ ready' = IF e \in Guards THEN [ready EXCEPT ![e] = 0] ELSE ready
  /\ pc' = [pc EXCEPT ![w] = "detach"]
  /\ idx' = [idx EXCEPT ![w] = @ + 1]
  /\ UNCHANGED <<cond, lockVars, alive, list, deadline, result, signalVars>>

Return(w) ==
  /\ pc[w] = "detach" /\ ~More(w)
  /\ pc' = [pc EXCEPT ![w] = "returned"]
  /\ UNCHANGED <<ready, cond, lockVars, alive, callVars, signalVars>>

\* The caller takes from listeners the call reported (rmw_take,
\* rmw_take_request, rmw_take_response) ...
TakeNextData(w, e) ==
  /\ pc[w] = "returned" /\ e \in reported[w] \cap Listeners
  /\ internalMutex[e] = None
  /\ ready[e] > 0
  /\ ready' = [ready EXCEPT ![e] = @ - 1]
  /\ UNCHANGED <<cond, lockVars, alive, pc, callVars, signalVars>>

\* ... and is done with the call's lists.
Done(w) ==
  /\ pc[w] = "returned"
  /\ pc' = [pc EXCEPT ![w] = "idle"]
  /\ list' = [list EXCEPT ![w] = <<>>]
  /\ idx' = [idx EXCEPT ![w] = 1]
  /\ deadline' = [deadline EXCEPT ![w] = "never"]
  /\ result' = [result EXCEPT ![w] = "OK"]
  /\ reported' = [reported EXCEPT ![w] = {}]
  /\ UNCHANGED <<ready, cond, lockVars, alive, signalVars>>

\* A thread outside the wait takes from a listener whenever it likes.
Poll(e) ==
  /\ e \in Polled
  /\ internalMutex[e] = None
  /\ ready[e] > 0
  /\ ready' = [ready EXCEPT ![e] = @ - 1]
  /\ UNCHANGED <<cond, lockVars, alive, pc, callVars, signalVars>>

-----------------------------------------------------------------------------
(* Listener::onPublication(), Listener::onAcknowledgement() and              *)
(* GuardCondition::trigger(), which share one shape.                         *)

\* A push lengthens a listener's queue; a guard condition only remembers that
\* it was triggered.
Stored(e) == [ready EXCEPT ![e] = IF e \in Guards THEN 1 ELSE @ + 1]

\* The lock_guard on internalMutex_, held until the function returns.
Signal(s, e) ==
  /\ spc[s] = "idle" /\ e \in Reach[s] /\ sent[s] < MaxSignals
  /\ internalMutex[e] = None
  /\ internalMutex' = [internalMutex EXCEPT ![e] = s]
  /\ spc' = [spc EXCEPT ![s] = "internal"]
  /\ target' = [target EXCEPT ![s] = e]
  /\ sent' = [sent EXCEPT ![s] = @ + 1]
  /\ UNCHANGED <<ready, cond, conditionMutex, alive, pc, callVars>>

\* Nothing is attached: store and return.
StoreDetached(s) ==
  /\ spc[s] = "internal" /\ WaitSetOf(s) = None
  /\ ready' = Stored(target[s])
  /\ internalMutex' = [internalMutex EXCEPT ![target[s]] = None]
  /\ spc' = [spc EXCEPT ![s] = "idle"]
  /\ target' = [target EXCEPT ![s] = None]
  /\ UNCHANGED <<cond, conditionMutex, alive, pc, callVars, sent>>

\* A wait set is attached: take its mutex too.
LockCondition(s) ==
  /\ spc[s] = "internal" /\ WaitSetOf(s) # None
  /\ conditionMutex[WaitSetOf(s)] = None
  /\ conditionMutex' = [conditionMutex EXCEPT ![WaitSetOf(s)] = s]
  /\ spc' = [spc EXCEPT ![s] = "condition"]
  /\ UNCHANGED <<ready, cond, internalMutex, alive, pc, callVars, target,
                 sent>>

StoreAttached(s) ==
  /\ spc[s] = "condition"
  /\ ready' = Stored(target[s])
  /\ conditionMutex' = [conditionMutex EXCEPT ![WaitSetOf(s)] = None]
  /\ spc' = [spc EXCEPT ![s] = "notify"]
  /\ UNCHANGED <<cond, internalMutex, alive, pc, callVars, target, sent>>

\* Mutant: nobody is notified.
NotifyNobody(s) ==
  /\ spc[s] = "notify"
  /\ internalMutex' = [internalMutex EXCEPT ![target[s]] = None]
  /\ spc' = [spc EXCEPT ![s] = "idle"]
  /\ target' = [target EXCEPT ![s] = None]
  /\ UNCHANGED <<ready, cond, conditionMutex, alive, pc, callVars, sent>>

\* notify_one(): only the wait set's own thread ever blocks on it.  Then the
\* lock_guard releases internalMutex_.
Notify(s) ==
  /\ spc[s] = "notify"
  /\ pc' = [pc EXCEPT ![WaitSetOf(s)] = IF @ = "blocked" THEN "wake" ELSE @]
  /\ internalMutex' = [internalMutex EXCEPT ![target[s]] = None]
  /\ spc' = [spc EXCEPT ![s] = "idle"]
  /\ target' = [target EXCEPT ![s] = None]
  /\ UNCHANGED <<ready, cond, conditionMutex, alive, callVars, sent>>

-----------------------------------------------------------------------------
\* What a thread inside rmw_wait() does next without anybody's help.
WaitStep(w) ==
  \/ Attach(w) \/ LockForCheck(w)
  \/ CheckNext(w) \/ CheckTrue(w) \/ GiveUp(w) \/ Block(w)
  \/ Reacquire(w) \/ Unlock(w)
  \/ Detach(w) \/ Read(w) \/ Return(w)

\* What a thread inside a callback or trigger() does next.
SignalStep(s) ==
  \/ StoreDetached(s) \/ LockCondition(s) \/ StoreAttached(s) \/ Notify(s)

CallerStep(w) ==
  \/ CreateWaitSet(w) \/ DestroyWaitSet(w)
  \/ \E l \in WaitLists[w], d \in Deadlines : Call(w, l, d)
  \/ \E e \in Listeners : TakeNextData(w, e)
  \/ Done(w)

Next ==
  \/ \E w \in Waiters :
        WaitStep(w) \/ CallerStep(w) \/ WakeSpuriously(w) \/ Expire(w)
  \/ \E s \in Signalers : SignalStep(s) \/ \E e \in Entities : Signal(s, e)
  \/ \E e \in Polled : Poll(e)

Spec == Init /\ [][Next]_vars

\* The operating system runs every thread that can run, time passes, and
\* nobody is woken without reason for ever.  A signaler sends finitely many
\* signals (MaxSignals), so no mutex is contended for ever and weak fairness of
\* each thread is enough: no mutex is assumed to be handed out fairly.
Fairness ==
  /\ \A w \in Waiters : WF_vars(WaitStep(w)) /\ WF_vars(Expire(w))
  /\ \A w \in Waiters : <>[][~WakeSpuriously(w)]_vars
  /\ \A s \in Signalers : WF_vars(SignalStep(s))

FairSpec == Spec /\ Fairness

-----------------------------------------------------------------------------
(* Properties. *)

\* No lost wakeup (the comments at rmw_wait.cpp:145-148, Listener.hpp:65-66).
\* A waiter is never left blocked on its condition variable while an entity
\* of its call is ready, unless a notification is still on its way to it.
NoLostWakeup ==
  \A w \in Waiters : \A e \in RangeOf(list[w]) :
     pc[w] = "blocked" /\ ready[e] > 0 =>
        \E s \in Signalers : spc[s] = "notify" /\ WaitSetOf(s) = w

\* A callback that holds a wait set's mutex, or is about to notify its
\* condition variable, finds the wait set still there: rmw_wait() cannot
\* return, nor its caller destroy the wait set, behind the callback's back.
NoDanglingCondition ==
  \A s \in Signalers : spc[s] \in {"condition", "notify"} =>
     \E w \in Waiters :
        /\ WaitSetOf(s) = w /\ alive[w]
        /\ pc[w] \notin {"idle", "returned"}

\* The same pointer at rest: an entity that outlives a call does not keep the
\* wait set it was waited on with.
NoStaleAttachment ==
  \A e \in Entities, w \in Waiters :
     cond[e] = w => InCall(w) /\ e \in RangeOf(list[w]) /\ alive[w]

\* A call that returns RMW_RET_OK reports something, although readiness is
\* read again after the mutex is released (rmw_wait.cpp:176-220): true as
\* long as nobody else takes from the listeners it waits for.
OkMeansReady ==
  \A w \in Waiters :
     /\ pc[w] = "returned" /\ result[w] = "OK"
     /\ RangeOf(list[w]) \cap Polled = {}
     => reported[w] # {}

\* rmw_wait.cpp:173-175: "if a listener has data / has triggered after we
\* check, it will be caught on the next call to this function".  What a call
\* that is going to return RMW_RET_TIMEOUT still finds ready came after its
\* check, so its own steps must leave it ready for the next call.
LateArrivalKept ==
  [][\A w \in Waiters : \A e \in RangeOf(list[w]) :
       pc[w] = "read" /\ pc'[w] = "detach" /\ result[w] = "TIMEOUT"
       /\ ready[e] > 0 => ready'[e] > 0]_vars

\* Once an entity of a call is ready and nobody else takes from it, the call
\* returns, whatever the deadline and whatever else goes on.
ReadyEndsWait ==
  \A w \in Waiters : \A e \in Entities \ Polled :
     (pc[w] \notin {"idle", "returned"} /\ e \in RangeOf(list[w]) /\ ready[e] > 0)
        ~> pc[w] = "returned"

\* A call with a timeout returns: no thread holds the wait set's mutex or an
\* entity's mutex for ever, and no two wait for each other.
TimedCallReturns ==
  \A w \in Waiters :
     (InCall(w) /\ deadline[w] # "never") ~> pc[w] = "returned"

\* Every signal completes: a callback on the DPS loop thread is never stuck
\* behind a waiter that sits in rmw_wait().
SignalCompletes ==
  \A s \in Signalers : spc[s] # "idle" ~> spc[s] = "idle"

-----------------------------------------------------------------------------
(* The invariant behind these properties: what each thread may rely on at    *)
(* each point of its code.                                                   *)

\* The lists of calls in progress name each entity once and are disjoint, and
\* only entities of the call are reported.
CallShape ==
  \A w \in Waiters :
     /\ InCall(w) => alive[w]
     /\ ~InCall(w) => list[w] = <<>> /\ reported[w] = {}
     /\ \A i, j \in 1..Len(list[w]) : list[w][i] = list[w][j] => i = j
     /\ reported[w] \subseteq RangeOf(list[w])
     /\ \A v \in Waiters \ {w} : RangeOf(list[v]) \cap RangeOf(list[w]) = {}

\* A signaler holds the mutex of the entity it signals, a waiter that checks
\* holds the mutex of its wait set, and so does a signaler that stores.
LocksHeld ==
  /\ \A s \in Signalers :
        /\ spc[s] # "idle" => target[s] \in Entities /\ internalMutex[target[s]] = s
        /\ spc[s] \in {"condition", "notify"} => WaitSetOf(s) # None
        /\ spc[s] = "condition" => conditionMutex[WaitSetOf(s)] = s
  /\ \A w \in Waiters :
        pc[w] \in {"check", "decided"} => conditionMutex[w] = w

\* The i-th entity of w's call is attached between its turn in the attach loop
\* and its turn in the detach loop.
AttachedAt(w, i) ==
  \/ pc[w] = "attach" /\ i < idx[w]
  \/ pc[w] \in {"check", "blocked", "wake", "decided"}
  \/ pc[w] = "detach" /\ i >= idx[w]
  \/ pc[w] = "read" /\ i > idx[w]

Attachment ==
  /\ \A e \in Entities, w \in Waiters : cond[e] = w => e \in RangeOf(list[w])
  /\ \A w \in Waiters : \A i \in 1..Len(list[w]) :
        cond[list[w][i]] = w <=> AttachedAt(w, i)

\* What the check has passed stays not ready while the check goes on.
CheckedEmpty ==
  \A w \in Waiters : pc[w] = "check" =>
     \A i \in 1..Len(list[w]) : i < idx[w] => ready[list[w][i]] = 0

\* A call that decided OK has reported an entity, or will find one ready.
WillReport ==
  \A w \in Waiters :
     /\ pc[w] \in {"decided", "detach", "read", "returned"}
     /\ result[w] = "OK" /\ RangeOf(list[w]) \cap Polled = {}
     => \/ reported[w] # {}
        \/ \E i \in 1..Len(list[w]) :
              /\ ready[list[w][i]] > 0
              /\ pc[w] = "decided" \/ (pc[w] \in {"detach", "read"} /\ i >= idx[w])

Inv == /\ TypeOK /\ CallShape /\ LocksHeld /\ Attachment
       /\ CheckedEmpty /\ NoLostWakeup /\ WillReport

-----------------------------------------------------------------------------
(* rmw_wait() implements WaitSelect. *)

Phase(w) ==
  CASE pc[w] = "idle" -> "idle"
    [] pc[w] = "returned" -> "returned"
    [] pc[w] \in {"decided", "detach", "read"} -> "collecting"
    [] OTHER -> "waiting"

Unread(w) ==
  CASE pc[w] = "returned" -> {}
    [] pc[w] \in {"detach", "read"} -> RestOf(list[w], idx[w])
    [] OTHER -> RangeOf(list[w])

Select == INSTANCE WaitSelect WITH
  phase <- [w \in Waiters |-> Phase(w)],
  unread <- [w \in Waiters |-> Unread(w)],
  limited <- [w \in Waiters |-> deadline[w] # "never"]

\* Every behaviour of the code is one of WaitSelect: a TIMEOUT is decided at
\* an instant at which no entity of the call is ready, OK at one at which
\* some entity is, every entity is read once, and a call that can decide does.
ImplementsSelect == Select!Spec
ImplementsSelectSafely == Select!SafeSpec

=============================================================================
