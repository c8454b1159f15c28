----------------------------- MODULE WaitSelect -----------------------------
(***************************************************************************)
(* What rmw_wait() promises, without its mutexes, condition variables and  *)
(* loops.  A call names a set of entities.  At one instant it decides: OK  *)
(* if one of them is ready at that instant, TIMEOUT only if none is and    *)
(* the caller set a limit.  Then it reads the entities one by one, reports *)
(* those it finds ready and clears the guard conditions among them.        *)
(***************************************************************************)
EXTENDS Naturals

CONSTANTS Waiters, Listeners, Guards, Polled

Entities == Listeners \cup Guards

VARIABLES
  ready,     \* ready[e]: messages queued, or 1 for a triggered guard
  phase,     \* phase[w]: "idle", "waiting", "collecting" or "returned"
  unread,    \* unread[w]: entities of the call not read yet
  limited,   \* limited[w]: the call may time out
  result,    \* result[w]: "OK" or "TIMEOUT"
  reported   \* reported[w]: entities read and found ready

vars == <<ready, phase, unread, limited, result, reported>>

AnyReady(S) == \E e \in S : ready[e] > 0

Init ==
  /\ ready = [e \in Entities |-> 0]
  /\ phase = [w \in Waiters |-> "idle"]
  /\ unread = [w \in Waiters |-> {}]
  /\ limited = [w \in Waiters |-> FALSE]
  /\ result = [w \in Waiters |-> "OK"]
  /\ reported = [w \in Waiters |-> {}]

\* A message arrives, or a guard condition is triggered (again).
Arrive(e) ==
  /\ ready' = [ready EXCEPT ![e] = IF e \in Guards THEN 1 ELSE @ + 1]
  /\ UNCHANGED <<phase, unread, limited, result, reported>>

\* A message is taken, by a caller that was told of it or by another thread.
Take(e) ==
  /\ e \in Polled \/ \E w \in Waiters : phase[w] = "returned" /\ e \in reported[w]
  /\ e \in Listeners /\ ready[e] > 0
  /\ ready' = [ready EXCEPT ![e] = @ - 1]
  /\ UNCHANGED <<phase, unread, limited, result, reported>>

Begin(w, S, b) ==
  /\ phase[w] = "idle"
  /\ phase' = [phase EXCEPT ![w] = "waiting"]
  /\ unread' = [unread EXCEPT ![w] = S]
  /\ limited' = [limited EXCEPT ![w] = b]
  /\ UNCHANGED <<ready, result, reported>>

Decide(w, r) ==
  /\ phase[w] = "waiting"
  /\ \/ r = "OK" /\ AnyReady(unread[w])
     \/ r = "TIMEOUT" /\ limited[w] /\ ~AnyReady(unread[w])
  /\ phase' = [phase EXCEPT ![w] = "collecting"]
  /\ result' = [result EXCEPT ![w] = r]
  /\ UNCHANGED <<ready, unread, limited, reported>>

Collect(w, e) ==
  /\ phase[w] = "collecting" /\ e \in unread[w]
  /\ unread' = [unread EXCEPT ![w] = @ \ {e}]
  /\ reported' = [reported EXCEPT ![w] = IF ready[e] > 0 THEN @ \cup {e} ELSE @]
  /\ ready' = IF e \in Guards THEN [ready EXCEPT ![e] = 0] ELSE ready
  /\ UNCHANGED <<phase, limited, result>>

Return(w) ==
  /\ phase[w] = "collecting" /\ unread[w] = {}
  /\ phase' = [phase EXCEPT ![w] = "returned"]
  /\ UNCHANGED <<ready, unread, limited, result, reported>>

End(w) ==
  /\ phase[w] = "returned"
  /\ phase' = [phase EXCEPT ![w] = "idle"]
  /\ limited' = [limited EXCEPT ![w] = FALSE]
  /\ result' = [result EXCEPT ![w] = "OK"]
  /\ reported' = [reported EXCEPT ![w] = {}]
  /\ UNCHANGED <<ready, unread>>

Progress(w) ==
  \/ \E r \in {"OK", "TIMEOUT"} : Decide(w, r)
  \/ \E e \in Entities : Collect(w, e)
  \/ Return(w)

Next ==
  \/ \E e \in Entities : Arrive(e) \/ Take(e)
  \/ \E w \in Waiters :
        \/ Progress(w) \/ End(w)
        \/ \E S \in SUBSET Entities, b \in BOOLEAN : Begin(w, S, b)

SafeSpec == Init /\ [][Next]_vars

Spec == SafeSpec /\ \A w \in Waiters : WF_vars(Progress(w))

=============================================================================
