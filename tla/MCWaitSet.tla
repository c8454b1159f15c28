----------------------------- MODULE MCWaitSet -----------------------------
(* Instances of WaitSet for TLC. *)
EXTENDS WaitSet, TLC

CONSTANTS w1, w2, dps, app, sub, srv, guard

\* One executor thread: a subscription's listener and a guard condition on one
\* wait set.
OneList == (w1 :> {<<sub, guard>>})

\* One executor that waits for a subscription, a service and a guard condition,
\* for the guard condition alone, or for nothing.
ManyLists == (w1 :> {<<sub, srv, guard>>, <<guard>>, <<>>})

\* Two executors whose lists overlap: never in two calls at once.
SharedLists == (w1 :> {<<sub, guard>>, <<guard>>}) @@ (w2 :> {<<sub>>})

\* The DPS loop thread fills listeners and triggers the graph guard condition
\* (CustomNodeInfo's onDiscovery); an application thread triggers guards.
LoopAndApp == (dps :> Entities) @@ (app :> Guards)
=============================================================================
