---------------------------- MODULE MCDiscovery ----------------------------
(* Instances of Discovery for TLC. *)
EXTENDS Discovery, TLC

CONSTANTS self, remote, chatter, pub1, pub2, sub1, srv1

\* Two publishers and a subscription on one topic, and a service.
EndpointKinds == (pub1 :> "publisher") @@ (pub2 :> "publisher")
                   @@ (sub1 :> "subscriber") @@ (srv1 :> "service")
KindOf  == [e \in Endpoints |-> EndpointKinds[e]]
TopicOf == [e \in Endpoints |-> chatter]

\* A remote node with two subscriptions, or with one and a publisher.
Only(n, m) == [NoEndpoints EXCEPT !["publisher"] = [t \in Topics |-> n],
                                  !["subscriber"] = [t \in Topics |-> m]]
Remotes == {Only(0, 2), Only(1, 1)}
=============================================================================
