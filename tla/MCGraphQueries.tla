---------------------------- MODULE MCGraphQueries ----------------------------
(***************************************************************************)
(* Instances of GraphQueries for TLC.                                      *)
(***************************************************************************)
EXTENDS GraphQueries

MCType(kind, base, suffix) ==
  [ns |-> "test_msgs::" \o kind, mark |-> "dps_::", base |-> base, suffix |-> suffix]

\* Nodes 2 and 3 have one name and different domains.
MCName ==
  [p \in Peers |-> [name |-> IF p \in {2, 3} THEN "talker" ELSE "other", namespace |-> "/"]]
MCDomain == [p \in Peers |-> IF p = 3 THEN 1 ELSE 0]

\* Two equal publishers, a subscription of another type, and a server.
MCOwner ==
  [e \in Endpoints |-> CASE e \in {"pub1", "pub2"} -> 2
                         [] e \in {"sub1", "srv1"} -> 3]
MCKind ==
  [e \in Endpoints |-> CASE e \in {"pub1", "pub2"} -> "publishers"
                         [] e = "sub1" -> "subscribers"
                         [] e = "srv1" -> "services"]
MCTopic ==
  [e \in Endpoints |-> IF e \in {"pub1", "pub2", "sub1"} THEN "/chatter" ELSE "/add"]
MCTypes ==
  [e \in Endpoints |-> CASE e \in {"pub1", "pub2"} -> <<MCType("msg", "String", "_")>>
                         [] e = "sub1" -> <<MCType("msg", "Empty", "_")>>
                         [] OTHER -> <<MCType("srv", "Add", "_Request_"),
                                       MCType("srv", "Add", "_Response_")>>]

=============================================================================
