---------------------------- MODULE ServiceCalls ----------------------------
(***************************************************************************)
(* What a service promises its clients: each service that exists gets a    *)
(* request at most once, answers it at most once, and the client that made *)
(* the request, and no other, gets that answer at most once.  A request or *)
(* an answer may come to nothing.                                          *)
(***************************************************************************)
EXTENDS Naturals

CONSTANTS Clients, Services, MaxRequests

Calls == Clients \X (1..MaxRequests) \X Services

VARIABLE state   \* state[<<c, n, s>>]: how far s is with c's n-th request

States == {"new", "asked", "held", "answered", "returned", "void"}

\* The order in which a call goes through its states.
Successor == [asked |-> "held", held |-> "answered", answered |-> "returned"]

Init == state = [k \in Calls |-> "new"]

\* A request goes to every service, and is lost to some of them.
Ask(c, n) ==
  /\ \A k \in Calls : k[1] = c /\ k[2] = n => state[k] = "new"
  /\ \E lost \in SUBSET Services :
        state' = [k \in Calls |->
                    IF k[1] # c \/ k[2] # n THEN state[k]
                    ELSE IF k[3] \in lost THEN "void" ELSE "asked"]

Advance(k) ==
  /\ state[k] \in DOMAIN Successor
  /\ state' = [state EXCEPT ![k] = Successor[@]]

\* A message is lost or refused, or a client or a service is destroyed with
\* calls in progress.
Void(S) ==
  /\ \A k \in S : state[k] \in DOMAIN Successor
  /\ state' = [k \in Calls |-> IF k \in S THEN "void" ELSE state[k]]

Next ==
  \/ \E c \in Clients, n \in 1..MaxRequests : Ask(c, n)
  \/ \E k \in Calls : Advance(k)
  \/ \E S \in SUBSET Calls : Void(S)

Spec == Init /\ [][Next]_state

=============================================================================
