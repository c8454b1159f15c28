---------------------------- MODULE RequestReply ----------------------------
(***************************************************************************)
(* Service calls: rmw_send_request, rmw_take_request, rmw_send_response    *)
(* and rmw_take_response, on top of DPS publications and acknowledgements. *)
(*                                                                         *)
(* A client is a DPS publication whose sequence number counts its          *)
(* requests.  A service is a subscription; it keeps a copy of the          *)
(* publication of each request it has to answer in requests_, under the    *)
(* writer and the number in the request's header, and answers by           *)
(* acknowledging that copy.  DPS brings the acknowledgement to the         *)
(* client's listener.                                                      *)
(*                                                                         *)
(* The code takes no lock around a publish and the reading of its number,  *)
(* nor around requests_.  As its callers do, one thread at a time sends on *)
(* a client, and one thread at a time serves a service.  Everything else   *)
(* runs beside them.                                                       *)
(***************************************************************************)
EXTENDS Naturals, Sequences, Functions

CONSTANTS
  Clients, Services,  \* the clients and the servers of one service name
  MaxRequests,        \* bound: requests per client
  MaxBacklog,         \* bound: messages waiting in one listener
  MaxFailures,        \* bound: answers that fail to serialise or to be sent
  MaxRepeats,         \* bound: requests that DPS delivers again
  MaxLosses           \* bound: messages that the network loses

ASSUME ServiceAssumption ==
  /\ MaxRequests \in Nat /\ MaxBacklog \in Nat
  /\ MaxFailures \in Nat /\ MaxRepeats \in Nat /\ MaxLosses \in Nat

VARIABLES
  sequence,   \* sequence[c]: sequence number of c's request_publication_
  sending,    \* sending[c]: the request a call has published, or 0
  issued,     \* issued[c]: what rmw_send_request returned, per request
  requested,  \* copies of requests on their way to a service
  backlog,    \* backlog[s]: the queue in the service's listener_
  requests,   \* requests[s]: requests_, the copies by header
  acks,       \* acknowledgements on their way to a client
  responses,  \* responses[c]: the queue in the client's listener_
  answers,    \* answers[c]: what rmw_take_response has returned
  failures,   \* failed answers so far (bounded by MaxFailures)
  repeats,    \* requests delivered again so far (bounded by MaxRepeats)
  losses,     \* messages lost so far (bounded by MaxLosses)
  created     \* the clients and services that exist

clientVars  == <<sequence, sending, issued>>
serviceVars == <<backlog, requests>>
vars == <<clientVars, requested, serviceVars, acks, responses, answers,
          failures, repeats, losses, created>>

-----------------------------------------------------------------------------
\* A publication, by its UUID (the client) and its sequence number.
Publications == [writer : Clients, number : 1..MaxRequests]

\* Mutant: requests_ is ordered by the writer alone.
HeaderOfWriter(pub) == <<pub.writer, 1>>

\* The header rmw_take_request makes of a publication; requests_ is ordered by
\* all of it.
Header(pub) == <<pub.writer, pub.number>>

Headers == {Header(pub) : pub \in Publications}

\* What a client gets back: the number of the acknowledgement, and the
\* request that the server's application answered.
Responses == [number : 1..MaxRequests, to : Headers, from : Services]

TypeOK ==
  /\ sequence \in [Clients -> 0..MaxRequests]
  /\ sending \in [Clients -> 0..MaxRequests]
  /\ issued \in [Clients -> SUBSET [request : 1..MaxRequests, id : 0..MaxRequests]]
  /\ requested \subseteq Publications \X Services
  /\ backlog \in [Services -> Seq(Publications)]
  /\ requests \in [Services -> SUBSET [header : Headers, pub : Publications]]
  /\ acks \subseteq Clients \X Responses
  /\ responses \in [Clients -> Seq(Responses)]
  /\ answers \in [Clients -> SUBSET Responses]
  /\ failures \in 0..MaxFailures
  /\ repeats \in 0..MaxRepeats
  /\ losses \in 0..MaxLosses
  /\ created \subseteq Clients \cup Services

Init ==
  /\ sequence = [c \in Clients |-> 0]
  /\ sending = [c \in Clients |-> 0]
  /\ issued = [c \in Clients |-> {}]
  /\ requested = {}
  /\ backlog = [s \in Services |-> <<>>]
  /\ requests = [s \in Services |-> {}]
  /\ acks = {}
  /\ responses = [c \in Clients |-> <<>>]
  /\ answers = [c \in Clients |-> {}]
  /\ failures = 0
  /\ repeats = 0
  /\ losses = 0
  /\ created = Clients \cup Services

-----------------------------------------------------------------------------
(* rmw_send_request(): publish() returns when DPS has sent the publication;  *)
(* then the call reads the number of the publication.  Meanwhile the request *)
(* travels, and its answer may already be back.                              *)

PublishRequest(c) ==
  /\ c \in created /\ sending[c] = 0 /\ sequence[c] < MaxRequests
  /\ sequence' = [sequence EXCEPT ![c] = @ + 1]
  /\ sending' = [sending EXCEPT ![c] = sequence'[c]]
  /\ requested' = requested
       \cup {[writer |-> c, number |-> sequence'[c]]} \X (Services \cap created)
  /\ UNCHANGED <<issued, serviceVars, acks, responses, answers, failures,
                 repeats, losses, created>>

\* DPS took a number for the publication and reports a failure, before it sent it
\* or after some services were reached: the call fails and returns no id.
PublishFails(c) ==
  /\ c \in created /\ sending[c] = 0 /\ sequence[c] < MaxRequests
  /\ sequence' = [sequence EXCEPT ![c] = @ + 1]
  /\ \E reached \in SUBSET (Services \cap created) :
        requested' = requested \cup {[writer |-> c, number |-> sequence'[c]]} \X reached
  /\ UNCHANGED <<sending, issued, serviceVars, acks, responses, answers,
                 failures, repeats, losses, created>>

\* Mutant: the number is that of the next publication.
ReadNextSequence(c) ==
  /\ sending[c] # 0
  /\ issued' = [issued EXCEPT ![c] =
                  @ \cup {[request |-> sending[c], id |-> sequence[c] + 1]}]
  /\ sending' = [sending EXCEPT ![c] = 0]
  /\ UNCHANGED <<sequence, requested, serviceVars, acks, responses, answers,
                 failures, repeats, losses, created>>

ReadSequence(c) ==
  /\ sending[c] # 0
  /\ issued' = [issued EXCEPT ![c] =
                  @ \cup {[request |-> sending[c], id |-> sequence[c]]}]
  /\ sending' = [sending EXCEPT ![c] = 0]
  /\ UNCHANGED <<sequence, requested, serviceVars, acks, responses, answers,
                 failures, repeats, losses, created>>

-----------------------------------------------------------------------------
(* The service. *)

\* Listener::onPublication() on the DPS loop thread copies the publication.
OnPublication(s, pub) ==
  /\ <<pub, s>> \in requested /\ s \in created
  /\ Len(backlog[s]) < MaxBacklog
  /\ backlog' = [backlog EXCEPT ![s] = Append(@, pub)]
  /\ \/ requested' = requested \ {<<pub, s>>} /\ UNCHANGED repeats
     \/ /\ repeats < MaxRepeats
        /\ repeats' = repeats + 1
        /\ UNCHANGED requested
  /\ UNCHANGED <<clientVars, requests, acks, responses, answers, failures,
                 losses, created>>

\* rmw_take_request(): emplace() keeps the entry that is there already.
TakeRequest(s) ==
  LET pub == Head(backlog[s])
      h   == Header(pub)
  IN
  /\ s \in created /\ backlog[s] # <<>>
  /\ backlog' = [backlog EXCEPT ![s] = Tail(@)]
  /\ requests' = [requests EXCEPT ![s] =
                    IF \E r \in @ : r.header = h THEN @
                    ELSE @ \cup {[header |-> h, pub |-> pub]}]
  /\ UNCHANGED <<clientVars, requested, acks, responses, answers, failures,
                 repeats, losses, created>>

\* Mutant: an answer that fails is kept for another try, and so is one that
\* leaves.
SendResponseKept(s, r) ==
  /\ s \in created /\ r \in requests[s]
  /\ acks' = acks \cup
       {<<r.pub.writer, [number |-> r.pub.number, to |-> r.header, from |-> s]>>}
  /\ UNCHANGED <<clientVars, requested, serviceVars, responses, answers,
                 failures, repeats, losses, created>>

\* Mutant: every request of the same client is erased.
SendResponseErasing(s, r) ==
  /\ s \in created /\ r \in requests[s]
  /\ requests' = [requests EXCEPT ![s] =
                    {q \in @ : q.pub.writer # r.pub.writer}]
  /\ acks' = acks \cup
       {<<r.pub.writer, [number |-> r.pub.number, to |-> r.header, from |-> s]>>}
  /\ UNCHANGED <<clientVars, requested, backlog, responses, answers, failures,
                 repeats, losses, created>>

\* rmw_send_response() with the header of a request the application took.  The
\* entry is erased whether or not the answer leaves.  A header without entry
\* is an error that changes nothing.
SendResponse(s, r) ==
  /\ s \in created /\ r \in requests[s]
  /\ requests' = [requests EXCEPT ![s] = @ \ {r}]
  /\ \/ /\ acks' = acks \cup
             {<<r.pub.writer, [number |-> r.pub.number, to |-> r.header, from |-> s]>>}
        /\ UNCHANGED failures
     \/ /\ failures < MaxFailures
        /\ failures' = failures + 1
        /\ UNCHANGED acks
  /\ UNCHANGED <<clientVars, requested, backlog, responses, answers,
                 repeats, losses, created>>

\* rmw_destroy_service() frees the listener with its queue, and requests_.
DestroyService(s) ==
  /\ s \in created
  /\ created' = created \ {s}
  /\ backlog' = [backlog EXCEPT ![s] = <<>>]
  /\ requests' = [requests EXCEPT ![s] = {}]
  /\ requested' = {q \in requested : q[2] # s}
  /\ UNCHANGED <<clientVars, acks, responses, answers, failures, repeats, losses>>

-----------------------------------------------------------------------------
(* The client. *)

\* Listener::onAcknowledgement() copies the publication, which holds the number
\* of the acknowledgement.
OnAcknowledgement(c, a) ==
  /\ <<c, a>> \in acks /\ c \in created
  /\ Len(responses[c]) < MaxBacklog
  /\ acks' = acks \ {<<c, a>>}
  /\ responses' = [responses EXCEPT ![c] = Append(@, a)]
  /\ UNCHANGED <<clientVars, requested, serviceVars, answers, failures,
                 repeats, losses, created>>

\* rmw_take_response().
TakeResponse(c) ==
  /\ c \in created /\ responses[c] # <<>>
  /\ answers' = [answers EXCEPT ![c] = @ \cup {Head(responses[c])}]
  /\ responses' = [responses EXCEPT ![c] = Tail(@)]
  /\ UNCHANGED <<clientVars, requested, serviceVars, acks, failures,
                 repeats, losses, created>>

\* rmw_destroy_client() frees the listener with its queue; DPS has nobody to
\* bring an acknowledgement to.
DestroyClient(c) ==
  /\ c \in created /\ sending[c] = 0
  /\ created' = created \ {c}
  /\ responses' = [responses EXCEPT ![c] = <<>>]
  /\ acks' = {a \in acks : a[1] # c}
  /\ UNCHANGED <<clientVars, requested, serviceVars, answers, failures,
                 repeats, losses>>

-----------------------------------------------------------------------------
(* The network, external to this code. *)

LoseRequest ==
  /\ losses < MaxLosses /\ losses' = losses + 1
  /\ \E q \in requested : requested' = requested \ {q}
  /\ UNCHANGED <<clientVars, serviceVars, acks, responses, answers, failures,
                 repeats, created>>

LoseAck ==
  /\ losses < MaxLosses /\ losses' = losses + 1
  /\ \E a \in acks : acks' = acks \ {a}
  /\ UNCHANGED <<clientVars, requested, serviceVars, responses, answers,
                 failures, repeats, created>>

-----------------------------------------------------------------------------
ClientStep(c) ==
  \/ ReadSequence(c) \/ TakeResponse(c)
  \/ \E a \in Responses : OnAcknowledgement(c, a)

Receive(s) == \E pub \in Publications : OnPublication(s, pub)
Serve(s) == TakeRequest(s) \/ \E r \in requests[s] : SendResponse(s, r)

Next ==
  \/ \E c \in Clients : \/ PublishRequest(c) \/ PublishFails(c)
                        \/ ClientStep(c) \/ DestroyClient(c)
  \/ \E s \in Services : Receive(s) \/ Serve(s) \/ DestroyService(s)
  \/ LoseRequest \/ LoseAck

Spec == Init /\ [][Next]_vars

\* The loop threads deliver what arrives, the server's application takes and
\* answers its requests, the client's takes its responses.
Fairness ==
  /\ \A c \in Clients : /\ WF_vars(TakeResponse(c))
                        /\ \A a \in Responses : WF_vars(OnAcknowledgement(c, a))
  /\ \A s \in Services : /\ WF_vars(TakeRequest(s))
                         /\ \A pub \in Publications : WF_vars(OnPublication(s, pub))
                         /\ \A h \in Headers :
                              WF_vars(\E r \in requests[s] : r.header = h /\ SendResponse(s, r))

FairSpec == Spec /\ Fairness

-----------------------------------------------------------------------------
(* Properties. *)

\* What the application relies on to match answers with requests: a response
\* that carries the id rmw_send_request returned for a request answers that
\* request, whoever answers, in whatever order requests and answers travel,
\* and however often a request is delivered.
ResponseAnswersRequest ==
  \A c \in Clients : \A r \in answers[c], i \in issued[c] :
     i.id = r.number => r.to = <<c, i.request>>

\* Every request that was sent is answered to the client by every server, if
\* nothing is lost, refused or destroyed on the way.
EveryRequestIsAnswered ==
  \A c \in Clients, n \in 1..MaxRequests, s \in Services :
     sending[c] = n /\ s \in created ~>
        \/ c \notin created \/ s \notin created \/ failures > 0 \/ losses > 0
        \/ \E r \in answers[c] : r.number = n /\ r.from = s

-----------------------------------------------------------------------------
(* The invariant behind ResponseAnswersRequest and ImplementsServiceCalls.   *)

\* A copy of a publication stays with the header made of it, from requests_ to
\* the client, and an id is read before the next request is published.
Paired ==
  /\ \A s \in Services : \A r \in requests[s] : r.header = Header(r.pub)
  /\ \A a \in acks : a[2].to = <<a[1], a[2].number>>
  /\ \A c \in Clients :
        /\ \A i \in 1..Len(responses[c]) :
              responses[c][i].to = <<c, responses[c][i].number>>
        /\ \A r \in answers[c] : r.to = <<c, r.number>>
        /\ sending[c] # 0 => sending[c] = sequence[c]
        /\ \A i \in issued[c] : i.id = i.request

\* Where the call of c's n-th request to s is: the request on its way or in
\* the service's queue, taken and not answered, the answer on its way or in the
\* client's queue, or returned.
Asked(c, n, s) ==
  LET pub == [writer |-> c, number |-> n]
  IN <<pub, s>> \in requested \/ pub \in Range(backlog[s])

Taken(c, n, s) == \E r \in requests[s] : r.pub = [writer |-> c, number |-> n]

Answered(c, n, s) ==
  \E a \in Responses : /\ a.number = n /\ a.from = s
                       /\ <<c, a>> \in acks \/ a \in Range(responses[c])

Returned(c, n, s) == \E a \in answers[c] : a.number = n /\ a.from = s

\* While DPS delivers a request once, nothing is on its way or queued twice, and
\* a call is in one place at a time.
QueuedOnce ==
  /\ \A s \in Services :
        /\ IsInjective(backlog[s])
        /\ \A pub \in Range(backlog[s]) : <<pub, s>> \notin requested
  /\ \A c \in Clients :
        /\ IsInjective(responses[c])
        /\ \A a \in Range(responses[c]) : <<c, a>> \notin acks

InOnePlace ==
  \A c \in Clients, n \in 1..MaxRequests, s \in Services :
     /\ Asked(c, n, s) \/ Taken(c, n, s) \/ Answered(c, n, s) \/ Returned(c, n, s)
          => n <= sequence[c]
     /\ Asked(c, n, s) => ~Taken(c, n, s) /\ ~Answered(c, n, s) /\ ~Returned(c, n, s)
     /\ Taken(c, n, s) => ~Answered(c, n, s) /\ ~Returned(c, n, s)
     /\ Answered(c, n, s) => ~Returned(c, n, s)

Once == QueuedOnce /\ InOnePlace

Inv == TypeOK /\ Paired /\ (MaxRepeats = 0 => Once)

-----------------------------------------------------------------------------
(* RequestReply implements ServiceCalls while DPS delivers a request once. *)

State(c, n, s) ==
  IF n > sequence[c] THEN "new"
  ELSE IF Asked(c, n, s) THEN "asked"
  ELSE IF Taken(c, n, s) THEN "held"
  ELSE IF Answered(c, n, s) THEN "answered"
  ELSE IF Returned(c, n, s) THEN "returned"
  ELSE "void"

CallStates ==
  [k \in Clients \X (1..MaxRequests) \X Services |-> State(k[1], k[2], k[3])]

Abstract == INSTANCE ServiceCalls WITH state <- CallStates

\* Each server answers a request at most once and each answer reaches the
\* client of the request at most once.
ImplementsServiceCalls == Abstract!Spec

=============================================================================
