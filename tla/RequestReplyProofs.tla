------------------------- MODULE RequestReplyProofs -------------------------
(* Proofs about RequestReply, for any number of clients, services, requests, *)
(* repeated deliveries and failed answers.                                   *)
EXTENDS RequestReply, SequenceTheorems, TLAPS

\* A publication's header is one of a request's headers, and names it.
LEMMA HeaderType ==
  ASSUME NEW pub \in Publications
  PROVE  /\ Header(pub) \in Headers
         /\ pub.writer \in Clients /\ pub.number \in 1..MaxRequests
         /\ Header(pub) = <<pub.writer, pub.number>>
  BY DEF Headers, Header, Publications

\* What a queue's head and tail are, for a queue with an element.
LEMMA QueueFacts ==
  ASSUME NEW S, NEW q \in Seq(S), q # <<>>
  PROVE  /\ Head(q) \in S /\ Tail(q) \in Seq(S)
         /\ 1 \in 1..Len(q) /\ Head(q) = q[1]
         /\ \A i \in 1..Len(Tail(q)) : i + 1 \in 1..Len(q) /\ Tail(q)[i] = q[i + 1]
  OBVIOUS

\* Every variable keeps its type: in particular every header and every response
\* is made of a publication of some client.
THEOREM Typing == Spec => []TypeOK
  <1> USE ServiceAssumption DEF ServiceAssumption
  <1>1. Init => TypeOK
    BY DEF Init, TypeOK
  <1>2. TypeOK /\ [Next]_vars => TypeOK'
    <2> SUFFICES ASSUME TypeOK, [Next]_vars PROVE TypeOK'
      OBVIOUS
    <2>1. ASSUME NEW c \in Clients, PublishRequest(c)
          PROVE  TypeOK'
      <3>1. sequence[c] + 1 \in 1..MaxRequests
        BY <2>1 DEF PublishRequest, TypeOK
      <3>2. /\ sequence' \in [Clients -> 0..MaxRequests] /\ sequence'[c] = sequence[c] + 1
            /\ sending' \in [Clients -> 0..MaxRequests]
        BY <2>1, <3>1 DEF PublishRequest, TypeOK
      <3>3. requested' \subseteq Publications \X Services
        <4>1. [writer |-> c, number |-> sequence'[c]] \in Publications
          BY <3>1, <3>2 DEF Publications
        <4>2. requested \subseteq Publications \X Services
          BY DEF TypeOK
        <4>3. requested' = requested
                \cup {[writer |-> c, number |-> sequence'[c]]} \X (Services \cap created)
          BY <2>1 DEF PublishRequest
        <4>. QED
          BY <4>1, <4>2, <4>3
      <3>. QED
        BY <2>1, <3>2, <3>3 DEF PublishRequest, TypeOK, serviceVars
    <2>2. ASSUME NEW c \in Clients, PublishFails(c)
          PROVE  TypeOK'
      <3>1. sequence[c] + 1 \in 1..MaxRequests
        BY <2>2 DEF PublishFails, TypeOK
      <3>2. /\ sequence' \in [Clients -> 0..MaxRequests] /\ sequence'[c] = sequence[c] + 1
            /\ [writer |-> c, number |-> sequence'[c]] \in Publications
        BY <2>2, <3>1 DEF PublishFails, TypeOK, Publications
      <3>3. requested' \subseteq Publications \X Services
        BY <2>2, <3>2 DEF PublishFails, TypeOK
      <3>. QED
        BY <2>2, <3>2, <3>3 DEF PublishFails, TypeOK, serviceVars
    <2>3. ASSUME NEW c \in Clients, ReadSequence(c)
          PROVE  TypeOK'
      <3>1. sending[c] \in 1..MaxRequests /\ sequence[c] \in 0..MaxRequests
        BY <2>3 DEF ReadSequence, TypeOK
      <3>2. issued' \in [Clients -> SUBSET [request : 1..MaxRequests, id : 0..MaxRequests]]
        BY <2>3, <3>1 DEF ReadSequence, TypeOK
      <3>. QED
        BY <2>3, <3>2 DEF ReadSequence, TypeOK, serviceVars
    <2>4. ASSUME NEW s \in Services, NEW pub \in Publications, OnPublication(s, pub)
          PROVE  TypeOK'
      <3>1. Append(backlog[s], pub) \in Seq(Publications)
        BY DEF TypeOK
      <3>. QED
        BY <2>4, <3>1 DEF OnPublication, TypeOK, clientVars
    <2>5. ASSUME NEW s \in Services, TakeRequest(s)
          PROVE  TypeOK'
      <3>1. /\ Head(backlog[s]) \in Publications
            /\ Tail(backlog[s]) \in Seq(Publications)
        BY <2>5, QueueFacts DEF TakeRequest, TypeOK
      <3>2. [header |-> Header(Head(backlog[s])), pub |-> Head(backlog[s])]
              \in [header : Headers, pub : Publications]
        BY <3>1, HeaderType
      <3>3. requests' \in [Services -> SUBSET [header : Headers, pub : Publications]]
        BY <2>5, <3>2 DEF TakeRequest, TypeOK
      <3>. QED
        BY <2>5, <3>1, <3>3 DEF TakeRequest, TypeOK, clientVars
    <2>6. ASSUME NEW s \in Services, NEW r \in requests[s], SendResponse(s, r)
          PROVE  TypeOK'
      <3>1. r.header \in Headers /\ r.pub \in Publications
        BY DEF TypeOK
      <3>2. <<r.pub.writer, [number |-> r.pub.number, to |-> r.header, from |-> s]>>
              \in Clients \X Responses
        BY <3>1, HeaderType DEF Responses
      <3>3. acks' \subseteq Clients \X Responses /\ failures' \in 0..MaxFailures
        BY <2>6, <3>2 DEF SendResponse, TypeOK
      <3>. QED
        BY <2>6, <3>3 DEF SendResponse, TypeOK, clientVars
    <2>7. ASSUME NEW s \in Services, DestroyService(s)
          PROVE  TypeOK'
      BY <2>7 DEF DestroyService, TypeOK, clientVars
    <2>8. ASSUME NEW c \in Clients, NEW a \in Responses, OnAcknowledgement(c, a)
          PROVE  TypeOK'
      <3>1. Append(responses[c], a) \in Seq(Responses)
        BY DEF TypeOK
      <3>. QED
        BY <2>8, <3>1 DEF OnAcknowledgement, TypeOK, clientVars, serviceVars
    <2>9. ASSUME NEW c \in Clients, TakeResponse(c)
          PROVE  TypeOK'
      <3>1. Head(responses[c]) \in Responses /\ Tail(responses[c]) \in Seq(Responses)
        BY <2>9, QueueFacts DEF TakeResponse, TypeOK
      <3>. QED
        BY <2>9, <3>1 DEF TakeResponse, TypeOK, clientVars, serviceVars
    <2>10. ASSUME NEW c \in Clients, DestroyClient(c)
           PROVE  TypeOK'
      BY <2>10 DEF DestroyClient, TypeOK, clientVars, serviceVars
    <2>11. CASE LoseRequest \/ LoseAck
      <3>1. CASE LoseRequest
        <4>1. requested' \subseteq requested
          BY <3>1 DEF LoseRequest
        <4>. QED
          BY <3>1, <4>1 DEF LoseRequest, TypeOK, clientVars, serviceVars
      <3>2. CASE LoseAck
        <4>1. acks' \subseteq acks
          BY <3>2 DEF LoseAck
        <4>. QED
          BY <3>2, <4>1 DEF LoseAck, TypeOK, clientVars, serviceVars
      <3>. QED
        BY <2>11, <3>1, <3>2
    <2>12. CASE UNCHANGED vars
      BY <2>12 DEF vars, TypeOK, clientVars, serviceVars
    <2>. QED
      BY <2>1, <2>2, <2>3, <2>4, <2>5, <2>6, <2>7, <2>8, <2>9, <2>10, <2>11, <2>12
         DEF Next, ClientStep, Receive, Serve
  <1>. QED
    BY <1>1, <1>2, PTL DEF Spec

-----------------------------------------------------------------------------
\* The header travels with the publication: a step that only moves, drops or
\* destroys copies pairs nothing anew.
LEMMA PairedStep ==
  TypeOK /\ Paired /\ [Next]_vars => Paired'
  <1> SUFFICES ASSUME TypeOK, Paired, [Next]_vars PROVE Paired'
    OBVIOUS
  <1>t. /\ sequence \in [Clients -> 0..MaxRequests]
        /\ sending \in [Clients -> 0..MaxRequests]
        /\ \A c \in Clients : /\ issued[c] \subseteq [request : 1..MaxRequests, id : 0..MaxRequests]
                              /\ responses[c] \in Seq(Responses)
        /\ DOMAIN issued = Clients /\ DOMAIN requests = Services
        /\ DOMAIN responses = Clients /\ DOMAIN answers = Clients
        /\ issued = [c \in Clients |-> issued[c]] /\ requests = [s \in Services |-> requests[s]]
        /\ responses = [c \in Clients |-> responses[c]] /\ answers = [c \in Clients |-> answers[c]]
    BY DEF TypeOK
  <1>1. ASSUME NEW c \in Clients, PublishRequest(c) \/ PublishFails(c)
        PROVE  Paired'
    <2>1. /\ requests' = requests /\ acks' = acks /\ responses' = responses
          /\ answers' = answers /\ issued' = issued
      BY <1>1 DEF PublishRequest, PublishFails, serviceVars
    <2>2. ASSUME NEW d \in Clients, sending'[d] # 0
          PROVE  sending'[d] = sequence'[d]
      <3>1. CASE d = c
        BY <1>1, <1>t, <2>2, <3>1 DEF PublishRequest, PublishFails
      <3>2. CASE d # c
        <4>1. sending'[d] = sending[d] /\ sequence'[d] = sequence[d]
          BY <1>1, <1>t, <3>2 DEF PublishRequest, PublishFails
        <4>. QED
          BY <2>2, <4>1 DEF Paired
      <3>. QED
        BY <3>1, <3>2
    <2>. QED
      BY <2>1, <2>2 DEF Paired
  <1>2. ASSUME NEW c \in Clients, ReadSequence(c)
        PROVE  Paired'
    <2>1. sending[c] = sequence[c]
      BY <1>2 DEF ReadSequence, Paired
    <2>. QED
      BY <1>2, <1>t, <2>1 DEF ReadSequence, Paired, serviceVars
  <1>3. ASSUME NEW s \in Services, NEW pub \in Publications, OnPublication(s, pub)
        PROVE  Paired'
    BY <1>3 DEF OnPublication, Paired, clientVars
  <1>4. ASSUME NEW s \in Services, TakeRequest(s)
        PROVE  Paired'
    BY <1>4, <1>t DEF TakeRequest, Paired, clientVars
  <1>5. ASSUME NEW s \in Services, NEW r \in requests[s], SendResponse(s, r)
        PROVE  Paired'
    <2>1. r.header = <<r.pub.writer, r.pub.number>>
      BY HeaderType DEF Paired, TypeOK
    <2>2. \A a \in acks' : a[2].to = <<a[1], a[2].number>>
      BY <1>5, <2>1 DEF SendResponse, Paired
    <2>. QED
      BY <1>5, <1>t, <2>2 DEF SendResponse, Paired, clientVars
  <1>6. ASSUME NEW s \in Services, DestroyService(s)
        PROVE  Paired'
    BY <1>6, <1>t DEF DestroyService, Paired, clientVars
  <1>7. ASSUME NEW c \in Clients, NEW a \in Responses, OnAcknowledgement(c, a)
        PROVE  Paired'
    <2>1. a.to = <<c, a.number>>
      BY <1>7 DEF OnAcknowledgement, Paired
    <2>2. ASSUME NEW d \in Clients, NEW i \in 1..Len(responses'[d])
          PROVE  responses'[d][i].to = <<d, responses'[d][i].number>>
      <3>1. CASE d = c /\ i = Len(responses[c]) + 1
        BY <1>7, <1>t, <2>1, <3>1 DEF OnAcknowledgement
      <3>2. CASE ~(d = c /\ i = Len(responses[c]) + 1)
        <4>1. i \in 1..Len(responses[d]) /\ responses'[d][i] = responses[d][i]
          BY <1>7, <1>t, <3>2 DEF OnAcknowledgement
        <4>. QED
          BY <4>1 DEF Paired
      <3>. QED
        BY <3>1, <3>2
    <2>. QED
      BY <1>7, <2>2 DEF OnAcknowledgement, Paired, clientVars, serviceVars
  <1>8. ASSUME NEW c \in Clients, TakeResponse(c)
        PROVE  Paired'
    <2>1. /\ 1 \in 1..Len(responses[c]) /\ Head(responses[c]) = responses[c][1]
          /\ \A i \in 1..Len(Tail(responses[c])) :
                i + 1 \in 1..Len(responses[c]) /\ Tail(responses[c])[i] = responses[c][i + 1]
      BY <1>8, <1>t, QueueFacts DEF TakeResponse
    <2>2. Head(responses[c]).to = <<c, Head(responses[c]).number>>
      BY <2>1 DEF Paired
    <2>3. \A d \in Clients : \A r \in answers'[d] : r.to = <<d, r.number>>
      BY <1>8, <1>t, <2>2 DEF TakeResponse, Paired
    <2>4. ASSUME NEW d \in Clients, NEW i \in 1..Len(responses'[d])
          PROVE  responses'[d][i].to = <<d, responses'[d][i].number>>
      <3>1. CASE d = c
        BY <1>8, <1>t, <2>1, <3>1 DEF TakeResponse, Paired
      <3>2. CASE d # c
        BY <1>8, <1>t, <3>2 DEF TakeResponse, Paired
      <3>. QED
        BY <3>1, <3>2
    <2>. QED
      BY <1>8, <2>3, <2>4 DEF TakeResponse, Paired, clientVars, serviceVars
  <1>9. ASSUME NEW c \in Clients, DestroyClient(c)
        PROVE  Paired'
    <2>1. \A d \in Clients : d # c => responses'[d] = responses[d]
      BY <1>9, <1>t DEF DestroyClient
    <2>2. responses'[c] = <<>>
      BY <1>9, <1>t DEF DestroyClient
    <2>3. ASSUME NEW d \in Clients, NEW i \in 1..Len(responses'[d])
          PROVE  responses'[d][i].to = <<d, responses'[d][i].number>>
      BY <2>1, <2>2 DEF Paired
    <2>. QED
      BY <1>9, <2>3 DEF DestroyClient, Paired, clientVars, serviceVars
  <1>10. CASE LoseRequest \/ LoseAck
    BY <1>10 DEF LoseRequest, LoseAck, Paired, clientVars, serviceVars
  <1>11. CASE UNCHANGED vars
    BY <1>11 DEF vars, Paired, clientVars, serviceVars
  <1>. QED
    BY <1>1, <1>2, <1>3, <1>4, <1>5, <1>6, <1>7, <1>8, <1>9, <1>10, <1>11
       DEF Next, ClientStep, Receive, Serve

-----------------------------------------------------------------------------
(* While DPS delivers a request once: where calls are, and what each step does *)
(* to that.                                                                    *)

\* What is in a queue to which an element is added, or from which one is taken.
LEMMA RangeFacts ==
  ASSUME NEW S, NEW q \in Seq(S), NEW e
  PROVE  /\ Range(Append(q, e)) = Range(q) \cup {e}
         /\ IsInjective(q) /\ e \notin Range(q) => IsInjective(Append(q, e))
         /\ q # <<>> => /\ Head(q) \in S /\ Range(q) = Range(Tail(q)) \cup {Head(q)}
                        /\ IsInjective(q) => /\ IsInjective(Tail(q))
                                             /\ Head(q) \notin Range(Tail(q))
  <1>1. /\ Len(q) \in Nat /\ DOMAIN q = 1..Len(q)
        /\ DOMAIN Append(q, e) = 1..(Len(q) + 1)
        /\ \A i \in 1..(Len(q) + 1) : Append(q, e)[i] = IF i = Len(q) + 1 THEN e ELSE q[i]
    OBVIOUS
  <1>2. Range(Append(q, e)) = Range(q) \cup {e}
    BY <1>1 DEF Range
  <1>3. ASSUME IsInjective(q), e \notin Range(q)
        PROVE  IsInjective(Append(q, e))
    BY <1>1, <1>3 DEF Range, IsInjective
  <1>4. ASSUME q # <<>>
        PROVE  /\ Head(q) \in S /\ Range(q) = Range(Tail(q)) \cup {Head(q)}
               /\ IsInjective(q) => IsInjective(Tail(q)) /\ Head(q) \notin Range(Tail(q))
    <2>1. /\ Head(q) \in S /\ Head(q) = q[1] /\ 1 \in DOMAIN q
          /\ DOMAIN Tail(q) = 1..(Len(q) - 1)
          /\ \A i \in 1..(Len(q) - 1) : Tail(q)[i] = q[i + 1] /\ i + 1 \in DOMAIN q
      BY <1>1, <1>4
    <2>2. ASSUME NEW i \in DOMAIN q
          PROVE  i = 1 \/ \E k \in DOMAIN Tail(q) : q[i] = Tail(q)[k]
      <3> DEFINE j == i - 1
      <3>1. i # 1 => j \in 1..(Len(q) - 1) /\ j + 1 = i
        BY <1>1
      <3> HIDE DEF j
      <3>2. i # 1 => j \in DOMAIN Tail(q) /\ q[i] = Tail(q)[j]
        BY <2>1, <3>1
      <3>. QED
        BY <3>2
    <2>3. Range(q) = Range(Tail(q)) \cup {Head(q)}
      BY <2>1, <2>2 DEF Range
    <2>4. ASSUME IsInjective(q)
          PROVE  IsInjective(Tail(q)) /\ Head(q) \notin Range(Tail(q))
      <3>1. \A i, j \in DOMAIN Tail(q) : Tail(q)[i] = Tail(q)[j] => i + 1 = j + 1
        BY <2>1, <2>4 DEF IsInjective
      <3>2. \A i \in DOMAIN Tail(q) : Tail(q)[i] # Head(q)
        <4>1. ASSUME NEW i \in DOMAIN Tail(q), Tail(q)[i] = Head(q)
              PROVE  FALSE
          <5>1. i + 1 \in DOMAIN q /\ q[i + 1] = q[1]
            BY <2>1, <4>1
          <5>2. i + 1 = 1
            BY <2>1, <2>4, <5>1 DEF IsInjective
          <5>. QED
            BY <2>1, <4>1, <5>2
        <4>. QED
          BY <4>1
      <3>. QED
        BY <2>1, <3>1, <3>2 DEF Range, IsInjective
    <2>. QED
      BY <2>1, <2>3, <2>4
  <1>. QED
    BY <1>2, <1>3, <1>4

LEMMA EmptyRange == Range(<<>>) = {} /\ IsInjective(<<>>)
  BY DEF Range, IsInjective

\* A publication is known by its writer and its number.
LEMMA PublicationFacts ==
  ASSUME NEW pub \in Publications
  PROVE  /\ pub.writer \in Clients /\ pub.number \in 1..MaxRequests
         /\ \A c, n : pub = [writer |-> c, number |-> n] <=> c = pub.writer /\ n = pub.number
  BY DEF Publications

\* An answer is known by its number and its service.
LEMMA AnswerFacts ==
  ASSUME TypeOK, Paired, NEW c \in Clients,
         NEW a \in Responses, <<c, a>> \in acks \/ a \in Range(responses[c]),
         NEW b \in Responses, <<c, b>> \in acks \/ b \in Range(responses[c]),
         a.number = b.number, a.from = b.from
  PROVE  a = b
  <1>1. a.to = <<c, a.number>> /\ b.to = <<c, b.number>>
    <2>1. responses[c] \in Seq(Responses)
      BY DEF TypeOK
    <2>2. DOMAIN responses[c] = 1..Len(responses[c])
      BY <2>1
    <2>. QED
      BY <2>2 DEF Paired, Range
  <1>. QED
    BY <1>1 DEF Responses

\* Where a call is does not change; and no other call is elsewhere.
Same(c, n, s) ==
  /\ Asked(c, n, s)' <=> Asked(c, n, s)
  /\ Taken(c, n, s)' <=> Taken(c, n, s)
  /\ Answered(c, n, s)' <=> Answered(c, n, s)
  /\ Returned(c, n, s)' <=> Returned(c, n, s)

SameBut(c, n, s) ==
  \A d \in Clients, m \in 1..MaxRequests, u \in Services :
     <<d, m, u>> # <<c, n, s>> => Same(d, m, u)

\* What a publish does to the calls, whichever services it reaches.
LEMMA PublishEffect ==
  ASSUME TypeOK, Once, NEW c \in Clients, NEW reached \in SUBSET Services,
         sequence[c] < MaxRequests, sequence' = [sequence EXCEPT ![c] = @ + 1],
         requested' = requested \cup {[writer |-> c, number |-> sequence'[c]]} \X reached,
         UNCHANGED <<backlog, requests, acks, responses, answers>>
  PROVE  /\ QueuedOnce'
         /\ sequence[c] + 1 \in 1..MaxRequests
         /\ \A d \in Clients, m \in 1..MaxRequests, u \in Services :
               /\ ~(d = c /\ m = sequence[c] + 1) => Same(d, m, u)
               /\ d = c /\ m = sequence[c] + 1 =>
                     ~Taken(d, m, u)' /\ ~Answered(d, m, u)' /\ ~Returned(d, m, u)'
  <1> DEFINE n == sequence[c] + 1
  <1>1. n \in 1..MaxRequests /\ sequence'[c] = n
    BY ServiceAssumption DEF ServiceAssumption, TypeOK
  <1>2. \A u \in Services :
           ~Asked(c, n, u) /\ ~Taken(c, n, u) /\ ~Answered(c, n, u) /\ ~Returned(c, n, u)
    BY <1>1 DEF Once, InOnePlace, TypeOK
  <1>3. requested' = requested \cup {[writer |-> c, number |-> n]} \X reached
    BY <1>1
  <1>4. ASSUME NEW d \in Clients, NEW m \in 1..MaxRequests, NEW u \in Services
        PROVE  /\ Asked(d, m, u)' <=> Asked(d, m, u) \/ (d = c /\ m = n /\ u \in reached)
               /\ Taken(d, m, u)' <=> Taken(d, m, u)
               /\ Answered(d, m, u)' <=> Answered(d, m, u)
               /\ Returned(d, m, u)' <=> Returned(d, m, u)
    BY <1>3 DEF Asked, Taken, Answered, Returned
  <1>5. QueuedOnce'
    <2>1. ASSUME NEW s \in Services, NEW pub \in Range(backlog[s])
          PROVE  <<pub, s>> \notin requested'
      <3>1. pub # [writer |-> c, number |-> n]
        BY <1>2 DEF Asked
      <3>. QED
        BY <1>3, <3>1 DEF Once, QueuedOnce
    <2>. QED
      BY <1>3, <2>1 DEF Once, QueuedOnce
  <1>. QED
    BY <1>1, <1>2, <1>4, <1>5 DEF Same

LEMMA OnPublicationEffect ==
  ASSUME TypeOK, Once, MaxRepeats = 0, NEW s \in Services, NEW pub \in Publications,
         OnPublication(s, pub)
  PROVE  /\ QueuedOnce' /\ sequence' = sequence
         /\ \A d \in Clients, m \in 1..MaxRequests, u \in Services : Same(d, m, u)
  <1>1. /\ <<pub, s>> \in requested /\ requested' = requested \ {<<pub, s>>}
        /\ backlog' = [backlog EXCEPT ![s] = Append(@, pub)]
        /\ UNCHANGED <<sequence, requests, acks, responses, answers>>
    BY DEF OnPublication, TypeOK, clientVars
  <1>2. pub \notin Range(backlog[s]) /\ backlog[s] \in Seq(Publications)
    BY <1>1 DEF Once, QueuedOnce, TypeOK
  <1>3. /\ Range(backlog'[s]) = Range(backlog[s]) \cup {pub} /\ IsInjective(backlog'[s])
        /\ \A u \in Services : u # s => backlog'[u] = backlog[u]
    BY <1>1, <1>2, RangeFacts DEF Once, QueuedOnce, TypeOK
  <1>4. QueuedOnce'
    BY <1>1, <1>3 DEF Once, QueuedOnce
  <1>5. ASSUME NEW d \in Clients, NEW m \in 1..MaxRequests, NEW u \in Services
        PROVE  Same(d, m, u)
    <2>1. Asked(d, m, u)' <=> Asked(d, m, u)
      BY <1>1, <1>3 DEF Asked
    <2>. QED
      BY <1>1, <2>1 DEF Same, Taken, Answered, Returned
  <1>. QED
    BY <1>1, <1>4, <1>5

LEMMA TakeRequestEffect ==
  ASSUME TypeOK, Paired, Once, NEW s \in Services, TakeRequest(s)
  PROVE  \E pub \in Publications :
            /\ QueuedOnce' /\ sequence' = sequence
            /\ SameBut(pub.writer, pub.number, s)
            /\ Asked(pub.writer, pub.number, s) /\ ~Asked(pub.writer, pub.number, s)'
            /\ Taken(pub.writer, pub.number, s)'
            /\ Answered(pub.writer, pub.number, s)' <=> Answered(pub.writer, pub.number, s)
            /\ Returned(pub.writer, pub.number, s)' <=> Returned(pub.writer, pub.number, s)
  <1> DEFINE pub == Head(backlog[s])
  <1>1. /\ backlog[s] # <<>> /\ backlog' = [backlog EXCEPT ![s] = Tail(@)]
        /\ requests' = [requests EXCEPT ![s] =
                          IF \E r \in @ : r.header = Header(pub) THEN @
                          ELSE @ \cup {[header |-> Header(pub), pub |-> pub]}]
        /\ UNCHANGED <<sequence, requested, acks, responses, answers>>
    BY DEF TakeRequest, clientVars
  <1>2. /\ backlog[s] \in Seq(Publications) /\ IsInjective(backlog[s])
        /\ backlog'[s] = Tail(backlog[s])
        /\ \A u \in Services : u # s => backlog'[u] = backlog[u]
    BY <1>1 DEF Once, QueuedOnce, TypeOK
  <1>3. /\ pub \in Publications /\ Range(backlog[s]) = Range(backlog'[s]) \cup {pub}
        /\ IsInjective(backlog'[s]) /\ pub \notin Range(backlog'[s])
    BY <1>1, <1>2, RangeFacts
  <1> HIDE DEF pub
  <1>4. <<pub, s>> \notin requested
    BY <1>3 DEF Once, QueuedOnce
  <1>5. /\ \A u \in Services : u # s => requests'[u] = requests[u]
        /\ \E r \in requests'[s] : r.pub = pub
        /\ \A r \in requests'[s] : r \in requests[s] \/ r.pub = pub
        /\ \A r \in requests[s] : r \in requests'[s]
    <2>1. \A r \in requests[s] : r.header = Header(pub) => r.pub = pub
      <3>1. ASSUME NEW r \in requests[s], r.header = Header(pub)
            PROVE  r.pub = pub
        <4>1. Header(r.pub) = Header(pub) /\ r.pub \in Publications
          BY <3>1 DEF Paired, TypeOK
        <4>. QED
          BY <1>3, <4>1 DEF Header, Publications
      <3>. QED
        BY <3>1
    <2>2. /\ requests[s] \subseteq requests'[s]
          /\ \A r \in requests'[s] : r \in requests[s] \/ r.pub = pub
          /\ \E r \in requests'[s] : r.pub = pub
      <3>1. CASE \E r \in requests[s] : r.header = Header(pub)
        <4>1. requests'[s] = requests[s]
          BY <1>1, <3>1 DEF TypeOK
        <4>. QED
          BY <2>1, <3>1, <4>1
      <3>2. CASE ~\E r \in requests[s] : r.header = Header(pub)
        <4>1. requests'[s] = requests[s] \cup {[header |-> Header(pub), pub |-> pub]}
          BY <1>1, <3>2 DEF TypeOK
        <4> DEFINE new == [header |-> Header(pub), pub |-> pub]
        <4>2. new.pub = pub /\ requests'[s] = requests[s] \cup {new}
          BY <4>1
        <4> HIDE DEF new
        <4>. QED
          BY <4>2
      <3>. QED
        BY <3>1, <3>2
    <2>. QED
      BY <1>1, <2>2 DEF TypeOK
  <1>6. QueuedOnce'
    BY <1>1, <1>2, <1>3 DEF Once, QueuedOnce
  <1>7. ASSUME NEW d \in Clients, NEW m \in 1..MaxRequests, NEW u \in Services
        PROVE  /\ Asked(d, m, u)' <=> Asked(d, m, u) /\ ~(u = s /\ pub = [writer |-> d, number |-> m])
               /\ Taken(d, m, u)' <=> Taken(d, m, u) \/ (u = s /\ pub = [writer |-> d, number |-> m])
               /\ Answered(d, m, u)' <=> Answered(d, m, u)
               /\ Returned(d, m, u)' <=> Returned(d, m, u)
    <2>1. Asked(d, m, u)' <=> Asked(d, m, u) /\ ~(u = s /\ pub = [writer |-> d, number |-> m])
      BY <1>1, <1>2, <1>3, <1>4 DEF Asked
    <2>2. Taken(d, m, u)' <=> Taken(d, m, u) \/ (u = s /\ pub = [writer |-> d, number |-> m])
      BY <1>5 DEF Taken
    <2>. QED
      BY <1>1, <2>1, <2>2 DEF Answered, Returned
  <1>8. /\ pub.writer \in Clients /\ pub.number \in 1..MaxRequests
        /\ \A c, n : pub = [writer |-> c, number |-> n] <=> c = pub.writer /\ n = pub.number
    BY <1>3, PublicationFacts
  <1>9. Asked(pub.writer, pub.number, s)
    BY <1>3, <1>8 DEF Asked
  <1>. QED
    <2>1. PICK p \in Publications : p = pub
      BY <1>3
    <2>2. /\ p.writer \in Clients /\ p.number \in 1..MaxRequests
          /\ \A c, n : p = [writer |-> c, number |-> n] <=> c = p.writer /\ n = p.number
      BY <1>8, <2>1
    <2>3. SameBut(p.writer, p.number, s)
      BY <1>7, <2>1, <2>2 DEF SameBut, Same
    <2>4. /\ ~Asked(p.writer, p.number, s)' /\ Taken(p.writer, p.number, s)'
          /\ Answered(p.writer, p.number, s)' <=> Answered(p.writer, p.number, s)
          /\ Returned(p.writer, p.number, s)' <=> Returned(p.writer, p.number, s)
      BY <1>7, <2>1, <2>2
    <2>5. Asked(p.writer, p.number, s)
      BY <1>9, <2>1
    <2>. QED
      BY <1>1, <1>6, <2>3, <2>4, <2>5

LEMMA SendResponseEffect ==
  ASSUME TypeOK, Paired, Once, NEW s \in Services, NEW r \in requests[s], SendResponse(s, r)
  PROVE  \E c \in Clients, n \in 1..MaxRequests :
            /\ QueuedOnce' /\ sequence' = sequence
            /\ SameBut(c, n, s)
            /\ Taken(c, n, s) /\ ~Taken(c, n, s)'
            /\ Asked(c, n, s)' <=> Asked(c, n, s)
            /\ Returned(c, n, s)' <=> Returned(c, n, s)
  <1> DEFINE c == r.pub.writer
             n == r.pub.number
             a == [number |-> n, to |-> r.header, from |-> s]
  <1>1. /\ r.pub \in Publications /\ r.header \in Headers
        /\ r = [header |-> r.header, pub |-> r.pub] /\ r.header = Header(r.pub)
    BY DEF TypeOK, Paired
  <1>2. /\ c \in Clients /\ n \in 1..MaxRequests
        /\ \A d, m : r.pub = [writer |-> d, number |-> m] <=> d = c /\ m = n
    BY <1>1, PublicationFacts
  <1>3. a \in Responses
    BY <1>1, <1>2 DEF Responses
  <1>4. /\ requests' = [requests EXCEPT ![s] = @ \ {r}]
        /\ acks' = acks \cup {<<c, a>>} \/ acks' = acks
        /\ UNCHANGED <<sequence, requested, backlog, responses, answers>>
    BY DEF SendResponse, clientVars
  <1>5. \A q \in requests[s] : q.pub = r.pub => q = r
    <2>1. ASSUME NEW q \in requests[s], q.pub = r.pub
          PROVE  q = r
      <3>1. q = [header |-> q.header, pub |-> q.pub] /\ q.header = Header(q.pub)
        BY DEF TypeOK, Paired
      <3>. QED
        BY <1>1, <2>1, <3>1
    <2>. QED
      BY <2>1
  <1> HIDE DEF c, n, a
  <1>6. Taken(c, n, s) /\ ~Taken(c, n, s)'
    BY <1>2, <1>4, <1>5 DEF Taken, TypeOK
  <1>7. ~Answered(c, n, s)
    BY <1>2, <1>6 DEF Once, InOnePlace
  <1>8. a.number = n /\ a.from = s
    BY DEF a
  <1>9. QueuedOnce'
    <2>1. ASSUME NEW d \in Clients, NEW b \in Range(responses[d])
          PROVE  <<d, b>> \notin acks'
      <3>1. <<d, b>> # <<c, a>>
        BY <1>3, <1>7, <1>8 DEF Answered
      <3>. QED
        BY <1>4, <3>1 DEF Once, QueuedOnce
    <2>. QED
      BY <1>4, <2>1 DEF Once, QueuedOnce
  <1>10. ASSUME NEW d \in Clients, NEW m \in 1..MaxRequests, NEW u \in Services,
                <<d, m, u>> # <<c, n, s>>
         PROVE  Same(d, m, u)
    <2>1. Taken(d, m, u)' <=> Taken(d, m, u)
      <3>1. ASSUME NEW q \in requests[u], q.pub = [writer |-> d, number |-> m]
            PROVE  q \in requests'[u]
        BY <1>2, <1>4, <1>10, <3>1 DEF TypeOK
      <3>2. requests'[u] \subseteq requests[u]
        BY <1>4 DEF TypeOK
      <3>. QED
        BY <3>1, <3>2 DEF Taken
    <2>2. Answered(d, m, u)' <=> Answered(d, m, u)
      BY <1>4, <1>8, <1>10 DEF Answered
    <2>. QED
      BY <1>4, <2>1, <2>2 DEF Same, Asked, Returned
  <1>11. (Asked(c, n, s)' <=> Asked(c, n, s)) /\ (Returned(c, n, s)' <=> Returned(c, n, s))
    BY <1>4 DEF Asked, Returned
  <1>. QED
    BY <1>2, <1>4, <1>6, <1>9, <1>10, <1>11 DEF SameBut

LEMMA DestroyServiceEffect ==
  ASSUME TypeOK, Once, NEW s \in Services, DestroyService(s)
  PROVE  /\ QueuedOnce' /\ sequence' = sequence
         /\ \A d \in Clients, m \in 1..MaxRequests, u \in Services :
               /\ u # s => Same(d, m, u)
               /\ u = s => ~Asked(d, m, u)' /\ ~Taken(d, m, u)'
               /\ Answered(d, m, u)' <=> Answered(d, m, u)
               /\ Returned(d, m, u)' <=> Returned(d, m, u)
  <1>1. /\ backlog'[s] = <<>> /\ requests'[s] = {}
        /\ \A u \in Services : u # s => backlog'[u] = backlog[u] /\ requests'[u] = requests[u]
        /\ requested' = {q \in requested : q[2] # s}
        /\ UNCHANGED <<sequence, acks, responses, answers>>
    BY DEF DestroyService, TypeOK, clientVars
  <1>2. QueuedOnce'
    BY <1>1, EmptyRange DEF Once, QueuedOnce
  <1>3. ASSUME NEW d \in Clients, NEW m \in 1..MaxRequests, NEW u \in Services
        PROVE  /\ u # s => (Asked(d, m, u)' <=> Asked(d, m, u)) /\ (Taken(d, m, u)' <=> Taken(d, m, u))
               /\ u = s => ~Asked(d, m, u)' /\ ~Taken(d, m, u)'
               /\ Answered(d, m, u)' <=> Answered(d, m, u)
               /\ Returned(d, m, u)' <=> Returned(d, m, u)
    BY <1>1, EmptyRange DEF Asked, Taken, Answered, Returned
  <1>. QED
    BY <1>1, <1>2, <1>3 DEF Same

LEMMA OnAcknowledgementEffect ==
  ASSUME TypeOK, Once, NEW c \in Clients, NEW a \in Responses, OnAcknowledgement(c, a)
  PROVE  /\ QueuedOnce' /\ sequence' = sequence
         /\ \A d \in Clients, m \in 1..MaxRequests, u \in Services : Same(d, m, u)
  <1>1. /\ <<c, a>> \in acks /\ acks' = acks \ {<<c, a>>}
        /\ responses' = [responses EXCEPT ![c] = Append(@, a)]
        /\ UNCHANGED <<sequence, requested, backlog, requests, answers>>
    BY DEF OnAcknowledgement, clientVars, serviceVars
  <1>2. a \notin Range(responses[c]) /\ responses[c] \in Seq(Responses)
    BY <1>1 DEF Once, QueuedOnce, TypeOK
  <1>3. /\ Range(responses'[c]) = Range(responses[c]) \cup {a} /\ IsInjective(responses'[c])
        /\ \A d \in Clients : d # c => responses'[d] = responses[d]
    BY <1>1, <1>2, RangeFacts DEF Once, QueuedOnce, TypeOK
  <1>4. QueuedOnce'
    BY <1>1, <1>3 DEF Once, QueuedOnce
  <1>5. ASSUME NEW d \in Clients, NEW m \in 1..MaxRequests, NEW u \in Services
        PROVE  Same(d, m, u)
    <2>1. \A b : <<d, b>> \in acks' \/ b \in Range(responses'[d])
                   <=> <<d, b>> \in acks \/ b \in Range(responses[d])
      BY <1>1, <1>3
    <2>2. Answered(d, m, u)' <=> Answered(d, m, u)
      BY <2>1 DEF Answered
    <2>. QED
      BY <1>1, <2>2 DEF Same, Asked, Taken, Returned
  <1>. QED
    BY <1>1, <1>4, <1>5

LEMMA TakeResponseEffect ==
  ASSUME TypeOK, Paired, Once, NEW c \in Clients, TakeResponse(c)
  PROVE  \E n \in 1..MaxRequests, s \in Services :
            /\ QueuedOnce' /\ sequence' = sequence
            /\ SameBut(c, n, s)
            /\ Answered(c, n, s) /\ ~Answered(c, n, s)' /\ Returned(c, n, s)'
            /\ Asked(c, n, s)' <=> Asked(c, n, s)
            /\ Taken(c, n, s)' <=> Taken(c, n, s)
  <1>0. responses[c] # <<>> /\ responses[c] \in Seq(Responses)
    BY DEF TakeResponse, TypeOK
  <1>a. PICK a \in Responses : a = Head(responses[c])
    BY <1>0, RangeFacts
  <1>1. /\ responses[c] # <<>> /\ responses' = [responses EXCEPT ![c] = Tail(@)]
        /\ answers' = [answers EXCEPT ![c] = @ \cup {a}]
        /\ UNCHANGED <<sequence, requested, backlog, requests, acks>>
    BY <1>a DEF TakeResponse, clientVars, serviceVars
  <1>2. /\ responses[c] \in Seq(Responses) /\ IsInjective(responses[c])
        /\ responses'[c] = Tail(responses[c])
        /\ \A d \in Clients : d # c => responses'[d] = responses[d] /\ answers'[d] = answers[d]
        /\ answers'[c] = answers[c] \cup {a}
    BY <1>1 DEF Once, QueuedOnce, TypeOK
  <1>3. /\ a \in Responses /\ Range(responses[c]) = Range(responses'[c]) \cup {a}
        /\ IsInjective(responses'[c]) /\ a \notin Range(responses'[c])
    BY <1>1, <1>2, <1>a, RangeFacts
  <1>4. a.number \in 1..MaxRequests /\ a.from \in Services /\ <<c, a>> \notin acks
    BY <1>3 DEF Responses, Once, QueuedOnce
  <1>5. QueuedOnce'
    BY <1>1, <1>2, <1>3 DEF Once, QueuedOnce
  <1>6. Answered(c, a.number, a.from) /\ Returned(c, a.number, a.from)'
    BY <1>2, <1>3 DEF Answered, Returned
  <1>7. ~Answered(c, a.number, a.from)'
    <2>1. ASSUME NEW b \in Responses, b.number = a.number, b.from = a.from,
                 <<c, b>> \in acks' \/ b \in Range(responses'[c])
          PROVE  FALSE
      <3>1. b = a
        BY <1>1, <1>3, <2>1, AnswerFacts
      <3>. QED
        BY <1>1, <1>3, <1>4, <2>1, <3>1
    <2>. QED
      BY <2>1 DEF Answered
  <1>8. ASSUME NEW d \in Clients, NEW m \in 1..MaxRequests, NEW u \in Services,
               <<d, m, u>> # <<c, a.number, a.from>>
        PROVE  Same(d, m, u)
    <2>1. Answered(d, m, u)' <=> Answered(d, m, u)
      BY <1>1, <1>2, <1>3, <1>8 DEF Answered
    <2>2. Returned(d, m, u)' <=> Returned(d, m, u)
      BY <1>2, <1>8 DEF Returned
    <2>. QED
      BY <1>1, <2>1, <2>2 DEF Same, Asked, Taken
  <1>9. /\ Asked(c, a.number, a.from)' <=> Asked(c, a.number, a.from)
        /\ Taken(c, a.number, a.from)' <=> Taken(c, a.number, a.from)
    BY <1>1 DEF Asked, Taken
  <1>. QED
    BY <1>1, <1>4, <1>5, <1>6, <1>7, <1>8, <1>9 DEF SameBut

LEMMA DestroyClientEffect ==
  ASSUME TypeOK, Once, NEW c \in Clients, DestroyClient(c)
  PROVE  /\ QueuedOnce' /\ sequence' = sequence
         /\ \A d \in Clients, m \in 1..MaxRequests, u \in Services :
               /\ d # c => Same(d, m, u)
               /\ d = c => ~Answered(d, m, u)'
               /\ Asked(d, m, u)' <=> Asked(d, m, u)
               /\ Taken(d, m, u)' <=> Taken(d, m, u)
               /\ Returned(d, m, u)' <=> Returned(d, m, u)
  <1>1. /\ responses'[c] = <<>> /\ \A d \in Clients : d # c => responses'[d] = responses[d]
        /\ acks' = {a \in acks : a[1] # c}
        /\ UNCHANGED <<sequence, requested, backlog, requests, answers>>
    BY DEF DestroyClient, TypeOK, clientVars, serviceVars
  <1>2. QueuedOnce'
    BY <1>1, EmptyRange DEF Once, QueuedOnce
  <1>3. ASSUME NEW d \in Clients, NEW m \in 1..MaxRequests, NEW u \in Services
        PROVE  /\ d # c => (Answered(d, m, u)' <=> Answered(d, m, u))
               /\ d = c => ~Answered(d, m, u)'
               /\ Asked(d, m, u)' <=> Asked(d, m, u)
               /\ Taken(d, m, u)' <=> Taken(d, m, u)
               /\ Returned(d, m, u)' <=> Returned(d, m, u)
    BY <1>1, EmptyRange DEF Asked, Taken, Answered, Returned
  <1>. QED
    BY <1>1, <1>2, <1>3 DEF Same

LEMMA LoseRequestEffect ==
  ASSUME TypeOK, Once, LoseRequest
  PROVE  \E c \in Clients, n \in 1..MaxRequests, s \in Services :
            /\ QueuedOnce' /\ sequence' = sequence
            /\ SameBut(c, n, s)
            /\ Asked(c, n, s) /\ ~Asked(c, n, s)'
            /\ Taken(c, n, s)' <=> Taken(c, n, s)
            /\ Answered(c, n, s)' <=> Answered(c, n, s)
            /\ Returned(c, n, s)' <=> Returned(c, n, s)
  <1>1. PICK q \in requested : requested' = requested \ {q}
    BY DEF LoseRequest
  <1>2. UNCHANGED <<sequence, backlog, requests, acks, responses, answers>>
    BY DEF LoseRequest, clientVars, serviceVars
  <1>3. PICK pub \in Publications, s \in Services : q = <<pub, s>>
    BY DEF TypeOK
  <1>4. /\ pub.writer \in Clients /\ pub.number \in 1..MaxRequests
        /\ \A c, n : pub = [writer |-> c, number |-> n] <=> c = pub.writer /\ n = pub.number
    BY PublicationFacts
  <1>5. pub \notin Range(backlog[s])
    BY <1>3 DEF Once, QueuedOnce
  <1>6. QueuedOnce'
    BY <1>1, <1>2 DEF Once, QueuedOnce
  <1>7. Asked(pub.writer, pub.number, s) /\ ~Asked(pub.writer, pub.number, s)'
    BY <1>1, <1>2, <1>3, <1>4, <1>5 DEF Asked
  <1>8. ASSUME NEW d \in Clients, NEW m \in 1..MaxRequests, NEW u \in Services
        PROVE  /\ <<d, m, u>> # <<pub.writer, pub.number, s>> =>
                     (Asked(d, m, u)' <=> Asked(d, m, u))
               /\ Taken(d, m, u)' <=> Taken(d, m, u)
               /\ Answered(d, m, u)' <=> Answered(d, m, u)
               /\ Returned(d, m, u)' <=> Returned(d, m, u)
    BY <1>1, <1>2, <1>3, <1>4 DEF Asked, Taken, Answered, Returned
  <1>. QED
    BY <1>2, <1>4, <1>6, <1>7, <1>8 DEF SameBut, Same

LEMMA LoseAckEffect ==
  ASSUME TypeOK, Paired, Once, LoseAck
  PROVE  \E c \in Clients, n \in 1..MaxRequests, s \in Services :
            /\ QueuedOnce' /\ sequence' = sequence
            /\ SameBut(c, n, s)
            /\ Answered(c, n, s) /\ ~Answered(c, n, s)'
            /\ Asked(c, n, s)' <=> Asked(c, n, s)
            /\ Taken(c, n, s)' <=> Taken(c, n, s)
            /\ Returned(c, n, s)' <=> Returned(c, n, s)
  <1>1. PICK q \in acks : acks' = acks \ {q}
    BY DEF LoseAck
  <1>2. UNCHANGED <<sequence, requested, backlog, requests, responses, answers>>
    BY DEF LoseAck, clientVars, serviceVars
  <1>3. PICK c \in Clients, a \in Responses : q = <<c, a>>
    BY DEF TypeOK
  <1>4. a.number \in 1..MaxRequests /\ a.from \in Services /\ a \notin Range(responses[c])
    BY <1>3 DEF Responses, Once, QueuedOnce
  <1>5. QueuedOnce'
    BY <1>1, <1>2 DEF Once, QueuedOnce
  <1>6. Answered(c, a.number, a.from)
    BY <1>3 DEF Answered
  <1>7. ~Answered(c, a.number, a.from)'
    <2>1. ASSUME NEW b \in Responses, b.number = a.number, b.from = a.from,
                 <<c, b>> \in acks' \/ b \in Range(responses'[c])
          PROVE  FALSE
      <3>1. b = a
        BY <1>1, <1>2, <1>3, <2>1, AnswerFacts
      <3>. QED
        BY <1>1, <1>2, <1>3, <1>4, <2>1, <3>1
    <2>. QED
      BY <2>1 DEF Answered
  <1>8. ASSUME NEW d \in Clients, NEW m \in 1..MaxRequests, NEW u \in Services
        PROVE  /\ <<d, m, u>> # <<c, a.number, a.from>> =>
                     (Answered(d, m, u)' <=> Answered(d, m, u))
               /\ Asked(d, m, u)' <=> Asked(d, m, u)
               /\ Taken(d, m, u)' <=> Taken(d, m, u)
               /\ Returned(d, m, u)' <=> Returned(d, m, u)
    BY <1>1, <1>2, <1>3 DEF Asked, Taken, Answered, Returned
  <1>. QED
    BY <1>2, <1>4, <1>5, <1>6, <1>7, <1>8 DEF SameBut, Same

-----------------------------------------------------------------------------
\* What a step can do to the calls: a client makes the next one, nothing, one
\* call goes on, or some come to nothing.
Gone(c, n, s) ==
  ~Asked(c, n, s)' /\ ~Taken(c, n, s)' /\ ~Answered(c, n, s)' /\ ~Returned(c, n, s)'

Started(c) ==
  /\ sequence[c] + 1 \in 1..MaxRequests
  /\ sequence' = [sequence EXCEPT ![c] = @ + 1]
  /\ \A d \in Clients, m \in 1..MaxRequests, u \in Services :
        /\ ~(d = c /\ m = sequence[c] + 1) => Same(d, m, u)
        /\ d = c /\ m = sequence[c] + 1 =>
              ~Taken(d, m, u)' /\ ~Answered(d, m, u)' /\ ~Returned(d, m, u)'

Settled ==
  /\ sequence' = sequence
  /\ \A d \in Clients, m \in 1..MaxRequests, u \in Services : Same(d, m, u)

Moved(c, n, s) ==
  /\ sequence' = sequence /\ SameBut(c, n, s)
  /\ ~Asked(c, n, s)'
  /\ \/ /\ Asked(c, n, s)
        /\ Taken(c, n, s)' /\ ~Answered(c, n, s)' /\ ~Returned(c, n, s)'
     \/ /\ Taken(c, n, s)
        /\ ~Taken(c, n, s)' /\ Answered(c, n, s)' /\ ~Returned(c, n, s)'
     \/ /\ Answered(c, n, s)
        /\ ~Taken(c, n, s)' /\ ~Answered(c, n, s)' /\ Returned(c, n, s)'

Dropped(S) ==
  /\ sequence' = sequence
  /\ \A d \in Clients, m \in 1..MaxRequests, u \in Services :
        IF <<d, m, u>> \in S
        THEN (Asked(d, m, u) \/ Taken(d, m, u) \/ Answered(d, m, u)) /\ Gone(d, m, u)
        ELSE Same(d, m, u)

LEMMA UnmovedEffect ==
  ASSUME Once, UNCHANGED <<requested, backlog, requests, acks, responses, answers>>
  PROVE  /\ QueuedOnce'
         /\ \A d \in Clients, m \in 1..MaxRequests, u \in Services : Same(d, m, u)
  BY DEF Once, QueuedOnce, Same, Asked, Taken, Answered, Returned

\* What InOnePlace says of one call.
Placed(c, n, s) ==
  /\ Asked(c, n, s) \/ Taken(c, n, s) \/ Answered(c, n, s) \/ Returned(c, n, s)
       => n <= sequence[c]
  /\ Asked(c, n, s) => ~Taken(c, n, s) /\ ~Answered(c, n, s) /\ ~Returned(c, n, s)
  /\ Taken(c, n, s) => ~Answered(c, n, s) /\ ~Returned(c, n, s)
  /\ Answered(c, n, s) => ~Returned(c, n, s)

LEMMA PlacedFacts ==
  InOnePlace <=> \A c \in Clients, n \in 1..MaxRequests, s \in Services : Placed(c, n, s)
  BY DEF InOnePlace, Placed

\* Every step of the model is one of the four kinds.
LEMMA Effects ==
  ASSUME TypeOK, Paired, Once, MaxRepeats = 0, [Next]_vars
  PROVE  /\ QueuedOnce'
         /\ \/ \E c \in Clients : Started(c)
            \/ Settled
            \/ \E c \in Clients, n \in 1..MaxRequests, s \in Services : Moved(c, n, s)
            \/ \E S \in SUBSET (Clients \X (1..MaxRequests) \X Services) : Dropped(S)
  <1> DEFINE Goal ==
        /\ QueuedOnce'
        /\ \/ \E c \in Clients : Started(c)
           \/ Settled
           \/ \E c \in Clients, n \in 1..MaxRequests, s \in Services : Moved(c, n, s)
           \/ \E S \in SUBSET (Clients \X (1..MaxRequests) \X Services) : Dropped(S)
  <1>p. \A c \in Clients, n \in 1..MaxRequests, s \in Services : Placed(c, n, s)
    BY PlacedFacts DEF Once
  <1>d. ASSUME NEW c \in Clients, NEW n \in 1..MaxRequests, NEW s \in Services,
               QueuedOnce', sequence' = sequence, SameBut(c, n, s),
               Asked(c, n, s) \/ Taken(c, n, s) \/ Answered(c, n, s), Gone(c, n, s)
        PROVE  Goal
    <2> DEFINE S == {<<c, n, s>>}
    <2>1. S \in SUBSET (Clients \X (1..MaxRequests) \X Services)
      OBVIOUS
    <2>2. Dropped(S)
      BY <1>d DEF Dropped, SameBut
    <2>. QED
      BY <1>d, <2>1, <2>2
  <1>1. ASSUME NEW c \in Clients, PublishRequest(c)
        PROVE  Goal
    <2>1. /\ Services \cap created \in SUBSET Services
          /\ sequence[c] < MaxRequests /\ sequence' = [sequence EXCEPT ![c] = @ + 1]
          /\ requested' = requested
               \cup {[writer |-> c, number |-> sequence'[c]]} \X (Services \cap created)
          /\ UNCHANGED <<backlog, requests, acks, responses, answers>>
      BY <1>1 DEF PublishRequest, serviceVars
    <2>. QED
      BY <2>1, PublishEffect DEF Started
  <1>2. ASSUME NEW c \in Clients, PublishFails(c)
        PROVE  Goal
    <2>1. PICK reached \in SUBSET (Services \cap created) :
            requested' = requested \cup {[writer |-> c, number |-> sequence'[c]]} \X reached
      BY <1>2 DEF PublishFails
    <2>2. /\ reached \in SUBSET Services
          /\ sequence[c] < MaxRequests /\ sequence' = [sequence EXCEPT ![c] = @ + 1]
          /\ UNCHANGED <<backlog, requests, acks, responses, answers>>
      BY <1>2 DEF PublishFails, serviceVars
    <2>. QED
      BY <2>1, <2>2, PublishEffect DEF Started
  <1>3. ASSUME NEW c \in Clients, ReadSequence(c)
        PROVE  Goal
    BY <1>3, UnmovedEffect DEF ReadSequence, Settled, serviceVars
  <1>4. ASSUME NEW s \in Services, NEW pub \in Publications, OnPublication(s, pub)
        PROVE  Goal
    BY <1>4, OnPublicationEffect DEF Settled
  <1>5. ASSUME NEW s \in Services, TakeRequest(s)
        PROVE  Goal
    <2>1. PICK pub \in Publications :
            /\ QueuedOnce' /\ sequence' = sequence
            /\ SameBut(pub.writer, pub.number, s)
            /\ Asked(pub.writer, pub.number, s) /\ ~Asked(pub.writer, pub.number, s)'
            /\ Taken(pub.writer, pub.number, s)'
            /\ Answered(pub.writer, pub.number, s)' <=> Answered(pub.writer, pub.number, s)
            /\ Returned(pub.writer, pub.number, s)' <=> Returned(pub.writer, pub.number, s)
      BY <1>5, TakeRequestEffect
    <2>2. pub.writer \in Clients /\ pub.number \in 1..MaxRequests
      BY PublicationFacts
    <2>3. Moved(pub.writer, pub.number, s)
      BY <1>p, <2>1, <2>2 DEF Moved, Placed
    <2>. QED
      BY <2>1, <2>2, <2>3
  <1>6. ASSUME NEW s \in Services, NEW r \in requests[s], SendResponse(s, r)
        PROVE  Goal
    <2>1. PICK c \in Clients, n \in 1..MaxRequests :
            /\ QueuedOnce' /\ sequence' = sequence
            /\ SameBut(c, n, s)
            /\ Taken(c, n, s) /\ ~Taken(c, n, s)'
            /\ Asked(c, n, s)' <=> Asked(c, n, s)
            /\ Returned(c, n, s)' <=> Returned(c, n, s)
      BY <1>6, SendResponseEffect
    <2>2. ~Asked(c, n, s)' /\ ~Returned(c, n, s)'
      BY <1>p, <2>1 DEF Placed
    <2>3. CASE Answered(c, n, s)'
      BY <2>1, <2>2, <2>3 DEF Moved
    <2>4. CASE ~Answered(c, n, s)'
      BY <1>d, <2>1, <2>2, <2>4 DEF Gone
    <2>. QED
      BY <2>3, <2>4
  <1>7. ASSUME NEW s \in Services, DestroyService(s)
        PROVE  Goal
    <2> DEFINE S == {k \in Clients \X (1..MaxRequests) \X Services :
                       k[3] = s /\ (Asked(k[1], k[2], k[3]) \/ Taken(k[1], k[2], k[3]))}
    <2>1. /\ QueuedOnce' /\ sequence' = sequence
          /\ \A d \in Clients, m \in 1..MaxRequests, u \in Services :
               /\ u # s => Same(d, m, u)
               /\ u = s => ~Asked(d, m, u)' /\ ~Taken(d, m, u)'
               /\ Answered(d, m, u)' <=> Answered(d, m, u)
               /\ Returned(d, m, u)' <=> Returned(d, m, u)
      BY <1>7, DestroyServiceEffect
    <2>2. \A d \in Clients, m \in 1..MaxRequests, u \in Services :
             <<d, m, u>> \in S <=> u = s /\ (Asked(d, m, u) \/ Taken(d, m, u))
      OBVIOUS
    <2>3. S \in SUBSET (Clients \X (1..MaxRequests) \X Services)
      OBVIOUS
    <2> HIDE DEF S
    <2>4. Dropped(S)
      BY <1>p, <2>1, <2>2 DEF Dropped, Gone, Same, Placed
    <2>. QED
      BY <2>1, <2>3, <2>4
  <1>8. ASSUME NEW c \in Clients, NEW a \in Responses, OnAcknowledgement(c, a)
        PROVE  Goal
    BY <1>8, OnAcknowledgementEffect DEF Settled
  <1>9. ASSUME NEW c \in Clients, TakeResponse(c)
        PROVE  Goal
    <2>1. PICK n \in 1..MaxRequests, s \in Services :
            /\ QueuedOnce' /\ sequence' = sequence
            /\ SameBut(c, n, s)
            /\ Answered(c, n, s) /\ ~Answered(c, n, s)' /\ Returned(c, n, s)'
            /\ Asked(c, n, s)' <=> Asked(c, n, s)
            /\ Taken(c, n, s)' <=> Taken(c, n, s)
      BY <1>9, TakeResponseEffect
    <2>2. Moved(c, n, s)
      BY <1>p, <2>1 DEF Moved, Placed
    <2>. QED
      BY <2>1, <2>2
  <1>10. ASSUME NEW c \in Clients, DestroyClient(c)
         PROVE  Goal
    <2> DEFINE S == {k \in Clients \X (1..MaxRequests) \X Services :
                       k[1] = c /\ Answered(k[1], k[2], k[3])}
    <2>1. /\ QueuedOnce' /\ sequence' = sequence
          /\ \A d \in Clients, m \in 1..MaxRequests, u \in Services :
               /\ d # c => Same(d, m, u)
               /\ d = c => ~Answered(d, m, u)'
               /\ Asked(d, m, u)' <=> Asked(d, m, u)
               /\ Taken(d, m, u)' <=> Taken(d, m, u)
               /\ Returned(d, m, u)' <=> Returned(d, m, u)
      BY <1>10, DestroyClientEffect
    <2>2. \A d \in Clients, m \in 1..MaxRequests, u \in Services :
             <<d, m, u>> \in S <=> d = c /\ Answered(d, m, u)
      OBVIOUS
    <2>3. S \in SUBSET (Clients \X (1..MaxRequests) \X Services)
      OBVIOUS
    <2> HIDE DEF S
    <2>4. Dropped(S)
      BY <1>p, <2>1, <2>2 DEF Dropped, Gone, Same, Placed
    <2>. QED
      BY <2>1, <2>3, <2>4
  <1>11. ASSUME LoseRequest
         PROVE  Goal
    <2>1. PICK c \in Clients, n \in 1..MaxRequests, s \in Services :
            /\ QueuedOnce' /\ sequence' = sequence
            /\ SameBut(c, n, s)
            /\ Asked(c, n, s) /\ ~Asked(c, n, s)'
            /\ Taken(c, n, s)' <=> Taken(c, n, s)
            /\ Answered(c, n, s)' <=> Answered(c, n, s)
            /\ Returned(c, n, s)' <=> Returned(c, n, s)
      BY <1>11, LoseRequestEffect
    <2>2. Gone(c, n, s)
      BY <1>p, <2>1 DEF Gone, Placed
    <2>. QED
      BY <1>d, <2>1, <2>2
  <1>12. ASSUME LoseAck
         PROVE  Goal
    <2>1. PICK c \in Clients, n \in 1..MaxRequests, s \in Services :
            /\ QueuedOnce' /\ sequence' = sequence
            /\ SameBut(c, n, s)
            /\ Answered(c, n, s) /\ ~Answered(c, n, s)'
            /\ Asked(c, n, s)' <=> Asked(c, n, s)
            /\ Taken(c, n, s)' <=> Taken(c, n, s)
            /\ Returned(c, n, s)' <=> Returned(c, n, s)
      BY <1>12, LoseAckEffect
    <2>2. Gone(c, n, s)
      BY <1>p, <2>1 DEF Gone, Placed
    <2>. QED
      BY <1>d, <2>1, <2>2
  <1>13. ASSUME UNCHANGED vars
         PROVE  Goal
    BY <1>13, UnmovedEffect DEF vars, Settled, serviceVars, clientVars
  <1> HIDE DEF Goal
  <1>14. Goal
    BY <1>1, <1>2, <1>3, <1>4, <1>5, <1>6, <1>7, <1>8, <1>9, <1>10, <1>11, <1>12, <1>13
       DEF Next, ClientStep, Receive, Serve
  <1>. QED
    BY <1>14 DEF Goal

\* A call stays in one place at a time.
LEMMA OnceStep ==
  ASSUME TypeOK, Paired, Once, MaxRepeats = 0, [Next]_vars
  PROVE  Once'
  <1>1. \A c \in Clients, n \in 1..MaxRequests, s \in Services : Placed(c, n, s)
    BY PlacedFacts DEF Once
  <1>2. \A c \in Clients : sequence[c] \in Nat
    BY DEF TypeOK
  <1> DEFINE Goal == \A c \in Clients, n \in 1..MaxRequests, s \in Services : Placed(c, n, s)'
  <1>3. ASSUME NEW c \in Clients, Started(c)
        PROVE  Goal
    <2>1. ASSUME NEW d \in Clients, NEW m \in 1..MaxRequests, NEW u \in Services
          PROVE  Placed(d, m, u)'
      <3>1. sequence'[d] = (IF d = c THEN sequence[c] + 1 ELSE sequence[d])
        BY <1>3 DEF Started, TypeOK
      <3>2. CASE ~(d = c /\ m = sequence[c] + 1)
        BY <1>1, <1>2, <1>3, <3>1, <3>2 DEF Started, Same, Placed
      <3>3. CASE d = c /\ m = sequence[c] + 1
        BY <1>2, <1>3, <3>1, <3>3 DEF Started, Placed
      <3>. QED
        BY <3>2, <3>3
    <2>. QED
      BY <2>1
  <1>4. ASSUME Settled
        PROVE  Goal
    BY <1>1, <1>4 DEF Settled, Same, Placed
  <1>5. ASSUME NEW c \in Clients, NEW n \in 1..MaxRequests, NEW s \in Services, Moved(c, n, s)
        PROVE  Goal
    BY <1>1, <1>5 DEF Moved, SameBut, Same, Placed
  <1>6. ASSUME NEW S, Dropped(S)
        PROVE  Goal
    <2>1. ASSUME NEW d \in Clients, NEW m \in 1..MaxRequests, NEW u \in Services
          PROVE  Placed(d, m, u)'
      <3>1. Placed(d, m, u) /\ sequence' = sequence
        BY <1>1, <1>6 DEF Dropped
      <3>2. Gone(d, m, u) \/ Same(d, m, u)
        BY <1>6 DEF Dropped
      <3>. QED
        BY <3>1, <3>2 DEF Gone, Same, Placed
    <2>. QED
      BY <2>1
  <1> HIDE DEF Goal
  <1>7. QueuedOnce' /\ Goal
    BY <1>3, <1>4, <1>5, <1>6, Effects
  <1>8. InOnePlace' <=> Goal
    BY PlacedFacts DEF Goal, InOnePlace, Placed
  <1>. QED
    BY <1>7, <1>8 DEF Once

\* The inductive invariant: headers, acknowledgements and ids agree with the
\* publications they were made of, and while DPS delivers a request once a call
\* is in one place at a time.
THEOREM Invariance == Spec => []Inv
  <1> USE DEF Inv
  <1>1. Init => Paired /\ Once
    <2> SUFFICES ASSUME Init PROVE Paired /\ Once
      OBVIOUS
    <2>1. Paired
      BY DEF Init, Paired
    <2>2. /\ \A s \in Services : backlog[s] = <<>> /\ requests[s] = {}
          /\ \A c \in Clients : responses[c] = <<>> /\ answers[c] = {}
          /\ requested = {} /\ acks = {}
      BY DEF Init
    <2>3. QueuedOnce
      BY <2>2, EmptyRange DEF QueuedOnce
    <2>4. InOnePlace
      BY <2>2, EmptyRange DEF InOnePlace, Asked, Taken, Answered, Returned
    <2>. QED
      BY <2>1, <2>3, <2>4 DEF Once
  <1>2. TypeOK /\ Paired /\ (MaxRepeats = 0 => Once) /\ [Next]_vars
           => Paired' /\ (MaxRepeats = 0 => Once')
    BY PairedStep, OnceStep
  <1>3. (MaxRepeats = 0)' <=> MaxRepeats = 0
    OBVIOUS
  <1> DEFINE OnceIf == MaxRepeats = 0 => Once
  <1>4. Init => Paired /\ OnceIf
    BY <1>1
  <1>5. TypeOK /\ Paired /\ OnceIf /\ [Next]_vars => Paired' /\ OnceIf'
    BY <1>2
  <1>6. TypeOK /\ Paired /\ OnceIf => Inv
    OBVIOUS
  <1> HIDE DEF OnceIf, Inv
  <1>. QED
    BY <1>4, <1>5, <1>6, Typing, PTL DEF Spec

\* A response that carries the id of a request answers that request, whatever is
\* lost, repeated, reordered, refused or destroyed.
THEOREM ResponsesAnswerRequests == Spec => []ResponseAnswersRequest
  <1>1. Inv => ResponseAnswersRequest
    BY DEF Inv, Paired, ResponseAnswersRequest
  <1>. QED
    BY <1>1, Invariance, PTL

-----------------------------------------------------------------------------
(* RequestReply implements ServiceCalls. *)

\* The abstract step, from the state of each call before and after.
LEMMA AskStep ==
  ASSUME NEW c \in Clients, NEW n \in 1..MaxRequests, NEW lost \in SUBSET Services,
         \A d \in Clients, m \in 1..MaxRequests, u \in Services :
            IF d = c /\ m = n
            THEN /\ State(d, m, u) = "new"
                 /\ State(d, m, u)' = IF u \in lost THEN "void" ELSE "asked"
            ELSE State(d, m, u)' = State(d, m, u)
  PROVE  Abstract!Ask(c, n)
  BY DEF CallStates, Abstract!Ask, Abstract!Calls

LEMMA AdvanceStep ==
  ASSUME NEW c \in Clients, NEW n \in 1..MaxRequests, NEW s \in Services,
         \A d \in Clients, m \in 1..MaxRequests, u \in Services :
            <<d, m, u>> # <<c, n, s>> => State(d, m, u)' = State(d, m, u),
         \/ State(c, n, s) = "asked" /\ State(c, n, s)' = "held"
         \/ State(c, n, s) = "held" /\ State(c, n, s)' = "answered"
         \/ State(c, n, s) = "answered" /\ State(c, n, s)' = "returned"
  PROVE  Abstract!Advance(<<c, n, s>>)
  <1> DEFINE f == [k \in Clients \X (1..MaxRequests) \X Services |-> State(k[1], k[2], k[3])]
             key == <<c, n, s>>
             next == [asked |-> "held", held |-> "answered", answered |-> "returned"]
  <1>1. /\ key \in Clients \X (1..MaxRequests) \X Services
        /\ f[key] = State(c, n, s) /\ f'[key] = State(c, n, s)'
    OBVIOUS
  <1>2. f[key] \in DOMAIN next /\ f'[key] = next[f[key]]
    BY <1>1
  <1>3. \A k \in Clients \X (1..MaxRequests) \X Services : k # key => f'[k] = f[k]
    <2>1. ASSUME NEW k \in Clients \X (1..MaxRequests) \X Services, k # key
          PROVE  f'[k] = f[k]
      <3>1. PICK d \in Clients, m \in 1..MaxRequests, u \in Services : k = <<d, m, u>>
        OBVIOUS
      <3>. QED
        BY <2>1, <3>1
    <2>. QED
      BY <2>1
  <1>4. f' = [f EXCEPT ![key] = next[@]]
    <2>1. /\ f = [k \in Clients \X (1..MaxRequests) \X Services |-> f[k]]
          /\ f' = [k \in Clients \X (1..MaxRequests) \X Services |-> f'[k]]
      OBVIOUS
    <2> HIDE DEF f, key, next
    <2>. QED
      BY <1>1, <1>2, <1>3, <2>1
  <1>. QED
    BY <1>2, <1>4 DEF CallStates, Abstract!Advance, Abstract!Successor

LEMMA VoidStep ==
  ASSUME NEW S \in SUBSET (Clients \X (1..MaxRequests) \X Services),
         \A d \in Clients, m \in 1..MaxRequests, u \in Services :
            IF <<d, m, u>> \in S
            THEN State(d, m, u) \in {"asked", "held", "answered"} /\ State(d, m, u)' = "void"
            ELSE State(d, m, u)' = State(d, m, u)
  PROVE  Abstract!Void(S)
  BY DEF CallStates, Abstract!Void, Abstract!Successor, Abstract!Calls

\* Every step of the model is a step of the abstract specification, or one that
\* it does not see.
LEMMA CallStep ==
  ASSUME TypeOK, Paired, Once, MaxRepeats = 0, [Next]_vars
  PROVE  [Abstract!Next]_CallStates
  <1>p. \A c \in Clients, n \in 1..MaxRequests, s \in Services : Placed(c, n, s)
    BY PlacedFacts DEF Once
  <1>s. \A c \in Clients : sequence[c] \in Nat
    BY DEF TypeOK
  <1>1. ASSUME NEW c \in Clients, Started(c)
        PROVE  Abstract!Next
    <2>1. PICK n \in 1..MaxRequests : n = sequence[c] + 1
      BY <1>1 DEF Started
    <2> DEFINE lost == {u \in Services : ~Asked(c, n, u)'}
    <2>2. ASSUME NEW d \in Clients, NEW m \in 1..MaxRequests, NEW u \in Services
          PROVE  IF d = c /\ m = n
                 THEN /\ State(d, m, u) = "new"
                      /\ State(d, m, u)' = IF u \in lost THEN "void" ELSE "asked"
                 ELSE State(d, m, u)' = State(d, m, u)
      <3>1. sequence'[d] = (IF d = c THEN n ELSE sequence[d])
        BY <1>1, <2>1 DEF Started, TypeOK
      <3>2. CASE d = c /\ m = n
        <4>1. m > sequence[d] /\ ~(m > sequence'[d])
          BY <1>s, <2>1, <3>1, <3>2
        <4>2. ~Taken(d, m, u)' /\ ~Answered(d, m, u)' /\ ~Returned(d, m, u)'
          BY <1>1, <2>1, <3>2 DEF Started
        <4>. QED
          BY <3>2, <4>1, <4>2 DEF State
      <3>3. CASE ~(d = c /\ m = n)
        <4>1. m > sequence'[d] <=> m > sequence[d]
          BY <1>s, <2>1, <3>1, <3>3
        <4>2. Same(d, m, u)
          BY <1>1, <2>1, <3>3 DEF Started
        <4>. QED
          BY <3>3, <4>1, <4>2 DEF State, Same
      <3>. QED
        BY <3>2, <3>3
    <2>3. PICK L \in SUBSET Services : L = lost
      OBVIOUS
    <2> HIDE DEF lost
    <2>4. Abstract!Ask(c, n)
      BY <2>2, <2>3, AskStep
    <2>. QED
      BY <2>4 DEF Abstract!Next
  <1>2. ASSUME Settled
        PROVE  UNCHANGED CallStates
    <2>1. \A c \in Clients, n \in 1..MaxRequests, s \in Services :
             State(c, n, s)' = State(c, n, s)
      BY <1>2 DEF Settled, Same, State
    <2>. QED
      BY <2>1 DEF CallStates
  <1>3. ASSUME NEW c \in Clients, NEW n \in 1..MaxRequests, NEW s \in Services, Moved(c, n, s)
        PROVE  Abstract!Next
    <2>1. ASSUME NEW d \in Clients, NEW m \in 1..MaxRequests, NEW u \in Services,
                 <<d, m, u>> # <<c, n, s>>
          PROVE  State(d, m, u)' = State(d, m, u)
      <3>1. Same(d, m, u) /\ sequence' = sequence
        BY <1>3, <2>1 DEF Moved, SameBut
      <3>. QED
        BY <3>1 DEF Same, State
    <2>2. Placed(c, n, s) /\ ~(n > sequence[c]) /\ sequence' = sequence
      <3>1. Placed(c, n, s) /\ n <= sequence[c] /\ sequence' = sequence
        BY <1>p, <1>3 DEF Moved, Placed
      <3>. QED
        BY <1>s, <3>1
    <2>3. \/ State(c, n, s) = "asked" /\ State(c, n, s)' = "held"
          \/ State(c, n, s) = "held" /\ State(c, n, s)' = "answered"
          \/ State(c, n, s) = "answered" /\ State(c, n, s)' = "returned"
      BY <1>3, <2>2 DEF Moved, Placed, State
    <2>4. Abstract!Advance(<<c, n, s>>)
      BY <2>1, <2>3, AdvanceStep
    <2>. QED
      BY <2>4 DEF Abstract!Next, Abstract!Calls
  <1>4. ASSUME NEW S \in SUBSET (Clients \X (1..MaxRequests) \X Services), Dropped(S)
        PROVE  Abstract!Next
    <2>1. ASSUME NEW d \in Clients, NEW m \in 1..MaxRequests, NEW u \in Services
          PROVE  IF <<d, m, u>> \in S
                 THEN State(d, m, u) \in {"asked", "held", "answered"} /\ State(d, m, u)' = "void"
                 ELSE State(d, m, u)' = State(d, m, u)
      <3>1. Placed(d, m, u) /\ sequence' = sequence /\ sequence[d] \in Nat
        BY <1>p, <1>s, <1>4 DEF Dropped
      <3>2. CASE <<d, m, u>> \in S
        <4>1. (Asked(d, m, u) \/ Taken(d, m, u) \/ Answered(d, m, u)) /\ Gone(d, m, u)
          BY <1>4, <3>2 DEF Dropped
        <4>2. ~(m > sequence[d])
          <5>1. m <= sequence[d]
            BY <3>1, <4>1 DEF Placed
          <5>. QED
            BY <3>1, <5>1
        <4>. QED
          BY <3>1, <3>2, <4>1, <4>2 DEF Gone, State
      <3>3. CASE <<d, m, u>> \notin S
        <4>1. Same(d, m, u)
          BY <1>4, <3>3 DEF Dropped
        <4>. QED
          BY <3>1, <3>3, <4>1 DEF Same, State
      <3>. QED
        BY <3>2, <3>3
    <2>2. Abstract!Void(S)
      BY <2>1, VoidStep
    <2>. QED
      BY <2>2 DEF Abstract!Next, Abstract!Calls
  <1>. QED
    BY <1>1, <1>2, <1>3, <1>4, Effects

LEMMA CallsInit == Init => Abstract!Init
  <1> SUFFICES ASSUME Init PROVE Abstract!Init
    OBVIOUS
  <1>1. ASSUME NEW c \in Clients, NEW n \in 1..MaxRequests, NEW s \in Services
        PROVE  State(c, n, s) = "new"
    <2>1. sequence[c] = 0 /\ n > 0
      BY ServiceAssumption DEF Init, ServiceAssumption
    <2>. QED
      BY <2>1 DEF State
  <1>. QED
    BY <1>1 DEF CallStates, Abstract!Init, Abstract!Calls

\* While DPS delivers a request once, each server gets a request at most once
\* and answers it at most once, and the client that made it, and no other, gets
\* each answer at most once.
THEOREM CallsAreServed ==
  ASSUME MaxRepeats = 0
  PROVE  Spec => ImplementsServiceCalls
  <1>1. Init => Abstract!Init
    BY CallsInit
  <1>2. Inv /\ [Next]_vars => [Abstract!Next]_CallStates
    BY CallStep DEF Inv
  <1>. QED
    BY <1>1, <1>2, Invariance, PTL DEF Spec, ImplementsServiceCalls, Abstract!Spec

=============================================================================
