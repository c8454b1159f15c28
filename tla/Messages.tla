------------------------------ MODULE Messages ------------------------------
(***************************************************************************)
(* The messages of one topic: rmw_publish, rmw_publish_serialized_message, *)
(* rmw_take, rmw_take_serialized_message, rmw_serialize, rmw_deserialize.  *)
(*                                                                         *)
(* Each thread has a publisher of the topic and an rmw_serialized_message  *)
(* of its own; some take from one subscription that they share.  A message *)
(* is written item by item to a stream of a fixed capacity.  A stream that *)
(* overflows goes on counting, and the whole message is written again to a *)
(* stream of the size counted.  DPS reads a publisher's buffer at any time *)
(* until it calls back, and the publishing call waits for that.  The       *)
(* listener queues copies; a take pops one first and then deserialises or  *)
(* copies it, which may fail.                                              *)
(*                                                                         *)
(* How a message becomes items is left to Encode and Decode (see Codec).   *)
(* The locking inside the listener is WaitSet's subject.                   *)
(***************************************************************************)
EXTENDS Naturals, Sequences

CONSTANTS
  Threads,       \* the application threads
  Takers,        \* those that take
  Subscriber,    \* the subscription
  Supports,      \* type supports
  Repertoire(_), \* Repertoire(s): the ROS messages of type support s
  Encode(_, _),  \* Encode(s, m): the items s writes for m, or Refused
  Decode(_, _),  \* Decode(s, items): the message s reads, or Unreadable
  Sums(_),       \* Sums(items)[n]: the size of the first n items
  Contents,      \* what items are made of
  Hint,          \* capacity of a new TxStream (1024 in the code)
  Endowments,    \* bound: type supports and publishing calls of the threads
  MaxCount,      \* bound: publications the liveness property looks at
  Refused, Unreadable, Nothing

Items == [content : Contents, size : Nat]

\* A message and the type support it was made for; this stays with every copy
\* of it, for the properties to refer to.
Original(s, m) == [support |-> s, message |-> m]

\* Publications are numbered for each publisher.
PubIds == Threads \X Nat

ASSUME MessagesAssumption ==
  /\ Takers \subseteq Threads
  /\ Subscriber \notin Threads
  /\ Hint \in Nat
  /\ Endowments \subseteq [support : [Threads \cup {Subscriber} -> Supports],
                           calls : [Threads -> Nat]]

\* Encodings are sequences of items, of the size that is the sum of theirs.
ASSUME EncodingAssumption ==
  \A s \in Supports : \A m \in Repertoire(s) :
     LET items == Encode(s, m)
         sum   == Sums(items)
     IN items # Refused =>
          /\ items \in Seq(Items)
          /\ sum \in [0..Len(items) -> Nat]
          /\ sum[0] = 0
          /\ \A n \in 1..Len(items) : sum[n] = sum[n - 1] + items[n].size
          /\ \A n \in 0..Len(items) : sum[n] <= sum[Len(items)]

\* Nothing is none of the things it stands for the absence of.
ASSUME NothingAssumption ==
  \A s \in Supports : \A m \in Repertoire(s) :
     /\ Nothing # Original(s, m)
     /\ Nothing \notin [pub : PubIds \cup {Nothing}, of : {Original(s, m)}]

VARIABLES
  support,    \* the type support of each thread's publisher and of the subscription
  calls,      \* calls[t]: publishing and serialising calls t may still begin
  pc,         \* pc[t]: where t is
  task,       \* task[t]: what the message that t writes is for
  source,     \* source[t]: that message and its type support
  wire,       \* wire[t]: the items it is written as
  pos,        \* pos[t]: how many of them t has written
  stream,     \* stream[t]: t's TxStream
  serialized, \* serialized[t]: t's rmw_serialized_message_t
  lent,       \* lent[t]: the buffer DPS may read: "stream", "serialized" or "none"
  read,       \* read[t]: whether DPS has read it
  count,      \* count[t]: publications of t
  published,  \* all publications, with their messages (history)
  network,    \* payloads on their way to the subscription
  queue,      \* data_ of the subscription's listener
  hand,       \* hand[t]: what takeNextData() gave t
  got         \* got[t]: the ROS message t was given last

writerVars == <<calls, task, source, wire, pos, stream>>
lendVars   == <<lent, read, count, published>>
dpsVars    == <<lendVars, network>>
takerVars  == <<queue, hand, got>>
vars == <<support, writerVars, pc, serialized, dpsVars, takerVars>>

-----------------------------------------------------------------------------
(* Data. *)

Tasks  == {"publish", "serialize"}
Places == {"idle", "writing", "rewriting", "lent", "reading", "copying"}

\* A stream of capacity n: status, bytes counted, bytes used, what is in them.
NewStream(n) == [ret |-> "OK", size |-> 0, capacity |-> n, used |-> 0, items |-> <<>>]

Streams ==
  {s \in [ret : {"OK", "OVERFLOW"}, size : Nat, capacity : Nat, used : Nat,
          items : Seq(Items)] : s.used <= s.capacity}

\* Mutant: the item is written although there is no room for it.
PutUnchecked(s, item) ==
  [s EXCEPT !.size = @ + item.size, !.used = @ + item.size, !.items = Append(@, item)]

\* Mutant: what does not fit is not counted.
PutUncounted(s, item) ==
  IF s.ret # "OK" THEN s
  ELSE IF s.used + item.size > s.capacity THEN [s EXCEPT !.ret = "OVERFLOW"]
  ELSE [s EXCEPT !.size = @ + item.size, !.used = @ + item.size,
                 !.items = Append(@, item)]

\* operator<<: count the item in any case, write it while nothing has failed.
Put(s, item) ==
  IF s.ret # "OK" THEN [s EXCEPT !.size = @ + item.size]
  ELSE IF s.used + item.size > s.capacity
  THEN [s EXCEPT !.size = @ + item.size, !.ret = "OVERFLOW"]
  ELSE [s EXCEPT !.size = @ + item.size, !.used = @ + item.size,
                 !.items = Append(@, item)]

IsOriginal(of) ==
  /\ of = Original(of.support, of.message)
  /\ of.support \in Supports
  /\ of.message \in Repertoire(of.support)
  /\ Encode(of.support, of.message) # Refused

Wire(of) == Encode(of.support, of.message)

\* A payload: the publication it belongs to, its bytes and their number.
Payload(pub, of, items, size) == [pub |-> pub, of |-> of, items |-> items, size |-> size]

\* An rmw_serialized_message_t, with the size of the memory it points to.
NoMessage == [pub |-> Nothing, of |-> Nothing, items |-> <<>>,
              length |-> 0, capacity |-> 0, allocated |-> 0]

\* A publication: its number and what was published.
Publication(pub, of) == [pub |-> pub, of |-> of]

\* The publication that t is making, or made last.
Current(t) == <<t, count[t]>>

\* The buffer DPS was given, as it is now.
Buffer(t) ==
  IF lent[t] = "stream"
  THEN Payload(Current(t), source[t], stream[t].items, stream[t].used)
  ELSE Payload(Current(t), serialized[t].of, serialized[t].items, serialized[t].length)

\* What a thread is given for the items that came with publication pub.
Given(pub, items) == [pub |-> pub, value |-> Decode(support[Subscriber], items)]

-----------------------------------------------------------------------------
Init ==
  /\ \E e \in Endowments : support = e.support /\ calls = e.calls
  /\ pc = [t \in Threads |-> "idle"]
  /\ task = [t \in Threads |-> "publish"]
  /\ source = [t \in Threads |-> Nothing]
  /\ wire = [t \in Threads |-> <<>>]
  /\ pos = [t \in Threads |-> 0]
  /\ stream = [t \in Threads |-> NewStream(0)]
  /\ serialized = [t \in Threads |-> NoMessage]
  /\ lent = [t \in Threads |-> "none"]
  /\ read = [t \in Threads |-> FALSE]
  /\ count = [t \in Threads |-> 0]
  /\ published = {}
  /\ network = {}
  /\ queue = <<>>
  /\ hand = [t \in Threads |-> Nothing]
  /\ got = [t \in Threads |-> Nothing]

-----------------------------------------------------------------------------
(* Serialising: rmw_publish() and rmw_serialize(). *)

\* A call begins with a stream of the usual capacity.
Begin(t, job, m) ==
  /\ pc[t] = "idle" /\ calls[t] > 0
  /\ calls' = [calls EXCEPT ![t] = @ - 1]
  /\ IF Encode(support[t], m) = Refused
     THEN UNCHANGED <<pc, task, source, wire, pos, stream>>   \* an exception
     ELSE /\ pc' = [pc EXCEPT ![t] = "writing"]
          /\ task' = [task EXCEPT ![t] = job]
          /\ source' = [source EXCEPT ![t] = Original(support[t], m)]
          /\ wire' = [wire EXCEPT ![t] = Encode(support[t], m)]
          /\ pos' = [pos EXCEPT ![t] = 0]
          /\ stream' = [stream EXCEPT ![t] = NewStream(Hint)]
  /\ UNCHANGED <<support, serialized, dpsVars, takerVars>>

\* The next item of the message.
WriteItem(t) ==
  /\ pc[t] \in {"writing", "rewriting"} /\ pos[t] < Len(wire[t])
  /\ stream' = [stream EXCEPT ![t] = Put(@, wire[t][pos[t] + 1])]
  /\ pos' = [pos EXCEPT ![t] = @ + 1]
  /\ UNCHANGED <<support, calls, task, source, wire, pc, serialized, dpsVars, takerVars>>

AtEnd(t) ==
  pc[t] \in {"writing", "rewriting"} /\ pos[t] = Len(wire[t])

\* The first pass overflowed: "ser = cbor::TxStream(ser.size_needed())".
Enlarge(t) ==
  /\ AtEnd(t) /\ pc[t] = "writing" /\ stream[t].ret = "OVERFLOW"
  /\ pc' = [pc EXCEPT ![t] = "rewriting"]
  /\ pos' = [pos EXCEPT ![t] = 0]
  /\ stream' = [stream EXCEPT ![t] = NewStream(stream[t].size)]
  /\ UNCHANGED <<support, calls, task, source, wire, serialized, dpsVars, takerVars>>

\* The message is as well written as it will be.
Written(t) == AtEnd(t) /\ (pc[t] = "rewriting" \/ stream[t].ret = "OK")

\* The call returns, and its stream is gone.
Leave(t) ==
  /\ pc' = [pc EXCEPT ![t] = "idle"]
  /\ source' = [source EXCEPT ![t] = Nothing]
  /\ wire' = [wire EXCEPT ![t] = <<>>]
  /\ pos' = [pos EXCEPT ![t] = 0]
  /\ stream' = [stream EXCEPT ![t] = NewStream(0)]

\* std::bad_alloc for the second stream.
OutOfMemory(t) ==
  /\ AtEnd(t) /\ pc[t] = "writing" /\ stream[t].ret = "OVERFLOW"
  /\ Leave(t)
  /\ UNCHANGED <<support, calls, task, serialized, dpsVars, takerVars>>

\* rmw_serialized_message_resize(): memory of the size that is asked for.
Resized(msg, n) == [msg EXCEPT !.capacity = n, !.allocated = n]

\* Mutant: the capacity that is recorded never shrinks and never grows.
StoredUnsized(msg, pub, of, items, n) ==
  [msg EXCEPT !.pub = pub, !.of = of, !.items = items, !.length = n,
              !.capacity = IF @ < n THEN n ELSE @]

\* The message with n bytes copied to it, resized for them if need be.
Stored(msg, pub, of, items, n) ==
  LET room == IF msg.capacity < n THEN Resized(msg, n) ELSE msg
  IN [pub |-> pub, of |-> of, items |-> items,
      length |-> n, capacity |-> room.capacity, allocated |-> room.allocated]

\* rmw_serialize() copies the stream, whatever its status, and then records
\* its length as the capacity.
Serialize(t) ==
  /\ Written(t) /\ task[t] = "serialize"
  /\ serialized' = [serialized EXCEPT ![t] =
       [Stored(@, Nothing, source[t], stream[t].items, stream[t].used)
          EXCEPT !.capacity = stream[t].used]]
  /\ Leave(t)
  /\ UNCHANGED <<support, calls, task, dpsVars, takerVars>>

\* The message cannot be resized.
SerializeFails(t) ==
  /\ Written(t) /\ task[t] = "serialize"
  /\ serialized[t].capacity < stream[t].used
  /\ Leave(t)
  /\ UNCHANGED <<support, calls, task, serialized, dpsVars, takerVars>>

-----------------------------------------------------------------------------
(* Publishing. *)

\* DPS_PublishBufs() takes a buffer; the caller waits for _published().
Lend(t, buffer, of) ==
  /\ lent' = [lent EXCEPT ![t] = buffer]
  /\ read' = [read EXCEPT ![t] = FALSE]
  /\ count' = [count EXCEPT ![t] = @ + 1]
  /\ published' = published \cup {Publication(<<t, count'[t]>>, of)}
  /\ UNCHANGED network

\* Mutant: publish() does not wait.
PublishAndGo(t) ==
  /\ Written(t) /\ task[t] = "publish" /\ stream[t].ret = "OK"
  /\ Lend(t, "stream", source[t])
  /\ Leave(t)
  /\ UNCHANGED <<support, calls, task, serialized, takerVars>>

Publish(t) ==
  /\ Written(t) /\ task[t] = "publish" /\ stream[t].ret = "OK"
  /\ Lend(t, "stream", source[t])
  /\ pc' = [pc EXCEPT ![t] = "lent"]
  /\ UNCHANGED <<support, writerVars, serialized, takerVars>>

\* Serialising failed, there is no event, or DPS refuses.
PublishFails(t) ==
  /\ Written(t) /\ task[t] = "publish"
  /\ Leave(t)
  /\ UNCHANGED <<support, calls, task, serialized, dpsVars, takerVars>>

\* rmw_publish_serialized_message() publishes what the message holds, made
\* here or taken from any publisher.  A refusal changes nothing.
PublishSerialized(t) ==
  /\ pc[t] = "idle" /\ calls[t] > 0 /\ serialized[t].of # Nothing
  /\ calls' = [calls EXCEPT ![t] = @ - 1]
  /\ Lend(t, "serialized", serialized[t].of)
  /\ pc' = [pc EXCEPT ![t] = "lent"]
  /\ UNCHANGED <<support, task, source, wire, pos, stream, serialized, takerVars>>

\* DPS sends what is in the buffer.
Transmit(t) ==
  /\ lent[t] # "none" /\ ~read[t]
  /\ network' = network \cup {Buffer(t)}
  /\ read' = [read EXCEPT ![t] = TRUE]
  /\ UNCHANGED <<support, writerVars, pc, serialized, lent, count, published, takerVars>>

\* Mutant: only a message that was sent is reported.
CompletedIfSent(t) ==
  /\ pc[t] = "lent" /\ read[t]
  /\ lent' = [lent EXCEPT ![t] = "none"]
  /\ read' = [read EXCEPT ![t] = FALSE]
  /\ Leave(t)
  /\ UNCHANGED <<support, calls, task, serialized, count, published, network, takerVars>>

\* _published() signals the event, with the status of a success or of a
\* failure; publish() and its caller return.
Completed(t) ==
  /\ pc[t] = "lent"
  /\ lent' = [lent EXCEPT ![t] = "none"]
  /\ read' = [read EXCEPT ![t] = FALSE]
  /\ Leave(t)
  /\ UNCHANGED <<support, calls, task, serialized, count, published, network, takerVars>>

Lose(p) ==
  /\ p \in network
  /\ network' = network \ {p}
  /\ UNCHANGED <<support, writerVars, pc, serialized, lendVars, takerVars>>

-----------------------------------------------------------------------------
(* Taking. *)

\* Mutant: the newest message is the first to be taken.
OnPublicationFirst(p) ==
  /\ p \in network
  /\ network' = network \ {p}
  /\ queue' = <<p>> \o queue
  /\ UNCHANGED <<support, writerVars, pc, serialized, lendVars, hand, got>>

\* Listener::onPublication() queues a copy of the payload and of its
\* publication.
OnPublication(p) ==
  /\ p \in network
  /\ network' = network \ {p}
  /\ queue' = Append(queue, p)
  /\ UNCHANGED <<support, writerVars, pc, serialized, lendVars, hand, got>>

\* Mutant: the message stays in the queue (front() without pop_front()).
TakePeeking(t, place) ==
  /\ t \in Takers /\ pc[t] = "idle" /\ queue # <<>>
  /\ hand' = [hand EXCEPT ![t] = Head(queue)]
  /\ got' = [got EXCEPT ![t] = Nothing]
  /\ pc' = [pc EXCEPT ![t] = place]
  /\ UNCHANGED <<support, writerVars, serialized, dpsVars, queue>>

\* takeNextData() in rmw_take() ("reading") or in
\* rmw_take_serialized_message() ("copying").
TakeNextData(t, place) ==
  /\ t \in Takers /\ pc[t] = "idle" /\ queue # <<>>
  /\ hand' = [hand EXCEPT ![t] = Head(queue)]
  /\ queue' = Tail(queue)
  /\ got' = [got EXCEPT ![t] = Nothing]
  /\ pc' = [pc EXCEPT ![t] = place]
  /\ UNCHANGED <<support, writerVars, serialized, dpsVars>>

EndTake(t) ==
  /\ hand' = [hand EXCEPT ![t] = Nothing]
  /\ pc' = [pc EXCEPT ![t] = "idle"]

\* rmw_take() fills the caller's message, or the deserialiser throws and the
\* message is gone.
Deserialize(t) ==
  /\ pc[t] = "reading"
  /\ LET given == Given(hand[t].pub, hand[t].items)
     IN got' = [got EXCEPT ![t] = IF given.value = Unreadable THEN Nothing ELSE given]
  /\ EndTake(t)
  /\ UNCHANGED <<support, writerVars, serialized, dpsVars, queue>>

\* rmw_take_serialized_message() copies the payload as it is.
Copy(t) ==
  /\ pc[t] = "copying"
  /\ serialized' = [serialized EXCEPT ![t] =
       Stored(@, hand[t].pub, hand[t].of, hand[t].items, hand[t].size)]
  /\ EndTake(t)
  /\ UNCHANGED <<support, writerVars, dpsVars, queue, got>>

\* The message cannot be resized, and what was taken is gone.
CopyFails(t) ==
  /\ pc[t] = "copying" /\ serialized[t].capacity < hand[t].size
  /\ EndTake(t)
  /\ UNCHANGED <<support, writerVars, serialized, dpsVars, queue, got>>

\* rmw_deserialize() of the thread's serialized message, to the type that the
\* subscription has.
ReadSerialized(t) ==
  /\ pc[t] = "idle" /\ serialized[t].of # Nothing
  /\ LET given == Given(serialized[t].pub, serialized[t].items)
     IN /\ given.value # Unreadable
        /\ got' = [got EXCEPT ![t] = given]
  /\ UNCHANGED <<support, writerVars, pc, serialized, dpsVars, queue, hand>>

-----------------------------------------------------------------------------
Serializing(t) == WriteItem(t) \/ Enlarge(t) \/ OutOfMemory(t) \/ Serialize(t)
                    \/ SerializeFails(t) \/ Publish(t) \/ PublishFails(t)

Taking(t) == Deserialize(t) \/ Copy(t) \/ CopyFails(t)

Next ==
  \/ \E t \in Threads :
        \/ \E job \in Tasks, m \in Repertoire(support[t]) : Begin(t, job, m)
        \/ Serializing(t) \/ PublishSerialized(t) \/ Transmit(t) \/ Completed(t)
        \/ \E place \in {"reading", "copying"} : TakeNextData(t, place)
        \/ Taking(t) \/ ReadSerialized(t)
  \/ \E p \in network : OnPublication(p) \/ Lose(p)

Spec == Init /\ [][Next]_vars

\* What every step of Taking(t) does, which is enabled whenever one of them is.
EndsTaking(t) == pc[t] \in {"reading", "copying"} /\ EndTake(t)

\* A thread that is in a call goes on; DPS calls back for every buffer it has
\* accepted; and those who take go on taking, as rmw_wait() tells them to.
Fairness ==
  /\ \A t \in Threads : WF_vars(Serializing(t)) /\ WF_vars(Completed(t))
  /\ \A t \in Takers :
        /\ WF_vars(\E place \in {"reading", "copying"} : TakeNextData(t, place))
        /\ WF_<<pc, hand>>(EndsTaking(t))

FairSpec == Spec /\ Fairness

-----------------------------------------------------------------------------
(* Types. *)

Total(of) == Sums(Wire(of))[Len(Wire(of))]

\* A payload is the whole encoding of the message it was made from.
IsWhole(of, items, size) == IsOriginal(of) /\ items = Wire(of) /\ size = Total(of)

IsPayload(p) ==
  /\ p = Payload(p.pub, p.of, p.items, p.size)
  /\ Publication(p.pub, p.of) \in published
  /\ IsWhole(p.of, p.items, p.size)

\* A function on the threads, or a sequence, of anything.
OnThreads(f)  == f = [t \in Threads |-> f[t]]
IsSequence(q) == q \in Seq({q[i] : i \in DOMAIN q})

\* Types.  A stream never holds more than its capacity: TxStream writes an item
\* only if it fits.
TypeOK ==
  /\ support \in [Threads \cup {Subscriber} -> Supports]
  /\ calls \in [Threads -> Nat]
  /\ pc \in [Threads -> Places]
  /\ task \in [Threads -> Tasks]
  /\ wire \in [Threads -> Seq(Items)]
  /\ pos \in [Threads -> Nat]
  /\ stream \in [Threads -> Streams]
  /\ lent \in [Threads -> {"none", "stream", "serialized"}]
  /\ read \in [Threads -> BOOLEAN]
  /\ count \in [Threads -> Nat]
  /\ \A t \in Threads :
        serialized[t] \in [pub : PubIds \cup {Nothing}, of : {serialized[t].of},
                          items : {serialized[t].items},
                          length : Nat, capacity : Nat, allocated : Nat]
  /\ OnThreads(source) /\ OnThreads(serialized) /\ OnThreads(hand) /\ OnThreads(got)
  /\ IsSequence(queue)

-----------------------------------------------------------------------------
(* The invariant behind the properties. *)

\* TxStream: a stream has counted every item of what was written, and holds them until
\* one does not fit; a second stream is as large as the first has counted.
StreamCounts ==
  \A t \in Threads :
     pc[t] \in {"writing", "rewriting"} =>
        /\ IsOriginal(source[t]) /\ source[t].support = support[t]
        /\ wire[t] = Wire(source[t])
        /\ pos[t] \in 0..Len(wire[t])
        /\ stream[t].size = Sums(wire[t])[pos[t]]
        /\ stream[t].ret = "OK" =>
              /\ stream[t].used = stream[t].size
              /\ stream[t].items = SubSeq(wire[t], 1, pos[t])
        /\ pc[t] = "rewriting" =>
              /\ stream[t].capacity = Total(source[t])
              /\ stream[t].ret = "OK"

\* A publication, numbered by the sequence number DPS gives it, has one message.
PublicationsAreUnique ==
  /\ \A e \in published :
        /\ e = Publication(e.pub, e.of) /\ e.pub \in PubIds /\ IsOriginal(e.of)
        /\ e.pub[2] <= count[e.pub[1]]
  /\ \A e, f \in published : e.pub = f.pub => e = f

\* What DPS may read stays as it was when it was published, since publish()
\* waits for _published().
BuffersAreStable ==
  \A t \in Threads :
     /\ pc[t] = "lent" <=> lent[t] # "none"
     /\ lent[t] # "none" => IsPayload(Buffer(t))
     /\ lent[t] = "serialized" => serialized[t].of # Nothing
     /\ read[t] => lent[t] # "none"

\* Payloads on their way, queued or taken; one that is on its way is there
\* once, and is not in a buffer that is yet to be read.
PayloadsAreWhole ==
  /\ \A p \in network :
        /\ IsPayload(p)
        /\ \A t \in Threads : lent[t] # "none" /\ ~read[t] => p.pub # Current(t)
  /\ \A i \in DOMAIN queue : IsPayload(queue[i])
  /\ \A t \in Threads : pc[t] \in {"reading", "copying"} => IsPayload(hand[t])

\* What rmw_serialize() or rmw_take_serialized_message() left in a message is
\* whole, is within the capacity the message states, and that is memory it has.
SlotIsSound ==
  \A t \in Threads :
     LET msg == serialized[t]
     IN IF msg.of = Nothing THEN msg = NoMessage
        ELSE /\ IsWhole(msg.of, msg.items, msg.length)
             /\ msg.length <= msg.capacity /\ msg.capacity <= msg.allocated
             /\ msg.pub # Nothing => Publication(msg.pub, msg.of) \in published

\* What rmw_take() or rmw_deserialize() filled in is what was published under
\* that number, read as the subscription's type.
TakenIsPublished ==
  \A t \in Threads :
     got[t] # Nothing =>
       \/ got[t].pub = Nothing
       \/ \E e \in published : got[t] = Given(e.pub, Wire(e.of))

\* All of it, with what rmw_take() has not filled in yet: the inductive
\* invariant of the publish and take paths.
Inv ==
  /\ TypeOK /\ StreamCounts /\ PublicationsAreUnique /\ BuffersAreStable
  /\ PayloadsAreWhole /\ SlotIsSound /\ TakenIsPublished
  /\ \A t \in Threads : pc[t] \in {"reading", "copying"} => got[t] = Nothing

-----------------------------------------------------------------------------
(* What the topic promises: Delivery. *)

\* What a message of type support s is to one who reads it with r.
Transfer(s, r, m) == Decode(r, Encode(s, m))

\* Threads whose buffer DPS has not read yet.
Unsent == {t \in Threads : lent[t] # "none" /\ ~read[t]}

OnTheWay == {Publication(p.pub, p.of) : p \in network}
              \cup {Publication(Buffer(t).pub, Buffer(t).of) : t \in Unsent}

Arrived == [i \in DOMAIN queue |-> Publication(queue[i].pub, queue[i].of)]

Held == [t \in Threads |-> IF pc[t] \in {"reading", "copying"}
                           THEN Publication(hand[t].pub, hand[t].of) ELSE Nothing]

Kept == [t \in Threads |-> IF serialized[t].of = Nothing THEN Nothing
                           ELSE Publication(serialized[t].pub, serialized[t].of)]

D == INSTANCE Delivery WITH
       sent <- OnTheWay, arrived <- Arrived, held <- Held, kept <- Kept

\* Publishing and taking implement Delivery: a stream that is too small, a
\* buffer that is lent and a copy in the listener's queue cannot be told from
\* one message that is sent, arrives and is claimed once.
ImplementsDelivery == D!Spec

-----------------------------------------------------------------------------
(* Liveness, under FairSpec. *)

\* Every rmw_publish(), rmw_serialize() and rmw_take() returns: a message that
\* does not fit is written twice and not for ever, and publish() is woken
\* whether DPS could send or not.
CallsReturn == \A t \in Threads : pc[t] # "idle" ~> pc[t] = "idle"

IsQueued(pub) == \E i \in DOMAIN queue : queue[i].pub = pub

\* A message that onPublication() queued is taken out again by a take, whatever
\* becomes of it then.
EveryMessageIsHandled ==
  \A t \in Threads : \A n \in 1..MaxCount :
     IsQueued(<<t, n>>) ~> ~IsQueued(<<t, n>>)

=============================================================================
