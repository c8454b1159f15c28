--------------------------- MODULE MessagesProofs ---------------------------
(* Proofs about Messages, for any threads, type supports, messages, encodings *)
(* and capacities: the inductive invariant, and that it implements Delivery.  *)
EXTENDS Messages, SequenceTheorems, TLAPS

-----------------------------------------------------------------------------
(* Facts about the data. *)

\* A message that can be written is so as items whose sizes add up.
LEMMA WireFacts ==
  ASSUME NEW of, IsOriginal(of)
  PROVE  LET items == Wire(of)
             sum   == Sums(items)
         IN /\ items \in Seq(Items)
            /\ sum \in [0..Len(items) -> Nat]
            /\ sum[0] = 0
            /\ \A n \in 1..Len(items) : sum[n] = sum[n - 1] + items[n].size
            /\ \A n \in 0..Len(items) : sum[n] <= sum[Len(items)]
            /\ Total(of) \in Nat
  <1>1. of.support \in Supports /\ of.message \in Repertoire(of.support)
        /\ Wire(of) # Refused
    BY DEF IsOriginal, Wire
  <1>2. /\ Wire(of) \in Seq(Items)
        /\ Sums(Wire(of)) \in [0..Len(Wire(of)) -> Nat]
        /\ Sums(Wire(of))[0] = 0
        /\ \A n \in 1..Len(Wire(of)) : Sums(Wire(of))[n] = Sums(Wire(of))[n - 1] + Wire(of)[n].size
        /\ \A n \in 0..Len(Wire(of)) : Sums(Wire(of))[n] <= Sums(Wire(of))[Len(Wire(of))]
    BY <1>1, EncodingAssumption DEF EncodingAssumption, Wire
  <1>3. Len(Wire(of)) \in 0..Len(Wire(of))
    BY <1>2
  <1>. QED
    BY <1>2, <1>3 DEF Total

\* A message that a type support accepts is an original.
LEMMA BeginsOriginal ==
  ASSUME NEW s \in Supports, NEW m \in Repertoire(s), Encode(s, m) # Refused
  PROVE  /\ IsOriginal(Original(s, m)) /\ Original(s, m).support = s
         /\ Wire(Original(s, m)) = Encode(s, m)
  BY DEF IsOriginal, Original, Wire

\* Nothing is neither an original nor a publication.
LEMMA NotNothing ==
  ASSUME NEW of, IsOriginal(of), NEW pub \in PubIds \cup {Nothing}
  PROVE  of # Nothing /\ Publication(pub, of) # Nothing
  <1>1. of = Original(of.support, of.message)
    BY DEF IsOriginal
  <1>2. of.support \in Supports /\ of.message \in Repertoire(of.support)
    BY DEF IsOriginal
  <1>3. /\ Nothing # Original(of.support, of.message)
        /\ Nothing \notin [pub : PubIds \cup {Nothing},
                           of : {Original(of.support, of.message)}]
    BY <1>2, NothingAssumption DEF NothingAssumption
  <1>4. Publication(pub, of) \in [pub : PubIds \cup {Nothing},
                                  of : {Original(of.support, of.message)}]
    BY <1>1 DEF Publication
  <1>. QED
    BY <1>1, <1>3, <1>4

\* A sequence is one of its own elements.
LEMMA OwnElements ==
  ASSUME NEW S, NEW q \in Seq(S)
  PROVE  IsSequence(q)
  <1>1. Len(q) \in Nat /\ DOMAIN q = 1..Len(q) /\ q = [i \in 1..Len(q) |-> q[i]]
    OBVIOUS
  <1>2. q \in [1..Len(q) -> {q[i] : i \in DOMAIN q}]
    BY <1>1
  <1>. QED
    BY <1>1, <1>2, SeqDef DEF IsSequence

\* Queueing and taking keep the elements.
LEMMA QueueFacts ==
  ASSUME NEW S, NEW q \in Seq(S), NEW e
  PROVE  /\ Append(q, e) \in Seq(S \cup {e})
         /\ \A i \in DOMAIN Append(q, e) : \/ i \in DOMAIN q /\ Append(q, e)[i] = q[i]
                                           \/ Append(q, e)[i] = e
         /\ q # <<>> => /\ Tail(q) \in Seq(S) /\ Head(q) = q[1] /\ 1 \in DOMAIN q
                        /\ \A i \in DOMAIN Tail(q) : i + 1 \in DOMAIN q /\ Tail(q)[i] = q[i + 1]
  <1>1. q \in Seq(S \cup {e})
    BY SMT
  <1>2. Append(q, e) \in Seq(S \cup {e})
    BY <1>1
  <1>. QED
    BY <1>2

\* A function with another value at one place.
LEMMA Updated ==
  ASSUME NEW S, NEW T, NEW f \in [S -> T], NEW x \in S, NEW v \in T
  PROVE  [f EXCEPT ![x] = v] \in [S -> T]
  OBVIOUS

LEMMA UpdatedFunction ==
  ASSUME NEW f, OnThreads(f), NEW t \in Threads, NEW v
  PROVE  OnThreads([f EXCEPT ![t] = v])
  BY DEF OnThreads

\* Writing an item keeps a stream within its capacity.
LEMMA PutFacts ==
  ASSUME NEW s \in Streams, NEW item \in Items
  PROVE  /\ Put(s, item) \in Streams
         /\ Put(s, item).size = s.size + item.size
         /\ Put(s, item).capacity = s.capacity
         /\ Put(s, item).ret = "OK" =>
              /\ s.ret = "OK" /\ Put(s, item).used = s.used + item.size
              /\ Put(s, item).items = Append(s.items, item)
         /\ s.ret = "OK" /\ s.used + item.size <= s.capacity => Put(s, item).ret = "OK"
  <1>1. /\ s.ret \in {"OK", "OVERFLOW"} /\ s.size \in Nat /\ s.capacity \in Nat
        /\ s.used \in Nat /\ s.items \in Seq(Items) /\ s.used <= s.capacity
        /\ s = [ret |-> s.ret, size |-> s.size, capacity |-> s.capacity,
                used |-> s.used, items |-> s.items]
    BY DEF Streams
  <1>2. item.size \in Nat
    BY DEF Items
  <1>3. Append(s.items, item) \in Seq(Items)
    BY <1>1
  <1>4. CASE s.ret # "OK"
    <2>1. Put(s, item) = [ret |-> s.ret, size |-> s.size + item.size, capacity |-> s.capacity,
                          used |-> s.used, items |-> s.items]
      BY <1>1, <1>4 DEF Put
    <2>. QED
      BY <1>1, <1>2, <1>4, <2>1 DEF Streams
  <1>5. CASE s.ret = "OK" /\ s.used + item.size > s.capacity
    <2>1. Put(s, item) = [ret |-> "OVERFLOW", size |-> s.size + item.size,
                          capacity |-> s.capacity, used |-> s.used, items |-> s.items]
      BY <1>1, <1>5 DEF Put
    <2>. QED
      BY <1>1, <1>2, <1>5, <2>1 DEF Streams
  <1>6. CASE s.ret = "OK" /\ ~(s.used + item.size > s.capacity)
    <2>1. Put(s, item) = [ret |-> "OK", size |-> s.size + item.size, capacity |-> s.capacity,
                          used |-> s.used + item.size, items |-> Append(s.items, item)]
      BY <1>1, <1>6 DEF Put
    <2>. QED
      BY <1>1, <1>2, <1>3, <1>6, <2>1 DEF Streams
  <1>. QED
    BY <1>4, <1>5, <1>6

\* A new stream is empty.
LEMMA NewStreamFacts ==
  ASSUME NEW n \in Nat
  PROVE  /\ NewStream(n) \in Streams /\ NewStream(n).ret = "OK" /\ NewStream(n).size = 0
         /\ NewStream(n).used = 0 /\ NewStream(n).items = <<>> /\ NewStream(n).capacity = n
  BY DEF NewStream, Streams

\* Storing a message finds or makes the memory for it.
LEMMA StoredFacts ==
  ASSUME NEW msg, NEW pub \in PubIds \cup {Nothing}, NEW of, NEW items, NEW n \in Nat,
         msg \in [pub : PubIds \cup {Nothing}, of : {msg.of}, items : {msg.items},
                  length : Nat, capacity : Nat, allocated : Nat],
         msg.capacity <= msg.allocated
  PROVE  LET new == Stored(msg, pub, of, items, n)
         IN /\ new \in [pub : PubIds \cup {Nothing}, of : {of}, items : {items},
                        length : Nat, capacity : Nat, allocated : Nat]
            /\ new.pub = pub /\ new.of = of /\ new.items = items /\ new.length = n
            /\ n <= new.capacity /\ new.capacity <= new.allocated
  <1>1. msg = [pub |-> msg.pub, of |-> msg.of, items |-> msg.items, length |-> msg.length,
               capacity |-> msg.capacity, allocated |-> msg.allocated]
        /\ msg.capacity \in Nat /\ msg.allocated \in Nat
    OBVIOUS
  <1>2. CASE msg.capacity < n
    <2>1. Stored(msg, pub, of, items, n)
            = [pub |-> pub, of |-> of, items |-> items, length |-> n,
               capacity |-> n, allocated |-> n]
      BY <1>1, <1>2 DEF Stored, Resized
    <2>. QED
      BY <2>1
  <1>3. CASE ~(msg.capacity < n)
    <2>1. Stored(msg, pub, of, items, n)
            = [pub |-> pub, of |-> of, items |-> items, length |-> n,
               capacity |-> msg.capacity, allocated |-> msg.allocated]
      BY <1>1, <1>3 DEF Stored, Resized
    <2>. QED
      BY <1>1, <1>3, <2>1
  <1>. QED
    BY <1>2, <1>3

-----------------------------------------------------------------------------
(* What a step does to the parts of the invariant. *)

\* Types of the variables that are functions on threads.
LEMMA TypeFacts ==
  ASSUME TypeOK, NEW t \in Threads
  PROVE  /\ support[t] \in Supports /\ support[Subscriber] \in Supports
         /\ pc[t] \in Places /\ wire[t] \in Seq(Items) /\ pos[t] \in Nat
         /\ stream[t] \in Streams /\ stream[t].size \in Nat /\ stream[t].used \in Nat
         /\ count[t] \in Nat /\ Current(t) \in PubIds
  BY DEF TypeOK, OnThreads, Streams, Current, PubIds

\* The steps of a thread that is writing, and those that leave the stream alone.
LEMMA StreamsStep == Inv /\ [Next]_vars => StreamCounts'
  <1> SUFFICES ASSUME Inv, [Next]_vars PROVE StreamCounts'
    OBVIOUS
  <1> USE DEF Inv
  <1> DEFINE Counts(u) ==
        pc[u] \in {"writing", "rewriting"} =>
          /\ IsOriginal(source[u]) /\ source[u].support = support[u]
          /\ wire[u] = Wire(source[u])
          /\ pos[u] \in 0..Len(wire[u])
          /\ stream[u].size = Sums(wire[u])[pos[u]]
          /\ stream[u].ret = "OK" =>
                /\ stream[u].used = stream[u].size
                /\ stream[u].items = SubSeq(wire[u], 1, pos[u])
          /\ pc[u] = "rewriting" =>
                /\ stream[u].capacity = Total(source[u])
                /\ stream[u].ret = "OK"
  <1>1. (\A u \in Threads : Counts(u)) <=> StreamCounts
    BY DEF StreamCounts
  <1>2. (\A u \in Threads : Counts(u)') <=> StreamCounts'
    BY DEF StreamCounts
  <1> SUFFICES ASSUME NEW u \in Threads PROVE Counts(u)'
    BY <1>2
  <1>3. Counts(u)
    BY <1>1
  <1> HIDE DEF Counts
  \* A thread whose stream and place do not change, or that stops writing.
  <1>4. ASSUME \/ /\ pc'[u] = pc[u] /\ source'[u] = source[u] /\ support'[u] = support[u]
                  /\ wire'[u] = wire[u] /\ pos'[u] = pos[u] /\ stream'[u] = stream[u]
               \/ pc'[u] \notin {"writing", "rewriting"}
        PROVE  Counts(u)'
    BY <1>3, <1>4 DEF Counts
  <1>5. ASSUME NEW t \in Threads, NEW job \in Tasks, NEW m \in Repertoire(support[t]),
               Begin(t, job, m)
        PROVE  Counts(u)'
    <2>1. CASE u = t /\ Encode(support[t], m) # Refused
      <3>1. /\ pc'[t] = "writing" /\ source'[t] = Original(support[t], m)
            /\ wire'[t] = Encode(support[t], m) /\ pos'[t] = 0 /\ stream'[t] = NewStream(Hint)
            /\ support' = support
        BY <1>5, <2>1 DEF Begin, TypeOK, OnThreads
      <3>2. /\ IsOriginal(source'[t]) /\ source'[t].support = support'[t]
            /\ wire'[t] = Wire(source'[t])
        BY <2>1, <3>1, BeginsOriginal DEF TypeOK, OnThreads
      <3>3. Sums(wire'[t])[0] = 0 /\ 0 \in 0..Len(wire'[t]) /\ SubSeq(wire'[t], 1, 0) = <<>>
        <4> DEFINE of == source'[t]
        <4>1. IsOriginal(of) /\ wire'[t] = Wire(of)
          BY <3>2
        <4> HIDE DEF of
        <4>2. /\ Wire(of) \in Seq(Items) /\ Sums(Wire(of))[0] = 0
              /\ SubSeq(Wire(of), 1, 0) = <<>>
          BY <4>1, WireFacts
        <4>. QED
          BY <4>1, <4>2
      <3>4. /\ stream'[t].ret = "OK" /\ stream'[t].size = 0 /\ stream'[t].used = 0
            /\ stream'[t].items = <<>>
        BY <3>1, NewStreamFacts, MessagesAssumption DEF MessagesAssumption
      <3>. QED
        BY <2>1, <3>1, <3>2, <3>3, <3>4 DEF Counts
    <2>2. CASE ~(u = t /\ Encode(support[t], m) # Refused)
      BY <1>4, <1>5, <2>2 DEF Begin, TypeOK, OnThreads
    <2>. QED
      BY <2>1, <2>2
  <1>6. ASSUME NEW t \in Threads, WriteItem(t)
        PROVE  Counts(u)'
    <2>1. CASE u = t
      <3> DEFINE item == wire[t][pos[t] + 1]
      <3>1. /\ stream'[t] = Put(stream[t], item) /\ pos'[t] = pos[t] + 1
            /\ pc' = pc /\ source' = source /\ support' = support /\ wire' = wire
            /\ pc[t] \in {"writing", "rewriting"} /\ pos[t] < Len(wire[t])
        BY <1>6 DEF WriteItem, TypeOK, OnThreads
      <3>2. /\ IsOriginal(source[t]) /\ source[t].support = support[t]
            /\ wire[t] = Wire(source[t]) /\ pos[t] \in 0..Len(wire[t])
            /\ stream[t].size = Sums(wire[t])[pos[t]]
            /\ stream[t].ret = "OK" =>
                  stream[t].used = stream[t].size /\ stream[t].items = SubSeq(wire[t], 1, pos[t])
            /\ pc[t] = "rewriting" =>
                  stream[t].capacity = Total(source[t]) /\ stream[t].ret = "OK"
        BY <1>3, <2>1, <3>1 DEF Counts
      <3>3. wire[t] \in Seq(Items) /\ pos[t] \in Nat /\ stream[t] \in Streams
        BY DEF TypeOK, OnThreads
      <3>4. pos[t] + 1 \in 1..Len(wire[t]) /\ item \in Items
        BY <3>1, <3>3
      <3>5. /\ Sums(wire[t])[pos[t] + 1] = Sums(wire[t])[pos[t]] + item.size
            /\ Sums(wire[t])[pos[t] + 1] <= Sums(wire[t])[Len(wire[t])]
        <4>1. /\ \A n \in 1..Len(wire[t]) :
                    Sums(wire[t])[n] = Sums(wire[t])[n - 1] + wire[t][n].size
              /\ \A n \in 0..Len(wire[t]) : Sums(wire[t])[n] <= Sums(wire[t])[Len(wire[t])]
          <5> DEFINE of == source[t]
          <5>1. IsOriginal(of) /\ wire[t] = Wire(of)
            BY <3>2
          <5> HIDE DEF of
          <5>2. /\ \A n \in 1..Len(Wire(of)) :
                      Sums(Wire(of))[n] = Sums(Wire(of))[n - 1] + Wire(of)[n].size
                /\ \A n \in 0..Len(Wire(of)) : Sums(Wire(of))[n] <= Sums(Wire(of))[Len(Wire(of))]
            BY <5>1, WireFacts
          <5>. QED
            BY <5>1, <5>2, Zenon
        <4>2. (pos[t] + 1) - 1 = pos[t] /\ pos[t] + 1 \in 0..Len(wire[t])
          BY <3>3, <3>4
        <4>. QED
          BY <3>4, <4>1, <4>2
      <3>6. SubSeq(wire[t], 1, pos[t] + 1) = Append(SubSeq(wire[t], 1, pos[t]), item)
        BY <3>3, <3>4
      <3> HIDE DEF item
      <3>7. /\ stream'[t].size = stream[t].size + item.size
            /\ stream'[t].capacity = stream[t].capacity
            /\ stream'[t].ret = "OK" =>
                 /\ stream[t].ret = "OK" /\ stream'[t].used = stream[t].used + item.size
                 /\ stream'[t].items = Append(stream[t].items, item)
            /\ stream[t].ret = "OK" /\ stream[t].used + item.size <= stream[t].capacity
                 => stream'[t].ret = "OK"
        <4> DEFINE old == stream[t]
                   new == Put(old, item)
        <4>1. /\ new.size = old.size + item.size /\ new.capacity = old.capacity
              /\ new.ret = "OK" => /\ old.ret = "OK" /\ new.used = old.used + item.size
                                   /\ new.items = Append(old.items, item)
              /\ old.ret = "OK" /\ old.used + item.size <= old.capacity => new.ret = "OK"
          <5>1. old \in Streams /\ item \in Items
            BY <3>3, <3>4
          <5> HIDE DEF old
          <5>. QED
            BY <5>1, PutFacts
        <4>2. stream'[t] = new
          BY <3>1
        <4> HIDE DEF new
        <4>. QED
          BY <4>1, <4>2
      <3>8. pc[t] = "rewriting" => stream'[t].ret = "OK"
        BY <3>2, <3>5, <3>7 DEF Total
      <3>9. pos[t] + 1 \in 0..Len(wire[t])
        BY <3>4
      <3>. QED
        BY <2>1, <3>1, <3>2, <3>5, <3>6, <3>7, <3>8, <3>9 DEF Counts
    <2>2. CASE u # t
      BY <1>4, <1>6, <2>2 DEF WriteItem, TypeOK, OnThreads
    <2>. QED
      BY <2>1, <2>2
  <1>7. ASSUME NEW t \in Threads, Enlarge(t)
        PROVE  Counts(u)'
    <2>1. CASE u = t
      <3>1. /\ pc'[t] = "rewriting" /\ pos'[t] = 0 /\ stream'[t] = NewStream(stream[t].size)
            /\ source' = source /\ support' = support /\ wire' = wire
            /\ pc[t] = "writing" /\ pos[t] = Len(wire[t])
        BY <1>7 DEF Enlarge, AtEnd, TypeOK, OnThreads
      <3>2. /\ IsOriginal(source[t]) /\ source[t].support = support[t]
            /\ wire[t] = Wire(source[t]) /\ stream[t].size = Total(source[t])
        BY <1>3, <2>1, <3>1 DEF Counts, Total
      <3>3. /\ Sums(wire[t])[0] = 0 /\ 0 \in 0..Len(wire[t]) /\ SubSeq(wire[t], 1, 0) = <<>>
            /\ Total(source[t]) \in Nat
        BY <3>2, WireFacts
      <3>4. /\ stream'[t].ret = "OK" /\ stream'[t].size = 0 /\ stream'[t].used = 0
            /\ stream'[t].items = <<>> /\ stream'[t].capacity = Total(source[t])
        BY <3>1, <3>2, <3>3, NewStreamFacts
      <3>. QED
        BY <2>1, <3>1, <3>2, <3>3, <3>4 DEF Counts, Total
    <2>2. CASE u # t
      BY <1>4, <1>7, <2>2 DEF Enlarge, TypeOK, OnThreads
    <2>. QED
      BY <2>1, <2>2
  \* A call ends and its stream is gone; or the thread is lent its stream.
  <1>8. ASSUME NEW t \in Threads,
               \/ OutOfMemory(t) \/ Serialize(t) \/ SerializeFails(t) \/ PublishFails(t)
               \/ Completed(t)
        PROVE  Counts(u)'
    BY <1>4, <1>8 DEF OutOfMemory, Serialize, SerializeFails, PublishFails, Completed, Leave, TypeOK, OnThreads
  <1>9. ASSUME NEW t \in Threads, Publish(t) \/ PublishSerialized(t)
        PROVE  Counts(u)'
    BY <1>4, <1>9 DEF Publish, PublishSerialized, writerVars, TypeOK, OnThreads
  <1>10. ASSUME NEW t \in Threads,
                \/ Transmit(t) \/ Deserialize(t) \/ Copy(t) \/ CopyFails(t) \/ ReadSerialized(t)
                \/ \E place \in {"reading", "copying"} : TakeNextData(t, place)
         PROVE  Counts(u)'
    BY <1>4, <1>10 DEF Transmit, Deserialize, Copy, CopyFails, ReadSerialized, TakeNextData,
                       EndTake, writerVars, TypeOK, OnThreads
  <1>11. ASSUME NEW p \in network, OnPublication(p) \/ Lose(p)
         PROVE  Counts(u)'
    BY <1>4, <1>11 DEF OnPublication, Lose, writerVars
  <1>12. CASE UNCHANGED vars
    BY <1>4, <1>12 DEF vars, writerVars
  <1>. QED
    BY <1>5, <1>6, <1>7, <1>8, <1>9, <1>10, <1>11, <1>12 DEF Next, Serializing, Taking

\* A message that is written is whole in its stream.
LEMMA WrittenFacts ==
  ASSUME Inv, NEW t \in Threads, Written(t)
  PROVE  /\ IsWhole(source[t], stream[t].items, stream[t].used)
         /\ stream[t].used \in Nat /\ stream[t].ret = "OK"
         /\ source[t].support = support[t] /\ pc[t] \in {"writing", "rewriting"}
  <1>1. pc[t] \in {"writing", "rewriting"} /\ pos[t] = Len(wire[t]) /\ wire[t] \in Seq(Items)
    BY DEF Written, AtEnd, Inv, TypeOK, OnThreads
  <1>2. /\ IsOriginal(source[t]) /\ source[t].support = support[t] /\ wire[t] = Wire(source[t])
        /\ stream[t].size = Sums(wire[t])[pos[t]]
        /\ stream[t].ret = "OK" => stream[t].used = stream[t].size
                                   /\ stream[t].items = SubSeq(wire[t], 1, pos[t])
        /\ pc[t] = "rewriting" => stream[t].ret = "OK"
    BY <1>1 DEF Inv, StreamCounts
  <1>3. stream[t].ret = "OK"
    BY <1>1, <1>2 DEF Written
  <1>4. SubSeq(wire[t], 1, Len(wire[t])) = wire[t]
    BY <1>1
  <1>5. stream[t].used \in Nat
    BY TypeFacts DEF Inv
  <1>. QED
    BY <1>1, <1>2, <1>3, <1>4, <1>5 DEF IsWhole, Total

\* What a thread keeps has its types, and if it is anything, it is whole.
LEMMA KeptFacts ==
  ASSUME Inv, NEW t \in Threads
  PROVE  /\ serialized[t] \in [pub : PubIds \cup {Nothing}, of : {serialized[t].of},
                               items : {serialized[t].items},
                               length : Nat, capacity : Nat, allocated : Nat]
         /\ serialized[t].capacity <= serialized[t].allocated
         /\ serialized[t].of # Nothing =>
              /\ IsWhole(serialized[t].of, serialized[t].items, serialized[t].length)
              /\ serialized[t].pub # Nothing =>
                   Publication(serialized[t].pub, serialized[t].of) \in published
  BY DEF Inv, TypeOK, OnThreads, SlotIsSound, NoMessage

\* A payload is a publication, whose number is one.
LEMMA PayloadFacts ==
  ASSUME Inv, NEW p, IsPayload(p)
  PROVE  /\ p.pub \in PubIds /\ IsOriginal(p.of) /\ p.size \in Nat
         /\ p.items = Wire(p.of) /\ p.size = Total(p.of)
         /\ Publication(p.pub, p.of) \in published
         /\ p = Payload(p.pub, p.of, p.items, p.size)
         /\ p.pub = <<p.pub[1], p.pub[2]>> /\ p.pub[1] \in Threads
         /\ p.pub[2] \in Nat /\ p.pub[2] <= count[p.pub[1]]
  <1>1. /\ p = Payload(p.pub, p.of, p.items, p.size)
        /\ Publication(p.pub, p.of) \in published
        /\ IsOriginal(p.of) /\ p.items = Wire(p.of) /\ p.size = Total(p.of)
    BY DEF IsPayload, IsWhole
  <1>2. p.size \in Nat
    BY <1>1, WireFacts
  <1>3. p.pub \in PubIds /\ p.pub[2] <= count[p.pub[1]]
    BY <1>1 DEF Inv, PublicationsAreUnique, Publication
  <1>. QED
    BY <1>1, <1>2, <1>3 DEF PubIds

\* A new publication has a number of its own.
LEMMA LendFacts ==
  ASSUME Inv, NEW t \in Threads, NEW buffer, NEW of, IsOriginal(of), Lend(t, buffer, of)
  PROVE  LET pub == <<t, count[t] + 1>>
         IN /\ PublicationsAreUnique'
            /\ pub \in PubIds /\ Current(t)' = pub
            /\ count' \in [Threads -> Nat]
            /\ \A u \in Threads : u # t => Current(u)' = Current(u)
            /\ published' = published \cup {Publication(pub, of)}
            /\ \A e \in published : e.pub # pub
  <1> DEFINE pub == <<t, count[t] + 1>>
  <1>1. count[t] \in Nat /\ count' = [count EXCEPT ![t] = @ + 1] /\ count \in [Threads -> Nat]
    BY DEF Lend, Inv, TypeOK, OnThreads
  <1>2. /\ pub \in PubIds /\ count'[t] = count[t] + 1 /\ count' \in [Threads -> Nat]
        /\ \A u \in Threads : u # t => count'[u] = count[u]
    BY <1>1 DEF PubIds
  <1>3. published' = published \cup {Publication(pub, of)}
    BY <1>2 DEF Lend
  <1>4. /\ \A e \in published : /\ e = Publication(e.pub, e.of) /\ e.pub \in PubIds
                                /\ IsOriginal(e.of) /\ e.pub[2] <= count[e.pub[1]]
        /\ \A e, f \in published : e.pub = f.pub => e = f
    BY DEF Inv, PublicationsAreUnique
  <1>5. \A e \in published : e.pub # pub
    BY <1>1, <1>4
  <1>6. ASSUME NEW e \in published
        PROVE  e.pub[2] <= count'[e.pub[1]]
    <2>1. e.pub[1] \in Threads /\ e.pub[2] \in Nat /\ e.pub[2] <= count[e.pub[1]]
      BY <1>4 DEF PubIds
    <2>2. count[e.pub[1]] \in Nat /\ count[e.pub[1]] <= count'[e.pub[1]]
          /\ count'[e.pub[1]] \in Nat
      BY <1>1, <1>2, <2>1
    <2>. QED
      BY <2>1, <2>2
  <1>7. Publication(pub, of).pub = pub /\ Publication(pub, of).of = of
        /\ pub[2] <= count'[pub[1]]
    BY <1>1, <1>2 DEF Publication
  <1>8. \A e \in published' : /\ e = Publication(e.pub, e.of) /\ e.pub \in PubIds
                              /\ IsOriginal(e.of) /\ e.pub[2] <= count'[e.pub[1]]
    BY <1>2, <1>3, <1>4, <1>6, <1>7
  <1>9. \A e, f \in published' : e.pub = f.pub => e = f
    BY <1>3, <1>4, <1>5, <1>7
  <1>. QED
    BY <1>2, <1>3, <1>5, <1>8, <1>9 DEF PublicationsAreUnique, Current

\* Publishing lends a whole message, under a new number.
LEMMA PublishingFacts ==
  ASSUME Inv, NEW t \in Threads, Publish(t) \/ PublishSerialized(t)
  PROVE  \E of, buffer :
           /\ IsOriginal(of) /\ Lend(t, buffer, of)
           /\ buffer \in {"stream", "serialized"} /\ lent'[t] = buffer /\ read'[t] = FALSE
           /\ buffer = "serialized" => serialized[t].of # Nothing
           /\ Buffer(t)' = Payload(<<t, count[t] + 1>>, of, Wire(of), Total(of))
           /\ IsPayload(Buffer(t))' /\ pc[t] # "lent" /\ pc' = [pc EXCEPT ![t] = "lent"]
           /\ \/ of = source[t] /\ of.support = support[t]
              \/ of = serialized[t].of /\ serialized[t].of # Nothing
           /\ UNCHANGED <<support, source, stream, serialized, queue, hand, got, network>>
  <1> DEFINE Goal(of, buffer) ==
           /\ IsOriginal(of) /\ Lend(t, buffer, of)
           /\ buffer \in {"stream", "serialized"} /\ lent'[t] = buffer /\ read'[t] = FALSE
           /\ buffer = "serialized" => serialized[t].of # Nothing
           /\ Buffer(t)' = Payload(<<t, count[t] + 1>>, of, Wire(of), Total(of))
           /\ IsPayload(Buffer(t))' /\ pc[t] # "lent" /\ pc' = [pc EXCEPT ![t] = "lent"]
           /\ \/ of = source[t] /\ of.support = support[t]
              \/ of = serialized[t].of /\ serialized[t].of # Nothing
           /\ UNCHANGED <<support, source, stream, serialized, queue, hand, got, network>>
  <1>1. ASSUME NEW of, NEW buffer, IsOriginal(of), Lend(t, buffer, of),
               Buffer(t)' = Payload(Current(t)', of, Wire(of), Total(of))
        PROVE  /\ Buffer(t)' = Payload(<<t, count[t] + 1>>, of, Wire(of), Total(of))
               /\ IsPayload(Buffer(t))'
    <2>1. Current(t)' = <<t, count[t] + 1>>
          /\ Publication(<<t, count[t] + 1>>, of) \in published'
      BY <1>1, LendFacts
    <2> DEFINE p == Buffer(t)'
    <2>2. p = Payload(<<t, count[t] + 1>>, of, Wire(of), Total(of))
      BY <1>1, <2>1
    <2>3. p.pub = <<t, count[t] + 1>> /\ p.of = of /\ p.items = Wire(of) /\ p.size = Total(of)
      BY <2>2 DEF Payload
    <2>. QED
      BY <1>1, <2>1, <2>2, <2>3 DEF IsPayload, IsWhole
  <1>2. CASE Publish(t)
    <2>1. Written(t) /\ Lend(t, "stream", source[t]) /\ pc' = [pc EXCEPT ![t] = "lent"]
          /\ UNCHANGED <<support, source, stream, serialized, queue, hand, got, network>>
      BY <1>2 DEF Publish, Lend, writerVars, takerVars
    <2>2. /\ IsWhole(source[t], stream[t].items, stream[t].used)
          /\ source[t].support = support[t] /\ pc[t] # "lent"
      BY <2>1, WrittenFacts
    <2>3. lent'[t] = "stream" /\ read'[t] = FALSE
      BY <2>1 DEF Lend, Inv, TypeOK, OnThreads
    <2>4. Buffer(t)' = Payload(Current(t)', source[t], Wire(source[t]), Total(source[t]))
      BY <2>1, <2>2, <2>3 DEF Buffer, IsWhole
    <2>5. IsOriginal(source[t])
      BY <2>2 DEF IsWhole
    <2>6. Goal(source[t], "stream")
      BY <1>1, <2>1, <2>2, <2>3, <2>4, <2>5
    <2>. QED
      BY <2>6
  <1>3. CASE PublishSerialized(t)
    <2>1. /\ pc[t] = "idle" /\ serialized[t].of # Nothing /\ Lend(t, "serialized", serialized[t].of)
          /\ pc' = [pc EXCEPT ![t] = "lent"]
          /\ UNCHANGED <<support, source, stream, serialized, queue, hand, got, network>>
      BY <1>3 DEF PublishSerialized, Lend, takerVars
    <2>2. IsWhole(serialized[t].of, serialized[t].items, serialized[t].length)
      BY <2>1, KeptFacts
    <2>3. lent'[t] = "serialized" /\ read'[t] = FALSE
      BY <2>1 DEF Lend, Inv, TypeOK, OnThreads
    <2>4. Buffer(t)' = Payload(Current(t)', serialized[t].of, Wire(serialized[t].of),
                               Total(serialized[t].of))
      BY <2>1, <2>2, <2>3 DEF Buffer, IsWhole
    <2>5. IsOriginal(serialized[t].of)
      BY <2>2 DEF IsWhole
    <2>6. Goal(serialized[t].of, "serialized")
      BY <1>1, <2>1, <2>2, <2>3, <2>4, <2>5
    <2>. QED
      BY <2>6
  <1>. QED
    BY <1>2, <1>3

\* Every step that is not one of publishing leaves the publications alone, and
\* none forgets one.
LEMMA PublicationsStep ==
  ASSUME Inv, [Next]_vars
  PROVE  PublicationsAreUnique' /\ published \subseteq published' /\ support' = support
  <1>1. ASSUME NEW t \in Threads, Publish(t) \/ PublishSerialized(t)
        PROVE  PublicationsAreUnique' /\ published \subseteq published' /\ support' = support
    <2>1. PICK of, buffer : IsOriginal(of) /\ Lend(t, buffer, of) /\ support' = support
      BY <1>1, PublishingFacts
    <2>2. PublicationsAreUnique'
          /\ published' = published \cup {Publication(<<t, count[t] + 1>>, of)}
      BY <2>1, LendFacts
    <2>. QED
      BY <2>1, <2>2
  <1>2. ASSUME UNCHANGED <<count, published, support>>
        PROVE  PublicationsAreUnique' /\ published \subseteq published' /\ support' = support
    BY <1>2 DEF Inv, PublicationsAreUnique
  <1>3. ASSUME NEW t \in Threads, Serializing(t), ~Publish(t)
        PROVE  UNCHANGED <<count, published, support>>
    BY <1>3 DEF Serializing, WriteItem, Enlarge, OutOfMemory, Serialize, SerializeFails,
                PublishFails, dpsVars, lendVars
  <1>4. ASSUME NEW t \in Threads,
               \/ \E job \in Tasks, m \in Repertoire(support[t]) : Begin(t, job, m)
               \/ Transmit(t) \/ Completed(t) \/ Taking(t) \/ ReadSerialized(t)
               \/ \E place \in {"reading", "copying"} : TakeNextData(t, place)
        PROVE  UNCHANGED <<count, published, support>>
    BY <1>4 DEF Begin, Transmit, Completed, Taking, Deserialize, Copy, CopyFails, ReadSerialized,
                TakeNextData, dpsVars, lendVars
  <1>5. ASSUME NEW p \in network, OnPublication(p) \/ Lose(p)
        PROVE  UNCHANGED <<count, published, support>>
    BY <1>5 DEF OnPublication, Lose, lendVars
  <1>6. CASE UNCHANGED vars
    BY <1>2, <1>6 DEF vars, dpsVars, lendVars
  <1>. QED
    BY <1>1, <1>2, <1>3, <1>4, <1>5, <1>6 DEF Next

\* A payload stays one.
LEMMA PayloadStays ==
  ASSUME Inv, [Next]_vars, NEW p, IsPayload(p)
  PROVE  IsPayload(p)'
  BY PublicationsStep DEF IsPayload

\* A buffer that is lent is not touched until it is given back.
LEMMA BuffersStep == Inv /\ [Next]_vars => BuffersAreStable'
  <1> SUFFICES ASSUME Inv, [Next]_vars, NEW u \in Threads
               PROVE  /\ pc'[u] = "lent" <=> lent'[u] # "none"
                      /\ lent'[u] # "none" => IsPayload(Buffer(u))'
                      /\ lent'[u] = "serialized" => serialized'[u].of # Nothing
                      /\ read'[u] => lent'[u] # "none"
    BY DEF BuffersAreStable
  <1> DEFINE Stable ==
        /\ pc'[u] = "lent" <=> lent'[u] # "none"
        /\ lent'[u] # "none" => IsPayload(Buffer(u))'
        /\ lent'[u] = "serialized" => serialized'[u].of # Nothing
        /\ read'[u] => lent'[u] # "none"
  <1>1. /\ pc[u] = "lent" <=> lent[u] # "none"
        /\ lent[u] # "none" => IsPayload(Buffer(u))
        /\ lent[u] = "serialized" => serialized[u].of # Nothing
        /\ read[u] => lent[u] # "none"
    BY DEF Inv, BuffersAreStable
  <1>2. ASSUME lent'[u] = lent[u], count'[u] = count[u],
               read'[u] = read[u] \/ (lent[u] # "none" /\ read'[u] \in BOOLEAN),
               pc'[u] = "lent" <=> pc[u] = "lent",
               lent[u] # "none" => /\ source'[u] = source[u] /\ stream'[u] = stream[u]
                                   /\ serialized'[u] = serialized[u]
        PROVE  Stable
    <2>1. lent[u] # "none" => Buffer(u)' = Buffer(u)
      BY <1>2 DEF Buffer, Current
    <2>2. lent[u] # "none" => IsPayload(Buffer(u))'
      <3> SUFFICES ASSUME lent[u] # "none" PROVE IsPayload(Buffer(u))'
        OBVIOUS
      <3> DEFINE p == Buffer(u)
      <3>1. Publication(p.pub, p.of) \in published' /\ p = Payload(p.pub, p.of, p.items, p.size)
            /\ IsWhole(p.of, p.items, p.size)
        BY <1>1, PublicationsStep DEF IsPayload
      <3>2. Buffer(u)' = p
        BY <2>1
      <3> HIDE DEF p
      <3>. QED
        BY <3>1, <3>2 DEF IsPayload
    <2>. QED
      BY <1>1, <1>2, <2>2
  <1>3. ASSUME NEW t \in Threads, Publish(t) \/ PublishSerialized(t)
        PROVE  Stable
    <2>1. PICK of, buffer :
            /\ IsOriginal(of) /\ Lend(t, buffer, of)
            /\ buffer \in {"stream", "serialized"} /\ lent'[t] = buffer /\ read'[t] = FALSE
            /\ buffer = "serialized" => serialized[t].of # Nothing
            /\ IsPayload(Buffer(t))' /\ pc' = [pc EXCEPT ![t] = "lent"]
            /\ UNCHANGED <<source, stream, serialized>>
      BY <1>3, PublishingFacts
    <2>2. CASE u = t
      BY <2>1, <2>2 DEF Inv, TypeOK, OnThreads
    <2>3. CASE u # t
      <3>1. lent'[u] = lent[u] /\ read'[u] = read[u] /\ count'[u] = count[u]
        BY <2>1, <2>3 DEF Lend, Inv, TypeOK, OnThreads
      <3>. QED
        BY <1>2, <2>1, <2>3, <3>1 DEF Inv, TypeOK, OnThreads
    <2>. QED
      BY <2>2, <2>3
  <1>4. ASSUME NEW t \in Threads, Transmit(t)
        PROVE  Stable
    <2>1. /\ lent' = lent /\ count' = count /\ pc' = pc /\ source' = source /\ stream' = stream
          /\ serialized' = serialized /\ lent[t] # "none" /\ read' = [read EXCEPT ![t] = TRUE]
      BY <1>4 DEF Transmit, writerVars
    <2>. QED
      BY <1>2, <2>1 DEF Inv, TypeOK, OnThreads
  <1>5. ASSUME NEW t \in Threads, Completed(t)
        PROVE  Stable
    <2>1. CASE u = t
      BY <1>5, <2>1 DEF Completed, Leave, Inv, TypeOK, OnThreads
    <2>2. CASE u # t
      BY <1>2, <1>5, <2>2 DEF Completed, Leave, Inv, TypeOK, OnThreads
    <2>. QED
      BY <2>1, <2>2
  <1>6. ASSUME NEW t \in Threads, UNCHANGED lendVars, pc[t] # "lent", pc'[t] # "lent",
               \A v \in Threads : v # t =>
                  /\ pc'[v] = pc[v] /\ source'[v] = source[v]
                  /\ stream'[v] = stream[v] /\ serialized'[v] = serialized[v]
        PROVE  Stable
    BY <1>1, <1>2, <1>6 DEF lendVars
  <1>7. ASSUME NEW t \in Threads, NEW job \in Tasks, NEW m \in Repertoire(support[t]),
               Begin(t, job, m)
        PROVE  Stable
    <2>1. /\ UNCHANGED <<serialized, dpsVars>> /\ pc[t] = "idle" /\ pc'[t] \in {"idle", "writing"}
          /\ \A v \in Threads : v # t =>
                pc'[v] = pc[v] /\ source'[v] = source[v] /\ stream'[v] = stream[v]
      BY <1>7 DEF Begin, Inv, TypeOK, OnThreads
    <2>. QED
      BY <1>6, <2>1 DEF dpsVars
  <1>8. ASSUME NEW t \in Threads, WriteItem(t) \/ Enlarge(t)
        PROVE  Stable
    BY <1>6, <1>8 DEF WriteItem, Enlarge, AtEnd, dpsVars, Inv, TypeOK, OnThreads
  <1>9. ASSUME NEW t \in Threads,
               OutOfMemory(t) \/ Serialize(t) \/ SerializeFails(t) \/ PublishFails(t)
        PROVE  Stable
    BY <1>6, <1>9 DEF OutOfMemory, Serialize, SerializeFails, PublishFails, Written, AtEnd, Leave,
                      dpsVars, Inv, TypeOK, OnThreads
  <1>10. ASSUME NEW t \in Threads,
               \/ Deserialize(t) \/ Copy(t) \/ CopyFails(t) \/ ReadSerialized(t)
               \/ \E place \in {"reading", "copying"} : TakeNextData(t, place)
         PROVE  Stable
    BY <1>6, <1>10 DEF Deserialize, Copy, CopyFails, ReadSerialized, TakeNextData, EndTake,
                       writerVars, dpsVars, Inv, TypeOK, OnThreads
  <1>11. ASSUME NEW p \in network, OnPublication(p) \/ Lose(p)
         PROVE  Stable
    BY <1>2, <1>11 DEF OnPublication, Lose, writerVars, lendVars
  <1>12. CASE UNCHANGED vars
    BY <1>2, <1>12 DEF vars, writerVars, dpsVars, lendVars
  <1>. QED
    BY <1>3, <1>4, <1>5, <1>7, <1>8, <1>9, <1>10, <1>11, <1>12 DEF Next, Serializing, Taking

\* Payloads go from a buffer to the network, the queue and a thread as they are.
LEMMA PayloadsStep == Inv /\ [Next]_vars => PayloadsAreWhole'
  <1> SUFFICES ASSUME Inv, [Next]_vars PROVE PayloadsAreWhole'
    OBVIOUS
  <1> DEFINE Apart(p) == \A t \in Threads : lent[t] # "none" /\ ~read[t] => p.pub # Current(t)
             Sent   == \A p \in network : IsPayload(p) /\ Apart(p)
             Queued == \A i \in DOMAIN queue : IsPayload(queue[i])
             Taken  == \A t \in Threads : pc[t] \in {"reading", "copying"} => IsPayload(hand[t])
  <1>1. Sent /\ Queued /\ Taken
    BY DEF Inv, PayloadsAreWhole
  <1>2. Sent' /\ Queued' /\ Taken' => PayloadsAreWhole'
    BY DEF PayloadsAreWhole
  <1>3. \A p : IsPayload(p) => IsPayload(p)'
    BY PayloadStays
  <1>4. ASSUME UNCHANGED <<lent, read, count>>, network' \subseteq network
        PROVE  Sent'
    BY <1>1, <1>3, <1>4 DEF Current
  <1>5. ASSUME queue' = queue
        PROVE  Queued'
    BY <1>1, <1>3, <1>5
  <1>6. ASSUME UNCHANGED hand,
               \A t \in Threads : pc'[t] \in {"reading", "copying"} => pc'[t] = pc[t]
        PROVE  Taken'
    BY <1>1, <1>3, <1>6
  <1>7. ASSUME NEW t \in Threads, Publish(t) \/ PublishSerialized(t)
        PROVE  PayloadsAreWhole'
    <2>1. PICK of, buffer :
            /\ IsOriginal(of) /\ Lend(t, buffer, of) /\ pc' = [pc EXCEPT ![t] = "lent"]
            /\ UNCHANGED <<queue, hand, network>>
      BY <1>7, PublishingFacts
    <2>2. /\ Current(t)' = <<t, count[t] + 1>>
          /\ \A u \in Threads : u # t => Current(u)' = Current(u)
          /\ \A e \in published : e.pub # <<t, count[t] + 1>>
      BY <2>1, LendFacts
    <2>3. ASSUME NEW p \in network, NEW u \in Threads, lent'[u] # "none", ~read'[u]
          PROVE  p.pub # Current(u)'
      <3>1. Publication(p.pub, p.of) \in published /\ Publication(p.pub, p.of).pub = p.pub
        BY <1>1 DEF IsPayload, Publication
      <3>2. CASE u = t
        BY <2>2, <3>1, <3>2
      <3>3. CASE u # t
        <4>1. lent'[u] = lent[u] /\ read'[u] = read[u]
          BY <2>1, <3>3 DEF Lend, Inv, TypeOK, OnThreads
        <4>. QED
          BY <1>1, <2>2, <2>3, <3>3, <4>1
      <3>. QED
        BY <3>2, <3>3
    <2>4. Sent'
      BY <1>1, <1>3, <2>1, <2>3
    <2>5. Taken'
      BY <1>6, <2>1 DEF Inv, TypeOK, OnThreads
    <2>. QED
      BY <1>2, <1>5, <2>1, <2>4, <2>5
  <1>8. ASSUME NEW t \in Threads, Transmit(t)
        PROVE  PayloadsAreWhole'
    <2>1. /\ lent' = lent /\ count' = count /\ pc' = pc /\ queue' = queue /\ hand' = hand
          /\ lent[t] # "none" /\ ~read[t] /\ read' = [read EXCEPT ![t] = TRUE]
          /\ network' = network \cup {Buffer(t)}
      BY <1>8 DEF Transmit, takerVars
    <2>2. IsPayload(Buffer(t)) /\ Buffer(t).pub = <<t, count[t]>>
      BY <2>1 DEF Inv, BuffersAreStable, Buffer, Payload, Current
    <2>3. \A u \in Threads : lent'[u] # "none" /\ ~read'[u] =>
             u # t /\ lent[u] # "none" /\ ~read[u] /\ Current(u)' = Current(u)
             /\ Current(u) = <<u, count[u]>>
      BY <2>1 DEF Inv, TypeOK, OnThreads, Current
    <2>4. ASSUME NEW p \in network'
          PROVE  IsPayload(p) /\ Apart(p)'
      <3>1. CASE p \in network
        BY <1>1, <2>3, <3>1
      <3>2. CASE p = Buffer(t)
        <4>1. p.pub = <<t, count[t]>> /\ IsPayload(p)
          BY <2>2, <3>2
        <4>. QED
          BY <2>3, <4>1
      <3>. QED
        BY <2>1, <3>1, <3>2
    <2>5. Sent'
      BY <1>3, <2>4
    <2>. QED
      BY <1>2, <1>5, <1>6, <2>1, <2>5
  <1>9. ASSUME NEW t \in Threads, Completed(t)
        PROVE  PayloadsAreWhole'
    <2>1. /\ lent' = [lent EXCEPT ![t] = "none"] /\ read' = [read EXCEPT ![t] = FALSE]
          /\ count' = count /\ network' = network /\ queue' = queue /\ hand' = hand
          /\ pc' = [pc EXCEPT ![t] = "idle"]
      BY <1>9 DEF Completed, Leave, takerVars
    <2>2. \A u \in Threads : lent'[u] # "none" => lent'[u] = lent[u] /\ read'[u] = read[u]
      BY <2>1 DEF Inv, TypeOK, OnThreads
    <2>3. Sent'
      BY <1>1, <1>3, <2>1, <2>2 DEF Current
    <2>4. Taken'
      BY <1>6, <2>1 DEF Inv, TypeOK, OnThreads
    <2>. QED
      BY <1>2, <1>5, <2>1, <2>3, <2>4
  <1>10. ASSUME NEW t \in Threads, Serializing(t), ~Publish(t)
         PROVE  PayloadsAreWhole'
    <2>1. UNCHANGED <<lent, read, count, network, queue, hand>>
      BY <1>10 DEF Serializing, WriteItem, Enlarge, OutOfMemory, Serialize, SerializeFails,
                   PublishFails, dpsVars, lendVars, takerVars
    <2>2. \A u \in Threads : pc'[u] \in {"reading", "copying"} => pc'[u] = pc[u]
      BY <1>10 DEF Serializing, WriteItem, Enlarge, OutOfMemory, Serialize, SerializeFails,
                   PublishFails, Leave, Inv, TypeOK, OnThreads
    <2>. QED
      BY <1>2, <1>4, <1>5, <1>6, <2>1, <2>2
  <1>11. ASSUME NEW t \in Threads, NEW job \in Tasks, NEW m \in Repertoire(support[t]),
                Begin(t, job, m)
         PROVE  PayloadsAreWhole'
    <2>1. UNCHANGED <<lent, read, count, network, queue, hand>>
      BY <1>11 DEF Begin, dpsVars, lendVars, takerVars
    <2>2. \A u \in Threads : pc'[u] \in {"reading", "copying"} => pc'[u] = pc[u]
      BY <1>11 DEF Begin, Inv, TypeOK, OnThreads
    <2>. QED
      BY <1>2, <1>4, <1>5, <1>6, <2>1, <2>2
  <1>12. ASSUME NEW t \in Threads, NEW place \in {"reading", "copying"}, TakeNextData(t, place)
         PROVE  PayloadsAreWhole'
    <2>1. UNCHANGED <<lent, read, count, network>>
      BY <1>12 DEF TakeNextData, dpsVars, lendVars
    <2>2. /\ queue # <<>> /\ queue' = Tail(queue)
          /\ hand' = [hand EXCEPT ![t] = Head(queue)] /\ pc' = [pc EXCEPT ![t] = place]
      BY <1>12 DEF TakeNextData
    <2>3. /\ Head(queue) = queue[1] /\ 1 \in DOMAIN queue
          /\ \A i \in DOMAIN Tail(queue) : i + 1 \in DOMAIN queue /\ Tail(queue)[i] = queue[i + 1]
      BY <2>2, QueueFacts DEF Inv, TypeOK, IsSequence
    <2>4. Queued'
      BY <1>1, <1>3, <2>2, <2>3
    <2>5. Taken'
      BY <1>1, <1>3, <2>2, <2>3 DEF Inv, TypeOK, OnThreads
    <2>. QED
      BY <1>2, <1>4, <2>1, <2>4, <2>5
  <1>13. ASSUME NEW t \in Threads, Taking(t) \/ ReadSerialized(t)
         PROVE  PayloadsAreWhole'
    <2>1. UNCHANGED <<lent, read, count, network, queue>>
      BY <1>13 DEF Taking, Deserialize, Copy, CopyFails, ReadSerialized, dpsVars, lendVars
    <2>2. \A u \in Threads : pc'[u] \in {"reading", "copying"} =>
             pc'[u] = pc[u] /\ hand'[u] = hand[u]
      BY <1>13 DEF Taking, Deserialize, Copy, CopyFails, ReadSerialized, EndTake, Inv, TypeOK, OnThreads
    <2>3. Taken'
      BY <1>1, <1>3, <2>2
    <2>. QED
      BY <1>2, <1>4, <1>5, <2>1, <2>3
  <1>14. ASSUME NEW p \in network, Lose(p)
         PROVE  PayloadsAreWhole'
    BY <1>2, <1>4, <1>5, <1>6, <1>14 DEF Lose, lendVars, takerVars
  <1>15. ASSUME NEW p \in network, OnPublication(p)
         PROVE  PayloadsAreWhole'
    <2>1. /\ UNCHANGED <<lent, read, count, pc, hand>> /\ network' \subseteq network
          /\ queue' = Append(queue, p)
      BY <1>15 DEF OnPublication, lendVars
    <2>2. \A i \in DOMAIN queue' : (i \in DOMAIN queue /\ queue'[i] = queue[i]) \/ queue'[i] = p
      BY <2>1, QueueFacts DEF Inv, TypeOK, IsSequence
    <2>3. Queued'
      BY <1>1, <1>3, <2>2
    <2>. QED
      BY <1>2, <1>4, <1>6, <2>1, <2>3
  <1>16. CASE UNCHANGED vars
    BY <1>2, <1>4, <1>5, <1>6, <1>16 DEF vars, dpsVars, lendVars, takerVars
  <1>. QED
    BY <1>7, <1>8, <1>9, <1>10, <1>11, <1>12, <1>13, <1>14, <1>15, <1>16 DEF Next

\* What rmw_serialize() stores.
LEMMA SerializeFacts ==
  ASSUME Inv, NEW t \in Threads, Serialize(t)
  PROVE  LET new == serialized'[t]
         IN /\ new \in [pub : PubIds \cup {Nothing}, of : {source[t]}, items : {stream[t].items},
                        length : Nat, capacity : Nat, allocated : Nat]
            /\ new.pub = Nothing /\ new.of = source[t] /\ new.of # Nothing
            /\ IsWhole(new.of, new.items, new.length)
            /\ new.length <= new.capacity /\ new.capacity <= new.allocated
            /\ source[t].support = support[t]
            /\ \A u \in Threads : u # t => serialized'[u] = serialized[u]
            /\ serialized' = [serialized EXCEPT ![t] = new]
  <1> DEFINE used == stream[t].used
             msg  == Stored(serialized[t], Nothing, source[t], stream[t].items, used)
  <1>1. /\ IsWhole(source[t], stream[t].items, used) /\ used \in Nat
        /\ source[t].support = support[t]
    BY WrittenFacts DEF Serialize
  <1>2. source[t] # Nothing
    BY <1>1, NotNothing DEF IsWhole
  <1>3. /\ serialized[t] \in [pub : PubIds \cup {Nothing}, of : {serialized[t].of},
                             items : {serialized[t].items},
                             length : Nat, capacity : Nat, allocated : Nat]
        /\ serialized[t].capacity <= serialized[t].allocated
    BY KeptFacts
  <1>4. /\ msg \in [pub : PubIds \cup {Nothing}, of : {source[t]}, items : {stream[t].items},
                    length : Nat, capacity : Nat, allocated : Nat]
        /\ msg.pub = Nothing /\ msg.of = source[t] /\ msg.items = stream[t].items
        /\ msg.length = used /\ used <= msg.capacity /\ msg.capacity <= msg.allocated
    <2> DEFINE old == serialized[t]
               new == Stored(old, Nothing, source[t], stream[t].items, used)
    <2>1. Nothing \in PubIds \cup {Nothing} /\ used \in Nat
      BY <1>1
    <2>2. /\ old \in [pub : PubIds \cup {Nothing}, of : {old.of}, items : {old.items},
                      length : Nat, capacity : Nat, allocated : Nat]
          /\ old.capacity <= old.allocated
      BY <1>3
    <2> HIDE DEF used, old
    <2>3. /\ new \in [pub : PubIds \cup {Nothing}, of : {source[t]}, items : {stream[t].items},
                      length : Nat, capacity : Nat, allocated : Nat]
          /\ new.pub = Nothing /\ new.of = source[t] /\ new.items = stream[t].items
          /\ new.length = used /\ used <= new.capacity /\ new.capacity <= new.allocated
      BY <2>1, <2>2, StoredFacts
    <2>. QED
      BY <2>3 DEF old
  <1> HIDE DEF msg
  <1>5. serialized' = [serialized EXCEPT ![t] = [msg EXCEPT !.capacity = used]]
    BY DEF Serialize, msg
  <1>6. [msg EXCEPT !.capacity = used]
           = [pub |-> Nothing, of |-> source[t], items |-> stream[t].items, length |-> used,
              capacity |-> used, allocated |-> msg.allocated]
        /\ msg.allocated \in Nat /\ used <= msg.allocated
    BY <1>1, <1>4
  <1>7. /\ serialized'[t] = [msg EXCEPT !.capacity = used]
        /\ \A u \in Threads : u # t => serialized'[u] = serialized[u]
    BY <1>5 DEF Inv, TypeOK, OnThreads
  <1>8. serialized'[t] = [pub |-> Nothing, of |-> source[t], items |-> stream[t].items,
                          length |-> used, capacity |-> used, allocated |-> msg.allocated]
    BY <1>6, <1>7
  <1> DEFINE new == serialized'[t]
  <1>9. /\ new \in [pub : PubIds \cup {Nothing}, of : {source[t]}, items : {stream[t].items},
                    length : Nat, capacity : Nat, allocated : Nat]
        /\ new.pub = Nothing /\ new.of = source[t] /\ new.items = stream[t].items
        /\ new.length = used /\ new.capacity = used /\ used <= new.allocated
    <2> HIDE DEF used, new
    <2>1. new = [pub |-> Nothing, of |-> source[t], items |-> stream[t].items,
                 length |-> used, capacity |-> used, allocated |-> msg.allocated]
      BY <1>8 DEF new
    <2>. QED
      BY <1>1, <1>6, <2>1
  <1>10. serialized' = [serialized EXCEPT ![t] = new]
    BY <1>5, <1>7
  <1> HIDE DEF used, new
  <1>11. used <= used
    BY <1>1
  <1>. QED
    BY <1>1, <1>2, <1>7, <1>9, <1>10, <1>11 DEF new

\* What rmw_take_serialized_message() stores.
LEMMA CopyFacts ==
  ASSUME Inv, NEW t \in Threads, Copy(t)
  PROVE  LET new == serialized'[t]
         IN /\ new \in [pub : PubIds \cup {Nothing}, of : {hand[t].of}, items : {hand[t].items},
                        length : Nat, capacity : Nat, allocated : Nat]
            /\ new.pub = hand[t].pub /\ new.of = hand[t].of /\ new.of # Nothing
            /\ IsWhole(new.of, new.items, new.length)
            /\ Publication(new.pub, new.of) \in published
            /\ new.length <= new.capacity /\ new.capacity <= new.allocated
            /\ \A u \in Threads : u # t => serialized'[u] = serialized[u]
            /\ serialized' = [serialized EXCEPT ![t] = new]
  <1> DEFINE p   == hand[t]
             msg == Stored(serialized[t], p.pub, p.of, p.items, p.size)
  <1>1. IsPayload(p)
    BY DEF Copy, Inv, PayloadsAreWhole
  <1>2. /\ p.pub \in PubIds /\ IsOriginal(p.of) /\ p.size \in Nat /\ p.items = Wire(p.of)
        /\ p.size = Total(p.of) /\ Publication(p.pub, p.of) \in published
    BY <1>1, PayloadFacts
  <1>3. p.of # Nothing
    BY <1>2, NotNothing
  <1>4. /\ serialized[t] \in [pub : PubIds \cup {Nothing}, of : {serialized[t].of},
                             items : {serialized[t].items},
                             length : Nat, capacity : Nat, allocated : Nat]
        /\ serialized[t].capacity <= serialized[t].allocated
    BY KeptFacts
  <1>5. /\ msg \in [pub : PubIds \cup {Nothing}, of : {p.of}, items : {p.items},
                    length : Nat, capacity : Nat, allocated : Nat]
        /\ msg.pub = p.pub /\ msg.of = p.of /\ msg.items = p.items /\ msg.length = p.size
        /\ p.size <= msg.capacity /\ msg.capacity <= msg.allocated
    BY <1>2, <1>4, StoredFacts
  <1> HIDE DEF msg
  <1>6. serialized' = [serialized EXCEPT ![t] = msg]
    BY DEF Copy, msg
  <1>7. serialized'[t] = msg /\ \A u \in Threads : u # t => serialized'[u] = serialized[u]
    BY <1>6 DEF Inv, TypeOK, OnThreads
  <1>. QED
    BY <1>2, <1>3, <1>5, <1>6, <1>7 DEF IsWhole

\* Only those two change what a thread keeps.
LEMMA SlotsChange ==
  ASSUME Inv, [Next]_vars
  PROVE  \/ \E t \in Threads : Serialize(t) \/ Copy(t)
         \/ serialized' = serialized
  <1>1. ASSUME NEW t \in Threads, Serializing(t), ~Serialize(t)
        PROVE  serialized' = serialized
    BY <1>1 DEF Serializing, WriteItem, Enlarge, OutOfMemory, SerializeFails, Publish,
                PublishFails
  <1>2. ASSUME NEW t \in Threads,
               \/ \E job \in Tasks, m \in Repertoire(support[t]) : Begin(t, job, m)
               \/ PublishSerialized(t) \/ Transmit(t) \/ Completed(t) \/ Deserialize(t)
               \/ CopyFails(t) \/ ReadSerialized(t)
               \/ \E place \in {"reading", "copying"} : TakeNextData(t, place)
        PROVE  serialized' = serialized
    BY <1>2 DEF Begin, PublishSerialized, Transmit, Completed, Deserialize, CopyFails,
                ReadSerialized, TakeNextData
  <1>3. ASSUME NEW p \in network, OnPublication(p) \/ Lose(p)
        PROVE  serialized' = serialized
    BY <1>3 DEF OnPublication, Lose
  <1>4. CASE UNCHANGED vars
    BY <1>4 DEF vars
  <1>. QED
    BY <1>1, <1>2, <1>3, <1>4 DEF Next, Taking, Serializing

\* A message that is kept is whole and fits.
LEMMA SlotsStep == Inv /\ [Next]_vars => SlotIsSound'
  <1> SUFFICES ASSUME Inv, [Next]_vars PROVE SlotIsSound'
    OBVIOUS
  <1> DEFINE Sound(u) ==
        LET msg == serialized[u]
        IN IF msg.of = Nothing THEN msg = NoMessage
           ELSE /\ IsWhole(msg.of, msg.items, msg.length)
                /\ msg.length <= msg.capacity /\ msg.capacity <= msg.allocated
                /\ msg.pub # Nothing => Publication(msg.pub, msg.of) \in published
  <1>1. \A u \in Threads : Sound(u)
    BY DEF Inv, SlotIsSound
  <1>2. (\A u \in Threads : Sound(u)') => SlotIsSound'
    BY DEF SlotIsSound
  <1>3. ASSUME NEW u \in Threads, serialized'[u] = serialized[u]
        PROVE  Sound(u)'
    BY <1>1, <1>3, PublicationsStep
  <1>4. CASE serialized' = serialized
    BY <1>2, <1>3, <1>4
  <1>5. ASSUME NEW t \in Threads, Serialize(t)
        PROVE  SlotIsSound'
    <2>1. Sound(t)'
      BY <1>5, SerializeFacts
    <2>2. \A u \in Threads : u # t => serialized'[u] = serialized[u]
      BY <1>5, SerializeFacts
    <2>. QED
      BY <1>2, <1>3, <2>1, <2>2
  <1>6. ASSUME NEW t \in Threads, Copy(t)
        PROVE  SlotIsSound'
    <2>1. Sound(t)'
      BY <1>6, CopyFacts, PublicationsStep
    <2>2. \A u \in Threads : u # t => serialized'[u] = serialized[u]
      BY <1>6, CopyFacts
    <2>. QED
      BY <1>2, <1>3, <2>1, <2>2
  <1>. QED
    BY <1>4, <1>5, <1>6, SlotsChange

\* Only rmw_take() and rmw_deserialize() give a thread a message.
LEMMA GivenStep ==
  Inv /\ [Next]_vars =>
    TakenIsPublished' /\ \A t \in Threads : pc'[t] \in {"reading", "copying"} => got'[t] = Nothing
  <1> SUFFICES ASSUME Inv, [Next]_vars, NEW u \in Threads
               PROVE  /\ got'[u] # Nothing =>
                           \/ got'[u].pub = Nothing
                           \/ \E e \in published' : got'[u] = Given(e.pub, Wire(e.of))'
                      /\ pc'[u] \in {"reading", "copying"} => got'[u] = Nothing
    BY DEF TakenIsPublished
  <1> DEFINE True == got'[u] # Nothing =>
                       \/ got'[u].pub = Nothing
                       \/ \E e \in published' : got'[u] = Given(e.pub, Wire(e.of))'
             Empty == pc'[u] \in {"reading", "copying"} => got'[u] = Nothing
  <1>1. /\ got[u] # Nothing => \/ got[u].pub = Nothing
                               \/ \E e \in published : got[u] = Given(e.pub, Wire(e.of))
        /\ pc[u] \in {"reading", "copying"} => got[u] = Nothing
    BY DEF Inv, TakenIsPublished
  <1>2. published \subseteq published' /\ support' = support
        /\ \A pub, items : Given(pub, items)' = Given(pub, items)
    BY PublicationsStep DEF Given
  <1>3. ASSUME got'[u] = got[u], pc'[u] \in {"reading", "copying"} => pc'[u] = pc[u]
        PROVE  True /\ Empty
    BY <1>1, <1>2, <1>3
  <1>4. ASSUME NEW t \in Threads, Serializing(t)
        PROVE  True /\ Empty
    BY <1>3, <1>4 DEF Serializing, WriteItem, Enlarge, OutOfMemory, Serialize, SerializeFails,
                      Publish, PublishFails, Leave, takerVars, Inv, TypeOK, OnThreads
  <1>5. ASSUME NEW t \in Threads,
               \/ \E job \in Tasks, m \in Repertoire(support[t]) : Begin(t, job, m)
               \/ PublishSerialized(t) \/ Transmit(t) \/ Completed(t)
        PROVE  True /\ Empty
    BY <1>3, <1>5 DEF Begin, PublishSerialized, Transmit, Completed, Leave, takerVars, Inv, TypeOK, OnThreads
  <1>6. ASSUME NEW t \in Threads, NEW place \in {"reading", "copying"}, TakeNextData(t, place)
        PROVE  True /\ Empty
    BY <1>3, <1>6 DEF TakeNextData, Inv, TypeOK, OnThreads
  <1>7. ASSUME NEW t \in Threads, Deserialize(t)
        PROVE  True /\ Empty
    <2>1. CASE u = t
      <3>1. IsPayload(hand[t]) /\ pc'[t] = "idle"
        BY <1>7 DEF Deserialize, EndTake, Inv, PayloadsAreWhole, TypeOK, OnThreads
      <3>2. /\ hand[t].items = Wire(hand[t].of)
            /\ Publication(hand[t].pub, hand[t].of) \in published'
        BY <1>2, <3>1 DEF IsPayload, IsWhole
      <3>3. got'[t] \in {Nothing, Given(hand[t].pub, Wire(hand[t].of))}
        BY <1>7, <3>2 DEF Deserialize, Inv, TypeOK, OnThreads
      <3>4. /\ Publication(hand[t].pub, hand[t].of).pub = hand[t].pub
            /\ Publication(hand[t].pub, hand[t].of).of = hand[t].of
        BY DEF Publication
      <3>5. got'[t] # Nothing => \E e \in published' : got'[t] = Given(e.pub, Wire(e.of))
        BY <3>2, <3>3, <3>4
      <3>. QED
        BY <1>2, <2>1, <3>1, <3>5
    <2>2. CASE u # t
      BY <1>3, <1>7, <2>2 DEF Deserialize, EndTake, Inv, TypeOK, OnThreads
    <2>. QED
      BY <2>1, <2>2
  <1>8. ASSUME NEW t \in Threads, Copy(t) \/ CopyFails(t)
        PROVE  True /\ Empty
    BY <1>3, <1>8 DEF Copy, CopyFails, EndTake, Inv, TypeOK, OnThreads
  <1>9. ASSUME NEW t \in Threads, ReadSerialized(t)
        PROVE  True /\ Empty
    <2>1. CASE u = t
      <3>1. /\ got'[t] = Given(serialized[t].pub, serialized[t].items)
            /\ serialized[t].of # Nothing /\ pc'[t] = "idle"
        BY <1>9 DEF ReadSerialized, Inv, TypeOK, OnThreads
      <3>2. /\ serialized[t].items = Wire(serialized[t].of)
            /\ serialized[t].pub # Nothing =>
                 Publication(serialized[t].pub, serialized[t].of) \in published'
        BY <1>2, <3>1, KeptFacts DEF IsWhole
      <3>3. /\ Publication(serialized[t].pub, serialized[t].of).pub = serialized[t].pub
            /\ Publication(serialized[t].pub, serialized[t].of).of = serialized[t].of
            /\ got'[t].pub = serialized[t].pub
        BY <3>1 DEF Publication, Given
      <3>4. got'[t].pub # Nothing => \E e \in published' : got'[t] = Given(e.pub, Wire(e.of))
        BY <3>1, <3>2, <3>3
      <3>. QED
        BY <1>2, <2>1, <3>1, <3>4
    <2>2. CASE u # t
      BY <1>3, <1>9, <2>2 DEF ReadSerialized, Inv, TypeOK, OnThreads
    <2>. QED
      BY <2>1, <2>2
  <1>10. ASSUME NEW p \in network, OnPublication(p) \/ Lose(p)
         PROVE  True /\ Empty
    BY <1>3, <1>10 DEF OnPublication, Lose, takerVars
  <1>11. CASE UNCHANGED vars
    BY <1>3, <1>11 DEF vars, takerVars
  <1>. QED
    BY <1>4, <1>5, <1>6, <1>7, <1>8, <1>9, <1>10, <1>11 DEF Next, Taking

\* Every variable keeps its type.
LEMMA TypingStep == Inv /\ [Next]_vars => TypeOK'
  <1> SUFFICES ASSUME Inv, [Next]_vars PROVE TypeOK'
    OBVIOUS
  <1> DEFINE
        Writer == /\ support \in [Threads \cup {Subscriber} -> Supports]
                  /\ calls \in [Threads -> Nat] /\ pc \in [Threads -> Places]
                  /\ task \in [Threads -> Tasks] /\ wire \in [Threads -> Seq(Items)]
                  /\ pos \in [Threads -> Nat] /\ stream \in [Threads -> Streams]
        Dps    == /\ lent \in [Threads -> {"none", "stream", "serialized"}]
                  /\ read \in [Threads -> BOOLEAN] /\ count \in [Threads -> Nat]
        Slots  == \A t \in Threads :
                    serialized[t] \in [pub : PubIds \cup {Nothing}, of : {serialized[t].of},
                                      items : {serialized[t].items},
                                      length : Nat, capacity : Nat, allocated : Nat]
        Others(source_, hand_, got_, queue_) ==
          OnThreads(source_) /\ OnThreads(hand_) /\ OnThreads(got_) /\ IsSequence(queue_)
  <1>1. /\ Writer /\ Dps /\ Others(source, hand, got, queue)
        /\ Slots /\ OnThreads(serialized)
    BY DEF Inv, TypeOK
  <1>2. /\ Writer' /\ Dps' /\ Others(source', hand', got', queue')
        /\ Slots' /\ OnThreads(serialized')
        => TypeOK'
    BY DEF TypeOK, OnThreads, IsSequence
  <1>3. Slots' /\ OnThreads(serialized')
    <2>1. CASE serialized' = serialized
      BY <1>1, <2>1
    <2>2. ASSUME NEW t \in Threads, Serialize(t)
          PROVE  Slots' /\ OnThreads(serialized')
      <3>1. Slots'
        BY <1>1, <2>2, SerializeFacts
      <3>2. PICK new : serialized' = [serialized EXCEPT ![t] = new]
        BY <2>2 DEF Serialize
      <3>3. OnThreads(serialized')
        BY <1>1, <3>2, UpdatedFunction, Zenon
      <3>. QED
        BY <3>1, <3>3
    <2>3. ASSUME NEW t \in Threads, Copy(t)
          PROVE  Slots' /\ OnThreads(serialized')
      <3>1. Slots'
        BY <1>1, <2>3, CopyFacts
      <3>2. PICK new : serialized' = [serialized EXCEPT ![t] = new]
        BY <2>3 DEF Copy
      <3>3. OnThreads(serialized')
        BY <1>1, <3>2, UpdatedFunction, Zenon
      <3>. QED
        BY <3>1, <3>3
    <2>. QED
      BY <2>1, <2>2, <2>3, SlotsChange
  <1>4. ASSUME NEW t \in Threads
        PROVE  Leave(t) /\ UNCHANGED <<support, calls, task>> => Writer' /\ OnThreads(source')
    <2> SUFFICES ASSUME Leave(t), UNCHANGED <<support, calls, task>>
                 PROVE  Writer' /\ OnThreads(source')
      OBVIOUS
    <2>1. NewStream(0) \in Streams /\ <<>> \in Seq(Items) /\ 0 \in Nat /\ "idle" \in Places
      BY NewStreamFacts DEF Places
    <2>2. stream' \in [Threads -> Streams] /\ wire' \in [Threads -> Seq(Items)]
          /\ pos' \in [Threads -> Nat] /\ pc' \in [Threads -> Places]
      BY <1>1, <2>1, Updated, Zenon DEF Leave
    <2>3. OnThreads(source')
      BY <1>1, UpdatedFunction, Zenon DEF Leave
    <2>. QED
      BY <1>1, <2>2, <2>3
  <1>5. ASSUME NEW t \in Threads, NEW job \in Tasks, NEW m \in Repertoire(support[t]),
               Begin(t, job, m)
        PROVE  Writer' /\ Dps' /\ Others(source', hand', got', queue')
    <2>0. UNCHANGED <<lent, read, count, hand, got, queue>>
      BY <1>5 DEF Begin, dpsVars, lendVars, takerVars
    <2>1. support[t] \in Supports /\ calls[t] - 1 \in Nat /\ NewStream(Hint) \in Streams
      BY <1>1, <1>5, NewStreamFacts, MessagesAssumption DEF Begin, MessagesAssumption
    <2>2. Encode(support[t], m) # Refused => Encode(support[t], m) \in Seq(Items)
      BY <2>1, EncodingAssumption DEF EncodingAssumption
    <2>3. CASE Encode(support[t], m) = Refused
      <3>1. /\ UNCHANGED <<support, pc, task, source, wire, pos, stream>>
            /\ calls' \in [Threads -> Nat]
        BY <1>1, <1>5, <2>1, <2>3 DEF Begin
      <3>. QED
        BY <1>1, <2>0, <3>1
    <2>4. CASE Encode(support[t], m) # Refused
      <3> DEFINE items == Encode(support[t], m)
                 of    == Original(support[t], m)
                 new   == NewStream(Hint)
      <3>0. /\ stream' = [stream EXCEPT ![t] = new] /\ wire' = [wire EXCEPT ![t] = items]
            /\ pos' = [pos EXCEPT ![t] = 0] /\ pc' = [pc EXCEPT ![t] = "writing"]
            /\ task' = [task EXCEPT ![t] = job] /\ source' = [source EXCEPT ![t] = of]
            /\ support' = support
        BY <1>5, <2>4 DEF Begin
      <3>1. /\ stream' \in [Threads -> Streams] /\ wire' \in [Threads -> Seq(Items)]
            /\ pos' \in [Threads -> Nat] /\ pc' \in [Threads -> Places]
            /\ task' \in [Threads -> Tasks]
        <4>1. "writing" \in Places /\ 0 \in Nat /\ items \in Seq(Items) /\ new \in Streams
          BY <2>1, <2>2, <2>4 DEF Places
        <4> HIDE DEF items, of, new
        <4>. QED
          BY <1>1, <3>0, <4>1, Updated, Zenon
      <3>2. OnThreads(source')
        BY <1>1, <3>0, UpdatedFunction, Zenon
      <3>3. calls' \in [Threads -> Nat]
        BY <1>1, <1>5, <2>1 DEF Begin
      <3>. QED
        BY <1>1, <2>0, <3>0, <3>1, <3>2, <3>3
    <2>. QED
      BY <2>3, <2>4
  <1>6. ASSUME NEW t \in Threads, WriteItem(t)
        PROVE  Writer' /\ Dps' /\ Others(source', hand', got', queue')
    <2>1. stream[t] \in Streams /\ wire[t][pos[t] + 1] \in Items /\ pos[t] + 1 \in Nat
      BY <1>1, <1>6 DEF WriteItem
    <2>2. Put(stream[t], wire[t][pos[t] + 1]) \in Streams
      BY <2>1, PutFacts
    <2>. QED
      BY <1>1, <1>6, <2>1, <2>2 DEF WriteItem, dpsVars, lendVars, takerVars
  <1>7. ASSUME NEW t \in Threads, Enlarge(t)
        PROVE  Writer' /\ Dps' /\ Others(source', hand', got', queue')
    <2>1. stream[t].size \in Nat
      BY TypeFacts DEF Inv
    <2>2. NewStream(stream[t].size) \in Streams
      BY <2>1, NewStreamFacts
    <2>. QED
      BY <1>1, <1>7, <2>2 DEF Enlarge, Places, dpsVars, lendVars, takerVars
  <1>8. ASSUME NEW t \in Threads,
               OutOfMemory(t) \/ Serialize(t) \/ SerializeFails(t) \/ PublishFails(t)
        PROVE  Writer' /\ Dps' /\ Others(source', hand', got', queue')
    BY <1>1, <1>4, <1>8 DEF OutOfMemory, Serialize, SerializeFails, PublishFails, dpsVars, lendVars,
                            takerVars
  <1>9. ASSUME NEW t \in Threads, Publish(t) \/ PublishSerialized(t)
        PROVE  Writer' /\ Dps' /\ Others(source', hand', got', queue')
    <2>1. PICK of, buffer :
            /\ IsOriginal(of) /\ Lend(t, buffer, of) /\ buffer \in {"stream", "serialized"}
            /\ pc' = [pc EXCEPT ![t] = "lent"]
      BY <1>9, PublishingFacts
    <2>2. Dps'
      BY <1>1, <2>1, LendFacts DEF Lend
    <2>3. calls' \in [Threads -> Nat]
      <3>1. CASE Publish(t)
        BY <1>1, <3>1 DEF Publish, writerVars
      <3>2. CASE PublishSerialized(t)
        <4>1. calls[t] - 1 \in Nat /\ calls' = [calls EXCEPT ![t] = calls[t] - 1]
          BY <1>1, <3>2 DEF PublishSerialized
        <4>. QED
          BY <1>1, <4>1
      <3>. QED
        BY <1>9, <3>1, <3>2
    <2>4. UNCHANGED <<support, task, wire, pos, stream, source, hand, got, queue>>
      BY <1>9 DEF Publish, PublishSerialized, writerVars, takerVars
    <2>5. pc' \in [Threads -> Places]
      BY <1>1, <2>1 DEF Places
    <2>. QED
      BY <1>1, <2>2, <2>3, <2>4, <2>5
  <1>10. ASSUME NEW t \in Threads, Transmit(t)
         PROVE  Writer' /\ Dps' /\ Others(source', hand', got', queue')
    BY <1>1, <1>10 DEF Transmit, writerVars, takerVars
  <1>11. ASSUME NEW t \in Threads, Completed(t)
         PROVE  Writer' /\ Dps' /\ Others(source', hand', got', queue')
    BY <1>1, <1>4, <1>11 DEF Completed, takerVars
  <1>12. ASSUME NEW t \in Threads, NEW place \in {"reading", "copying"}, TakeNextData(t, place)
         PROVE  Writer' /\ Dps' /\ Others(source', hand', got', queue')
    <2>1. queue' \in Seq({queue[i] : i \in DOMAIN queue})
      BY <1>1, <1>12, QueueFacts DEF TakeNextData, IsSequence
    <2>2. IsSequence(queue')
      BY <2>1, OwnElements
    <2>. QED
      <3> DEFINE next == Head(queue)
      <3>1. /\ hand' = [hand EXCEPT ![t] = next] /\ got' = [got EXCEPT ![t] = Nothing]
            /\ pc' = [pc EXCEPT ![t] = place]
            /\ UNCHANGED <<support, calls, task, source, wire, pos, stream, lent, read, count>>
        BY <1>12 DEF TakeNextData, writerVars, dpsVars, lendVars
      <3>2. OnThreads(hand') /\ OnThreads(got')
        <4> HIDE DEF next
        <4>. QED
          BY <1>1, <3>1, UpdatedFunction, Zenon
      <3>3. pc' \in [Threads -> Places]
        BY <1>1, <3>1 DEF Places
      <3>. QED
        BY <1>1, <2>2, <3>1, <3>2, <3>3
  <1>13. ASSUME NEW t \in Threads, Taking(t) \/ ReadSerialized(t)
         PROVE  Writer' /\ Dps' /\ Others(source', hand', got', queue')
    <2>1. /\ UNCHANGED <<support, calls, task, source, wire, pos, stream, lent, read, count, queue>>
          /\ pc' = pc \/ pc' = [pc EXCEPT ![t] = "idle"]
          /\ hand' = hand \/ hand' = [hand EXCEPT ![t] = Nothing]
      BY <1>13 DEF Taking, Deserialize, Copy, CopyFails, ReadSerialized, EndTake,
                   writerVars, dpsVars, lendVars
    <2>2. got' = got \/ \E given : got' = [got EXCEPT ![t] = given]
      BY <1>13, Zenon DEF Taking, Deserialize, Copy, CopyFails, ReadSerialized
    <2>3. OnThreads(hand')
      <3>1. CASE hand' = hand
        BY <1>1, <3>1, Zenon
      <3>2. CASE hand' = [hand EXCEPT ![t] = Nothing]
        BY <1>1, <3>2, UpdatedFunction, Zenon
      <3>. QED
        BY <2>1, <3>1, <3>2
    <2>5. OnThreads(got')
      <3>1. CASE got' = got
        BY <1>1, <3>1, Zenon
      <3>2. ASSUME NEW given, got' = [got EXCEPT ![t] = given]
            PROVE  OnThreads(got')
        BY <1>1, <3>2, UpdatedFunction, Zenon
      <3>. QED
        BY <2>2, <3>1, <3>2
    <2>4. pc' \in [Threads -> Places]
      BY <1>1, <2>1 DEF Places
    <2>. QED
      BY <1>1, <2>1, <2>3, <2>4, <2>5
  <1>14. ASSUME NEW p \in network, Lose(p)
         PROVE  Writer' /\ Dps' /\ Others(source', hand', got', queue')
    BY <1>1, <1>14 DEF Lose, writerVars, lendVars, takerVars
  <1>15. ASSUME NEW p \in network, OnPublication(p)
         PROVE  Writer' /\ Dps' /\ Others(source', hand', got', queue')
    <2>1. queue' \in Seq({queue[i] : i \in DOMAIN queue} \cup {p})
      BY <1>1, <1>15, QueueFacts DEF OnPublication, IsSequence
    <2>2. IsSequence(queue')
      BY <2>1, OwnElements
    <2>. QED
      BY <1>1, <1>15, <2>2 DEF OnPublication, writerVars, lendVars
  <1>16. CASE UNCHANGED vars
    <2>1. UNCHANGED <<support, calls, pc, task, wire, pos, stream, source, lent, read, count,
                      hand, got, queue>>
      BY <1>16 DEF vars, writerVars, dpsVars, lendVars, takerVars
    <2>2. Writer' /\ Dps' /\ Others(source', hand', got', queue')
      BY <1>1, <2>1
    <2>. QED
      BY <1>2, <1>3, <2>2
  <1> HIDE DEF Writer, Dps, Slots, Others
  <1>. QED
    BY <1>2, <1>3, <1>5, <1>6, <1>7, <1>8, <1>9, <1>10, <1>11, <1>12, <1>13, <1>14, <1>15, <1>16
       DEF Next, Serializing

-----------------------------------------------------------------------------
(* The theorems. *)

\* Nothing is written, lent, sent or taken at first.
LEMMA InitInv == Init => Inv
  <1> SUFFICES ASSUME Init PROVE Inv
    OBVIOUS
  <1>1. /\ support \in [Threads \cup {Subscriber} -> Supports] /\ calls \in [Threads -> Nat]
    BY MessagesAssumption DEF Init, MessagesAssumption
  <1>2. NewStream(0) \in Streams /\ <<>> \in Seq(Items)
    BY NewStreamFacts
  <1>3. queue = <<>> /\ queue \in Seq({}) /\ DOMAIN queue = {}
    BY DEF Init
  <1>4. IsSequence(queue)
    BY <1>3, OwnElements
  <1>5. NoMessage \in [pub : PubIds \cup {Nothing}, of : {NoMessage.of}, items : {NoMessage.items},
                       length : Nat, capacity : Nat, allocated : Nat]
        /\ NoMessage.of = Nothing
    BY DEF NoMessage
  <1>6. TypeOK
    BY <1>1, <1>2, <1>4, <1>5 DEF Init, TypeOK, Places, Tasks, OnThreads
  <1>7. StreamCounts /\ BuffersAreStable /\ SlotIsSound /\ TakenIsPublished
    BY <1>5 DEF Init, StreamCounts, BuffersAreStable, SlotIsSound, TakenIsPublished
  <1>8. PublicationsAreUnique /\ PayloadsAreWhole
    BY <1>3 DEF Init, PublicationsAreUnique, PayloadsAreWhole
  <1>. QED
    BY <1>6, <1>7, <1>8 DEF Inv, Init

\* The inductive invariant of publishing and taking: a stream has counted what
\* was written, a buffer is untouched while it is lent, and every payload,
\* wherever it is, is the whole encoding of one publication.
THEOREM Invariance == Spec => []Inv
  <1>1. Inv /\ [Next]_vars => Inv'
    BY TypingStep, StreamsStep, PublicationsStep, BuffersStep, PayloadsStep, SlotsStep, GivenStep
       DEF Inv
  <1>. QED
    BY <1>1, InitInv, PTL DEF Spec

\* Every variable keeps its type, and no stream holds more than its capacity.
THEOREM Typing == Spec => []TypeOK
  <1>1. Inv => TypeOK
    BY DEF Inv
  <1>. QED
    BY <1>1, Invariance, PTL

\* A message that rmw_serialize() or rmw_take_serialized_message() stored is
\* whole and fits the memory it has.
THEOREM SlotsAreSound == Spec => []SlotIsSound
  <1>1. Inv => SlotIsSound
    BY DEF Inv
  <1>. QED
    BY <1>1, Invariance, PTL

\* What rmw_take() or rmw_deserialize() filled in is what was published under
\* that number, read as the subscription's type.
THEOREM TakenMessagesArePublished == Spec => []TakenIsPublished
  <1>1. Inv => TakenIsPublished
    BY DEF Inv
  <1>. QED
    BY <1>1, Invariance, PTL

-----------------------------------------------------------------------------
(* Messages implements Delivery. *)

\* A publication in a buffer.
InBuffer(t) == Publication(Current(t), IF lent[t] = "stream" THEN source[t] ELSE serialized[t].of)

LEMMA OnTheWayIs ==
  /\ OnTheWay = {Publication(p.pub, p.of) : p \in network} \cup {InBuffer(t) : t \in Unsent}
  /\ \A t : InBuffer(t).pub = Current(t)
  /\ \A t : InBuffer(t) = Publication(Buffer(t).pub, Buffer(t).of)
  BY DEF OnTheWay, InBuffer, Buffer, Payload, Publication

\* Publications on their way do not change while networks and buffers do not.
LEMMA SameOnTheWay ==
  ASSUME UNCHANGED <<network, lent, read, count>>,
         \A t \in Unsent : source'[t] = source[t] /\ serialized'[t] = serialized[t]
  PROVE  OnTheWay' = OnTheWay
  <1>1. Unsent' = Unsent
    BY DEF Unsent
  <1>2. \A t \in Unsent : InBuffer(t)' = InBuffer(t)
    BY DEF InBuffer, Current
  <1>3. OnTheWay' = {Publication(p.pub, p.of) : p \in network'} \cup {InBuffer(t)' : t \in Unsent'}
    BY DEF OnTheWay, InBuffer, Buffer, Payload, Publication
  <1>4. {InBuffer(t)' : t \in Unsent'} = {InBuffer(t) : t \in Unsent}
    BY <1>1, <1>2
  <1>5. {Publication(p.pub, p.of) : p \in network'} = {Publication(p.pub, p.of) : p \in network}
    OBVIOUS
  <1>. QED
    BY <1>3, <1>4, <1>5, OnTheWayIs, Zenon

\* What is held does not change while nobody takes, nor what is kept while
\* nobody stores.
LEMMA SameHeld ==
  ASSUME \A t \in Threads : \/ pc'[t] = pc[t] /\ hand'[t] = hand[t]
                            \/ /\ pc[t] \notin {"reading", "copying"}
                               /\ pc'[t] \notin {"reading", "copying"}
  PROVE  Held' = Held
  BY DEF Held

LEMMA SameKept == serialized' = serialized => Kept' = Kept
  BY DEF Kept

LEMMA SameArrived == queue' = queue => Arrived' = Arrived
  BY DEF Arrived

\* Steps that Delivery does not see.
LEMMA HiddenSteps ==
  ASSUME Inv, NEW t \in Threads,
         \/ \E job \in Tasks, m \in Repertoire(support[t]) : Begin(t, job, m)
         \/ WriteItem(t) \/ Enlarge(t) \/ OutOfMemory(t) \/ SerializeFails(t) \/ PublishFails(t)
  PROVE  UNCHANGED D!vars
  <1>1. /\ UNCHANGED <<support, serialized, lent, read, count, network, queue, hand, got>>
        /\ pc[t] \notin {"lent", "reading", "copying"} /\ pc'[t] \notin {"reading", "copying"}
        /\ \A u \in Threads : u # t => pc'[u] = pc[u] /\ source'[u] = source[u]
    <2>1. CASE \E job \in Tasks, m \in Repertoire(support[t]) : Begin(t, job, m)
      BY <2>1 DEF Begin, dpsVars, lendVars, takerVars, Inv, TypeOK, OnThreads
    <2>2. CASE WriteItem(t) \/ Enlarge(t)
      BY <2>2 DEF WriteItem, Enlarge, AtEnd, dpsVars, lendVars, takerVars, Inv, TypeOK, OnThreads
    <2>3. CASE OutOfMemory(t) \/ SerializeFails(t) \/ PublishFails(t)
      BY <2>3 DEF OutOfMemory, SerializeFails, PublishFails, Written, AtEnd,
                  Leave, dpsVars, lendVars, takerVars, Inv, TypeOK, OnThreads
    <2>. QED
      BY <2>1, <2>2, <2>3
  <1>2. t \notin Unsent
    BY <1>1 DEF Unsent, Inv, BuffersAreStable
  <1>3. \A u \in Unsent : source'[u] = source[u] /\ serialized'[u] = serialized[u]
    BY <1>1, <1>2 DEF Unsent
  <1>4. OnTheWay' = OnTheWay
    BY <1>1, <1>3, SameOnTheWay
  <1>5. Held' = Held /\ Kept' = Kept /\ Arrived' = Arrived
    BY <1>1, SameHeld, SameKept, SameArrived
  <1>. QED
    BY <1>1, <1>4, <1>5 DEF D!vars

\* The publications of a queue that grows, and of one from which one is taken.
LEMMA ArrivedFacts ==
  ASSUME NEW S, NEW q \in Seq(S), NEW e
  PROVE  LET Pubs(r) == [i \in DOMAIN r |-> Publication(r[i].pub, r[i].of)]
         IN /\ Pubs(Append(q, e)) = Append(Pubs(q), Publication(e.pub, e.of))
            /\ q # <<>> => /\ Pubs(q) # <<>> /\ Pubs(Tail(q)) = Tail(Pubs(q))
                           /\ Publication(Head(q).pub, Head(q).of) = Head(Pubs(q))
  <1> DEFINE Pubs(r) == [i \in DOMAIN r |-> Publication(r[i].pub, r[i].of)]
             T == {Publication(q[i].pub, q[i].of) : i \in DOMAIN q}
  <1>1. Len(q) \in Nat /\ DOMAIN q = 1..Len(q)
    OBVIOUS
  <1>2. Pubs(q) \in [1..Len(q) -> T]
    BY <1>1
  <1>3. Pubs(q) \in Seq(T) /\ Len(Pubs(q)) = Len(q)
    BY <1>1, <1>2, SeqDef
  <1>4. Append(Pubs(q), Publication(e.pub, e.of))
          = [i \in 1..(Len(q) + 1) |-> IF i = Len(q) + 1 THEN Publication(e.pub, e.of)
                                       ELSE Pubs(q)[i]]
    <2> HIDE DEF Pubs, T
    <2>. QED
      BY <1>1, <1>3
  <1>5. DOMAIN Append(q, e) = 1..(Len(q) + 1)
        /\ \A i \in 1..(Len(q) + 1) :
             Append(q, e)[i] = IF i = Len(q) + 1 THEN e ELSE q[i]
    BY <1>1
  <1>6. Pubs(Append(q, e)) = Append(Pubs(q), Publication(e.pub, e.of))
    BY <1>1, <1>4, <1>5
  <1>7. ASSUME q # <<>>
        PROVE  /\ Pubs(q) # <<>> /\ Pubs(Tail(q)) = Tail(Pubs(q))
               /\ Publication(Head(q).pub, Head(q).of) = Head(Pubs(q))
    <2>1. Len(q) > 0 /\ Head(q) = q[1] /\ DOMAIN Tail(q) = 1..(Len(q) - 1)
          /\ \A i \in 1..(Len(q) - 1) : Tail(q)[i] = q[i + 1]
      BY <1>1, <1>7
    <2>2. /\ Pubs(q) # <<>> /\ Head(Pubs(q)) = Pubs(q)[1]
          /\ Tail(Pubs(q)) = [i \in 1..(Len(q) - 1) |-> Pubs(q)[i + 1]]
      <3> DEFINE r == Pubs(q)
      <3>1. r \in Seq(T) /\ Len(r) = Len(q) /\ Len(q) > 0
        BY <1>3, <2>1
      <3> HIDE DEF r, T
      <3>2. /\ r # <<>> /\ Head(r) = r[1]
            /\ Tail(r) \in Seq(T) /\ Len(Tail(r)) = Len(r) - 1
            /\ \A i \in 1..(Len(r) - 1) : Tail(r)[i] = r[i + 1]
        BY <3>1
      <3>3. Tail(r) = [i \in 1..(Len(r) - 1) |-> Tail(r)[i]]
        <4> DEFINE tl == Tail(r)
        <4>1. tl \in Seq(T) /\ Len(tl) = Len(r) - 1
          BY <3>2
        <4> HIDE DEF tl
        <4>2. tl = [i \in 1..Len(tl) |-> tl[i]]
          BY <4>1
        <4>. QED
          BY <4>1, <4>2 DEF tl
      <3>4. Tail(r) = [i \in 1..(Len(q) - 1) |-> r[i + 1]]
        BY <3>1, <3>2, <3>3
      <3>. QED
        BY <3>2, <3>4 DEF r
    <2>. QED
      BY <1>1, <2>1, <2>2
  <1>. QED
    BY <1>6, <1>7

\* A publication is on its way once.
LEMMA OnTheWayOnce ==
  ASSUME Inv
  PROVE  /\ \A p, q \in network : Publication(p.pub, p.of) = Publication(q.pub, q.of) => p = q
         /\ \A p \in network, t \in Unsent : Publication(p.pub, p.of) # InBuffer(t)
         /\ \A t, u \in Unsent : InBuffer(t) = InBuffer(u) => t = u
  <1>1. ASSUME NEW p \in network, NEW q \in network,
               Publication(p.pub, p.of) = Publication(q.pub, q.of)
        PROVE  p = q
    <2>1. p.pub = q.pub /\ p.of = q.of
      BY <1>1 DEF Publication
    <2>2. IsPayload(p) /\ IsPayload(q)
      BY DEF Inv, PayloadsAreWhole
    <2>3. /\ p = Payload(p.pub, p.of, Wire(p.of), Total(p.of))
          /\ q = Payload(q.pub, q.of, Wire(q.of), Total(q.of))
      BY <2>2, PayloadFacts
    <2>. QED
      BY <2>1, <2>3
  <1>2. ASSUME NEW p \in network, NEW t \in Unsent
        PROVE  Publication(p.pub, p.of) # InBuffer(t)
    <2>1. p.pub # Current(t)
      BY <1>2 DEF Inv, PayloadsAreWhole, Unsent
    <2>. QED
      BY <2>1, OnTheWayIs DEF Publication
  <1>3. ASSUME NEW t \in Unsent, NEW u \in Unsent, InBuffer(t) = InBuffer(u)
        PROVE  t = u
    <2>1. Current(t) = Current(u)
      BY <1>3, OnTheWayIs
    <2>. QED
      BY <2>1 DEF Current
  <1>. QED
    BY <1>1, <1>2, <1>3

LEMMA OnTheWayNext ==
  OnTheWay' = {Publication(p.pub, p.of) : p \in network'} \cup {InBuffer(t)' : t \in Unsent'}
  BY DEF OnTheWay, InBuffer, Buffer, Payload, Publication

\* rmw_publish() sends a new message, rmw_publish_serialized_message() one that
\* is kept.
LEMMA PublishSends ==
  ASSUME Inv, NEW t \in Threads, Publish(t) \/ PublishSerialized(t)
  PROVE  D!SendNew(t) \/ D!SendKept(t)
  <1>1. PICK of, buffer :
           /\ IsOriginal(of) /\ Lend(t, buffer, of)
           /\ buffer \in {"stream", "serialized"} /\ lent'[t] = buffer /\ read'[t] = FALSE
           /\ Buffer(t)' = Payload(<<t, count[t] + 1>>, of, Wire(of), Total(of))
           /\ pc[t] # "lent" /\ pc' = [pc EXCEPT ![t] = "lent"]
           /\ \/ of = source[t] /\ of.support = support[t]
              \/ of = serialized[t].of /\ serialized[t].of # Nothing
           /\ UNCHANGED <<support, source, stream, serialized, queue, hand, got, network>>
    BY PublishingFacts
  <1>2. t \notin Unsent /\ Unsent' = Unsent \cup {t}
    BY <1>1 DEF Lend, Unsent, Inv, TypeOK, BuffersAreStable
  <1>3. Current(t)' = <<t, count[t] + 1>> /\ \A u \in Threads : u # t => Current(u)' = Current(u)
    BY <1>1, LendFacts
  <1>4. InBuffer(t)' = Publication(<<t, count[t] + 1>>, of)
    BY <1>1 DEF InBuffer, Buffer, Payload
  <1>5. \A u \in Unsent : InBuffer(u)' = InBuffer(u)
    BY <1>1, <1>2, <1>3 DEF InBuffer, Lend, Unsent, Inv, TypeOK
  <1>6. OnTheWay' = OnTheWay \cup {Publication(<<t, count[t] + 1>>, of)}
    <2>1. {InBuffer(u)' : u \in Unsent'}
            = {InBuffer(u) : u \in Unsent} \cup {Publication(<<t, count[t] + 1>>, of)}
      BY <1>2, <1>4, <1>5
    <2>2. OnTheWay' = {Publication(p.pub, p.of) : p \in network} \cup {InBuffer(u)' : u \in Unsent'}
      BY <1>1, OnTheWayNext
    <2>. QED
      BY <2>1, <2>2, OnTheWayIs
  <1>7. count' = [count EXCEPT ![t] = @ + 1] /\ count'[t] = count[t] + 1
    BY <1>1 DEF Lend, Inv, TypeOK
  <1>8. pc[t] \notin {"reading", "copying"}
    BY DEF Publish, PublishSerialized, Written, AtEnd
  <1>9. Held' = Held /\ Kept' = Kept /\ Arrived' = Arrived
    BY <1>1, <1>8, SameHeld, SameKept, SameArrived DEF Inv, TypeOK
  <1>10. D!Send(t, of)
    BY <1>1, <1>6, <1>7, <1>9 DEF D!Send, D!Publication, Publication
  <1>11. CASE of = source[t] /\ of.support = support[t]
    <2>1. of = [support |-> support[t], message |-> of.message]
          /\ of.message \in Repertoire(support[t])
      BY <1>1, <1>11 DEF IsOriginal, Original
    <2>. QED
      BY <1>10, <2>1 DEF D!SendNew
  <1>12. CASE of = serialized[t].of /\ serialized[t].of # Nothing
    <2>1. Kept[t] = Publication(serialized[t].pub, of)
      BY <1>12 DEF Kept
    <2>2. serialized[t].pub \in PubIds \cup {Nothing}
      BY KeptFacts
    <2>3. Kept[t] # Nothing /\ Kept[t].of = of
      BY <1>1, <2>1, <2>2, NotNothing DEF Publication
    <2>. QED
      BY <1>10, <2>3 DEF D!SendKept
  <1>. QED
    BY <1>1, <1>11, <1>12

\* What DPS sends was on its way already.
LEMMA TransmitHidden ==
  ASSUME Inv, NEW t \in Threads, Transmit(t)
  PROVE  UNCHANGED D!vars
  <1>1. /\ t \in Unsent /\ Unsent' = Unsent \ {t}
        /\ network' = network \cup {Buffer(t)}
        /\ UNCHANGED <<support, pc, source, serialized, lent, count, queue, hand, got>>
    BY DEF Transmit, Unsent, Inv, TypeOK, writerVars, takerVars
  <1>2. \A u \in Unsent' : InBuffer(u)' = InBuffer(u)
    BY <1>1 DEF InBuffer, Current
  <1>3. {Publication(p.pub, p.of) : p \in network'}
          = {Publication(p.pub, p.of) : p \in network} \cup {InBuffer(t)}
    BY <1>1, OnTheWayIs
  <1>4. {InBuffer(u)' : u \in Unsent'} \cup {InBuffer(t)} = {InBuffer(u) : u \in Unsent}
    BY <1>1, <1>2
  <1>5. OnTheWay' = OnTheWay
    BY <1>3, <1>4, OnTheWayIs, OnTheWayNext
  <1>6. Held' = Held /\ Kept' = Kept /\ Arrived' = Arrived
    BY <1>1, SameHeld, SameKept, SameArrived
  <1>. QED
    BY <1>1, <1>5, <1>6 DEF D!vars

\* DPS calls back for a buffer: if it has not sent it, the message is lost.
LEMMA CompletedLoses ==
  ASSUME Inv, NEW t \in Threads, Completed(t)
  PROVE  UNCHANGED D!vars \/ \E p \in OnTheWay : D!Lose(p)
  <1>1. /\ Unsent' = Unsent \ {t}
        /\ UNCHANGED <<support, serialized, count, network, queue, hand, got>>
        /\ \A u \in Unsent' : source'[u] = source[u] /\ lent'[u] = lent[u]
        /\ pc[t] = "lent" /\ pc'[t] = "idle" /\ \A u \in Threads : u # t => pc'[u] = pc[u]
    BY DEF Completed, Leave, Unsent, Inv, TypeOK, OnThreads, takerVars
  <1>2. \A u \in Unsent' : InBuffer(u)' = InBuffer(u)
    BY <1>1 DEF InBuffer, Current
  <1>3. OnTheWay' = {Publication(p.pub, p.of) : p \in network} \cup {InBuffer(u) : u \in Unsent \ {t}}
    BY <1>1, <1>2, OnTheWayNext
  <1>4. Held' = Held /\ Kept' = Kept /\ Arrived' = Arrived
    BY <1>1, SameHeld, SameKept, SameArrived
  <1>5. CASE t \in Unsent
    <2>1. InBuffer(t) \in OnTheWay /\ OnTheWay' = OnTheWay \ {InBuffer(t)}
      BY <1>3, <1>5, OnTheWayIs, OnTheWayOnce
    <2>. QED
      BY <1>1, <1>4, <2>1 DEF D!Lose
  <1>6. CASE t \notin Unsent
    <2>1. OnTheWay' = OnTheWay
      BY <1>3, <1>6, OnTheWayIs
    <2>. QED
      BY <1>1, <1>4, <2>1 DEF D!vars
  <1>. QED
    BY <1>5, <1>6

\* A payload leaves the network.
LEMMA Departs ==
  ASSUME Inv, NEW p \in network, network' = network \ {p},
         UNCHANGED <<lent, read, count, source, serialized>>
  PROVE  /\ Publication(p.pub, p.of) \in OnTheWay
         /\ OnTheWay' = OnTheWay \ {Publication(p.pub, p.of)}
  <1>1. Unsent' = Unsent /\ \A u \in Unsent : InBuffer(u)' = InBuffer(u)
    BY DEF Unsent, InBuffer, Current
  <1>2. OnTheWay' = {Publication(q.pub, q.of) : q \in network \ {p}} \cup {InBuffer(u) : u \in Unsent}
    BY <1>1, OnTheWayNext
  <1>. QED
    BY <1>2, OnTheWayIs, OnTheWayOnce

LEMMA PayloadLost ==
  ASSUME Inv, NEW p \in network, Lose(p)
  PROVE  \E e \in OnTheWay : D!Lose(e)
  <1>1. /\ network' = network \ {p}
        /\ UNCHANGED <<support, pc, source, serialized, lent, read, count, queue, hand, got>>
    BY DEF Lose, writerVars, lendVars, takerVars
  <1>2. Held' = Held /\ Kept' = Kept /\ Arrived' = Arrived
    BY <1>1, SameHeld, SameKept, SameArrived
  <1>. QED
    BY <1>1, <1>2, Departs DEF D!Lose

LEMMA PayloadArrives ==
  ASSUME Inv, NEW p \in network, OnPublication(p)
  PROVE  \E e \in OnTheWay : D!Arrive(e)
  <1>1. /\ network' = network \ {p} /\ queue' = Append(queue, p)
        /\ UNCHANGED <<support, pc, source, serialized, lent, read, count, hand, got>>
    BY DEF OnPublication, writerVars, lendVars
  <1>2. Held' = Held /\ Kept' = Kept
    BY <1>1, SameHeld, SameKept
  <1>3. Arrived' = Append(Arrived, Publication(p.pub, p.of))
    <2>1. queue \in Seq({queue[i] : i \in DOMAIN queue})
      BY DEF Inv, TypeOK, IsSequence
    <2>. QED
      BY <1>1, <2>1, ArrivedFacts DEF Arrived
  <1>. QED
    BY <1>1, <1>2, <1>3, Departs DEF D!Arrive

\* rmw_serialize() makes a message for later.
LEMMA SerializeMakes ==
  ASSUME Inv, NEW t \in Threads, Serialize(t)
  PROVE  D!Make(t)
  <1> DEFINE new == serialized'[t]
  <1>1. /\ new.pub = Nothing /\ new.of = source[t] /\ new.of # Nothing
        /\ IsOriginal(source[t]) /\ source[t].support = support[t]
        /\ \A u \in Threads : u # t => serialized'[u] = serialized[u]
    BY SerializeFacts DEF IsWhole
  <1>2. /\ UNCHANGED <<support, lent, read, count, network, queue, hand, got>>
        /\ pc[t] \notin {"lent", "reading", "copying"} /\ pc'[t] = "idle"
        /\ \A u \in Threads : u # t => pc'[u] = pc[u] /\ source'[u] = source[u]
    BY DEF Serialize, Written, AtEnd, Leave, dpsVars, lendVars, takerVars, Inv, TypeOK, OnThreads
  <1>3. t \notin Unsent
    BY <1>2 DEF Unsent, Inv, BuffersAreStable
  <1>4. \A u \in Unsent : source'[u] = source[u] /\ serialized'[u] = serialized[u]
    BY <1>1, <1>2, <1>3 DEF Unsent
  <1>5. OnTheWay' = OnTheWay
    BY <1>2, <1>4, SameOnTheWay
  <1>6. Held' = Held /\ Arrived' = Arrived
    BY <1>2, SameHeld, SameArrived
  <1>7. Kept' = [Kept EXCEPT ![t] = Publication(Nothing, source[t])]
    BY <1>1 DEF Kept, Publication
  <1>8. source[t] = [support |-> support[t], message |-> source[t].message]
        /\ source[t].message \in Repertoire(support[t])
    BY <1>1 DEF IsOriginal, Original
  <1>. QED
    BY <1>2, <1>5, <1>6, <1>7, <1>8 DEF D!Make, D!Publication, Publication

\* takeNextData() claims the first message that arrived.
LEMMA TakeClaims ==
  ASSUME Inv, NEW t \in Threads, NEW place \in {"reading", "copying"}, TakeNextData(t, place)
  PROVE  D!Claim(t)
  <1>1. /\ queue # <<>> /\ pc[t] = "idle" /\ pc'[t] = place /\ hand'[t] = Head(queue)
        /\ \A u \in Threads : u # t => pc'[u] = pc[u] /\ hand'[u] = hand[u]
        /\ queue' = Tail(queue) /\ got' = [got EXCEPT ![t] = Nothing]
        /\ UNCHANGED <<support, source, serialized, lent, read, count, network>>
    BY DEF TakeNextData, writerVars, dpsVars, lendVars, Inv, TypeOK, OnThreads
  <1>2. queue \in Seq({queue[i] : i \in DOMAIN queue})
    BY DEF Inv, TypeOK, IsSequence
  <1>3. /\ Arrived # <<>> /\ Arrived' = Tail(Arrived)
        /\ Publication(Head(queue).pub, Head(queue).of) = Head(Arrived)
    BY <1>1, <1>2, ArrivedFacts DEF Arrived
  <1>4. Held[t] = Nothing /\ Held' = [Held EXCEPT ![t] = Head(Arrived)]
    BY <1>1, <1>3 DEF Held
  <1>5. OnTheWay' = OnTheWay /\ Kept' = Kept
    BY <1>1, SameOnTheWay, SameKept
  <1>. QED
    BY <1>1, <1>3, <1>4, <1>5 DEF D!Claim

\* A take that ends puts the message down.
LEMMA PutsDown ==
  ASSUME Inv, NEW t \in Threads, pc[t] \in {"reading", "copying"}, EndTake(t)
  PROVE  /\ Held[t] = Publication(hand[t].pub, hand[t].of) /\ Held[t] # Nothing
         /\ Held' = [Held EXCEPT ![t] = Nothing]
         /\ t \notin Unsent /\ got[t] = Nothing /\ IsPayload(hand[t])
  <1>1. IsPayload(hand[t]) /\ got[t] = Nothing
    BY DEF Inv, PayloadsAreWhole
  <1>2. Held[t] = Publication(hand[t].pub, hand[t].of) /\ Held[t] # Nothing
    BY <1>1, PayloadFacts, NotNothing DEF Held
  <1>3. pc'[t] = "idle" /\ \A u \in Threads : u # t => pc'[u] = pc[u] /\ hand'[u] = hand[u]
    BY DEF EndTake, Inv, TypeOK, OnThreads
  <1>4. Held' = [Held EXCEPT ![t] = Nothing]
    BY <1>3 DEF Held
  <1>5. t \notin Unsent
    BY DEF Unsent, Inv, BuffersAreStable
  <1>. QED
    BY <1>1, <1>2, <1>4, <1>5

\* What a reader is given of a whole payload is what Delivery gives of its
\* publication.
LEMMA GivenValue ==
  ASSUME NEW pub, NEW of, NEW items, NEW size, IsWhole(of, items, size)
  PROVE  /\ Given(pub, items).value = D!Value(Publication(pub, of))
         /\ Given(pub, items) = [pub |-> Publication(pub, of).pub,
                                 value |-> D!Value(Publication(pub, of))]
  BY DEF IsWhole, Wire, Given, D!Value, Transfer, Publication

\* rmw_take() gives what was claimed, or fails.
LEMMA DeserializeReceives ==
  ASSUME Inv, NEW t \in Threads, Deserialize(t)
  PROVE  D!Receive(t) \/ D!Fail(t)
  <1> DEFINE given == Given(hand[t].pub, hand[t].items)
  <1>1. /\ pc[t] = "reading" /\ EndTake(t)
        /\ got' = [got EXCEPT ![t] = IF given.value = Unreadable THEN Nothing ELSE given]
        /\ UNCHANGED <<support, source, serialized, lent, read, count, network, queue>>
    BY DEF Deserialize, writerVars, dpsVars, lendVars
  <1>2. /\ Held[t] = Publication(hand[t].pub, hand[t].of) /\ Held[t] # Nothing
        /\ Held' = [Held EXCEPT ![t] = Nothing] /\ got[t] = Nothing /\ IsPayload(hand[t])
    BY <1>1, PutsDown
  <1>3. OnTheWay' = OnTheWay /\ Kept' = Kept /\ Arrived' = Arrived
    BY <1>1, SameOnTheWay, SameKept, SameArrived
  <1>4. given.value = D!Value(Held[t]) /\ given = [pub |-> Held[t].pub, value |-> D!Value(Held[t])]
    BY <1>2, GivenValue DEF IsPayload
  <1>5. CASE given.value = Unreadable
    <2>1. got' = got
      BY <1>1, <1>2, <1>5 DEF Inv, TypeOK, OnThreads
    <2>. QED
      BY <1>1, <1>2, <1>3, <2>1 DEF D!Fail
  <1>6. CASE given.value # Unreadable
    <2>1. D!Give(t, Held[t])
      BY <1>1, <1>4, <1>6 DEF D!Give
    <2>. QED
      BY <1>1, <1>2, <1>3, <2>1 DEF D!Receive
  <1>. QED
    BY <1>5, <1>6

\* rmw_take_serialized_message() keeps what was claimed, or fails.
LEMMA CopyKeeps ==
  ASSUME Inv, NEW t \in Threads, Copy(t) \/ CopyFails(t)
  PROVE  D!Keep(t) \/ D!Fail(t)
  <1>1. /\ pc[t] = "copying" /\ EndTake(t)
        /\ UNCHANGED <<support, source, lent, read, count, network, queue, got>>
    BY DEF Copy, CopyFails, writerVars, dpsVars, lendVars
  <1>2. /\ Held[t] = Publication(hand[t].pub, hand[t].of) /\ Held[t] # Nothing
        /\ Held' = [Held EXCEPT ![t] = Nothing] /\ t \notin Unsent
    BY <1>1, PutsDown
  <1>3. Arrived' = Arrived
    BY <1>1, SameArrived
  <1>4. CASE Copy(t)
    <2>1. /\ serialized'[t].pub = hand[t].pub /\ serialized'[t].of = hand[t].of
          /\ serialized'[t].of # Nothing
          /\ \A u \in Threads : u # t => serialized'[u] = serialized[u]
      BY <1>4, CopyFacts
    <2>2. Kept' = [Kept EXCEPT ![t] = Held[t]]
      BY <1>2, <2>1 DEF Kept, Publication
    <2>3. \A u \in Unsent : source'[u] = source[u] /\ serialized'[u] = serialized[u]
      BY <1>1, <1>2, <2>1 DEF Unsent
    <2>4. OnTheWay' = OnTheWay
      BY <1>1, <2>3, SameOnTheWay
    <2>. QED
      BY <1>1, <1>2, <1>3, <2>2, <2>4 DEF D!Keep
  <1>5. CASE CopyFails(t)
    <2>1. serialized' = serialized
      BY <1>5 DEF CopyFails
    <2>2. OnTheWay' = OnTheWay /\ Kept' = Kept
      BY <1>1, <2>1, SameOnTheWay, SameKept
    <2>. QED
      BY <1>1, <1>2, <1>3, <2>2 DEF D!Fail
  <1>. QED
    BY <1>4, <1>5

\* rmw_deserialize() reads the message that is kept.
LEMMA ReadsKept ==
  ASSUME Inv, NEW t \in Threads, ReadSerialized(t)
  PROVE  D!ReadKept(t)
  <1> DEFINE msg == serialized[t]
             given == Given(msg.pub, msg.items)
  <1>1. /\ msg.of # Nothing /\ given.value # Unreadable /\ got' = [got EXCEPT ![t] = given]
        /\ UNCHANGED <<support, pc, source, serialized, lent, read, count, network, queue, hand>>
    BY DEF ReadSerialized, writerVars, dpsVars, lendVars
  <1>2. IsWhole(msg.of, msg.items, msg.length) /\ msg.pub \in PubIds \cup {Nothing}
    BY <1>1, KeptFacts
  <1>3. Kept[t] = Publication(msg.pub, msg.of) /\ Kept[t] # Nothing
    BY <1>1, <1>2, NotNothing DEF Kept, IsWhole
  <1>4. given.value = D!Value(Kept[t]) /\ given = [pub |-> Kept[t].pub, value |-> D!Value(Kept[t])]
    BY <1>2, <1>3, GivenValue
  <1>5. D!Give(t, Kept[t])
    BY <1>1, <1>4 DEF D!Give
  <1>6. OnTheWay' = OnTheWay /\ Held' = Held /\ Kept' = Kept /\ Arrived' = Arrived
    BY <1>1, SameOnTheWay, SameHeld, SameKept, SameArrived
  <1>. QED
    BY <1>1, <1>3, <1>5, <1>6 DEF D!ReadKept

LEMMA SameDelivery == UNCHANGED vars => UNCHANGED D!vars
  <1> SUFFICES ASSUME UNCHANGED vars PROVE UNCHANGED D!vars
    OBVIOUS
  <1>1. UNCHANGED <<support, pc, source, serialized, lent, read, count, network, queue, hand, got>>
    BY DEF vars, writerVars, dpsVars, lendVars, takerVars
  <1>. QED
    BY <1>1, SameOnTheWay, SameHeld, SameKept, SameArrived DEF D!vars

\* Every step is one of Delivery, or cannot be seen there.
LEMMA DeliveryStep == Inv /\ [Next]_vars => [D!Next]_D!vars
  <1> SUFFICES ASSUME Inv, [Next]_vars PROVE D!Next \/ UNCHANGED D!vars
    OBVIOUS
  <1>1. ASSUME NEW t \in Threads, NEW job \in Tasks, NEW m \in Repertoire(support[t]),
               Begin(t, job, m)
        PROVE  UNCHANGED D!vars
    BY <1>1, HiddenSteps
  <1>2. ASSUME NEW t \in Threads, Serializing(t) \/ PublishSerialized(t)
        PROVE  D!Next \/ UNCHANGED D!vars
    <2>1. CASE WriteItem(t) \/ Enlarge(t) \/ OutOfMemory(t) \/ SerializeFails(t) \/ PublishFails(t)
      BY <2>1, HiddenSteps
    <2>2. CASE Publish(t) \/ PublishSerialized(t)
      BY <2>2, PublishSends DEF D!Next
    <2>3. CASE Serialize(t)
      BY <2>3, SerializeMakes DEF D!Next
    <2>. QED
      BY <1>2, <2>1, <2>2, <2>3 DEF Serializing
  <1>3. ASSUME NEW t \in Threads, Transmit(t) \/ Completed(t)
        PROVE  D!Next \/ UNCHANGED D!vars
    BY <1>3, TransmitHidden, CompletedLoses DEF D!Next
  <1>4. ASSUME NEW t \in Threads, NEW place \in {"reading", "copying"}, TakeNextData(t, place)
        PROVE  D!Next
    BY <1>4, TakeClaims DEF D!Next
  <1>5. ASSUME NEW t \in Threads, Taking(t)
        PROVE  D!Next
    BY <1>5, DeserializeReceives, CopyKeeps DEF D!Next, Taking
  <1>6. ASSUME NEW t \in Threads, ReadSerialized(t)
        PROVE  D!Next
    BY <1>6, ReadsKept DEF D!Next
  <1>7. ASSUME NEW p \in network, OnPublication(p) \/ Lose(p)
        PROVE  D!Next
    BY <1>7, PayloadArrives, PayloadLost DEF D!Next
  <1>. QED
    BY <1>1, <1>2, <1>3, <1>4, <1>5, <1>6, <1>7, SameDelivery DEF Next

LEMMA DeliveryInit == Init => D!Init
  <1> SUFFICES ASSUME Init PROVE D!Init
    OBVIOUS
  <1>1. support \in [Threads \cup {Subscriber} -> Supports]
    BY InitInv DEF Inv, TypeOK
  <1>2. network = {} /\ Unsent = {} /\ queue = <<>> /\ DOMAIN queue = {}
    BY DEF Init, Unsent
  <1>3. OnTheWay = {}
    BY <1>2, OnTheWayIs
  <1>4. Arrived = <<>>
    BY <1>2 DEF Arrived
  <1>5. Held = [t \in Threads |-> Nothing] /\ Kept = [t \in Threads |-> Nothing]
    BY DEF Init, Held, Kept, NoMessage
  <1>. QED
    BY <1>1, <1>3, <1>4, <1>5 DEF Init, D!Init

\* Publishing and taking implement Delivery: whatever overflows, fails or is
\* lost, a publication is one message that is claimed at most once, in the
\* order of arrival, and read as it was published.
THEOREM Refinement == Spec => ImplementsDelivery
  <1>. QED
    BY DeliveryInit, DeliveryStep, Invariance, PTL DEF Spec, ImplementsDelivery, D!Spec

=============================================================================
