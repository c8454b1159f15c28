------------------------- MODULE RosMessagesProofs --------------------------
(* Proofs about RosMessages, for any type supports, messages and threads:    *)
(* what is taken is what should have come across.                            *)
EXTENDS RosMessages, MessagesProofs, CodecProofs

\* A message that can be published is understood by whom has its type
\* (serializeROSmessage() and deserializeROSmessage() of two type supports).
LEMMA SupportsUnderstand ==
  ASSUME NEW from \in Supports, NEW to \in Supports, from.members = to.members,
         NEW v \in Repertoire(from), Encode(from, v) # Refused
  PROVE  Decode(to, Encode(from, v)) = Understood(from, to, v)
  <1> DEFINE t       == from.members
             items   == Encode(from, v)
             carried == Carried("c" \in {from.lang, to.lang}, t, v)
  <1>1. /\ from.lang \in Langs /\ to.lang \in Langs /\ t \in Types /\ v \in Values[t]
        /\ items = CborOf(from, v) /\ Decode(to, items) = MessageOf(to, items)
    BY SupportsAssumption
  <1>2. Accepted(from.lang, t, v)
    BY <1>1 DEF CborOf
  <1>3. ASSUME NEW w, NEW q PROVE Read(w, q).ok /\ Read(w, q).value = w
    BY DEF Read
  <1>4. CASE t = <<>>
    <2>1. items = <<Number(0)>>
      BY <1>1, <1>2, <1>4 DEF CborOf
    <2>2. Stands(items, items, 0)
      <3>1. Len(items) = 1
        BY <2>1
      <3>2. Len(items) \in Nat
        BY <3>1
      <3> HIDE DEF items
      <3> QED
        BY <3>2, AllStand
    <2>3. Stands(<<Number(0)>>, items, 0)
      BY <2>1, <2>2
    <2>4. ReadNumber(Octets, items, 0) = Read(0, 0 + Len(<<Number(0)>>))
      <3>1. 0 \in Octets
        BY DEF Octets
      <3> QED
        BY <2>3, <3>1, NumberReads
    <2>5. MessageOf(to, items) = <<>>
      BY <1>3, <1>4, <2>4 DEF MessageOf
    <2>6. carried = <<>>
      BY <1>4 DEF Carried
    <2> QED
      BY <1>1, <2>5, <2>6 DEF Understood
  <1>5. CASE t # <<>>
    <2>1. items = MessageItems(from.lang, t, v)
      BY <1>1, <1>2, <1>5 DEF CborOf
    <2>2. ReadMessage(to.lang, t, items, 0) = Read(carried, Len(items))
      BY <1>1, <2>1, MessagesSurvive
    <2>3. MessageOf(to, items) = carried
      <3> HIDE DEF carried, items
      <3> QED
        BY <1>3, <1>5, <2>2 DEF MessageOf
    <2> QED
      BY <1>1, <2>3 DEF Understood
  <1> QED
    BY <1>4, <1>5

\* rmw_take() understands every message whose publisher has the subscription's
\* type, in C or in C++, and fills in what was published, but for what C cuts
\* from a string and the value of a boolean that is true.
THEOREM MessagesAreUnderstood == Spec => []RoundTrip
  <1>1. Inv => RoundTrip
    <2> SUFFICES ASSUME Inv, NEW t \in Threads, pc[t] = "reading",
                        hand[t].of.support.members = support[Subscriber].members
                 PROVE  Decode(support[Subscriber], hand[t].items)
                          = Understood(hand[t].of.support, support[Subscriber], hand[t].of.message)
      BY DEF RoundTrip
    <2>1. IsPayload(hand[t])
      BY DEF Inv, PayloadsAreWhole
    <2>2. PICK of : of = hand[t].of
      OBVIOUS
    <2>3. /\ IsOriginal(of) /\ hand[t].items = Encode(of.support, of.message)
      BY <2>1, <2>2 DEF IsPayload, IsWhole, Wire
    <2>4. support[Subscriber] \in Supports
      BY DEF Inv, TypeOK
    <2>5. /\ of.support \in Supports /\ of.message \in Repertoire(of.support)
          /\ Encode(of.support, of.message) # Refused
      BY <2>3 DEF IsOriginal
    <2> QED
      BY <2>2, <2>3, <2>4, <2>5, SupportsUnderstand
  <1> QED
    BY <1>1, Invariance, PTL

=============================================================================
