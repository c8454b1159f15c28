---------------------------- MODULE RosMessages -----------------------------
(***************************************************************************)
(* A topic whose messages the introspection type supports encode: the      *)
(* Messages of module Messages with the encoding of module Codec.          *)
(*                                                                         *)
(* A type support is a language and a message type.                        *)
(***************************************************************************)
EXTENDS Messages, Codec

\* What serializeROSmessage() writes; an empty message is a zero.
CborOf(s, v) ==
  IF ~Accepted(s.lang, s.members, v) THEN Refused
  ELSE IF s.members = <<>> THEN <<Number(0)>>
  ELSE MessageItems(s.lang, s.members, v)

\* What deserializeROSmessage() makes of items; those left over are ignored.
MessageOf(s, items) ==
  LET r == IF s.members = <<>> THEN ReadNumber(Octets, items, 0)
           ELSE ReadMessage(s.lang, s.members, items, 0)
  IN IF ~r.ok THEN Unreadable ELSE IF s.members = <<>> THEN <<>> ELSE r.value

\* The type supports are these, and so is what they write and read.
ASSUME SupportsAssumption ==
  /\ Supports \subseteq [lang : Langs, members : Types]
  /\ \A s \in Supports :
        /\ Repertoire(s) \subseteq Values[s.members]
        /\ \A v \in Repertoire(s) :
              /\ Encode(s, v) = CborOf(s, v)
              /\ \A r \in Supports :
                    r.members = s.members /\ Encode(s, v) # Refused
                      => Decode(r, Encode(s, v)) = MessageOf(r, Encode(s, v))

\* What a message sent with one type support is to one who has the same type,
\* in either language.
Understood(from, to, v) == Carried("c" \in {from.lang, to.lang}, from.members, v)

\* rmw_take() understands every message whose publisher has the subscription's
\* type, in C or in C++, and fills in what was published, but for what C cuts
\* from a string and the value of a boolean that is true.
RoundTrip ==
  \A t \in Threads :
     pc[t] = "reading" =>
       LET from == hand[t].of.support
           to   == support[Subscriber]
       IN from.members = to.members =>
            Decode(to, hand[t].items) = Understood(from, to, hand[t].of.message)

=============================================================================
