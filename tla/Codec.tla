------------------------------- MODULE Codec --------------------------------
(***************************************************************************)
(* How a ROS message becomes a sequence of CBOR items, and comes back.     *)
(*                                                                         *)
(* A type support describes a message type by its members, in C or in C++. *)
(* It walks the members, writes one item or several for each to a stream,  *)
(* and reads them back in the same order.  Both ends of a topic may use    *)
(* different type supports.  A value of a message type is the sequence of  *)
(* the values of its members.  Booleans, floats and characters are numbers *)
(* here, strings and arrays are sequences.  What an item looks like in     *)
(* bytes is DPS's matter; only its size counts.                            *)
(*                                                                         *)
(* A message may be in a message: the code calls itself then.  Such calls   *)
(* are constants here, and NestingAssumption says what they return.  That   *)
(* the two directions undo each other is proved in CodecProofs.            *)
(***************************************************************************)
EXTENDS Integers, Sequences, SequencesExt

CONSTANTS
  Types,                   \* message types: the sequences of their members
  Depth,                   \* Depth[t]: how deep messages are nested in type t
  Values,                  \* Values[t]: the messages of type t
  NestedAccepted(_, _, _), \* for a message in a message: Accepted(),
  NestedItems(_, _, _),    \* MessageItems(),
  NestedReading(_, _, _, _), \* ReadMessage()
  NestedCarried(_, _, _)   \* and Carried()

-----------------------------------------------------------------------------
(* Types and messages. *)

\* The values of uint8_t and char16_t.
Octets == 0..255
WChars == 0..65535

Langs  == {"c", "cpp"}
Kinds  == {"bool", "octet", "int", "float", "string", "wstring", "message"}
Arrays == {"none", "fixed", "bounded", "unbounded"}

\* MessageMember of the introspection libraries.
Members == [kind : Kinds, array : Arrays, size : Nat, bound : Nat,
            members : Types \cup {<<>>}]

\* Whether an array has neither a length nor its items in the member itself.
Sized(m) == m.array = "fixed"

IsString(kind) == kind \in {"string", "wstring"}

\* What a member, or an element of it if it is an array, can hold.  A boolean
\* that was never set may be any byte, which the code expects where it is not in
\* an array.
Elements(m) ==
  CASE m.kind = "bool"    -> IF m.array = "none" THEN Octets ELSE 0..1
    [] m.kind = "octet"   -> Octets
    [] m.kind = "string"  -> Seq(Octets)
    [] m.kind = "wstring" -> Seq(WChars)
    [] m.kind = "message" -> Values[m.members]
    [] OTHER              -> Int

MemberValues(m) ==
  IF m.array = "none" THEN Elements(m)
  ELSE {w \in Seq(Elements(m)) : Sized(m) => Len(w) = m.size}

\* Types are finite, and no type is a member of itself.
ASSUME TypesAssumption ==
  /\ Depth \in [Types -> Nat]
  /\ \A t \in Types :
        /\ t \in Seq(Members)
        /\ \A i \in DOMAIN t :
              t[i].kind = "message" =>
                /\ t[i].members \in Types
                /\ Depth[t[i].members] < Depth[t]

\* A message has a value for each member of its type.
ASSUME ValuesAssumption ==
  \A t \in Types : \A v \in Values[t] :
     /\ v = [i \in DOMAIN t |-> v[i]]
     /\ \A i \in DOMAIN t : v[i] \in MemberValues(t[i])

-----------------------------------------------------------------------------
(* The stream's items (cbor::TxStream, cbor::RxStream). *)

\* CBOR_SIZEOF_UINT, ..._ARRAY and their like: the head of an item carries a
\* number, a negative one as its complement.
HeadSize(n) == LET u == IF n < 0 THEN -1 - n ELSE n
               IN IF u < 24 THEN 1 ELSE IF u < 256 THEN 2 ELSE 3

\* An item holds a number, or several.
Item(major, value, size) ==
  [content |-> [major |-> major, value |-> value], size |-> size]

Majors == {"int", "float", "bool", "text", "bytes", "array"}

Number(n)   == Item("int", <<n>>, HeadSize(n))
Float(f)    == Item("float", <<f>>, 5)
Bool(b)     == Item("bool", <<b>>, 1)
Text(s)     == Item("text", s, HeadSize(Len(s)) + Len(s))
Bytes(b)    == Item("bytes", b, HeadSize(Len(b)) + Len(b))
ArrayOf(n)  == Item("array", <<n>>, HeadSize(n))

\* An array: how many parts it has, and the items of each.
Counted(parts) == <<ArrayOf(Len(parts))>> \o FlattenSeq(parts)

\* operator<< of one value.
ScalarItems(kind, v) ==
  CASE kind = "bool"    -> <<Bool(v)>>
    [] kind = "float"   -> <<Float(v)>>
    [] kind = "string"  -> <<Text(v)>>
    [] kind = "wstring" -> Counted([i \in DOMAIN v |-> <<Number(v[i])>>])
    [] OTHER            -> <<Number(v)>>

\* Mutant: an array of octets is written like any other.
SequenceItemsPlain(kind, v) ==
  Counted([i \in DOMAIN v |-> ScalarItems(kind, v[i])])

\* encodeSequence(): the octets of an array are one item.
SequenceItems(kind, v) ==
  IF kind = "octet" THEN <<Bytes(v)>>
  ELSE Counted([i \in DOMAIN v |-> ScalarItems(kind, v[i])])

-----------------------------------------------------------------------------
(* Serialising. *)

\* A C string ends before its first null character.
CString(s) ==
  IF \E i \in DOMAIN s : s[i] = 0
  THEN SubSeq(s, 1, (CHOOSE i \in DOMAIN s : s[i] = 0 /\ \A j \in 1..(i - 1) : s[j] # 0) - 1)
  ELSE s

\* convert_to_std_string(), and assignment from c_str().
Native(lang, kind, v) == IF lang = "c" /\ IsString(kind) THEN CString(v) ELSE v

\* A boolean that was never set may be any byte, and is written as true.
Normal(kind, v) == IF kind = "bool" /\ v # 0 THEN 1 ELSE v

\* No check throws: on the length of a C string that is bounded, and on the
\* length of a bounded array of messages.
Accepted(lang, members, v) ==
  \A i \in DOMAIN members :
     LET m == members[i]
     IN IF m.kind = "message"
        THEN IF m.array = "none" THEN NestedAccepted(lang, m.members, v[i])
             ELSE /\ m.array = "bounded" => Len(v[i]) <= m.size
                  /\ \A j \in DOMAIN v[i] : NestedAccepted(lang, m.members, v[i][j])
        ELSE lang = "c" /\ IsString(m.kind) /\ m.array = "none" /\ m.bound > 0
               => Len(CString(v[i])) <= m.bound + 1

MemberItems(lang, m, v) ==
  CASE m.kind = "message" /\ m.array = "none" -> NestedItems(lang, m.members, v)
    [] m.kind = "message" /\ m.array # "none" ->
         (IF Sized(m) THEN <<>> ELSE <<Number(Len(v))>>)
           \o FlattenSeq([j \in DOMAIN v |-> NestedItems(lang, m.members, v[j])])
    [] m.kind # "message" /\ m.array = "none" ->
         ScalarItems(m.kind, Normal(m.kind, Native(lang, m.kind, v)))
    [] OTHER -> SequenceItems(m.kind, [j \in DOMAIN v |-> Native(lang, m.kind, v[j])])

\* The private serializeROSmessage(): the number of members, then each.
MessageItems(lang, members, v) ==
  Counted([i \in DOMAIN members |-> MemberItems(lang, members[i], v[i])])

-----------------------------------------------------------------------------
(* Deserialising.  A reading is a value with the position after it, or an    *)
(* exception; a reader is a function from positions in the items to readings. *)

Thrown == [ok |-> FALSE]
Read(value, at) == [ok |-> TRUE, value |-> value, at |-> at]

\* CBOR_Decode...(): the next item, which must be of this major type.
ReadItem(major, items, at) ==
  IF at < Len(items) /\ items[at + 1].content.major = major
  THEN Read(items[at + 1].content.value, at + 1)
  ELSE Thrown

ReadOne(major, items, at) ==
  LET r == ReadItem(major, items, at) IN IF r.ok THEN Read(r.value[1], r.at) ELSE Thrown

\* Readings one after the other.
ReadEach(readers, at) ==
  LET done[i \in 0..Len(readers)] ==
        IF i = 0 THEN Read(<<>>, at)
        ELSE LET before == done[i - 1]
                 next   == readers[i][before.at]
             IN IF before.ok /\ next.ok THEN Read(Append(before.value, next.value), next.at)
                ELSE Thrown
  IN done[Len(readers)]

\* A length, and then as many readings as it says.
ReadArray(reader, major, items, at) ==
  LET head == ReadOne(major, items, at)
  IN IF head.ok /\ head.value >= 0 THEN ReadEach([i \in 1..head.value |-> reader], head.at)
     ELSE Thrown

\* A number that must fit the variable it is read into.
ReadNumber(range, items, at) ==
  LET r == ReadOne("int", items, at)
  IN IF r.ok /\ r.value \in range THEN r ELSE Thrown

\* operator>> of one value.
ReadScalar(kind, items, at) ==
  CASE kind = "bool"    -> ReadOne("bool", items, at)
    [] kind = "octet"   -> ReadNumber(Octets, items, at)
    [] kind = "float"   -> ReadOne("float", items, at)
    [] kind = "string"  -> ReadItem("text", items, at)
    [] kind = "wstring" ->
         ReadArray([p \in 0..Len(items) |-> ReadNumber(WChars, items, p)], "array", items, at)
    [] OTHER            -> ReadOne("int", items, at)

ReadSequence(kind, items, at) ==
  IF kind = "octet" THEN ReadItem("bytes", items, at)
  ELSE ReadArray([p \in 0..Len(items) |-> ReadScalar(kind, items, p)], "array", items, at)

\* decodeSequence() wants the exact size.  A C array of strings is filled from
\* a vector of any size; one that is too short would be read past its end, and
\* is taken for a failure here.
FitsArray(lang, m, n) ==
  IF lang = "c" /\ IsString(m.kind) THEN n >= m.size ELSE n = m.size

\* One message, or an array of messages.
ReadMessages(lang, m, items, at) ==
  LET message == [p \in 0..Len(items) |-> NestedReading(lang, m.members, items, p)]
  IN IF m.array = "none" THEN message[at]
     ELSE IF Sized(m) THEN ReadEach([i \in 1..m.size |-> message], at)
     ELSE ReadArray(message, "int", items, at)

ReadMember(lang, m, items, at) ==
  CASE m.kind = "message" -> ReadMessages(lang, m, items, at)
    [] m.kind # "message" /\ m.array = "none" ->
         LET r == ReadScalar(m.kind, items, at)
         IN IF r.ok THEN Read(Native(lang, m.kind, r.value), r.at) ELSE Thrown
    [] OTHER ->
         LET r == ReadSequence(m.kind, items, at)
         IN IF ~r.ok \/ (Sized(m) /\ ~FitsArray(lang, m, Len(r.value))) THEN Thrown
            ELSE Read([i \in 1..(IF Sized(m) THEN m.size ELSE Len(r.value)) |->
                         Native(lang, m.kind, r.value[i])], r.at)

\* The private deserializeROSmessage().
ReadMessage(lang, members, items, at) ==
  LET head == ReadOne("array", items, at)
      reader(m) == [p \in 0..Len(items) |-> ReadMember(lang, m, items, p)]
  IN IF ~head.ok \/ head.value # Len(members) THEN Thrown
     ELSE ReadEach([i \in DOMAIN members |-> reader(members[i])], head.at)

-----------------------------------------------------------------------------
(* What they should do together, without streams and items. *)

\* The value, its strings cut at the first null character if a C string was
\* anywhere on the way, and its booleans 0 or 1.
OneCarried(cut, m, w) ==
  CASE m.kind = "message"      -> NestedCarried(cut, m.members, w)
    [] IsString(m.kind) /\ cut -> CString(w)
    [] OTHER                   -> w

MemberCarried(cut, m, w) ==
  IF m.array = "none" THEN Normal(m.kind, OneCarried(cut, m, w))
  ELSE [j \in DOMAIN w |-> OneCarried(cut, m, w[j])]

Carried(cut, members, v) == [i \in DOMAIN members |-> MemberCarried(cut, members[i], v[i])]

-----------------------------------------------------------------------------
\* What a stream can hold: nothing, or what a message is written as.
Encodings ==
  {<<>>} \cup UNION {{MessageItems(lang, t, v) : v \in Values[t]} : lang \in Langs, t \in Types}

\* The serialisers and deserialisers call themselves for a message in a message.
ASSUME NestingAssumption ==
  \A t \in Types, lang \in Langs :
     /\ \A v \in Values[t] :
           /\ NestedAccepted(lang, t, v) = Accepted(lang, t, v)
           /\ NestedItems(lang, t, v) = MessageItems(lang, t, v)
           /\ \A cut \in BOOLEAN : NestedCarried(cut, t, v) = Carried(cut, t, v)
     /\ \A items \in Encodings : \A at \in 0..Len(items) :
           NestedReading(lang, t, items, at) = ReadMessage(lang, t, items, at)
=============================================================================
