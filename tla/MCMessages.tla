----------------------------- MODULE MCMessages -----------------------------
(***************************************************************************)
(* Instances of RosMessages for TLC.  What Codec leaves to constants is    *)
(* given Codec's own operators here, which are recursive then.             *)
(***************************************************************************)
EXTENDS RosMessages

SumsOf(items) ==
  LET sum[n \in 0..Len(items)] == IF n = 0 THEN 0 ELSE sum[n - 1] + items[n].size
  IN sum
CborContents == [major : Majors, value : Seq(Int)]

-----------------------------------------------------------------------------
(* A message in a message: the codec calls itself.  (Each is a LET, which     *)
(* ends the walk over definitions that TLC's coverage statistics begin with.) *)

AcceptedNested(lang, members, v)     == LET r == Accepted(lang, members, v) IN r
ItemsNested(lang, members, v)        == LET r == MessageItems(lang, members, v) IN r
ReadNested(lang, members, items, at) == LET r == ReadMessage(lang, members, items, at) IN r
CarriedNested(cut, members, v)       == LET r == Carried(cut, members, v) IN r

-----------------------------------------------------------------------------
(* Message types and messages. *)

Member(kind, array) ==
  [kind |-> kind, array |-> array, size |-> IF array \in {"fixed", "bounded"} THEN 2 ELSE 0,
   bound |-> 0, members |-> <<>>]

Nested(members, array) == [Member("message", array) EXCEPT !.members = members]

Scalars    == <<"bool", "octet", "int", "float", "string", "wstring">>
Dimensions == <<"none", "fixed", "bounded", "unbounded">>

Three(kind) ==
  CASE kind = "bool"    -> <<1, 0, 1>>
    [] kind = "octet"   -> <<30, 0, 7>>
    [] kind = "int"     -> <<-300, 3, 30>>
    [] kind = "float"   -> <<5, 6, 5>>
    [] kind = "string"  -> <<<<65, 0, 66>>, <<>>, <<65, 66, 67, 68>>>>
    [] kind = "wstring" -> <<<<30, 0, 8>>, <<>>, <<9, 30>>>>

RECURSIVE Sample(_, _)

\* Two messages of a type, with different values, lengths and encodings.
Sample(members, n) ==
  [i \in DOMAIN members |->
     LET m == members[i]
         values == IF m.kind = "message" THEN [k \in 1..3 |-> Sample(m.members, IF k = 1 THEN 1 ELSE 2)]
                   ELSE Three(m.kind)
     IN CASE m.array = "none"  -> IF m.kind = "bool" THEN 7 * (n - 1) ELSE values[2 * n - 1]
          [] m.array = "fixed" -> SubSeq(values, n, n + 1)
          [] OTHER             -> IF n = 1 THEN <<>> ELSE SubSeq(values, 1, IF m.size = 0 THEN 3 ELSE 2)]

Pair == <<Member("int", "none"), Member("string", "none")>>

\* The kinds and arrays, messages in messages, an empty message, a string with
\* a bound, and an array with too many messages for its bound, which only C
\* can hold.
TopTypes ==
  [n \in 1..24 |-> <<Member(Scalars[(n - 1) \div 4 + 1], Dimensions[((n - 1) % 4) + 1])>>]
    \o [n \in 1..4 |-> <<Nested(Pair, Dimensions[n])>>]
    \o <<<<>>, Pair, <<Nested(<<>>, "unbounded")>>,
         <<Nested(<<Nested(Pair, "fixed")>>, "unbounded"), Member("octet", "none")>>,
         <<[Member("string", "none") EXCEPT !.bound = 1], Member("bool", "none")>>,
         <<[Nested(Pair, "bounded") EXCEPT !.size = 1]>>>>

RECURSIVE Within(_), DepthOf(_)

\* The types of the messages in a message, theirs in turn, and how deep they are.
Parts(t)   == {t[i].members : i \in {k \in DOMAIN t : t[k].kind = "message"}}
Within(t)  == {t} \cup UNION {Within(u) : u \in Parts(t)}
DepthOf(t) == Max({0} \cup {1 + DepthOf(u) : u \in Parts(t)})

MCTypes  == UNION {Within(TopTypes[n]) : n \in DOMAIN TopTypes}
MCDepth  == [t \in MCTypes |-> DepthOf(t)]
MCValues == [t \in MCTypes |-> {Sample(t, n) : n \in 1..2}]

MCSupports      == [lang : Langs, members : MCTypes]
SamplesOf(s)    == MCValues[s.members]

-----------------------------------------------------------------------------
(* Who publishes what. *)

CONSTANTS t1, t2, t3, sub

Between(from, to, n1, n2) ==
  [support |-> [x \in Threads \cup {Subscriber} |-> IF x = Subscriber THEN to ELSE from],
   calls   |-> [t \in Threads |-> IF t = t1 THEN n1 ELSE IF t = t2 THEN n2 ELSE 0]]

Top(lang, n) == [lang |-> lang, members |-> TopTypes[n]]
One(lang, kind, array) == [lang |-> lang, members |-> <<Member(kind, array)>>]

\* Every type between the two languages; types that differ; and three threads
\* that publish and take at the same time.
MCEndowments ==
  {Between(Top(l, n), Top(r, n), 1, 0) : n \in 1..(Len(TopTypes) - 1), l, r \in Langs}
    \cup {Between(Top("c", Len(TopTypes)), Top("c", Len(TopTypes)), 1, 0)}
    \cup {Between(One("cpp", "int", "none"), to, 1, 0) :
            to \in {One("c", "string", "none"), One("c", "octet", "none"), Top("c", 29), Top("c", 30)}}
    \cup {Between(One("cpp", "octet", a), One("cpp", "int", a), 1, 0) : a \in {"fixed", "unbounded"}}
    \cup {Between(One("cpp", "string", "none"), One("cpp", "string", "none"), 2 - n, n) : n \in 0..1}

=============================================================================
