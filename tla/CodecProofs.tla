----------------------------- MODULE CodecProofs ------------------------------
(* Proofs about Codec, for any message types, however deep, and any messages: *)
(* what is written in one language is read in the other.                      *)
EXTENDS Codec, SequenceTheorems, FiniteSetTheorems, WellFoundedInduction, TLAPS

-----------------------------------------------------------------------------
(* Induction, and sequences. *)

\* Course-of-values induction, for a set of numbers.
LEMMA Induction ==
  ASSUME NEW P \in SUBSET Nat,
         \A n \in Nat : (\A m \in 0..(n - 1) : m \in P) => n \in P
  PROVE  P = Nat
  <1> SUFFICES ASSUME P # Nat PROVE FALSE
    OBVIOUS
  <1> DEFINE below == {0..i : i \in Nat \ P}
  <1>1. IsWellFoundedOn(StrictSubsetOrdering(Nat), FiniteSubsetsOf(Nat))
    BY FS_StrictSubsetOrderingWellFounded
  <1>2. below \subseteq FiniteSubsetsOf(Nat) /\ below # {}
    <2>1. ASSUME NEW i \in Nat PROVE 0..i \in SUBSET Nat /\ IsFiniteSet(0..i)
      BY FS_Interval
    <2> QED
      BY <2>1 DEF FiniteSubsetsOf
  <1>3. PICK b \in below : \A c \in below : <<c, b>> \notin StrictSubsetOrdering(Nat)
    <2> HIDE DEF below
    <2> QED
      BY <1>1, <1>2, WFMin
  <1>4. PICK m \in Nat \ P : b = 0..m
    OBVIOUS
  <1>5. ASSUME NEW i \in 0..(m - 1) PROVE i \in P
    <2> SUFFICES ASSUME i \notin P PROVE FALSE
      OBVIOUS
    <2>1. 0..i \subseteq 0..m /\ m \in 0..m /\ m \notin 0..i
      OBVIOUS
    <2>2. 0..i \in SUBSET Nat /\ 0..m \in SUBSET Nat
      OBVIOUS
    <2>3. 0..i \in below
      OBVIOUS
    <2> HIDE DEF below
    <2>4. <<0..i, 0..m>> \notin StrictSubsetOrdering(Nat)
      BY <1>3, <1>4, <2>3
    <2> QED
      BY <2>1, <2>2, <2>4 DEF StrictSubsetOrdering
  <1> QED
    BY <1>5

\* A function on 1..n is a sequence of that length.
LEMMA LengthOf ==
  ASSUME NEW n \in Nat, NEW f, f = [i \in 1..n |-> f[i]]
  PROVE  Len(f) = n /\ DOMAIN f = 1..n /\ f \in Seq({f[i] : i \in 1..n})
  <1>1. f \in [1..n -> {f[i] : i \in 1..n}]
    OBVIOUS
  <1>2. f \in Seq({f[i] : i \in 1..n})
    BY <1>1, SeqDef
  <1>3. Len(f) \in Nat /\ DOMAIN f = 1..Len(f)
    BY <1>2, LenProperties
  <1>4. DOMAIN f = 1..n
    OBVIOUS
  <1>5. Len(f) = n
    BY <1>3, <1>4
  <1> QED
    BY <1>2, <1>4, <1>5

\* A function on 1..n, one value after the other.
LEMMA AppendNext ==
  ASSUME NEW n \in Nat, NEW f
  PROVE  Append([j \in 1..n |-> f[j]], f[n + 1]) = [j \in 1..(n + 1) |-> f[j]]
  <1> DEFINE s == [j \in 1..n |-> f[j]]
             S == {f[j] : j \in 1..(n + 1)}
             r == [j \in 1..(n + 1) |-> f[j]]
  <1>1. s \in [1..n -> S] /\ r \in [1..(n + 1) -> S] /\ n + 1 \in Nat
    OBVIOUS
  <1>2. s \in Seq(S) /\ r \in Seq(S) /\ f[n + 1] \in S
    BY <1>1, SeqDef
  <1>3. Len(s) = n /\ Len(r) = n + 1
    BY <1>1, <1>2, LengthOf
  <1>4. \A j \in 1..n : s[j] = f[j]
    OBVIOUS
  <1>5. \A j \in 1..(n + 1) : r[j] = f[j]
    OBVIOUS
  <1> HIDE DEF s, S, r
  <1>6. Append(s, f[n + 1]) \in Seq(S) /\ Len(Append(s, f[n + 1])) = n + 1
    BY <1>2, <1>3, AppendProperties
  <1>7. ASSUME NEW j \in 1..(n + 1) PROVE Append(s, f[n + 1])[j] = r[j]
    BY <1>2, <1>3, <1>4, <1>5, AppendProperties
  <1>8. Append(s, f[n + 1]) = r
    BY <1>2, <1>3, <1>6, <1>7, SeqEqual
  <1> QED
    BY <1>8 DEF s, r

\* w is s, and t behind it.
IsJoin(w, s, t) ==
  /\ Len(w) = Len(s) + Len(t)
  /\ \A j \in 1..Len(s) : w[j] = s[j]
  /\ \A j \in 1..Len(t) : w[Len(s) + j] = t[j]

\* s \o t is s, and t behind it.
LEMMA Concatenated ==
  ASSUME NEW S, NEW s \in Seq(S), NEW t \in Seq(S)
  PROVE  s \o t \in Seq(S) /\ Len(s) \in Nat /\ Len(t) \in Nat /\ IsJoin(s \o t, s, t)
  <1>1. PICK m \in Nat : m = Len(s)
    BY LenProperties
  <1>2. PICK n \in Nat : n = Len(t)
    BY LenProperties
  <1>3. /\ s \o t \in Seq(S) /\ Len(s \o t) = m + n
        /\ \A i \in 1..(m + n) : (s \o t)[i] = IF i <= m THEN s[i] ELSE t[i - m]
    BY <1>1, <1>2, ConcatProperties
  <1>4. ASSUME NEW j \in 1..m PROVE (s \o t)[j] = s[j]
    BY <1>3
  <1>5. ASSUME NEW j \in 1..n PROVE (s \o t)[m + j] = t[j]
    <2>1. m + j \in 1..(m + n) /\ ~(m + j <= m) /\ m + j - m = j
      OBVIOUS
    <2> QED
      BY <1>3, <2>1
  <1> QED
    BY <1>1, <1>2, <1>3, <1>4, <1>5 DEF IsJoin

\* flat is what is in the sequences parts, one after the other: part i ends
\* at ends[i].
IsCut(ends, parts, flat) ==
  /\ ends \in [0..Len(parts) -> Nat]
  /\ ends[0] = 0 /\ ends[Len(parts)] = Len(flat)
  /\ \A i \in 1..Len(parts) : ends[i] = ends[i - 1] + Len(parts[i])
  /\ \A i \in 0..Len(parts) : ends[i] <= Len(flat)
  /\ \A i \in 1..Len(parts) : \A j \in 1..Len(parts[i]) :
        flat[ends[i - 1] + j] = parts[i][j]

\* FlattenSeq() has what it is given, one after the other.
LEMMA Flattened ==
  ASSUME NEW S, NEW parts \in Seq(Seq(S))
  PROVE  /\ FlattenSeq(parts) \in Seq(S)
         /\ \E ends : IsCut(ends, parts, FlattenSeq(parts))
  <1>1. Len(parts) \in Nat /\ \A i \in 1..Len(parts) : parts[i] \in Seq(S)
    BY LenProperties, ElementOfSeq
  <1>2. ASSUME Len(parts) = 0
        PROVE  FlattenSeq(parts) \in Seq(S) /\ \E ends : IsCut(ends, parts, FlattenSeq(parts))
    <2>1. parts = <<>>
      BY <1>2, EmptySeq
    <2>2. FlattenSeq(parts) = <<>>
      BY <1>2, <2>1 DEF FlattenSeq
    <2>3. IsCut([i \in 0..0 |-> 0], parts, <<>>)
      BY <2>1, EmptySeq DEF IsCut
    <2> QED
      BY <2>2, <2>3, EmptySeq
  <1> SUFFICES ASSUME Len(parts) # 0
               PROVE  FlattenSeq(parts) \in Seq(S) /\ \E ends : IsCut(ends, parts, FlattenSeq(parts))
    BY <1>2
  <1>3. PICK n \in Nat : n = Len(parts)
    BY <1>1
  <1>4. n \in Nat \ {0} /\ \A i \in 1..n : parts[i] \in Seq(S)
    BY <1>1, <1>3
  <1> DEFINE Joined(f, k) == /\ f \in [1..k -> Seq(S)]
                             /\ \A i \in 1..k : f[i] = IF i = 1 THEN parts[i] ELSE f[i - 1] \o parts[i]
             Good == {k \in Nat : k <= n => \E f : Joined(f, k)}
  <1>5. \E f : Joined(f, n)
    <2>1. ASSUME NEW k \in Nat, \A m \in 0..(k - 1) : m \in Good PROVE k \in Good
      <3> SUFFICES ASSUME k <= n PROVE \E f : Joined(f, k)
        OBVIOUS
      <3>1. CASE k = 0
        <4>1. Joined([i \in 1..0 |-> <<>>], k)
          BY <3>1
        <4> QED
          BY <4>1
      <3>2. CASE k # 0
        <4>1. PICK f : Joined(f, k - 1)
          <5>1. k - 1 \in 0..(k - 1) /\ k - 1 <= n
            BY <1>4, <3>2
          <5>2. k - 1 \in Good
            <6> HIDE DEF Good
            <6> QED
              BY <2>1, <5>1
          <5> QED
            BY <5>1, <5>2
        <4> DEFINE last == IF k = 1 THEN parts[k] ELSE f[k - 1] \o parts[k]
                   g == [i \in 1..k |-> IF i = k THEN last ELSE f[i]]
        <4>2. last \in Seq(S)
          BY <1>4, <3>2, <4>1, ConcatProperties
        <4>3. Joined(g, k)
          <5>1. g \in [1..k -> Seq(S)]
            BY <4>1, <4>2
          <5>2. ASSUME NEW i \in 1..k
                PROVE  g[i] = IF i = 1 THEN parts[i] ELSE g[i - 1] \o parts[i]
            <6>1. CASE i = k
              BY <3>2, <6>1
            <6>2. CASE i # k
              <7>1. i \in 1..(k - 1) /\ (i # 1 => i - 1 \in 1..(k - 1))
                BY <6>2
              <7>2. f[i] = IF i = 1 THEN parts[i] ELSE f[i - 1] \o parts[i]
                BY <4>1, <7>1
              <7>3. g[i] = f[i] /\ (i # 1 => g[i - 1] = f[i - 1])
                BY <7>1
              <7> QED
                BY <7>2, <7>3
            <6> QED
              BY <6>1, <6>2
          <5> QED
            BY <5>1, <5>2
        <4> QED
          BY <4>3
      <3> QED
        BY <3>1, <3>2
    <2> HIDE DEF Joined
    <2>2. Good = Nat
      <3> HIDE DEF Good
      <3>1. Good \in SUBSET Nat
        BY DEF Good
      <3> QED
        BY <2>1, <3>1, Induction
    <2>3. n \in Good
      <3> HIDE DEF Good
      <3> QED
        BY <2>2
    <2> QED
      BY <2>3
  <1> DEFINE flatten == CHOOSE f : f = [i \in 1..n |-> IF i = 1 THEN parts[i] ELSE f[i - 1] \o parts[i]]
  <1>6. FlattenSeq(parts) = flatten[n]
    BY <1>3 DEF FlattenSeq
  <1>7. ASSUME NEW i \in 1..n
        PROVE  flatten[i] = IF i = 1 THEN parts[i] ELSE flatten[i - 1] \o parts[i]
    <2>1. PICK f : Joined(f, n)
      BY <1>5
    <2>2. f = [k \in 1..n |-> IF k = 1 THEN parts[k] ELSE f[k - 1] \o parts[k]]
      BY <2>1
    <2>3. flatten = [k \in 1..n |-> IF k = 1 THEN parts[k] ELSE flatten[k - 1] \o parts[k]]
      BY <2>2
    <2> HIDE DEF flatten
    <2> QED
      BY <2>3
  <1> HIDE DEF flatten
  <1> DEFINE whole == {k \in Nat : k \in 1..n => flatten[k] \in Seq(S)}
  <1>8. \A k \in 1..n : flatten[k] \in Seq(S)
    <2>1. ASSUME NEW k \in Nat, \A m \in 0..(k - 1) : m \in whole PROVE k \in whole
      <3>1. CASE k \in 2..n
        <4>1. flatten[k - 1] \in Seq(S) /\ flatten[k] = flatten[k - 1] \o parts[k]
          <5>1. k - 1 \in 0..(k - 1) /\ k - 1 \in 1..n /\ k \in 1..n /\ k # 1
            BY <1>4, <3>1
          <5>2. k - 1 \in whole
            BY <2>1, <5>1
          <5> QED
            BY <1>7, <5>1, <5>2
        <4>2. parts[k] \in Seq(S)
          BY <1>4, <3>1
        <4> QED
          BY <4>1, <4>2, ConcatProperties
      <3>2. CASE k = 1
        BY <1>4, <1>7, <3>2
      <3> QED
        BY <1>4, <3>1, <3>2
    <2>2. whole = Nat
      <3>1. whole \in SUBSET Nat
        OBVIOUS
      <3> HIDE DEF whole
      <3> QED
        BY <2>1, <3>1, Induction
    <2>3. ASSUME NEW k \in 1..n PROVE k \in whole
      <3> HIDE DEF whole
      <3> QED
        BY <1>4, <2>2
    <2> QED
      BY <2>3
  <1> DEFINE ends == [i \in 0..n |-> IF i = 0 THEN 0 ELSE Len(flatten[i])]
  <1>9. ends \in [0..n -> Nat] /\ ends[0] = 0 /\ ends[n] = Len(flatten[n])
    BY <1>4, <1>8, LenProperties
  <1>10. ASSUME NEW i \in 1..n
        PROVE  /\ ends[i] = ends[i - 1] + Len(parts[i])
               /\ \A j \in 1..Len(parts[i]) : flatten[i][ends[i - 1] + j] = parts[i][j]
               /\ i # 1 => \A j \in 1..ends[i - 1] : flatten[i][j] = flatten[i - 1][j]
    <2>1. CASE i = 1
      <3>1. flatten[i] = parts[i] /\ ends[i - 1] = 0 /\ ends[i] = Len(parts[i])
        BY <1>7, <2>1
      <3> QED
        BY <1>4, <2>1, <3>1, LenProperties
    <2>2. CASE i # 1
      <3>1. i - 1 \in 1..n
        BY <1>4, <2>2
      <3>2. flatten[i] = flatten[i - 1] \o parts[i]
        BY <1>7, <2>2
      <3>3. flatten[i - 1] \in Seq(S) /\ parts[i] \in Seq(S)
        BY <1>4, <1>8, <3>1
      <3>4. ends[i - 1] = Len(flatten[i - 1]) /\ ends[i] = Len(flatten[i])
        BY <1>4, <2>2, <3>1
      <3>5. Len(flatten[i - 1]) \in Nat /\ Len(parts[i]) \in Nat
        BY <3>3, LenProperties
      <3> HIDE DEF ends
      <3>6. /\ Len(flatten[i]) = Len(flatten[i - 1]) + Len(parts[i])
            /\ \A j \in 1..Len(flatten[i - 1]) : flatten[i][j] = flatten[i - 1][j]
            /\ \A j \in 1..Len(parts[i]) : flatten[i][Len(flatten[i - 1]) + j] = parts[i][j]
        <4>1. IsJoin(flatten[i], flatten[i - 1], parts[i])
          BY <3>2, <3>3, Concatenated
        <4> QED
          BY <4>1 DEF IsJoin
      <3> QED
        BY <3>4, <3>6
    <2> QED
      BY <2>1, <2>2
  <1> HIDE DEF ends
  <1> DEFINE kept == {k \in Nat : k \in 1..n =>
                        \A i \in 1..k : /\ ends[i] <= ends[k]
                                        /\ \A j \in 1..ends[i] : flatten[k][j] = flatten[i][j]}
  <1>11. \A k \in 1..n : \A i \in 1..k :
           /\ ends[i] <= ends[k]
           /\ \A j \in 1..ends[i] : flatten[k][j] = flatten[i][j]
    <2>1. ASSUME NEW k \in Nat, \A m \in 0..(k - 1) : m \in kept PROVE k \in kept
      <3> SUFFICES ASSUME k \in 1..n, NEW i \in 1..k
                   PROVE  ends[i] <= ends[k] /\ \A j \in 1..ends[i] : flatten[k][j] = flatten[i][j]
        OBVIOUS
      <3>1. CASE i = k
        BY <1>9, <3>1
      <3>2. CASE i # k
        <4>1. k - 1 \in kept /\ k - 1 \in 1..n /\ i \in 1..(k - 1)
          <5>1. k - 1 \in 1..n /\ i \in 1..(k - 1) /\ k - 1 \in 0..(k - 1)
            BY <1>4, <3>2
          <5> QED
            BY <2>1, <5>1
        <4>2. ends[i] <= ends[k - 1] /\ \A j \in 1..ends[i] : flatten[k - 1][j] = flatten[i][j]
          BY <4>1
        <4>3. /\ ends[k] = ends[k - 1] + Len(parts[k])
              /\ \A j \in 1..ends[k - 1] : flatten[k][j] = flatten[k - 1][j]
          BY <1>10, <4>1
        <4>4. ends[i] \in Nat /\ ends[k - 1] \in Nat /\ ends[k] \in Nat /\ Len(parts[k]) \in Nat
          <5>1. i \in 0..n /\ k - 1 \in 0..n /\ k \in 0..n
            BY <1>4, <4>1
          <5>2. parts[k] \in Seq(S)
            BY <1>4
          <5> QED
            BY <1>9, <5>1, <5>2, LenProperties
        <4>5. \A j \in 1..ends[i] : j \in 1..ends[k - 1]
          BY <4>2, <4>4
        <4>6. ends[i] <= ends[k]
          BY <4>2, <4>3, <4>4
        <4> QED
          BY <4>2, <4>3, <4>5, <4>6
      <3> QED
        BY <3>1, <3>2
    <2>2. kept = Nat
      <3>1. kept \in SUBSET Nat
        OBVIOUS
      <3> HIDE DEF kept
      <3> QED
        BY <2>1, <3>1, Induction
    <2>3. ASSUME NEW k \in 1..n PROVE k \in kept
      <3> HIDE DEF kept
      <3> QED
        BY <1>4, <2>2
    <2> QED
      BY <2>3
  <1>12. \A i \in 0..n : ends[i] <= Len(flatten[n])
    BY <1>4, <1>9, <1>11
  <1>13. ASSUME NEW i \in 1..n, NEW j \in 1..Len(parts[i])
         PROVE  flatten[n][ends[i - 1] + j] = parts[i][j]
    <2>1. ends[i - 1] \in Nat /\ ends[i] \in Nat /\ Len(parts[i]) \in Nat
      <3>1. i - 1 \in 0..n /\ i \in 0..n
        BY <1>4
      <3>2. parts[i] \in Seq(S)
        BY <1>4
      <3> QED
        BY <1>9, <3>1, <3>2, LenProperties
    <2>2. ends[i - 1] + j \in 1..ends[i]
      BY <1>10, <2>1
    <2>3. flatten[n][ends[i - 1] + j] = flatten[i][ends[i - 1] + j]
      BY <1>4, <1>11, <2>2
    <2> QED
      BY <1>10, <2>3
  <1>14. IsCut(ends, parts, flatten[n])
    BY <1>3, <1>9, <1>10, <1>12, <1>13 DEF IsCut
  <1> QED
    BY <1>4, <1>6, <1>8, <1>14

-----------------------------------------------------------------------------
(* Readers. *)

CborItems == [content : [major : Majors, value : Seq(Int)], size : Nat]

\* The items e are in items, from position p on.
Stands(e, items, p) ==
  /\ p \in Nat /\ Len(e) \in Nat /\ p + Len(e) <= Len(items)
  /\ \A j \in 1..Len(e) : items[p + j] = e[j]

\* Wherever the items e are, the reader makes v of them and goes on behind them.
Reads(reader, items, e, v) ==
  \A p \in 0..Len(items) : Stands(e, items, p) => reader[p] = Read(v, p + Len(e))

\* Items are where they are.
LEMMA AllStand ==
  ASSUME NEW items, Len(items) \in Nat
  PROVE  Stands(items, items, 0)
  BY DEF Stands

\* Of two sequences of items, the second stands behind the first.
LEMMA BothStand ==
  ASSUME NEW S, NEW s \in Seq(S), NEW t \in Seq(S), NEW items \in Seq(S), NEW p,
         Stands(s \o t, items, p)
  PROVE  /\ Stands(s, items, p)
         /\ Stands(t, items, p + Len(s)) /\ p + Len(s) \in 0..Len(items)
         /\ Len(s \o t) = Len(s) + Len(t)
  <1>1. Len(s) \in Nat /\ Len(t) \in Nat /\ Len(items) \in Nat /\ IsJoin(s \o t, s, t)
    BY Concatenated, LenProperties
  <1> DEFINE w == s \o t
  <1>2. IsJoin(w, s, t) /\ Stands(w, items, p)
    BY <1>1
  <1> HIDE DEF w
  <1>3. /\ p \in Nat /\ Len(w) = Len(s) + Len(t) /\ p + Len(w) <= Len(items)
        /\ \A j \in 1..Len(s) : w[j] = s[j]
        /\ \A j \in 1..Len(t) : w[Len(s) + j] = t[j]
        /\ \A j \in 1..Len(w) : items[p + j] = w[j]
    BY <1>2 DEF IsJoin, Stands
  <1>4. Stands(s, items, p)
    <2>1. ASSUME NEW j \in 1..Len(s) PROVE items[p + j] = s[j]
      <3>1. j \in 1..Len(w)
        BY <1>1, <1>3
      <3> QED
        BY <1>3, <3>1
    <2> QED
      BY <1>1, <1>3, <2>1 DEF Stands
  <1>5. Stands(t, items, p + Len(s))
    <2>1. ASSUME NEW j \in 1..Len(t) PROVE items[p + Len(s) + j] = t[j]
      <3>1. Len(s) + j \in 1..Len(w) /\ p + Len(s) + j = p + (Len(s) + j)
        BY <1>1, <1>3
      <3> QED
        BY <1>3, <3>1
    <2>2. p + Len(s) \in Nat /\ p + Len(s) + Len(t) <= Len(items)
      BY <1>1, <1>3
    <2> QED
      BY <1>1, <2>1, <2>2 DEF Stands
  <1>6. p + Len(s) \in 0..Len(items)
    BY <1>1, <1>3
  <1> QED
    BY <1>3, <1>4, <1>5, <1>6 DEF w

\* Part i of items that begin at p, ends[i - 1] to ends[i] of them, is there.
IsPlaced(parts, items, ends, p, i) ==
  /\ p + ends[i - 1] \in 0..Len(items)
  /\ Stands(parts[i], items, p + ends[i - 1])
  /\ p + ends[i - 1] + Len(parts[i]) = p + ends[i]

\* Of several sequences of items, each stands behind those before it.
LEMMA PartsStand ==
  ASSUME NEW S, NEW parts \in Seq(Seq(S)), NEW flat \in Seq(S), NEW items \in Seq(S),
         NEW ends, IsCut(ends, parts, flat), NEW p, Stands(flat, items, p),
         NEW i \in 1..Len(parts)
  PROVE  IsPlaced(parts, items, ends, p, i)
  <1>1. /\ Len(parts) \in Nat /\ parts[i] \in Seq(S)
        /\ Len(flat) \in Nat /\ Len(items) \in Nat
    BY LenProperties, ElementOfSeq
  <1>2. Len(parts[i]) \in Nat
    BY <1>1, LenProperties
  <1>3. i - 1 \in 0..Len(parts) /\ i \in 0..Len(parts)
    BY <1>1
  <1>4. /\ ends[i - 1] \in Nat /\ ends[i] \in Nat
        /\ ends[i] = ends[i - 1] + Len(parts[i]) /\ ends[i] <= Len(flat)
        /\ \A j \in 1..Len(parts[i]) : flat[ends[i - 1] + j] = parts[i][j]
    BY <1>3 DEF IsCut
  <1>5. /\ p \in Nat /\ p + Len(flat) <= Len(items)
        /\ \A j \in 1..Len(flat) : items[p + j] = flat[j]
    BY DEF Stands
  <1>6. PICK a \in Nat : a = ends[i - 1]
    BY <1>4
  <1>7. PICK c \in Nat : c = Len(parts[i])
    BY <1>2
  <1>8. PICK l \in Nat, m \in Nat : l = Len(flat) /\ m = Len(items)
    BY <1>1
  <1>9. ends[i] = a + c /\ a + c <= l /\ p + l <= m
    BY <1>4, <1>5, <1>6, <1>7, <1>8
  <1>10. p + a \in 0..m /\ p + a \in Nat /\ p + a + c = p + (a + c) /\ p + a + c <= m
    BY <1>5, <1>9
  <1>11. ASSUME NEW j \in 1..c PROVE items[p + a + j] = parts[i][j]
    <2>1. a + j \in 1..l /\ p + a + j = p + (a + j)
      BY <1>5, <1>9
    <2>2. items[p + (a + j)] = flat[a + j]
      BY <1>5, <1>8, <2>1
    <2>3. flat[a + j] = parts[i][j]
      BY <1>4, <1>6, <1>7
    <2> QED
      BY <2>1, <2>2, <2>3
  <1>12. Stands(parts[i], items, p + a)
    BY <1>7, <1>8, <1>10, <1>11 DEF Stands
  <1>13. p + a + Len(parts[i]) = p + ends[i]
    BY <1>7, <1>9, <1>10
  <1> QED
    BY <1>6, <1>8, <1>10, <1>12, <1>13 DEF IsPlaced

\* Each reader reads a part, as one of the values.
EachIsRead(readers, items, parts, values) ==
  /\ Len(readers) = Len(parts)
  /\ values = [i \in 1..Len(parts) |-> values[i]]
  /\ \A i \in 1..Len(parts) : Reads(readers[i], items, parts[i], values[i])

\* ReadEach() of readers that read parts reads all of them.
LEMMA EachReads ==
  ASSUME NEW S, NEW items \in Seq(S), NEW parts \in Seq(Seq(S)),
         NEW readers, NEW values, EachIsRead(readers, items, parts, values),
         NEW p, Stands(FlattenSeq(parts), items, p)
  PROVE  ReadEach(readers, p) = Read(values, p + Len(FlattenSeq(parts)))
  <1>1. PICK n \in Nat : n = Len(parts)
    BY LenProperties
  <1>2. FlattenSeq(parts) \in Seq(S)
    BY Flattened
  <1>3. PICK ends : IsCut(ends, parts, FlattenSeq(parts))
    BY Flattened
  <1>4. ends[0] = 0 /\ ends[n] = Len(FlattenSeq(parts)) /\ p \in Nat /\ p + 0 = p
    BY <1>1, <1>3 DEF IsCut, Stands
  <1>5. ASSUME NEW i \in 1..n
        PROVE  readers[i][p + ends[i - 1]] = Read(values[i], p + ends[i])
    <2>1. i \in 1..Len(parts)
      BY <1>1
    <2>2. IsPlaced(parts, items, ends, p, i)
      BY <1>2, <1>3, <2>1, PartsStand
    <2>3. Reads(readers[i], items, parts[i], values[i])
      BY <2>1 DEF EachIsRead
    <2> QED
      BY <2>2, <2>3 DEF IsPlaced, Reads
  <1> DEFINE Step(g, i) == IF i = 0 THEN Read(<<>>, p)
                           ELSE LET before == g[i - 1]
                                    next   == readers[i][before.at]
                                IN IF before.ok /\ next.ok
                                   THEN Read(Append(before.value, next.value), next.at)
                                   ELSE Thrown
             f == [i \in 0..n |-> Read([j \in 1..i |-> values[j]], p + ends[i])]
             done == CHOOSE g : g = [i \in 0..n |-> Step(g, i)]
  <1>6. ReadEach(readers, p) = done[n]
    <2>1. Len(readers) = n
      BY <1>1 DEF EachIsRead
    <2> QED
      BY <2>1 DEF ReadEach
  <1>7. ASSUME NEW g, NEW i \in 0..n, i # 0 => g[i - 1] = f[i - 1]
        PROVE  Step(g, i) = f[i]
    <2>1. CASE i = 0
      <3>1. [j \in 1..0 |-> values[j]] = <<>>
        OBVIOUS
      <3> QED
        BY <1>4, <2>1, <3>1
    <2>2. CASE i # 0
      <3>1. i - 1 \in 0..n /\ i - 1 \in Nat /\ i \in 1..n /\ (i - 1) + 1 = i
        BY <2>2
      <3>2. g[i - 1] = Read([j \in 1..(i - 1) |-> values[j]], p + ends[i - 1])
        BY <2>2, <3>1, <1>7
      <3>3. readers[i][p + ends[i - 1]] = Read(values[i], p + ends[i])
        BY <1>5, <3>1
      <3>4. Append([j \in 1..(i - 1) |-> values[j]], values[i]) = [j \in 1..i |-> values[j]]
        BY <3>1, AppendNext
      <3>5. /\ g[i - 1].ok /\ g[i - 1].at = p + ends[i - 1]
            /\ g[i - 1].value = [j \in 1..(i - 1) |-> values[j]]
        BY <3>2 DEF Read
      <3>6. Step(g, i) = Read(Append(g[i - 1].value, values[i]), p + ends[i])
        <4>1. /\ readers[i][g[i - 1].at].ok /\ readers[i][g[i - 1].at].at = p + ends[i]
              /\ readers[i][g[i - 1].at].value = values[i]
          <5>1. readers[i][g[i - 1].at] = Read(values[i], p + ends[i])
            BY <3>3, <3>5
          <5>2. ASSUME NEW v, NEW q
                PROVE  Read(v, q).ok /\ Read(v, q).at = q /\ Read(v, q).value = v
            BY DEF Read
          <5> QED
            BY <5>1, <5>2
        <4> QED
          BY <2>2, <3>5, <4>1
      <3> QED
        BY <3>4, <3>5, <3>6
    <2> QED
      BY <2>1, <2>2
  <1>8. done = [i \in 0..n |-> Step(done, i)]
    <2>1. f = [i \in 0..n |-> Step(f, i)]
      <3> DEFINE h == [i \in 0..n |-> Step(f, i)]
      <3>1. ASSUME NEW i \in 0..n PROVE f[i] = Step(f, i)
        <4> HIDE DEF f, Step
        <4> QED
          BY <1>7
      <3>2. f = [i \in 0..n |-> f[i]]
        OBVIOUS
      <3> HIDE DEF f, Step
      <3> QED
        BY <3>1, <3>2
    <2> HIDE DEF f, Step
    <2> QED
      BY <2>1
  <1> HIDE DEF done, f, Step
  <1> DEFINE Same == {k \in Nat : k <= n => done[k] = f[k]}
  <1>9. ASSUME NEW k \in Nat, \A m \in 0..(k - 1) : m \in Same PROVE k \in Same
    <2> SUFFICES ASSUME k <= n PROVE done[k] = f[k]
      OBVIOUS
    <2>1. k \in 0..n
      BY <1>1
    <2>2. done[k] = Step(done, k)
      BY <1>8, <2>1
    <2>3. k # 0 => done[k - 1] = f[k - 1]
      <3> SUFFICES ASSUME k # 0 PROVE done[k - 1] = f[k - 1]
        OBVIOUS
      <3>1. k - 1 \in 0..(k - 1) /\ k - 1 <= n
        BY <1>1
      <3> QED
        BY <1>9, <3>1
    <2> QED
      BY <1>7, <2>2, <2>1, <2>3
  <1>10. Same = Nat
    <2>1. Same \in SUBSET Nat
      OBVIOUS
    <2> HIDE DEF Same
    <2> QED
      BY <1>9, <2>1, Induction
  <1>11. n \in Same
    <2> HIDE DEF Same
    <2> QED
      BY <1>10
  <1>12. done[n] = f[n]
    BY <1>11
  <1>13. f[n] = Read([j \in 1..n |-> values[j]], p + ends[n])
    BY DEF f
  <1>14. values = [j \in 1..n |-> values[j]]
    BY <1>1 DEF EachIsRead
  <1>15. ReadEach(readers, p) = Read([j \in 1..n |-> values[j]], p + ends[n])
    BY <1>6, <1>12, <1>13
  <1> QED
    BY <1>4, <1>15, <1>14

-----------------------------------------------------------------------------
(* Items, scalars and arrays. *)

\* What is written of a scalar.
Writable(kind) ==
  CASE kind = "octet"   -> Octets
    [] kind = "string"  -> Seq(Octets)
    [] kind = "wstring" -> Seq(WChars)
    [] OTHER            -> Int

\* What is written is items.
LEMMA ItemsAreItems ==
  /\ \A n \in Int : Number(n) \in CborItems /\ Float(n) \in CborItems /\ Bool(n) \in CborItems
  /\ \A n \in Int : ArrayOf(n) \in CborItems
  /\ \A s \in Seq(Int) : Text(s) \in CborItems /\ Bytes(s) \in CborItems
  <1>1. ASSUME NEW n \in Int PROVE HeadSize(n) \in Nat /\ <<n>> \in Seq(Int)
    BY DEF HeadSize
  <1>2. ASSUME NEW s \in Seq(Int) PROVE HeadSize(Len(s)) + Len(s) \in Nat
    <2>1. Len(s) \in Nat
      BY LenProperties
    <2> QED
      BY <1>1, <2>1
  <1>3. ASSUME NEW major \in Majors, NEW value \in Seq(Int), NEW size \in Nat
        PROVE  Item(major, value, size) \in CborItems
    BY DEF Item, CborItems
  <1>4. {"int", "float", "bool", "text", "bytes", "array"} \subseteq Majors
    BY DEF Majors
  <1>5. ASSUME NEW n \in Int
        PROVE  /\ Number(n) \in CborItems /\ Float(n) \in CborItems
               /\ Bool(n) \in CborItems /\ ArrayOf(n) \in CborItems
    <2> HIDE DEF CborItems
    <2> QED
      BY <1>1, <1>3, <1>4 DEF Number, Float, Bool, ArrayOf
  <1>6. ASSUME NEW s \in Seq(Int) PROVE Text(s) \in CborItems /\ Bytes(s) \in CborItems
    BY <1>2, <1>3, <1>4 DEF Text, Bytes
  <1> QED
    BY <1>5, <1>6

\* e is one item, with this major type and value.
IsItem(e, major, value) == \E size : e = <<Item(major, value, size)>>

\* What each kind of item holds.
LEMMA ItemsAre ==
  /\ \A n : /\ IsItem(<<Number(n)>>, "int", <<n>>) /\ IsItem(<<Float(n)>>, "float", <<n>>)
            /\ IsItem(<<Bool(n)>>, "bool", <<n>>) /\ IsItem(<<ArrayOf(n)>>, "array", <<n>>)
  /\ \A s : IsItem(<<Text(s)>>, "text", s) /\ IsItem(<<Bytes(s)>>, "bytes", s)
  BY DEF IsItem, Number, Float, Bool, ArrayOf, Text, Bytes

\* One item is read if it has the major type that is asked for.
LEMMA ItemReads ==
  ASSUME NEW items, NEW p, NEW e, NEW major, NEW value, IsItem(e, major, value),
         Stands(e, items, p)
  PROVE  ReadItem(major, items, p) = Read(value, p + Len(e)) /\ Len(e) = 1 /\ p \in Nat
  <1>1. PICK size : e = <<Item(major, value, size)>>
    BY DEF IsItem
  <1>2. PICK item : item = Item(major, value, size)
    OBVIOUS
  <1>3. item.content.major = major /\ item.content.value = value
    BY <1>2 DEF Item
  <1>4. Len(e) = 1 /\ e[1] = item
    BY <1>1, <1>2
  <1>5. p \in Nat /\ p < Len(items) /\ items[p + 1] = item
    <2>1. p \in Nat /\ p + 1 <= Len(items) /\ 1 \in 1..1
      BY <1>4 DEF Stands
    <2> QED
      BY <1>4, <2>1 DEF Stands
  <1>6. ReadItem(major, items, p) = Read(value, p + 1)
    BY <1>3, <1>5 DEF ReadItem
  <1> QED
    BY <1>4, <1>5, <1>6

\* An item with one number.
LEMMA OneReads ==
  ASSUME NEW items, NEW p, NEW e, NEW major, NEW n, IsItem(e, major, <<n>>), Stands(e, items, p)
  PROVE  ReadOne(major, items, p) = Read(n, p + Len(e)) /\ Len(e) = 1 /\ p \in Nat
  <1>1. ReadItem(major, items, p) = Read(<<n>>, p + Len(e)) /\ Len(e) = 1 /\ p \in Nat
    BY ItemReads
  <1>2. <<n>>[1] = n
    OBVIOUS
  <1>3. ASSUME NEW v, NEW q PROVE Read(v, q).ok /\ Read(v, q).value = v /\ Read(v, q).at = q
    BY DEF Read
  <1>4. ReadOne(major, items, p) = Read(<<n>>[1], p + Len(e))
    BY <1>1, <1>3 DEF ReadOne
  <1> QED
    BY <1>1, <1>2, <1>4

\* whole is an item with the number of parts, and the parts.
IsArray(whole, major, parts) ==
  \E first \in CborItems :
     /\ IsItem(<<first>>, major, <<Len(parts)>>)
     /\ whole = <<first>> \o FlattenSeq(parts)

\* One reader reads every part, as one of the values.
AllRead(reader, items, parts, values) ==
  /\ values = [i \in 1..Len(parts) |-> values[i]]
  /\ \A i \in 1..Len(parts) : Reads(reader, items, parts[i], values[i])

\* As many copies of it, then.
LEMMA CopiesRead ==
  ASSUME NEW items, NEW S, NEW parts \in Seq(S), NEW reader,
         NEW values, AllRead(reader, items, parts, values)
  PROVE  EachIsRead([i \in 1..Len(parts) |-> reader], items, parts, values)
  <1>1. PICK n \in Nat : n = Len(parts)
    BY LenProperties
  <1>2. PICK readers : readers = [i \in 1..n |-> reader]
    OBVIOUS
  <1>3. Len(readers) = n
    <2>1. readers = [i \in 1..n |-> readers[i]]
      BY <1>2
    <2> QED
      BY <2>1, LengthOf
  <1>4. \A i \in 1..n : readers[i] = reader
    BY <1>2
  <1>5. EachIsRead(readers, items, parts, values)
    BY <1>1, <1>3, <1>4 DEF AllRead, EachIsRead
  <1> QED
    BY <1>1, <1>2, <1>5

\* An array is read if its length comes first and its elements are read.
LEMMA ArrayReads ==
  ASSUME NEW items \in Seq(CborItems), NEW parts \in Seq(Seq(CborItems)), NEW reader,
         NEW values, AllRead(reader, items, parts, values),
         NEW whole, NEW major, IsArray(whole, major, parts), NEW p, Stands(whole, items, p)
  PROVE  ReadArray(reader, major, items, p) = Read(values, p + Len(whole))
  <1>1. PICK n \in Nat : n = Len(parts)
    BY LenProperties
  <1>2. PICK first \in CborItems : /\ IsItem(<<first>>, major, <<Len(parts)>>)
                                  /\ whole = <<first>> \o FlattenSeq(parts)
    BY DEF IsArray
  <1>3. PICK head \in Seq(CborItems) : head = <<first>>
    <2>1. <<first>> \in Seq(CborItems)
      OBVIOUS
    <2> QED
      BY <2>1
  <1>4. PICK rest \in Seq(CborItems) : rest = FlattenSeq(parts)
    BY Flattened
  <1>5. /\ Stands(head, items, p) /\ Stands(rest, items, p + Len(head))
        /\ Len(whole) = Len(head) + Len(rest)
    <2>1. whole = head \o rest
      BY <1>2, <1>3, <1>4
    <2>2. Stands(head \o rest, items, p)
      BY <2>1
    <2>3. /\ Stands(head, items, p) /\ Stands(rest, items, p + Len(head))
          /\ Len(head \o rest) = Len(head) + Len(rest)
      BY <2>2, BothStand
    <2> QED
      BY <2>1, <2>3
  <1>6. ReadOne(major, items, p) = Read(n, p + Len(head)) /\ Len(head) = 1 /\ p \in Nat
    <2>1. IsItem(head, major, <<n>>)
      BY <1>1, <1>2, <1>3
    <2> QED
      BY <1>5, <2>1, OneReads
  <1> DEFINE readers == [i \in 1..n |-> reader]
  <1>7. ReadArray(reader, major, items, p) = ReadEach(readers, p + Len(head))
    <2>1. ASSUME NEW v, NEW q PROVE Read(v, q).ok /\ Read(v, q).value = v /\ Read(v, q).at = q
      BY DEF Read
    <2> QED
      BY <1>6, <2>1 DEF ReadArray
  <1>8. PICK q : q = p + Len(head)
    OBVIOUS
  <1>9. ReadEach(readers, q) = Read(values, q + Len(rest))
    <2>1. Stands(FlattenSeq(parts), items, q)
      BY <1>4, <1>5, <1>8
    <2>2. EachIsRead(readers, items, parts, values)
      BY <1>1, CopiesRead
    <2> HIDE DEF readers
    <2>3. ReadEach(readers, q) = Read(values, q + Len(FlattenSeq(parts)))
      BY <2>1, <2>2, EachReads
    <2> QED
      BY <1>4, <2>3
  <1>10. q + Len(rest) = p + Len(whole)
    <2>1. Len(rest) \in Nat
      BY LenProperties
    <2> QED
      BY <1>5, <1>6, <1>8, <2>1
  <1> QED
    BY <1>7, <1>8, <1>9, <1>10

ArrayReader(reader, items) == [p \in 0..Len(items) |-> ReadArray(reader, "array", items, p)]

\* An array is its length and its parts, and read as such.
LEMMA CountedReads ==
  ASSUME NEW items \in Seq(CborItems), NEW parts \in Seq(Seq(CborItems)), NEW reader,
         NEW values, AllRead(reader, items, parts, values)
  PROVE  /\ Counted(parts) \in Seq(CborItems)
         /\ Reads(ArrayReader(reader, items), items, Counted(parts), values)
  <1> DEFINE n == Len(parts)
  <1>1. n \in Int /\ ArrayOf(n) \in CborItems
    BY LenProperties, ItemsAreItems
  <1>2. Counted(parts) \in Seq(CborItems)
    <2>1. <<ArrayOf(n)>> \in Seq(CborItems) /\ FlattenSeq(parts) \in Seq(CborItems)
      BY <1>1, Flattened
    <2> QED
      BY <2>1, Concatenated DEF Counted
  <1>3. IsArray(Counted(parts), "array", parts)
    BY <1>1, ItemsAre DEF IsArray, Counted
  <1>4. ASSUME NEW p, Stands(Counted(parts), items, p)
        PROVE  ReadArray(reader, "array", items, p) = Read(values, p + Len(Counted(parts)))
    BY <1>3, <1>4, ArrayReads
  <1> QED
    BY <1>2, <1>4 DEF Reads, ArrayReader

\* Octets and characters are integers.
LEMMA Ranges == Octets \subseteq Int /\ WChars \subseteq Int
  BY DEF Octets, WChars

\* An item that is a number in a limited range.
LEMMA NumberReads ==
  ASSUME NEW items, NEW range, NEW w \in range, NEW p, Stands(<<Number(w)>>, items, p)
  PROVE  ReadNumber(range, items, p) = Read(w, p + Len(<<Number(w)>>))
  <1>1. ReadOne("int", items, p) = Read(w, p + Len(<<Number(w)>>))
    BY ItemsAre, OneReads
  <1>2. ASSUME NEW v, NEW q PROVE Read(v, q).ok /\ Read(v, q).value = v
    BY DEF Read
  <1> QED
    BY <1>1, <1>2 DEF ReadNumber

\* The items of numbers, and readers of them.
Numbers(w) == [i \in DOMAIN w |-> <<Number(w[i])>>]
NumberReader(range, items) == [q \in 0..Len(items) |-> ReadNumber(range, items, q)]

\* A sequence of numbers, each an item.
LEMMA NumbersRead ==
  ASSUME NEW items \in Seq(CborItems), NEW range \in SUBSET Int, NEW w \in Seq(range)
  PROVE  /\ Counted(Numbers(w)) \in Seq(CborItems)
         /\ Reads(ArrayReader(NumberReader(range, items), items), items, Counted(Numbers(w)), w)
  <1> DEFINE parts == Numbers(w)
             reader == NumberReader(range, items)
  <1> USE DEF Numbers, NumberReader
  <1>1. PICK n \in Nat : n = Len(w) /\ DOMAIN w = 1..n /\ w = [i \in 1..n |-> w[i]]
    BY LenProperties
  <1>2. ASSUME NEW i \in 1..n PROVE w[i] \in range /\ Number(w[i]) \in CborItems
    <2>1. w[i] \in range
      BY <1>1, ElementOfSeq
    <2> QED
      BY <2>1, ItemsAreItems
  <1>3. parts \in Seq(Seq(CborItems)) /\ Len(parts) = n
    <2>1. ASSUME NEW i \in 1..n PROVE <<Number(w[i])>> \in Seq(CborItems)
      BY <1>2
    <2>2. parts \in [1..n -> Seq(CborItems)] /\ parts = [i \in 1..n |-> parts[i]]
      BY <1>1, <2>1
    <2> HIDE DEF parts
    <2>3. parts \in Seq(Seq(CborItems))
      BY <2>2, SeqDef
    <2>4. Len(parts) = n
      BY <2>2, LengthOf
    <2> QED
      BY <2>3, <2>4
  <1>4. ASSUME NEW i \in 1..n PROVE Reads(reader, items, parts[i], w[i])
    <2>1. parts[i] = <<Number(w[i])>> /\ w[i] \in range
      BY <1>1, <1>2
    <2> HIDE DEF parts
    <2>2. ASSUME NEW p \in 0..Len(items), Stands(parts[i], items, p)
          PROVE  reader[p] = Read(w[i], p + Len(parts[i]))
      <3>1. ReadNumber(range, items, p) = Read(w[i], p + Len(<<Number(w[i])>>))
        BY <2>1, <2>2, NumberReads
      <3> QED
        BY <2>1, <3>1
    <2> HIDE DEF reader
    <2> QED
      BY <2>2 DEF Reads
  <1> HIDE DEF Numbers, NumberReader, parts, reader
  <1>5. w = [i \in 1..Len(parts) |-> w[i]] /\ 1..Len(parts) = 1..n
    BY <1>1, <1>3
  <1>6. AllRead(reader, items, parts, w)
    BY <1>4, <1>5 DEF AllRead
  <1> QED
    BY <1>3, <1>6, CountedReads DEF parts, reader

\* A reader of scalars.
ScalarReader(kind, items) == [p \in 0..Len(items) |-> ReadScalar(kind, items, p)]

\* operator>> reads what operator<< wrote.
LEMMA ScalarReads ==
  ASSUME NEW items \in Seq(CborItems), NEW kind \in Kinds \ {"message"}, NEW w \in Writable(kind)
  PROVE  /\ ScalarItems(kind, w) \in Seq(CborItems)
         /\ Reads(ScalarReader(kind, items), items, ScalarItems(kind, w), w)
  <1> DEFINE reader == ScalarReader(kind, items)
  <1>1. ASSUME NEW item \in CborItems, NEW major,
               IsItem(<<item>>, major, <<w>>),
               \A p \in 0..Len(items) : ReadScalar(kind, items, p) = ReadOne(major, items, p)
        PROVE  <<item>> \in Seq(CborItems) /\ Reads(reader, items, <<item>>, w)
    <2>1. ASSUME NEW p \in 0..Len(items), Stands(<<item>>, items, p)
          PROVE  ReadScalar(kind, items, p) = Read(w, p + Len(<<item>>))
      <3>1. ReadOne(major, items, p) = Read(w, p + Len(<<item>>))
        BY <1>1, <2>1, OneReads
      <3> QED
        BY <1>1, <3>1
    <2>2. <<item>> \in Seq(CborItems)
      OBVIOUS
    <2> QED
      BY <2>1, <2>2 DEF Reads, ScalarReader
  <1>2. CASE kind = "bool"
    <2>1. w \in Int /\ ScalarItems(kind, w) = <<Bool(w)>>
      BY <1>2 DEF Writable, ScalarItems
    <2>2. \A p : ReadScalar(kind, items, p) = ReadOne("bool", items, p)
      BY <1>2 DEF ReadScalar
    <2> QED
      BY <1>1, <2>1, <2>2, ItemsAre, ItemsAreItems
  <1>3. CASE kind = "float"
    <2>1. w \in Int /\ ScalarItems(kind, w) = <<Float(w)>>
      BY <1>3 DEF Writable, ScalarItems
    <2>2. \A p : ReadScalar(kind, items, p) = ReadOne("float", items, p)
      BY <1>3 DEF ReadScalar
    <2> QED
      BY <1>1, <2>1, <2>2, ItemsAre, ItemsAreItems
  <1>4. CASE kind = "int"
    <2>1. w \in Int /\ ScalarItems(kind, w) = <<Number(w)>>
      BY <1>4 DEF Writable, ScalarItems
    <2>2. \A p : ReadScalar(kind, items, p) = ReadOne("int", items, p)
      BY <1>4 DEF ReadScalar
    <2> QED
      BY <1>1, <2>1, <2>2, ItemsAre, ItemsAreItems
  <1>5. CASE kind = "octet"
    <2>1. w \in Octets /\ ScalarItems(kind, w) = <<Number(w)>>
      BY <1>5 DEF Writable, ScalarItems
    <2>2. \A p : ReadScalar(kind, items, p) = ReadNumber(Octets, items, p)
      BY <1>5 DEF ReadScalar
    <2>3. ASSUME NEW p \in 0..Len(items), Stands(<<Number(w)>>, items, p)
          PROVE  ReadScalar(kind, items, p) = Read(w, p + Len(<<Number(w)>>))
      <3>1. ReadNumber(Octets, items, p) = Read(w, p + Len(<<Number(w)>>))
        BY <2>1, <2>3, NumberReads
      <3> QED
        BY <2>2, <3>1
    <2>4. Number(w) \in CborItems
      BY <2>1, Ranges, ItemsAreItems
    <2>5. <<Number(w)>> \in Seq(CborItems)
      BY <2>4
    <2> QED
      BY <2>1, <2>3, <2>5 DEF Reads, ScalarReader
  <1>6. CASE kind = "string"
    <2>1. w \in Seq(Octets) /\ ScalarItems(kind, w) = <<Text(w)>>
      BY <1>6 DEF Writable, ScalarItems
    <2>2. \A p : ReadScalar(kind, items, p) = ReadItem("text", items, p)
      BY <1>6 DEF ReadScalar
    <2>3. ASSUME NEW p \in 0..Len(items), Stands(<<Text(w)>>, items, p)
          PROVE  ReadScalar(kind, items, p) = Read(w, p + Len(<<Text(w)>>))
      BY <2>2, <2>3, ItemReads, ItemsAre
    <2>4. Text(w) \in CborItems
      <3>1. w \in Seq(Int)
        BY <2>1, Ranges, SeqMonotonic
      <3> QED
        BY <3>1, ItemsAreItems
    <2>5. <<Text(w)>> \in Seq(CborItems)
      BY <2>4
    <2> QED
      BY <2>1, <2>3, <2>5 DEF Reads, ScalarReader
  <1>7. CASE kind = "wstring"
    <2> DEFINE e == Counted(Numbers(w))
               number == NumberReader(WChars, items)
    <2>1. w \in Seq(WChars) /\ ScalarItems(kind, w) = e
      BY <1>7 DEF Writable, ScalarItems, Numbers
    <2>2. \A p : ReadScalar(kind, items, p) = ReadArray(number, "array", items, p)
      BY <1>7 DEF ReadScalar, NumberReader
    <2>3. e \in Seq(CborItems) /\ Reads(ArrayReader(number, items), items, e, w)
      BY <2>1, Ranges, NumbersRead
    <2> HIDE DEF e, number
    <2>4. Reads(reader, items, e, w)
      BY <2>2, <2>3 DEF Reads, ArrayReader, ScalarReader
    <2> QED
      BY <2>1, <2>3, <2>4
  <1> QED
    BY <1>2, <1>3, <1>4, <1>5, <1>6, <1>7 DEF Kinds

\* A reader of sequences.
SequenceReader(kind, items) == [p \in 0..Len(items) |-> ReadSequence(kind, items, p)]

\* decodeSequence() and its like read what encodeSequence() wrote.
LEMMA SequenceReads ==
  ASSUME NEW items \in Seq(CborItems), NEW kind \in Kinds \ {"message"},
         NEW w \in Seq(Writable(kind))
  PROVE  /\ SequenceItems(kind, w) \in Seq(CborItems)
         /\ Reads(SequenceReader(kind, items), items, SequenceItems(kind, w), w)
  <1> DEFINE reader == SequenceReader(kind, items)
  <1>1. CASE kind = "octet"
    <2>1. w \in Seq(Octets) /\ SequenceItems(kind, w) = <<Bytes(w)>>
      BY <1>1 DEF Writable, SequenceItems
    <2>2. \A p : ReadSequence(kind, items, p) = ReadItem("bytes", items, p)
      BY <1>1 DEF ReadSequence
    <2>3. ASSUME NEW p \in 0..Len(items), Stands(<<Bytes(w)>>, items, p)
          PROVE  ReadSequence(kind, items, p) = Read(w, p + Len(<<Bytes(w)>>))
      BY <2>2, <2>3, ItemReads, ItemsAre
    <2>4. Bytes(w) \in CborItems
      <3>1. w \in Seq(Int)
        BY <2>1, Ranges, SeqMonotonic
      <3> QED
        BY <3>1, ItemsAreItems
    <2>5. <<Bytes(w)>> \in Seq(CborItems)
      BY <2>4
    <2> QED
      BY <2>1, <2>3, <2>5 DEF Reads, SequenceReader
  <1>2. CASE kind # "octet"
    <2> DEFINE parts == [i \in DOMAIN w |-> ScalarItems(kind, w[i])]
               scalar == ScalarReader(kind, items)
    <2>1. PICK n \in Nat : n = Len(w) /\ DOMAIN w = 1..n /\ w = [i \in 1..n |-> w[i]]
      BY LenProperties
    <2>2. ASSUME NEW i \in 1..n
          PROVE  parts[i] \in Seq(CborItems) /\ Reads(scalar, items, parts[i], w[i])
      <3>1. w[i] \in Writable(kind)
        BY <2>1, ElementOfSeq
      <3>2. parts[i] = ScalarItems(kind, w[i])
        BY <2>1
      <3> HIDE DEF parts, scalar
      <3> QED
        BY <3>1, <3>2, ScalarReads DEF scalar
    <2>3. parts \in Seq(Seq(CborItems)) /\ Len(parts) = n
      <3>1. parts \in [1..n -> Seq(CborItems)] /\ parts = [i \in 1..n |-> parts[i]]
        BY <2>1, <2>2
      <3> HIDE DEF parts
      <3>2. parts \in Seq(Seq(CborItems))
        BY <3>1, SeqDef
      <3>3. Len(parts) = n
        BY <3>1, LengthOf
      <3> QED
        BY <3>2, <3>3
    <2>4. SequenceItems(kind, w) = Counted(parts)
      BY <1>2 DEF SequenceItems
    <2>5. \A p : ReadSequence(kind, items, p) = ReadArray(scalar, "array", items, p)
      BY <1>2 DEF ReadSequence, ScalarReader
    <2> HIDE DEF parts, scalar
    <2>6. w = [i \in 1..Len(parts) |-> w[i]] /\ 1..Len(parts) = 1..n
      BY <2>1, <2>3
    <2>7. AllRead(scalar, items, parts, w)
      BY <2>2, <2>6 DEF AllRead
    <2>8. /\ Counted(parts) \in Seq(CborItems)
          /\ Reads(ArrayReader(scalar, items), items, Counted(parts), w)
      BY <2>3, <2>7, CountedReads
    <2>9. Reads(reader, items, Counted(parts), w)
      BY <2>5, <2>8 DEF Reads, ArrayReader, SequenceReader
    <2> QED
      BY <2>4, <2>8, <2>9
  <1> QED
    BY <1>1, <1>2

-----------------------------------------------------------------------------
(* Strings, in C and in C++. *)

\* A C string has no null character, and keeps what is before the first.
LEMMA CStringCut ==
  ASSUME NEW S, NEW s \in Seq(S)
  PROVE  /\ CString(s) \in Seq(S)
         /\ \A i \in DOMAIN CString(s) : CString(s)[i] # 0
  <1> DEFINE first == CHOOSE i \in DOMAIN s : s[i] = 0 /\ \A j \in 1..(i - 1) : s[j] # 0
  <1>1. PICK n \in Nat : n = Len(s) /\ DOMAIN s = 1..n
    BY LenProperties
  <1>2. CASE ~ \E i \in DOMAIN s : s[i] = 0
    BY <1>2 DEF CString
  <1>3. CASE \E i \in DOMAIN s : s[i] = 0
    <2>1. \E i \in 1..n : s[i] = 0 /\ \A j \in 1..(i - 1) : s[j] # 0
      <3> SUFFICES ASSUME \A i \in 1..n : s[i] = 0 => \E j \in 1..(i - 1) : s[j] = 0
                   PROVE  FALSE
        OBVIOUS
      <3> DEFINE whole == {k \in Nat : k \in 1..n => s[k] # 0}
      <3>1. ASSUME NEW k \in Nat, \A m \in 0..(k - 1) : m \in whole PROVE k \in whole
        <4> SUFFICES ASSUME k \in 1..n, s[k] = 0 PROVE FALSE
          OBVIOUS
        <4>1. PICK j \in 1..(k - 1) : s[j] = 0
          OBVIOUS
        <4>2. j \in 0..(k - 1) /\ j \in 1..n
          BY <1>1
        <4> QED
          BY <3>1, <4>1, <4>2
      <3>2. whole = Nat
        <4>1. whole \in SUBSET Nat
          OBVIOUS
        <4> HIDE DEF whole
        <4> QED
          BY <3>1, <4>1, Induction
      <3>3. ASSUME NEW k \in 1..n PROVE k \in whole
        <4> HIDE DEF whole
        <4> QED
          BY <3>2
      <3> QED
        BY <1>1, <1>3, <3>3
    <2>2. first \in 1..n /\ \A j \in 1..(first - 1) : s[j] # 0
      BY <1>1, <2>1
    <2>3. CString(s) = SubSeq(s, 1, first - 1)
      BY <1>3 DEF CString
    <2> HIDE DEF first
    <2>4. PICK m \in Nat : m = first - 1 /\ m \in 0..n
      BY <2>2
    <2>5. /\ SubSeq(s, 1, m) \in Seq(S)
          /\ Len(SubSeq(s, 1, m)) = IF 1 <= m THEN m - 1 + 1 ELSE 0
          /\ \A i \in 1..(m - 1 + 1) : SubSeq(s, 1, m)[i] = s[1 + i - 1]
      <3>1. ASSUME NEW i \in 1..m PROVE s[i] \in S
        BY <1>1, <2>4, ElementOfSeq
      <3> QED
        BY <1>1, <2>4, <3>1, SubSeqProperties
    <2>6. DOMAIN SubSeq(s, 1, m) = 1..m
      <3>1. DOMAIN SubSeq(s, 1, m) = 1..Len(SubSeq(s, 1, m))
        BY <2>5, LenProperties
      <3>2. Len(SubSeq(s, 1, m)) = m
        BY <2>5
      <3> QED
        BY <3>1, <3>2
    <2>7. ASSUME NEW i \in 1..m PROVE SubSeq(s, 1, m)[i] # 0
      <3>1. i \in 1..(m - 1 + 1) /\ 1 + i - 1 = i
        OBVIOUS
      <3>2. SubSeq(s, 1, m)[i] = s[i]
        BY <2>5, <3>1
      <3> QED
        BY <2>2, <2>4, <3>2
    <2> QED
      BY <2>3, <2>4, <2>5, <2>6, <2>7
  <1> QED
    BY <1>2, <1>3

\* Cut once, it is not cut again.
LEMMA CStringOnce ==
  ASSUME NEW S, NEW s \in Seq(S)
  PROVE  CString(CString(s)) = CString(s)
  <1> DEFINE c == CString(s)
  <1>1. \A i \in DOMAIN c : c[i] # 0
    BY CStringCut
  <1> HIDE DEF c
  <1>2. CString(c) = c
    BY <1>1 DEF CString
  <1> QED
    BY <1>2 DEF c

\* A string is one in the other language too, and cut but once on its way.
LEMMA NativeTwice ==
  ASSUME NEW m \in Members, m.kind # "message", NEW w \in Writable(m.kind),
         NEW from \in Langs, NEW to \in Langs
  PROVE  /\ IsString(m.kind) => Native(from, m.kind, w) \in Writable(m.kind)
         /\ ~IsString(m.kind) => Native(from, m.kind, w) = w
         /\ Native(to, m.kind, Native(from, m.kind, w)) = OneCarried("c" \in {from, to}, m, w)
  <1>1. CASE IsString(m.kind)
    <2>1. ASSUME NEW S, Writable(m.kind) = Seq(S)
          PROVE  CString(w) \in Writable(m.kind) /\ CString(CString(w)) = CString(w)
      BY <1>1, <2>1, CStringCut, CStringOnce
    <2>2. CString(w) \in Writable(m.kind) /\ CString(CString(w)) = CString(w)
      <3>1. CASE m.kind = "string"
        <4>1. Writable(m.kind) = Seq(Octets)
          BY <3>1 DEF Writable
        <4> QED
          BY <2>1, <4>1
      <3>2. CASE m.kind = "wstring"
        <4>1. Writable(m.kind) = Seq(WChars)
          BY <3>2 DEF Writable
        <4> QED
          BY <2>1, <4>1
      <3> QED
        BY <1>1, <3>1, <3>2 DEF IsString
    <2> QED
      BY <1>1, <2>2 DEF Native, OneCarried, Langs
  <1>2. CASE ~IsString(m.kind)
    BY <1>2 DEF Native, OneCarried
  <1> QED
    BY <1>1, <1>2

-----------------------------------------------------------------------------
(* Members. *)

NestedReader(to, t, items) == [p \in 0..Len(items) |-> NestedReading(to, t, items, p)]
MemberReader(to, m, items) == [p \in 0..Len(items) |-> ReadMember(to, m, items, p)]

\* Messages of a type are read where they are in other messages.
Nests(from, to, t, items) ==
  \A w \in Values[t] :
     /\ NestedItems(from, t, w) \in Seq(CborItems)
     /\ Reads(NestedReader(to, t, items), items, NestedItems(from, t, w),
              NestedCarried("c" \in {from, to}, t, w))

\* It is read as such.
MemberIsRead(from, to, m, w, items) ==
  /\ MemberItems(from, m, w) \in Seq(CborItems)
  /\ Reads(MemberReader(to, m, items), items, MemberItems(from, m, w),
           MemberCarried("c" \in {from, to}, m, w))

NestedParts(from, t, w) == [j \in DOMAIN w |-> NestedItems(from, t, w[j])]
NestedValues(cut, t, w) == [j \in DOMAIN w |-> NestedCarried(cut, t, w[j])]

\* The messages of an array are read one by one.
LEMMA NestedPartsRead ==
  ASSUME NEW items \in Seq(CborItems), NEW t, NEW from, NEW to, Nests(from, to, t, items),
         NEW w \in Seq(Values[t])
  PROVE  /\ NestedParts(from, t, w) \in Seq(Seq(CborItems))
         /\ Len(NestedParts(from, t, w)) = Len(w) /\ Len(w) \in Nat
         /\ AllRead(NestedReader(to, t, items), items, NestedParts(from, t, w),
                    NestedValues("c" \in {from, to}, t, w))
  <1> DEFINE parts  == NestedParts(from, t, w)
             values == NestedValues("c" \in {from, to}, t, w)
             reader == NestedReader(to, t, items)
  <1>1. PICK n \in Nat : n = Len(w) /\ DOMAIN w = 1..n
    BY LenProperties
  <1>2. ASSUME NEW i \in 1..n
        PROVE  parts[i] \in Seq(CborItems) /\ Reads(reader, items, parts[i], values[i])
    <2>1. w[i] \in Values[t]
      BY <1>1, ElementOfSeq
    <2>2. /\ parts[i] = NestedItems(from, t, w[i])
          /\ values[i] = NestedCarried("c" \in {from, to}, t, w[i])
      BY <1>1 DEF NestedParts, NestedValues
    <2> HIDE DEF parts, values, reader
    <2> QED
      BY <2>1, <2>2 DEF Nests, reader
  <1>3. parts = [i \in 1..n |-> parts[i]] /\ values = [i \in 1..n |-> values[i]]
    BY <1>1 DEF NestedParts, NestedValues
  <1> HIDE DEF parts, values, reader
  <1>4. parts \in [1..n -> Seq(CborItems)]
    BY <1>2, <1>3
  <1>5. parts \in Seq(Seq(CborItems))
    BY <1>4, SeqDef
  <1>6. Len(parts) = n
    BY <1>3, LengthOf
  <1>7. AllRead(reader, items, parts, values)
    BY <1>2, <1>3, <1>6 DEF AllRead
  <1> QED
    BY <1>1, <1>5, <1>6, <1>7 DEF parts, values, reader

\* A message in a message, on its own.
LEMMA MessageMemberReads ==
  ASSUME NEW items \in Seq(CborItems), NEW m \in Members, NEW from \in Langs, NEW to \in Langs,
         m.kind = "message", m.array = "none", NEW w \in Values[m.members],
         Nests(from, to, m.members, items)
  PROVE  MemberIsRead(from, to, m, w, items)
  <1>1. MemberItems(from, m, w) = NestedItems(from, m.members, w)
    BY Zenon DEF MemberItems
  <1>2. ASSUME NEW p \in 0..Len(items)
        PROVE  ReadMember(to, m, items, p) = NestedReader(to, m.members, items)[p]
    <2>1. ReadMember(to, m, items, p) = ReadMessages(to, m, items, p)
      BY Zenon DEF ReadMember
    <2> QED
      BY <2>1 DEF ReadMessages, NestedReader
  <1>3. MemberCarried("c" \in {from, to}, m, w) = NestedCarried("c" \in {from, to}, m.members, w)
    <2>1. ~IsString(m.kind)
      BY DEF IsString
    <2>2. OneCarried("c" \in {from, to}, m, w) = NestedCarried("c" \in {from, to}, m.members, w)
      BY <2>1, Zenon DEF OneCarried
    <2> QED
      BY <2>2 DEF MemberCarried, Normal
  <1> QED
    BY <1>1, <1>2, <1>3 DEF MemberIsRead, Nests, Reads, MemberReader

\* An array of messages.
LEMMA MessageArrayReads ==
  ASSUME NEW items \in Seq(CborItems), NEW m \in Members, NEW from \in Langs, NEW to \in Langs,
         m.kind = "message", m.array # "none",
         NEW w \in Seq(Values[m.members]), Sized(m) => Len(w) = m.size,
         Nests(from, to, m.members, items)
  PROVE  MemberIsRead(from, to, m, w, items)
  <1> DEFINE t      == m.members
             parts  == NestedParts(from, t, w)
             values == NestedValues("c" \in {from, to}, t, w)
             reader == NestedReader(to, t, items)
             e      == MemberItems(from, m, w)
  <1>1. e = (IF Sized(m) THEN <<>> ELSE <<Number(Len(w))>>) \o FlattenSeq(parts)
    BY DEF MemberItems, NestedParts
  <1>2. ASSUME NEW p \in 0..Len(items)
        PROVE  ReadMember(to, m, items, p) =
                 IF Sized(m) THEN ReadEach([i \in 1..m.size |-> reader], p)
                 ELSE ReadArray(reader, "int", items, p)
    <2>1. ReadMember(to, m, items, p) = ReadMessages(to, m, items, p)
      BY Zenon DEF ReadMember
    <2> QED
      BY <2>1 DEF ReadMessages, NestedReader
  <1>3. MemberCarried("c" \in {from, to}, m, w) = values
    <2>1. ~IsString(m.kind)
      BY DEF IsString
    <2>2. ASSUME NEW u
          PROVE  OneCarried("c" \in {from, to}, m, u) = NestedCarried("c" \in {from, to}, t, u)
      BY <2>1, Zenon DEF OneCarried
    <2> QED
      BY <2>2 DEF MemberCarried, NestedValues
  <1> HIDE DEF parts, values, reader, e
  <1>4. /\ parts \in Seq(Seq(CborItems)) /\ Len(parts) = Len(w) /\ Len(w) \in Nat
        /\ AllRead(reader, items, parts, values)
    BY NestedPartsRead DEF parts, values, reader
  <1>5. FlattenSeq(parts) \in Seq(CborItems)
    BY <1>4, Flattened
  <1>6. CASE Sized(m)
    <2>1. e = FlattenSeq(parts) /\ m.size = Len(parts)
      BY <1>1, <1>4, <1>5, <1>6, ConcatEmptySeq
    <2>2. EachIsRead([i \in 1..Len(parts) |-> reader], items, parts, values)
      BY <1>4, CopiesRead
    <2>3. ASSUME NEW p, Stands(FlattenSeq(parts), items, p)
          PROVE  ReadEach([i \in 1..Len(parts) |-> reader], p) = Read(values, p + Len(FlattenSeq(parts)))
      <3>1. PICK readers : readers = [i \in 1..Len(parts) |-> reader]
        OBVIOUS
      <3>2. EachIsRead(readers, items, parts, values)
        BY <2>2, <3>1
      <3>3. ReadEach(readers, p) = Read(values, p + Len(FlattenSeq(parts)))
        BY <1>4, <2>3, <3>2, EachReads
      <3> QED
        BY <3>1, <3>3
    <2>4. Reads(MemberReader(to, m, items), items, e, values)
      BY <1>2, <1>6, <2>1, <2>3 DEF Reads, MemberReader
    <2> QED
      BY <1>3, <1>5, <2>1, <2>4 DEF MemberIsRead, e
  <1>7. CASE ~Sized(m)
    <2> DEFINE n == Len(parts)
    <2>1. n \in Nat /\ Number(n) \in CborItems /\ e = <<Number(n)>> \o FlattenSeq(parts)
      BY <1>1, <1>4, <1>7, ItemsAreItems
    <2>2. e \in Seq(CborItems)
      <3>1. <<Number(n)>> \in Seq(CborItems)
        BY <2>1
      <3> QED
        BY <1>5, <2>1, <3>1, Concatenated
    <2>3. IsArray(e, "int", parts)
      BY <2>1, ItemsAre DEF IsArray
    <2>4. ASSUME NEW p, Stands(e, items, p)
          PROVE  ReadArray(reader, "int", items, p) = Read(values, p + Len(e))
      BY <1>4, <2>3, <2>4, ArrayReads
    <2>5. Reads(MemberReader(to, m, items), items, e, values)
      BY <1>2, <1>7, <2>4 DEF Reads, MemberReader
    <2> QED
      BY <1>3, <2>2, <2>5 DEF MemberIsRead, e
  <1> QED
    BY <1>6, <1>7

\* A value of a scalar member can be written.
LEMMA ElementsAreWritable ==
  ASSUME NEW m \in Members, m.kind # "message", NEW w \in Elements(m)
  PROVE  w \in Writable(m.kind) /\ m.kind \in Kinds \ {"message"}
  <1>1. m.kind \in Kinds \ {"message"}
    BY DEF Members
  <1>2. CASE m.kind = "bool"
    <2>1. Elements(m) = Octets \/ Elements(m) = 0..1
      BY <1>2 DEF Elements
    <2>2. Writable(m.kind) = Int
      BY <1>2 DEF Writable
    <2>3. w \in Octets \/ w \in 0..1
      BY <2>1
    <2>4. 0..1 \subseteq Int
      OBVIOUS
    <2>5. w \in Int
      BY <2>3, <2>4, Ranges, Zenon
    <2> QED
      BY <1>1, <2>2, <2>5
  <1>3. CASE m.kind = "octet"
    BY <1>1, <1>3 DEF Elements, Writable
  <1>4. CASE m.kind = "string"
    BY <1>1, <1>4 DEF Elements, Writable
  <1>5. CASE m.kind = "wstring"
    BY <1>1, <1>5 DEF Elements, Writable
  <1>6. CASE m.kind = "int"
    BY <1>1, <1>6 DEF Elements, Writable
  <1>7. CASE m.kind = "float"
    BY <1>1, <1>7 DEF Elements, Writable
  <1> QED
    BY <1>1, <1>2, <1>3, <1>4, <1>5, <1>6, <1>7 DEF Kinds

\* A scalar.
LEMMA ScalarMemberReads ==
  ASSUME NEW items \in Seq(CborItems), NEW m \in Members, NEW from \in Langs, NEW to \in Langs,
         m.kind # "message", m.array = "none", NEW w \in Elements(m)
  PROVE  MemberIsRead(from, to, m, w, items)
  <1> DEFINE u     == Normal(m.kind, Native(from, m.kind, w))
             value == MemberCarried("c" \in {from, to}, m, w)
  <1>1. m.kind \in Kinds \ {"message"} /\ w \in Writable(m.kind)
    BY ElementsAreWritable
  <1>2. u \in Writable(m.kind) /\ Native(to, m.kind, u) = value
    <2>1. CASE IsString(m.kind)
      <3>1. ASSUME NEW x PROVE Normal(m.kind, x) = x
        BY <2>1 DEF Normal, IsString
      <3>2. value = OneCarried("c" \in {from, to}, m, w)
        BY <3>1 DEF MemberCarried
      <3>3. u = Native(from, m.kind, w)
        BY <3>1
      <3> HIDE DEF u, value
      <3> QED
        BY <1>1, <2>1, <3>2, <3>3, NativeTwice
    <2>2. CASE ~IsString(m.kind)
      <3>1. /\ Native(from, m.kind, w) = w
            /\ OneCarried("c" \in {from, to}, m, w) = w
        BY <2>2, Zenon DEF Native, OneCarried
      <3>2. u = Normal(m.kind, w) /\ value = Normal(m.kind, w)
        BY <3>1 DEF MemberCarried
      <3>3. Normal(m.kind, w) \in Writable(m.kind)
        <4>1. m.kind = "bool" => Writable(m.kind) = Int
          BY DEF Writable
        <4> QED
          BY <1>1, <4>1 DEF Normal
      <3> HIDE DEF u, value
      <3>4. Native(to, m.kind, u) = u
        BY <2>2 DEF Native
      <3> QED
        BY <3>2, <3>3, <3>4
    <2> QED
      BY <2>1, <2>2
  <1>3. MemberItems(from, m, w) = ScalarItems(m.kind, u)
    BY Zenon DEF MemberItems
  <1> DEFINE e == ScalarItems(m.kind, u)
  <1> HIDE DEF u, value
  <1>4. e \in Seq(CborItems) /\ Reads(ScalarReader(m.kind, items), items, e, u)
    BY <1>1, <1>2, ScalarReads
  <1> HIDE DEF e
  <1>5. ASSUME NEW p \in 0..Len(items), Stands(e, items, p)
        PROVE  ReadMember(to, m, items, p) = Read(value, p + Len(e))
    <2> DEFINE r == ReadScalar(m.kind, items, p)
    <2>1. r = Read(u, p + Len(e))
      BY <1>4, <1>5 DEF Reads, ScalarReader
    <2>2. ReadMember(to, m, items, p) =
            IF r.ok THEN Read(Native(to, m.kind, r.value), r.at) ELSE Thrown
      BY Zenon DEF ReadMember
    <2>3. r.ok /\ r.value = u /\ r.at = p + Len(e)
      <3>1. ASSUME NEW x, NEW q PROVE Read(x, q).ok /\ Read(x, q).value = x /\ Read(x, q).at = q
        BY DEF Read
      <3> QED
        BY <2>1, <3>1
    <2> HIDE DEF r
    <2> QED
      BY <1>2, <2>2, <2>3
  <1>6. Reads(MemberReader(to, m, items), items, e, value)
    BY <1>5 DEF Reads, MemberReader
  <1> QED
    BY <1>3, <1>4, <1>6 DEF MemberIsRead, e, value

\* An array of scalars.
LEMMA ScalarArrayReads ==
  ASSUME NEW items \in Seq(CborItems), NEW m \in Members, NEW from \in Langs, NEW to \in Langs,
         m.kind # "message", m.array # "none",
         NEW w \in Seq(Elements(m)), Sized(m) => Len(w) = m.size
  PROVE  MemberIsRead(from, to, m, w, items)
  <1> DEFINE u     == [j \in DOMAIN w |-> Native(from, m.kind, w[j])]
             value == MemberCarried("c" \in {from, to}, m, w)
  <1>1. PICK n \in Nat : n = Len(w) /\ DOMAIN w = 1..n
    BY LenProperties
  <1>2. m.kind \in Kinds \ {"message"} /\ m.array \in Arrays
    BY DEF Members
  <1>3. value = [j \in 1..n |-> OneCarried("c" \in {from, to}, m, w[j])]
    BY <1>1 DEF MemberCarried
  <1>4. ASSUME NEW j \in 1..n
        PROVE  /\ u[j] \in Writable(m.kind)
               /\ Native(to, m.kind, u[j]) = OneCarried("c" \in {from, to}, m, w[j])
    <2>1. w[j] \in Elements(m) /\ u[j] = Native(from, m.kind, w[j])
      BY <1>1, ElementOfSeq
    <2> HIDE DEF u
    <2>2. PICK x \in Writable(m.kind) : x = w[j]
      BY <2>1, ElementsAreWritable
    <2>3. /\ IsString(m.kind) => Native(from, m.kind, x) \in Writable(m.kind)
          /\ ~IsString(m.kind) => Native(from, m.kind, x) = x
          /\ Native(to, m.kind, Native(from, m.kind, x)) = OneCarried("c" \in {from, to}, m, x)
      BY NativeTwice
    <2> QED
      BY <2>1, <2>2, <2>3
  <1>5. u = [j \in 1..n |-> u[j]]
    BY <1>1
  <1>6. MemberItems(from, m, w) = SequenceItems(m.kind, u)
    BY Zenon DEF MemberItems
  <1> DEFINE e == SequenceItems(m.kind, u)
  <1> HIDE DEF u, value
  <1>7. u \in Seq(Writable(m.kind)) /\ Len(u) = n
    <2>1. u \in [1..n -> Writable(m.kind)]
      BY <1>4, <1>5
    <2>2. u \in Seq(Writable(m.kind))
      BY <2>1, SeqDef
    <2> QED
      BY <1>5, <2>2, LengthOf
  <1>8. e \in Seq(CborItems) /\ Reads(SequenceReader(m.kind, items), items, e, u)
    BY <1>2, <1>7, SequenceReads
  <1> HIDE DEF e
  <1>9. ASSUME NEW p \in 0..Len(items), Stands(e, items, p)
        PROVE  ReadMember(to, m, items, p) = Read(value, p + Len(e))
    <2> DEFINE r == ReadSequence(m.kind, items, p)
    <2>1. r = Read(u, p + Len(e))
      BY <1>8, <1>9 DEF Reads, SequenceReader
    <2>2. ReadMember(to, m, items, p) =
            IF ~r.ok \/ (Sized(m) /\ ~FitsArray(to, m, Len(r.value))) THEN Thrown
            ELSE Read([i \in 1..(IF Sized(m) THEN m.size ELSE Len(r.value)) |->
                         Native(to, m.kind, r.value[i])], r.at)
      BY Zenon DEF ReadMember
    <2>3. r.ok /\ r.value = u /\ r.at = p + Len(e)
      <3>1. ASSUME NEW x, NEW q PROVE Read(x, q).ok /\ Read(x, q).value = x /\ Read(x, q).at = q
        BY DEF Read
      <3> QED
        BY <2>1, <3>1
    <2>4. Sized(m) => m.size = n /\ FitsArray(to, m, n)
      BY <1>1 DEF FitsArray
    <2>5. [i \in 1..n |-> Native(to, m.kind, u[i])] = value
      BY <1>3, <1>4
    <2> HIDE DEF r
    <2> QED
      BY <1>7, <2>2, <2>3, <2>4, <2>5
  <1>10. Reads(MemberReader(to, m, items), items, e, value)
    BY <1>9 DEF Reads, MemberReader
  <1> QED
    BY <1>6, <1>8, <1>10 DEF MemberIsRead, e, value

\* Any member, then.
LEMMA MemberReads ==
  ASSUME NEW items \in Seq(CborItems), NEW m \in Members, NEW from \in Langs, NEW to \in Langs,
         m.kind = "message" => Nests(from, to, m.members, items),
         NEW w \in MemberValues(m)
  PROVE  MemberIsRead(from, to, m, w, items)
  <1>1. CASE m.kind = "message" /\ m.array = "none"
    <2>1. w \in Values[m.members]
      BY <1>1 DEF MemberValues, Elements
    <2> QED
      BY <1>1, <2>1, MessageMemberReads
  <1>2. CASE m.kind = "message" /\ m.array # "none"
    <2>1. w \in Seq(Values[m.members]) /\ (Sized(m) => Len(w) = m.size)
      BY <1>2 DEF MemberValues, Elements
    <2> QED
      BY <1>2, <2>1, MessageArrayReads
  <1>3. CASE m.kind # "message" /\ m.array = "none"
    <2>1. w \in Elements(m)
      BY <1>3 DEF MemberValues
    <2> QED
      BY <1>3, <2>1, ScalarMemberReads
  <1>4. CASE m.kind # "message" /\ m.array # "none"
    <2>1. w \in Seq(Elements(m)) /\ (Sized(m) => Len(w) = m.size)
      BY <1>4 DEF MemberValues
    <2> QED
      BY <1>4, <2>1, ScalarArrayReads
  <1> QED
    BY <1>1, <1>2, <1>3, <1>4

-----------------------------------------------------------------------------
(* Messages. *)

MessageReader(to, t, items) == [p \in 0..Len(items) |-> ReadMessage(to, t, items, p)]

\* A message is read, as what should become of it.
MessageIsRead(from, to, t, v, items) ==
  /\ MessageItems(from, t, v) \in Seq(CborItems)
  /\ Reads(MessageReader(to, t, items), items, MessageItems(from, t, v),
           Carried("c" \in {from, to}, t, v))

\* It is if its members are.
LEMMA MembersRead ==
  ASSUME NEW items \in Seq(CborItems), NEW t \in Seq(Members), NEW from, NEW to, NEW v,
         \A i \in DOMAIN t : MemberIsRead(from, to, t[i], v[i], items)
  PROVE  MessageIsRead(from, to, t, v, items)
  <1> DEFINE parts   == [i \in DOMAIN t |-> MemberItems(from, t[i], v[i])]
             values  == Carried("c" \in {from, to}, t, v)
             readers == [i \in DOMAIN t |-> MemberReader(to, t[i], items)]
  <1>1. PICK n \in Nat : n = Len(t) /\ DOMAIN t = 1..n
    BY LenProperties
  <1>2. ASSUME NEW i \in 1..n
        PROVE  parts[i] \in Seq(CborItems) /\ Reads(readers[i], items, parts[i], values[i])
    <2>1. /\ parts[i] = MemberItems(from, t[i], v[i])
          /\ values[i] = MemberCarried("c" \in {from, to}, t[i], v[i])
          /\ readers[i] = MemberReader(to, t[i], items)
      BY <1>1 DEF Carried
    <2>2. MemberIsRead(from, to, t[i], v[i], items)
      BY <1>1
    <2> HIDE DEF parts, values, readers
    <2> QED
      BY <2>1, <2>2 DEF MemberIsRead
  <1>3. /\ parts = [i \in 1..n |-> parts[i]] /\ values = [i \in 1..n |-> values[i]]
        /\ readers = [i \in 1..n |-> readers[i]]
    BY <1>1 DEF Carried
  <1> HIDE DEF values
  <1>4. MessageItems(from, t, v) = Counted(parts)
    BY DEF MessageItems
  <1>5. ASSUME NEW p
        PROVE  ReadMessage(to, t, items, p) =
                 LET head == ReadOne("array", items, p)
                 IN IF ~head.ok \/ head.value # Len(t) THEN Thrown ELSE ReadEach(readers, head.at)
    BY DEF ReadMessage, MemberReader
  <1> HIDE DEF parts, readers
  <1>6. parts \in [1..n -> Seq(CborItems)]
    BY <1>2, <1>3
  <1>7. parts \in Seq(Seq(CborItems))
    BY <1>6, SeqDef
  <1>8. Len(parts) = n /\ Len(readers) = n
    BY <1>3, LengthOf
  <1>9. EachIsRead(readers, items, parts, values)
    BY <1>2, <1>3, <1>8 DEF EachIsRead
  <1>10. PICK head \in Seq(CborItems) : head = <<ArrayOf(n)>>
    <2>1. ArrayOf(n) \in CborItems
      BY ItemsAreItems
    <2>2. <<ArrayOf(n)>> \in Seq(CborItems)
      BY <2>1
    <2> QED
      BY <2>2
  <1>11. PICK rest \in Seq(CborItems) : rest = FlattenSeq(parts)
    BY <1>7, Flattened
  <1>12. Counted(parts) = head \o rest
    BY <1>8, <1>10, <1>11 DEF Counted
  <1>13. ASSUME NEW p \in 0..Len(items), Stands(head \o rest, items, p)
         PROVE  ReadMessage(to, t, items, p) = Read(values, p + Len(head \o rest))
    <2>1. /\ Stands(head, items, p) /\ Stands(rest, items, p + Len(head))
          /\ Len(head \o rest) = Len(head) + Len(rest)
      BY <1>13, BothStand
    <2>2. ReadOne("array", items, p) = Read(n, p + Len(head)) /\ Len(head) = 1 /\ p \in Nat
      <3>1. IsItem(head, "array", <<n>>)
        BY <1>10, ItemsAre
      <3> QED
        BY <2>1, <3>1, OneReads
    <2>3. PICK q : q = p + Len(head)
      OBVIOUS
    <2>4. ReadMessage(to, t, items, p) = ReadEach(readers, q)
      <3>1. ASSUME NEW w, NEW at PROVE Read(w, at).ok /\ Read(w, at).value = w /\ Read(w, at).at = at
        BY DEF Read
      <3> QED
        BY <1>1, <1>5, <2>2, <2>3, <3>1
    <2>5. ReadEach(readers, q) = Read(values, q + Len(rest))
      <3>1. Stands(FlattenSeq(parts), items, q)
        BY <1>11, <2>1, <2>3
      <3>2. ReadEach(readers, q) = Read(values, q + Len(FlattenSeq(parts)))
        BY <1>7, <1>9, <3>1, EachReads
      <3> QED
        BY <1>11, <3>2
    <2>6. q + Len(rest) = p + Len(head \o rest)
      <3>1. Len(rest) \in Nat
        BY LenProperties
      <3> QED
        BY <2>1, <2>2, <2>3, <3>1
    <2> QED
      BY <2>4, <2>5, <2>6
  <1>14. Counted(parts) \in Seq(CborItems)
    BY <1>12, Concatenated
  <1>15. Reads(MessageReader(to, t, items), items, Counted(parts), values)
    BY <1>12, <1>13 DEF Reads, MessageReader
  <1> QED
    BY <1>4, <1>14, <1>15 DEF MessageIsRead, values

\* Messages in messages are read if messages are.
LEMMA NestingReads ==
  ASSUME NEW u \in Types, NEW from \in Langs, NEW to \in Langs,
         NEW items \in Encodings \cap Seq(CborItems),
         \A w \in Values[u] : MessageIsRead(from, to, u, w, items)
  PROVE  Nests(from, to, u, items)
  <1> SUFFICES ASSUME NEW w \in Values[u]
               PROVE  /\ NestedItems(from, u, w) \in Seq(CborItems)
                      /\ Reads(NestedReader(to, u, items), items, NestedItems(from, u, w),
                               NestedCarried("c" \in {from, to}, u, w))
    BY DEF Nests
  <1>1. NestedItems(from, u, w) = MessageItems(from, u, w)
    BY NestingAssumption
  <1>2. NestedCarried("c" \in {from, to}, u, w) = Carried("c" \in {from, to}, u, w)
    <2>1. \A cut \in BOOLEAN : NestedCarried(cut, u, w) = Carried(cut, u, w)
      BY NestingAssumption
    <2>2. ("c" \in {from, to}) \in BOOLEAN
      OBVIOUS
    <2> QED
      BY <2>1, <2>2, Zenon
  <1>3. \A p \in 0..Len(items) : NestedReading(to, u, items, p) = ReadMessage(to, u, items, p)
    BY NestingAssumption
  <1>4. NestedReader(to, u, items) = MessageReader(to, u, items)
    BY <1>3 DEF NestedReader, MessageReader
  <1>5. MessageIsRead(from, to, u, w, items)
    OBVIOUS
  <1> QED
    BY <1>1, <1>2, <1>4, <1>5 DEF MessageIsRead

\* Every message is read, whatever is nested in it.
LEMMA MessageReads ==
  ASSUME NEW items \in Encodings \cap Seq(CborItems), NEW from \in Langs, NEW to \in Langs
  PROVE  \A t \in Types : \A v \in Values[t] : MessageIsRead(from, to, t, v, items)
  <1> DEFINE Good == {n \in Nat : \A t \in Types : Depth[t] = n =>
                        \A v \in Values[t] : MessageIsRead(from, to, t, v, items)}
  <1>1. ASSUME NEW n \in Nat, \A k \in 0..(n - 1) : k \in Good PROVE n \in Good
    <2> SUFFICES ASSUME NEW t \in Types, Depth[t] = n, NEW v \in Values[t]
                 PROVE  MessageIsRead(from, to, t, v, items)
      OBVIOUS
    <2>1. /\ t \in Seq(Members)
          /\ \A i \in DOMAIN t : t[i].kind = "message" =>
               t[i].members \in Types /\ Depth[t[i].members] < Depth[t]
      BY TypesAssumption
    <2>2. \A i \in DOMAIN t : v[i] \in MemberValues(t[i])
      BY ValuesAssumption
    <2>3. ASSUME NEW i \in DOMAIN t PROVE MemberIsRead(from, to, t[i], v[i], items)
      <3>1. t[i] \in Members
        BY <2>1, ElementOfSeq, LenProperties
      <3>2. CASE t[i].kind = "message"
        <4>1. PICK u \in Types : u = t[i].members /\ Depth[u] < n
          BY <2>1, <3>2
        <4>2. Depth[u] \in 0..(n - 1)
          BY <4>1, TypesAssumption
        <4>3. \A w \in Values[u] : MessageIsRead(from, to, u, w, items)
          <5>1. PICK k \in 0..(n - 1) : k = Depth[u]
            BY <4>2
          <5>2. k \in Good
            BY <1>1
          <5> QED
            BY <5>1, <5>2
        <4>4. Nests(from, to, u, items)
          BY <4>3, NestingReads
        <4> QED
          BY <2>2, <3>1, <4>1, <4>4, MemberReads
      <3>3. CASE t[i].kind # "message"
        BY <2>2, <3>1, <3>3, MemberReads
      <3> QED
        BY <3>2, <3>3
    <2> QED
      BY <2>1, <2>3, MembersRead
  <1>2. Good = Nat
    <2>1. Good \in SUBSET Nat
      OBVIOUS
    <2> HIDE DEF Good
    <2> QED
      BY <1>1, <2>1, Induction
  <1>3. ASSUME NEW t \in Types PROVE Depth[t] \in Good
    <2>1. Depth[t] \in Nat
      BY TypesAssumption
    <2> HIDE DEF Good
    <2> QED
      BY <1>2, <2>1
  <1> QED
    BY <1>3

\* What one language writes of a message the other reads, all of it, and the
\* message is what should become of it: for every type, however deep messages
\* are nested, with arrays of any size, and for every message
\* (serializeROSmessage() and deserializeROSmessage()).
THEOREM MessagesSurvive ==
  ASSUME NEW from \in Langs, NEW to \in Langs, NEW t \in Types, NEW v \in Values[t]
  PROVE  LET items == MessageItems(from, t, v)
         IN ReadMessage(to, t, items, 0) = Read(Carried("c" \in {from, to}, t, v), Len(items))
  <1> DEFINE items == MessageItems(from, t, v)
  <1>1. items \in Seq(CborItems)
    <2>1. <<>> \in Encodings \cap Seq(CborItems)
      BY EmptySeq DEF Encodings
    <2>2. MessageIsRead(from, to, t, v, <<>>)
      BY <2>1, MessageReads
    <2> QED
      BY <2>2 DEF MessageIsRead
  <1>2. items \in Encodings
    <2> DEFINE all == {{MessageItems(lang, u, w) : w \in Values[u]} : lang \in Langs, u \in Types}
               mine == {MessageItems(from, t, w) : w \in Values[t]}
    <2>1. items \in mine /\ mine \in all
      OBVIOUS
    <2>2. Encodings = {<<>>} \cup UNION all
      BY DEF Encodings
    <2> HIDE DEF items, all, mine
    <2> QED
      BY <2>1, <2>2
  <1>3. MessageIsRead(from, to, t, v, items)
    BY <1>1, <1>2, MessageReads
  <1>4. Reads(MessageReader(to, t, items), items, items, Carried("c" \in {from, to}, t, v))
    BY <1>3 DEF MessageIsRead
  <1> HIDE DEF items
  <1>5. Len(items) \in Nat /\ 0 \in 0..Len(items) /\ 0 + Len(items) = Len(items)
    BY <1>1, LenProperties
  <1>6. Stands(items, items, 0)
    BY <1>5, AllStand
  <1>7. MessageReader(to, t, items)[0] = Read(Carried("c" \in {from, to}, t, v), Len(items))
    BY <1>4, <1>5, <1>6 DEF Reads
  <1>8. MessageReader(to, t, items)[0] = ReadMessage(to, t, items, 0)
    BY <1>5 DEF MessageReader
  <1> QED
    BY <1>7, <1>8 DEF items

===============================================================================
