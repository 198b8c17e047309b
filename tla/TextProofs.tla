----------------------------- MODULE TextProofs -----------------------------
(***************************************************************************)
(* Texts (VTextIOStream, VTextStreamTailer): the lines read are those of   *)
(* the text, whatever it is, however it is written meanwhile, and by       *)
(* readLine() as by the threads that follow it.                            *)
(***************************************************************************)
EXTENDS VTextStreamTailer, SequenceTheorems, WellFoundedInduction, TLAPS

\* A set of numbers that is not empty has a least one.
LEMMA SomeIsLeast ==
    ASSUME NEW S, S \subseteq Nat, S # {}
    PROVE  \E least \in S : \A n \in S : least <= n
<1> DEFINE R == OpToRel(<, Nat)
<1>1. \E x \in S : \A y \in S : ~ (<<y, x>> \in R)
  <2> HIDE DEF R
  <2>1. IsWellFoundedOn(R, Nat)
    BY NatLessThanWellFounded DEF R
  <2> QED
    BY <2>1, WFMin
<1>2. PICK x \in S : \A y \in S : ~ (<<y, x>> \in R)
  BY <1>1
<1>3. ASSUME NEW y \in S PROVE x <= y
  <2>1. ~ (y < x)
    BY <1>2 DEF OpToRel
  <2> QED
    BY <2>1
<1> QED
  BY <1>3

\* Sequences that are appended one after the other.
Associates(s, t, u) == (s \o t) \o u = s \o (t \o u)

LEMMA ConcatAssociates ==
    ASSUME NEW S, NEW s \in Seq(S), NEW t \in Seq(S), NEW u \in Seq(S)
    PROVE  Associates(s, t, u)
  BY ConcatAssociative DEF Associates

-----------------------------------------------------------------------------
(* Sequences put one after the other *)

\* What the walk over a sequence of sequences has put together after each.
Flattens(ss, f) ==
    \A i \in 1..Len(ss) : f[i] = IF i = 1 THEN ss[i] ELSE f[i - 1] \o ss[i]
FlattenedBy(ss, f) ==
    f = [i \in 1..Len(ss) |-> IF i = 1 THEN ss[i] ELSE f[i - 1] \o ss[i]]

\* There is such a walk: it can always go on.
LEMMA FlattenExists ==
    ASSUME NEW S, NEW ss \in Seq(Seq(S))
    PROVE  \E f \in [1..Len(ss) -> Seq(S)] : FlattenedBy(ss, f)
<1> DEFINE upTo(n, f) == /\ f \in [1..n -> Seq(S)]
                         /\ \A i \in 1..n : f[i] = IF i = 1 THEN ss[i] ELSE f[i - 1] \o ss[i]
           Missing == {n \in 0..Len(ss) : ~ \E f : upTo(n, f)}
<1>1. Len(ss) \in Nat /\ \A i \in 1..Len(ss) : ss[i] \in Seq(S)
  BY LenProperties, ElementOfSeq
<1>2. Missing \subseteq Nat
  BY <1>1
<1>3. upTo(0, [i \in 1..0 |-> <<>>])
  OBVIOUS
<1>4. ASSUME NEW n \in 1..Len(ss), NEW f, upTo(n - 1, f)
      PROVE  \E g : upTo(n, g)
  <2> DEFINE next == IF n = 1 THEN ss[n] ELSE f[n - 1] \o ss[n]
             g == [i \in 1..n |-> IF i < n THEN f[i] ELSE next]
  <2>1. n \in Nat /\ 0 < n /\ ss[n] \in Seq(S) /\ (n # 1 => n - 1 \in 1..(n - 1))
    BY <1>1
  <2>2. next \in Seq(S)
    <3>1. CASE n = 1
      BY <2>1, <3>1
    <3>2. CASE n # 1
      <4>1. f[n - 1] \in Seq(S)
        BY <1>4, <2>1, <3>2
      <4> QED
        BY <2>1, <3>2, <4>1, ConcatProperties
    <3> QED
      BY <3>1, <3>2
  <2> HIDE DEF next
  <2>3. \A i \in 1..n : i < n => i \in 1..(n - 1)
    BY <2>1
  <2>4. g \in [1..n -> Seq(S)]
    BY <1>4, <2>2, <2>3
  <2>5. (\A i \in 1..(n - 1) : g[i] = f[i]) /\ g[n] = next
    BY <2>1
  <2> HIDE DEF g
  <2>6. ASSUME NEW i \in 1..n
        PROVE  g[i] = IF i = 1 THEN ss[i] ELSE g[i - 1] \o ss[i]
    <3>1. CASE i = n
      <4>1. i # 1 => g[i - 1] = f[n - 1]
        BY <2>1, <2>5, <3>1
      <4> QED
        BY <2>5, <3>1, <4>1 DEF next
    <3>2. CASE i # n
      <4>1. i \in 1..(n - 1) /\ (i # 1 => i - 1 \in 1..(n - 1))
        BY <2>1, <3>2
      <4>2. f[i] = IF i = 1 THEN ss[i] ELSE f[i - 1] \o ss[i]
        BY <1>4, <4>1
      <4> QED
        BY <2>5, <4>1, <4>2
    <3> QED
      BY <3>1, <3>2
  <2> QED
    BY <2>4, <2>6
<1>5. Missing = {}
  <2> SUFFICES ASSUME Missing # {} PROVE FALSE
    OBVIOUS
  <2>1. PICK n \in Missing : \A m \in Missing : n <= m
    BY <1>2, SomeIsLeast
  <2>2. n \in 0..Len(ss) /\ ~ \E f : upTo(n, f)
    OBVIOUS
  <2>3. n # 0
    BY <2>2, <1>3
  <2>4. n - 1 \in 0..Len(ss) /\ n \in 1..Len(ss) /\ ~ (n <= n - 1)
    BY <1>1, <2>2, <2>3
  <2>5. n - 1 \notin Missing
    BY <2>1, <2>4
  <2>6. PICK f : upTo(n - 1, f)
    BY <2>4, <2>5
  <2> HIDE DEF upTo, Missing
  <2>7. \E g : upTo(n, g)
    BY <1>4, <2>4, <2>6
  <2> QED
    BY <2>2, <2>7
<1>6. Len(ss) \notin Missing
  BY <1>5
<1>7. PICK f : upTo(Len(ss), f)
  BY <1>1, <1>6
<1>8. FlattenedBy(ss, f)
  BY <1>7 DEF FlattenedBy
<1> QED
  BY <1>7, <1>8

\* Any walk ends with the flattened sequence.
LEMMA FlattenIs ==
    ASSUME NEW S, NEW ss \in Seq(Seq(S)), NEW f \in [1..Len(ss) -> Seq(S)], Flattens(ss, f), ss # <<>>
    PROVE  FlattenSeq(ss) = f[Len(ss)]
<1> DEFINE N == Len(ss)
           h == CHOOSE g : FlattenedBy(ss, g)
<1>1. N \in Nat /\ N # 0
  BY LenProperties, EmptySeq
<1> HIDE DEF N
<1>2. FlattenedBy(ss, h)
  BY FlattenExists
<1>3. FlattenSeq(ss) = h[N]
  BY <1>1 DEF FlattenSeq, FlattenedBy, N
<1> HIDE DEF h
<1>4. \A i \in 1..N : h[i] = IF i = 1 THEN ss[i] ELSE h[i - 1] \o ss[i]
  <2> DEFINE e(i) == IF i = 1 THEN ss[i] ELSE h[i - 1] \o ss[i]
  <2>1. h = [i \in 1..N |-> e(i)]
    BY <1>2 DEF FlattenedBy, N
  <2>2. \A i \in 1..N : h[i] = e(i)
    <3> HIDE DEF e
    <3> QED
      BY <2>1
  <2> QED
    BY <2>2
<1>5. \A i \in 1..N : f[i] = IF i = 1 THEN ss[i] ELSE f[i - 1] \o ss[i]
  BY DEF Flattens, N
<1> DEFINE Differ == {i \in 1..N : h[i] # f[i]}
<1>6. Differ = {}
  <2> SUFFICES ASSUME Differ # {} PROVE FALSE
    OBVIOUS
  <2>1. Differ \subseteq Nat
    BY <1>1
  <2>2. PICK n \in Differ : \A m \in Differ : n <= m
    BY <2>1, SomeIsLeast
  <2>3. n \in 1..N /\ n # 1 /\ n - 1 \in 1..N /\ ~ (n <= n - 1)
    BY <1>1, <1>4, <1>5
  <2>4. h[n - 1] = f[n - 1]
    BY <2>2, <2>3
  <2> QED
    BY <1>4, <1>5, <2>3, <2>4
<1>7. N \in 1..N
  BY <1>1
<1>8. h[N] = f[N]
  BY <1>6, <1>7
<1> QED
  BY <1>3, <1>8 DEF N

\* One more sequence comes after the others.
LEMMA FlattenAppend ==
    ASSUME NEW S, NEW ss \in Seq(Seq(S)), NEW s \in Seq(S)
    PROVE  /\ FlattenSeq(ss) \in Seq(S)
           /\ FlattenSeq(Append(ss, s)) = FlattenSeq(ss) \o s
<1> DEFINE N == Len(ss)
           longer == Append(ss, s)
<1>1. /\ longer \in Seq(Seq(S)) /\ Len(longer) = N + 1
      /\ \A i \in 1..N : longer[i] = ss[i]
      /\ longer[N + 1] = s
      /\ longer # <<>>
  BY AppendProperties, EmptySeq, LenProperties
<1>2. N \in Nat
  BY LenProperties
<1> HIDE DEF longer, N
<1>3. PICK f \in [1..(N + 1) -> Seq(S)] : FlattenedBy(longer, f)
  BY <1>1, FlattenExists
<1>4. Flattens(longer, f)
  <2> DEFINE e(i) == IF i = 1 THEN longer[i] ELSE f[i - 1] \o longer[i]
  <2>1. f = [i \in 1..(N + 1) |-> e(i)]
    BY <1>1, <1>3 DEF FlattenedBy
  <2>2. \A i \in 1..(N + 1) : f[i] = e(i)
    <3> HIDE DEF e
    <3> QED
      BY <2>1
  <2> QED
    BY <1>1, <2>2 DEF Flattens
<1>5. FlattenSeq(longer) = f[N + 1]
  BY <1>1, <1>4, FlattenIs
<1>6. CASE N = 0
  <2>1. ss = <<>> /\ FlattenSeq(ss) = <<>>
    BY <1>6, EmptySeq DEF N, FlattenSeq
  <2>2. f[N + 1] = s
    BY <1>1, <1>4, <1>6 DEF Flattens
  <2>3. <<>> \o s = s /\ <<>> \in Seq(S)
    BY ConcatEmptySeq, EmptySeq
  <2> QED
    BY <1>5, <2>1, <2>2, <2>3 DEF longer
<1>7. CASE N # 0
  <2> DEFINE g == [i \in 1..N |-> f[i]]
  <2>1. N \in 1..N /\ N + 1 \in 1..(N + 1) /\ N + 1 # 1 /\ (N + 1) - 1 = N
    BY <1>2, <1>7
  <2>2. g \in [1..N -> Seq(S)]
    BY <1>2, <1>3
  <2>3. Flattens(ss, g)
    <3>1. ASSUME NEW i \in 1..N PROVE g[i] = IF i = 1 THEN ss[i] ELSE g[i - 1] \o ss[i]
      <4>1. i \in 1..(N + 1) /\ (i # 1 => i - 1 \in 1..N)
        BY <1>2
      <4>2. f[i] = IF i = 1 THEN longer[i] ELSE f[i - 1] \o longer[i]
        BY <1>1, <1>4, <4>1 DEF Flattens
      <4> QED
        BY <1>1, <4>1, <4>2
    <3> QED
      BY <3>1 DEF Flattens, N
  <2>4. ss # <<>>
    BY <1>7, EmptySeq DEF N
  <2>5. FlattenSeq(ss) = g[N] /\ g[N] = f[N] /\ f[N] \in Seq(S)
    BY <2>1, <2>2, <2>3, <2>4, FlattenIs DEF N
  <2>6. f[N + 1] = f[N] \o s
    BY <1>1, <1>4, <2>1 DEF Flattens
  <2> QED
    BY <1>5, <2>5, <2>6 DEF longer
<1> QED
  BY <1>6, <1>7

LEMMA FlattenEmpty == FlattenSeq(<<>>) = <<>>
  BY DEF FlattenSeq

-----------------------------------------------------------------------------
(* What is shown of a text *)

ShownBytes(bytes) == [i \in DOMAIN bytes |-> ShownByte(bytes[i])]

\* One more byte is shown after the others.
LEMMA ShownAppend ==
    ASSUME NEW S, NEW bytes \in Seq(S), NEW byte \in S
    PROVE  /\ Shown(bytes) \in Seq(S)
           /\ Shown(Append(bytes, byte)) = Shown(bytes) \o ShownByte(byte)
<1> DEFINE N == Len(bytes)
           longer == Append(bytes, byte)
<1>1. /\ N \in Nat /\ DOMAIN bytes = 1..N /\ \A i \in 1..N : bytes[i] \in S
      /\ longer \in Seq(S) /\ Len(longer) = N + 1 /\ DOMAIN longer = 1..(N + 1)
      /\ \A i \in 1..N : longer[i] = bytes[i]
      /\ longer[N + 1] = byte
  BY LenProperties, ElementOfSeq, AppendProperties
<1>2. \A b \in S : ShownByte(b) \in Seq(S)
  BY DEF ShownByte
<1> HIDE DEF N, longer
<1>3. ShownBytes(bytes) \in Seq(Seq(S)) /\ Len(ShownBytes(bytes)) = N
  <2>1. ShownBytes(bytes) = [i \in 1..N |-> ShownByte(bytes[i])]
    BY <1>1 DEF ShownBytes
  <2>2. \A i \in 1..N : ShownByte(bytes[i]) \in Seq(S)
    BY <1>1, <1>2
  <2> QED
    BY <1>1, <2>1, <2>2, IsASeq, LenProperties
<1>4. ShownBytes(longer) = Append(ShownBytes(bytes), ShownByte(byte))
  <2>1. /\ Append(ShownBytes(bytes), ShownByte(byte)) \in Seq(Seq(S))
        /\ Len(Append(ShownBytes(bytes), ShownByte(byte))) = N + 1
        /\ Append(ShownBytes(bytes), ShownByte(byte))[N + 1] = ShownByte(byte)
        /\ \A i \in 1..N : Append(ShownBytes(bytes), ShownByte(byte))[i] = ShownBytes(bytes)[i]
    BY <1>2, <1>3, AppendProperties
  <2>2. ShownBytes(longer) = [i \in 1..(N + 1) |-> ShownByte(longer[i])]
    BY <1>1 DEF ShownBytes
  <2>3. \A i \in 1..N : ShownBytes(bytes)[i] = ShownByte(bytes[i])
    BY <1>1 DEF ShownBytes
  <2>4. ShownBytes(longer) \in Seq(Seq(S)) /\ Len(ShownBytes(longer)) = N + 1
    <3>1. N + 1 \in Nat /\ \A i \in 1..(N + 1) : longer[i] \in S
      BY <1>1, ElementOfSeq
    <3> QED
      BY <1>2, <2>2, <3>1, IsASeq, LenProperties
  <2>5. ASSUME NEW i \in 1..(N + 1)
        PROVE  ShownBytes(longer)[i] = Append(ShownBytes(bytes), ShownByte(byte))[i]
    <3>1. ShownBytes(longer)[i] = ShownByte(longer[i])
      BY <2>2
    <3>2. i \in 1..N \/ i = N + 1
      BY <1>1
    <3> QED
      BY <1>1, <2>1, <2>3, <3>1, <3>2
  <2> QED
    BY <2>1, <2>4, <2>5, SeqEqual
<1>5. Shown(bytes) = FlattenSeq(ShownBytes(bytes)) /\ Shown(longer) = FlattenSeq(ShownBytes(longer))
  BY DEF Shown, ShownBytes
<1> QED
  BY <1>2, <1>3, <1>4, <1>5, FlattenAppend DEF longer

LEMMA ShownEmpty == Shown(<<>>) = <<>>
  BY FlattenEmpty DEF Shown

\* What is shown of the bytes of the text after m and up to n.
ShownPart(m, n) == Shown(SubSeq(text, m + 1, n))

LEMMA ShownNone ==
    ASSUME NEW m \in Nat
    PROVE  ShownPart(m, m) = <<>>
<1>1. m + 1 \in Int /\ m \in Int /\ m + 1 > m
  OBVIOUS
<1>2. SubSeq(text, m + 1, m) = <<>>
  BY <1>1, SubSeqEmpty
<1> QED
  BY <1>2, ShownEmpty DEF ShownPart

\* A byte further, more is shown.
LEMMA ShownStep ==
    ASSUME NEW S, text \in Seq(S), NEW m \in Nat, NEW n \in Nat, m <= n, n < Len(text)
    PROVE  /\ ShownPart(m, n) \in Seq(S)
           /\ ShownPart(m, n + 1) = ShownPart(m, n) \o ShownByte(text[n + 1])
<1>1. Len(text) \in Nat /\ text[n + 1] \in S
  BY LenProperties, ElementOfSeq
<1>2. SubSeq(text, m + 1, n) \in Seq(S)
  BY <1>1, SubSeqProperties
<1>3. SubSeq(text, m + 1, n + 1) = Append(SubSeq(text, m + 1, n), text[n + 1])
  OBVIOUS
<1> QED
  BY <1>1, <1>2, <1>3, ShownAppend DEF ShownPart

\* What is shown up to a place and from there is what is shown.
LEMMA ShownParts ==
    ASSUME NEW S, text \in Seq(S), NEW m \in Nat, NEW n \in Nat, NEW k \in Nat,
           m <= n, n <= k, k <= Len(text)
    PROVE  ShownPart(m, k) = ShownPart(m, n) \o ShownPart(n, k)
<1> DEFINE L == Len(text)
           Wrong == {i \in n..L : ShownPart(m, i) # ShownPart(m, n) \o ShownPart(n, i)}
<1>1. L \in Nat
  BY LenProperties
<1>2. \A i, j \in 0..L : i <= j => ShownPart(i, j) \in Seq(S)
  <2> SUFFICES ASSUME NEW i \in 0..L, NEW j \in 0..L, i <= j PROVE ShownPart(i, j) \in Seq(S)
    OBVIOUS
  <2>1. CASE i = j
    <3>1. i \in Nat
      BY <1>1
    <3> QED
      BY <2>1, <3>1, ShownNone, EmptySeq
  <2>2. CASE i < j
    <3>1. i \in Nat /\ j - 1 \in Nat /\ i <= j - 1 /\ j - 1 < L /\ (j - 1) + 1 = j
      BY <1>1, <2>2
    <3>2. ShownPart(i, j - 1) \in Seq(S) /\ ShownPart(i, j) = ShownPart(i, j - 1) \o ShownByte(text[j])
      BY <3>1, ShownStep
    <3>3. text[j] \in S
      BY <3>1, ElementOfSeq
    <3>4. ShownByte(text[j]) \in Seq(S)
      BY <3>3 DEF ShownByte
    <3> QED
      BY <3>2, <3>4, ConcatProperties
  <2> QED
    BY <1>1, <2>1, <2>2
<1>3. Wrong = {}
  <2> SUFFICES ASSUME Wrong # {} PROVE FALSE
    OBVIOUS
  <2>1. Wrong \subseteq Nat
    BY <1>1
  <2>2. PICK i \in Wrong : \A j \in Wrong : i <= j
    BY <2>1, SomeIsLeast
  <2>3. i \in n..L /\ ShownPart(m, i) # ShownPart(m, n) \o ShownPart(n, i)
    OBVIOUS
  <2>4. m \in 0..L /\ n \in 0..L /\ ShownPart(m, n) \in Seq(S)
    <3> HIDE DEF L
    <3>1. m \in 0..L /\ n \in 0..L
      BY <1>1 DEF L
    <3> QED
      BY <1>2, <3>1
  <2>5. i # n
    BY <2>3, <2>4, ShownNone, ConcatEmptySeq
  <2>6. i - 1 \in n..L /\ i - 1 \in Nat /\ m <= i - 1 /\ i - 1 < L /\ ~ (i <= i - 1) /\ (i - 1) + 1 = i
    BY <1>1, <2>3, <2>5
  <2>7. ShownPart(m, i - 1) = ShownPart(m, n) \o ShownPart(n, i - 1)
    BY <2>2, <2>6
  <2>8. /\ ShownPart(m, i) = ShownPart(m, i - 1) \o ShownByte(text[i])
        /\ ShownPart(n, i) = ShownPart(n, i - 1) \o ShownByte(text[i])
        /\ ShownPart(n, i - 1) \in Seq(S)
    <3> HIDE DEF Wrong
    <3>1. n <= i - 1 /\ i - 1 < Len(text)
      BY <2>6
    <3> QED
      BY <2>6, <3>1, ShownStep
  <2>9. ShownByte(text[i]) \in Seq(S)
    BY <2>6, ElementOfSeq DEF ShownByte
  <2> DEFINE s == ShownPart(m, n)
             t == ShownPart(n, i - 1)
             u == ShownByte(text[i])
  <2>10. s \in Seq(S) /\ t \in Seq(S) /\ u \in Seq(S)
    BY <2>4, <2>8, <2>9
  <2>11. ShownPart(m, i) = (s \o t) \o u
    BY <2>7, <2>8
  <2>12. ShownPart(n, i) = t \o u
    BY <2>8
  <2> HIDE DEF s, t, u
  <2>13. (s \o t) \o u = s \o (t \o u)
    <3>1. Associates(s, t, u)
      BY <2>10, ConcatAssociates
    <3> QED
      BY <3>1, Zenon DEF Associates
  <2>14. ShownPart(m, i) = s \o ShownPart(n, i)
    BY <2>11, <2>12, <2>13
  <2> QED
    BY <2>3, <2>14 DEF s
<1>4. k \in n..L
  BY <1>1
<1> QED
  BY <1>3, <1>4

-----------------------------------------------------------------------------
(* The switch *)

TextIsBytes == text \in Seq(TextBytes)

\* The places of the line endings among the first n bytes; got says whether a "\r"
\* that is the last of them still waits for what comes after it.
EndsUpTo(n, got) ==
    {i \in 1..n : \/ text[i] = "lf"
                  \/ text[i] = "cr" /\ IF i = n THEN ~ got ELSE text[i + 1] # "lf"}
KindsUpTo(n, got) == {EndingAt(text, i) : i \in EndsUpTo(n, got)}
KindIs(kinds) ==
    IF kinds = {} THEN "Unknown"
    ELSE IF \E kind \in kinds : kinds = {kind} THEN CHOOSE kind \in kinds : TRUE
    ELSE "Mixed"
Waiting(got) == IF includeLineEnding /\ got THEN <<"cr">> ELSE <<>>

\* The lines ls end at the places ends; work is what comes after the last of them.
IsSplit(ends, ls, work, got, n) ==
    /\ ends \in [0..Len(ls) -> 0..n]
    /\ ends[0] = 0
    /\ \A k \in 1..Len(ls) :
          ends[k - 1] < ends[k] /\ ls[k] = ShownPart(ends[k - 1], ends[k])
    /\ EndsUpTo(n, got) = {ends[k] : k \in 1..Len(ls)}
    /\ work \o Waiting(got) = ShownPart(ends[Len(ls)], n)

\* What the switch has made of the first n bytes.
Switched(ls, work, got, kind, isEarly, n) ==
    /\ n \in 0..Len(text) /\ got \in BOOLEAN
    /\ ls \in Seq(Seq(TextBytes)) /\ work \in Seq(TextBytes)
    /\ got => n > 0 /\ text[n] = "cr"
    /\ FlattenSeq(ls) \o work \o Waiting(got) = ShownPart(0, n)
    /\ kind = KindIs(KindsUpTo(n, got))
    /\ ~ isEarly => \E ends : IsSplit(ends, ls, work, got, n)

Kinds == {"Unix", "DOS", "Mac"}

\* One more kind of ending is known as _updateLineEndingsReadKind() has it.
LEMMA KindUpdate ==
    ASSUME NEW kinds \in SUBSET Kinds, NEW kind \in Kinds
    PROVE  KindIs(kinds \cup {kind})
              = IF KindIs(kinds) \in {"Unknown", kind} THEN kind ELSE "Mixed"
<1>1. CASE kinds = {}
  <2>1. KindIs(kinds) = "Unknown" /\ kinds \cup {kind} = {kind}
    BY <1>1 DEF KindIs
  <2>2. KindIs({kind}) = kind
    <3>1. (CHOOSE k \in {kind} : TRUE) = kind
      OBVIOUS
    <3> QED
      BY <3>1 DEF KindIs
  <2> QED
    BY <2>1, <2>2
<1>2. ASSUME NEW k \in Kinds, kinds = {k}
      PROVE  KindIs(kinds \cup {kind}) = IF KindIs(kinds) \in {"Unknown", kind} THEN kind ELSE "Mixed"
  <2>1. KindIs(kinds) = k
    <3>1. (CHOOSE j \in {k} : TRUE) = k
      OBVIOUS
    <3> QED
      BY <1>2, <3>1 DEF KindIs
  <2>2. CASE k = kind
    <3>1. kinds \cup {kind} = kinds
      BY <1>2, <2>2
    <3> QED
      BY <2>1, <2>2, <3>1
  <2>3. CASE k # kind
    <3>1. k \in kinds \cup {kind} /\ kind \in kinds \cup {kind}
      BY <1>2
    <3>2. ~ \E j \in kinds \cup {kind} : kinds \cup {kind} = {j}
      BY <2>3, <3>1
    <3>3. KindIs(kinds \cup {kind}) = "Mixed"
      BY <3>1, <3>2 DEF KindIs
    <3>4. k # "Unknown"
      BY DEF Kinds
    <3> QED
      BY <2>1, <2>3, <3>3, <3>4
  <2> QED
    BY <2>2, <2>3
<1>3. CASE kinds # {} /\ ~ \E k \in kinds : kinds = {k}
  <2>1. KindIs(kinds) = "Mixed"
    BY <1>3 DEF KindIs
  <2>2. PICK j \in kinds : TRUE
    BY <1>3
  <2>3. PICK k \in kinds : k # j
    BY <1>3, <2>2
  <2>4. kinds \cup {kind} # {} /\ ~ \E i \in kinds \cup {kind} : kinds \cup {kind} = {i}
    BY <2>2, <2>3
  <2>5. KindIs(kinds \cup {kind}) = "Mixed"
    BY <2>4 DEF KindIs
  <2> QED
    BY <2>1, <2>5 DEF Kinds
<1>4. \A k \in kinds : k \in Kinds
  OBVIOUS
<1> QED
  BY <1>1, <1>2, <1>3, <1>4

\* A "\n" ends a line, a "\r" that waited ends with it or by itself, and one that
\* begins to wait does not end a line; nor does another byte.
LEMMA EndsAtLineFeed ==
    ASSUME NEW n \in Nat, NEW got \in BOOLEAN, text[n + 1] = "lf",
           IF got THEN n > 0 /\ text[n] = "cr" ELSE n = 0 \/ text[n] # "cr"
    PROVE  EndsUpTo(n + 1, FALSE) = EndsUpTo(n, got) \cup {n + 1}
<1>1. ASSUME NEW i \in 1..n + 1
      PROVE  i \in EndsUpTo(n + 1, FALSE) <=> i \in EndsUpTo(n, got) \/ i = n + 1
  <2>1. i \in 1..n \/ i = n + 1
    OBVIOUS
  <2>2. i \in 1..n => i # n + 1
    OBVIOUS
  <2>3. CASE i = n + 1
    BY <2>3 DEF EndsUpTo
  <2>4. CASE i = n /\ i \in 1..n
    BY <2>4 DEF EndsUpTo
  <2>5. CASE i # n /\ i \in 1..n
    BY <2>2, <2>5 DEF EndsUpTo
  <2> QED
    BY <2>1, <2>3, <2>4, <2>5
<1>2. EndsUpTo(n + 1, FALSE) \subseteq 1..n + 1 /\ EndsUpTo(n, got) \cup {n + 1} \subseteq 1..n + 1
  BY DEF EndsUpTo
<1> QED
  BY <1>1, <1>2

LEMMA EndsAtReturn ==
    ASSUME NEW n \in Nat, n > 0, text[n] = "cr"
    PROVE  EndsUpTo(n, FALSE) = EndsUpTo(n, TRUE) \cup {n}
  BY DEF EndsUpTo

LEMMA WaitsAtReturn ==
    ASSUME NEW n \in Nat, text[n + 1] = "cr"
    PROVE  EndsUpTo(n + 1, TRUE) = EndsUpTo(n, FALSE)
<1>1. ASSUME NEW i \in 1..n + 1
      PROVE  i \in EndsUpTo(n + 1, TRUE) <=> i \in EndsUpTo(n, FALSE)
  <2>1. i \in 1..n \/ i = n + 1
    OBVIOUS
  <2>2. i \in 1..n => i # n + 1
    OBVIOUS
  <2>3. CASE i = n + 1
    BY <2>3 DEF EndsUpTo
  <2>4. CASE i = n /\ i \in 1..n
    BY <2>4 DEF EndsUpTo
  <2>5. CASE i # n /\ i \in 1..n
    BY <2>2, <2>5 DEF EndsUpTo
  <2> QED
    BY <2>1, <2>3, <2>4, <2>5
<1>2. EndsUpTo(n + 1, TRUE) \subseteq 1..n + 1 /\ EndsUpTo(n, FALSE) \subseteq 1..n + 1
  BY DEF EndsUpTo
<1> QED
  BY <1>1, <1>2

LEMMA EndsNowhere ==
    ASSUME NEW n \in Nat, NEW m \in Nat, n < m, \A i \in n + 1..m : ~ IsEnding(text[i])
    PROVE  EndsUpTo(m, FALSE) = EndsUpTo(n, FALSE)
<1>1. ASSUME NEW i \in 1..m
      PROVE  i \in EndsUpTo(m, FALSE) <=> i \in EndsUpTo(n, FALSE)
  <2>1. i \in 1..n \/ i \in n + 1..m
    OBVIOUS
  <2>2. CASE i \in n + 1..m
    <3>1. text[i] \notin {"cr", "lf"} /\ i \notin 1..n
      BY <2>2 DEF IsEnding
    <3> QED
      BY <3>1 DEF EndsUpTo
  <2>3. CASE i \in 1..n
    <3>1. i # m
      BY <2>3
    <3>2. CASE i = n
      <4>1. text[i + 1] # "lf"
        BY <3>2 DEF IsEnding
      <4> QED
        BY <2>3, <3>1, <3>2, <4>1 DEF EndsUpTo
    <3>3. CASE i # n
      BY <2>3, <3>1, <3>3 DEF EndsUpTo
    <3> QED
      BY <3>2, <3>3
  <2> QED
    BY <2>1, <2>2, <2>3
<1>2. EndsUpTo(m, FALSE) \subseteq 1..m /\ EndsUpTo(n, FALSE) \subseteq 1..m
  BY DEF EndsUpTo
<1> QED
  BY <1>1, <1>2

\* What is shown of a part is bytes.
LEMMA ShownPartBytes ==
    ASSUME TextIsBytes, NEW m \in 0..Len(text), NEW n \in 0..Len(text), m <= n
    PROVE  ShownPart(m, n) \in Seq(TextBytes)
<1>1. Len(text) \in Nat /\ m \in Int /\ n \in Int /\ m + 1 \in Int
  BY LenProperties DEF TextIsBytes
<1>2. \A i \in m + 1..n : text[i] \in TextBytes
  <2>1. \A i \in m + 1..n : i \in 1..Len(text)
    BY <1>1
  <2> QED
    BY <2>1, ElementOfSeq DEF TextIsBytes
<1>3. SubSeq(text, m + 1, n) \in Seq(TextBytes)
  BY <1>1, <1>2, SubSeqProperties
<1>4. "a" \in TextBytes
  BY DEF TextBytes
<1> QED
  BY <1>3, <1>4, ShownAppend DEF ShownPart

LEMMA PartsOfText ==
    ASSUME TextIsBytes, NEW m \in 0..Len(text), NEW n \in 0..Len(text), NEW k \in 0..Len(text),
           m <= n, n <= k
    PROVE  ShownPart(m, k) = ShownPart(m, n) \o ShownPart(n, k)
<1>1. text \in Seq(TextBytes) /\ Len(text) \in Nat
  BY LenProperties DEF TextIsBytes
<1>2. m \in Nat /\ n \in Nat /\ k \in Nat /\ k <= Len(text)
  BY <1>1
<1> QED
  BY <1>1, <1>2, ShownParts

LEMMA FlattenLines ==
    ASSUME NEW ls \in Seq(Seq(TextBytes)), NEW line \in Seq(TextBytes)
    PROVE  /\ FlattenSeq(ls) \in Seq(TextBytes)
           /\ FlattenSeq(Append(ls, line)) = FlattenSeq(ls) \o line
  BY FlattenAppend

LEMMA WaitingBytes ==
    /\ Waiting(FALSE) = <<>> /\ <<>> \in Seq(TextBytes)
    /\ \A got : Waiting(got) \in Seq(TextBytes)
<1>1. <<>> \in Seq(TextBytes) /\ <<"cr">> \in Seq(TextBytes)
  BY EmptySeq DEF TextBytes
<1> QED
  BY <1>1 DEF Waiting

\* A line is finished at m, which is where the bytes that went through end.
LEMMA SwitchEndsLine ==
    ASSUME TextIsBytes,
           NEW ls, NEW work, NEW got, NEW kind, NEW isEarly, NEW n,
           Switched(ls, work, got, kind, isEarly, n),
           NEW m \in 1..Len(text), n <= m, m = n => got,
           EndsUpTo(m, FALSE) = EndsUpTo(n, got) \cup {m},
           NEW line \in Seq(TextBytes), line = (work \o Waiting(got)) \o ShownPart(n, m),
           NEW newKind,
           newKind = IF kind \in {"Unknown", EndingAt(text, m)} THEN EndingAt(text, m) ELSE "Mixed"
    PROVE  Switched(Append(ls, line), <<>>, FALSE, newKind, isEarly, m)
<1> DEFINE N == Len(ls)
           longer == Append(ls, line)
<1>1. /\ ls \in Seq(Seq(TextBytes)) /\ work \in Seq(TextBytes) /\ N \in Nat
      /\ n \in 0..Len(text) /\ Len(text) \in Nat /\ n \in Nat /\ m \in Nat /\ 0 < m
      /\ text \in Seq(TextBytes)
  BY LenProperties DEF Switched, TextIsBytes
<1>2. /\ longer \in Seq(Seq(TextBytes)) /\ Len(longer) = N + 1
      /\ \A k \in 1..N : longer[k] = ls[k]
      /\ longer[N + 1] = line
      /\ FlattenSeq(ls) \in Seq(TextBytes)
      /\ FlattenSeq(longer) = FlattenSeq(ls) \o line
  <2>1. FlattenSeq(ls) \in Seq(TextBytes) /\ FlattenSeq(longer) = FlattenSeq(ls) \o line
    BY <1>1, FlattenLines
  <2> QED
    BY <1>1, <2>1, AppendProperties
<1>3. Waiting(FALSE) = <<>> /\ <<>> \in Seq(TextBytes) /\ Waiting(got) \in Seq(TextBytes)
  BY WaitingBytes
<1>4. FlattenSeq(longer) \o <<>> \o Waiting(FALSE) = ShownPart(0, m)
  <2>1. ShownPart(0, m) = ShownPart(0, n) \o ShownPart(n, m)
    <3>1. 0 \in 0..Len(text) /\ 0 <= n /\ m \in 0..Len(text)
      BY <1>1
    <3> QED
      BY <1>1, <3>1, PartsOfText
  <2>2. ShownPart(0, n) = FlattenSeq(ls) \o work \o Waiting(got)
    BY DEF Switched
  <2>3. ShownPart(n, m) \in Seq(TextBytes)
    BY <1>1, ShownPartBytes
  <2> DEFINE f == FlattenSeq(ls)
             w == Waiting(got)
             p == ShownPart(n, m)
  <2>4. f \in Seq(TextBytes) /\ w \in Seq(TextBytes) /\ p \in Seq(TextBytes)
    BY <1>2, <1>3, <2>3
  <2> HIDE DEF f, w, p
  <2>5. ((f \o work) \o w) \o p = f \o ((work \o w) \o p)
    <3>1. (f \o work) \o w = f \o (work \o w)
      <4>1. Associates(f, work, w)
        BY <1>1, <2>4, ConcatAssociates
      <4> QED
        BY <4>1, Zenon DEF Associates
    <3> DEFINE x == work \o w
    <3>2. x \in Seq(TextBytes)
      BY <1>1, <2>4, ConcatProperties
    <3> HIDE DEF x
    <3>3. (f \o x) \o p = f \o (x \o p)
      <4>1. Associates(f, x, p)
        BY <2>4, <3>2, ConcatAssociates
      <4> QED
        BY <4>1, Zenon DEF Associates
    <3> QED
      BY <3>1, <3>3 DEF x
  <2>6. ShownPart(0, m) = f \o line
    BY <2>1, <2>2, <2>5 DEF f, w, p
  <2>7. FlattenSeq(longer) = f \o line /\ f \o line \in Seq(TextBytes)
    BY <1>2, <2>4, ConcatProperties DEF f
  <2> QED
    BY <1>3, <2>6, <2>7, ConcatEmptySeq
<1>5. KindsUpTo(m, FALSE) = KindsUpTo(n, got) \cup {EndingAt(text, m)}
  BY DEF KindsUpTo
<1>6. KindsUpTo(n, got) \subseteq Kinds /\ EndingAt(text, m) \in Kinds
  BY DEF KindsUpTo, EndingAt, Kinds
<1>7. KindIs(KindsUpTo(m, FALSE)) =
        IF kind \in {"Unknown", EndingAt(text, m)} THEN EndingAt(text, m) ELSE "Mixed"
  <2>1. kind = KindIs(KindsUpTo(n, got))
    BY DEF Switched
  <2> QED
    <3>1. KindsUpTo(n, got) \in SUBSET Kinds
      BY <1>6
    <3>2. EndingAt(text, m) \in Kinds
      BY <1>6
    <3> DEFINE ks == KindsUpTo(n, got)
               e == EndingAt(text, m)
    <3>3. ks \in SUBSET Kinds /\ e \in Kinds
      BY <3>1, <3>2
    <3> HIDE DEF ks, e
    <3>4. KindIs(ks \cup {e}) = IF KindIs(ks) \in {"Unknown", e} THEN e ELSE "Mixed"
      BY <3>3, KindUpdate
    <3> QED
      BY <1>5, <2>1, <3>4 DEF ks, e
<1>8. ASSUME ~ isEarly PROVE \E ends : IsSplit(ends, longer, <<>>, FALSE, m)
  <2>1. PICK ends : IsSplit(ends, ls, work, got, n)
    BY <1>8 DEF Switched
  <2> DEFINE more == [k \in 0..N + 1 |-> IF k = N + 1 THEN m ELSE ends[k]]
  <2>2. /\ ends \in [0..N -> 0..n] /\ ends[0] = 0
        /\ \A k \in 1..N : ends[k - 1] < ends[k] /\ ls[k] = ShownPart(ends[k - 1], ends[k])
        /\ EndsUpTo(n, got) = {ends[k] : k \in 1..N}
        /\ work \o Waiting(got) = ShownPart(ends[N], n)
    BY <2>1 DEF IsSplit
  <2> HIDE DEF N, longer
  <2>3. ends[N] \in 0..n /\ ends[N] \in Nat /\ ends[N] <= n /\ N \in 0..N
    BY <1>1, <2>2
  <2>4. ends[N] < m
    <3>1. CASE n < m
      BY <1>1, <2>3, <3>1
    <3>2. CASE n = m
      <4>1. n \notin EndsUpTo(n, got)
        <5>1. got = TRUE /\ text[n] = "cr"
          BY <3>2 DEF Switched
        <5> QED
          BY <5>1 DEF EndsUpTo
      <4>2. ends[N] # n
        <5>1. CASE N = 0
          BY <1>1, <2>2, <3>2, <5>1
        <5>2. CASE N # 0
          <6>1. N \in 1..N
            BY <1>1, <5>2
          <6> QED
            BY <2>2, <4>1, <6>1
        <5> QED
          BY <5>1, <5>2
      <4> QED
        BY <1>1, <2>3, <3>2, <4>2
    <3> QED
      BY <1>1, <3>1, <3>2
  <2>5. \A k \in 0..N : k \in 0..N + 1 /\ k # N + 1 /\ ends[k] \in 0..m
    BY <1>1, <2>2
  <2>6. more \in [0..N + 1 -> 0..m] /\ (\A k \in 0..N : more[k] = ends[k]) /\ more[N + 1] = m
    BY <1>1, <2>5
  <2> HIDE DEF more
  <2>7. more[0] = 0
    BY <1>1, <2>2, <2>6
  <2>8. line = ShownPart(ends[N], m)
    <3>1. ShownPart(ends[N], m) = ShownPart(ends[N], n) \o ShownPart(n, m)
      <4>1. ends[N] \in 0..Len(text) /\ m \in 0..Len(text)
        BY <1>1, <2>3
      <4> QED
        BY <1>1, <2>3, <4>1, PartsOfText
    <3> QED
      BY <2>2, <3>1
  <2>9. ASSUME NEW k \in 1..N + 1
        PROVE  more[k - 1] < more[k] /\ longer[k] = ShownPart(more[k - 1], more[k])
    <3>1. CASE k = N + 1
      <4>1. k - 1 = N /\ more[k - 1] = ends[N]
        BY <1>1, <2>3, <2>6, <3>1
      <4> QED
        BY <1>2, <2>4, <2>6, <2>8, <3>1, <4>1
    <3>2. CASE k # N + 1
      <4>1. k \in 1..N /\ k \in 0..N /\ k - 1 \in 0..N
        BY <1>1, <3>2
      <4>2. more[k] = ends[k] /\ more[k - 1] = ends[k - 1] /\ longer[k] = ls[k]
        BY <1>2, <2>6, <4>1
      <4> QED
        BY <2>2, <4>1, <4>2
    <3> QED
      BY <3>1, <3>2
  <2>10. EndsUpTo(m, FALSE) = {more[k] : k \in 1..N + 1}
    <3>1. \A k \in 1..N : k \in 1..N + 1 /\ k \in 0..N
      BY <1>1
    <3>2. N + 1 \in 1..N + 1 /\ \A k \in 1..N + 1 : k = N + 1 \/ k \in 1..N
      BY <1>1
    <3>3. \A k \in 1..N : more[k] = ends[k]
      BY <2>6, <3>1
    <3>4. EndsUpTo(m, FALSE) = EndsUpTo(n, got) \cup {m} /\ EndsUpTo(n, got) = {ends[k] : k \in 1..N}
      BY <2>2
    <3>5. more[N + 1] = m
      BY <2>6
    <3> HIDE DEF N
    <3>6. ASSUME NEW i \in EndsUpTo(m, FALSE) PROVE \E k \in 1..N + 1 : i = more[k]
      <4>1. CASE i = m
        BY <3>2, <3>5, <4>1
      <4>2. CASE i # m
        <5>1. PICK k \in 1..N : i = ends[k]
          BY <3>4, <3>6, <4>2
        <5> QED
          BY <3>1, <3>3, <5>1
      <4> QED
        BY <4>1, <4>2
    <3>7. ASSUME NEW k \in 1..N + 1 PROVE more[k] \in EndsUpTo(m, FALSE)
      <4>1. CASE k = N + 1
        BY <3>4, <3>5, <4>1
      <4>2. CASE k # N + 1
        <5>1. k \in 1..N
          BY <3>2, <4>2
        <5>2. more[k] = ends[k]
          BY <3>3, <5>1
        <5> QED
          BY <3>4, <5>1, <5>2
      <4> QED
        BY <4>1, <4>2
    <3> QED
      BY <3>6, <3>7, Zenon
  <2>11. <<>> \o Waiting(FALSE) = ShownPart(more[N + 1], m)
    BY <1>1, <1>3, <2>6, ShownNone, ConcatEmptySeq
  <2> QED
    BY <1>2, <2>6, <2>7, <2>9, <2>10, <2>11 DEF IsSplit
<1> QED
  <2>1. m \in 0..Len(text) /\ isEarly = isEarly
    BY <1>1
  <2> HIDE DEF longer
  <2> QED
    BY <1>2, <1>3, <1>4, <1>7, <1>8, <2>1 DEF Switched, longer

\* No line is finished, the line in work gets longer.
LEMMA SwitchGoesOn ==
    ASSUME TextIsBytes,
           NEW ls, NEW work, NEW kind, NEW isEarly, NEW n,
           Switched(ls, work, FALSE, kind, isEarly, n),
           NEW m \in 0..Len(text), n <= m, NEW got \in BOOLEAN,
           EndsUpTo(m, got) = EndsUpTo(n, FALSE), got => m > 0 /\ text[m] = "cr",
           NEW longer \in Seq(TextBytes), longer \o Waiting(got) = work \o ShownPart(n, m)
    PROVE  Switched(ls, longer, got, kind, isEarly, m)
<1>1. /\ ls \in Seq(Seq(TextBytes)) /\ work \in Seq(TextBytes) /\ Len(ls) \in Nat
      /\ n \in 0..Len(text) /\ Len(text) \in Nat /\ n \in Nat /\ m \in Nat
      /\ text \in Seq(TextBytes)
  BY LenProperties DEF Switched, TextIsBytes
<1>2. /\ Waiting(FALSE) = <<>> /\ Waiting(got) \in Seq(TextBytes) /\ FlattenSeq(ls) \in Seq(TextBytes)
      /\ ShownPart(n, m) \in Seq(TextBytes)
  <2>1. FlattenSeq(ls) \in Seq(TextBytes)
    BY <1>1, WaitingBytes, FlattenLines
  <2>2. ShownPart(n, m) \in Seq(TextBytes)
    BY <1>1, ShownPartBytes
  <2> QED
    BY <2>1, <2>2, WaitingBytes
<1>3. FlattenSeq(ls) \o longer \o Waiting(got) = ShownPart(0, m)
  <2>1. ShownPart(0, m) = ShownPart(0, n) \o ShownPart(n, m)
    <3>1. 0 \in 0..Len(text) /\ 0 <= n /\ m \in 0..Len(text)
      BY <1>1
    <3> QED
      BY <1>1, <3>1, PartsOfText
  <2>2. ShownPart(0, n) = FlattenSeq(ls) \o work \o Waiting(FALSE)
    BY DEF Switched
  <2> DEFINE f == FlattenSeq(ls)
             w == Waiting(got)
             p == ShownPart(n, m)
  <2>3. f \in Seq(TextBytes) /\ w \in Seq(TextBytes) /\ p \in Seq(TextBytes)
    BY <1>2
  <2>4. f \o work \in Seq(TextBytes)
    BY <1>1, <2>3, ConcatProperties
  <2>5. ShownPart(0, n) = f \o work
    BY <1>2, <2>2, <2>4, ConcatEmptySeq
  <2>6. longer \o w = work \o p
    OBVIOUS
  <2> HIDE DEF f, w, p
  <2>7. (f \o work) \o p = f \o (work \o p)
    <3>1. Associates(f, work, p)
      BY <1>1, <2>3, ConcatAssociates
    <3> QED
      BY <3>1, Zenon DEF Associates
  <2>8. (f \o longer) \o w = f \o (longer \o w)
    <3>1. Associates(f, longer, w)
      BY <2>3, ConcatAssociates
    <3> QED
      BY <3>1, Zenon DEF Associates
  <2>9. (f \o longer) \o w = (f \o work) \o p
    BY <2>6, <2>7, <2>8
  <2> QED
    BY <2>1, <2>5, <2>9 DEF f, w, p
<1>4. kind = KindIs(KindsUpTo(m, got))
  BY DEF Switched, KindsUpTo
<1>5. ASSUME ~ isEarly PROVE \E ends : IsSplit(ends, ls, longer, got, m)
  <2>1. PICK ends : IsSplit(ends, ls, work, FALSE, n)
    BY <1>5 DEF Switched
  <2>2. ends \in [0..Len(ls) -> 0..n] /\ ends[Len(ls)] \in 0..n
    <3>1. ends \in [0..Len(ls) -> 0..n]
      BY <2>1 DEF IsSplit
    <3>2. Len(ls) \in 0..Len(ls)
      BY <1>1
    <3> QED
      BY <3>1, <3>2
  <2>3. ends \in [0..Len(ls) -> 0..m]
    <3>1. \A k \in 0..n : k \in 0..m
      BY <1>1
    <3> QED
      BY <2>2, <3>1
  <2>4. longer \o Waiting(got) = ShownPart(ends[Len(ls)], m)
    <3>1. work = ShownPart(ends[Len(ls)], n)
      BY <1>1, <1>2, <2>1, ConcatEmptySeq DEF IsSplit
    <3>2. ends[Len(ls)] \in Nat /\ ends[Len(ls)] <= n
      BY <1>1, <2>2
    <3>3. ShownPart(ends[Len(ls)], m) = ShownPart(ends[Len(ls)], n) \o ShownPart(n, m)
      <4>1. ends[Len(ls)] \in 0..Len(text) /\ m \in 0..Len(text)
        BY <1>1, <3>2
      <4> QED
        BY <1>1, <3>2, <4>1, PartsOfText
    <3> QED
      BY <3>1, <3>3
  <2> QED
    BY <2>1, <2>3, <2>4 DEF IsSplit
<1> QED
  BY <1>1, <1>3, <1>4, <1>5 DEF Switched

\* The line in work is returned before it is finished.
LEMMA SwitchEndsEarly ==
    ASSUME NEW ls, NEW work, NEW got, NEW kind, NEW isEarly, NEW n,
           Switched(ls, work, got, kind, isEarly, n)
    PROVE  Switched(Append(ls, work), <<>>, got, kind, TRUE, n)
<1>1. ls \in Seq(Seq(TextBytes)) /\ work \in Seq(TextBytes)
  BY DEF Switched
<1>2. /\ Append(ls, work) \in Seq(Seq(TextBytes)) /\ <<>> \in Seq(TextBytes)
      /\ FlattenSeq(Append(ls, work)) = FlattenSeq(ls) \o work
      /\ FlattenSeq(ls) \o work \in Seq(TextBytes)
  BY <1>1, AppendProperties, FlattenAppend, ConcatProperties, EmptySeq
<1>3. FlattenSeq(Append(ls, work)) \o <<>> = FlattenSeq(ls) \o work
  BY <1>2, ConcatEmptySeq
<1> QED
  BY <1>2, <1>3 DEF Switched

-----------------------------------------------------------------------------
(* One character *)

Got == mReadState = "Got0x0D"

\* c is the code point after the first n bytes.
IsCharacter(c, n) ==
    /\ c \in Seq(TextBytes) /\ c # <<>> /\ n \in Nat
    /\ Len(c) = UTF8Length(c[1]) /\ n + Len(c) <= Len(text)
    /\ \A i \in 1..Len(c) : c[i] = text[n + i] /\ (c[i] \in Continuations <=> i # 1)

\* It is one byte that ends a line, or has no such byte.
LEMMA CharacterIs ==
    ASSUME NEW c, NEW n, IsCharacter(c, n)
    PROVE  /\ Len(c) \in 1..4 /\ n + Len(c) \in 1..Len(text) /\ n < n + Len(c) /\ text[n + 1] = c[1]
           /\ c \in {<<"cr">>, <<"lf">>, <<"nul">>} => Len(c) = 1 /\ c[1] = text[n + 1]
           /\ IsEnding(c[1]) => c \in {<<"cr">>, <<"lf">>} /\ c = <<c[1]>>
           /\ ~ IsEnding(c[1]) => \A i \in n + 1..n + Len(c) : ~ IsEnding(text[i])
           /\ InLine(c) = c
<1>1. c \in Seq(TextBytes) /\ c # <<>> /\ Len(c) = UTF8Length(c[1])
  BY DEF IsCharacter
<1>2. UTF8Length(c[1]) \in 1..4
  BY DEF UTF8Length
<1>3. Len(c) \in 1..4 /\ 1 \in 1..Len(c)
  BY <1>1, <1>2
<1>4. n \in Nat /\ n + Len(c) <= Len(text) /\ \A i \in 1..Len(c) : c[i] = text[n + i] /\ (c[i] \in Continuations <=> i # 1)
  BY DEF IsCharacter
<1>5. n + Len(c) \in 1..Len(text) /\ n < n + Len(c) /\ text[n + 1] = c[1] /\ c[1] \notin Continuations
  BY <1>3, <1>4
<1>6. c \in {<<"cr">>, <<"lf">>, <<"nul">>} => Len(c) = 1
  OBVIOUS
<1>7. IsEnding(c[1]) => c \in {<<"cr">>, <<"lf">>} /\ c = <<c[1]>>
  <2>1. SUFFICES ASSUME IsEnding(c[1]) PROVE c \in {<<"cr">>, <<"lf">>} /\ c = <<c[1]>>
    OBVIOUS
  <2>2. c[1] \in {"cr", "lf"}
    BY <2>1 DEF IsEnding
  <2>3. Len(c) = 1
    BY <1>1, <2>2 DEF UTF8Length
  <2>4. c = <<c[1]>>
    BY <1>1, <2>3
  <2> QED
    BY <2>2, <2>4
<1>8. ASSUME ~ IsEnding(c[1]), NEW i \in n + 1..n + Len(c)
      PROVE  ~ IsEnding(text[i])
  <2>1. i - n \in 1..Len(c) /\ n + (i - n) = i
    BY <1>3, <1>4
  <2>2. text[i] = c[i - n] /\ (i - n # 1 => c[i - n] \in Continuations)
    BY <1>4, <2>1
  <2> QED
    BY <1>8, <2>2 DEF IsEnding, Continuations
<1>9. InLine(c) = c
  BY <1>5 DEF InLine
<1> QED
  BY <1>3, <1>5, <1>6, <1>7, <1>8, <1>9

\* Bytes without an ending are shown as they are.
LEMMA ShownPlain ==
    ASSUME TextIsBytes, NEW n \in 0..Len(text), NEW m \in 0..Len(text), n <= m,
           \A i \in n + 1..m : ~ IsEnding(text[i])
    PROVE  ShownPart(n, m) = SubSeq(text, n + 1, m)
<1> DEFINE Wrong == {i \in n..m : ShownPart(n, i) # SubSeq(text, n + 1, i)}
<1>1. Len(text) \in Nat /\ n \in Nat /\ m \in Nat /\ text \in Seq(TextBytes)
  BY LenProperties DEF TextIsBytes
<1>2. Wrong = {}
  <2> SUFFICES ASSUME Wrong # {} PROVE FALSE
    OBVIOUS
  <2>1. Wrong \subseteq Nat
    BY <1>1
  <2>2. PICK i \in Wrong : \A j \in Wrong : i <= j
    BY <2>1, SomeIsLeast
  <2>3. i \in n..m /\ ShownPart(n, i) # SubSeq(text, n + 1, i)
    OBVIOUS
  <2>4. i # n
    <3>1. ShownPart(n, n) = <<>>
      BY <1>1, ShownNone
    <3>2. n + 1 \in Int /\ n \in Int /\ n < n + 1
      BY <1>1
    <3>3. SubSeq(text, n + 1, n) = <<>>
      BY <3>2, SubSeqEmpty
    <3> QED
      BY <2>3, <3>1, <3>3
  <2>5. i - 1 \in n..m /\ i - 1 \in Nat /\ n <= i - 1 /\ i - 1 < Len(text) /\ ~ (i <= i - 1) /\ (i - 1) + 1 = i
        /\ i \in n + 1..m
    BY <1>1, <2>3, <2>4
  <2>6. ShownPart(n, i - 1) = SubSeq(text, n + 1, i - 1)
    BY <2>2, <2>5
  <2> HIDE DEF Wrong
  <2>7. ShownPart(n, i) = ShownPart(n, i - 1) \o ShownByte(text[i]) /\ ShownPart(n, i - 1) \in Seq(TextBytes)
    BY <1>1, <2>5, ShownStep
  <2>8. ShownByte(text[i]) = <<text[i]>> /\ text[i] \in TextBytes
    BY <1>1, <2>5, ElementOfSeq DEF ShownByte
  <2>9. SubSeq(text, n + 1, i - 1) \o <<text[i]>> = Append(SubSeq(text, n + 1, i - 1), text[i])
    BY <2>6, <2>7, <2>8, AppendIsConcat
  <2>10. SubSeq(text, n + 1, i) = Append(SubSeq(text, n + 1, i - 1), text[i])
    BY <1>1, <2>5
  <2> QED
    BY <2>3, <2>6, <2>7, <2>8, <2>9, <2>10
<1> QED
  BY <1>1, <1>2

\* What is shown of a character.
LEMMA ShownCharacter ==
    ASSUME TextIsBytes, NEW c, NEW n, IsCharacter(c, n)
    PROVE  /\ SubSeq(text, n + 1, n + Len(c)) = c
           /\ ShownPart(n, n + Len(c)) = IF IsEnding(c[1]) /\ ~ includeLineEnding THEN <<>> ELSE c
<1>1. /\ c \in Seq(TextBytes) /\ n \in Nat /\ Len(c) \in Nat /\ Len(text) \in Nat
      /\ n + Len(c) \in 0..Len(text) /\ n \in 0..Len(text) /\ n < n + Len(c) /\ n < Len(text)
      /\ text \in Seq(TextBytes)
  BY CharacterIs, LenProperties DEF IsCharacter, TextIsBytes
<1>2. SubSeq(text, n + 1, n + Len(c)) = c
  <2>1. \A i \in n + 1..n + Len(c) : text[i] \in TextBytes
    <3>1. \A i \in n + 1..n + Len(c) : i \in 1..Len(text)
      BY <1>1
    <3> QED
      BY <1>1, <3>1, ElementOfSeq
  <2> DEFINE s == SubSeq(text, n + 1, n + Len(c))
  <2>2. s \in Seq(TextBytes) /\ Len(s) = Len(c) /\ \A i \in 1..Len(c) : s[i] = text[n + i]
    BY <1>1, <2>1
  <2>3. \A i \in 1..Len(c) : s[i] = c[i]
    BY <2>2 DEF IsCharacter
  <2> HIDE DEF s
  <2>4. s = c
    BY <1>1, <2>2, <2>3, SeqEqual
  <2> QED
    BY <2>4 DEF s
<1>3. CASE IsEnding(c[1])
  <2>1. Len(c) = 1 /\ text[n + 1] = c[1] /\ c = <<c[1]>>
    BY <1>3, CharacterIs
  <2>2. ShownPart(n, n + 1) = ShownPart(n, n) \o ShownByte(c[1])
    <3>1. n <= n
      BY <1>1
    <3> QED
      BY <1>1, <2>1, <3>1, ShownStep
  <2>3. ShownPart(n, n) = <<>> /\ ShownByte(c[1]) \in Seq(TextBytes)
    BY <1>1, <2>1, ShownNone, WaitingBytes DEF ShownByte
  <2>4. ShownPart(n, n + 1) = ShownByte(c[1])
    BY <2>2, <2>3, ConcatEmptySeq
  <2> QED
    BY <1>2, <1>3, <2>1, <2>4 DEF ShownByte
<1>4. CASE ~ IsEnding(c[1])
  <2>1. \A i \in n + 1..n + Len(c) : ~ IsEnding(text[i])
    BY <1>4, CharacterIs
  <2> QED
    <3>1. n + Len(c) \in 0..Len(text) /\ n <= n + Len(c)
      BY <1>1
    <3>2. ShownPart(n, n + Len(c)) = SubSeq(text, n + 1, n + Len(c))
      BY <1>1, <2>1, <3>1, ShownPlain
    <3> QED
      BY <1>2, <1>4, <3>2
<1> QED
  BY <1>3, <1>4

\* The switch, with what it decides by.
Done(c) == c = <<"lf">> \/ Got
Waits(c) == ~ Got /\ c = <<"cr">>
KindOfEnding(c) == IF ~ Got THEN "Unix" ELSE IF c = <<"lf">> THEN "DOS" ELSE "Mac"
AddedToLine(c) ==
    IF Waits(c) THEN <<>>
    ELSE IF ~ Done(c) THEN InLine(c)
    ELSE IF ~ includeLineEnding THEN <<>>
    ELSE IF ~ Got THEN c ELSE IF c = <<"lf">> THEN <<"cr", "lf">> ELSE <<"cr">>

LEMMA TakesIs ==
    ASSUME NEW c, NEW k, Takes(c, k)
    PROVE  /\ mLineBuffer' = mLineBuffer \o AddedToLine(c)
           /\ mReadState' = IF Waits(c) THEN "Got0x0D" ELSE "Ready"
           /\ mPendingCharacter' = IF Got /\ c \notin {<<"lf">>, <<"nul">>} THEN c ELSE <<>>
           /\ mLineEndingsReadKind' =
                 IF ~ Done(c) THEN mLineEndingsReadKind
                 ELSE IF mLineEndingsReadKind \in {"Unknown", KindOfEnding(c)} THEN KindOfEnding(c)
                 ELSE "Mixed"
           /\ IF Done(c) \/ k # 1
              THEN /\ reading' = "no" /\ lines' = Append(lines, mLineBuffer')
                   /\ early' = (early \/ ~ Done(c))
              ELSE reading' = "line" /\ lines' = lines /\ early' = early
           /\ dropped' = (dropped \/ (Got /\ c = <<"nul">>))
<1>1. mLineBuffer' = mLineBuffer \o AddedToLine(c)
  BY Zenon DEF Takes, AddedToLine, Waits, Done, Got
<1>2. mReadState' = IF Waits(c) THEN "Got0x0D" ELSE "Ready"
  BY Zenon DEF Takes, Waits, Got
<1>3. mPendingCharacter' = IF Got /\ c \notin {<<"lf">>, <<"nul">>} THEN c ELSE <<>>
  BY Zenon DEF Takes, PendingAfter, Got
<1>4. mLineEndingsReadKind' =
         IF ~ Done(c) THEN mLineEndingsReadKind
         ELSE IF mLineEndingsReadKind \in {"Unknown", KindOfEnding(c)} THEN KindOfEnding(c)
         ELSE "Mixed"
  BY Zenon DEF Takes, _updateLineEndingsReadKind, KindOfEnding, Done, Got
<1>5. IF Done(c) \/ k # 1
      THEN /\ reading' = "no" /\ lines' = Append(lines, mLineBuffer')
           /\ early' = (early \/ ~ Done(c))
      ELSE reading' = "line" /\ lines' = lines /\ early' = early
  BY Zenon DEF Takes, ReturnsLine, Done, Got
<1>6. dropped' = (dropped \/ (Got /\ c = <<"nul">>))
  BY Zenon DEF Takes, Got
<1> QED
  BY <1>1, <1>2, <1>3, <1>4, <1>5, <1>6

\* What the switch does with a character.
LEMMA TakesSwitch ==
    ASSUME TextIsBytes, NEW c, NEW n, NEW k, IsCharacter(c, n), Takes(c, k), ~ dropped', early \in BOOLEAN,
           Switched(lines, mLineBuffer, Got, mLineEndingsReadKind, early, n),
           c = <<"lf">> /\ ~ Got => n = 0 \/ text[n] # "cr"
    PROVE  LET m == IF mPendingCharacter' = <<>> THEN n + Len(c) ELSE n
           IN  /\ Switched(lines', IF reading' = "no" THEN <<>> ELSE mLineBuffer',
                           mReadState' = "Got0x0D", mLineEndingsReadKind', early', m)
               /\ mPendingCharacter' # <<>> =>
                     /\ mPendingCharacter' = c /\ c # <<"lf">> /\ mReadState' = "Ready"
                     /\ n > 0 /\ text[n] = "cr"
               /\ mPendingCharacter' = <<>> /\ mReadState' # "Got0x0D" => text[m] # "cr"
<1> DEFINE m == IF mPendingCharacter' = <<>> THEN n + Len(c) ELSE n
           e == n + Len(c)
<1>1. /\ n \in Nat /\ Len(c) \in 1..4 /\ e \in 1..Len(text) /\ n < e /\ Len(text) \in Nat
      /\ c # <<>> /\ c \in Seq(TextBytes) /\ n \in 0..Len(text) /\ e \in 0..Len(text) /\ e \in Nat
      /\ text[n + 1] = c[1] /\ n <= e
  <2>1. Len(c) \in 1..4 /\ e \in 1..Len(text) /\ n < e /\ text[n + 1] = c[1]
    BY CharacterIs
  <2>2. n \in Nat /\ c # <<>> /\ c \in Seq(TextBytes) /\ Len(text) \in Nat /\ n \in 0..Len(text)
    BY LenProperties DEF IsCharacter, TextIsBytes, Switched
  <2> QED
    BY <2>1, <2>2
<1> HIDE DEF m, e
<1>2. Got \in BOOLEAN /\ mLineBuffer \in Seq(TextBytes) /\ lines \in Seq(Seq(TextBytes))
  BY DEF Switched
<1>3. mLineBuffer \o <<>> = mLineBuffer
  BY <1>2, ConcatEmptySeq
<1>4. ShownPart(n, e) = IF IsEnding(c[1]) /\ ~ includeLineEnding THEN <<>> ELSE c
  BY ShownCharacter DEF e
<1>5. CASE c = <<"lf">>
  <2> DEFINE line == mLineBuffer \o AddedToLine(c)
  <2>1. e = n + 1 /\ c[1] = "lf" /\ text[e] = "lf"
    BY <1>1, <1>5, CharacterIs DEF e
  <2>2. /\ mReadState' = "Ready" /\ mPendingCharacter' = <<>> /\ reading' = "no"
        /\ lines' = Append(lines, line) /\ early' = early
        /\ mLineEndingsReadKind' =
             IF mLineEndingsReadKind \in {"Unknown", KindOfEnding(c)} THEN KindOfEnding(c) ELSE "Mixed"
    BY <1>5, TakesIs DEF Done, Waits
  <2>3. Got => n > 0 /\ text[n] = "cr"
    BY DEF Switched
  <2>4. EndsUpTo(e, FALSE) = EndsUpTo(n, Got) \cup {e}
    BY <1>1, <1>2, <1>5, <2>1, <2>3, EndsAtLineFeed
  <2>5. EndingAt(text, e) = KindOfEnding(c)
    BY <1>1, <1>5, <2>1, <2>3 DEF EndingAt, KindOfEnding
  <2>6. line \in Seq(TextBytes) /\ line = (mLineBuffer \o Waiting(Got)) \o ShownPart(n, e)
    <3>1. AddedToLine(c) = IF ~ includeLineEnding THEN <<>> ELSE IF ~ Got THEN <<"lf">> ELSE <<"cr", "lf">>
      BY <1>5 DEF AddedToLine, Done, Waits
    <3>2. ShownPart(n, e) = IF includeLineEnding THEN <<"lf">> ELSE <<>>
      BY <1>4, <1>5, <2>1 DEF IsEnding
    <3>3. <<"lf">> \in Seq(TextBytes) /\ <<"cr">> \in Seq(TextBytes) /\ <<"cr", "lf">> \in Seq(TextBytes)
      BY DEF TextBytes
    <3>4. <<"cr", "lf">> = <<"cr">> \o <<"lf">>
      OBVIOUS
    <3>5. (mLineBuffer \o <<"cr">>) \o <<"lf">> = mLineBuffer \o <<"cr", "lf">>
      <4>1. Associates(mLineBuffer, <<"cr">>, <<"lf">>)
        BY <1>2, <3>3, ConcatAssociates
      <4> QED
        BY <3>4, <4>1, Zenon DEF Associates
    <3>6. line \in Seq(TextBytes)
      BY <1>2, <3>1, <3>3, WaitingBytes, ConcatProperties
    <3> HIDE DEF line
    <3>7. CASE ~ includeLineEnding
      BY <1>3, <3>1, <3>2, <3>6, <3>7 DEF Waiting, line
    <3>8. CASE includeLineEnding /\ ~ Got
      BY <1>3, <3>1, <3>2, <3>6, <3>8 DEF Waiting, line
    <3>9. CASE includeLineEnding /\ Got
      BY <3>1, <3>2, <3>5, <3>6, <3>9 DEF Waiting, line
    <3> QED
      BY <1>2, <3>7, <3>8, <3>9
  <2> HIDE DEF line
  <2>7. Switched(Append(lines, line), <<>>, FALSE, mLineEndingsReadKind', early, e)
    <3>1. e \in 1..Len(text) /\ n <= e /\ (e = n => Got)
      BY <1>1
    <3> QED
      BY <2>2, <2>4, <2>5, <2>6, <3>1, SwitchEndsLine
  <2>8. Switched(lines', <<>>, mReadState' = "Got0x0D", mLineEndingsReadKind', early', e)
    <3>1. (mReadState' = "Got0x0D") = FALSE
      BY <2>2
    <3> QED
      BY <2>2, <2>5, <2>7, <3>1
  <2> QED
    BY <2>1, <2>2, <2>8, <1>1 DEF e
<1>6. CASE Got /\ c # <<"lf">>
  <2> DEFINE line == mLineBuffer \o AddedToLine(c)
  <2>1. c # <<"nul">>
    BY <1>6, TakesIs
  <2>2. /\ mReadState' = "Ready" /\ mPendingCharacter' = c /\ reading' = "no"
        /\ lines' = Append(lines, line) /\ early' = early
        /\ mLineEndingsReadKind' =
             IF mLineEndingsReadKind \in {"Unknown", "Mac"} THEN "Mac" ELSE "Mixed"
    BY <1>6, <2>1, TakesIs DEF Done, Waits, KindOfEnding
  <2>3. n > 0 /\ text[n] = "cr" /\ Got = TRUE
    BY <1>2, <1>6 DEF Switched
  <2>4. EndsUpTo(n, FALSE) = EndsUpTo(n, Got) \cup {n}
    BY <1>1, <2>3, EndsAtReturn
  <2>5. EndingAt(text, n) = "Mac"
    BY <2>3 DEF EndingAt
  <2>6. line \in Seq(TextBytes) /\ line = (mLineBuffer \o Waiting(Got)) \o ShownPart(n, n)
    <3>1. AddedToLine(c) = Waiting(Got)
      BY <1>6 DEF AddedToLine, Done, Waits, Waiting
    <3>2. line \in Seq(TextBytes)
      BY <1>2, <3>1, WaitingBytes, ConcatProperties
    <3> QED
      BY <1>1, <3>1, <3>2, ShownNone, ConcatEmptySeq
  <2> HIDE DEF line
  <2>7. Switched(Append(lines, line), <<>>, FALSE, mLineEndingsReadKind', early, n)
    <3>1. n \in 1..Len(text) /\ n <= n /\ (n = n => Got)
      BY <1>1, <2>3
    <3> QED
      BY <1>6, <2>2, <2>4, <2>5, <2>6, <3>1, SwitchEndsLine
  <2>8. Switched(lines', <<>>, mReadState' = "Got0x0D", mLineEndingsReadKind', early', n)
    <3>1. (mReadState' = "Got0x0D") = FALSE
      BY <2>2
    <3> QED
      BY <2>2, <2>5, <2>7, <3>1
  <2> QED
    BY <1>1, <1>6, <2>2, <2>3, <2>8
<1>7. CASE ~ Got /\ c # <<"lf">>
  <2>1. /\ mPendingCharacter' = <<>> /\ mLineEndingsReadKind' = mLineEndingsReadKind
        /\ mLineBuffer' = mLineBuffer \o AddedToLine(c)
        /\ mReadState' = IF c = <<"cr">> THEN "Got0x0D" ELSE "Ready"
        /\ \/ reading' = "no" /\ lines' = Append(lines, mLineBuffer') /\ early' = TRUE
           \/ reading' = "line" /\ lines' = lines /\ early' = early
    BY <1>7, TakesIs DEF Done, Waits
  <2>2. Switched(lines, mLineBuffer', mReadState' = "Got0x0D", mLineEndingsReadKind, early, e)
    <3>0. Switched(lines, mLineBuffer, FALSE, mLineEndingsReadKind, early, n)
      <4>1. Got = FALSE
        BY <1>2, <1>7
      <4> QED
        BY <4>1
    <3>1. CASE c = <<"cr">>
      <4>1. e = n + 1 /\ c[1] = "cr" /\ text[e] = "cr" /\ e > 0
        BY <1>1, <3>1, CharacterIs DEF e
      <4>2. EndsUpTo(e, TRUE) = EndsUpTo(n, FALSE)
        BY <1>1, <4>1, WaitsAtReturn
      <4>3. mLineBuffer' = mLineBuffer /\ (mReadState' = "Got0x0D") = TRUE
        BY <1>3, <1>7, <2>1, <3>1 DEF AddedToLine, Waits
      <4>4. ShownPart(n, e) = Waiting(TRUE)
        BY <1>4, <3>1, <4>1 DEF Waiting, IsEnding
      <4>5. Switched(lines, mLineBuffer, TRUE, mLineEndingsReadKind, early, e)
        BY <1>1, <1>2, <3>0, <4>1, <4>2, <4>4, SwitchGoesOn
      <4> QED
        BY <4>3, <4>5
    <3>2. CASE c # <<"cr">>
      <4>1. ~ IsEnding(c[1])
        BY <1>7, <3>2, CharacterIs
      <4>2. EndsUpTo(e, FALSE) = EndsUpTo(n, FALSE)
        <5>1. \A i \in n + 1..e : ~ IsEnding(text[i])
          BY <4>1, CharacterIs DEF e
        <5> QED
          BY <1>1, <5>1, EndsNowhere
      <4>3. mLineBuffer' = mLineBuffer \o c /\ (mReadState' = "Got0x0D") = FALSE
        BY <1>7, <2>1, <3>2, CharacterIs DEF AddedToLine, Waits, Done
      <4>4. ShownPart(n, e) = c
        BY <1>4, <4>1
      <4>5. mLineBuffer \o c \in Seq(TextBytes) /\ (mLineBuffer \o c) \o Waiting(FALSE) = mLineBuffer \o c
        <5>1. mLineBuffer \o c \in Seq(TextBytes)
          BY <1>1, <1>2, ConcatProperties
        <5> QED
          BY <5>1, WaitingBytes, ConcatEmptySeq
      <4>6. Switched(lines, mLineBuffer \o c, FALSE, mLineEndingsReadKind, early, e)
        BY <1>1, <3>0, <4>2, <4>4, <4>5, SwitchGoesOn
      <4> QED
        BY <4>3, <4>6
    <3> QED
      BY <3>1, <3>2
  <2>3. Switched(lines', IF reading' = "no" THEN <<>> ELSE mLineBuffer',
                 mReadState' = "Got0x0D", mLineEndingsReadKind', early', e)
    <3>1. CASE reading' = "no" /\ lines' = Append(lines, mLineBuffer') /\ early' = TRUE
      <4>1. Switched(Append(lines, mLineBuffer'), <<>>, mReadState' = "Got0x0D", mLineEndingsReadKind, TRUE, e)
        BY <2>2, SwitchEndsEarly
      <4> QED
        BY <2>1, <3>1, <4>1
    <3>2. CASE reading' = "line" /\ lines' = lines /\ early' = early
      BY <2>1, <2>2, <3>2
    <3> QED
      BY <2>1, <3>1, <3>2
  <2>4. c # <<"cr">> => text[e] # "cr"
    <3>1. c # <<"cr">> => ~ IsEnding(text[e])
      <4>1. e \in n + 1..e
        BY <1>1
      <4> QED
        BY <1>7, <4>1, CharacterIs DEF e
    <3> QED
      BY <3>1 DEF IsEnding
  <2> QED
    BY <2>1, <2>3, <2>4 DEF e
<1> QED
  BY <1>5, <1>6, <1>7

-----------------------------------------------------------------------------
(* The text does not change *)

taken == textOffset - Len(source)
through == taken - Len(mPendingCharacter)
Work == IF reading = "no" THEN <<>> ELSE mLineBuffer

LEMMA PartsStay ==
    ASSUME text' = text, includeLineEnding' = includeLineEnding
    PROVE  /\ \A m, n : ShownPart(m, n)' = ShownPart(m, n)
           /\ \A n, got : EndsUpTo(n, got)' = EndsUpTo(n, got)
           /\ \A n, got : KindsUpTo(n, got)' = KindsUpTo(n, got)
           /\ \A got : Waiting(got)' = Waiting(got)
<1>1. ASSUME NEW m, NEW n PROVE ShownPart(m, n)' = ShownPart(m, n)
  BY DEF ShownPart, Shown, ShownByte
<1>2. ASSUME NEW n, NEW got PROVE EndsUpTo(n, got)' = EndsUpTo(n, got)
  BY DEF EndsUpTo
<1>3. ASSUME NEW n, NEW got PROVE KindsUpTo(n, got)' = KindsUpTo(n, got)
  BY <1>2 DEF KindsUpTo
<1>4. ASSUME NEW got PROVE Waiting(got)' = Waiting(got)
  BY DEF Waiting
<1> QED
  BY <1>1, <1>2, <1>3, <1>4

LEMMA SwitchedStays ==
    ASSUME text' = text, includeLineEnding' = includeLineEnding,
           Switched(lines', Work', Got', mLineEndingsReadKind', early', through')
    PROVE  Switched(lines, Work, Got, mLineEndingsReadKind, early, through)'
<1>1. ASSUME NEW ls, NEW work, NEW got, NEW kind, NEW isEarly, NEW n
      PROVE  Switched(ls, work, got, kind, isEarly, n) <=> Switched(ls, work, got, kind, isEarly, n)'
  <2>1. ASSUME NEW ends PROVE IsSplit(ends, ls, work, got, n)' <=> IsSplit(ends, ls, work, got, n)
    <3>1. \A k : /\ ShownPart(ends[k - 1], ends[k])' = ShownPart(ends[k - 1], ends[k])
                /\ ShownPart(ends[k], n)' = ShownPart(ends[k], n)
      BY PartsStay
    <3>2. EndsUpTo(n, got)' = EndsUpTo(n, got) /\ Waiting(got)' = Waiting(got)
      BY PartsStay
    <3> QED
      BY <3>1, <3>2 DEF IsSplit
  <2> QED
    BY PartsStay, <2>1 DEF Switched
<1> QED
  BY <1>1

-----------------------------------------------------------------------------
(* The invariant *)

\* The first n bytes do not end within a code point.
IsBoundary(n) == \A j \in 1..n : j + UTF8Length(text[j]) <= n + 1

\* The bytes of a code point that is not complete are the last ones read, and a
\* character is pending between two of them.
SourceIsRead ==
    /\ Len(source) <= textOffset
    /\ \A i \in 1..Len(source) : source[i] = text[taken + i]
    /\ source # <<>> => reading = "codePoint" /\ Len(source) < UTF8Length(source[1])
    /\ reading = "codePoint" => mPendingCharacter = <<>>
    /\ mPendingCharacter # <<>> => mReadState = "Ready"

\* The text gives nothing to object to, and nothing of it was lost.
TextIsGood == ~ dropped /\ IsUTF8(text) /\ IsReadInOrder

\* What was read went through the switch, but for a character that is pending.
TextIsSwitched ==
    /\ IsBoundary(taken)
    /\ Switched(lines, Work, Got, mLineEndingsReadKind, early, through)
    /\ mPendingCharacter # <<>> =>
          /\ IsCharacter(mPendingCharacter, through) /\ mPendingCharacter # <<"lf">>
          /\ through > 0 /\ text[through] = "cr"
    /\ mPendingCharacter = <<>> /\ ~ Got => through = 0 \/ text[through] # "cr"

TextInv == TextTypeOK /\ SourceIsRead /\ (TextIsGood => TextIsSwitched)

LEMMA TextTypes ==
    ASSUME TextTypeOK
    PROVE  /\ TextIsBytes /\ Len(text) \in Nat /\ Len(source) \in Nat /\ Len(mPendingCharacter) \in Nat
           /\ written \in Nat /\ textOffset \in Nat /\ written <= Len(text) /\ textOffset <= written
           /\ Got \in BOOLEAN /\ early \in BOOLEAN /\ dropped \in BOOLEAN /\ includeLineEnding \in BOOLEAN
<1>1. TextIsBytes
  BY TextsAreBytes DEF TextTypeOK, TextIsBytes
<1>2. Len(text) \in Nat /\ Len(source) \in Nat /\ Len(mPendingCharacter) \in Nat
  <2>1. text \in Seq(TextBytes) /\ source \in Seq(TextBytes) /\ mPendingCharacter \in Seq(TextBytes)
    BY <1>1 DEF TextTypeOK, TextIsBytes
  <2> QED
    BY <2>1, LenProperties
<1>3. written \in Nat /\ textOffset \in Nat /\ written <= Len(text) /\ textOffset <= written
  <2>1. written \in 0..Len(text) /\ textOffset \in 0..written
    BY DEF TextTypeOK
  <2>2. Len(text) \in Nat
    BY <1>2
  <2> QED
    BY <2>1, <2>2
<1>4. Got \in BOOLEAN /\ early \in BOOLEAN /\ dropped \in BOOLEAN /\ includeLineEnding \in BOOLEAN
  BY DEF TextTypeOK, Got
<1> QED
  BY <1>1, <1>2, <1>3, <1>4

LEMMA TextBegins == TextInit => TextInv
<1> SUFFICES ASSUME TextInit PROVE TextInv
  OBVIOUS
<1>1. TextTypeOK
  <2>1. <<>> \in Seq(TextBytes) /\ <<>> \in Seq(Seq(TextBytes))
    BY EmptySeq
  <2>2. Len(text) \in Nat
    <3>1. text \in Seq(TextBytes)
      BY TextsAreBytes DEF TextInit
    <3> QED
      BY <3>1, LenProperties
  <2>3. /\ text \in Texts /\ written \in 0..Len(text) /\ textOffset \in 0..written
        /\ argumentOrder \in ByteOrders
    BY <2>2 DEF TextInit
  <2>4. {includeLineEnding, readFirstByteOfLine, early, dropped} \subseteq BOOLEAN
    BY DEF TextInit
  <2>5. /\ mPendingCharacter \in Seq(TextBytes) /\ mReadState \in {"Ready", "Got0x0D"}
        /\ mLineEndingsReadKind \in {"Unknown", "Unix", "DOS", "Mac", "Mixed"}
        /\ mLineBuffer \in Seq(TextBytes) /\ lines \in Seq(Seq(TextBytes)) /\ source \in Seq(TextBytes)
        /\ reading \in {"no", "line", "codePoint"}
    BY <2>1 DEF TextInit
  <2> QED
    BY <2>3, <2>4, <2>5 DEF TextTypeOK
<1>2. Len(source) = 0 /\ Len(mPendingCharacter) = 0 /\ taken = 0 /\ through = 0 /\ Got = FALSE /\ Work = <<>>
  <2>1. source = <<>> /\ mPendingCharacter = <<>> /\ textOffset = 0 /\ Got = FALSE /\ Work = <<>>
    BY Zenon DEF TextInit, Got, Work
  <2>2. Len(source) = 0 /\ Len(mPendingCharacter) = 0
    BY <2>1
  <2>3. taken = 0 /\ through = 0
    <3>1. taken = textOffset - 0 /\ through = taken - 0
      BY <2>2 DEF taken, through
    <3> QED
      BY <2>1, <3>1
  <2> QED
    BY <2>1, <2>2, <2>3
<1>3. SourceIsRead
  BY <1>2 DEF TextInit, SourceIsRead
<1>4. Switched(<<>>, <<>>, FALSE, "Unknown", FALSE, 0)
  <2>1. 0 \in 0..Len(text) /\ <<>> \in Seq(TextBytes) /\ <<>> \in Seq(Seq(TextBytes))
    BY <1>1, TextTypes, EmptySeq
  <2>2. FlattenSeq(<<>>) = <<>> /\ Waiting(FALSE) = <<>> /\ ShownPart(0, 0) = <<>>
    BY FlattenEmpty, WaitingBytes, ShownNone
  <2>3. <<>> \o <<>> = <<>>
    BY <2>1, ConcatEmptySeq
  <2>4. EndsUpTo(0, FALSE) = {} /\ KindsUpTo(0, FALSE) = {}
    BY DEF EndsUpTo, KindsUpTo
  <2>5. KindIs({}) = "Unknown"
    BY DEF KindIs
  <2> DEFINE ends == [k \in 0..0 |-> 0]
  <2>6. ends \in [0..0 -> 0..0] /\ ends[0] = 0
    OBVIOUS
  <2> HIDE DEF ends
  <2>7. IsSplit(ends, <<>>, <<>>, FALSE, 0)
    BY <2>2, <2>3, <2>4, <2>6 DEF IsSplit
  <2> QED
    BY <2>1, <2>2, <2>3, <2>4, <2>5, <2>7 DEF Switched
<1>5. TextIsSwitched
  <2>1. Switched(lines, Work, Got, mLineEndingsReadKind, early, through)
    BY <1>2, <1>4 DEF TextInit
  <2>2. IsBoundary(taken)
    BY <1>2 DEF IsBoundary
  <2> QED
    BY <1>2, <2>1, <2>2 DEF TextInit, TextIsSwitched
<1> QED
  BY <1>1, <1>3, <1>5 DEF TextInv

\* What the lines returned and read stay as long as nothing is read.
LEMMA TextStays ==
    ASSUME TextInv, text' = text, includeLineEnding' = includeLineEnding,
           argumentOrder' = argumentOrder, written' \in 0..Len(text), textOffset \in 0..written',
           UNCHANGED lineVars
    PROVE  TextInv'
<1>1. TextTypeOK'
  BY DEF TextInv, TextTypeOK, lineVars
<1>2. SourceIsRead'
  BY DEF TextInv, SourceIsRead, taken, lineVars
<1>3. TextIsGood' => TextIsGood
  BY DEF TextIsGood, IsUTF8, UTF8Length, IsReadInOrder, lineVars
<1>4. ASSUME TextIsSwitched PROVE TextIsSwitched'
  <2>1. /\ lines' = lines /\ Work' = Work /\ Got' = Got /\ mLineEndingsReadKind' = mLineEndingsReadKind
        /\ early' = early /\ taken' = taken /\ through' = through /\ mPendingCharacter' = mPendingCharacter
    BY DEF lineVars, Work, Got, taken, through
  <2>2. Switched(lines, Work, Got, mLineEndingsReadKind, early, through)'
    BY <1>4, <2>1, SwitchedStays DEF TextIsSwitched
  <2>3. IsBoundary(taken)'
    BY <1>4, <2>1 DEF TextIsSwitched, IsBoundary
  <2>4. \A c, n : IsCharacter(c, n)' <=> IsCharacter(c, n)
    BY DEF IsCharacter
  <2> QED
    BY <1>4, <2>1, <2>2, <2>3, <2>4 DEF TextIsSwitched
<1> QED
  BY <1>1, <1>2, <1>3, <1>4 DEF TextInv

-----------------------------------------------------------------------------
(* What a step of readLine() does *)

LEMMA GoodBefore ==
    ASSUME text' = text, argumentOrder' = argumentOrder, dropped => dropped', TextIsGood'
    PROVE  TextIsGood /\ ~ dropped'
<1>1. IsUTF8(text)' <=> IsUTF8(text)
  BY DEF IsUTF8, UTF8Length
<1>2. IsReadInOrder' <=> IsReadInOrder
  BY DEF IsReadInOrder
<1> QED
  BY <1>1, <1>2 DEF TextIsGood

\* A step that takes nothing through the switch.
LEMMA NothingTaken ==
    ASSUME TextInv, text' = text, includeLineEnding' = includeLineEnding,
           argumentOrder' = argumentOrder,
           dropped => dropped', TextIsGood',
           taken' = taken, mReadState' = mReadState, mPendingCharacter' = mPendingCharacter,
           mLineEndingsReadKind' = mLineEndingsReadKind,
           TextIsSwitched => Switched(lines', Work', Got, mLineEndingsReadKind, early', through)
    PROVE  TextIsSwitched'
<1>1. TextIsSwitched
  BY GoodBefore DEF TextInv
<1>2. through' = through /\ Got' = Got
  BY DEF through, Got
<1>3. Switched(lines', Work', Got', mLineEndingsReadKind', early', through')
  BY <1>1, <1>2
<1>4. Switched(lines, Work, Got, mLineEndingsReadKind, early, through)'
  BY <1>3, SwitchedStays
<1>5. IsBoundary(taken)'
  BY <1>1 DEF TextIsSwitched, IsBoundary
<1>6. \A c, n : IsCharacter(c, n)' <=> IsCharacter(c, n)
  BY DEF IsCharacter
<1> QED
  BY <1>1, <1>2, <1>4, <1>5, <1>6 DEF TextIsSwitched

LEMMA CallsStep ==
    ASSUME TextInv, CallsReadLine, UNCHANGED <<rawTextVars, includeLineEnding>>
    PROVE  TextInv'
<1>1. TextTypeOK'
  <2>1. <<>> \in Seq(TextBytes)
    BY EmptySeq
  <2> QED
    BY <2>1 DEF TextInv, TextTypeOK, CallsReadLine, rawTextVars
<1>2. taken' = taken /\ Work' = Work /\ through' = through
  BY DEF taken, CallsReadLine, Work, through
<1>3. SourceIsRead'
  BY <1>2 DEF TextInv, SourceIsRead, CallsReadLine, rawTextVars
<1>4. TextIsGood' => TextIsSwitched'
  BY <1>2, NothingTaken DEF CallsReadLine, TextIsSwitched, rawTextVars
<1> QED
  BY <1>1, <1>3, <1>4 DEF TextInv

LEMMA StartsStep ==
    ASSUME TextInv, StartsCodePoint, UNCHANGED <<rawTextVars, includeLineEnding>>
    PROVE  TextInv'
<1>1. TextTypeOK'
  BY DEF TextInv, TextTypeOK, StartsCodePoint, rawTextVars
<1>2. taken' = taken /\ Work' = Work /\ through' = through
  BY DEF taken, StartsCodePoint, Work, through
<1>3. SourceIsRead'
  BY <1>2 DEF TextInv, SourceIsRead, StartsCodePoint, rawTextVars
<1>4. TextIsGood' => TextIsSwitched'
  BY <1>2, NothingTaken DEF StartsCodePoint, TextIsSwitched, rawTextVars
<1> QED
  BY <1>1, <1>3, <1>4 DEF TextInv

LEMMA ReturnsStep ==
    ASSUME TextInv, ReturnsAtEnd, UNCHANGED <<rawTextVars, includeLineEnding>>
    PROVE  TextInv'
<1>1. TextTypeOK'
  <2>1. lines' \in Seq(Seq(TextBytes))
    BY AppendProperties DEF TextInv, TextTypeOK, ReturnsAtEnd, ReturnsLine
  <2> QED
    BY <2>1 DEF TextInv, TextTypeOK, ReturnsAtEnd, ReturnsLine, rawTextVars
<1>2. /\ taken' = taken /\ through' = through /\ Work = mLineBuffer /\ Work' = <<>>
      /\ lines' = Append(lines, mLineBuffer) /\ early' = TRUE
  BY DEF taken, ReturnsAtEnd, ReturnsLine, Work, through
<1>3. SourceIsRead'
  BY <1>2 DEF TextInv, SourceIsRead, ReturnsAtEnd, ReturnsLine, rawTextVars
<1>4. TextIsGood' => TextIsSwitched'
  <2>1. TextIsSwitched => Switched(lines', Work', Got, mLineEndingsReadKind, early', through)
    BY <1>2, SwitchEndsEarly DEF TextIsSwitched
  <2> QED
    BY <1>2, <2>1, NothingTaken DEF ReturnsAtEnd, rawTextVars
<1> QED
  BY <1>1, <1>3, <1>4 DEF TextInv

\* An exception may take a byte along, but only one of a character already begun.
LEMMA LeavesStep ==
    ASSUME TextInv, LeavesReadLine, UNCHANGED <<rawTextVars, includeLineEnding>>,
           textOffset' \in textOffset..written, textOffset' # textOffset => source # <<>>
    PROVE  TextInv'
<1>0. textOffset \in Nat /\ textOffset' \in Nat /\ written \in Nat /\ textOffset' \in 0..written
  BY TextTypes DEF TextInv
<1>1. TextTypeOK'
  <2>1. <<>> \in Seq(TextBytes)
    BY EmptySeq
  <2>2. dropped' \in BOOLEAN
    BY DEF TextInv, TextTypeOK, LeavesReadLine
  <2> QED
    BY <1>0, <2>1, <2>2 DEF TextInv, TextTypeOK, LeavesReadLine, rawTextVars
<1>2. source' = <<>> /\ mPendingCharacter' = <<>> /\ Len(source') = 0 /\ \A i \in 1..Len(source') : FALSE
  <2>1. source' = <<>> /\ mPendingCharacter' = <<>>
    BY DEF LeavesReadLine
  <2>2. Len(source') = 0
    BY <2>1
  <2> QED
    BY <2>1, <2>2
<1>3. SourceIsRead'
  BY <1>0, <1>2 DEF SourceIsRead
<1>4. ASSUME TextIsGood' PROVE TextIsSwitched'
  <2>1. ~ dropped' /\ (dropped => dropped')
    BY <1>4 DEF TextIsGood, LeavesReadLine
  <2>2. mLineBuffer = <<>> /\ source = <<>> /\ mPendingCharacter = <<>> /\ textOffset' = textOffset
    BY <2>1 DEF LeavesReadLine, TextInv, SourceIsRead
  <2>3. taken' = taken /\ through' = through /\ mPendingCharacter' = mPendingCharacter
    BY <1>2, <2>2 DEF taken, through
  <2>4. Work' = Work /\ lines' = lines /\ early' = early /\ mReadState' = mReadState
        /\ mLineEndingsReadKind' = mLineEndingsReadKind
    BY <2>2 DEF LeavesReadLine, Work
  <2> QED
    BY <1>4, <2>1, <2>3, <2>4, NothingTaken DEF TextIsSwitched, rawTextVars
<1> QED
  BY <1>1, <1>3, <1>4 DEF TextInv

\* The switch leaves what has a type with it.
LEMMA TakesTypes ==
    ASSUME TextTypeOK, NEW c \in Seq(TextBytes), NEW k, Takes(c, k)
    PROVE  /\ mPendingCharacter' \in Seq(TextBytes) /\ mReadState' \in {"Ready", "Got0x0D"}
           /\ mLineEndingsReadKind' \in {"Unknown", "Unix", "DOS", "Mac", "Mixed"}
           /\ mLineBuffer' \in Seq(TextBytes) /\ lines' \in Seq(Seq(TextBytes))
           /\ reading' \in {"no", "line"} /\ early' \in BOOLEAN /\ dropped' \in BOOLEAN
           /\ dropped => dropped'
           /\ mReadState' = "Got0x0D" => mPendingCharacter' = <<>>
           /\ mPendingCharacter' # <<>> => Got
<1>1. <<>> \in Seq(TextBytes) /\ <<"cr">> \in Seq(TextBytes) /\ <<"cr", "lf">> \in Seq(TextBytes)
      /\ <<"C2">> \in Seq(TextBytes)
  BY EmptySeq DEF TextBytes
<1>2. AddedToLine(c) \in Seq(TextBytes)
  <2>1. InLine(c) \in Seq(TextBytes)
    BY <1>1, ConcatProperties DEF InLine
  <2> QED
    BY <1>1, <2>1 DEF AddedToLine
<1>3. mLineBuffer' \in Seq(TextBytes)
  <2>1. mLineBuffer' = mLineBuffer \o AddedToLine(c) /\ mLineBuffer \in Seq(TextBytes)
    BY TakesIs DEF TextTypeOK
  <2> QED
    BY <1>2, <2>1, ConcatProperties
<1>4. lines' \in Seq(Seq(TextBytes))
  <2>1. lines' = lines \/ lines' = Append(lines, mLineBuffer')
    BY TakesIs
  <2>2. lines \in Seq(Seq(TextBytes))
    BY DEF TextTypeOK
  <2>3. Append(lines, mLineBuffer') \in Seq(Seq(TextBytes))
    BY <1>3, <2>2, AppendProperties
  <2> QED
    BY <2>1, <2>2, <2>3
<1>5. KindOfEnding(c) \in {"Unknown", "Unix", "DOS", "Mac", "Mixed"}
  BY DEF KindOfEnding
<1>6. mLineEndingsReadKind' \in {"Unknown", "Unix", "DOS", "Mac", "Mixed"}
  BY <1>5, TakesIs DEF TextTypeOK
<1>7. mPendingCharacter' \in Seq(TextBytes) /\ mReadState' \in {"Ready", "Got0x0D"}
  <2>1. mPendingCharacter' = c \/ mPendingCharacter' = <<>>
    BY TakesIs
  <2>2. mReadState' \in {"Ready", "Got0x0D"}
    BY TakesIs
  <2> QED
    BY <1>1, <2>1, <2>2
<1>8. reading' \in {"no", "line"}
  BY TakesIs
<1>9. early' \in BOOLEAN /\ dropped' \in BOOLEAN /\ (dropped => dropped')
  <2>1. dropped' = (dropped \/ (Got /\ c = <<"nul">>))
    BY TakesIs
  <2>2. early' = (early \/ ~ Done(c)) \/ early' = early
    BY TakesIs
  <2> QED
    BY <2>1, <2>2 DEF TextTypeOK
<1>10. (mReadState' = "Got0x0D" => mPendingCharacter' = <<>>) /\ (mPendingCharacter' # <<>> => Got)
  BY TakesIs DEF Waits
<1> QED
  BY <1>3, <1>4, <1>6, <1>7, <1>8, <1>9, <1>10

\* The switch takes the character that comes next, and it stays pending or not.
LEMMA TakesStep ==
    ASSUME TextInv, text' = text, includeLineEnding' = includeLineEnding,
           argumentOrder' = argumentOrder,
           NEW c, NEW n, NEW k, Takes(c, k), TextIsGood',
           IsCharacter(c, n), IsBoundary(n + Len(c)),
           Switched(lines, mLineBuffer, Got, mLineEndingsReadKind, early, n),
           c = <<"lf">> /\ ~ Got => n = 0 \/ text[n] # "cr",
           taken' = n + Len(c), mPendingCharacter' # <<>> => Got
    PROVE  TextIsSwitched'
<1> DEFINE m == IF mPendingCharacter' = <<>> THEN n + Len(c) ELSE n
<1>1. ~ dropped' /\ early \in BOOLEAN /\ TextIsBytes
  BY TextTypes DEF TextIsGood, TextInv
<1>2. /\ Switched(lines', IF reading' = "no" THEN <<>> ELSE mLineBuffer',
                  mReadState' = "Got0x0D", mLineEndingsReadKind', early', m)
      /\ mPendingCharacter' # <<>> =>
            /\ mPendingCharacter' = c /\ c # <<"lf">> /\ mReadState' = "Ready"
            /\ n > 0 /\ text[n] = "cr"
      /\ mPendingCharacter' = <<>> /\ mReadState' # "Got0x0D" => text[m] # "cr"
  BY <1>1, TakesSwitch
<1>3. n \in Nat /\ Len(c) \in Nat
  BY CharacterIs DEF IsCharacter
<1>4. through' = m
  <2>1. CASE mPendingCharacter' = <<>>
    <3>1. Len(mPendingCharacter') = 0
      BY <2>1
    <3>2. through' = taken' - 0
      BY <3>1 DEF through
    <3> QED
      BY <1>3, <2>1, <3>2
  <2>2. CASE mPendingCharacter' # <<>>
    <3>1. through' = (n + Len(c)) - Len(c)
      BY <1>2, <2>2 DEF through
    <3> QED
      BY <1>3, <2>2, <3>1
  <2> QED
    BY <2>1, <2>2
<1>5. Work' = (IF reading' = "no" THEN <<>> ELSE mLineBuffer') /\ Got' = (mReadState' = "Got0x0D")
  BY DEF Work, Got
<1> HIDE DEF m
<1>6. Switched(lines, Work, Got, mLineEndingsReadKind, early, through)'
  BY <1>2, <1>4, <1>5, SwitchedStays
<1>7. IsBoundary(taken)'
  BY DEF IsBoundary
<1>8. \A d, i : IsCharacter(d, i)' <=> IsCharacter(d, i)
  BY DEF IsCharacter
<1>9. mPendingCharacter' # <<>> =>
         IsCharacter(mPendingCharacter', through') /\ mPendingCharacter' # <<"lf">>
            /\ through' > 0 /\ text[through'] = "cr"
  BY <1>2, <1>4 DEF m
<1> QED
  BY <1>2, <1>4, <1>5, <1>6, <1>7, <1>8, <1>9 DEF TextIsSwitched

LEMMA PendingStep ==
    ASSUME TextInv, TakesPending, UNCHANGED <<rawTextVars, includeLineEnding>>
    PROVE  TextInv'
<1> DEFINE c == mPendingCharacter
<1>1. c \in Seq(TextBytes) /\ c # <<>> /\ Takes(c, 1) /\ ~ Got /\ source = <<>> /\ source' = <<>>
      /\ reading = "line" /\ textOffset' = textOffset
  BY DEF TextInv, TextTypeOK, SourceIsRead, TakesPending, Got
<1>2. /\ mPendingCharacter' \in Seq(TextBytes) /\ mReadState' \in {"Ready", "Got0x0D"}
      /\ mLineEndingsReadKind' \in {"Unknown", "Unix", "DOS", "Mac", "Mixed"}
      /\ mLineBuffer' \in Seq(TextBytes) /\ lines' \in Seq(Seq(TextBytes))
      /\ reading' \in {"no", "line"} /\ early' \in BOOLEAN /\ dropped' \in BOOLEAN
      /\ mPendingCharacter' = <<>> /\ (dropped => dropped')
  BY <1>1, TakesTypes DEF TextInv
<1>3. TextTypeOK'
  BY <1>1, <1>2 DEF TextInv, TextTypeOK, TakesPending, rawTextVars
<1>4. SourceIsRead'
  <2>1. Len(source') = Len(source) /\ textOffset' = textOffset /\ text' = text
    BY <1>1 DEF rawTextVars
  <2> QED
    BY <1>1, <1>2, <2>1 DEF TextInv, SourceIsRead, taken
<1>5. ASSUME TextIsGood' PROVE TextIsSwitched'
  <2>1. TextIsSwitched
    BY <1>2, <1>5, GoodBefore DEF TextInv, rawTextVars
  <2>2. IsCharacter(c, through) /\ c # <<"lf">> /\ IsBoundary(taken)
        /\ Switched(lines, mLineBuffer, Got, mLineEndingsReadKind, early, through)
    BY <1>1, <2>1 DEF TextIsSwitched, Work
  <2>3. taken \in Int /\ Len(c) \in Nat
    BY TextTypes DEF TextInv, taken
  <2>4. taken = through + Len(c) /\ taken' = taken
    BY <1>1, <2>3 DEF through, taken
  <2> QED
    BY <1>1, <1>2, <1>5, <2>2, <2>4, TakesStep DEF rawTextVars
<1> QED
  BY <1>3, <1>4, <1>5 DEF TextInv

-----------------------------------------------------------------------------
(* Reading a byte *)

LEMMA ReverseIs ==
    ASSUME NEW S, NEW s \in Seq(S)
    PROVE  Reverse(s) \in Seq(S) /\ Len(Reverse(s)) = Len(s)
           /\ \A i \in 1..Len(s) : Reverse(s)[i] = s[(Len(s) - i) + 1]
<1> DEFINE r == [i \in 1..Len(s) |-> s[(Len(s) - i) + 1]]
<1>1. Len(s) \in Nat
  BY LenProperties
<1>2. \A i \in 1..Len(s) : s[(Len(s) - i) + 1] \in S
  <2>1. \A i \in 1..Len(s) : (Len(s) - i) + 1 \in 1..Len(s)
    BY <1>1
  <2> QED
    BY <2>1, ElementOfSeq
<1>3. r \in Seq(S)
  BY <1>1, <1>2, IsASeq
<1>4. Len(r) = Len(s)
  BY <1>1, <1>3, LenProperties
<1> QED
  BY <1>3, <1>4 DEF Reverse

\* The bytes of a character are read in order where the order does not matter.
LEMMA CodePointIs ==
    ASSUME TextIsBytes, NEW c, NEW n, IsCharacter(c, n), IsReadInOrder
    PROVE  CodePoint(c) = c
<1>1. c \in Seq(TextBytes) /\ Len(c) \in 1..4 /\ c[1] = text[n + 1] /\ n + 1 \in 1..Len(text)
      /\ Len(c) = UTF8Length(c[1])
  BY CharacterIs DEF IsCharacter
<1>2. CASE argumentOrder # "right"
  BY <1>2 DEF CodePoint
<1>3. CASE argumentOrder = "right"
  <2> DEFINE t == Tail(c)
             r == Reverse(t)
  <2>1. c[1] # "E2" /\ c[1] # "F7"
    <3>1. DOMAIN text = 1..Len(text)
      BY LenProperties DEF TextIsBytes
    <3>2. c[1] \in ToSet(text)
      BY <1>1, <3>1 DEF ToSet
    <3> QED
      BY <1>3, <3>2 DEF IsReadInOrder
  <2>2. Len(c) \in {1, 2}
    BY <1>1, <2>1 DEF UTF8Length
  <2>3. t \in Seq(TextBytes) /\ Len(t) \in {0, 1} /\ <<Head(c)>> \o t = c
    <3>1. c # <<>>
      BY <1>1, EmptySeq
    <3>2. t \in Seq(TextBytes) /\ Len(t) = Len(c) - 1
      BY <1>1, <3>1, HeadTailProperties
    <3>3. <<Head(c)>> \o t = c
      BY <1>1, <3>1
    <3> QED
      BY <2>2, <3>2, <3>3
  <2> HIDE DEF t
  <2>4. r \in Seq(TextBytes) /\ Len(r) = Len(t) /\ \A i \in 1..Len(t) : r[i] = t[(Len(t) - i) + 1]
    BY <2>3, ReverseIs
  <2> HIDE DEF r
  <2>5. \A i \in 1..Len(t) : r[i] = t[i]
    <3>1. \A i \in 1..Len(t) : (Len(t) - i) + 1 = i
      BY <2>3
    <3> QED
      BY <2>4, <3>1
  <2>6. r = t
    BY <2>3, <2>4, <2>5, SeqEqual
  <2>7. CodePoint(c) = <<Head(c)>> \o r
    BY <1>3 DEF CodePoint, r, t
  <2> QED
    BY <2>3, <2>6, <2>7
<1> QED
  BY <1>2, <1>3

LEMMA CodePointBytes ==
    ASSUME NEW bytes \in Seq(TextBytes), bytes # <<>>
    PROVE  CodePoint(bytes) \in Seq(TextBytes)
<1>1. <<Head(bytes)>> \in Seq(TextBytes) /\ Tail(bytes) \in Seq(TextBytes)
  BY HeadTailProperties
<1>2. Reverse(Tail(bytes)) \in Seq(TextBytes)
  BY <1>1, ReverseIs
<1> QED
  BY <1>1, <1>2, ConcatProperties DEF CodePoint

\* The bytes of the code point, with the one that is read now.
LEMMA NextBytesAre ==
    ASSUME TextInv, reading = "codePoint", available # 0
    PROVE  /\ NextBytes \in Seq(TextBytes) /\ Len(NextBytes) = Len(source) + 1
           /\ NextBytes # <<>> /\ text[textOffset + 1] \in TextBytes /\ textOffset + 1 \in 0..written
           /\ taken \in Nat /\ taken + Len(NextBytes) = textOffset + 1
           /\ \A i \in 1..Len(NextBytes) : NextBytes[i] = text[taken + i]
           /\ Len(NextBytes) <= UTF8Length(NextBytes[1])
<1>1. /\ textOffset \in Nat /\ written \in Nat /\ Len(text) \in Nat /\ Len(source) \in Nat
      /\ textOffset <= written /\ written <= Len(text) /\ text \in Seq(TextBytes)
      /\ source \in Seq(TextBytes)
  BY TextTypes DEF TextInv, TextTypeOK, TextIsBytes
<1>2. textOffset + 1 <= written /\ textOffset + 1 \in 1..Len(text)
  BY <1>1 DEF available
<1>3. text[textOffset + 1] \in TextBytes /\ textOffset + 1 \in 0..written
  BY <1>1, <1>2, ElementOfSeq
<1>4. NextBytes \in Seq(TextBytes) /\ Len(NextBytes) = Len(source) + 1 /\ NextBytes # <<>>
      /\ (\A i \in 1..Len(source) : NextBytes[i] = source[i])
      /\ NextBytes[Len(source) + 1] = text[textOffset + 1]
  BY <1>1, <1>3, AppendProperties DEF NextBytes
<1>5. taken \in Nat /\ taken + (Len(source) + 1) = textOffset + 1
  BY <1>1 DEF taken, TextInv, SourceIsRead
<1>6. ASSUME NEW i \in 1..Len(NextBytes) PROVE NextBytes[i] = text[taken + i]
  <2>1. i \in 1..Len(source) \/ i = Len(source) + 1
    BY <1>1, <1>4
  <2>2. CASE i \in 1..Len(source)
    BY <1>4, <2>2 DEF TextInv, SourceIsRead
  <2>3. CASE i = Len(source) + 1
    BY <1>4, <1>5, <2>3
  <2> QED
    BY <2>1, <2>2, <2>3
<1>7. Len(NextBytes) <= UTF8Length(NextBytes[1])
  <2>0. UTF8Length(NextBytes[1]) \in 1..4
    BY DEF UTF8Length
  <2>1. CASE source = <<>>
    <3>1. Len(source) = 0
      BY <2>1
    <3> QED
      BY <1>4, <2>0, <3>1
  <2>2. CASE source # <<>>
    <3>1. Len(source) # 0
      BY <1>1, <2>2, EmptySeq
    <3>2. 1 \in 1..Len(source)
      BY <1>1, <3>1
    <3>3. NextBytes[1] = source[1]
      BY <1>4, <3>2
    <3>4. Len(source) < UTF8Length(source[1])
      BY <2>2 DEF TextInv, SourceIsRead
    <3> QED
      BY <1>1, <1>4, <2>0, <3>3, <3>4
  <2> QED
    BY <2>1, <2>2
<1> QED
  BY <1>3, <1>4, <1>5, <1>6, <1>7

\* In UTF-8 they make a character when they are complete.
LEMMA NextIsCharacter ==
    ASSUME TextInv, reading = "codePoint", available # 0, IsComplete(NextBytes),
           IsUTF8(text), IsBoundary(taken)
    PROVE  IsCharacter(NextBytes, taken) /\ IsBoundary(taken + Len(NextBytes))
<1> DEFINE b == NextBytes
           L == Len(b)
<1>1. /\ b \in Seq(TextBytes) /\ L \in Nat /\ L > 0 /\ taken \in Nat
      /\ \A i \in 1..L : b[i] = text[taken + i]
      /\ b # <<>> /\ L = UTF8Length(b[1]) /\ taken + L <= Len(text) /\ Len(text) \in Nat
      /\ DOMAIN text = 1..Len(text)
  <2>1. /\ b \in Seq(TextBytes) /\ b # <<>> /\ taken \in Nat /\ taken + L = textOffset + 1
        /\ L = Len(source) + 1 /\ textOffset + 1 \in 0..written
        /\ \A i \in 1..L : b[i] = text[taken + i]
    BY NextBytesAre
  <2>2. Len(source) \in Nat /\ written \in Nat /\ written <= Len(text) /\ Len(text) \in Nat
        /\ text \in Seq(TextBytes)
    BY TextTypes DEF TextInv, TextIsBytes
  <2>3. L \in Nat /\ L > 0 /\ taken + L <= Len(text)
    BY <2>1, <2>2
  <2>4. DOMAIN text = 1..Len(text)
    BY <2>2, LenProperties
  <2> QED
    BY <2>1, <2>2, <2>3, <2>4 DEF IsComplete
<1> HIDE DEF b, L
<1>2. text[taken + 1] = b[1] /\ taken + 1 \in DOMAIN text
  BY <1>1
<1>3. b[1] \notin Continuations
  <2>1. ASSUME NEW j \in 1..taken PROVE ~ (taken + 1 < j + UTF8Length(text[j]))
    <3>1. j + UTF8Length(text[j]) <= taken + 1 /\ UTF8Length(text[j]) \in 1..4
      BY <2>1 DEF IsBoundary, UTF8Length
    <3> QED
      BY <1>1, <3>1
  <2>2. (taken + 1) - 1 = taken
    BY <1>1
  <2>3. text[taken + 1] \in Continuations <=>
           \E j \in 1..(taken + 1) - 1 : taken + 1 < j + UTF8Length(text[j])
    BY <1>2 DEF IsUTF8
  <2> QED
    BY <1>2, <2>1, <2>2, <2>3
<1>4. ASSUME NEW i \in 1..L, i # 1 PROVE b[i] \in Continuations
  <2>1. taken + i \in DOMAIN text /\ taken + 1 \in 1..(taken + i) - 1
        /\ taken + i < (taken + 1) + L
    BY <1>1, <1>4
  <2>2. \E j \in 1..(taken + i) - 1 : taken + i < j + UTF8Length(text[j])
    BY <1>1, <1>2, <2>1
  <2>3. text[taken + i] \in Continuations
    BY <2>1, <2>2 DEF IsUTF8
  <2> QED
    BY <1>1, <2>3
<1>5. IsCharacter(b, taken)
  BY <1>1, <1>3, <1>4 DEF IsCharacter, L
<1>6. ASSUME NEW j \in 1..taken + L PROVE j + UTF8Length(text[j]) <= (taken + L) + 1
  <2>1. UTF8Length(text[j]) \in 1..4
    BY DEF UTF8Length
  <2>2. CASE j \in 1..taken
    <3>1. j + UTF8Length(text[j]) <= taken + 1
      BY <2>2 DEF IsBoundary
    <3> QED
      BY <1>1, <2>1, <3>1
  <2>3. CASE j = taken + 1
    BY <1>1, <1>2, <2>3
  <2>4. CASE j \notin 1..taken /\ j # taken + 1
    <3>1. j - taken \in 1..L /\ j - taken # 1 /\ taken + (j - taken) = j
      BY <1>1, <2>4
    <3>2. text[j] \in Continuations
      BY <1>1, <1>4, <3>1
    <3>3. UTF8Length(text[j]) = 1
      BY <3>2 DEF UTF8Length, Continuations
    <3> QED
      BY <1>1, <3>3
  <2> QED
    BY <2>2, <2>3, <2>4
<1>7. IsBoundary(taken + L)
  BY <1>6 DEF IsBoundary
<1> QED
  BY <1>5, <1>7 DEF b, L

LEMMA ReadsStep ==
    ASSUME TextInv, ReadsByte, UNCHANGED <<rawTextVars, includeLineEnding>>
    PROVE  TextInv'
<1>1. /\ NextBytes \in Seq(TextBytes) /\ Len(NextBytes) = Len(source) + 1
      /\ NextBytes # <<>> /\ textOffset + 1 \in 0..written
      /\ taken \in Nat /\ taken + Len(NextBytes) = textOffset + 1
      /\ \A i \in 1..Len(NextBytes) : NextBytes[i] = text[taken + i]
      /\ Len(NextBytes) <= UTF8Length(NextBytes[1])
  BY NextBytesAre DEF ReadsByte
<1>2. textOffset' = textOffset + 1 /\ textOffset \in Nat /\ mPendingCharacter = <<>> /\ reading = "codePoint"
      /\ Len(source) \in Nat
  BY TextTypes DEF ReadsByte, TextInv, SourceIsRead
<1>3. CASE ~ IsComplete(NextBytes)
  <2>1. /\ source' = NextBytes
        /\ UNCHANGED <<mPendingCharacter, mReadState, mLineEndingsReadKind, mLineBuffer,
                       reading, readFirstByteOfLine, lines, early, dropped>>
    BY <1>3 DEF ReadsByte
  <2>2. TextTypeOK'
    BY <1>1, <1>2, <2>1 DEF TextInv, TextTypeOK, rawTextVars
  <2>3. taken' = taken /\ Work' = Work
    BY <1>1, <1>2, <2>1 DEF taken, Work
  <2>4. Len(NextBytes) < UTF8Length(NextBytes[1])
    <3>1. UTF8Length(NextBytes[1]) \in 1..4
      BY DEF UTF8Length
    <3> QED
      BY <1>1, <1>2, <1>3, <3>1 DEF IsComplete
  <2>5. SourceIsRead'
    <3>1. Len(source') <= textOffset'
      BY <1>1, <1>2, <2>1
    <3>2. \A i \in 1..Len(source') : source'[i] = text'[taken' + i]
      BY <1>1, <2>1, <2>3 DEF rawTextVars
    <3>3. source' # <<>> => reading' = "codePoint" /\ Len(source') < UTF8Length(source'[1])
      BY <1>2, <2>1, <2>4
    <3>4. UTF8Length(source[1])' = UTF8Length(source'[1])
      BY DEF UTF8Length
    <3> QED
      BY <1>2, <2>1, <3>1, <3>2, <3>3, <3>4 DEF SourceIsRead
  <2>6. TextIsGood' => TextIsSwitched'
    BY <2>1, <2>3, NothingTaken DEF TextIsSwitched, rawTextVars
  <2> QED
    BY <2>2, <2>5, <2>6 DEF TextInv
<1>4. CASE IsComplete(NextBytes)
  <2> DEFINE c == CodePoint(NextBytes)
             k == Len(NextBytes)
  <2>1. source' = <<>> /\ readFirstByteOfLine' = TRUE /\ Takes(c, k)
    BY <1>4 DEF ReadsByte
  <2>2. c \in Seq(TextBytes)
    BY <1>1, CodePointBytes
  <2> HIDE DEF c
  <2>3. /\ mPendingCharacter' \in Seq(TextBytes) /\ mReadState' \in {"Ready", "Got0x0D"}
        /\ mLineEndingsReadKind' \in {"Unknown", "Unix", "DOS", "Mac", "Mixed"}
        /\ mLineBuffer' \in Seq(TextBytes) /\ lines' \in Seq(Seq(TextBytes))
        /\ reading' \in {"no", "line"} /\ early' \in BOOLEAN /\ dropped' \in BOOLEAN
        /\ (dropped => dropped') /\ (mReadState' = "Got0x0D" => mPendingCharacter' = <<>>)
        /\ (mPendingCharacter' # <<>> => Got)
    BY <2>1, <2>2, TakesTypes DEF TextInv
  <2>4. TextTypeOK'
    <3>1. <<>> \in Seq(TextBytes)
      BY EmptySeq
    <3> QED
      BY <1>1, <1>2, <2>1, <2>3, <3>1 DEF TextInv, TextTypeOK, rawTextVars
  <2>5. SourceIsRead'
    <3>1. Len(source') = 0
      BY <2>1
    <3>2. Len(source') <= textOffset' /\ \A i \in 1..Len(source') : FALSE
      BY <1>2, <3>1
    <3> QED
      BY <2>1, <2>3, <3>2 DEF SourceIsRead
  <2>6. ASSUME TextIsGood' PROVE TextIsSwitched'
    <3>1. TextIsGood /\ TextIsSwitched
      BY <2>3, <2>6, GoodBefore DEF TextInv, rawTextVars
    <3>2. IsBoundary(taken) /\ IsUTF8(text) /\ IsReadInOrder
      BY <3>1 DEF TextIsSwitched, TextIsGood
    <3>3. IsCharacter(NextBytes, taken) /\ IsBoundary(taken + Len(NextBytes))
      BY <1>2, <1>4, <3>2, NextIsCharacter DEF ReadsByte
    <3>4. c = NextBytes
      BY <3>2, <3>3, CodePointIs, TextTypes DEF TextInv, c
    <3>5. through = taken
      <4>1. Len(mPendingCharacter) = 0
        BY <1>2
      <4> QED
        BY <1>1, <4>1 DEF through
    <3>6. Switched(lines, mLineBuffer, Got, mLineEndingsReadKind, early, taken)
      BY <1>2, <3>1, <3>5 DEF TextIsSwitched, Work
    <3>7. c = <<"lf">> /\ ~ Got => taken = 0 \/ text[taken] # "cr"
      BY <1>2, <3>1, <3>5 DEF TextIsSwitched
    <3>8. taken' = taken + Len(NextBytes)
      <4>1. Len(source') = 0
        BY <2>1
      <4>2. taken' = (textOffset + 1) - 0
        BY <1>2, <4>1 DEF taken
      <4> QED
        BY <1>1, <1>2, <4>2
    <3> QED
      BY <2>1, <2>3, <2>6, <3>3, <3>4, <3>6, <3>7, <3>8, TakesStep DEF rawTextVars
  <2> QED
    BY <2>4, <2>5, <2>6 DEF TextInv
<1> QED
  BY <1>3, <1>4

-----------------------------------------------------------------------------
(* The lines make the text *)

LEMMA ThroughIs ==
    ASSUME TextInv, TextIsSwitched
    PROVE  /\ taken \in 0..Len(text) /\ through \in 0..Len(text) /\ through <= taken
           /\ taken = through + Len(mPendingCharacter)
           /\ mPendingCharacter = <<>> => through = taken
<1>1. /\ Len(text) \in Nat /\ Len(source) \in Nat /\ Len(mPendingCharacter) \in Nat
      /\ textOffset \in Nat /\ textOffset <= Len(text) /\ Len(source) <= textOffset
  <2>1. /\ Len(text) \in Nat /\ Len(source) \in Nat /\ Len(mPendingCharacter) \in Nat
        /\ written \in Nat /\ textOffset \in Nat /\ written <= Len(text) /\ textOffset <= written
    BY TextTypes DEF TextInv
  <2> QED
    BY <2>1 DEF TextInv, SourceIsRead
<1>2. taken \in 0..Len(text)
  BY <1>1 DEF taken
<1>3. through \in 0..Len(text)
  BY DEF TextIsSwitched, Switched
<1>4. taken = through + Len(mPendingCharacter) /\ through <= taken
  <2>1. through = taken - Len(mPendingCharacter)
    BY DEF through
  <2> HIDE DEF through, taken
  <2> QED
    BY <1>1, <1>2, <2>1
<1>5. mPendingCharacter = <<>> => through = taken
  <2>1. SUFFICES ASSUME mPendingCharacter = <<>> PROVE through = taken
    OBVIOUS
  <2>2. Len(mPendingCharacter) = 0
    BY <2>1
  <2> HIDE DEF through, taken
  <2> QED
    BY <1>2, <1>3, <1>4, <2>2
<1> QED
  BY <1>2, <1>3, <1>4, <1>5

LEMMA PartIs ==
    ASSUME NEW S, NEW s \in Seq(S), NEW m \in 0..Len(s), NEW n \in 0..Len(s), m <= n
    PROVE  /\ SubSeq(s, m + 1, n) \in Seq(S) /\ Len(SubSeq(s, m + 1, n)) = n - m
           /\ \A i \in 1..n - m : SubSeq(s, m + 1, n)[i] = s[m + i]
<1>1. Len(s) \in Nat /\ m \in Nat /\ n \in Nat /\ m + 1 \in Nat
  BY LenProperties
<1>2. \A i \in m + 1..n : s[i] \in S
  <2>1. \A i \in m + 1..n : i \in 1..Len(s)
    BY <1>1
  <2> QED
    BY <2>1, ElementOfSeq
<1> QED
  BY <1>1, <1>2

\* What was read, byte by byte and in parts.
LEMMA ConsumedIs ==
    ASSUME TextInv, TextIsSwitched
    PROVE  /\ Consumed \in Seq(TextBytes) /\ Len(Consumed) = taken
           /\ \A i \in 1..taken : Consumed[i] = text[i]
           /\ \A m, n \in 0..taken : m <= n => Shown(SubSeq(Consumed, m + 1, n)) = ShownPart(m, n)
           /\ Shown(Consumed) = ShownPart(0, taken)
<1>1. taken \in 0..Len(text) /\ Len(text) \in Nat /\ text \in Seq(TextBytes)
  BY ThroughIs, TextTypes DEF TextInv, TextIsBytes
<1>2. Consumed = SubSeq(text, 1, taken)
  BY DEF Consumed, taken
<1> HIDE DEF taken
<1>3. \A i \in 1..taken : text[i] \in TextBytes
  <2>1. \A i \in 1..taken : i \in 1..Len(text)
    BY <1>1
  <2> QED
    BY <1>1, <2>1, ElementOfSeq
<1>4. Consumed \in Seq(TextBytes) /\ Len(Consumed) = taken /\ \A i \in 1..taken : Consumed[i] = text[i]
  BY <1>1, <1>2, <1>3
<1>5. ASSUME NEW m \in 0..taken, NEW n \in 0..taken, m <= n
      PROVE  SubSeq(Consumed, m + 1, n) = SubSeq(text, m + 1, n)
  <2> DEFINE s == SubSeq(Consumed, m + 1, n)
             t == SubSeq(text, m + 1, n)
  <2>1. \A i \in m + 1..n : i \in 1..taken /\ i \in 1..Len(text)
    BY <1>1
  <2>2. s \in Seq(TextBytes) /\ Len(s) = n - m /\ \A i \in 1..n - m : s[i] = Consumed[m + i]
    BY <1>4, <1>5, PartIs
  <2>3. t \in Seq(TextBytes) /\ Len(t) = n - m /\ \A i \in 1..n - m : t[i] = text[m + i]
    <3>1. m \in 0..Len(text) /\ n \in 0..Len(text)
      BY <1>1
    <3> QED
      BY <1>1, <1>5, <3>1, PartIs
  <2> HIDE DEF s, t
  <2>4. \A i \in 1..n - m : m + i \in 1..taken
    BY <1>1
  <2>5. \A i \in 1..Len(s) : s[i] = t[i]
    BY <1>4, <2>2, <2>3, <2>4
  <2>6. s = t
    BY <2>2, <2>3, <2>5, SeqEqual
  <2> QED
    BY <2>6 DEF s, t
<1>6. Shown(Consumed) = ShownPart(0, taken)
  <2>1. 0 + 1 = 1
    OBVIOUS
  <2> QED
    BY <1>2, <2>1 DEF ShownPart
<1>7. \A m, n \in 0..taken : m <= n => Shown(SubSeq(Consumed, m + 1, n)) = ShownPart(m, n)
  BY <1>5 DEF ShownPart
<1> QED
  BY <1>4, <1>6, <1>7

\* The lines end where the switch has ended them.
LEMMA EndsOfConsumed ==
    ASSUME TextInv, TextIsSwitched
    PROVE  LineEndsAt(Consumed) = EndsUpTo(through, Got)
<1>1. /\ taken \in Nat /\ through \in Nat /\ through <= taken
      /\ taken = through + Len(mPendingCharacter)
      /\ mPendingCharacter = <<>> => through = taken
      /\ Len(Consumed) = taken
      /\ \A i \in 1..taken : Consumed[i] = text[i]
      /\ Got \in BOOLEAN
  <2>1. /\ taken \in 0..Len(text) /\ through \in 0..Len(text) /\ through <= taken
        /\ taken = through + Len(mPendingCharacter)
        /\ mPendingCharacter = <<>> => through = taken
    BY ThroughIs
  <2>2. Len(text) \in Nat /\ Got \in BOOLEAN
    BY TextTypes DEF TextInv
  <2>3. taken \in Nat /\ through \in Nat
    <3> HIDE DEF taken, through
    <3> QED
      BY <2>1, <2>2
  <2> QED
    BY <2>1, <2>2, <2>3, ConsumedIs
<1>2. Got => mPendingCharacter = <<>>
  BY DEF TextInv, SourceIsRead, Got
<1> HIDE DEF taken, through
<1>3. LineEndsAt(Consumed) = {i \in 1..taken : text[i] = "lf" \/ (text[i] = "cr" /\ i < taken /\ text[i + 1] # "lf")}
  <2>1. \A i \in 1..taken : i < taken => Consumed[i + 1] = text[i + 1]
    BY <1>1
  <2> QED
    BY <1>1, <2>1 DEF LineEndsAt
<1>4. CASE mPendingCharacter = <<>>
  <2>1. Got => text[taken] = "cr"
    BY <1>1, <1>4 DEF TextIsSwitched, Switched
  <2>2. ~ Got => taken = 0 \/ text[taken] # "cr"
    BY <1>1, <1>4 DEF TextIsSwitched
  <2>3. ASSUME NEW i \in 1..taken
        PROVE  i \in LineEndsAt(Consumed) <=> i \in EndsUpTo(taken, Got)
    <3>1. CASE i = taken
      <4>1. taken # 0 /\ ~ (i < taken)
        BY <1>1, <3>1
      <4>2. i \in LineEndsAt(Consumed) <=> text[i] = "lf"
        BY <1>3, <4>1
      <4>3. i \in EndsUpTo(taken, Got) <=> text[i] = "lf" \/ (text[i] = "cr" /\ ~ Got)
        BY <3>1 DEF EndsUpTo
      <4> QED
        BY <2>2, <3>1, <4>1, <4>2, <4>3
    <3>2. CASE i # taken
      <4>1. i < taken
        BY <1>1, <3>2
      <4> QED
        BY <1>3, <3>2, <4>1 DEF EndsUpTo
    <3> QED
      BY <3>1, <3>2
  <2>4. LineEndsAt(Consumed) \subseteq 1..taken /\ EndsUpTo(taken, Got) \subseteq 1..taken
    BY <1>3 DEF EndsUpTo
  <2>5. LineEndsAt(Consumed) = EndsUpTo(taken, Got)
    BY <2>3, <2>4
  <2> QED
    BY <1>1, <1>4, <2>5
<1>5. CASE mPendingCharacter # <<>>
  <2> DEFINE c == mPendingCharacter
  <2>1. /\ IsCharacter(c, through) /\ c # <<"lf">> /\ through > 0 /\ text[through] = "cr"
        /\ Got = FALSE
    BY <1>1, <1>2, <1>5 DEF TextIsSwitched
  <2>2. /\ Len(c) \in 1..4 /\ text[through + 1] = c[1]
        /\ IsEnding(c[1]) => c = <<"cr">>
        /\ ~ IsEnding(c[1]) => \A i \in through + 1..through + Len(c) : ~ IsEnding(text[i])
    BY <2>1, CharacterIs
  <2>3. text[through + 1] # "lf"
    BY <2>2 DEF IsEnding
  <2>4. IsEnding(c[1]) => taken = through + 1
    <3>1. c = <<"cr">> => Len(c) = 1
      OBVIOUS
    <3> QED
      BY <1>1, <2>2, <3>1
  <2>5. through < taken
    BY <1>1, <2>2
  <2>6. ASSUME NEW i \in 1..taken
        PROVE  i \in LineEndsAt(Consumed) <=> i \in EndsUpTo(through, FALSE)
    <3>1. CASE i \in 1..through
      <4>1. i < taken
        BY <1>1, <2>5, <3>1
      <4>2. i \in LineEndsAt(Consumed) <=> text[i] = "lf" \/ (text[i] = "cr" /\ text[i + 1] # "lf")
        BY <1>3, <4>1
      <4>3. i \in EndsUpTo(through, FALSE) <=>
               text[i] = "lf" \/ (text[i] = "cr" /\ (i = through \/ text[i + 1] # "lf"))
        BY <3>1 DEF EndsUpTo
      <4>4. i = through => text[i + 1] # "lf"
        BY <2>3
      <4> QED
        <5>1. CASE text[i + 1] = "lf"
          BY <4>2, <4>3, <4>4, <5>1
        <5>2. CASE text[i + 1] # "lf"
          BY <4>2, <4>3, <5>2
        <5> QED
          BY <5>1, <5>2
    <3>2. CASE i \notin 1..through
      <4>1. i \in through + 1..through + Len(c) /\ i \notin EndsUpTo(through, FALSE)
        BY <1>1, <3>2 DEF EndsUpTo
      <4>2. i \notin LineEndsAt(Consumed)
        <5>1. CASE IsEnding(c[1])
          <6>1. i = taken /\ i = through + 1
            BY <1>1, <2>4, <4>1, <5>1
          <6>2. ~ (i < taken)
            BY <1>1, <6>1
          <6> QED
            BY <1>3, <2>3, <6>1, <6>2
        <5>2. CASE ~ IsEnding(c[1])
          BY <1>3, <2>2, <4>1, <5>2 DEF IsEnding
        <5> QED
          BY <5>1, <5>2
      <4> QED
        BY <4>1, <4>2
    <3> QED
      BY <3>1, <3>2
  <2>7. \A i \in 1..through : i \in 1..taken
    BY <1>1
  <2>8. LineEndsAt(Consumed) \subseteq 1..taken /\ EndsUpTo(through, FALSE) \subseteq 1..taken
    BY <1>3, <2>7 DEF EndsUpTo
  <2>9. LineEndsAt(Consumed) = EndsUpTo(through, FALSE)
    BY <2>6, <2>8
  <2> QED
    BY <2>1, <2>9
<1> QED
  BY <1>4, <1>5

LEMMA KindOfConsumed ==
    ASSUME TextInv, TextIsSwitched
    PROVE  KindOf(Consumed) = KindIs(KindsUpTo(through, Got))
<1>1. \A i \in 1..taken : Consumed[i] = text[i]
  BY ConsumedIs
<1>2. LineEndsAt(Consumed) = EndsUpTo(through, Got)
  BY EndsOfConsumed
<1>3. taken \in Nat /\ through \in Nat /\ through <= taken
  <2>1. taken \in 0..Len(text) /\ through \in 0..Len(text) /\ through <= taken
    BY ThroughIs
  <2>2. Len(text) \in Nat
    BY TextTypes DEF TextInv
  <2> HIDE DEF taken, through
  <2> QED
    BY <2>1, <2>2
<1> HIDE DEF taken, through
<1>4. ASSUME NEW i \in EndsUpTo(through, Got) PROVE EndingAt(Consumed, i) = EndingAt(text, i)
  <2>1. i \in 1..taken /\ (i > 1 => i - 1 \in 1..taken)
    BY <1>3 DEF EndsUpTo
  <2>2. Consumed[i] = text[i] /\ (i > 1 => Consumed[i - 1] = text[i - 1])
    BY <1>1, <2>1
  <2> QED
    BY <2>2 DEF EndingAt
<1>5. {EndingAt(Consumed, i) : i \in LineEndsAt(Consumed)} = KindsUpTo(through, Got)
  BY <1>2, <1>4 DEF KindsUpTo
<1> QED
  BY <1>5 DEF KindOf, KindIs

LEMMA LinesOfConsumed ==
    ASSUME TextInv, TextIsSwitched, ~ early
    PROVE  AreLinesOf(lines, Consumed)
<1>1. PICK ends : IsSplit(ends, lines, Work, Got, through)
  BY DEF TextIsSwitched, Switched
<1>2. taken \in Nat /\ through \in Nat /\ through <= taken /\ Len(lines) \in Nat
  <2>1. taken \in 0..Len(text) /\ through \in 0..Len(text) /\ through <= taken
    BY ThroughIs
  <2>2. Len(text) \in Nat
    BY TextTypes DEF TextInv
  <2>3. Len(lines) \in Nat
    <3>1. lines \in Seq(Seq(TextBytes))
      BY DEF TextInv, TextTypeOK
    <3> QED
      BY <3>1, LenProperties
  <2> HIDE DEF taken, through
  <2> QED
    BY <2>1, <2>2, <2>3
<1> HIDE DEF taken, through
<1>3. /\ ends \in [0..Len(lines) -> 0..through] /\ ends[0] = 0
      /\ \A k \in 1..Len(lines) :
            ends[k - 1] < ends[k] /\ lines[k] = ShownPart(ends[k - 1], ends[k])
      /\ LineEndsAt(Consumed) = {ends[k] : k \in 1..Len(lines)}
  BY <1>1, EndsOfConsumed DEF IsSplit
<1>4. ends \in [0..Len(lines) -> 0..Len(Consumed)]
  <2>1. \A i \in 0..through : i \in 0..Len(Consumed)
    BY <1>2, ConsumedIs
  <2> QED
    BY <1>3, <2>1
<1>5. ASSUME NEW k \in 1..Len(lines)
      PROVE  lines[k] = Shown(SubSeq(Consumed, ends[k - 1] + 1, ends[k]))
  <2>1. k \in 0..Len(lines) /\ k - 1 \in 0..Len(lines)
    BY <1>2
  <2>2. ends[k] \in 0..through /\ ends[k - 1] \in 0..through /\ ends[k - 1] < ends[k]
    BY <1>3, <2>1
  <2>3. ends[k] \in 0..taken /\ ends[k - 1] \in 0..taken /\ ends[k - 1] <= ends[k]
    BY <1>2, <2>2
  <2> QED
    BY <1>3, <2>3, ConsumedIs
<1> QED
  BY <1>3, <1>4, <1>5 DEF AreLinesOf

\* The invariant says that the lines make the text.
LEMMA InvMakesText == TextInv => LinesMakeTheText
<1> SUFFICES ASSUME TextInv, ~ dropped, IsUTF8(text), IsReadInOrder
             PROVE  /\ FlattenSeq(lines) \o Work \o Waiting(Got) \o Shown(mPendingCharacter) = Shown(Consumed)
                    /\ mLineEndingsReadKind = KindOf(Consumed)
                    /\ ~ early => AreLinesOf(lines, Consumed)
  BY Zenon DEF LinesMakeTheText, Work, Waiting, Got
<1>1. TextIsSwitched
  BY DEF TextInv, TextIsGood
<1>2. FlattenSeq(lines) \o Work \o Waiting(Got) = ShownPart(0, through)
      /\ mLineEndingsReadKind = KindIs(KindsUpTo(through, Got))
  BY <1>1 DEF TextIsSwitched, Switched
<1>3. /\ taken \in 0..Len(text) /\ through \in 0..Len(text) /\ through <= taken
      /\ taken = through + Len(mPendingCharacter)
      /\ mPendingCharacter = <<>> => through = taken
      /\ Len(text) \in Nat /\ TextIsBytes
  BY <1>1, ThroughIs, TextTypes DEF TextInv
<1> HIDE DEF through, taken
<1>4. ShownPart(0, taken) = ShownPart(0, through) \o ShownPart(through, taken)
  <2>1. 0 \in 0..Len(text) /\ 0 <= through
    BY <1>3
  <2> QED
    BY <1>3, <2>1, PartsOfText
<1>5. ShownPart(through, taken) = Shown(mPendingCharacter)
  <2>1. CASE mPendingCharacter = <<>>
    <3>1. through \in Nat
      BY <1>3
    <3>2. ShownPart(through, through) = <<>>
      BY <3>1, ShownNone
    <3> QED
      BY <1>3, <2>1, <3>2, ShownEmpty
  <2>2. CASE mPendingCharacter # <<>>
    <3>1. IsCharacter(mPendingCharacter, through)
      BY <1>1, <2>2 DEF TextIsSwitched
    <3>2. SubSeq(text, through + 1, through + Len(mPendingCharacter)) = mPendingCharacter
      BY <1>3, <3>1, ShownCharacter
    <3> QED
      BY <1>3, <3>2 DEF ShownPart
  <2> QED
    BY <2>1, <2>2
<1>6. Shown(Consumed) = ShownPart(0, taken)
  BY <1>1, ConsumedIs
<1>7. mLineEndingsReadKind = KindOf(Consumed)
  BY <1>1, <1>2, KindOfConsumed
<1>8. ~ early => AreLinesOf(lines, Consumed)
  BY <1>1, LinesOfConsumed
<1> QED
  BY <1>2, <1>4, <1>5, <1>6, <1>7, <1>8

LEMMA AppendsStep ==
    ASSUME TextInv, Appends
    PROVE  TextInv'
<1>1. written' \in 0..Len(text) /\ textOffset \in 0..written'
  <2>1. written \in Nat /\ textOffset \in Nat /\ textOffset <= written /\ Len(text) \in Nat
    BY TextTypes DEF TextInv
  <2> QED
    BY <2>1 DEF Appends
<1> QED
  BY <1>1, TextStays DEF Appends

\* The first byte of a code point past the end of Unicode is not its last one.
LEMMA OutOfRangeStep ==
    ASSUME TextInv, ThrowsOutOfRange, UNCHANGED <<rawTextVars, includeLineEnding>>
    PROVE  TextInv'
<1>1. written \in Nat /\ textOffset \in Nat /\ textOffset <= written /\ Len(source) \in Nat
  BY TextTypes DEF TextInv
<1>2. LeavesReadLine
  BY DEF ThrowsOutOfRange
<1>3. CASE textOffset' = textOffset
  BY <1>1, <1>2, <1>3, LeavesStep
<1>4. CASE textOffset' # textOffset
  <2>1. /\ reading = "codePoint" /\ available # 0 /\ IsComplete(NextBytes) /\ IsInvalid(NextBytes)
        /\ textOffset' = textOffset + 1
    BY <1>4 DEF ThrowsOutOfRange
  <2>2. Len(NextBytes) = Len(source) + 1 /\ textOffset + 1 \in 0..written
    BY <2>1, NextBytesAre
  <2>3. Len(NextBytes) = 4
    BY <2>1 DEF IsComplete, IsInvalid, UTF8Length
  <2>4. source # <<>>
    <3>1. Len(source) # 0
      BY <1>1, <2>2, <2>3
    <3>2. source = <<>> => Len(source) = 0
      OBVIOUS
    <3> QED
      BY <3>1, <3>2
  <2>5. textOffset' \in textOffset..written
    BY <1>1, <2>1, <2>2
  <2> QED
    BY <1>2, <2>4, <2>5, LeavesStep
<1> QED
  BY <1>3, <1>4

LEMMA LeavesInPlace ==
    ASSUME TextInv, LeavesReadLine, UNCHANGED textOffset, UNCHANGED <<rawTextVars, includeLineEnding>>
    PROVE  TextInv'
<1>1. written \in Nat /\ textOffset \in Nat /\ textOffset <= written
  BY TextTypes DEF TextInv
<1> QED
  BY <1>1, LeavesStep

LEMMA TextStep == TextInv /\ [TextNext]_lineReaderVars => TextInv'
<1> SUFFICES ASSUME TextInv, [TextNext]_lineReaderVars PROVE TextInv'
  OBVIOUS
<1>1. CASE Appends
  BY <1>1, AppendsStep
<1>2. ASSUME UNCHANGED <<rawTextVars, includeLineEnding>>,
             CallsReadLine \/ TakesPending \/ StartsCodePoint \/ ReadsByte \/ ReturnsAtEnd
      PROVE  TextInv'
  BY <1>2, CallsStep, PendingStep, StartsStep, ReadsStep, ReturnsStep
<1>3. ASSUME UNCHANGED <<rawTextVars, includeLineEnding>>,
             ThrowsAtEnd \/ ThrowsInCodePoint \/ ThrowsOutOfRange
      PROVE  TextInv'
  BY <1>3, LeavesInPlace, OutOfRangeStep DEF ThrowsAtEnd, ThrowsInCodePoint
<1>4. CASE UNCHANGED lineReaderVars
  <2>1. written' \in 0..Len(text) /\ textOffset \in 0..written'
    BY <1>4 DEF TextInv, TextTypeOK, lineReaderVars, rawTextVars
  <2> QED
    BY <1>4, <2>1, TextStays DEF lineReaderVars, rawTextVars
<1> QED
  BY <1>1, <1>2, <1>3, <1>4 DEF TextNext

LEMMA TextInvariant == TextSpec => []TextInv
<1> QED
  BY TextBegins, TextStep, PTL DEF TextSpec

\* The variables of readLine() keep their types, whatever the text holds.
THEOREM TextTypeCorrect == TextSpec => []TextTypeOK
<1>1. TextInv => TextTypeOK
  BY DEF TextInv
<1> QED
  BY TextInvariant, <1>1, PTL

\* readLine() (vtextiostream.cpp:31-119) returns the lines of any UTF-8 text in full
\* and in order, however it is written meanwhile, but for the characters it loses.
THEOREM TextKept == TextSpec => []LinesMakeTheText
  BY TextInvariant, InvMakesText, PTL

-----------------------------------------------------------------------------
(* Threads that follow the text *)

\* What a thread does to the stream keeps the invariant, also when it gives up.
LEMMA TailKeepsInv == TextInv /\ [TailNext]_tailVars => TextInv'
<1> SUFFICES ASSUME TextInv, [TailNext]_tailVars PROVE TextInv'
  OBVIOUS
<1>1. ASSUME UNCHANGED lineReaderVars PROVE TextInv'
  BY <1>1, TextStep
<1>2. CASE Appends
  BY <1>2, AppendsStep
<1>3. ASSUME NEW t \in TailThreads, Tails(t) PROVE TextInv'
  <2>1. UNCHANGED <<rawTextVars, includeLineEnding>>
    BY <1>3 DEF Tails
  <2>2. CASE BeginsLine(t)
    <3>1. CallsReadLine \/ UNCHANGED lineVars
      BY <2>2 DEF BeginsLine
    <3> QED
      BY <1>1, <2>1, <3>1, CallsStep DEF lineReaderVars
  <2>3. CASE IsDone(t)
    BY <1>1, <2>1, <2>3 DEF IsDone, lineReaderVars
  <2>4. CASE ReadsOn(t)
    <3>1. TakesPending \/ StartsCodePoint \/ ReturnsAtEnd \/ ThrowsAtEnd \/ ReadsByte \/ GivesUp
      BY <2>4 DEF ReadsOn
    <3> QED
      BY <2>1, <3>1, PendingStep, StartsStep, ReturnsStep, LeavesInPlace, ReadsStep DEF ThrowsAtEnd, GivesUp
  <2>5. CASE DiesOfInvalidText(t)
    BY <2>1, <2>5, OutOfRangeStep DEF DiesOfInvalidText
  <2> QED
    BY <1>3, <2>2, <2>3, <2>4, <2>5 DEF Tails
<1>4. CASE \E t \in TailThreads : CreatesThread(t) \/ StartsThread(t)
  BY <1>1, <1>4 DEF CreatesThread, StartsThread
<1>5. CASE StopsThread
  BY <1>1, <1>5 DEF StopsThread
<1>6. CASE UNCHANGED tailVars
  BY <1>1, <1>6 DEF tailVars
<1> QED
  BY <1>2, <1>3, <1>4, <1>5, <1>6 DEF TailNext

LEMMA TailTypeKept == TailTypeOK /\ [TailNext]_tailVars => TailTypeOK'
<1> SUFFICES ASSUME TailTypeOK, [TailNext]_tailVars PROVE TailTypeOK'
  OBVIOUS
<1>1. ASSUME UNCHANGED runnerVars PROVE TailTypeOK'
  BY <1>1 DEF TailTypeOK, runnerVars
<1>2. ASSUME NEW t \in TailThreads, CreatesThread(t) \/ StartsThread(t) PROVE TailTypeOK'
  BY <1>2 DEF TailTypeOK, CreatesThread, StartsThread
<1>3. CASE StopsThread
  BY <1>3 DEF TailTypeOK, StopsThread
<1>4. ASSUME NEW t \in TailThreads, Tails(t) PROVE TailTypeOK'
  BY <1>4 DEF TailTypeOK, Tails, BeginsLine, IsDone, ReadsOn, DiesOfInvalidText, EndsItself
<1> QED
  BY <1>1, <1>2, <1>3, <1>4 DEF TailNext, tailVars

\* The runner's variables keep their types.
THEOREM TailTypeCorrect == TailSpec => []TailTypeOK
<1>1. TailInit => TailTypeOK
  BY DEF TailInit, RunnerInit, TailTypeOK
<1> QED
  BY <1>1, TailTypeKept, PTL DEF TailSpec

\* The same of the thread that follows a text (vtextstreamtailer.cpp:60-112): it is
\* stopped and started again at any time, within a line or a code point too, and
\* what it was given makes the text, but for the characters readLine() loses.
THEOREM TailKeepsText == TailSpec => []LinesMakeTheText
<1>1. TailInit => TextInv
  BY TextBegins DEF TailInit
<1> QED
  BY <1>1, TailKeepsInv, InvMakesText, PTL DEF TailSpec

=============================================================================
