---------------------------- MODULE VStringProofs ----------------------------
(***************************************************************************)
(* Proofs about strings, for any arguments, any sizes of the buffers and   *)
(* texts of any length: code points are where the bytes say, split() takes *)
(* a text apart without a loss (SplitsHold), replace() makes the           *)
(* replacements it should (AlteredIs), and after any calls the string      *)
(* holds what they say (StringInv).                                        *)
(***************************************************************************)
EXTENDS TextProofs, VString, FiniteSetTheorems

-----------------------------------------------------------------------------
(* Induction up to a number, and functions defined by recursion up to it *)

\* What holds of 0 and of each next number holds of all.
LEMMA UpTo ==
    ASSUME NEW n \in Nat, NEW Good, 0 \in Good, \A k \in 1..n : k - 1 \in Good => k \in Good
    PROVE  \A k \in 0..n : k \in Good
<1> DEFINE Bad == {k \in 0..n : k \notin Good}
<1> SUFFICES ASSUME Bad # {} PROVE FALSE
  OBVIOUS
<1>1. Bad \subseteq Nat
  OBVIOUS
<1>2. PICK k \in Bad : \A m \in Bad : k <= m
  BY <1>1, SomeIsLeast
<1>3. k \in 1..n /\ k - 1 \in 0..n /\ ~ (k <= k - 1)
  OBVIOUS
<1>4. k - 1 \in Good
  BY <1>2, <1>3
<1> QED
  BY <1>3, <1>4

\* What a function is that takes n steps from the base.
Iterates(f, n, S, base, step) ==
    /\ f \in [0..n -> S] /\ f[0] = base
    /\ \A k \in 1..n : f[k] = step[k][f[k - 1]]

\* A step that can always be taken can be taken n times.
LEMMA IterationExists ==
    ASSUME NEW S, NEW n \in Nat, NEW base \in S, NEW step \in [1..n -> [S -> S]]
    PROVE  \E f : Iterates(f, n, S, base, step)
<1> DEFINE Is(m, f) == /\ f \in [0..m -> S] /\ f[0] = base
                       /\ \A k \in 1..m : f[k] = step[k][f[k - 1]]
           Good == {m \in 0..n : \E f : Is(m, f)}
<1>1. 0 \in Good
  <2>1. Is(0, [k \in 0..0 |-> base])
    OBVIOUS
  <2>2. 0 \in 0..n
    OBVIOUS
  <2> HIDE DEF Is
  <2> QED
    BY <2>1, <2>2
<1>2. ASSUME NEW m \in 1..n, m - 1 \in Good PROVE m \in Good
  <2>1. PICK f : Is(m - 1, f)
    BY <1>2
  <2> DEFINE next == step[m][f[m - 1]]
             g == [k \in 0..m |-> IF k < m THEN f[k] ELSE next]
  <2>2. f[m - 1] \in S
    BY <2>1
  <2>3. next \in S
    BY <2>2
  <2> HIDE DEF next
  <2>4. g \in [0..m -> S]
    <3>1. \A k \in 0..m : k < m => k \in 0..(m - 1)
      OBVIOUS
    <3> QED
      BY <2>1, <2>3, <3>1
  <2>5. (\A k \in 0..(m - 1) : g[k] = f[k]) /\ g[m] = next
    OBVIOUS
  <2> HIDE DEF g
  <2>6. g[0] = base
    BY <2>1, <2>5
  <2>7. ASSUME NEW k \in 1..m PROVE g[k] = step[k][g[k - 1]]
    <3>1. CASE k = m
      BY <2>5, <3>1 DEF next
    <3>2. CASE k # m
      <4>1. k \in 1..(m - 1) /\ k \in 0..(m - 1) /\ k - 1 \in 0..(m - 1)
        BY <3>2
      <4>2. f[k] = step[k][f[k - 1]]
        BY <2>1, <4>1
      <4> QED
        BY <2>5, <4>1, <4>2
    <3> QED
      BY <3>1, <3>2
  <2>8. Is(m, g)
    BY <2>4, <2>6, <2>7
  <2>9. m \in 0..n
    OBVIOUS
  <2> HIDE DEF Is
  <2> QED
    BY <2>8, <2>9
<1>3. n \in Good
  <2> HIDE DEF Good
  <2>1. \A k \in 0..n : k \in Good
    BY <1>1, <1>2, UpTo
  <2> QED
    BY <2>1
<1> QED
  BY <1>3 DEF Iterates

\* Any function that takes these steps keeps to their set.
LEMMA IterationStays ==
    ASSUME NEW S, NEW n \in Nat, NEW f, f[0] \in S, \A k \in 1..n : f[k - 1] \in S => f[k] \in S
    PROVE  \A k \in 0..n : f[k] \in S
<1> DEFINE Good == {k \in 0..n : f[k] \in S}
<1>1. 0 \in Good /\ \A k \in 1..n : k - 1 \in Good => k \in Good
  OBVIOUS
<1> HIDE DEF Good
<1>2. \A k \in 0..n : k \in Good
  BY <1>1, UpTo
<1> QED
  BY <1>2 DEF Good

-----------------------------------------------------------------------------
(* Sequences *)

LEMMA PrefixIs ==
    ASSUME NEW S, NEW s \in Seq(S), NEW k \in 0..Len(s)
    PROVE  /\ SubSeq(s, 1, k) \in Seq(S) /\ Len(SubSeq(s, 1, k)) = k
           /\ \A i \in 1..k : SubSeq(s, 1, k)[i] = s[i]
<1> DEFINE z == 0
<1>1. z \in 0..Len(s) /\ z <= k /\ k \in Nat
  BY LenProperties
<1>2. z + 1 = 1 /\ k - z = k /\ \A i \in 1..k : z + i = i
  BY <1>1
<1> HIDE DEF z
<1>3. /\ SubSeq(s, z + 1, k) \in Seq(S) /\ Len(SubSeq(s, z + 1, k)) = k - z
      /\ \A i \in 1..k - z : SubSeq(s, z + 1, k)[i] = s[z + i]
  BY <1>1, PartIs
<1> QED
  BY <1>2, <1>3

\* What comes first in a sequence, and one more.
LEMMA PrefixGrows ==
    ASSUME NEW S, NEW s \in Seq(S), NEW k \in 1..Len(s)
    PROVE  /\ SubSeq(s, 1, k - 1) \in Seq(S) /\ SubSeq(s, 1, k) \in Seq(S)
           /\ SubSeq(s, 1, k) = Append(SubSeq(s, 1, k - 1), s[k])
<1> DEFINE a == SubSeq(s, 1, k - 1)
           b == SubSeq(s, 1, k)
<1>1. Len(s) \in Nat /\ s[k] \in S /\ 0 \in 0..Len(s) /\ k - 1 \in 0..Len(s) /\ k \in 0..Len(s)
  BY LenProperties, ElementOfSeq
<1>2. a \in Seq(S) /\ Len(a) = k - 1 /\ \A i \in 1..k - 1 : a[i] = s[i]
  BY <1>1, PartIs
<1>3. b \in Seq(S) /\ Len(b) = k /\ \A i \in 1..k : b[i] = s[i]
  BY <1>1, PartIs
<1> HIDE DEF a, b
<1>4. /\ Append(a, s[k]) \in Seq(S) /\ Len(Append(a, s[k])) = (k - 1) + 1
      /\ (\A i \in 1..k - 1 : Append(a, s[k])[i] = a[i])
      /\ Append(a, s[k])[(k - 1) + 1] = s[k]
  BY <1>1, <1>2, AppendProperties
<1>5. Len(Append(a, s[k])) = k /\ Append(a, s[k])[k] = s[k]
  BY <1>4
<1>6. ASSUME NEW i \in 1..k PROVE Append(a, s[k])[i] = b[i]
  <2>1. CASE i = k
    BY <1>3, <1>5, <2>1
  <2>2. CASE i # k
    <3>1. i \in 1..k - 1
      BY <1>1, <2>2
    <3> QED
      BY <1>2, <1>3, <1>4, <3>1
  <2> QED
    BY <2>1, <2>2
<1>7. Append(a, s[k]) = b
  BY <1>3, <1>4, <1>5, <1>6, SeqEqual
<1> QED
  BY <1>2, <1>3, <1>7 DEF a, b

AppendsInside(s, t, e) == Append(s \o t, e) = s \o Append(t, e)

LEMMA ConcatAppend ==
    ASSUME NEW S, NEW s \in Seq(S), NEW t \in Seq(S), NEW e \in S
    PROVE  AppendsInside(s, t, e)
  BY DEF AppendsInside

LEMMA PartGrows ==
    ASSUME NEW S, NEW s \in Seq(S), NEW k \in 1..Len(s), NEW i \in 0..k - 1
    PROVE  /\ SubSeq(s, i + 1, k - 1) \in Seq(S)
           /\ SubSeq(s, i + 1, k) = Append(SubSeq(s, i + 1, k - 1), s[k])
<1> DEFINE a == SubSeq(s, i + 1, k - 1)
           b == SubSeq(s, i + 1, k)
           n == (k - 1) - i
<1>1. /\ Len(s) \in Nat /\ s[k] \in S /\ i \in 0..Len(s) /\ k - 1 \in 0..Len(s) /\ k \in 0..Len(s)
      /\ i <= k - 1 /\ i <= k /\ n \in Nat /\ k - i = n + 1 /\ i + (n + 1) = k
  BY LenProperties, ElementOfSeq
<1>2. a \in Seq(S) /\ Len(a) = n /\ \A j \in 1..n : a[j] = s[i + j]
  <2> DEFINE m == k - 1
  <2>1. m \in 0..Len(s) /\ i <= m
    BY <1>1
  <2> HIDE DEF m
  <2>2. /\ SubSeq(s, i + 1, m) \in Seq(S) /\ Len(SubSeq(s, i + 1, m)) = m - i
        /\ \A j \in 1..m - i : SubSeq(s, i + 1, m)[j] = s[i + j]
    BY <1>1, <2>1, PartIs
  <2> QED
    BY <2>2 DEF m
<1>3. b \in Seq(S) /\ Len(b) = n + 1 /\ \A j \in 1..n + 1 : b[j] = s[i + j]
  BY <1>1, PartIs
<1> HIDE DEF a, b, n
<1>4. /\ Append(a, s[k]) \in Seq(S) /\ Len(Append(a, s[k])) = n + 1
      /\ (\A j \in 1..n : Append(a, s[k])[j] = a[j])
      /\ Append(a, s[k])[n + 1] = s[k]
  BY <1>1, <1>2, AppendProperties
<1>5. ASSUME NEW j \in 1..n + 1 PROVE Append(a, s[k])[j] = b[j]
  <2>1. CASE j = n + 1
    BY <1>1, <1>3, <1>4, <2>1
  <2>2. CASE j # n + 1
    <3>1. j \in 1..n
      BY <1>1, <2>2
    <3> QED
      BY <1>2, <1>3, <1>4, <3>1
  <2> QED
    BY <2>1, <2>2
<1>6. Append(a, s[k]) = b
  BY <1>3, <1>4, <1>5, SeqEqual
<1> QED
  BY <1>2, <1>6 DEF a, b

-----------------------------------------------------------------------------
(* Code points *)

\* What a function is that says where the code points start.
AreOffsets(bytes, o) ==
    /\ o \in [0..Len(bytes) -> Nat] /\ o[0] = 0
    /\ \A k \in 1..Len(bytes) :
          o[k] = IF o[k - 1] >= Len(bytes) THEN o[k - 1]
                 ELSE o[k - 1] + CodePointLength(bytes[o[k - 1] + 1])

LEMMA OffsetsAre ==
    ASSUME NEW S, NEW bytes \in Seq(S)
    PROVE  AreOffsets(bytes, CodePointOffsets(bytes))
<1> DEFINE n == Len(bytes)
           e(f, k) == IF k = 0 THEN 0
                      ELSE IF f[k - 1] >= n THEN f[k - 1]
                      ELSE f[k - 1] + CodePointLength(bytes[f[k - 1] + 1])
           step == [k \in 1..n |-> [x \in Nat |->
                       IF x >= n THEN x ELSE x + CodePointLength(bytes[x + 1])]]
           o == CHOOSE f : f = [k \in 0..n |-> e(f, k)]
<1>1. n \in Nat
  BY LenProperties
<1>2. \A b : CodePointLength(b) \in Nat
  BY DEF CodePointLength
<1>3. CodePointOffsets(bytes) = o
  BY DEF CodePointOffsets
<1> HIDE DEF n
<1>4. step \in [1..n -> [Nat -> Nat]]
  BY <1>1, <1>2
<1>5. PICK f : Iterates(f, n, Nat, 0, step)
  <2>1. 0 \in Nat
    OBVIOUS
  <2> HIDE DEF step
  <2> QED
    BY <1>1, <1>4, <2>1, IterationExists
<1>6. f = [k \in 0..n |-> e(f, k)]
  <2>1. ASSUME NEW k \in 0..n PROVE f[k] = e(f, k)
    <3>1. CASE k = 0
      BY <1>5, <3>1 DEF Iterates
    <3>2. CASE k # 0
      <4>1. k \in 1..n /\ k - 1 \in 0..n
        BY <1>1, <3>2
      <4>2. f[k] = step[k][f[k - 1]] /\ f[k - 1] \in Nat
        BY <1>5, <4>1 DEF Iterates
      <4> QED
        BY <3>2, <4>1, <4>2
    <3> QED
      BY <3>1, <3>2
  <2> HIDE DEF e
  <2> QED
    BY <1>5, <2>1 DEF Iterates
<1>7. o = [k \in 0..n |-> e(o, k)]
  <2> HIDE DEF e
  <2> QED
    BY <1>6
<1> HIDE DEF o, step
<1>8. DOMAIN o = 0..n /\ \A k \in 0..n : o[k] = e(o, k)
  <2> HIDE DEF e
  <2> QED
    BY <1>7
<1>9. o[0] = 0 /\ \A k \in 1..n : o[k] = IF o[k - 1] >= n THEN o[k - 1]
                                         ELSE o[k - 1] + CodePointLength(bytes[o[k - 1] + 1])
  BY <1>1, <1>8
<1>10. \A k \in 1..n : o[k - 1] \in Nat => o[k] \in Nat
  BY <1>2, <1>9
<1>11. \A k \in 0..n : o[k] \in Nat
  <2>1. o[0] \in Nat
    BY <1>9
  <2> QED
    BY <1>1, <1>10, <2>1, IterationStays, Zenon
<1>12. o \in [0..n -> Nat]
  <2> HIDE DEF e
  <2> QED
    BY <1>7, <1>11
<1> QED
  BY <1>3, <1>9, <1>12 DEF AreOffsets, n

\* They come one after the other, until the end is reached.
LEMMA OffsetsGrow ==
    ASSUME NEW S, NEW bytes \in Seq(S), NEW o, AreOffsets(bytes, o)
    PROVE  /\ \A k \in 1..Len(bytes) :
                 /\ o[k - 1] <= o[k]
                 /\ o[k - 1] < Len(bytes) => o[k - 1] < o[k] /\ o[k] <= o[k - 1] + 2
                 /\ o[k - 1] >= Len(bytes) => o[k] = o[k - 1]
           /\ \A k \in 0..Len(bytes) : o[k] \in Nat /\ (o[k] >= k \/ o[k] >= Len(bytes))
           /\ o[Len(bytes)] >= Len(bytes)
<1> DEFINE n == Len(bytes)
           Good == {k \in 0..n : o[k] >= k \/ o[k] >= n}
<1>1. n \in Nat
  BY LenProperties
<1>2. o[0] = 0 /\ (\A k \in 0..n : o[k] \in Nat) /\
      \A k \in 1..n : o[k] = IF o[k - 1] >= n THEN o[k - 1]
                             ELSE o[k - 1] + CodePointLength(bytes[o[k - 1] + 1])
  BY DEF AreOffsets
<1>3. \A b : CodePointLength(b) \in {1, 2}
  BY DEF CodePointLength
<1> HIDE DEF n
<1>4. ASSUME NEW k \in 1..n
      PROVE  /\ o[k - 1] <= o[k]
             /\ o[k - 1] < n => o[k - 1] < o[k] /\ o[k] <= o[k - 1] + 2
             /\ o[k - 1] >= n => o[k] = o[k - 1]
  <2>1. k \in 0..n /\ k - 1 \in 0..n
    BY <1>1
  <2>2. o[k] \in Nat /\ o[k - 1] \in Nat
    BY <1>2, <2>1
  <2>3. CASE o[k - 1] >= n
    BY <1>1, <1>2, <2>2, <2>3
  <2>4. CASE ~ (o[k - 1] >= n)
    <3> DEFINE c == CodePointLength(bytes[o[k - 1] + 1])
    <3>1. c \in {1, 2} /\ o[k] = o[k - 1] + c
      BY <1>2, <1>3, <2>4
    <3> HIDE DEF c
    <3> QED
      BY <1>1, <2>2, <2>4, <3>1
  <2> QED
    BY <2>3, <2>4
<1>5. 0 \in Good
  BY <1>1, <1>2
<1>6. ASSUME NEW k \in 1..n, k - 1 \in Good PROVE k \in Good
  <2>1. k \in 0..n /\ k - 1 \in 0..n /\ o[k] \in Nat /\ o[k - 1] \in Nat
    BY <1>1, <1>2
  <2>2. o[k - 1] >= k - 1 \/ o[k - 1] >= n
    BY <1>6
  <2>3. o[k] >= k \/ o[k] >= n
    BY <1>1, <1>4, <2>1, <2>2
  <2> QED
    BY <2>1, <2>3
<1>7. \A k \in 0..n : k \in Good
  <2> HIDE DEF Good
  <2> QED
    BY <1>1, <1>5, <1>6, UpTo
<1>8. o[n] >= n
  BY <1>1, <1>2, <1>7
<1> QED
  BY <1>2, <1>4, <1>7, <1>8 DEF n

\* As many code points are counted as start within the bytes.
LEMMA CountIs ==
    ASSUME NEW S, NEW bytes \in Seq(S)
    PROVE  /\ countUTF8CodePoints(bytes) \in 0..Len(bytes)
           /\ CodePointOffsets(bytes)[countUTF8CodePoints(bytes)] >= Len(bytes)
           /\ \A k \in 0..countUTF8CodePoints(bytes) - 1 : CodePointOffsets(bytes)[k] < Len(bytes)
<1> DEFINE n == Len(bytes)
           o == CodePointOffsets(bytes)
           Past == {k \in 0..n : o[k] >= n}
           Is(c) == o[c] >= n /\ \A k \in 0..c - 1 : o[k] < n
<1>1. AreOffsets(bytes, o)
  BY OffsetsAre
<1>2. n \in Nat /\ o[n] >= n /\ \A k \in 0..n : o[k] \in Nat
  BY <1>1, OffsetsGrow, LenProperties
<1>3. countUTF8CodePoints(bytes) = CHOOSE c \in 0..n : Is(c)
  BY DEF countUTF8CodePoints
<1> HIDE DEF n, o
<1>4. \E c \in 0..n : Is(c)
  <2>1. Past \subseteq Nat /\ Past # {}
    BY <1>2
  <2>2. PICK c \in Past : \A k \in Past : c <= k
    BY <2>1, SomeIsLeast
  <2>3. c \in 0..n /\ c \in Nat /\ o[c] >= n
    BY <1>2
  <2>4. ASSUME NEW k \in 0..c - 1 PROVE o[k] < n
    <3>1. k \in 0..n /\ ~ (c <= k)
      BY <1>2, <2>3
    <3>2. ~ (o[k] >= n)
      BY <2>2, <3>1
    <3> QED
      BY <1>2, <3>1, <3>2
  <2> QED
    BY <2>3, <2>4
<1> DEFINE count == CHOOSE c \in 0..n : Is(c)
<1>5. count \in 0..n /\ Is(count)
  <2> HIDE DEF Is
  <2> QED
    BY <1>4
<1> QED
  BY <1>3, <1>5 DEF n, o

LEMMA CountNone == countUTF8CodePoints(<<>>) = 0
<1>1. <<>> \in Seq({}) /\ Len(<<>>) = 0
  BY EmptySeq
<1>2. countUTF8CodePoints(<<>>) \in 0..0
  BY <1>1, CountIs
<1> QED
  BY <1>2

\* The offsets stay where the end is reached.
LEMMA OffsetsEnd ==
    ASSUME NEW S, NEW bytes \in Seq(S), IsWellFormed(bytes)
    PROVE  CodePointOffsets(bytes)[countUTF8CodePoints(bytes)] = Len(bytes)
<1> DEFINE n == Len(bytes)
           o == CodePointOffsets(bytes)
           c == countUTF8CodePoints(bytes)
           Good == {k \in 0..n : k < c \/ o[k] = o[c]}
<1>1. AreOffsets(bytes, o)
  BY OffsetsAre
<1>2. n \in Nat /\ c \in 0..n /\ o[c] >= n /\ \A k \in 0..n : o[k] \in Nat
  BY <1>1, OffsetsGrow, CountIs, LenProperties
<1>3. \A k \in 1..n : o[k - 1] >= n => o[k] = o[k - 1]
  BY <1>1, OffsetsGrow
<1>4. o[n] = n
  BY DEF IsWellFormed
<1> HIDE DEF n, o, c
<1>5. 0 \in Good
  BY <1>2
<1>6. ASSUME NEW k \in 1..n, k - 1 \in Good PROVE k \in Good
  BY <1>2, <1>3, <1>6
<1>7. \A k \in 0..n : k \in Good
  <2> HIDE DEF Good
  <2> QED
    BY <1>2, <1>5, <1>6, UpTo
<1>8. o[n] = o[c]
  BY <1>2, <1>7
<1> QED
  BY <1>4, <1>8 DEF n, o, c

\* A code point is the bytes from its offset to the next, if it is not cut off.
LEMMA PointsAre ==
    ASSUME NEW S, NEW bytes \in Seq(S)
    PROVE  /\ CodePointsOf(bytes) \in Seq(Seq(S))
           /\ Len(CodePointsOf(bytes)) = countUTF8CodePoints(bytes)
           /\ \A k \in 1..countUTF8CodePoints(bytes) :
                 CodePointOffsets(bytes)[k] <= Len(bytes) =>
                    CodePointsOf(bytes)[k]
                       = SubSeq(bytes, CodePointOffsets(bytes)[k - 1] + 1, CodePointOffsets(bytes)[k])
<1> DEFINE n == Len(bytes)
           o == CodePointOffsets(bytes)
           c == countUTF8CodePoints(bytes)
           e(k) == SubSeq(bytes, o[k - 1] + 1, IF o[k] > n THEN n ELSE o[k])
           points == [k \in 1..c |-> e(k)]
<1>1. AreOffsets(bytes, o)
  BY OffsetsAre
<1>2. /\ n \in Nat /\ c \in 0..n /\ (\A k \in 0..n : o[k] \in Nat)
      /\ \A k \in 1..n : o[k - 1] <= o[k]
      /\ \A k \in 0..c - 1 : o[k] < n
  BY <1>1, OffsetsGrow, CountIs, LenProperties
<1>3. CodePointsOf(bytes) = points
  BY DEF CodePointsOf
<1>4. \A m \in 0..n, k \in 0..n : m <= k => SubSeq(bytes, m + 1, k) \in Seq(S)
  BY PartIs
<1> HIDE DEF n, o, c
<1>5. ASSUME NEW k \in 1..c PROVE e(k) \in Seq(S)
  <2> DEFINE last == IF o[k] > n THEN n ELSE o[k]
  <2>1. k \in 0..n /\ k - 1 \in 0..n /\ k - 1 \in 0..c - 1 /\ k \in 1..n
    BY <1>2
  <2>2. o[k - 1] < n /\ o[k - 1] \in Nat /\ o[k] \in Nat /\ o[k - 1] <= o[k]
    BY <1>2, <2>1
  <2>3. o[k - 1] \in 0..n /\ last \in 0..n /\ o[k - 1] <= last
    BY <1>2, <2>2
  <2> HIDE DEF last
  <2>4. SubSeq(bytes, o[k - 1] + 1, last) \in Seq(S)
    BY <1>4, <2>3
  <2> QED
    BY <2>4 DEF last
<1>6. \A k \in 1..c : o[k] <= n => e(k) = SubSeq(bytes, o[k - 1] + 1, o[k])
  <2>1. ASSUME NEW k \in 1..c, o[k] <= n PROVE ~ (o[k] > n)
    <3>1. k \in 0..n
      BY <1>2
    <3> QED
      BY <1>2, <2>1, <3>1
  <2> QED
    BY <2>1
<1> HIDE DEF e
<1>7. points \in Seq(Seq(S)) /\ Len(points) = c
  <2>1. c \in Nat
    BY <1>2
  <2>2. points \in Seq(Seq(S))
    BY <1>5, <2>1, IsASeq
  <2>3. DOMAIN points = 1..c /\ DOMAIN points = 1..Len(points) /\ Len(points) \in Nat
    BY <2>2, LenProperties
  <2> QED
    BY <2>1, <2>2, <2>3
<1>8. \A k \in 1..c : points[k] = e(k)
  OBVIOUS
<1> HIDE DEF points
<1> QED
  BY <1>3, <1>6, <1>7, <1>8 DEF n, o, c

\* The first code points are the bytes up to the offset of the next.
LEMMA PointsMakeText ==
    ASSUME NEW S, NEW bytes \in Seq(S), NEW m \in 0..countUTF8CodePoints(bytes),
           CodePointOffsets(bytes)[m] <= Len(bytes)
    PROVE  FlattenSeq(SubSeq(CodePointsOf(bytes), 1, m)) = SubSeq(bytes, 1, CodePointOffsets(bytes)[m])
<1> DEFINE n == Len(bytes)
           o == CodePointOffsets(bytes)
           c == countUTF8CodePoints(bytes)
           points == CodePointsOf(bytes)
           Good == {k \in 0..m : FlattenSeq(SubSeq(points, 1, k)) = SubSeq(bytes, 1, o[k])}
<1>1. AreOffsets(bytes, o)
  BY OffsetsAre
<1>2. /\ n \in Nat /\ c \in 0..n /\ o[0] = 0 /\ (\A k \in 0..n : o[k] \in Nat)
      /\ \A k \in 1..n : o[k - 1] <= o[k]
      /\ \A k \in 0..c - 1 : o[k] < n
  BY <1>1, OffsetsGrow, CountIs, LenProperties DEF AreOffsets
<1>3. /\ points \in Seq(Seq(S)) /\ Len(points) = c
      /\ \A k \in 1..c : o[k] <= n => points[k] = SubSeq(bytes, o[k - 1] + 1, o[k])
  BY PointsAre
<1>4. m \in 0..c /\ o[m] <= n
  OBVIOUS
<1> HIDE DEF n, o, c, points
<1>5. 0 \in Good
  <2>1. SubSeq(points, 1, 0) = <<>> /\ SubSeq(bytes, 1, o[0]) = <<>>
    BY <1>2, SubSeqEmpty
  <2>2. 0 \in 0..m
    BY <1>2, <1>4
  <2> QED
    BY <2>1, <2>2, FlattenEmpty
<1>6. ASSUME NEW k \in 1..m, k - 1 \in Good PROVE k \in Good
  <2>1. k \in 1..c /\ k \in 1..n /\ k - 1 \in 0..c - 1 /\ k - 1 \in 0..c /\ k \in 0..m /\ k \in 0..n
    BY <1>2, <1>4
  <2>2. o[k] <= n
    <3>1. CASE k = m
      BY <1>4, <3>1
    <3>2. CASE k # m
      <4>1. k \in 0..c - 1
        BY <1>2, <1>4, <3>2
      <4>2. o[k] < n
        BY <1>2, <4>1
      <4> QED
        BY <1>2, <2>1, <4>2
    <3> QED
      BY <3>1, <3>2
  <2>3. o[k - 1] \in Nat /\ o[k] \in Nat /\ o[k - 1] <= o[k]
    <3>1. k - 1 \in 0..n
      BY <1>2, <2>1
    <3> QED
      BY <1>2, <2>1, <3>1
  <2>4. points[k] = SubSeq(bytes, o[k - 1] + 1, o[k]) /\ points[k] \in Seq(S)
    BY <1>3, <2>1, <2>2, ElementOfSeq
  <2>5. SubSeq(points, 1, k) = Append(SubSeq(points, 1, k - 1), points[k])
        /\ SubSeq(points, 1, k - 1) \in Seq(Seq(S))
    BY <1>3, <2>1, PrefixGrows
  <2>6. FlattenSeq(SubSeq(points, 1, k)) = FlattenSeq(SubSeq(points, 1, k - 1)) \o points[k]
    BY <2>4, <2>5, FlattenAppend
  <2>7. FlattenSeq(SubSeq(points, 1, k - 1)) = SubSeq(bytes, 1, o[k - 1])
    BY <1>6
  <2>8. SubSeq(bytes, 1, o[k - 1]) \o SubSeq(bytes, o[k - 1] + 1, o[k]) = SubSeq(bytes, 1, o[k])
    <3>1. 1 \in 1..n + 1 /\ o[k - 1] \in 1 - 1..n /\ o[k] \in o[k - 1]..n
      BY <1>2, <2>2, <2>3
    <3> HIDE DEF Good
    <3> QED
      BY <3>1, ConcatAdjacentSubSeq DEF n
  <2> QED
    BY <2>1, <2>4, <2>6, <2>7, <2>8
<1>7. \A k \in 0..m : k \in Good
  <2>1. m \in Nat
    BY <1>2, <1>4
  <2> HIDE DEF Good
  <2> QED
    BY <1>5, <1>6, <2>1, UpTo
<1>8. m \in 0..m
  BY <1>2, <1>4
<1> QED
  BY <1>7, <1>8 DEF o, points

-----------------------------------------------------------------------------
(* split() *)

\* A set of numbers up to n has a greatest and a least one.
LEMMA MaxIs ==
    ASSUME NEW n \in Nat, NEW S, S \subseteq 0..n, S # {}
    PROVE  /\ Max(S) \in S /\ \A i \in S : i <= Max(S)
           /\ Min(S) \in S /\ \A i \in S : Min(S) <= i
<1> DEFINE Left == {n - i : i \in S}
<1>1. \E x \in S : \A y \in S : x >= y
  <2>1. Left \subseteq Nat /\ Left # {}
    <3>1. \A i \in S : n - i \in Nat
      OBVIOUS
    <3>2. PICK i \in S : TRUE
      OBVIOUS
    <3> QED
      BY <3>1, <3>2
  <2>2. PICK m \in Left : \A j \in Left : m <= j
    BY <2>1, SomeIsLeast
  <2>3. PICK x \in S : m = n - x
    OBVIOUS
  <2>4. ASSUME NEW y \in S PROVE x >= y
    <3>1. n - x <= n - y /\ x \in 0..n /\ y \in 0..n
      BY <2>2, <2>3
    <3> QED
      BY <3>1
  <2> QED
    BY <2>4
<1>2. \E x \in S : \A y \in S : x <= y
  <2>1. S \subseteq Nat
    OBVIOUS
  <2> QED
    BY <2>1, SomeIsLeast
<1>3. Max(S) \in S /\ \A i \in S : Max(S) >= i
  BY <1>1 DEF Max
<1>4. Min(S) \in S /\ \A i \in S : Min(S) <= i
  BY <1>2 DEF Min
<1> QED
  BY <1>3, <1>4

\* A delimiter n times.
Repeated(delimiter, n) == FlattenSeq([k \in 1..n |-> delimiter])

LEMMA RepeatedIs ==
    ASSUME NEW S, NEW d \in Seq(S)
    PROVE  /\ Repeated(d, 0) = <<>>
           /\ \A n \in Nat : /\ Repeated(d, n) \in Seq(S)
                             /\ Repeated(d, n + 1) = Repeated(d, n) \o d
<1>1. Repeated(d, 0) = <<>>
  <2>1. [k \in 1..0 |-> d] = <<>>
    OBVIOUS
  <2> QED
    BY <2>1, FlattenEmpty DEF Repeated
<1>2. ASSUME NEW n \in Nat
      PROVE  Repeated(d, n) \in Seq(S) /\ Repeated(d, n + 1) = Repeated(d, n) \o d
  <2> DEFINE a == [k \in 1..n |-> d]
             b == [k \in 1..n + 1 |-> d]
  <2>1. a \in Seq(Seq(S)) /\ b \in Seq(Seq(S)) /\ Len(a) = n /\ Len(b) = n + 1
    OBVIOUS
  <2>2. (\A k \in 1..n : a[k] = d) /\ \A k \in 1..n + 1 : b[k] = d
    OBVIOUS
  <2> HIDE DEF a, b
  <2>3. /\ Append(a, d) \in Seq(Seq(S)) /\ Len(Append(a, d)) = n + 1
        /\ (\A k \in 1..n : Append(a, d)[k] = a[k]) /\ Append(a, d)[n + 1] = d
    BY <2>1, AppendProperties
  <2>4. ASSUME NEW k \in 1..n + 1 PROVE Append(a, d)[k] = b[k]
    <3>1. CASE k = n + 1
      BY <2>2, <2>3, <3>1
    <3>2. CASE k # n + 1
      <4>1. k \in 1..n
        BY <3>2
      <4> QED
        BY <2>2, <2>3, <4>1
    <3> QED
      BY <3>1, <3>2
  <2>5. Append(a, d) = b
    BY <2>1, <2>3, <2>4, SeqEqual
  <2>6. FlattenSeq(a) \in Seq(S) /\ FlattenSeq(Append(a, d)) = FlattenSeq(a) \o d
    BY <2>1, FlattenAppend
  <2> QED
    BY <2>5, <2>6 DEF Repeated, a, b
<1> QED
  BY <1>1, <1>2

LEMMA RepeatedOnce ==
    ASSUME NEW S, NEW d \in Seq(S)
    PROVE  Repeated(d, 1) = d
<1>1. Repeated(d, 0) = <<>> /\ Repeated(d, 0 + 1) = Repeated(d, 0) \o d
  BY RepeatedIs
<1>2. <<>> \o d = d /\ 0 + 1 = 1
  BY ConcatEmptySeq
<1> QED
  BY <1>1, <1>2

LEMMA RepeatedLength ==
    ASSUME NEW S, NEW d \in Seq(S), d # <<>>, NEW n \in Nat
    PROVE  Len(Repeated(d, n)) >= n
<1> DEFINE Good == {k \in 0..n : Len(Repeated(d, k)) >= k}
<1>1. Len(d) \in Nat /\ Len(d) >= 1
  BY EmptySeq
<1>2. Repeated(d, 0) = <<>> /\ \A k \in Nat : /\ Repeated(d, k) \in Seq(S)
                                             /\ Repeated(d, k + 1) = Repeated(d, k) \o d
  BY RepeatedIs
<1>3. 0 \in Good
  BY <1>2, EmptySeq
<1>4. ASSUME NEW k \in 1..n, k - 1 \in Good PROVE k \in Good
  <2> DEFINE r == Repeated(d, k - 1)
  <2>1. k - 1 \in Nat /\ (k - 1) + 1 = k /\ k \in 0..n
    OBVIOUS
  <2>2. r \in Seq(S) /\ Repeated(d, k) = r \o d
    BY <1>2, <2>1
  <2>3. Len(r \o d) = Len(r) + Len(d) /\ Len(r) \in Nat
    BY <2>2, ConcatProperties, LenProperties
  <2>4. Len(r) >= k - 1
    BY <1>4
  <2> HIDE DEF r
  <2>5. Len(Repeated(d, k)) >= k
    BY <1>1, <2>2, <2>3, <2>4
  <2> QED
    BY <2>1, <2>5
<1>5. \A k \in 0..n : k \in Good
  <2> HIDE DEF Good
  <2> QED
    BY <1>3, <1>4, UpTo
<1> QED
  BY <1>5

\* The items with a delimiter after each.
Ended(items, d) == IF items = <<>> THEN <<>> ELSE Joined(items, d) \o d

JoinsOn(items, item, d) ==
    /\ Joined(Append(items, item), d) = Ended(items, d) \o item
    /\ Ended(Append(items, item), d) = (Ended(items, d) \o item) \o d

LEMMA JoinedAppend ==
    ASSUME NEW S, NEW items \in Seq(Seq(S)), NEW item \in Seq(S), NEW d \in Seq(S)
    PROVE  /\ Joined(items, d) \in Seq(S) /\ Ended(items, d) \in Seq(S)
           /\ JoinsOn(items, item, d)
<1> DEFINE N == Len(items)
           longer == Append(items, item)
           first == [i \in DOMAIN items |-> IF i = 1 THEN items[i] ELSE d \o items[i]]
           next == IF N = 0 THEN item ELSE d \o item
           both == [i \in DOMAIN longer |-> IF i = 1 THEN longer[i] ELSE d \o longer[i]]
<1>1. N \in Nat /\ DOMAIN items = 1..N /\ \A i \in 1..N : items[i] \in Seq(S)
  BY LenProperties, ElementOfSeq
<1>2. /\ longer \in Seq(Seq(S)) /\ Len(longer) = N + 1 /\ DOMAIN longer = 1..N + 1
      /\ (\A i \in 1..N : longer[i] = items[i]) /\ longer[N + 1] = item
  BY AppendProperties, LenProperties
<1>3. (N = 0 <=> items = <<>>) /\ longer # <<>>
  BY <1>2, EmptySeq
<1>4. Joined(items, d) = FlattenSeq(first) /\ Joined(longer, d) = FlattenSeq(both)
  BY DEF Joined
<1> HIDE DEF N, longer
<1>5. next \in Seq(S)
  BY ConcatProperties
<1>6. first \in Seq(Seq(S)) /\ Len(first) = N
  <2>1. \A i \in 1..N : (IF i = 1 THEN items[i] ELSE d \o items[i]) \in Seq(S)
    BY <1>1, ConcatProperties
  <2> DEFINE e(i) == IF i = 1 THEN items[i] ELSE d \o items[i]
             g == [i \in 1..N |-> e(i)]
  <2>2. first = g /\ \A i \in 1..N : e(i) \in Seq(S)
    BY <1>1, <2>1
  <2> HIDE DEF e, first
  <2>3. g \in Seq(Seq(S))
    BY <1>1, <2>2, IsASeq
  <2>4. DOMAIN g = 1..N /\ DOMAIN g = 1..Len(g) /\ Len(g) \in Nat
    BY <2>3, LenProperties
  <2> QED
    BY <1>1, <2>2, <2>3, <2>4
<1>7. both \in Seq(Seq(S)) /\ Len(both) = N + 1
  <2>1. \A i \in 1..N + 1 : longer[i] \in Seq(S)
    BY <1>2, ElementOfSeq
  <2> DEFINE e(i) == IF i = 1 THEN longer[i] ELSE d \o longer[i]
             g == [i \in 1..N + 1 |-> e(i)]
  <2>2. both = g /\ \A i \in 1..N + 1 : e(i) \in Seq(S)
    BY <1>2, <2>1, ConcatProperties
  <2> HIDE DEF e, both
  <2>3. g \in Seq(Seq(S))
    BY <1>1, <2>2, IsASeq
  <2>4. DOMAIN g = 1..N + 1 /\ DOMAIN g = 1..Len(g) /\ Len(g) \in Nat
    BY <2>3, LenProperties
  <2> QED
    BY <1>1, <2>2, <2>3, <2>4
<1>8. \A i \in 1..N : both[i] = first[i]
  <2>1. \A i \in 1..N : i \in 1..N + 1
    BY <1>1
  <2> QED
    BY <1>1, <1>2, <2>1
<1>9. both[N + 1] = next
  <2>1. N + 1 \in 1..N + 1 /\ (N + 1 = 1 <=> N = 0)
    BY <1>1
  <2> QED
    BY <1>2, <2>1
<1> HIDE DEF first, both, next
<1>10. both = Append(first, next)
  <2>1. /\ Append(first, next) \in Seq(Seq(S)) /\ Len(Append(first, next)) = N + 1
        /\ (\A i \in 1..N : Append(first, next)[i] = first[i]) /\ Append(first, next)[N + 1] = next
    BY <1>5, <1>6, AppendProperties
  <2>2. ASSUME NEW i \in 1..N + 1 PROVE both[i] = Append(first, next)[i]
    <3>1. CASE i = N + 1
      BY <1>9, <2>1, <3>1
    <3>2. CASE i # N + 1
      <4>1. i \in 1..N
        BY <1>1, <3>2
      <4> QED
        BY <1>8, <2>1, <4>1
    <3> QED
      BY <3>1, <3>2
  <2> QED
    BY <1>7, <2>1, <2>2, SeqEqual
<1>11. FlattenSeq(first) \in Seq(S) /\ FlattenSeq(both) = FlattenSeq(first) \o next
  BY <1>5, <1>6, <1>10, FlattenAppend
<1>12. Joined(items, d) \in Seq(S) /\ Ended(items, d) \in Seq(S)
  BY <1>4, <1>11, ConcatProperties, EmptySeq DEF Ended
<1>13. Joined(longer, d) = Ended(items, d) \o item
  <2>1. CASE N = 0
    <3>1. first = <<>> /\ FlattenSeq(first) = <<>>
      BY <1>6, <2>1, EmptySeq, FlattenEmpty
    <3>2. <<>> \o item = item
      BY ConcatEmptySeq
    <3> QED
      BY <1>3, <1>4, <1>11, <2>1, <3>1, <3>2 DEF Ended, next
  <2>2. CASE N # 0
    <3>1. (FlattenSeq(first) \o d) \o item = FlattenSeq(first) \o (d \o item)
      <4> DEFINE f == FlattenSeq(first)
      <4>1. f \in Seq(S)
        BY <1>11
      <4> HIDE DEF f
      <4>2. Associates(f, d, item)
        BY <4>1, ConcatAssociates
      <4> QED
        BY <4>2, Zenon DEF Associates, f
    <3> QED
      BY <1>3, <1>4, <1>11, <2>2, <3>1 DEF Ended, next
  <2> QED
    BY <2>1, <2>2
<1>14. Ended(longer, d) = (Ended(items, d) \o item) \o d
  BY <1>3, <1>13 DEF Ended
<1>15. JoinsOn(items, item, d)
  BY <1>13, <1>14, Zenon DEF JoinsOn, longer
<1> QED
  BY <1>12, <1>15

LEMMA JoinedIn ==
    ASSUME NEW S, NEW items \in Seq(Seq(S)), NEW d \in Seq(S)
    PROVE  Joined(items, d) \in Seq(S) /\ Ended(items, d) \in Seq(S)
<1> DEFINE none == <<>>
<1>1. none \in Seq(S)
  BY EmptySeq
<1> HIDE DEF none
<1> QED
  BY <1>1, JoinedAppend

LEMMA JoinedEmpty ==
    ASSUME NEW S, NEW items \in Seq(Seq(S)), NEW d \in Seq(S)
    PROVE  Joined(Append(items, <<>>), d) = Ended(items, d)
<1> DEFINE none == <<>>
<1>1. none \in Seq(S)
  BY EmptySeq
<1> HIDE DEF none
<1>2. Joined(Append(items, none), d) = Ended(items, d) \o none /\ Ended(items, d) \in Seq(S)
  <2>1. JoinsOn(items, none, d) /\ Ended(items, d) \in Seq(S)
    BY <1>1, JoinedAppend
  <2> QED
    BY <2>1, Zenon DEF JoinsOn
<1>3. Ended(items, d) \o <<>> = Ended(items, d)
  BY <1>2, ConcatEmptySeq
<1> QED
  BY <1>2, <1>3 DEF none

\* Items that are empty add delimiters only.
LEMMA EmptyItemsJoin ==
    ASSUME NEW S, NEW items \in Seq(Seq(S)), NEW d \in Seq(S), NEW kept \in 1..Len(items),
           \A i \in kept + 1..Len(items) : items[i] = <<>>
    PROVE  Joined(items, d) = Joined(SubSeq(items, 1, kept), d) \o Repeated(d, Len(items) - kept)
<1> DEFINE N == Len(items)
           n == N - kept
           head == Joined(SubSeq(items, 1, kept), d)
           joined(k) == Joined(SubSeq(items, 1, k), d)
           r(k) == Repeated(d, k)
           Good == {k \in 0..n : joined(kept + k) = head \o r(k)}
<1>1. N \in Nat /\ kept \in Nat /\ n \in Nat /\ kept >= 1 /\ kept <= N
  BY LenProperties
<1>2. r(0) = <<>> /\ \A k \in Nat : r(k) \in Seq(S) /\ r(k + 1) = r(k) \o d
  BY RepeatedIs
<1>3. \A k \in 1..N : /\ SubSeq(items, 1, k) \in Seq(Seq(S)) /\ SubSeq(items, 1, k - 1) \in Seq(Seq(S))
                       /\ SubSeq(items, 1, k) = Append(SubSeq(items, 1, k - 1), items[k])
  BY PrefixGrows
<1>4. \A k \in kept + 1..N : items[k] = <<>>
  OBVIOUS
<1>5. \A k \in 1..N : joined(k) \in Seq(S)
  BY <1>3, JoinedIn
<1>6. head \in Seq(S) /\ head = joined(kept)
  BY <1>1, <1>5
<1>7. 0 \in Good
  <2>1. head \o r(0) = head /\ kept + 0 = kept /\ 0 \in 0..n
    <3> HIDE DEF head, r, n
    <3>1. head \o <<>> = head
      BY <1>6, ConcatEmptySeq
    <3>2. r(0) = <<>>
      BY <1>2
    <3>3. kept + 0 = kept /\ 0 \in 0..n
      BY <1>1
    <3> QED
      BY <3>1, <3>2, <3>3
  <2>2. joined(kept + 0) = head \o r(0)
    BY <1>6, <2>1
  <2> HIDE DEF head, joined, r, n
  <2> QED
    BY <2>1, <2>2
<1>8. \A k \in kept + 1..N : joined(k) = joined(k - 1) \o d
  <2> TAKE k \in kept + 1..N
  <2> DEFINE before == SubSeq(items, 1, k - 1)
  <2>1. k \in 1..N /\ k - 1 \in 1..N /\ k - 1 \in 0..N
    BY <1>1
  <2>2. before \in Seq(Seq(S)) /\ SubSeq(items, 1, k) = Append(before, <<>>) /\ <<>> \in Seq(S)
    BY <1>3, <1>4, <2>1, EmptySeq
  <2>3. before # <<>>
    <3>1. Len(before) = k - 1
      BY <2>1, <1>1, PartIs
    <3>2. Len(<<>>) = 0 /\ k - 1 # 0
      BY <2>1, EmptySeq
    <3> QED
      BY <3>1, <3>2
  <2>4. joined(k - 1) \in Seq(S)
    BY <1>5, <2>1
  <2> HIDE DEF before, N
  <2>5. Joined(Append(before, <<>>), d) = Ended(before, d)
    BY <2>2, JoinedEmpty
  <2> QED
    BY <2>2, <2>3, <2>5 DEF Ended, before
<1> HIDE DEF N, n, head, joined, r
<1>9. ASSUME NEW k \in 1..n, k - 1 \in Good PROVE k \in Good
  <2>1. /\ k \in 0..n /\ kept + k \in kept + 1..N /\ (kept + k) - 1 = kept + (k - 1)
        /\ k - 1 \in Nat /\ (k - 1) + 1 = k
    BY <1>1 DEF n
  <2>2. joined(kept + k) = joined(kept + (k - 1)) \o d
    BY <1>8, <2>1
  <2>3. joined(kept + (k - 1)) = head \o r(k - 1)
    BY <1>9
  <2>4. r(k) = r(k - 1) \o d /\ r(k - 1) \in Seq(S)
    BY <1>2, <2>1
  <2>5. (head \o r(k - 1)) \o d = head \o (r(k - 1) \o d)
    <3> DEFINE t == r(k - 1)
    <3>1. t \in Seq(S)
      BY <2>4
    <3> HIDE DEF t
    <3>2. Associates(head, t, d)
      BY <1>6, <3>1, ConcatAssociates
    <3> QED
      BY <3>2, Zenon DEF Associates, t
  <2> QED
    BY <2>1, <2>2, <2>3, <2>4, <2>5
<1>10. \A k \in 0..n : k \in Good
  <2> HIDE DEF Good
  <2> QED
    BY <1>1, <1>7, <1>9, UpTo
<1>11. joined(N) = head \o r(n)
  <2>1. n \in 0..n /\ kept + n = N
    BY <1>1 DEF n
  <2> QED
    BY <1>10, <2>1
<1>12. SubSeq(items, 1, N) = items
  BY SubSeqFull DEF N
<1> QED
  BY <1>11, <1>12 DEF joined, head, r, n, N

\* A list with as many items as the limit leaves room for before the last.
IsFull(items, limit) == limit >= 2 /\ Len(items) = limit - 1

\* The state of split() after each code point.
Splits(points, d, limit, w) ==
    /\ w[0] = [items |-> <<>>, item |-> <<>>]
    /\ \A k \in 1..Len(points) :
          w[k] = IF points[k] # d \/ IsFull(w[k - 1].items, limit)
                 THEN [items |-> w[k - 1].items, item |-> w[k - 1].item \o points[k]]
                 ELSE [items |-> Append(w[k - 1].items, w[k - 1].item), item |-> <<>>]

ItemsAfter(all, limit) ==
    IF all.item = <<>> /\ ~ IsFull(all.items, limit) THEN all.items ELSE Append(all.items, all.item)
KeptOf(items) == Max({0} \cup {i \in DOMAIN items : items[i] # <<>>})

LEMMA SplitIs ==
    ASSUME NEW S, NEW bytes \in Seq(S), NEW d \in Seq(S), NEW limit \in Nat, NEW strip \in BOOLEAN
    PROVE  \E w : /\ Splits(CodePointsOf(bytes), d, limit, w)
                  /\ Split(bytes, d, limit, strip) =
                        LET items == ItemsAfter(w[Len(CodePointsOf(bytes))], limit)
                        IN  IF strip THEN [items |-> SubSeq(items, 1, KeptOf(items)), before |-> KeptOf(items) = 0]
                            ELSE [items |-> items, before |-> FALSE]
<1> DEFINE points == CodePointsOf(bytes)
           N == Len(points)
           States == [items : Seq(Seq(S)), item : Seq(S)]
           start == [items |-> <<>>, item |-> <<>>]
           next(x, k) == IF points[k] # d \/ IsFull(x.items, limit)
                         THEN [items |-> x.items, item |-> x.item \o points[k]]
                         ELSE [items |-> Append(x.items, x.item), item |-> <<>>]
           e(f, k) == IF k = 0 THEN start ELSE next(f[k - 1], k)
           step == [k \in 1..N |-> [x \in States |-> next(x, k)]]
           w == CHOOSE f : f = [k \in 0..N |-> e(f, k)]
           result(all) ==
               LET items == ItemsAfter(all, limit)
               IN  IF strip THEN [items |-> SubSeq(items, 1, KeptOf(items)), before |-> KeptOf(items) = 0]
                   ELSE [items |-> items, before |-> FALSE]
<1>1. Split(bytes, d, limit, strip) = result(w[N])
  BY Zenon DEF Split, ItemsAfter, IsFull, KeptOf
<1>2. points \in Seq(Seq(S)) /\ N \in Nat /\ \A k \in 1..N : points[k] \in Seq(S)
  BY PointsAre, LenProperties, ElementOfSeq
<1> HIDE DEF points, N
<1>3. start \in States
  BY EmptySeq
<1>4. ASSUME NEW k \in 1..N, NEW x \in States PROVE next(x, k) \in States
  <2>1. x.items \in Seq(Seq(S)) /\ x.item \in Seq(S) /\ points[k] \in Seq(S)
    BY <1>2
  <2>2. /\ x.item \o points[k] \in Seq(S) /\ <<>> \in Seq(S)
        /\ Append(x.items, x.item) \in Seq(Seq(S))
    BY <2>1, ConcatProperties, EmptySeq, AppendProperties
  <2> QED
    BY <2>1, <2>2
<1> HIDE DEF next, start, States
<1>5. step \in [1..N -> [States -> States]]
  BY <1>4
<1>6. PICK f : Iterates(f, N, States, start, step)
  <2> HIDE DEF step
  <2> QED
    BY <1>2, <1>3, <1>5, IterationExists
<1>7. f = [k \in 0..N |-> e(f, k)]
  <2>1. ASSUME NEW k \in 0..N PROVE f[k] = e(f, k)
    <3>1. CASE k = 0
      BY <1>6, <3>1 DEF Iterates
    <3>2. CASE k # 0
      <4>1. k \in 1..N /\ k - 1 \in 0..N
        BY <1>2, <3>2
      <4>2. f[k] = step[k][f[k - 1]] /\ f[k - 1] \in States
        BY <1>6, <4>1 DEF Iterates
      <4> QED
        BY <3>2, <4>1, <4>2
    <3> QED
      BY <3>1, <3>2
  <2> HIDE DEF e
  <2> QED
    BY <1>6, <2>1 DEF Iterates
<1>8. w = [k \in 0..N |-> e(w, k)]
  <2> HIDE DEF e
  <2> QED
    BY <1>7
<1> HIDE DEF w
<1>9. \A k \in 0..N : w[k] = e(w, k)
  <2> HIDE DEF e
  <2> QED
    BY <1>8
<1>10. w[0] = start
  BY <1>2, <1>9
<1>11. \A k \in 1..N : w[k] = next(w[k - 1], k)
  BY <1>2, <1>9
<1>12. Splits(points, d, limit, w)
  BY <1>10, <1>11 DEF Splits, start, next, N
<1> QED
  BY <1>1, <1>12 DEF N, points

\* After k code points the items, each with its delimiter, and the bytes since are
\* the text so far.
\* The items and the one under way make the code points read so far.
MakesPoints(all, d, points) == Ended(all.items, d) \o all.item = FlattenSeq(points)

LEMMA SplitWalks ==
    ASSUME NEW S, NEW points \in Seq(Seq(S)), NEW d \in Seq(S), NEW limit \in Nat, NEW w,
           Splits(points, d, limit, w)
    PROVE  LET all == w[Len(points)]
           IN  /\ all.items \in Seq(Seq(S)) /\ all.item \in Seq(S)
               /\ limit >= 2 => Len(all.items) <= limit - 1
               /\ MakesPoints(all, d, points)
<1> DEFINE N == Len(points)
           Right(k) == /\ w[k].items \in Seq(Seq(S)) /\ w[k].item \in Seq(S)
                       /\ limit >= 2 => Len(w[k].items) <= limit - 1
                       /\ Ended(w[k].items, d) \o w[k].item = FlattenSeq(SubSeq(points, 1, k))
           Good == {k \in 0..N : Right(k)}
<1>1. N \in Nat /\ \A k \in 1..N : points[k] \in Seq(S)
  BY LenProperties, ElementOfSeq
<1>2. Right(0)
  <2>1. w[0].items = <<>> /\ w[0].item = <<>>
    BY DEF Splits
  <2>2. <<>> \in Seq(Seq(S)) /\ <<>> \in Seq(S) /\ Len(<<>>) = 0 /\ <<>> \o <<>> = <<>>
    BY EmptySeq, ConcatEmptySeq
  <2>3. SubSeq(points, 1, 0) = <<>>
    BY SubSeqEmpty
  <2>4. limit >= 2 => 0 <= limit - 1
    OBVIOUS
  <2>5. Ended(<<>>, d) = <<>> /\ FlattenSeq(<<>>) = <<>>
    BY FlattenEmpty DEF Ended
  <2> QED
    BY <2>1, <2>2, <2>3, <2>4, <2>5
<1>3. ASSUME NEW k \in 1..N, Right(k - 1) PROVE Right(k)
  <2> DEFINE items == w[k - 1].items
             item == w[k - 1].item
             point == points[k]
  <2>1. /\ items \in Seq(Seq(S)) /\ item \in Seq(S) /\ point \in Seq(S)
        /\ limit >= 2 => Len(items) <= limit - 1
        /\ Ended(items, d) \o item = FlattenSeq(SubSeq(points, 1, k - 1))
    BY <1>1, <1>3
  <2>2. FlattenSeq(SubSeq(points, 1, k)) = FlattenSeq(SubSeq(points, 1, k - 1)) \o point
    <3>1. /\ SubSeq(points, 1, k - 1) \in Seq(Seq(S))
          /\ SubSeq(points, 1, k) = Append(SubSeq(points, 1, k - 1), point)
      BY PrefixGrows
    <3> QED
      BY <2>1, <3>1, FlattenAppend
  <2>3. w[k] = IF point # d \/ IsFull(items, limit) THEN [items |-> items, item |-> item \o point]
               ELSE [items |-> Append(items, item), item |-> <<>>]
    BY DEF Splits
  <2>4. Len(items) \in Nat
    BY <2>1, LenProperties
  <2> HIDE DEF items, item, point, N
  <2>5. CASE point # d \/ IsFull(items, limit)
    <3>1. w[k].items = items /\ w[k].item = item \o point
      BY <2>3, <2>5
    <3>2. item \o point \in Seq(S) /\ Ended(items, d) \in Seq(S)
      BY <2>1, ConcatProperties, JoinedIn
    <3>3. (Ended(items, d) \o item) \o point = Ended(items, d) \o (item \o point)
      <4> DEFINE t == Ended(items, d)
      <4>1. t \in Seq(S) /\ item \in Seq(S) /\ point \in Seq(S)
        BY <2>1, <3>2
      <4> HIDE DEF t
      <4>2. Associates(t, item, point)
        BY <4>1, ConcatAssociates
      <4> QED
        BY <4>2, Zenon DEF Associates, t
    <3> QED
      BY <2>1, <2>2, <3>1, <3>2, <3>3
  <2>6. CASE ~ (point # d \/ IsFull(items, limit))
    <3>1. w[k].items = Append(items, item) /\ w[k].item = <<>> /\ point = d
      BY <2>3, <2>6
    <3>2. /\ Append(items, item) \in Seq(Seq(S)) /\ Len(Append(items, item)) = Len(items) + 1
          /\ <<>> \in Seq(S)
      BY <2>1, AppendProperties, EmptySeq
    <3>3. /\ Ended(Append(items, item), d) = (Ended(items, d) \o item) \o d
          /\ Ended(items, d) \in Seq(S)
      <4>1. items \in Seq(Seq(S)) /\ item \in Seq(S)
        BY <2>1
      <4>2. JoinsOn(items, item, d) /\ Ended(items, d) \in Seq(S)
        BY <4>1, JoinedAppend
      <4> QED
        BY <4>2, Zenon DEF JoinsOn
    <3>4. Ended(items, d) \o item \in Seq(S) /\ (Ended(items, d) \o item) \o d \in Seq(S)
      BY <2>1, <3>3, ConcatProperties
    <3>5. ((Ended(items, d) \o item) \o d) \o <<>> = (Ended(items, d) \o item) \o d
      BY <3>4, ConcatEmptySeq
    <3>6. limit >= 2 => Len(items) + 1 <= limit - 1
      <4>1. limit >= 2 => Len(items) # limit - 1
        BY <2>6 DEF IsFull
      <4> QED
        BY <2>1, <2>4, <4>1
    <3> QED
      BY <2>1, <2>2, <3>1, <3>2, <3>3, <3>5, <3>6
  <2> QED
    BY <2>5, <2>6
<1>4. \A k \in 0..N : k \in Good
  <2> HIDE DEF Right
  <2>1. 0 \in Good /\ \A k \in 1..N : k - 1 \in Good => k \in Good
    BY <1>1, <1>2, <1>3
  <2> HIDE DEF Good
  <2> QED
    BY <1>1, <2>1, UpTo
<1>5. Right(N)
  <2> HIDE DEF Right
  <2> QED
    BY <1>1, <1>4
<1>6. SubSeq(points, 1, N) = points
  BY SubSeqFull
<1>7. MakesPoints(w[N], d, points)
  BY <1>5, <1>6 DEF MakesPoints
<1> QED
  BY <1>5, <1>7

\* The items of any text that is not cut off, and the delimiters between them, are
\* the text, but for items at the end that are empty.
PartsMakeText(bytes, d, strip, parts) ==
    \/ parts.before
    \/ \E n \in 0..Len(bytes) :
          (~ strip => n <= 1) /\ Joined(parts.items, d) \o Repeated(d, n) = bytes

LEMMA ItemsMakeText ==
    ASSUME NEW S, NEW bytes \in Seq(S), IsWellFormed(bytes), NEW d \in Seq(S), d # <<>>, NEW limit \in Nat,
           NEW w, Splits(CodePointsOf(bytes), d, limit, w)
    PROVE  LET items == ItemsAfter(w[Len(CodePointsOf(bytes))], limit)
           IN  /\ items \in Seq(Seq(S))
               /\ limit >= 2 => Len(items) <= limit
               /\ \E n \in {0, 1} : Joined(items, d) \o Repeated(d, n) = bytes
<1> DEFINE points == CodePointsOf(bytes)
           all == w[Len(points)]
           items == ItemsAfter(all, limit)
<1>1. points \in Seq(Seq(S))
  BY PointsAre
<1>2. /\ all.items \in Seq(Seq(S)) /\ all.item \in Seq(S)
      /\ limit >= 2 => Len(all.items) <= limit - 1
      /\ Ended(all.items, d) \o all.item = FlattenSeq(points)
  <2>1. /\ all.items \in Seq(Seq(S)) /\ all.item \in Seq(S)
        /\ limit >= 2 => Len(all.items) <= limit - 1
        /\ MakesPoints(all, d, points)
    BY <1>1, SplitWalks
  <2> QED
    BY <2>1, Zenon DEF MakesPoints
<1>3. FlattenSeq(points) = bytes
  <2> DEFINE c == countUTF8CodePoints(bytes)
             o == CodePointOffsets(bytes)
  <2>1. o[c] = Len(bytes) /\ c \in 0..c /\ o[c] <= Len(bytes)
    <3>1. c \in Nat /\ Len(bytes) \in Nat
      BY CountIs, LenProperties
    <3> QED
      BY <3>1, OffsetsEnd
  <2>2. FlattenSeq(SubSeq(points, 1, c)) = SubSeq(bytes, 1, o[c])
    BY <2>1, PointsMakeText
  <2>3. SubSeq(points, 1, Len(points)) = points /\ Len(points) = c /\ SubSeq(bytes, 1, Len(bytes)) = bytes
    BY <1>1, PointsAre, SubSeqFull
  <2> QED
    BY <2>1, <2>2, <2>3
<1>4. Repeated(d, 0) = <<>> /\ Repeated(d, 1) = d
  BY RepeatedIs, RepeatedOnce
<1> DEFINE its == all.items
           last == all.item
<1>5. Len(its) \in Nat /\ Ended(its, d) \in Seq(S) /\ Joined(its, d) \in Seq(S)
  BY <1>2, LenProperties, JoinedIn
<1>6. items = IF last = <<>> /\ ~ IsFull(its, limit) THEN its ELSE Append(its, last)
  BY DEF ItemsAfter
<1>7. its \in Seq(Seq(S)) /\ last \in Seq(S) /\ (limit >= 2 => Len(its) <= limit - 1)
      /\ Ended(its, d) \o last = bytes
  BY <1>2, <1>3
<1> HIDE DEF points, all, items, its, last
<1>8. ASSUME last = <<>> /\ ~ IsFull(its, limit)
      PROVE  /\ items \in Seq(Seq(S)) /\ (limit >= 2 => Len(items) <= limit)
             /\ \E n \in {0, 1} : Joined(items, d) \o Repeated(d, n) = bytes
  <2>1. items = its /\ Ended(its, d) = bytes
    <3>1. Ended(its, d) \o <<>> = Ended(its, d)
      BY <1>5, ConcatEmptySeq
    <3> QED
      BY <1>6, <1>7, <1>8, <3>1
  <2>2. limit >= 2 => Len(its) <= limit
    BY <1>5, <1>7
  <2>3. CASE its = <<>>
    <3>1. Joined(its, d) = <<>> /\ bytes = <<>>
      <4>1. [i \in DOMAIN its |-> IF i = 1 THEN its[i] ELSE d \o its[i]] = <<>>
        BY <2>3
      <4> QED
        BY <2>1, <2>3, <4>1, FlattenEmpty DEF Joined, Ended
    <3>2. <<>> \o <<>> = <<>>
      BY EmptySeq, ConcatEmptySeq
    <3>3. Joined(items, d) \o Repeated(d, 0) = bytes
      BY <1>4, <2>1, <3>1, <3>2
    <3> QED
      BY <1>7, <2>1, <2>2, <3>3
  <2>4. CASE its # <<>>
    <3>1. Joined(items, d) \o Repeated(d, 1) = bytes
      BY <1>4, <2>1, <2>4 DEF Ended
    <3> QED
      BY <1>7, <2>1, <2>2, <3>1
  <2> QED
    BY <2>3, <2>4
<1>9. ASSUME ~ (last = <<>> /\ ~ IsFull(its, limit))
      PROVE  /\ items \in Seq(Seq(S)) /\ (limit >= 2 => Len(items) <= limit)
             /\ \E n \in {0, 1} : Joined(items, d) \o Repeated(d, n) = bytes
  <2>1. items = Append(its, last)
    BY <1>6, <1>9
  <2>2. items \in Seq(Seq(S)) /\ Len(items) = Len(its) + 1
    BY <1>7, <2>1, AppendProperties
  <2>3. limit >= 2 => Len(items) <= limit
    BY <1>5, <1>7, <2>2
  <2>4. Joined(items, d) = bytes
    <3>1. its \in Seq(Seq(S)) /\ last \in Seq(S)
      BY <1>7
    <3>2. Joined(Append(its, last), d) = Ended(its, d) \o last
      <4>1. JoinsOn(its, last, d)
        BY <3>1, JoinedAppend
      <4> QED
        BY <4>1, Zenon DEF JoinsOn
    <3> QED
      BY <1>7, <2>1, <3>2
  <2>5. Joined(items, d) \o Repeated(d, 0) = bytes
    BY <1>4, <2>4, ConcatEmptySeq
  <2> QED
    BY <2>2, <2>3, <2>5
<1> QED
  BY <1>8, <1>9 DEF items, all, points

LEMMA SplitMakesText ==
    ASSUME NEW S, NEW bytes \in Seq(S), IsWellFormed(bytes), NEW d \in Seq(S), d # <<>>, NEW limit \in Nat,
           NEW strip \in BOOLEAN
    PROVE  LET parts == Split(bytes, d, limit, strip)
           IN  /\ limit >= 2 => Len(parts.items) <= limit
               /\ PartsMakeText(bytes, d, strip, parts)
<1> DEFINE parts == Split(bytes, d, limit, strip)
<1>1. PICK w : /\ Splits(CodePointsOf(bytes), d, limit, w)
               /\ parts = LET items == ItemsAfter(w[Len(CodePointsOf(bytes))], limit)
                          IN  IF strip THEN [items |-> SubSeq(items, 1, KeptOf(items)), before |-> KeptOf(items) = 0]
                              ELSE [items |-> items, before |-> FALSE]
  BY SplitIs
<1> DEFINE items == ItemsAfter(w[Len(CodePointsOf(bytes))], limit)
           kept == KeptOf(items)
<1>2. /\ items \in Seq(Seq(S)) /\ (limit >= 2 => Len(items) <= limit)
      /\ \E n \in {0, 1} : Joined(items, d) \o Repeated(d, n) = bytes
  BY <1>1, ItemsMakeText
<1>3. parts = IF strip THEN [items |-> SubSeq(items, 1, kept), before |-> kept = 0]
              ELSE [items |-> items, before |-> FALSE]
  BY <1>1
<1> HIDE DEF parts, items
<1>4. Len(items) \in Nat /\ DOMAIN items = 1..Len(items) /\ Len(bytes) \in Nat
  BY <1>2, LenProperties
<1>5. PICK n \in {0, 1} : Joined(items, d) \o Repeated(d, n) = bytes
  BY <1>2
<1>6. Joined(items, d) \in Seq(S)
  BY <1>2, JoinedIn
<1>7. \A m \in Nat : Repeated(d, m) \in Seq(S) /\ Repeated(d, m + 1) = Repeated(d, m) \o d
  BY RepeatedIs
\* Delimiters that are in the text are no more than its bytes.
<1>8. ASSUME NEW s \in Seq(S), NEW m \in Nat, s \o Repeated(d, m) = bytes PROVE m \in 0..Len(bytes)
  <2> DEFINE r == Repeated(d, m)
  <2>1. r \in Seq(S) /\ Len(r) >= m
    BY <1>7, RepeatedLength
  <2>2. s \o r = bytes
    BY <1>8
  <2> HIDE DEF r
  <2>3. Len(s \o r) = Len(s) + Len(r) /\ Len(s) \in Nat /\ Len(r) \in Nat
    BY <2>1, ConcatProperties, LenProperties
  <2> QED
    BY <1>4, <2>1, <2>2, <2>3
<1>9. ASSUME ~ strip
      PROVE  (limit >= 2 => Len(parts.items) <= limit) /\ PartsMakeText(bytes, d, strip, parts)
  <2>1. parts.items = items
    BY <1>3, <1>9
  <2>2. n \in Nat /\ n <= 1
    OBVIOUS
  <2>3. n \in 0..Len(bytes)
    BY <1>5, <1>6, <1>8, <2>2
  <2> QED
    BY <1>2, <1>5, <2>1, <2>2, <2>3 DEF PartsMakeText
<1>10. ASSUME strip
       PROVE  (limit >= 2 => Len(parts.items) <= limit) /\ PartsMakeText(bytes, d, strip, parts)
  <2> DEFINE Solid == {0} \cup {i \in DOMAIN items : items[i] # <<>>}
             head == SubSeq(items, 1, kept)
  <2>1. kept = Max(Solid)
    BY DEF KeptOf
  <2>2. Solid \subseteq 0..Len(items) /\ Solid # {}
    BY <1>4
  <2>3. kept \in Solid /\ \A i \in Solid : i <= kept
    <3> HIDE DEF kept, Solid
    <3>1. Max(Solid) \in Solid /\ \A i \in Solid : i <= Max(Solid)
      BY <1>4, <2>2, MaxIs
    <3> QED
      BY <2>1, <3>1
  <2>4. kept \in 0..Len(items)
    BY <2>2, <2>3
  <2>5. \A i \in kept + 1..Len(items) : items[i] = <<>>
    <3> SUFFICES ASSUME NEW i \in kept + 1..Len(items), items[i] # <<>> PROVE FALSE
      OBVIOUS
    <3>1. i \in 1..Len(items) /\ ~ (i <= kept)
      BY <1>4, <2>4
    <3>2. i \in Solid
      BY <1>4, <3>1
    <3> QED
      BY <2>3, <3>1, <3>2
  <2> HIDE DEF kept, Solid
  <2>6. parts.items = head /\ parts.before = (kept = 0)
    BY <1>3, <1>10
  <2>7. Len(head) = kept
    BY <1>2, <1>4, <2>4, PrefixIs
  <2>8. limit >= 2 => Len(parts.items) <= limit
    BY <1>2, <1>4, <2>4, <2>6, <2>7
  <2>9. ASSUME kept # 0 PROVE \E m \in 0..Len(bytes) : Joined(head, d) \o Repeated(d, m) = bytes
    <3> DEFINE m == (Len(items) - kept) + n
               left == Len(items) - kept
               j == Joined(head, d)
    <3>1. kept \in 1..Len(items) /\ left \in Nat
      BY <1>4, <2>4, <2>9
    <3>2. Joined(items, d) = j \o Repeated(d, left)
      BY <1>2, <2>5, <3>1, EmptyItemsJoin
    <3>3. j \in Seq(S)
      <4>1. head \in Seq(Seq(S))
        BY <1>2, <1>4, <2>4, PrefixIs
      <4> HIDE DEF head
      <4> QED
        BY <4>1, JoinedIn
    <3>4. Repeated(d, left) \in Seq(S) /\ Repeated(d, left + 1) = Repeated(d, left) \o d
      BY <1>7, <3>1
    <3> HIDE DEF left, j
    <3>5. j \o Repeated(d, m) = bytes
      <4> DEFINE r == Repeated(d, left)
      <4>1. r \in Seq(S) /\ Repeated(d, left + 1) = r \o d /\ Joined(items, d) = j \o r
        BY <3>2, <3>4
      <4>2. j \o r \in Seq(S)
        BY <3>3, <4>1, ConcatProperties
      <4> HIDE DEF r
      <4>3. CASE n = 0
        <5>1. m = left /\ Repeated(d, 0) = <<>> /\ (j \o r) \o <<>> = j \o r
          BY <3>1, <4>2, <4>3, RepeatedIs, ConcatEmptySeq DEF left
        <5> QED
          BY <1>5, <4>1, <4>3, <5>1 DEF r
      <4>4. CASE n = 1
        <5>1. m = left + 1
          BY <4>4 DEF left
        <5>2. Repeated(d, 1) = d
          BY RepeatedOnce
        <5>3. (j \o r) \o d = j \o (r \o d)
          <6>1. Associates(j, r, d)
            BY <3>3, <4>1, ConcatAssociates
          <6> QED
            BY <6>1, Zenon DEF Associates
        <5> QED
          BY <1>5, <4>1, <4>4, <5>1, <5>2, <5>3
      <4> QED
        BY <4>3, <4>4
    <3>6. m \in Nat
      BY <3>1 DEF left
    <3> HIDE DEF m
    <3>7. m \in 0..Len(bytes)
      BY <1>8, <3>3, <3>5, <3>6
    <3> QED
      BY <3>5, <3>7 DEF j
  <2> QED
    BY <1>10, <2>6, <2>8, <2>9 DEF PartsMakeText
<1> QED
  BY <1>9, <1>10 DEF parts

LEMMA SplitsHold == intended \in Seq(StringBytes) => SplitsAreParts
<1> SUFFICES ASSUME intended \in Seq(StringBytes), IsWellFormed(intended),
                    NEW delimiter \in {<<"a">>, <<"C2", "80">>}, NEW limit \in 0..3, NEW strip \in BOOLEAN
             PROVE  LET parts == Split(intended, delimiter, limit, strip)
                        joined == Joined(parts.items, delimiter)
                    IN  /\ limit >= 2 => Len(parts.items) <= limit
                        /\ \/ parts.before
                           \/ \E n \in 0..Len(intended) :
                                 /\ ~ strip => n <= 1
                                 /\ joined \o FlattenSeq([k \in 1..n |-> delimiter]) = intended
  BY Zenon DEF SplitsAreParts
<1>1. delimiter \in Seq(StringBytes) /\ delimiter # <<>>
  <2>1. CASE delimiter = <<"a">>
    <3>1. <<"a">> \in Seq(StringBytes) /\ Len(<<"a">>) = 1 /\ Len(<<>>) = 0
      BY DEF StringBytes
    <3> QED
      BY <2>1, <3>1
  <2>2. CASE delimiter = <<"C2", "80">>
    <3>1. <<"C2", "80">> \in Seq(StringBytes) /\ Len(<<"C2", "80">>) = 2 /\ Len(<<>>) = 0
      BY DEF StringBytes
    <3> QED
      BY <2>2, <3>1
  <2> QED
    BY <2>1, <2>2
<1>2. limit \in Nat
  OBVIOUS
<1> DEFINE parts == Split(intended, delimiter, limit, strip)
<1>3. (limit >= 2 => Len(parts.items) <= limit) /\ PartsMakeText(intended, delimiter, strip, parts)
  BY <1>1, <1>2, SplitMakesText
<1> QED
  BY <1>3, Zenon DEF PartsMakeText, Repeated

-----------------------------------------------------------------------------
(* replace() *)

\* s is found at the offset.
Matches(bytes, s, offset) ==
    offset + Len(s) <= Len(bytes) /\ SubSeq(bytes, offset + 1, offset + Len(s)) = s

\* indexOf() gives the first offset where s is found, if there is one.
IsIndex(bytes, s, from, index) ==
    \/ index = -1 /\ \A q \in Nat : q >= from => ~ Matches(bytes, s, q)
    \/ /\ index \in Nat /\ index >= from /\ Matches(bytes, s, index)
       /\ \A q \in Nat : q >= from /\ q < index => ~ Matches(bytes, s, q)

LEMMA IndexIs ==
    ASSUME NEW S, NEW bytes \in Seq(S), NEW s \in Seq(S), s # <<>>, NEW from \in Nat
    PROVE  IsIndex(bytes, s, from, indexOf(bytes, s, from))
<1> DEFINE L == Len(bytes)
           found == {i \in from..L - 1 : regionMatches(bytes, i, s)}
           first == CHOOSE i \in found : \A j \in found : i <= j
<1>1. L \in Nat /\ Len(s) \in Nat /\ Len(s) > 0
  BY LenProperties, EmptySeq
<1>2. \A q \in Nat : q >= from => (q \in found <=> Matches(bytes, s, q))
  <2> SUFFICES ASSUME NEW q \in Nat, q >= from PROVE q \in found <=> Matches(bytes, s, q)
    OBVIOUS
  <2>1. q + Len(s) <= L => q \in from..L - 1 /\ q < L
    BY <1>1
  <2> QED
    BY <2>1 DEF regionMatches, Matches
<1>3. indexOf(bytes, s, from) = IF found = {} THEN -1 ELSE first
  BY DEF indexOf
<1>4. found \subseteq Nat /\ \A q \in found : q >= from
  BY <1>1
<1> HIDE DEF found
<1>5. CASE found = {}
  BY <1>2, <1>3, <1>5 DEF IsIndex
<1>6. CASE found # {}
  <2>1. first \in found /\ \A j \in found : first <= j
    <3>1. \E i \in found : \A j \in found : i <= j
      BY <1>4, <1>6, SomeIsLeast
    <3> QED
      BY <3>1
  <2> HIDE DEF first
  <2>2. first \in Nat /\ first >= from /\ Matches(bytes, s, first)
    BY <1>2, <1>4, <2>1
  <2>3. ASSUME NEW q \in Nat, q >= from, q < first PROVE ~ Matches(bytes, s, q)
    <3>1. ~ (first <= q)
      BY <2>2, <2>3
    <3> QED
      BY <1>2, <2>1, <2>3, <3>1
  <2> QED
    BY <1>3, <1>6, <2>2, <2>3 DEF IsIndex
<1> QED
  BY <1>5, <1>6

\* Bytes that are followed by those of a text from the offset i on.
Rest(bytes, i) == SubSeq(bytes, i + 1, Len(bytes))

LEMMA RestIs ==
    ASSUME NEW S, NEW bytes \in Seq(S), NEW made \in Seq(S), NEW i \in 0..Len(bytes)
    PROVE  /\ Rest(bytes, i) \in Seq(S) /\ made \o Rest(bytes, i) \in Seq(S)
           /\ Len(made \o Rest(bytes, i)) = Len(made) + (Len(bytes) - i)
           /\ \A k \in 1..Len(made) : (made \o Rest(bytes, i))[k] = made[k]
           /\ \A k \in 1..Len(bytes) - i : (made \o Rest(bytes, i))[Len(made) + k] = bytes[i + k]
<1> DEFINE L == Len(bytes)
           M == Len(made)
           rest == Rest(bytes, i)
<1>1. L \in Nat /\ M \in Nat /\ i \in 0..L /\ L \in 0..L /\ i <= L
  BY LenProperties
<1>2. rest \in Seq(S) /\ Len(rest) = L - i /\ \A k \in 1..L - i : rest[k] = bytes[i + k]
  BY <1>1, PartIs DEF Rest
<1> HIDE DEF rest
<1>3. /\ made \o rest \in Seq(S) /\ Len(made \o rest) = M + Len(rest)
      /\ \A k \in 1..M + Len(rest) : (made \o rest)[k] = IF k <= M THEN made[k] ELSE rest[k - M]
  BY <1>2, ConcatProperties
<1> HIDE DEF L, M
<1>4. \A k \in 1..M : (made \o rest)[k] = made[k]
  BY <1>1, <1>2, <1>3
<1>5. ASSUME NEW k \in 1..L - i PROVE (made \o rest)[M + k] = bytes[i + k]
  <2>1. M + k \in 1..M + Len(rest) /\ ~ (M + k <= M) /\ (M + k) - M = k
    BY <1>1, <1>2
  <2> QED
    BY <1>2, <1>3, <2>1
<1> QED
  BY <1>2, <1>3, <1>4, <1>5 DEF L, M, rest

\* What is found in the rest of the text is found in the text.
LEMMA MatchesInRest ==
    ASSUME NEW S, NEW bytes \in Seq(S), NEW made \in Seq(S), NEW s \in Seq(S), NEW i \in 0..Len(bytes),
           NEW p \in Nat
    PROVE  Matches(made \o Rest(bytes, i), s, Len(made) + p) <=> Matches(bytes, s, i + p)
<1> DEFINE L == Len(bytes)
           M == Len(made)
           N == Len(s)
           t == made \o Rest(bytes, i)
           a == SubSeq(t, (M + p) + 1, (M + p) + N)
           b == SubSeq(bytes, (i + p) + 1, (i + p) + N)
<1>1. L \in Nat /\ M \in Nat /\ N \in Nat /\ i \in Nat /\ i <= L
  BY LenProperties
<1>2. t \in Seq(S) /\ Len(t) = M + (L - i) /\ \A k \in 1..L - i : t[M + k] = bytes[i + k]
  BY RestIs
<1> HIDE DEF L, M, N, t
<1>3. (M + p) + N <= Len(t) <=> (i + p) + N <= L
  BY <1>1, <1>2
<1>4. ASSUME (i + p) + N <= L PROVE a = b
  <2>1. /\ M + p \in 0..Len(t) /\ (M + p) + N \in 0..Len(t) /\ M + p <= (M + p) + N
        /\ ((M + p) + N) - (M + p) = N
    BY <1>1, <1>2, <1>4
  <2>2. /\ i + p \in 0..L /\ (i + p) + N \in 0..L /\ i + p <= (i + p) + N
        /\ ((i + p) + N) - (i + p) = N
    BY <1>1, <1>4
  <2>3. a \in Seq(S) /\ Len(a) = N /\ \A k \in 1..N : a[k] = t[(M + p) + k]
    <3> DEFINE x == M + p
               y == (M + p) + N
    <3>1. x \in 0..Len(t) /\ y \in 0..Len(t) /\ x <= y /\ y - x = N
      BY <2>1
    <3> HIDE DEF x, y
    <3>2. /\ SubSeq(t, x + 1, y) \in Seq(S) /\ Len(SubSeq(t, x + 1, y)) = y - x
          /\ \A k \in 1..y - x : SubSeq(t, x + 1, y)[k] = t[x + k]
      BY <1>2, <3>1, PartIs
    <3> QED
      BY <3>1, <3>2 DEF x, y
  <2>4. b \in Seq(S) /\ Len(b) = N /\ \A k \in 1..N : b[k] = bytes[(i + p) + k]
    <3> DEFINE x == i + p
               y == (i + p) + N
    <3>1. x \in 0..L /\ y \in 0..L /\ x <= y /\ y - x = N
      BY <2>2
    <3> HIDE DEF x, y
    <3>2. /\ SubSeq(bytes, x + 1, y) \in Seq(S) /\ Len(SubSeq(bytes, x + 1, y)) = y - x
          /\ \A k \in 1..y - x : SubSeq(bytes, x + 1, y)[k] = bytes[x + k]
      BY <3>1, PartIs DEF L
    <3> QED
      BY <3>1, <3>2 DEF x, y
  <2> HIDE DEF a, b
  <2>5. ASSUME NEW k \in 1..N PROVE a[k] = b[k]
    <3>1. p + k \in 1..L - i /\ (M + p) + k = M + (p + k) /\ (i + p) + k = i + (p + k)
      BY <1>1, <1>4
    <3> QED
      BY <1>2, <2>3, <2>4, <3>1
  <2> QED
    BY <2>3, <2>4, <2>5, SeqEqual
<1> HIDE DEF a, b
<1>5. Matches(t, s, M + p) <=> (M + p) + N <= Len(t) /\ a = s
  BY DEF Matches, N, a
<1>6. Matches(bytes, s, i + p) <=> (i + p) + N <= L /\ b = s
  BY DEF Matches, N, b, L
<1>7. Matches(t, s, M + p) <=> Matches(bytes, s, i + p)
  BY <1>3, <1>4, <1>5, <1>6
<1> QED
  BY <1>7 DEF t, M

\* The parts of such bytes before an offset of the text and from it on.
LEMMA PartsOfRest ==
    ASSUME NEW S, NEW bytes \in Seq(S), NEW made \in Seq(S), NEW i \in 0..Len(bytes), NEW q \in i..Len(bytes)
    PROVE  LET t == made \o Rest(bytes, i)
               n == Len(made) + (q - i)
           IN  /\ SubSeq(t, 1, n) = made \o SubSeq(bytes, i + 1, q)
               /\ SubSeq(t, n + 1, Len(t)) = Rest(bytes, q)
<1> DEFINE L == Len(bytes)
           M == Len(made)
           t == made \o Rest(bytes, i)
           n == M + (q - i)
           part == SubSeq(bytes, i + 1, q)
           a == SubSeq(t, 1, n)
           c == SubSeq(t, n + 1, Len(t))
           d == Rest(bytes, q)
<1>1. L \in Nat /\ M \in Nat /\ i \in Nat /\ q \in Nat /\ i <= q /\ q <= L
  BY LenProperties
<1>2. /\ t \in Seq(S) /\ Len(t) = M + (L - i) /\ (\A k \in 1..M : t[k] = made[k])
      /\ \A k \in 1..L - i : t[M + k] = bytes[i + k]
  BY RestIs
<1>3. part \in Seq(S) /\ Len(part) = q - i /\ \A k \in 1..q - i : part[k] = bytes[i + k]
  BY <1>1, PartIs
<1>4. d \in Seq(S) /\ Len(d) = L - q /\ \A k \in 1..L - q : d[k] = bytes[q + k]
  BY <1>1, PartIs DEF Rest
<1> HIDE DEF t, part, d, L, M
<1>5. n \in Nat /\ n <= Len(t) /\ Len(t) \in Nat /\ Len(t) - n = L - q
  BY <1>1, <1>2
<1>6. a \in Seq(S) /\ Len(a) = n /\ \A k \in 1..n : a[k] = t[k]
  <2> HIDE DEF n
  <2>1. n \in 0..Len(t)
    BY <1>5
  <2> QED
    BY <1>2, <2>1, PrefixIs
<1>7. c \in Seq(S) /\ Len(c) = L - q /\ \A k \in 1..L - q : c[k] = t[n + k]
  <2> HIDE DEF n
  <2>1. n \in 0..Len(t) /\ Len(t) \in 0..Len(t) /\ n <= Len(t)
    BY <1>5
  <2> QED
    BY <1>2, <1>5, <2>1, PartIs
<1> DEFINE e == made \o part
<1>8. /\ e \in Seq(S) /\ Len(e) = n
      /\ \A k \in 1..n : e[k] = IF k <= M THEN made[k] ELSE part[k - M]
  <2> HIDE DEF e
  <2>1. /\ made \o part \in Seq(S) /\ Len(made \o part) = Len(made) + Len(part)
        /\ \A k \in 1..Len(made) + Len(part) :
              (made \o part)[k] = IF k <= Len(made) THEN made[k] ELSE part[k - Len(made)]
    BY <1>3, ConcatProperties
  <2>2. Len(made) + Len(part) = n
    BY <1>3 DEF M
  <2> QED
    BY <2>1, <2>2 DEF M, e
<1> HIDE DEF a, c, e
<1>9. ASSUME NEW k \in 1..n PROVE a[k] = e[k]
  <2>1. CASE k <= M
    <3>1. k \in 1..M
      BY <1>1, <2>1
    <3> QED
      BY <1>2, <1>6, <1>8, <2>1, <3>1
  <2>2. CASE ~ (k <= M)
    <3>1. k - M \in 1..q - i /\ k - M \in 1..L - i /\ M + (k - M) = k
      BY <1>1, <2>2
    <3>2. e[k] = bytes[i + (k - M)]
      BY <1>3, <1>8, <2>2, <3>1
    <3>3. t[k] = bytes[i + (k - M)]
      BY <1>2, <3>1
    <3> QED
      BY <1>6, <3>2, <3>3
  <2> QED
    BY <2>1, <2>2
<1>10. a = e
  <2> HIDE DEF n
  <2> QED
    BY <1>6, <1>8, <1>9, SeqEqual
<1>11. ASSUME NEW k \in 1..L - q PROVE c[k] = d[k]
  <2>1. (q - i) + k \in 1..L - i /\ n + k = M + ((q - i) + k) /\ q + k = i + ((q - i) + k)
    BY <1>1
  <2> QED
    BY <1>2, <1>4, <1>7, <2>1
<1>12. c = d
  BY <1>4, <1>7, <1>11, SeqEqual
<1> QED
  BY <1>10, <1>12 DEF a, c, d, e, t, part, n, M

\* The states of WithReplacements() after each byte, and of replace() after each
\* replacement.
ScansOn(x, bytes, s, r, i) ==
    IF i <= x.used THEN x
    ELSE IF Matches(bytes, s, i - 1) THEN [made |-> x.made \o r, used |-> (i - 1) + Len(s)]
    ELSE [made |-> Append(x.made, bytes[i]), used |-> i]
Scans(bytes, s, r, b) ==
    /\ b[0] = [made |-> <<>>, used |-> 0]
    /\ \A i \in 1..Len(bytes) : b[i] = ScansOn(b[i - 1], bytes, s, r, i)

Replaced(x, s, r) == (SubSeq(x.text, 1, x.found) \o r) \o SubSeq(x.text, x.found + Len(s) + 1, Len(x.text))
AltersOn(x, s, r) ==
    IF x.found = -1 THEN x
    ELSE [text |-> Replaced(x, s, r),
          found |-> IF Replaced(x, s, r) = <<>> THEN -1 ELSE indexOf(Replaced(x, s, r), s, x.found + Len(r))]
Alters(bytes, s, r, a) ==
    /\ a[0] = [text |-> bytes, found |-> indexOf(bytes, s, 0)]
    /\ \A n \in 1..Len(bytes) : a[n] = AltersOn(a[n - 1], s, r)

LEMMA ScanExists ==
    ASSUME NEW S, NEW bytes \in Seq(S), NEW s \in Seq(S), NEW r \in Seq(S)
    PROVE  \E b : /\ \A i \in 0..Len(bytes) : b[i] \in [made : Seq(S), used : Nat]
                  /\ Scans(bytes, s, r, b) /\ WithReplacements(bytes, s, r) = b[Len(bytes)].made
<1> DEFINE N == Len(bytes)
           States == [made : Seq(S), used : Nat]
           start == [made |-> <<>>, used |-> 0]
           next(x, i) == IF i <= x.used THEN x
                         ELSE IF i + Len(s) - 1 <= Len(bytes) /\ SubSeq(bytes, i, i + Len(s) - 1) = s
                         THEN [made |-> x.made \o r, used |-> i + Len(s) - 1]
                         ELSE [made |-> Append(x.made, bytes[i]), used |-> i]
           e(f, k) == IF k = 0 THEN start ELSE next(f[k - 1], k)
           step == [k \in 1..N |-> [x \in States |-> next(x, k)]]
           w == CHOOSE f : f = [k \in 0..N |-> e(f, k)]
<1>1. WithReplacements(bytes, s, r) = w[N].made
  BY Zenon DEF WithReplacements
<1>2. N \in Nat /\ Len(s) \in Nat /\ \A k \in 1..N : bytes[k] \in S
  BY LenProperties, ElementOfSeq
<1>3. start \in States
  BY EmptySeq
<1>4. ASSUME NEW k \in 1..N, NEW x \in States
      PROVE  next(x, k) = ScansOn(x, bytes, s, r, k) /\ next(x, k) \in States
  <2>1. x.made \in Seq(S) /\ x.used \in Nat /\ bytes[k] \in S /\ k \in Nat /\ k >= 1
    BY <1>2
  <2>2. (k - 1) + Len(s) = k + Len(s) - 1 /\ (k - 1) + 1 = k /\ (k - 1) + Len(s) \in Nat
    BY <1>2, <2>1
  <2>3. Matches(bytes, s, k - 1) <=>
            k + Len(s) - 1 <= Len(bytes) /\ SubSeq(bytes, k, k + Len(s) - 1) = s
    BY <2>2 DEF Matches
  <2>4. x.made \o r \in Seq(S) /\ Append(x.made, bytes[k]) \in Seq(S)
    BY <2>1, ConcatProperties, AppendProperties
  <2>5. next(x, k) = ScansOn(x, bytes, s, r, k)
    BY <2>2, <2>3, Zenon DEF ScansOn
  <2> DEFINE n == (k - 1) + Len(s)
  <2>6. n \in Nat
    BY <2>2
  <2> HIDE DEF n, next
  <2>7. ScansOn(x, bytes, s, r, k) \in States
    <3>1. [made |-> x.made \o r, used |-> n] \in States
      BY <2>4, <2>6
    <3>2. [made |-> Append(x.made, bytes[k]), used |-> k] \in States
      BY <2>1, <2>4
    <3> QED
      BY <3>1, <3>2 DEF ScansOn, n
  <2> QED
    BY <2>5, <2>7
<1> HIDE DEF N, next, start, States
<1>5. step \in [1..N -> [States -> States]]
  BY <1>4
<1>6. PICK f : Iterates(f, N, States, start, step)
  <2> HIDE DEF step
  <2> QED
    BY <1>2, <1>3, <1>5, IterationExists
<1>7. f = [k \in 0..N |-> e(f, k)]
  <2>1. ASSUME NEW k \in 0..N PROVE f[k] = e(f, k)
    <3>1. CASE k = 0
      BY <1>6, <3>1 DEF Iterates
    <3>2. CASE k # 0
      <4>1. k \in 1..N /\ k - 1 \in 0..N
        BY <1>2, <3>2
      <4>2. f[k] = step[k][f[k - 1]] /\ f[k - 1] \in States
        BY <1>6, <4>1 DEF Iterates
      <4> QED
        BY <3>2, <4>1, <4>2
    <3> QED
      BY <3>1, <3>2
  <2> HIDE DEF e
  <2> QED
    BY <1>6, <2>1 DEF Iterates
<1>8. w = [k \in 0..N |-> e(w, k)]
  <2> HIDE DEF e
  <2> QED
    BY <1>7
<1> HIDE DEF w
<1>9. \A k \in 0..N : w[k] = e(w, k)
  <2> HIDE DEF e
  <2> QED
    BY <1>8
<1>10. w[0] = start
  BY <1>2, <1>9
<1>11. \A k \in 1..N : w[k] = next(w[k - 1], k)
  BY <1>2, <1>9
<1>12. \A k \in 0..N : w[k] \in States
  <2>1. w[0] \in States /\ \A k \in 1..N : w[k - 1] \in States => w[k] \in States
    BY <1>3, <1>4, <1>10, <1>11
  <2> QED
    BY <1>2, <2>1, IterationStays
<1>13. \A k \in 1..N : w[k] = ScansOn(w[k - 1], bytes, s, r, k)
  <2>1. \A k \in 1..N : k - 1 \in 0..N
    BY <1>2
  <2> QED
    BY <1>4, <1>11, <1>12, <2>1
<1> QED
  BY <1>1, <1>10, <1>12, <1>13 DEF Scans, States, start, N

\* The text, and where s is found in it.
AlteredStates(S, s) ==
    {x \in [text : Seq(S), found : Int] :
        x.found # -1 => x.found \in Nat /\ x.found + Len(s) <= Len(x.text)}

LEMMA AltersStates ==
    ASSUME NEW S, NEW s \in Seq(S), s # <<>>, NEW r \in Seq(S), NEW x \in AlteredStates(S, s)
    PROVE  /\ x.found # -1 => Replaced(x, s, r) \in Seq(S)
           /\ AltersOn(x, s, r) \in AlteredStates(S, s)
           /\ x.found # -1 =>
                 /\ AltersOn(x, s, r).text = Replaced(x, s, r)
                 /\ IsIndex(Replaced(x, s, r), s, x.found + Len(r), AltersOn(x, s, r).found)
<1>1. CASE x.found = -1
  BY <1>1 DEF AltersOn
<1>2. CASE x.found # -1
  <2> DEFINE t == Replaced(x, s, r)
             from == x.found + Len(r)
             L == Len(x.text)
             n == x.found + Len(s)
             index == IF t = <<>> THEN -1 ELSE indexOf(t, s, from)
  <2>1. x.text \in Seq(S) /\ x.found \in Nat /\ x.found + Len(s) <= L /\ L \in Nat /\ Len(s) \in Nat
    BY <1>2, LenProperties DEF AlteredStates
  <2>2. t \in Seq(S)
    <3>1. x.found \in 0..L /\ n \in 0..L /\ L \in 0..L /\ n <= L
      BY <2>1
    <3>2. SubSeq(x.text, 1, x.found) \in Seq(S)
      BY <2>1, <3>1, PrefixIs
    <3> HIDE DEF n
    <3>3. SubSeq(x.text, n + 1, L) \in Seq(S)
      BY <2>1, <3>1, PartIs
    <3>4. SubSeq(x.text, 1, x.found) \o r \in Seq(S)
      BY <3>2, ConcatProperties
    <3> QED
      BY <3>3, <3>4, ConcatProperties DEF Replaced, n
  <2>3. from \in Nat
    BY <2>1, LenProperties
  <2>4. AltersOn(x, s, r) = [text |-> t, found |-> index]
    BY <1>2 DEF AltersOn
  <2> HIDE DEF t, from
  <2>5. IsIndex(t, s, from, index)
    <3>1. CASE t = <<>>
      <4>1. \A q \in Nat : ~ Matches(t, s, q)
        <5>1. Len(t) = 0 /\ Len(s) > 0
          BY <3>1, EmptySeq
        <5> QED
          BY <2>1, <5>1 DEF Matches
      <4> QED
        BY <3>1, <4>1 DEF IsIndex
    <3>2. CASE t # <<>>
      BY <2>2, <2>3, <3>2, IndexIs
    <3> QED
      BY <3>1, <3>2
  <2> HIDE DEF index
  <2>6. index \in Int /\ (index # -1 => index \in Nat /\ index + Len(s) <= Len(t))
    BY <2>5 DEF IsIndex, Matches
  <2>7. [text |-> t, found |-> index] \in AlteredStates(S, s)
    BY <2>2, <2>6 DEF AlteredStates
  <2> QED
    BY <1>2, <2>2, <2>4, <2>5, <2>7 DEF t, from
<1> QED
  BY <1>1, <1>2

LEMMA AlterExists ==
    ASSUME NEW S, NEW bytes \in Seq(S), NEW s \in Seq(S), s # <<>>, NEW r \in Seq(S)
    PROVE  \E a : /\ \A n \in 0..Len(bytes) : a[n] \in AlteredStates(S, s)
                  /\ Alters(bytes, s, r, a) /\ Altered(bytes, s, r) = a[Len(bytes)].text
<1> DEFINE N == Len(bytes)
           States == AlteredStates(S, s)
           start == [text |-> bytes, found |-> indexOf(bytes, s, 0)]
           next(x) == LET t == SubSeq(x.text, 1, x.found) \o r \o SubSeq(x.text, x.found + Len(s) + 1, Len(x.text))
                      IN  IF x.found = -1 THEN x
                          ELSE [text |-> t,
                                found |-> IF t = <<>> THEN -1 ELSE indexOf(t, s, x.found + Len(r))]
           e(f, k) == IF k = 0 THEN start ELSE next(f[k - 1])
           step == [k \in 1..N |-> [x \in States |-> next(x)]]
           w == CHOOSE f : f = [k \in 0..N |-> e(f, k)]
<1>1. Altered(bytes, s, r) = w[N].text
  BY Zenon DEF Altered
<1>2. N \in Nat
  BY LenProperties
<1>3. start \in States
  <2> DEFINE index == indexOf(bytes, s, 0)
  <2>1. IsIndex(bytes, s, 0, index)
    BY IndexIs
  <2> HIDE DEF index
  <2>2. index \in Int /\ (index # -1 => index \in Nat /\ index + Len(s) <= Len(bytes))
    BY <2>1 DEF IsIndex, Matches
  <2>3. [text |-> bytes, found |-> index] \in States
    BY <2>2 DEF AlteredStates
  <2> QED
    BY <2>3 DEF index
<1>4. ASSUME NEW x \in States
      PROVE  next(x) = AltersOn(x, s, r) /\ next(x) \in States
  <2>1. next(x) = AltersOn(x, s, r)
    BY Zenon DEF AltersOn, Replaced
  <2> HIDE DEF next
  <2> QED
    BY <2>1, AltersStates
<1> HIDE DEF N, next, start, States
<1>5. step \in [1..N -> [States -> States]]
  BY <1>4
<1>6. PICK f : Iterates(f, N, States, start, step)
  <2> HIDE DEF step
  <2> QED
    BY <1>2, <1>3, <1>5, IterationExists
<1>7. f = [k \in 0..N |-> e(f, k)]
  <2>1. ASSUME NEW k \in 0..N PROVE f[k] = e(f, k)
    <3>1. CASE k = 0
      BY <1>6, <3>1 DEF Iterates
    <3>2. CASE k # 0
      <4>1. k \in 1..N /\ k - 1 \in 0..N
        BY <1>2, <3>2
      <4>2. f[k] = step[k][f[k - 1]] /\ f[k - 1] \in States
        BY <1>6, <4>1 DEF Iterates
      <4> QED
        BY <3>2, <4>1, <4>2
    <3> QED
      BY <3>1, <3>2
  <2> HIDE DEF e
  <2> QED
    BY <1>6, <2>1 DEF Iterates
<1>8. w = [k \in 0..N |-> e(w, k)]
  <2> HIDE DEF e
  <2> QED
    BY <1>7
<1> HIDE DEF w
<1>9. \A k \in 0..N : w[k] = e(w, k)
  <2> HIDE DEF e
  <2> QED
    BY <1>8
<1>10. w[0] = start
  BY <1>2, <1>9
<1>11. \A k \in 1..N : w[k] = next(w[k - 1])
  BY <1>2, <1>9
<1>12. \A k \in 0..N : w[k] \in States
  <2>1. w[0] \in States /\ \A k \in 1..N : w[k - 1] \in States => w[k] \in States
    BY <1>3, <1>4, <1>10, <1>11
  <2> QED
    BY <1>2, <2>1, IterationStays
<1>13. \A k \in 1..N : w[k] = AltersOn(w[k - 1], s, r)
  <2>1. \A k \in 1..N : k - 1 \in 0..N
    BY <1>2
  <2> QED
    BY <1>4, <1>11, <1>12, <2>1
<1> QED
  BY <1>1, <1>10, <1>12, <1>13 DEF Alters, States, start, N

FoundNowhere(bytes, s, i, j) == \A q \in i..j - 1 : ~ Matches(bytes, s, q)

Copies(bytes, b, i, j) == b[j].used = j /\ b[j].made = b[i].made \o SubSeq(bytes, i + 1, j)

\* Where s is not found the bytes are copied.
LEMMA ScanCopies ==
    ASSUME NEW S, NEW bytes \in Seq(S), NEW s, NEW r, NEW b, Scans(bytes, s, r, b),
           NEW i \in 0..Len(bytes), NEW j \in i..Len(bytes), b[i].used = i, b[i].made \in Seq(S),
           FoundNowhere(bytes, s, i, j)
    PROVE  Copies(bytes, b, i, j)
<1> DEFINE L == Len(bytes)
           n == j - i
           made == b[i].made
           Right(k) == b[i + k].used = i + k /\ b[i + k].made = made \o SubSeq(bytes, i + 1, i + k)
           Good == {k \in 0..n : Right(k)}
<1>1. L \in Nat /\ i \in Nat /\ j \in Nat /\ i <= j /\ j <= L /\ n \in Nat /\ made \in Seq(S)
  BY LenProperties
<1>2. Right(0)
  <2>1. i + 0 = i /\ SubSeq(bytes, i + 1, i) = <<>>
    BY <1>1, SubSeqEmpty
  <2>2. made \o <<>> = made
    BY ConcatEmptySeq
  <2> QED
    BY <2>1, <2>2
<1>3. ASSUME NEW k \in 1..n, Right(k - 1) PROVE Right(k)
  <2> DEFINE m == i + (k - 1)
             before == SubSeq(bytes, i + 1, m)
  <2>1. /\ i + k \in 1..L /\ (i + k) - 1 = m /\ m \in Nat /\ m \in i..j - 1 /\ m < i + k /\ i <= m
        /\ i \in 0..L /\ m \in 0..L /\ i + k \in 0..L
    BY <1>1
  <2>2. b[m].used = m /\ b[m].made = made \o before
    BY <1>3
  <2>3. b[i + k] = [made |-> Append(b[m].made, bytes[i + k]), used |-> i + k]
    <3>1. b[i + k] = ScansOn(b[m], bytes, s, r, i + k)
      BY <2>1 DEF Scans
    <3>2. ~ Matches(bytes, s, (i + k) - 1)
      BY <2>1 DEF FoundNowhere
    <3>3. ~ (i + k <= b[m].used)
      BY <2>1, <2>2
    <3> QED
      BY <3>1, <3>2, <3>3, Zenon DEF ScansOn
  <2>4. bytes[i + k] \in S
    BY <2>1, ElementOfSeq
  <2>5. before \in Seq(S) /\ SubSeq(bytes, i + 1, i + k) = Append(before, bytes[i + k])
    <3> DEFINE p == i + k
    <3>1. p \in 1..Len(bytes) /\ m = p - 1 /\ i \in 0..p - 1
      BY <1>1
    <3> HIDE DEF m, L, p
    <3>2. /\ SubSeq(bytes, i + 1, p - 1) \in Seq(S)
          /\ SubSeq(bytes, i + 1, p) = Append(SubSeq(bytes, i + 1, p - 1), bytes[p])
      BY <3>1, PartGrows
    <3>3. p - 1 = m
      BY <3>1
    <3> QED
      BY <3>2, <3>3 DEF p
  <2> HIDE DEF before, m, made
  <2>6. Append(made \o before, bytes[i + k]) = made \o Append(before, bytes[i + k])
    <3> DEFINE byte == bytes[i + k]
    <3>1. byte \in S /\ before \in Seq(S) /\ made \in Seq(S)
      BY <1>1, <2>4, <2>5
    <3> HIDE DEF byte
    <3>2. AppendsInside(made, before, byte)
      BY <3>1, ConcatAppend
    <3> QED
      BY <3>2, Zenon DEF AppendsInside, byte
  <2>7. b[i + k].used = i + k /\ b[i + k].made = made \o SubSeq(bytes, i + 1, i + k)
    <3>1. b[i + k].used = i + k /\ b[i + k].made = Append(b[m].made, bytes[i + k])
      <4> DEFINE longer == Append(b[m].made, bytes[i + k])
      <4>1. b[i + k] = [made |-> longer, used |-> i + k]
        BY <2>3, Zenon
      <4> HIDE DEF longer
      <4>2. b[i + k].used = i + k /\ b[i + k].made = longer
        BY <4>1
      <4> QED
        BY <4>2, Zenon DEF longer
    <3>2. b[i + k].made = made \o Append(before, bytes[i + k])
      BY <2>2, <2>6, <3>1, Zenon
    <3> QED
      BY <2>5, <3>1, <3>2, Zenon
  <2> QED
    BY <2>7 DEF made
<1>4. \A k \in 0..n : k \in Good
  <2> HIDE DEF Right
  <2>1. 0 \in Good /\ \A k \in 1..n : k - 1 \in Good => k \in Good
    BY <1>1, <1>2, <1>3
  <2> HIDE DEF Good
  <2> QED
    BY <1>1, <2>1, UpTo
<1>5. Right(n)
  <2> HIDE DEF Right
  <2> QED
    BY <1>1, <1>4
<1>6. i + n = j
  BY <1>1
<1>7. b[j].used = j /\ b[j].made = b[i].made \o SubSeq(bytes, i + 1, j)
  BY <1>5, <1>6
<1> QED
  BY <1>7, Zenon DEF Copies

IsKept(b, i, j) == b[j] = b[i]

\* What is used up adds nothing.
LEMMA ScanWaits ==
    ASSUME NEW S, NEW bytes \in Seq(S), NEW s, NEW r, NEW b, Scans(bytes, s, r, b),
           NEW i \in 0..Len(bytes), NEW j \in i..Len(bytes), b[i].used = j
    PROVE  IsKept(b, i, j)
<1> DEFINE n == j - i
           Good == {k \in 0..n : b[i + k] = b[i]}
<1>1. Len(bytes) \in Nat /\ i \in Nat /\ j \in Nat /\ i <= j /\ j <= Len(bytes) /\ n \in Nat /\ i + n = j
  BY LenProperties
<1>2. 0 \in Good
  BY <1>1
<1>3. ASSUME NEW k \in 1..n, k - 1 \in Good PROVE k \in Good
  <2>1. i + k \in 1..Len(bytes) /\ (i + k) - 1 = i + (k - 1) /\ i + k <= j /\ k \in 0..n
    BY <1>1
  <2>2. b[i + (k - 1)] = b[i]
    BY <1>3
  <2>3. b[i + k] = ScansOn(b[i], bytes, s, r, i + k)
    BY <2>1, <2>2 DEF Scans
  <2>4. b[i + k] = b[i]
    BY <2>1, <2>3, Zenon DEF ScansOn
  <2> QED
    BY <2>1, <2>4
<1>4. \A k \in 0..n : k \in Good
  <2> HIDE DEF Good
  <2> QED
    BY <1>1, <1>2, <1>3, UpTo
<1>5. b[j] = b[i]
  BY <1>1, <1>4
<1> QED
  BY <1>5, Zenon DEF IsKept

\* replace() has come to the byte i of the text: what is before is as it should be,
\* what is after is the text, and it knows where s is next.
CameTo(bytes, s, b, x, i) ==
    /\ b[i].used = i
    /\ x.text = b[i].made \o Rest(bytes, i)
    /\ IsIndex(x.text, s, Len(b[i].made), x.found)

LEMMA ReplaceEnds ==
    ASSUME NEW S, NEW bytes \in Seq(S), NEW s \in Seq(S), NEW r \in Seq(S), NEW b, Scans(bytes, s, r, b),
           NEW i \in 0..Len(bytes), b[i].made \in Seq(S), NEW x, CameTo(bytes, s, b, x, i),
           x.found = -1 \/ i = Len(bytes)
    PROVE  x.text = b[Len(bytes)].made
<1> DEFINE L == Len(bytes)
           made == b[i].made
<1>1. L \in Nat /\ i \in Nat /\ i <= L /\ Len(made) \in Nat
  BY LenProperties
<1>2. CASE i = L
  <2>1. Rest(bytes, L) = <<>>
    BY <1>1, SubSeqEmpty DEF Rest
  <2>2. made \o <<>> = made
    BY ConcatEmptySeq
  <2> QED
    BY <1>2, <2>1, <2>2 DEF CameTo
<1>3. CASE x.found = -1
  <2>1. \A q \in Nat : q >= Len(made) => ~ Matches(x.text, s, q)
    BY <1>3 DEF CameTo, IsIndex
  <2>2. ASSUME NEW q \in i..L - 1 PROVE ~ Matches(bytes, s, q)
    <3> DEFINE p == q - i
    <3>1. p \in Nat /\ i + p = q /\ Len(made) + p \in Nat /\ Len(made) + p >= Len(made)
      BY <1>1
    <3> HIDE DEF p
    <3>2. Matches(made \o Rest(bytes, i), s, Len(made) + p) <=> Matches(bytes, s, i + p)
      BY <3>1, MatchesInRest
    <3> QED
      BY <2>1, <3>1, <3>2 DEF CameTo
  <2>3. Len(bytes) \in i..Len(bytes)
    BY <1>1
  <2>4. b[L].made = made \o SubSeq(bytes, i + 1, L)
    <3>1. b[i].used = i
      BY DEF CameTo
    <3>2. FoundNowhere(bytes, s, i, Len(bytes))
      BY <2>2 DEF FoundNowhere
    <3>3. Copies(bytes, b, i, Len(bytes))
      BY <2>3, <3>1, <3>2, ScanCopies
    <3> QED
      BY <3>3, Zenon DEF Copies
  <2> QED
    BY <2>4 DEF CameTo, Rest
<1> QED
  BY <1>2, <1>3

LEMMA ReplaceGoesOn ==
    ASSUME NEW S, NEW bytes \in Seq(S), NEW s \in Seq(S), s # <<>>, NEW r \in Seq(S),
           NEW b, Scans(bytes, s, r, b), \A k \in 0..Len(bytes) : b[k].made \in Seq(S),
           NEW i \in 0..Len(bytes), NEW x \in AlteredStates(S, s), CameTo(bytes, s, b, x, i),
           x.found # -1
    PROVE  \E j \in i + 1..Len(bytes) : CameTo(bytes, s, b, AltersOn(x, s, r), j)
<1> DEFINE L == Len(bytes)
           made == b[i].made
           M == Len(made)
           N == Len(s)
           t == x.text
           q == i + (x.found - M)
           j == q + N
           y == AltersOn(x, s, r)
<1>1. L \in Nat /\ i \in Nat /\ i <= L /\ M \in Nat /\ N \in Nat /\ N > 0 /\ made \in Seq(S)
  BY LenProperties, EmptySeq
<1>2. /\ x.found \in Nat /\ x.found >= M /\ Matches(t, s, x.found)
      /\ \A p \in Nat : p >= M /\ p < x.found => ~ Matches(t, s, p)
  BY DEF CameTo, IsIndex
<1>3. t = made \o Rest(bytes, i) /\ b[i].used = i
  BY DEF CameTo
<1>4. t \in Seq(S) /\ Len(t) = M + (L - i)
  BY <1>1, <1>3, RestIs
<1> HIDE DEF L, made, M, N, t, y
<1>5. \A p \in Nat : Matches(t, s, M + p) <=> Matches(bytes, s, i + p)
  BY <1>1, <1>3, MatchesInRest DEF M, made
<1>6. q \in Nat /\ i <= q /\ x.found - M \in Nat /\ M + (x.found - M) = x.found /\ x.found >= M
  <2>1. x.found \in Nat /\ x.found >= M
    BY <1>2
  <2> QED
    BY <1>1, <2>1
<1>7. Matches(bytes, s, q)
  BY <1>2, <1>5, <1>6
<1>8. j <= L /\ j \in Nat /\ q < j /\ q < L
  <2>1. q + N <= L /\ q \in Nat
    BY <1>6, <1>7 DEF Matches, L, N
  <2> HIDE DEF q
  <2> QED
    BY <1>1, <2>1
<1>9. ASSUME NEW k \in i..q - 1 PROVE ~ Matches(bytes, s, k)
  <2> DEFINE p == k - i
  <2>1. p \in Nat /\ i + p = k /\ M + p \in Nat /\ M + p >= M /\ M + p < x.found
    <3> DEFINE found == x.found
    <3>1. found \in Nat /\ k \in i..(i + (found - M)) - 1
      BY <1>2
    <3> HIDE DEF found
    <3>2. p \in Nat /\ i + p = k /\ M + p \in Nat /\ M + p >= M /\ M + p < found
      BY <1>1, <3>1
    <3> QED
      BY <3>2 DEF found
  <2> HIDE DEF p
  <2> QED
    BY <1>2, <1>5, <2>1
<1> HIDE DEF q
\* The scan copies up to q, puts r and passes over s.
<1>10. b[q].used = q /\ b[q].made = made \o SubSeq(bytes, i + 1, q)
  <2>1. q \in i..Len(bytes) /\ i \in 0..Len(bytes) /\ b[i].made \in Seq(S)
    BY <1>1, <1>6, <1>8 DEF L
  <2>2. FoundNowhere(bytes, s, i, q)
    BY <1>9 DEF FoundNowhere
  <2>3. b[i].used = i
    BY <1>3
  <2>4. Copies(bytes, b, i, q)
    BY <2>1, <2>2, <2>3, ScanCopies
  <2> QED
    BY <2>4, Zenon DEF Copies, made
<1>11. b[q + 1] = [made |-> b[q].made \o r, used |-> j]
  <2>1. q + 1 \in 1..Len(bytes) /\ (q + 1) - 1 = q /\ ~ (q + 1 <= q)
    BY <1>6, <1>8 DEF L
  <2>2. b[q + 1] = ScansOn(b[q], bytes, s, r, q + 1)
    BY <2>1 DEF Scans
  <2> QED
    BY <1>7, <1>10, <2>1, <2>2, Zenon DEF ScansOn, N
<1>12. b[j] = b[q + 1]
  <2> DEFINE k == q + 1
  <2>1. k \in 0..Len(bytes) /\ j \in k..Len(bytes)
    BY <1>1, <1>6, <1>8 DEF L
  <2>2. b[k].used = j
    BY <1>11
  <2> HIDE DEF k, j
  <2>3. IsKept(b, k, j)
    BY <2>1, <2>2, ScanWaits
  <2> QED
    BY <2>3, Zenon DEF IsKept, k
<1>13. b[j].used = j /\ b[j].made = b[q].made \o r
  BY <1>11, <1>12
<1>14. y.text = Replaced(x, s, r) /\ IsIndex(Replaced(x, s, r), s, x.found + Len(r), y.found)
  BY AltersStates DEF y
<1>15. SubSeq(t, 1, x.found) = b[q].made
  <2>1. q \in i..L
    BY <1>1, <1>6, <1>8
  <2>2. SubSeq(t, 1, M + (q - i)) = made \o SubSeq(bytes, i + 1, q)
    BY <1>1, <1>3, <2>1, PartsOfRest DEF L, M
  <2>3. M + (q - i) = x.found
    BY <1>1, <1>2 DEF q
  <2> QED
    BY <1>10, <2>2, <2>3
<1>16. SubSeq(t, x.found + N + 1, Len(t)) = Rest(bytes, j)
  <2>1. j \in i..L
    BY <1>1, <1>6, <1>8
  <2>2. (M + (j - i)) + 1 = x.found + N + 1
    <3>1. x.found \in Nat
      BY <1>2
    <3> QED
      BY <1>1, <3>1 DEF q
  <2> HIDE DEF j
  <2>3. SubSeq(t, (M + (j - i)) + 1, Len(t)) = Rest(bytes, j)
    BY <1>1, <1>3, <2>1, PartsOfRest DEF L, M
  <2> QED
    BY <2>2, <2>3
<1>17. Replaced(x, s, r) = b[j].made \o Rest(bytes, j)
  BY <1>13, <1>15, <1>16 DEF Replaced, t, N
<1>18. Len(b[j].made) = x.found + Len(r)
  <2>1. b[q].made \in Seq(S) /\ Len(b[q].made) = x.found
    <3>1. x.found \in 0..Len(t)
      BY <1>1, <1>2, <1>4, LenProperties DEF Matches
    <3>2. SubSeq(t, 1, x.found) \in Seq(S) /\ Len(SubSeq(t, 1, x.found)) = x.found
      BY <1>4, <3>1, PrefixIs
    <3> QED
      BY <1>15, <3>2, Zenon
  <2> QED
    BY <1>13, <2>1, ConcatProperties
<1>19. j \in i + 1..L
  BY <1>1, <1>6, <1>8
<1>20. CameTo(bytes, s, b, y, j)
  BY <1>13, <1>14, <1>17, <1>18, Zenon DEF CameTo
<1> QED
  BY <1>19, <1>20 DEF y, L

\* replace() makes the replacements it should, for any text and any arguments.
LEMMA AlteredIs ==
    ASSUME NEW S, NEW bytes \in Seq(S), NEW s \in Seq(S), s # <<>>, NEW r \in Seq(S)
    PROVE  Altered(bytes, s, r) = WithReplacements(bytes, s, r) /\ Altered(bytes, s, r) \in Seq(S)
<1> DEFINE L == Len(bytes)
<1>1. PICK a : /\ \A n \in 0..Len(bytes) : a[n] \in AlteredStates(S, s)
               /\ Alters(bytes, s, r, a) /\ Altered(bytes, s, r) = a[Len(bytes)].text
  BY AlterExists
<1>2. PICK b : /\ \A i \in 0..Len(bytes) : b[i] \in [made : Seq(S), used : Nat]
               /\ Scans(bytes, s, r, b) /\ WithReplacements(bytes, s, r) = b[Len(bytes)].made
  BY ScanExists
<1>3. L \in Nat /\ \A i \in 0..L : b[i].made \in Seq(S)
  BY <1>2, LenProperties
<1> DEFINE Here(n, i) == CameTo(bytes, s, b, a[n], i) /\ (a[n].found = -1 \/ i >= n)
           Good == {n \in 0..L : \E i \in 0..L : Here(n, i)}
<1>4. 0 \in Good
  <2>1. a[0] = [text |-> bytes, found |-> indexOf(bytes, s, 0)] /\ b[0] = [made |-> <<>>, used |-> 0]
    BY <1>1, <1>2 DEF Alters, Scans
  <2>2. <<>> \o Rest(bytes, 0) = bytes /\ Len(<<>>) = 0
    <3>1. 0 + 1 = 1 /\ SubSeq(bytes, 1, Len(bytes)) = bytes /\ <<>> \o bytes = bytes
      BY SubSeqFull, ConcatEmptySeq
    <3> QED
      BY <3>1, EmptySeq DEF Rest
  <2>3. IsIndex(bytes, s, 0, indexOf(bytes, s, 0))
    BY IndexIs
  <2> DEFINE index == indexOf(bytes, s, 0)
  <2>4. a[0].text = bytes /\ a[0].found = index /\ b[0].made = <<>> /\ b[0].used = 0
    <3>1. a[0] = [text |-> bytes, found |-> index]
      BY <2>1
    <3> HIDE DEF index
    <3> QED
      BY <2>1, <3>1
  <2>5. IsIndex(bytes, s, 0, index)
    BY <2>3
  <2> HIDE DEF index
  <2>6. CameTo(bytes, s, b, a[0], 0)
    BY <2>2, <2>4, <2>5, Zenon DEF CameTo
  <2>7. 0 \in 0..L /\ 0 >= 0
    BY <1>3
  <2> QED
    BY <2>6, <2>7
<1>5. ASSUME NEW n \in 1..L, n - 1 \in Good PROVE n \in Good
  <2>1. n - 1 \in 0..L /\ n \in 0..L
    BY <1>3
  <2>2. PICK i \in 0..L : Here(n - 1, i)
    BY <1>5
  <2>3. a[n] = AltersOn(a[n - 1], s, r)
    BY <1>1 DEF Alters
  <2>4. CASE a[n - 1].found = -1
    <3>1. a[n] = a[n - 1]
      BY <2>3, <2>4 DEF AltersOn
    <3>2. Here(n, i)
      BY <2>2, <2>4, <3>1
    <3> HIDE DEF Here
    <3> QED
      BY <2>1, <3>2
  <2>5. CASE a[n - 1].found # -1
    <3>1. a[n - 1] \in AlteredStates(S, s) /\ CameTo(bytes, s, b, a[n - 1], i) /\ i >= n - 1
      BY <1>1, <2>1, <2>2, <2>5
    <3>2. i \in 0..Len(bytes) /\ \A k \in 0..Len(bytes) : b[k].made \in Seq(S)
      BY <1>3
    <3>3. \E j \in i + 1..Len(bytes) : CameTo(bytes, s, b, AltersOn(a[n - 1], s, r), j)
      BY <1>2, <2>5, <3>1, <3>2, ReplaceGoesOn
    <3>4. PICK j \in i + 1..L : CameTo(bytes, s, b, a[n], j)
      BY <2>3, <3>3
    <3>5. j \in 0..L /\ j >= n
      BY <1>3, <3>1
    <3> QED
      BY <2>1, <3>4, <3>5
  <2> QED
    BY <2>4, <2>5
<1>6. L \in Good
  <2> HIDE DEF Good, L
  <2>1. \A n \in 0..L : n \in Good
    BY <1>3, <1>4, <1>5, UpTo
  <2> QED
    BY <1>3, <2>1
<1>7. PICK i \in 0..L : Here(L, i)
  BY <1>6
<1>8. a[L].found = -1 \/ i = L
  BY <1>3, <1>7
<1>9. a[L].text = b[L].made
  <2>1. i \in 0..Len(bytes) /\ b[i].made \in Seq(S) /\ CameTo(bytes, s, b, a[L], i)
    BY <1>3, <1>7
  <2> HIDE DEF Here
  <2> QED
    BY <1>2, <1>8, <2>1, ReplaceEnds
<1> QED
  BY <1>1, <1>2, <1>3, <1>9

-----------------------------------------------------------------------------
(* The buffer of the string *)

Cells == StringBytes \cup {Terminator, Unwritten}
StringStates == [mUsingInternalBuffer : BOOLEAN, buffer : Seq(Cells), mStringLength : Nat,
                 mNumCodePoints : Int]

\* There is a place for the terminator, and the internal buffer has its size.
IsSound(st) ==
    /\ st \in StringStates /\ st.mStringLength < Len(st.buffer)
    /\ st.mUsingInternalBuffer => Len(st.buffer) = InternalSize

HoldsBytes(buffer, bytes) == \A i \in 1..Len(bytes) : buffer[i] = bytes[i]
HoldsText(st, bytes) ==
    /\ st.mStringLength = Len(bytes) /\ HoldsBytes(st.buffer, bytes)
    /\ st.buffer[Len(bytes) + 1] = Terminator

LEMMA BytesAreCells == \A bytes \in Seq(StringBytes) : bytes \in Seq(Cells)
  BY DEF Cells

LEMMA TextHeld ==
    ASSUME NEW st, IsSound(st), NEW bytes \in Seq(StringBytes), HoldsText(st, bytes)
    PROVE  TextOf(st) = bytes
<1> DEFINE n == st.mStringLength
           held == SubSeq(st.buffer, 1, n)
<1>1. st.buffer \in Seq(Cells) /\ n \in 0..Len(st.buffer) /\ n = Len(bytes)
  BY LenProperties DEF IsSound, StringStates, HoldsText
<1>2. held \in Seq(Cells) /\ Len(held) = n /\ \A i \in 1..n : held[i] = st.buffer[i]
  BY <1>1, PrefixIs
<1>3. TextOf(st) = held
  BY DEF TextOf
<1> HIDE DEF held, n
<1>4. \A i \in 1..Len(held) : held[i] = bytes[i]
  BY <1>1, <1>2 DEF HoldsText, HoldsBytes
<1>5. bytes \in Seq(Cells)
  BY BytesAreCells
<1>6. held = bytes
  BY <1>1, <1>2, <1>4, <1>5, SeqEqual
<1> QED
  BY <1>3, <1>6

\* What is in the buffer after writes: the last part written to a place, if any.
LEMMA WrittenIs ==
    ASSUME NEW buffer \in Seq(Cells), NEW parts \in Seq([at : Nat, bytes : Seq(Cells)])
    PROVE  /\ Written(buffer, parts) \in Seq(Cells) /\ Len(Written(buffer, parts)) = Len(buffer)
           /\ \A i \in 1..Len(buffer) :
                 LET over == {k \in DOMAIN parts :
                                 i \in parts[k].at + 1..parts[k].at + Len(parts[k].bytes)}
                 IN  /\ over = {} => Written(buffer, parts)[i] = buffer[i]
                     /\ \A k \in over : (\A m \in over : m <= k) =>
                           Written(buffer, parts)[i] = parts[k].bytes[i - parts[k].at]
<1> DEFINE over(i) == {k \in DOMAIN parts : i \in parts[k].at + 1..parts[k].at + Len(parts[k].bytes)}
           cell(i) == IF over(i) = {} THEN buffer[i]
                      ELSE parts[Max(over(i))].bytes[i - parts[Max(over(i))].at]
           n == Len(buffer)
<1>1. n \in Nat /\ DOMAIN buffer = 1..n /\ Len(parts) \in Nat /\ DOMAIN parts = 1..Len(parts)
  BY LenProperties
<1>2. Written(buffer, parts) = [i \in 1..n |-> cell(i)]
  BY <1>1, Zenon DEF Written
<1>3. \A k \in 1..Len(parts) : parts[k].at \in Nat /\ parts[k].bytes \in Seq(Cells)
  <2>1. \A k \in 1..Len(parts) : parts[k] \in [at : Nat, bytes : Seq(Cells)]
    BY ElementOfSeq
  <2> QED
    BY <2>1
<1>4. ASSUME NEW i \in 1..n, over(i) # {} PROVE Max(over(i)) \in over(i) /\ \A m \in over(i) : m <= Max(over(i))
  <2> DEFINE O == over(i)
  <2>1. O \subseteq 0..Len(parts) /\ O # {}
    BY <1>1, <1>4
  <2> HIDE DEF O
  <2>2. Max(O) \in O /\ \A m \in O : m <= Max(O)
    BY <1>1, <2>1, MaxIs
  <2> QED
    BY <2>2 DEF O
<1>5. ASSUME NEW i \in 1..n PROVE cell(i) \in Cells
  <2>1. CASE over(i) = {}
    BY <1>1, <2>1, ElementOfSeq
  <2>2. CASE over(i) # {}
    <3> DEFINE k == Max(over(i))
               bytes == parts[k].bytes
               at == parts[k].at
               p == i - at
    <3>1. k \in 1..Len(parts) /\ i \in at + 1..at + Len(bytes)
      BY <1>1, <1>4, <2>2
    <3>2. cell(i) = bytes[p]
      BY <2>2, Zenon
    <3> HIDE DEF k, over, cell
    <3>3. at \in Nat /\ bytes \in Seq(Cells)
      BY <1>3, <3>1
    <3> HIDE DEF bytes, at
    <3>4. p \in 1..Len(bytes)
      BY <1>1, <3>1, <3>3, LenProperties
    <3> QED
      BY <3>2, <3>3, <3>4, ElementOfSeq
  <2> QED
    BY <2>1, <2>2
<1>6. ASSUME NEW i \in 1..n, NEW k \in over(i), \A m \in over(i) : m <= k PROVE Max(over(i)) = k
  <2> DEFINE x == Max(over(i))
  <2>1. x \in over(i) /\ k <= x
    BY <1>4
  <2>2. x <= k /\ x \in Nat /\ k \in Nat
    BY <1>1, <1>6, <2>1
  <2> HIDE DEF x
  <2>3. x = k
    BY <2>1, <2>2
  <2> QED
    BY <2>3 DEF x
<1>7. ASSUME NEW i \in 1..n
      PROVE /\ over(i) = {} => cell(i) = buffer[i]
            /\ \A k \in over(i) : (\A m \in over(i) : m <= k) => cell(i) = parts[k].bytes[i - parts[k].at]
  <2>1. over(i) = {} => cell(i) = buffer[i]
    BY Zenon
  <2>2. ASSUME NEW k \in over(i), \A m \in over(i) : m <= k PROVE cell(i) = parts[k].bytes[i - parts[k].at]
    <3>1. Max(over(i)) = k /\ over(i) # {}
      <4> HIDE DEF over
      <4> QED
        BY <1>6, <2>2
    <3> QED
      BY <3>1, Zenon
  <2> HIDE DEF over, cell
  <2> QED
    BY <2>1, <2>2, Zenon
<1> HIDE DEF cell
<1>8. Written(buffer, parts) \in Seq(Cells) /\ Len(Written(buffer, parts)) = n
  <2>1. [i \in 1..n |-> cell(i)] \in [1..n -> Cells]
    BY <1>5
  <2> QED
    BY <1>1, <1>2, <2>1
<1>9. \A i \in 1..n : Written(buffer, parts)[i] = cell(i)
  <2> DEFINE w == Written(buffer, parts)
  <2> HIDE DEF w
  <2>1. w = [i \in 1..n |-> cell(i)]
    BY <1>2 DEF w
  <2>2. \A i \in 1..n : w[i] = cell(i)
    BY <2>1
  <2> QED
    BY <2>2 DEF w
<1> QED
  BY <1>7, <1>8, <1>9, Zenon

LEMMA WrittenNone ==
    ASSUME NEW buffer \in Seq(Cells)
    PROVE  Written(buffer, <<>>) = buffer
<1> DEFINE parts == <<>>
           w == Written(buffer, parts)
<1>1. parts \in Seq([at : Nat, bytes : Seq(Cells)]) /\ DOMAIN parts = {}
  OBVIOUS
<1> HIDE DEF parts
<1>2. w \in Seq(Cells) /\ Len(w) = Len(buffer)
  BY <1>1, WrittenIs
<1>3. \A i \in 1..Len(buffer) : w[i] = buffer[i]
  <2>1. \A i \in 1..Len(buffer) :
           {k \in DOMAIN parts : i \in parts[k].at + 1..parts[k].at + Len(parts[k].bytes)} = {}
    BY <1>1
  <2> QED
    BY <1>1, <2>1, WrittenIs
<1> HIDE DEF w
<1>4. w = buffer
  BY <1>2, <1>3, SeqEqual
<1> QED
  BY <1>4 DEF w, parts

\* A buffer with one part written to it.
IsWrittenOnce(after, buffer, at, bytes) ==
    /\ after \in Seq(Cells) /\ Len(after) = Len(buffer)
    /\ \A i \in 1..Len(buffer) :
          after[i] = IF i \in at + 1..at + Len(bytes) THEN bytes[i - at] ELSE buffer[i]

LEMMA WrittenOnce ==
    ASSUME NEW buffer \in Seq(Cells), NEW at \in Nat, NEW bytes \in Seq(Cells)
    PROVE  IsWrittenOnce(Written(buffer, <<Part(at, bytes)>>), buffer, at, bytes)
<1> DEFINE parts == <<Part(at, bytes)>>
           w == Written(buffer, parts)
<1>1. /\ parts \in Seq([at : Nat, bytes : Seq(Cells)]) /\ DOMAIN parts = {1}
      /\ parts[1].at = at /\ parts[1].bytes = bytes
  BY DEF Part
<1> HIDE DEF parts
<1>2. w \in Seq(Cells) /\ Len(w) = Len(buffer)
  BY <1>1, WrittenIs
<1>3. ASSUME NEW i \in 1..Len(buffer)
      PROVE  w[i] = IF i \in at + 1..at + Len(bytes) THEN bytes[i - at] ELSE buffer[i]
  <2> DEFINE over == {k \in DOMAIN parts : i \in parts[k].at + 1..parts[k].at + Len(parts[k].bytes)}
  <2>1. /\ over = {} => w[i] = buffer[i]
        /\ \A k \in over : (\A m \in over : m <= k) => w[i] = parts[k].bytes[i - parts[k].at]
    BY <1>1, WrittenIs
  <2>2. CASE i \in at + 1..at + Len(bytes)
    <3>1. 1 \in over /\ \A m \in over : m <= 1
      BY <1>1, <2>2
    <3> HIDE DEF over, w
    <3>2. w[i] = parts[1].bytes[i - parts[1].at]
      BY <2>1, <3>1, Zenon
    <3> QED
      BY <1>1, <2>2, <3>2, Zenon
  <2>3. CASE i \notin at + 1..at + Len(bytes)
    <3>1. over = {}
      BY <1>1, <2>3
    <3> HIDE DEF over, w
    <3> QED
      BY <2>1, <2>3, <3>1
  <2> QED
    BY <2>2, <2>3
<1> HIDE DEF w
<1>4. IsWrittenOnce(w, buffer, at, bytes)
  BY <1>2, <1>3 DEF IsWrittenOnce
<1> QED
  BY <1>4 DEF w, parts

\* A buffer with one part and then another written to it.
IsWrittenTwice(after, buffer, at1, bytes1, at2, bytes2) ==
    /\ after \in Seq(Cells) /\ Len(after) = Len(buffer)
    /\ \A i \in 1..Len(buffer) :
          after[i] = IF i \in at2 + 1..at2 + Len(bytes2) THEN bytes2[i - at2]
                     ELSE IF i \in at1 + 1..at1 + Len(bytes1) THEN bytes1[i - at1]
                     ELSE buffer[i]

LEMMA WrittenTwice ==
    ASSUME NEW buffer \in Seq(Cells), NEW at1 \in Nat, NEW bytes1 \in Seq(Cells),
           NEW at2 \in Nat, NEW bytes2 \in Seq(Cells)
    PROVE  IsWrittenTwice(Written(buffer, <<Part(at1, bytes1), Part(at2, bytes2)>>), buffer,
                          at1, bytes1, at2, bytes2)
<1> DEFINE parts == <<Part(at1, bytes1), Part(at2, bytes2)>>
           w == Written(buffer, parts)
<1>1. /\ parts \in Seq([at : Nat, bytes : Seq(Cells)]) /\ DOMAIN parts = {1, 2}
      /\ parts[1].at = at1 /\ parts[1].bytes = bytes1
      /\ parts[2].at = at2 /\ parts[2].bytes = bytes2
  BY DEF Part
<1> HIDE DEF parts
<1>2. w \in Seq(Cells) /\ Len(w) = Len(buffer)
  BY <1>1, WrittenIs
<1>3. ASSUME NEW i \in 1..Len(buffer)
      PROVE  w[i] = IF i \in at2 + 1..at2 + Len(bytes2) THEN bytes2[i - at2]
                    ELSE IF i \in at1 + 1..at1 + Len(bytes1) THEN bytes1[i - at1]
                    ELSE buffer[i]
  <2> DEFINE over == {k \in DOMAIN parts : i \in parts[k].at + 1..parts[k].at + Len(parts[k].bytes)}
  <2>1. /\ over = {} => w[i] = buffer[i]
        /\ \A k \in over : (\A m \in over : m <= k) => w[i] = parts[k].bytes[i - parts[k].at]
    BY <1>1, WrittenIs
  <2>2. CASE i \in at2 + 1..at2 + Len(bytes2)
    <3>1. 2 \in DOMAIN parts /\ \A m \in DOMAIN parts : m <= 2
      BY <1>1
    <3>2. 2 \in over
      BY <1>1, <2>2, <3>1
    <3>3. \A m \in over : m <= 2
      BY <3>1
    <3> HIDE DEF over, w
    <3>4. w[i] = parts[2].bytes[i - parts[2].at]
      BY <2>1, <3>2, <3>3, Zenon
    <3> QED
      BY <1>1, <2>2, <3>4, Zenon
  <2>3. CASE i \notin at2 + 1..at2 + Len(bytes2) /\ i \in at1 + 1..at1 + Len(bytes1)
    <3>1. 1 \in over /\ \A m \in over : m <= 1
      BY <1>1, <2>3
    <3> HIDE DEF over, w
    <3>2. w[i] = parts[1].bytes[i - parts[1].at]
      BY <2>1, <3>1, Zenon
    <3> QED
      BY <1>1, <2>3, <3>2, Zenon
  <2>4. CASE i \notin at2 + 1..at2 + Len(bytes2) /\ i \notin at1 + 1..at1 + Len(bytes1)
    <3>1. over = {}
      BY <1>1, <2>4
    <3> HIDE DEF over, w
    <3> QED
      BY <2>1, <2>4, <3>1
  <2> QED
    BY <2>2, <2>3, <2>4
<1> HIDE DEF w
<1>4. IsWrittenTwice(w, buffer, at1, bytes1, at2, bytes2)
  BY <1>2, <1>3 DEF IsWrittenTwice
<1> QED
  BY <1>4 DEF w, parts

\* A string that has grown for a length: its text is what it was.
GrownFrom(grown, st, length) ==
    /\ IsSound(grown) /\ length < Len(grown.buffer)
    /\ grown.mStringLength = st.mStringLength
    /\ \A i \in 1..st.mStringLength + 1 : grown.buffer[i] = st.buffer[i]

LEMMA PreflightGrows ==
    ASSUME NEW st, IsSound(st), NEW length \in Nat
    PROVE  GrownFrom(preflight(st, length), st, length)
<1> DEFINE required == length + 1
           rest == required % ExpansionChunk
           newBufferLength == required + ExpansionChunk - rest
           cells == [i \in 1..newBufferLength |->
                        IF i <= st.mStringLength + 1 THEN st.buffer[i] ELSE Unwritten]
           longer == [st EXCEPT !.mUsingInternalBuffer = FALSE, !.buffer = cells]
<1>1. /\ st \in StringStates /\ st.mStringLength \in Nat /\ st.buffer \in Seq(Cells)
      /\ Len(st.buffer) \in Nat /\ st.mStringLength < Len(st.buffer)
  BY LenProperties DEF IsSound, StringStates
<1>2. preflight(st, length) = IF length < Len(st.buffer) THEN st ELSE longer
  BY Zenon DEF preflight
<1>3. CASE length < Len(st.buffer)
  BY <1>2, <1>3 DEF GrownFrom, IsSound
<1>4. CASE ~ (length < Len(st.buffer))
  <2>1. required \in Nat /\ ExpansionChunk \in Nat \ {0}
    BY StringConstants
  <2>2. rest \in 0..ExpansionChunk - 1
    BY <2>1
  <2> HIDE DEF rest
  <2>3. newBufferLength \in Nat /\ newBufferLength > required
    BY <2>1, <2>2
  <2> HIDE DEF newBufferLength
  <2>4. cells \in Seq(Cells) /\ Len(cells) = newBufferLength
    <3>1. Unwritten \in Cells /\ \A i \in 1..st.mStringLength + 1 : st.buffer[i] \in Cells
      <4>1. \A i \in 1..st.mStringLength + 1 : i \in 1..Len(st.buffer)
        BY <1>1
      <4> QED
        BY <1>1, <4>1, ElementOfSeq DEF Cells
    <3>2. cells \in [1..newBufferLength -> Cells]
      BY <1>1, <3>1
    <3> QED
      BY <2>3, <3>2
  <2>5. \A i \in 1..st.mStringLength + 1 : cells[i] = st.buffer[i]
    BY <1>1, <1>4, <2>3
  <2> HIDE DEF cells
  <2>6. longer \in StringStates /\ longer.buffer = cells /\ longer.mStringLength = st.mStringLength
        /\ longer.mUsingInternalBuffer = FALSE
    BY <1>1, <2>4 DEF StringStates
  <2> HIDE DEF longer
  <2> QED
    BY <1>1, <1>2, <1>4, <2>3, <2>4, <2>5, <2>6 DEF GrownFrom, IsSound
<1> QED
  BY <1>3, <1>4

LEMMA EmptyBufferIs ==
    /\ EmptyBuffer \in Seq(Cells) /\ Len(EmptyBuffer) = InternalSize /\ EmptyBuffer[1] = Terminator
    /\ InternalSize \in Nat /\ InternalSize > 0
<1>1. InternalSize \in Nat \ {0}
  BY StringConstants
<1>2. Terminator \in Cells /\ Unwritten \in Cells
  BY DEF Cells
<1>3. EmptyBuffer \in [1..InternalSize -> Cells] /\ EmptyBuffer[1] = Terminator
  BY <1>1, <1>2 DEF EmptyBuffer
<1> QED
  BY <1>1, <1>3

LEMMA LengthIsSet ==
    ASSUME NEW st \in StringStates, st.mUsingInternalBuffer => Len(st.buffer) = InternalSize,
           NEW bytes \in Seq(StringBytes), NEW length \in Nat, length = Len(bytes),
           length < Len(st.buffer), HoldsBytes(st.buffer, bytes)
    PROVE  /\ IsSound(_setLength(st, length)) /\ HoldsText(_setLength(st, length), bytes)
           /\ _setLength(st, length).mNumCodePoints = -1
<1> DEFINE internal == st.mUsingInternalBuffer \/ length = 0
           ended == [st.buffer EXCEPT ![length + 1] = Terminator]
           buffer == IF length = 0 /\ ~ st.mUsingInternalBuffer THEN EmptyBuffer ELSE ended
           new == [st EXCEPT !.mUsingInternalBuffer = internal, !.buffer = buffer,
                             !.mStringLength = length, !.mNumCodePoints = -1]
<1>1. st.buffer \in Seq(Cells) /\ Len(st.buffer) \in Nat /\ st.mUsingInternalBuffer \in BOOLEAN
  BY LenProperties DEF StringStates
<1>2. _setLength(st, length) = new
  BY Zenon DEF _setLength
<1>3. /\ ended \in Seq(Cells) /\ Len(ended) = Len(st.buffer) /\ ended[length + 1] = Terminator
      /\ \A i \in 1..length : ended[i] = st.buffer[i]
  <2>1. length + 1 \in 1..Len(st.buffer) /\ Terminator \in Cells
    BY <1>1 DEF Cells
  <2>2. /\ ended \in Seq(Cells) /\ Len(ended) = Len(st.buffer)
        /\ \A i \in 1..Len(st.buffer) : ended[i] = IF i = length + 1 THEN Terminator ELSE st.buffer[i]
    BY <1>1, <2>1
  <2> HIDE DEF ended
  <2> QED
    BY <1>1, <2>1, <2>2
<1> HIDE DEF ended
<1>4. /\ buffer \in Seq(Cells) /\ length < Len(buffer) /\ buffer[length + 1] = Terminator
      /\ internal => Len(buffer) = InternalSize
      /\ \A i \in 1..length : buffer[i] = st.buffer[i]
  <2>1. CASE length = 0 /\ ~ st.mUsingInternalBuffer
    BY <2>1, EmptyBufferIs
  <2>2. CASE ~ (length = 0 /\ ~ st.mUsingInternalBuffer)
    <3>1. buffer = ended
      BY <2>2
    <3>2. internal => st.mUsingInternalBuffer
      BY <2>2
    <3> HIDE DEF buffer, internal
    <3> QED
      BY <1>3, <3>1, <3>2
  <2> QED
    BY <2>1, <2>2
<1>5. internal \in BOOLEAN
  BY <1>1
<1> HIDE DEF buffer, internal
<1>6. /\ new \in StringStates /\ new.buffer = buffer /\ new.mStringLength = length
      /\ new.mUsingInternalBuffer = internal /\ new.mNumCodePoints = -1
  <2> DEFINE sequences == Seq(Cells)
             strings == [mUsingInternalBuffer : BOOLEAN, buffer : sequences, mStringLength : Nat,
                         mNumCodePoints : Int]
  <2>1. buffer \in sequences /\ StringStates = strings /\ -1 \in Int
    BY <1>4 DEF StringStates
  <2> HIDE DEF sequences
  <2>2. st \in strings
    BY <2>1
  <2>3. new \in strings
    BY <1>5, <2>1, <2>2
  <2>4. /\ new.buffer = buffer /\ new.mStringLength = length
        /\ new.mUsingInternalBuffer = internal /\ new.mNumCodePoints = -1
    BY <2>2
  <2> QED
    BY <2>1, <2>3, <2>4
<1> HIDE DEF new
<1>7. IsSound(new)
  BY <1>4, <1>6 DEF IsSound
<1>8. HoldsText(new, bytes)
  BY <1>4, <1>6 DEF HoldsText, HoldsBytes
<1> QED
  BY <1>2, <1>6, <1>7, <1>8

-----------------------------------------------------------------------------
(* What every call keeps *)

StringTypes ==
    /\ IsSound(string) /\ string.mStringLength <= MaxText /\ string.mNumCodePoints \in -1..MaxText
    /\ intended \in Seq(StringBytes) /\ Len(intended) <= MaxText
    /\ stale \in BOOLEAN /\ fault = FALSE

CountIsKnown == ~ stale => string.mNumCodePoints \in {-1, countUTF8CodePoints(intended)}
StringHolds == StringTypes /\ HoldsText(string, intended) /\ CountIsKnown

StringInv ==
    /\ StringTypes /\ damage \in {"none", "replace", "trim"}
    /\ damage = "none" => StringHolds

\* The string has become these bytes, where it should hold the value.
Became(bytes, value) ==
    StringTypes' /\ HoldsText(string', bytes) /\ CountIsKnown' /\ intended' = value

PartsFit(buffer, parts) == \A k \in DOMAIN parts : parts[k].at + Len(parts[k].bytes) <= Len(buffer)

LEMMA BecomesIs ==
    ASSUME NEW grown, IsSound(grown), NEW parts, NEW length \in Nat, length <= MaxText,
           NEW value \in Seq(StringBytes), NEW bytes \in Seq(StringBytes), length = Len(bytes),
           PartsFit(grown.buffer, parts), length < Len(grown.buffer),
           \A k \in DOMAIN parts : parts[k].at \in Nat /\ parts[k].bytes \in Seq(Cells),
           Written(grown.buffer, parts) \in Seq(Cells),
           Len(Written(grown.buffer, parts)) = Len(grown.buffer),
           HoldsBytes(Written(grown.buffer, parts), bytes),
           Becomes(grown, parts, length, value)
    PROVE  Became(bytes, value)
<1> DEFINE past == \/ \E k \in DOMAIN parts : parts[k].at + Len(parts[k].bytes) > Len(grown.buffer)
                   \/ length >= Len(grown.buffer)
           w == Written(grown.buffer, parts)
           st == [grown EXCEPT !.buffer = w]
<1>1. /\ Len(value) <= MaxText /\ fault' = past
      /\ string' = IF past THEN string ELSE _setLength(st, length)
      /\ intended' = value /\ stale' = FALSE
  BY Zenon DEF Becomes
<1>2. past = FALSE
  <2>1. Len(grown.buffer) \in Nat
    BY LenProperties DEF IsSound, StringStates
  <2>2. ASSUME NEW k \in DOMAIN parts PROVE ~ (parts[k].at + Len(parts[k].bytes) > Len(grown.buffer))
    BY <2>1, LenProperties DEF PartsFit
  <2> QED
    BY <2>1, <2>2
<1> HIDE DEF past
<1>3. string' = _setLength(st, length) /\ fault' = FALSE
  BY <1>1, <1>2, Zenon
<1>4. st \in StringStates /\ st.buffer = w /\ st.mUsingInternalBuffer = grown.mUsingInternalBuffer
  <2> HIDE DEF w
  <2>1. w \in Seq(Cells)
    BY DEF w
  <2> QED
    BY <2>1 DEF IsSound, StringStates
<1>5. /\ st.mUsingInternalBuffer => Len(st.buffer) = InternalSize
      /\ length < Len(st.buffer) /\ HoldsBytes(st.buffer, bytes)
  <2> HIDE DEF st
  <2> QED
    BY <1>4 DEF IsSound
<1> HIDE DEF st
<1>6. /\ IsSound(_setLength(st, length)) /\ HoldsText(_setLength(st, length), bytes)
      /\ _setLength(st, length).mNumCodePoints = -1
  BY <1>4, <1>5, LengthIsSet
<1>7. IsSound(string') /\ HoldsText(string', bytes) /\ string'.mNumCodePoints = -1
  BY <1>3, <1>6
<1>8. string'.mStringLength = length /\ MaxText \in Nat
  BY <1>7, StringConstants DEF HoldsText
<1>9. CountIsKnown'
  BY <1>7 DEF CountIsKnown
<1>10. string'.mNumCodePoints \in -1..MaxText /\ string'.mStringLength <= MaxText
  BY <1>7, <1>8
<1>11. Len(value) <= MaxText /\ fault' = FALSE /\ intended' = value /\ stale' = FALSE
  BY <1>1, <1>3
<1>12. StringTypes'
  BY <1>7, <1>10, <1>11, Zenon DEF StringTypes
<1> QED
  BY <1>7, <1>9, <1>11, <1>12 DEF Became

LEMMA BecameHolds ==
    ASSUME NEW value, Became(value, value)
    PROVE  StringHolds'
  BY DEF Became, StringHolds

\* With nothing written, and with one part.
LEMMA BecomesPrefix ==
    ASSUME NEW length \in Nat, length <= MaxText, NEW value \in Seq(StringBytes),
           NEW bytes \in Seq(StringBytes), length = Len(bytes),
           IsSound(string), length < Len(string.buffer), HoldsBytes(string.buffer, bytes),
           Becomes(string, <<>>, length, value)
    PROVE  Became(bytes, value)
<1> DEFINE parts == <<>>
<1>1. DOMAIN parts = {} /\ string.buffer \in Seq(Cells)
  BY DEF IsSound, StringStates
<1>2. Written(string.buffer, parts) = string.buffer
  BY <1>1, WrittenNone
<1>3. Becomes(string, parts, length, value)
  OBVIOUS
<1> HIDE DEF parts
<1>4. PartsFit(string.buffer, parts)
  BY <1>1 DEF PartsFit
<1>5. HoldsBytes(Written(string.buffer, parts), bytes)
  BY <1>2
<1> QED
  BY <1>1, <1>2, <1>3, <1>4, <1>5, BecomesIs

IsOneOf(grown, at, part, bytes) ==
    \A i \in 1..Len(bytes) :
        bytes[i] = IF i \in at + 1..at + Len(part) THEN part[i - at] ELSE grown.buffer[i]

LEMMA BecomesOnce ==
    ASSUME NEW grown, IsSound(grown), NEW at \in Nat, NEW part \in Seq(Cells),
           NEW length \in Nat, length <= MaxText, NEW value \in Seq(StringBytes),
           NEW bytes \in Seq(StringBytes), length = Len(bytes), length < Len(grown.buffer),
           at + Len(part) <= Len(grown.buffer), IsOneOf(grown, at, part, bytes),
           Becomes(grown, <<Part(at, part)>>, length, value)
    PROVE  Became(bytes, value)
<1> DEFINE parts == <<Part(at, part)>>
           w == Written(grown.buffer, parts)
<1>1. grown.buffer \in Seq(Cells) /\ Len(grown.buffer) \in Nat
  BY LenProperties DEF IsSound, StringStates
<1>2. IsWrittenOnce(w, grown.buffer, at, part)
  BY <1>1, WrittenOnce
<1>3. DOMAIN parts = {1} /\ parts[1].at = at /\ parts[1].bytes = part
  BY DEF Part
<1>4. Becomes(grown, parts, length, value)
  OBVIOUS
<1> HIDE DEF parts
<1>5. PartsFit(grown.buffer, parts)
  BY <1>3 DEF PartsFit
<1>6. \A k \in DOMAIN parts : parts[k].at \in Nat /\ parts[k].bytes \in Seq(Cells)
  BY <1>3
<1> HIDE DEF w
<1>7. w \in Seq(Cells) /\ Len(w) = Len(grown.buffer)
  BY <1>2 DEF IsWrittenOnce
<1>8. HoldsBytes(w, bytes)
  <2>1. ASSUME NEW i \in 1..Len(bytes) PROVE w[i] = bytes[i]
    <3>1. i \in 1..Len(grown.buffer)
      BY <1>1
    <3> QED
      BY <1>2, <3>1 DEF IsWrittenOnce, IsOneOf
  <2> QED
    BY <2>1 DEF HoldsBytes
<1> QED
  BY <1>4, <1>5, <1>6, <1>7, <1>8, BecomesIs DEF w

-----------------------------------------------------------------------------
(* The calls *)

LEMMA HoldsIs ==
    ASSUME StringHolds
    PROVE  /\ IsSound(string) /\ string.buffer \in Seq(Cells) /\ Len(string.buffer) \in Nat
           /\ string.mStringLength = Len(intended) /\ Len(intended) \in Nat
           /\ Len(intended) <= MaxText /\ MaxText \in Nat /\ Len(intended) < Len(string.buffer)
           /\ intended \in Seq(StringBytes) /\ TextOf(string) = intended
           /\ \A i \in 1..Len(intended) : string.buffer[i] = intended[i]
<1>1. IsSound(string) /\ HoldsText(string, intended) /\ intended \in Seq(StringBytes) /\ Len(intended) <= MaxText
  BY DEF StringHolds, StringTypes
<1>2. TextOf(string) = intended
  BY <1>1, TextHeld
<1> QED
  BY <1>1, <1>2, LenProperties, StringConstants DEF IsSound, StringStates, HoldsText, HoldsBytes

LEMMA TruncateHolds ==
    ASSUME StringHolds, NEW length \in Nat, length <= Len(intended),
           Becomes(string, <<>>, length, SubSeq(intended, 1, length))
    PROVE  StringHolds'
<1> DEFINE bytes == SubSeq(intended, 1, length)
<1>1. /\ IsSound(string) /\ Len(intended) \in Nat /\ Len(intended) <= MaxText /\ MaxText \in Nat
      /\ Len(intended) < Len(string.buffer) /\ Len(string.buffer) \in Nat /\ intended \in Seq(StringBytes)
      /\ \A i \in 1..Len(intended) : string.buffer[i] = intended[i]
  BY HoldsIs
<1>2. bytes \in Seq(StringBytes) /\ Len(bytes) = length /\ \A i \in 1..length : bytes[i] = intended[i]
  BY <1>1, PrefixIs
<1>3. Becomes(string, <<>>, length, bytes)
  OBVIOUS
<1> HIDE DEF bytes
<1>4. HoldsBytes(string.buffer, bytes)
  BY <1>1, <1>2 DEF HoldsBytes
<1>5. length <= MaxText /\ length < Len(string.buffer)
  BY <1>1
<1>6. Became(bytes, bytes)
  BY <1>1, <1>2, <1>3, <1>4, <1>5, BecomesPrefix
<1> QED
  BY <1>6, BecameHolds

LEMMA TruncatesStep ==
    ASSUME StringHolds, NEW n \in 0..MaxText, Truncates(n)
    PROVE  StringHolds'
<1>1. string.mStringLength = Len(intended) /\ Len(intended) \in Nat /\ MaxText \in Nat
  BY HoldsIs
<1>2. n \in Nat /\ n <= Len(intended) /\ Becomes(string, <<>>, n, SubSeq(intended, 1, n))
  BY <1>1 DEF Truncates
<1> QED
  BY <1>2, TruncateHolds

LEMMA CountHeld ==
    ASSUME StringHolds, ~ stale
    PROVE  numCodePoints = countUTF8CodePoints(intended)
<1>1. TextOf(string) = intended
  BY HoldsIs
<1> QED
  BY <1>1 DEF StringHolds, CountIsKnown, numCodePoints

LEMMA TruncatesCodePointsStep ==
    ASSUME StringHolds, NEW n \in 0..MaxText, TruncatesCodePoints(n)
    PROVE  StringHolds'
<1> DEFINE o == CodePointOffsets(intended)
           c == countUTF8CodePoints(intended)
           offset == o[n]
           value == FlattenSeq(SubSeq(CodePointsOf(intended), 1, n))
<1>1. TextOf(string) = intended /\ intended \in Seq(StringBytes) /\ MaxText \in Nat /\ Len(intended) \in Nat
  BY HoldsIs
<1>2. numCodePoints = c /\ numCodePoints > n /\ Becomes(string, <<>>, offset, value)
  BY <1>1, CountHeld DEF TruncatesCodePoints
<1>3. /\ c \in 0..Len(intended) /\ (\A k \in 0..c - 1 : o[k] < Len(intended))
      /\ \A k \in 0..Len(intended) : o[k] \in Nat
  BY <1>1, CountIs, OffsetsAre, OffsetsGrow
<1> HIDE DEF c, o
<1>4. n \in 0..c /\ n \in 0..c - 1 /\ n \in 0..Len(intended)
  BY <1>1, <1>2, <1>3
<1>5. offset \in Nat /\ offset <= Len(intended)
  BY <1>1, <1>3, <1>4
<1>6. value = SubSeq(intended, 1, offset)
  BY <1>1, <1>4, <1>5, PointsMakeText DEF c, o
<1> HIDE DEF offset, value
<1> QED
  BY <1>2, <1>5, <1>6, TruncateHolds

LEMMA CountsStep ==
    ASSUME StringHolds, CountsCodePoints
    PROVE  StringHolds'
<1> DEFINE c == countUTF8CodePoints(TextOf(string))
<1>1. /\ TextOf(string) = intended /\ intended \in Seq(StringBytes)
      /\ Len(intended) <= MaxText /\ MaxText \in Nat /\ Len(intended) \in Nat
  BY HoldsIs
<1>2. c \in 0..Len(intended) /\ c = countUTF8CodePoints(intended)
  BY <1>1, CountIs
<1>3. /\ string' = [string EXCEPT !.mNumCodePoints = c]
      /\ intended' = intended /\ stale' = stale /\ fault' = fault
  BY DEF CountsCodePoints, numCodePoints
<1> HIDE DEF c
<1>4. c \in -1..MaxText /\ c \in Int
  BY <1>1, <1>2
<1>5. string \in StringStates
  BY DEF StringHolds, StringTypes, IsSound
<1>6. /\ string' \in StringStates /\ string'.buffer = string.buffer
      /\ string'.mStringLength = string.mStringLength /\ string'.mNumCodePoints = c
      /\ string'.mUsingInternalBuffer = string.mUsingInternalBuffer
  BY <1>3, <1>4, <1>5 DEF StringStates
<1>7. IsSound(string') /\ HoldsText(string', intended)
  BY <1>6 DEF StringHolds, StringTypes, IsSound, HoldsText
<1>8. StringTypes'
  BY <1>3, <1>4, <1>6, <1>7 DEF StringHolds, StringTypes
<1>9. CountIsKnown'
  BY <1>2, <1>3, <1>6 DEF CountIsKnown
<1> QED
  BY <1>3, <1>7, <1>8, <1>9 DEF StringHolds

LEMMA OrphansStep ==
    ASSUME StringHolds, Orphans
    PROVE  StringHolds'
<1> DEFINE ended == [string.buffer EXCEPT ![1] = Terminator]
           buffer == IF string.mUsingInternalBuffer THEN ended ELSE EmptyBuffer
           none == <<>>
<1>1. /\ string' = [mUsingInternalBuffer |-> TRUE, buffer |-> buffer, mStringLength |-> 0,
                    mNumCodePoints |-> 0]
      /\ intended' = none /\ stale' = FALSE /\ fault' = fault
  BY DEF Orphans
<1>2. /\ IsSound(string) /\ string.buffer \in Seq(Cells) /\ Len(string.buffer) \in Nat
      /\ Len(intended) < Len(string.buffer) /\ Len(intended) \in Nat /\ MaxText \in Nat
  BY HoldsIs
<1>3. ended \in Seq(Cells) /\ Len(ended) = Len(string.buffer) /\ ended[1] = Terminator
  <2>1. Terminator \in Cells /\ 1 \in 1..Len(string.buffer)
    BY <1>2 DEF Cells
  <2> QED
    BY <1>2, <2>1
<1> HIDE DEF ended
<1>4. /\ buffer \in Seq(Cells) /\ Len(buffer) = InternalSize /\ buffer[1] = Terminator
      /\ 0 < Len(buffer)
  <2>1. CASE string.mUsingInternalBuffer
    BY <1>2, <1>3, <2>1, EmptyBufferIs DEF IsSound
  <2>2. CASE ~ string.mUsingInternalBuffer
    BY <2>2, EmptyBufferIs
  <2> QED
    BY <2>1, <2>2
<1>5. none \in Seq(StringBytes) /\ Len(none) = 0 /\ countUTF8CodePoints(none) = 0
  BY EmptySeq, CountNone
<1> HIDE DEF buffer, none
<1>6. /\ string' \in StringStates /\ string'.buffer = buffer /\ string'.mStringLength = 0
      /\ string'.mNumCodePoints = 0
  <2> DEFINE sequences == Seq(Cells)
             strings == [mUsingInternalBuffer : BOOLEAN, buffer : sequences, mStringLength : Nat,
                         mNumCodePoints : Int]
  <2>1. buffer \in sequences /\ StringStates = strings
    BY <1>4 DEF StringStates
  <2> HIDE DEF sequences
  <2>2. string' \in strings
    BY <1>1, <2>1
  <2> QED
    BY <1>1, <2>1, <2>2
<1>7. IsSound(string') /\ HoldsText(string', none)
  <2>1. IsSound(string')
    BY <1>4, <1>6 DEF IsSound
  <2>2. HoldsText(string', none)
    BY <1>4, <1>5, <1>6 DEF HoldsText, HoldsBytes
  <2> QED
    BY <2>1, <2>2
<1>8. StringTypes'
  <2>1. 0 <= MaxText /\ 0 \in -1..MaxText /\ fault = FALSE
    BY <1>2 DEF StringHolds, StringTypes
  <2> QED
    BY <1>1, <1>5, <1>6, <1>7, <2>1, Zenon DEF StringTypes
<1>9. CountIsKnown'
  BY <1>1, <1>5, <1>6 DEF CountIsKnown
<1> QED
  BY <1>1, <1>7, <1>8, <1>9 DEF StringHolds

LEMMA PiecesAre == \A s \in Pieces : s \in Seq(StringBytes)
  BY StringConstants

LEMMA AssignHolds ==
    ASSUME NEW grown, IsSound(grown), NEW s \in Seq(StringBytes), Len(s) < Len(grown.buffer),
           Becomes(grown, <<Part(0, Append(s, Terminator))>>, Len(s), s)
    PROVE  StringHolds'
<1> DEFINE part == Append(s, Terminator)
           at == 0
           length == Len(s)
<1>1. length \in Nat /\ at \in Nat /\ length <= MaxText /\ Len(grown.buffer) \in Nat
  BY LenProperties, Zenon DEF Becomes, IsSound, StringStates
<1>2. /\ part \in Seq(Cells) /\ Len(part) = length + 1
      /\ \A i \in 1..length : part[i] = s[i]
  <2>1. s \in Seq(Cells) /\ Terminator \in Cells
    BY BytesAreCells DEF Cells
  <2> QED
    BY <2>1, AppendProperties
<1>3. Becomes(grown, <<Part(at, part)>>, length, s) /\ length = Len(s)
  OBVIOUS
<1> HIDE DEF part
<1>4. IsOneOf(grown, at, part, s)
  <2>1. ASSUME NEW i \in 1..length PROVE i \in at + 1..at + Len(part) /\ s[i] = part[i - at]
    BY <1>1, <1>2
  <2> QED
    BY <2>1 DEF IsOneOf
<1>5. at + Len(part) <= Len(grown.buffer) /\ length < Len(grown.buffer)
  BY <1>1, <1>2
<1> HIDE DEF at, length
<1>6. Became(s, s)
  BY <1>1, <1>2, <1>3, <1>4, <1>5, BecomesOnce
<1> QED
  BY <1>6, BecameHolds

LEMMA EmptiesHolds ==
    ASSUME StringHolds, Becomes(string, <<>>, 0, <<>>)
    PROVE  StringHolds'
<1> DEFINE z == 0
<1>1. Len(intended) \in Nat /\ intended \in Seq(StringBytes)
  BY HoldsIs
<1>2. SubSeq(intended, 1, 0) = <<>>
  BY <1>1, SubSeqEmpty
<1>3. z \in Nat /\ z <= Len(intended)
  BY <1>1
<1>4. Becomes(string, <<>>, z, SubSeq(intended, 1, z))
  BY <1>2
<1> HIDE DEF z
<1> QED
  BY <1>3, <1>4, TruncateHolds

LEMMA AssignsStep ==
    ASSUME StringHolds, NEW s \in Pieces, AssignsString(s)
    PROVE  StringHolds'
<1>1. s \in Seq(StringBytes) /\ Len(s) \in Nat /\ IsSound(string)
  BY PiecesAre, LenProperties, HoldsIs
<1>2. CASE s = <<>>
  <2>1. Becomes(string, <<>>, Len(<<>>), <<>>)
    BY <1>2, Zenon DEF AssignsString
  <2>2. Len(<<>>) = 0
    BY EmptySeq
  <2> QED
    BY <2>1, <2>2, EmptiesHolds
<1>3. CASE s # <<>>
  <2> DEFINE grown == preflight(string, Len(s))
  <2>1. Becomes(grown, <<Part(0, Append(s, Terminator))>>, Len(s), s)
    BY <1>3, Zenon DEF AssignsString
  <2>2. GrownFrom(grown, string, Len(s))
    BY <1>1, PreflightGrows
  <2> HIDE DEF grown
  <2>3. IsSound(grown) /\ Len(s) < Len(grown.buffer)
    BY <2>2 DEF GrownFrom
  <2> QED
    BY <1>1, <2>1, <2>3, AssignHolds
<1> QED
  BY <1>2, <1>3

\* A string that has grown holds the text still.
LEMMA GrownHolds ==
    ASSUME StringHolds, NEW length \in Nat
    PROVE  LET grown == preflight(string, length)
           IN  /\ IsSound(grown) /\ length < Len(grown.buffer) /\ HoldsText(grown, intended)
               /\ TextOf(grown) = intended /\ grown.buffer \in Seq(Cells)
               /\ \A i \in 1..Len(intended) : grown.buffer[i] = intended[i]
<1> DEFINE grown == preflight(string, length)
<1>1. IsSound(string) /\ intended \in Seq(StringBytes) /\ Len(intended) \in Nat
      /\ HoldsText(string, intended) /\ string.mStringLength = Len(intended)
  BY HoldsIs DEF StringHolds
<1>2. GrownFrom(grown, string, length)
  BY <1>1, PreflightGrows
<1> HIDE DEF grown
<1>3. /\ IsSound(grown) /\ length < Len(grown.buffer) /\ HoldsText(grown, intended)
      /\ \A i \in 1..Len(intended) : grown.buffer[i] = intended[i]
  BY <1>1, <1>2 DEF GrownFrom, HoldsText, HoldsBytes
<1>4. TextOf(grown) = intended
  BY <1>1, <1>3, TextHeld
<1> QED
  BY <1>3, <1>4 DEF IsSound, StringStates, grown

LEMMA AppendHolds ==
    ASSUME StringHolds, NEW part \in Seq(StringBytes), NEW length, length = Len(intended) + Len(part),
           Becomes(preflight(string, length), <<Part(Len(intended), part)>>, length, intended \o part)
    PROVE  StringHolds'
<1> DEFINE grown == preflight(string, length)
           at == Len(intended)
           bytes == intended \o part
<1>1. intended \in Seq(StringBytes) /\ at \in Nat /\ Len(part) \in Nat /\ length \in Nat
  BY HoldsIs, LenProperties
<1>2. /\ IsSound(grown) /\ length < Len(grown.buffer) /\ Len(grown.buffer) \in Nat
      /\ \A i \in 1..at : grown.buffer[i] = intended[i]
  BY <1>1, GrownHolds, LenProperties
<1>3. /\ bytes \in Seq(StringBytes) /\ Len(bytes) = length
      /\ (\A i \in 1..at : bytes[i] = intended[i])
      /\ \A i \in at + 1..length : bytes[i] = part[i - at]
  <2>1. bytes \in Seq(StringBytes) /\ Len(bytes) = length
    BY <1>1, ConcatProperties
  <2>2. \A i \in 1..length : bytes[i] = IF i <= at THEN intended[i] ELSE part[i - at]
    BY <1>1, ConcatProperties
  <2>3. length = at + Len(part)
    OBVIOUS
  <2> HIDE DEF bytes, at
  <2>4. \A i \in 1..at : bytes[i] = intended[i]
    BY <1>1, <2>2, <2>3
  <2>5. \A i \in at + 1..length : bytes[i] = part[i - at]
    BY <1>1, <2>2, <2>3
  <2> QED
    BY <2>1, <2>4, <2>5
<1>4. Becomes(grown, <<Part(at, part)>>, length, bytes) /\ part \in Seq(Cells)
  BY BytesAreCells
<1> HIDE DEF grown, bytes, at
<1>5. length <= MaxText
  BY <1>3, <1>4, Zenon DEF Becomes
<1>6. IsOneOf(grown, at, part, bytes)
  <2>1. ASSUME NEW i \in 1..Len(bytes)
        PROVE  bytes[i] = IF i \in at + 1..at + Len(part) THEN part[i - at] ELSE grown.buffer[i]
    <3>1. length = at + Len(part)
      BY DEF at
    <3>2. CASE i <= at
      BY <1>1, <1>2, <1>3, <3>2
    <3>3. CASE ~ (i <= at)
      BY <1>1, <1>3, <3>1, <3>3
    <3> QED
      BY <3>2, <3>3
  <2> QED
    BY <2>1 DEF IsOneOf
<1>7. at + Len(part) <= Len(grown.buffer)
  BY <1>1, <1>2 DEF at
<1>8. Became(bytes, bytes)
  BY <1>1, <1>2, <1>3, <1>4, <1>5, <1>6, <1>7, BecomesOnce
<1> QED
  BY <1>8, BecameHolds

LEMMA AppendsStringStep ==
    ASSUME StringHolds, NEW s \in Pieces, AppendsString(s)
    PROVE  StringHolds'
<1>1. s \in Seq(StringBytes) /\ string.mStringLength = Len(intended)
  BY PiecesAre, HoldsIs
<1>2. Becomes(preflight(string, Len(intended) + Len(s)), <<Part(Len(intended), s)>>,
              Len(intended) + Len(s), intended \o s)
  BY <1>1 DEF AppendsString
<1> QED
  BY <1>1, <1>2, AppendHolds

LEMMA AppendsItselfStep ==
    ASSUME StringHolds, AppendsItself
    PROVE  StringHolds'
<1> DEFINE length == 2 * Len(intended)
           grown == preflight(string, length)
<1>1. intended \in Seq(StringBytes) /\ Len(intended) \in Nat /\ string.mStringLength = Len(intended)
  BY HoldsIs
<1>2. Becomes(grown, <<Part(Len(intended), TextOf(grown))>>, length, intended \o intended)
  BY <1>1 DEF AppendsItself
<1>3. length \in Nat /\ length = Len(intended) + Len(intended)
  BY <1>1
<1> HIDE DEF length
<1>4. TextOf(grown) = intended
  BY <1>3, GrownHolds
<1>5. Becomes(grown, <<Part(Len(intended), intended)>>, length, intended \o intended)
  BY <1>2, <1>4
<1> QED
  BY <1>1, <1>3, <1>5, AppendHolds

-----------------------------------------------------------------------------
(* insert() and substringInPlace() *)

IsTwoOf(grown, at1, part1, at2, part2, bytes) ==
    \A i \in 1..Len(bytes) :
        bytes[i] = IF i \in at2 + 1..at2 + Len(part2) THEN part2[i - at2]
                   ELSE IF i \in at1 + 1..at1 + Len(part1) THEN part1[i - at1]
                   ELSE grown.buffer[i]

LEMMA BecomesTwice ==
    ASSUME NEW grown, IsSound(grown), NEW at1 \in Nat, NEW part1 \in Seq(Cells),
           NEW at2 \in Nat, NEW part2 \in Seq(Cells), NEW bytes \in Seq(StringBytes),
           NEW length \in Nat, length <= MaxText, length = Len(bytes), length < Len(grown.buffer),
           at1 + Len(part1) <= Len(grown.buffer), at2 + Len(part2) <= Len(grown.buffer),
           IsTwoOf(grown, at1, part1, at2, part2, bytes),
           Becomes(grown, <<Part(at1, part1), Part(at2, part2)>>, length, bytes)
    PROVE  StringHolds'
<1> DEFINE parts == <<Part(at1, part1), Part(at2, part2)>>
           w == Written(grown.buffer, parts)
<1>1. grown.buffer \in Seq(Cells) /\ Len(grown.buffer) \in Nat
  BY LenProperties DEF IsSound, StringStates
<1>2. IsWrittenTwice(w, grown.buffer, at1, part1, at2, part2)
  BY <1>1, WrittenTwice
<1>3. /\ DOMAIN parts = {1, 2} /\ parts[1].at = at1 /\ parts[1].bytes = part1
      /\ parts[2].at = at2 /\ parts[2].bytes = part2
  BY DEF Part
<1>4. Becomes(grown, parts, length, bytes)
  OBVIOUS
<1> HIDE DEF parts
<1>5. PartsFit(grown.buffer, parts)
  BY <1>3 DEF PartsFit
<1>6. \A k \in DOMAIN parts : parts[k].at \in Nat /\ parts[k].bytes \in Seq(Cells)
  BY <1>3
<1> HIDE DEF w
<1>7. w \in Seq(Cells) /\ Len(w) = Len(grown.buffer)
  BY <1>2 DEF IsWrittenTwice
<1>8. HoldsBytes(w, bytes)
  <2>1. ASSUME NEW i \in 1..Len(bytes) PROVE w[i] = bytes[i]
    <3>1. i \in 1..Len(grown.buffer)
      BY <1>1
    <3> QED
      BY <1>2, <3>1 DEF IsWrittenTwice, IsTwoOf
  <2> QED
    BY <2>1 DEF HoldsBytes
<1>9. Became(bytes, bytes)
  BY <1>4, <1>5, <1>6, <1>7, <1>8, BecomesIs DEF w
<1> QED
  BY <1>9, BecameHolds

\* A sequence with another one inserted.
InsertedAs(bytes, given, s, at) ==
    /\ bytes \in Seq(StringBytes) /\ Len(bytes) = Len(given) + Len(s)
    /\ \A i \in 1..Len(bytes) :
          bytes[i] = IF i <= at THEN given[i]
                     ELSE IF i <= at + Len(s) THEN s[i - at]
                     ELSE given[i - Len(s)]

LEMMA InsertedIs ==
    ASSUME NEW given \in Seq(StringBytes), NEW s \in Seq(StringBytes), NEW at \in 0..Len(given)
    PROVE  InsertedAs(SubSeq(given, 1, at) \o s \o SubSeq(given, at + 1, Len(given)), given, s, at)
<1> DEFINE n == Len(given)
           m == Len(s)
           a == SubSeq(given, 1, at)
           b == SubSeq(given, at + 1, n)
           as == a \o s
           bytes == as \o b
<1>1. n \in Nat /\ m \in Nat /\ at \in Nat /\ at <= n /\ n \in 0..n
  BY LenProperties
<1>2. a \in Seq(StringBytes) /\ Len(a) = at /\ \A i \in 1..at : a[i] = given[i]
  BY PrefixIs
<1>3. b \in Seq(StringBytes) /\ Len(b) = n - at /\ \A i \in 1..n - at : b[i] = given[at + i]
  <2> HIDE DEF n
  <2>1. n = Len(given)
    BY DEF n
  <2> QED
    BY <1>1, <2>1, PartIs
<1> HIDE DEF a, b
<1>4. /\ as \in Seq(StringBytes) /\ Len(as) = at + m
      /\ \A i \in 1..at + m : as[i] = IF i <= at THEN a[i] ELSE s[i - at]
  BY <1>2, ConcatProperties
<1> HIDE DEF as, m, n
<1>5. /\ bytes \in Seq(StringBytes) /\ Len(bytes) = (at + m) + (n - at)
      /\ \A i \in 1..(at + m) + (n - at) : bytes[i] = IF i <= at + m THEN as[i] ELSE b[i - (at + m)]
  <2>1. as \in Seq(StringBytes) /\ b \in Seq(StringBytes)
    BY <1>3, <1>4
  <2>2. /\ bytes \in Seq(StringBytes) /\ Len(bytes) = Len(as) + Len(b)
        /\ \A i \in 1..Len(as) + Len(b) : bytes[i] = IF i <= Len(as) THEN as[i] ELSE b[i - Len(as)]
    BY <2>1, ConcatProperties
  <2>3. Len(as) = at + m /\ Len(b) = n - at
    BY <1>3, <1>4
  <2> HIDE DEF bytes
  <2> QED
    BY <2>2, <2>3, Zenon
<1>6. Len(bytes) = n + m /\ (at + m) + (n - at) = n + m
  BY <1>1, <1>5
<1>7. bytes = SubSeq(given, 1, at) \o s \o SubSeq(given, at + 1, Len(given))
  BY DEF a, b, as, n
<1> HIDE DEF bytes
<1>8. ASSUME NEW i \in 1..Len(bytes)
      PROVE  bytes[i] = IF i <= at THEN given[i] ELSE IF i <= at + m THEN s[i - at] ELSE given[i - m]
  <2>1. i \in Nat /\ i >= 1 /\ i <= n + m
    BY <1>1, <1>6
  <2>2. CASE i <= at
    <3>1. i \in 1..at /\ i \in 1..at + m /\ i <= at + m
      BY <1>1, <2>1, <2>2
    <3> QED
      BY <1>2, <1>4, <1>5, <1>6, <2>2, <3>1
  <2>3. CASE ~ (i <= at) /\ i <= at + m
    <3>1. i \in 1..at + m
      BY <1>1, <2>1, <2>3
    <3> QED
      BY <1>4, <1>5, <1>6, <2>3, <3>1
  <2>4. CASE ~ (i <= at) /\ ~ (i <= at + m)
    <3> DEFINE p == i - (at + m)
    <3>1. p \in 1..n - at /\ at + p = i - m
      BY <1>1, <2>1, <2>4
    <3>2. bytes[i] = b[p]
      BY <1>5, <1>6, <2>4
    <3> HIDE DEF p
    <3> QED
      BY <1>3, <2>4, <3>1, <3>2
  <2> QED
    BY <2>2, <2>3, <2>4
<1>9. InsertedAs(bytes, given, s, at)
  BY <1>5, <1>6, <1>8 DEF InsertedAs, n, m
<1> QED
  BY <1>7, <1>9

LEMMA InsertHolds ==
    ASSUME StringHolds, NEW s \in Seq(StringBytes), NEW offset \in Int, Inserts(s, s, offset)
    PROVE  StringHolds'
<1> DEFINE n == Len(intended)
           m == Len(s)
           length == n + m
           at == Clamped(0, offset, n)
           grown == preflight(string, length)
           rest == SubSeq(grown.buffer, at + 1, n)
           bytes == SubSeq(intended, 1, at) \o s \o SubSeq(intended, at + 1, n)
           moved == at + m
<1>1. /\ intended \in Seq(StringBytes) /\ n \in Nat /\ m \in Nat /\ length \in Nat
      /\ string.mStringLength = n
  BY HoldsIs, LenProperties
<1>2. Becomes(grown, <<Part(moved, rest), Part(at, s)>>, length, bytes)
  BY <1>1, Zenon DEF Inserts
<1>3. at \in 0..n
  BY <1>1 DEF Clamped
<1>4. /\ IsSound(grown) /\ length < Len(grown.buffer) /\ grown.buffer \in Seq(Cells)
      /\ \A i \in 1..n : grown.buffer[i] = intended[i]
  BY <1>1, GrownHolds
<1>5. Len(grown.buffer) \in Nat
  BY <1>4, LenProperties
<1>6. InsertedAs(bytes, intended, s, at)
  BY <1>1, <1>3, InsertedIs
<1> HIDE DEF grown, at, bytes
<1>7. rest \in Seq(Cells) /\ Len(rest) = n - at /\ \A i \in 1..n - at : rest[i] = intended[at + i]
  <2>1. at \in 0..Len(grown.buffer) /\ n \in 0..Len(grown.buffer) /\ at <= n
    BY <1>1, <1>3, <1>4, <1>5
  <2> HIDE DEF n
  <2>2. /\ rest \in Seq(Cells) /\ Len(rest) = n - at
        /\ \A i \in 1..n - at : rest[i] = grown.buffer[at + i]
    BY <1>4, <2>1, PartIs
  <2>3. \A i \in 1..n - at : at + i \in 1..n
    BY <1>1, <1>3
  <2> QED
    BY <1>4, <2>2, <2>3
<1> HIDE DEF rest
<1>8. bytes \in Seq(StringBytes) /\ length = Len(bytes)
  BY <1>6 DEF InsertedAs
<1>9. length <= MaxText
  BY <1>2, <1>8, Zenon DEF Becomes
<1>10. s \in Seq(Cells)
  BY BytesAreCells
<1>11. moved \in Nat /\ at \in Nat
  BY <1>1, <1>3
<1>12. moved + Len(rest) <= Len(grown.buffer) /\ at + Len(s) <= Len(grown.buffer)
  <2>1. Len(s) = m
    OBVIOUS
  <2> HIDE DEF m, n
  <2> QED
    BY <1>1, <1>3, <1>4, <1>5, <1>7, <2>1
<1>13. ASSUME NEW i \in 1..length
       PROVE  bytes[i] = IF i \in at + 1..at + Len(s) THEN s[i - at]
                         ELSE IF i \in moved + 1..moved + Len(rest) THEN rest[i - moved]
                         ELSE grown.buffer[i]
  <2>1. bytes[i] = IF i <= at THEN intended[i]
                   ELSE IF i <= at + m THEN s[i - at] ELSE intended[i - m]
    BY <1>6, <1>8 DEF InsertedAs
  <2>2. Len(s) = m
    OBVIOUS
  <2> HIDE DEF m, n
  <2>3. i \in Nat /\ i >= 1 /\ i <= n + m
    BY <1>1
  <2>4. CASE i <= at
    <3>1. i \notin at + 1..at + m /\ i \notin moved + 1..moved + Len(rest) /\ i \in 1..n
      BY <1>1, <1>3, <1>7, <2>3, <2>4
    <3> QED
      BY <1>4, <2>1, <2>2, <2>4, <3>1
  <2>5. CASE ~ (i <= at) /\ i <= at + m
    <3>1. i \in at + 1..at + m
      BY <1>1, <1>3, <2>3, <2>5
    <3> QED
      BY <2>1, <2>2, <2>5, <3>1
  <2>6. CASE ~ (i <= at) /\ ~ (i <= at + m)
    <3> DEFINE p == i - moved
    <3>1. i \notin at + 1..at + m /\ i \in moved + 1..moved + Len(rest)
      BY <1>1, <1>3, <1>7, <2>3, <2>6
    <3>2. p \in 1..n - at /\ at + p = i - m
      BY <1>1, <1>3, <2>3, <2>6
    <3>3. rest[p] = intended[i - m]
      <4> HIDE DEF p
      <4> QED
        BY <1>7, <3>2
    <3> HIDE DEF moved
    <3> QED
      BY <2>1, <2>2, <2>6, <3>1, <3>3
  <2> QED
    BY <2>4, <2>5, <2>6
<1>14. IsTwoOf(grown, moved, rest, at, s, bytes)
  BY <1>8, <1>13 DEF IsTwoOf
<1> HIDE DEF moved, length
<1> QED
  BY <1>1, <1>2, <1>4, <1>7, <1>8, <1>9, <1>10, <1>11, <1>12, <1>14, BecomesTwice

LEMMA InsertsStep ==
    ASSUME StringHolds, NEW s \in Pieces, NEW offset \in -1..MaxText, InsertsString(s, offset)
    PROVE  StringHolds'
<1>1. s \in Seq(StringBytes) /\ offset \in Int /\ Inserts(s, s, offset)
  BY PiecesAre, StringConstants DEF InsertsString
<1> QED
  BY <1>1, InsertHolds

LEMMA InsertsItselfStep ==
    ASSUME StringHolds, NEW offset \in 0..MaxText, InsertsItself(offset)
    PROVE  StringHolds'
<1>1. intended \in Seq(StringBytes) /\ TextOf(string) = intended /\ offset \in Int
  BY HoldsIs, StringConstants
<1>2. Inserts(intended, intended, offset)
  BY <1>1, Zenon DEF InsertsItself, CopyFirst
<1> QED
  BY <1>1, <1>2, InsertHolds

LEMMA CountUpTo ==
    ASSUME NEW n \in Nat, NEW m \in Int
    PROVE  Cardinality({i \in 1..n : i <= m}) = Clamped(0, m, n) /\ Clamped(0, m, n) \in 0..n
<1> DEFINE c == Clamped(0, m, n)
           z == 1
<1>1. c \in 0..n
  BY DEF Clamped
<1>2. {i \in 1..n : i <= m} = z..c
  BY DEF Clamped
<1> HIDE DEF c, z
<1>3. z \in Int /\ c \in Int
  BY <1>1 DEF z
<1>4. Cardinality(z..c) = IF z > c THEN 0 ELSE c - z + 1
  BY <1>3, FS_Interval
<1>5. Cardinality(z..c) = c
  BY <1>1, <1>4 DEF z
<1> QED
  BY <1>1, <1>2, <1>5 DEF c

LEMMA SubstringStep ==
    ASSUME StringHolds, NEW startIndex \in -1..MaxText, NEW endIndex \in -1..MaxText,
           SubstringInPlace(startIndex, endIndex)
    PROVE  StringHolds'
<1> DEFINE n == Len(intended)
           start == Clamped(0, startIndex, n)
           last == IF endIndex = -1 THEN n ELSE endIndex
           end == Clamped(start, last, n)
           length == end - start
           before == {i \in DOMAIN intended : i <= startIndex}
           upTo == {i \in DOMAIN intended : i <= startIndex \/ (startIndex < i /\ i <= last)}
           part == SubSeq(string.buffer, start + 1, end)
           bytes == SubSeq(intended, start + 1, end)
           at == 0
<1>1. /\ IsSound(string) /\ string.buffer \in Seq(Cells) /\ intended \in Seq(StringBytes)
      /\ Len(string.buffer) \in Nat /\ string.mStringLength = n /\ n \in Nat /\ n <= MaxText
      /\ MaxText \in Nat /\ n < Len(string.buffer) /\ DOMAIN intended = 1..n
      /\ \A i \in 1..n : string.buffer[i] = intended[i]
  BY HoldsIs
<1>2. Becomes(string, <<Part(0, part)>>, length, SubSeq(intended, 1 + Cardinality(before), Cardinality(upTo)))
  BY <1>1, Zenon DEF SubstringInPlace
<1> HIDE DEF n
<1>3. startIndex \in Int /\ last \in Int
  BY <1>1
<1>4. start \in 0..n /\ end \in start..n
  BY <1>1, <1>3 DEF Clamped
<1>5. Cardinality(before) = start
  <2>1. before = {i \in 1..n : i <= startIndex}
    BY <1>1
  <2> QED
    BY <1>1, <1>3, <2>1, CountUpTo
<1>6. Cardinality(upTo) = end
  <2> DEFINE m == IF startIndex < last THEN last ELSE startIndex
  <2>1. upTo = {i \in 1..n : i <= m} /\ m \in Int
    BY <1>1, <1>3
  <2>2. Clamped(0, m, n) = end
    BY <1>1, <1>3 DEF Clamped
  <2> HIDE DEF m, end
  <2> QED
    BY <1>1, <2>1, <2>2, CountUpTo
<1> HIDE DEF before, upTo, start, last, end
<1>7. 1 + Cardinality(before) = start + 1
  BY <1>4, <1>5
<1>8. Becomes(string, <<Part(at, part)>>, length, bytes)
  BY <1>2, <1>6, <1>7
<1>9. /\ start \in 0..Len(intended) /\ end \in 0..Len(intended) /\ start <= end
      /\ start \in 0..Len(string.buffer) /\ end \in 0..Len(string.buffer)
      /\ start \in Nat /\ end \in Nat
  BY <1>1, <1>4 DEF n
<1>10. bytes \in Seq(StringBytes) /\ Len(bytes) = length /\ \A i \in 1..length : bytes[i] = intended[start + i]
  BY <1>1, <1>9, PartIs
<1>11. /\ part \in Seq(Cells) /\ Len(part) = length
       /\ \A i \in 1..length : part[i] = string.buffer[start + i]
  BY <1>1, <1>9, PartIs
<1> HIDE DEF bytes, part
<1>12. length \in Nat /\ length <= n /\ at \in Nat
  BY <1>1, <1>4
<1>13. IsOneOf(string, at, part, bytes)
  <2>1. ASSUME NEW i \in 1..length PROVE i \in at + 1..at + Len(part) /\ bytes[i] = part[i - at]
    <3>1. start + i \in 1..n /\ i - at = i /\ i \in at + 1..at + Len(part)
      BY <1>1, <1>4, <1>11
    <3> QED
      BY <1>1, <1>10, <1>11, <3>1
  <2> QED
    BY <1>10, <2>1 DEF IsOneOf
<1>14. at + Len(part) <= Len(string.buffer) /\ length <= MaxText /\ length < Len(string.buffer)
  BY <1>1, <1>11, <1>12
<1> HIDE DEF at, length
<1>15. Became(bytes, bytes)
  BY <1>1, <1>8, <1>10, <1>11, <1>12, <1>13, <1>14, BecomesOnce
<1> QED
  BY <1>15, BecameHolds

-----------------------------------------------------------------------------
(* set(), the case folding, trim() and replace() *)

LEMMA ChangeHolds ==
    ASSUME StringHolds, NEW bytes \in Seq(StringBytes), Len(bytes) = Len(intended), ChangesInPlace(bytes)
    PROVE  StringHolds'
<1> DEFINE w == Written(string.buffer, <<Part(0, bytes)>>)
           at == 0
           other == countUTF8CodePoints(bytes) # countUTF8CodePoints(intended)
<1>1. /\ IsSound(string) /\ string.buffer \in Seq(Cells) /\ intended \in Seq(StringBytes)
      /\ Len(string.buffer) \in Nat /\ Len(intended) \in Nat /\ Len(intended) <= MaxText
      /\ Len(intended) < Len(string.buffer) /\ string.mStringLength = Len(intended)
  BY HoldsIs
<1>2. /\ string' = [string EXCEPT !.buffer = w] /\ intended' = bytes
      /\ stale' = (stale \/ (string.mNumCodePoints # -1 /\ other)) /\ fault' = fault
  BY Zenon DEF ChangesInPlace, WriteAt
<1>3. IsWrittenOnce(w, string.buffer, at, bytes)
  <2>1. bytes \in Seq(Cells) /\ at \in Nat
    BY BytesAreCells
  <2> QED
    BY <1>1, <2>1, WrittenOnce
<1> HIDE DEF w
<1>4. /\ w \in Seq(Cells) /\ Len(w) = Len(string.buffer)
      /\ (\A i \in 1..Len(bytes) : w[i] = bytes[i])
      /\ w[Len(bytes) + 1] = string.buffer[Len(bytes) + 1]
  <2>1. \A i \in 1..Len(bytes) : i \in 1..Len(string.buffer) /\ i \in at + 1..at + Len(bytes) /\ i - at = i
    BY <1>1
  <2>2. Len(bytes) + 1 \in 1..Len(string.buffer) /\ Len(bytes) + 1 \notin at + 1..at + Len(bytes)
    BY <1>1
  <2> HIDE DEF at
  <2> QED
    BY <1>3, <2>1, <2>2 DEF IsWrittenOnce
<1>5. /\ string' \in StringStates /\ string'.buffer = w /\ string'.mStringLength = string.mStringLength
      /\ string'.mNumCodePoints = string.mNumCodePoints
      /\ string'.mUsingInternalBuffer = string.mUsingInternalBuffer
  <2>1. string \in StringStates
    BY <1>1 DEF IsSound
  <2> QED
    BY <1>2, <1>4, <2>1 DEF StringStates
<1>6. IsSound(string')
  BY <1>1, <1>4, <1>5 DEF IsSound
<1>7. HoldsText(string', bytes)
  BY <1>1, <1>4, <1>5 DEF StringHolds, HoldsText, HoldsBytes
<1>8. stale' \in BOOLEAN /\ (~ stale' => ~ stale /\ (string.mNumCodePoints = -1 \/ ~ other))
  <2>1. stale \in BOOLEAN
    BY DEF StringHolds, StringTypes
  <2> QED
    BY <1>2, <2>1
<1>9. StringTypes'
  <2>1. string.mStringLength <= MaxText /\ string.mNumCodePoints \in -1..MaxText /\ fault = FALSE
    BY DEF StringHolds, StringTypes
  <2>2. Len(bytes) <= MaxText
    BY <1>1
  <2> QED
    BY <1>2, <1>5, <1>6, <1>8, <2>1, <2>2, Zenon DEF StringTypes
<1>10. CountIsKnown'
  <2>1. ASSUME ~ stale' PROVE string'.mNumCodePoints \in {-1, countUTF8CodePoints(bytes)}
    BY <1>5, <1>8, <2>1 DEF StringHolds, CountIsKnown
  <2> QED
    BY <1>2, <2>1 DEF CountIsKnown
<1> QED
  BY <1>2, <1>7, <1>9, <1>10 DEF StringHolds

LEMMA SetsStep ==
    ASSUME StringHolds, NEW i \in 0..MaxText - 1, NEW c \in {"a", "C2"}, SetsByte(i, c)
    PROVE  StringHolds'
<1> DEFINE bytes == [intended EXCEPT ![i + 1] = c]
<1>1. TextOf(string) = intended /\ intended \in Seq(StringBytes) /\ string.mStringLength = Len(intended)
  BY HoldsIs
<1>2. ChangesInPlace(bytes)
  BY <1>1 DEF SetsByte
<1>3. bytes \in Seq(StringBytes) /\ Len(bytes) = Len(intended)
  <2> DEFINE k == i + 1
  <2>1. c \in StringBytes
    BY DEF StringBytes
  <2>2. [intended EXCEPT ![k] = c] \in Seq(StringBytes) /\ Len([intended EXCEPT ![k] = c]) = Len(intended)
    <3>1. k \in 1..Len(intended)
      BY <1>1, LenProperties DEF SetsByte
    <3> HIDE DEF k
    <3> QED
      BY <1>1, <2>1, <3>1
  <2> QED
    BY <2>2
<1> HIDE DEF bytes
<1> QED
  BY <1>2, <1>3, ChangeHolds

LEMMA FoldsStep ==
    ASSUME StringHolds, FoldsToUpper
    PROVE  StringHolds'
<1> DEFINE n == Len(intended)
           bytes == [i \in 1..n |-> IF string.buffer[i] = "a" THEN "A" ELSE string.buffer[i]]
<1>1. /\ intended \in Seq(StringBytes) /\ string.mStringLength = n /\ n \in Nat
      /\ \A i \in 1..n : string.buffer[i] = intended[i]
  BY HoldsIs
<1>2. ChangesInPlace(bytes)
  BY <1>1, Zenon DEF FoldsToUpper
<1>3. bytes \in Seq(StringBytes) /\ Len(bytes) = n
  <2>1. \A i \in 1..n : string.buffer[i] \in StringBytes
    BY <1>1, ElementOfSeq
  <2>2. "A" \in StringBytes
    BY DEF StringBytes
  <2>3. bytes \in [1..n -> StringBytes]
    BY <2>1, <2>2
  <2> HIDE DEF bytes
  <2> QED
    BY <1>1, <2>3
<1> HIDE DEF bytes
<1> QED
  BY <1>2, <1>3, ChangeHolds

LEMMA ReplacesStep ==
    ASSUME StringHolds, NEW s \in Pieces, NEW r \in Pieces, ReplacesString(s, r)
    PROVE  StringHolds'
<1> DEFINE t == Altered(intended, s, r)
           grown == preflight(string, Len(t))
<1>1. /\ TextOf(string) = intended /\ intended \in Seq(StringBytes) /\ IsSound(string)
      /\ s \in Seq(StringBytes) /\ r \in Seq(StringBytes)
  BY HoldsIs, PiecesAre
<1>2. s # <<>>
  BY DEF ReplacesString
<1>3. t = WithReplacements(intended, s, r) /\ t \in Seq(StringBytes)
  BY <1>1, <1>2, AlteredIs
<1>4. Becomes(IF t = <<>> THEN string ELSE grown,
              IF t = <<>> THEN <<>> ELSE <<Part(0, Append(t, Terminator))>>, Len(t), t)
  BY <1>1, <1>3, Zenon DEF ReplacesString
<1> HIDE DEF t
<1>5. Len(t) \in Nat
  BY <1>3, LenProperties
<1>6. CASE t = <<>>
  <2>1. Becomes(string, <<>>, Len(<<>>), <<>>)
    BY <1>4, <1>6, Zenon
  <2>2. Len(<<>>) = 0
    BY EmptySeq
  <2> QED
    BY <2>1, <2>2, EmptiesHolds
<1>7. CASE t # <<>>
  <2>1. Becomes(grown, <<Part(0, Append(t, Terminator))>>, Len(t), t)
    BY <1>4, <1>7, Zenon
  <2>2. GrownFrom(grown, string, Len(t))
    BY <1>1, <1>5, PreflightGrows
  <2> HIDE DEF grown
  <2>3. IsSound(grown) /\ Len(t) < Len(grown.buffer)
    BY <2>2 DEF GrownFrom
  <2> QED
    BY <1>3, <2>1, <2>3, AssignHolds
<1> QED
  BY <1>6, <1>7

\* What is left from one byte of a text to another.
LEMMA BetweenIs ==
    ASSUME NEW given \in Seq(StringBytes), NEW first \in 1..Len(given), NEW last \in first..Len(given)
    PROVE  /\ SubSeq(given, first, last) \in Seq(StringBytes)
           /\ Len(SubSeq(given, first, last)) = last - first + 1
<1> DEFINE m == first - 1
<1>1. Len(given) \in Nat
  BY LenProperties
<1>2. m \in 0..Len(given) /\ last \in 0..Len(given) /\ m <= last /\ m + 1 = first /\ last - m = last - first + 1
  BY <1>1
<1> HIDE DEF m
<1>3. SubSeq(given, m + 1, last) \in Seq(StringBytes) /\ Len(SubSeq(given, m + 1, last)) = last - m
  BY <1>2, PartIs
<1> QED
  BY <1>2, <1>3

Letters(given) == {i \in DOMAIN given : given[i] # "sp"}
Solids(given) == {i \in DOMAIN given : IsSolid(given[i])}

\* What trim() should leave is what it leaves, or it is longer.
LEMMA TrimmedIs ==
    ASSUME NEW given \in Seq(StringBytes)
    PROVE  /\ WithoutSpaces(given) \in Seq(StringBytes)
           /\ Solids(given) # {} =>
                 /\ Min(Solids(given)) \in 1..Len(given)
                 /\ Max(Solids(given)) \in Min(Solids(given))..Len(given)
                 /\ Len(WithoutSpaces(given)) = Max(Solids(given)) - Min(Solids(given)) + 1 =>
                       WithoutSpaces(given) = SubSeq(given, Min(Solids(given)), Max(Solids(given)))
<1> DEFINE L == Letters(given)
           O == Solids(given)
           n == Len(given)
           none == <<>>
<1>1. n \in Nat /\ L \subseteq 1..n /\ O \subseteq L
  BY LenProperties DEF Letters, Solids, IsSolid
<1>2. WithoutSpaces(given) = IF L = {} THEN none ELSE SubSeq(given, Min(L), Max(L))
  BY Zenon DEF WithoutSpaces, Letters
<1>3. none \in Seq(StringBytes)
  BY EmptySeq
<1> HIDE DEF L, O, none
<1>4. CASE L = {}
  <2>1. O = {}
    BY <1>1, <1>4
  <2> QED
    BY <1>2, <1>3, <1>4, <2>1 DEF O
<1>5. CASE L # {}
  <2>1. L \subseteq 0..n
    BY <1>1
  <2>2. Max(L) \in L /\ Min(L) \in L /\ (\A i \in L : i <= Max(L)) /\ (\A i \in L : Min(L) <= i)
    BY <1>1, <1>5, <2>1, MaxIs
  <2> DEFINE a == Min(L)
             b == Max(L)
             value == SubSeq(given, a, b)
  <2> HIDE DEF a, b
  <2>3. a \in 1..n /\ b \in a..n
    <3>1. a \in L /\ b \in L /\ a <= b
      BY <2>2 DEF a, b
    <3> QED
      BY <1>1, <3>1
  <2>4. value \in Seq(StringBytes) /\ Len(value) = b - a + 1
    BY <2>3, BetweenIs
  <2>5. WithoutSpaces(given) = value
    BY <1>2, <1>5 DEF a, b
  <2>6. ASSUME O # {}
        PROVE  /\ Min(O) \in 1..n /\ Max(O) \in Min(O)..n
               /\ Len(value) = Max(O) - Min(O) + 1 => a = Min(O) /\ b = Max(O)
    <3>1. O \subseteq 0..n
      BY <1>1
    <3>2. Max(O) \in O /\ Min(O) \in O /\ (\A i \in O : Min(O) <= i)
      BY <1>1, <2>6, <3>1, MaxIs
    <3> DEFINE c == Min(O)
               d == Max(O)
    <3> HIDE DEF c, d
    <3>3. c \in 1..n /\ d \in 1..n /\ c <= d /\ a <= c /\ d <= b /\ a \in 1..n /\ b \in 1..n
      BY <1>1, <2>2, <2>3, <3>2 DEF a, b, c, d
    <3>4. d - c + 1 = b - a + 1 => a = c /\ b = d
      BY <1>1, <3>3
    <3>5. d \in c..n
      BY <3>3
    <3> QED
      BY <2>4, <3>3, <3>4, <3>5 DEF c, d
  <2>7. ASSUME O # {}
        PROVE  Len(value) = Max(O) - Min(O) + 1 => value = SubSeq(given, Min(O), Max(O))
    BY <2>6, <2>7
  <2> HIDE DEF value, n
  <2> QED
    BY <2>4, <2>5, <2>6, <2>7 DEF O, n
<1> QED
  BY <1>4, <1>5

LEMMA TrimsStep ==
    ASSUME StringHolds, damage = "none", Trims
    PROVE  StringInv'
<1> DEFINE O == Solids(intended)
           first == Min(O)
           last == Max(O)
           length == IF O = {} THEN 0 ELSE last - first + 1
           part == SubSeq(intended, first, last)
           value == WithoutSpaces(intended)
           none == <<>>
<1>1. /\ IsSound(string) /\ string.buffer \in Seq(Cells) /\ intended \in Seq(StringBytes)
      /\ TextOf(string) = intended /\ Len(string.buffer) \in Nat /\ Len(intended) \in Nat
      /\ Len(intended) <= MaxText /\ MaxText \in Nat /\ Len(intended) < Len(string.buffer)
  BY HoldsIs
<1>2. /\ Becomes(string, IF O = {} THEN none ELSE <<Part(0, part)>>, length, value)
      /\ damage' = IF length = Len(value) THEN damage ELSE "trim"
  BY <1>1, Zenon DEF Trims, Solids
<1>3. value \in Seq(StringBytes) /\ (O # {} => /\ first \in 1..Len(intended) /\ last \in first..Len(intended)
                                               /\ Len(value) = last - first + 1 => value = part)
  BY <1>1, TrimmedIs
<1> HIDE DEF O, value, none
<1>4. damage' = IF length = Len(value) THEN "none" ELSE "trim"
  BY <1>2
<1>5. ASSUME NEW bytes, Became(bytes, value), length = Len(value) => value = bytes
      PROVE  StringInv'
  <2>1. StringTypes' /\ (length = Len(value) => StringHolds')
    BY <1>5, BecameHolds DEF Became
  <2> QED
    BY <1>4, <2>1 DEF StringInv
<1>6. CASE O = {}
  <2>1. none \in Seq(StringBytes) /\ Len(none) = 0 /\ length = 0
    BY <1>6, EmptySeq DEF none
  <2>2. Becomes(string, <<>>, length, value)
    BY <1>2, <1>6 DEF none
  <2>3. HoldsBytes(string.buffer, none)
    BY <2>1 DEF HoldsBytes
  <2> HIDE DEF length
  <2>4. Became(none, value)
    <3>1. length \in Nat /\ length <= MaxText /\ length = Len(none) /\ length < Len(string.buffer)
      BY <1>1, <2>1
    <3> QED
      BY <1>1, <1>3, <2>1, <2>2, <2>3, <3>1, BecomesPrefix
  <2>5. length = Len(value) => value = none
    BY <1>3, <2>1, EmptySeq DEF none
  <2> QED
    BY <1>5, <2>4, <2>5
<1>7. CASE O # {}
  <2> DEFINE at == 0
  <2>1. length = last - first + 1 /\ first \in 1..Len(intended) /\ last \in first..Len(intended)
    BY <1>3, <1>7
  <2>2. Becomes(string, <<Part(at, part)>>, length, value)
    BY <1>2, <1>7
  <2>3. length = Len(value) => value = part
    BY <1>3, <1>7, <2>1
  <2> HIDE DEF first, last
  <2>4. part \in Seq(StringBytes) /\ Len(part) = length
    BY <1>1, <2>1, BetweenIs
  <2>5. part \in Seq(Cells)
    BY <2>4, BytesAreCells
  <2> HIDE DEF part
  <2>6. length \in Nat /\ length <= Len(intended) /\ at \in Nat
    BY <1>1, <2>1
  <2> HIDE DEF length
  <2>7. length <= MaxText /\ length < Len(string.buffer) /\ at + Len(part) <= Len(string.buffer)
    BY <1>1, <2>4, <2>6
  <2>8. IsOneOf(string, at, part, part)
    <3>1. ASSUME NEW i \in 1..Len(part) PROVE i \in at + 1..at + Len(part) /\ i - at = i
      BY <2>4, <2>6
    <3> QED
      BY <3>1 DEF IsOneOf
  <2> HIDE DEF at
  <2>9. Became(part, value)
    BY <1>1, <1>3, <2>2, <2>4, <2>5, <2>6, <2>7, <2>8, BecomesOnce
  <2> QED
    BY <1>5, <2>3, <2>9
<1> QED
  BY <1>6, <1>7

LEMMA TearsStep ==
    ASSUME StringHolds, NEW s \in Pieces, ReplaceTears(s)
    PROVE  StringInv'
<1> DEFINE index == indexOf(TextOf(string), s, 0)
           at == IF index \in Nat THEN index ELSE 0
           bytes == <<Terminator>>
           w == Written(string.buffer, <<Part(index, bytes)>>)
           z == 0
<1>1. /\ IsSound(string) /\ string.buffer \in Seq(Cells) /\ intended \in Seq(StringBytes)
      /\ TextOf(string) = intended
  BY HoldsIs
<1>2. /\ string' = [string EXCEPT !.buffer = w] /\ damage' = "replace" /\ index # -1
      /\ intended' = intended /\ stale' = stale /\ fault' = fault
  BY Zenon DEF ReplaceTears, WriteAt
<1>3. index \in Nat
  <2>1. z \in Nat /\ s \in Seq(StringBytes) /\ s # <<>>
    BY PiecesAre DEF ReplaceTears
  <2>2. IsIndex(intended, s, z, indexOf(intended, s, z))
    <3> HIDE DEF z
    <3> QED
      BY <1>1, <2>1, IndexIs
  <2> QED
    BY <1>1, <1>2, <2>2 DEF IsIndex
<1> HIDE DEF index
<1>4. w \in Seq(Cells) /\ Len(w) = Len(string.buffer)
  <2>1. bytes \in Seq(Cells)
    BY DEF Cells
  <2> HIDE DEF bytes
  <2>2. IsWrittenOnce(w, string.buffer, index, bytes)
    BY <1>1, <1>3, <2>1, WrittenOnce
  <2> HIDE DEF w
  <2> QED
    BY <2>2 DEF IsWrittenOnce
<1> HIDE DEF w
<1>5. /\ string' \in StringStates /\ string'.buffer = w /\ string'.mStringLength = string.mStringLength
      /\ string'.mNumCodePoints = string.mNumCodePoints
      /\ string'.mUsingInternalBuffer = string.mUsingInternalBuffer
  <2>1. string \in StringStates
    BY <1>1 DEF IsSound
  <2> QED
    BY <1>2, <1>4, <2>1 DEF StringStates
<1>6. IsSound(string')
  BY <1>1, <1>4, <1>5 DEF IsSound
<1>7. StringTypes'
  BY <1>2, <1>5, <1>6 DEF StringHolds, StringTypes
<1> QED
  BY <1>2, <1>7 DEF StringInv

LEMMA StringBegins == StringInit => StringInv
<1> SUFFICES ASSUME StringInit PROVE StringInv
  OBVIOUS
<1> DEFINE none == <<>>
<1>1. /\ string = [mUsingInternalBuffer |-> TRUE, buffer |-> EmptyBuffer, mStringLength |-> 0,
                   mNumCodePoints |-> 0]
      /\ intended = none /\ stale = FALSE /\ fault = FALSE /\ damage = "none"
  BY DEF StringInit
<1>2. none \in Seq(StringBytes) /\ Len(none) = 0 /\ countUTF8CodePoints(none) = 0
  BY EmptySeq, CountNone
<1> HIDE DEF none
<1>3. /\ EmptyBuffer \in Seq(Cells) /\ Len(EmptyBuffer) = InternalSize /\ EmptyBuffer[1] = Terminator
      /\ 0 < Len(EmptyBuffer) /\ MaxText \in Nat
  BY EmptyBufferIs, StringConstants
<1>4. /\ string \in StringStates /\ string.buffer = EmptyBuffer /\ string.mStringLength = 0
      /\ string.mNumCodePoints = 0
  <2> DEFINE sequences == Seq(Cells)
             strings == [mUsingInternalBuffer : BOOLEAN, buffer : sequences, mStringLength : Nat,
                         mNumCodePoints : Int]
  <2>1. EmptyBuffer \in sequences /\ StringStates = strings
    BY <1>3 DEF StringStates
  <2> HIDE DEF sequences
  <2>2. string \in strings
    BY <1>1, <2>1
  <2> QED
    BY <1>1, <2>1, <2>2
<1>5. IsSound(string)
  BY <1>3, <1>4 DEF IsSound
<1>6. HoldsText(string, none)
  BY <1>2, <1>3, <1>4 DEF HoldsText, HoldsBytes
<1>7. StringTypes
  <2>1. 0 <= MaxText /\ 0 \in -1..MaxText
    BY <1>3
  <2> QED
    BY <1>1, <1>2, <1>4, <1>5, <2>1, Zenon DEF StringTypes
<1>8. CountIsKnown
  BY <1>1, <1>2, <1>4 DEF CountIsKnown
<1>9. StringHolds
  BY <1>1, <1>6, <1>7, <1>8 DEF StringHolds
<1> QED
  BY <1>1, <1>7, <1>9 DEF StringInv

LEMMA StringStep == StringInv /\ [StringNext]_stringVars => StringInv'
<1> SUFFICES ASSUME StringInv, [StringNext]_stringVars PROVE StringInv'
  OBVIOUS
<1>1. CASE UNCHANGED stringVars
  BY <1>1 DEF stringVars, StringInv, StringTypes, StringHolds, CountIsKnown
<1>2. CASE StringNext
  <2>1. damage = "none" /\ StringHolds
    BY <1>2 DEF StringNext, StringInv
  <2>2. ASSUME StringHolds', damage' = damage PROVE StringInv'
    BY <2>1, <2>2 DEF StringInv, StringHolds
  <2>3. CASE Trims
    BY <2>1, <2>3, TrimsStep
  <2>4. CASE \E s \in Pieces : ReplaceTears(s)
    BY <2>1, <2>4, TearsStep
  <2>5. CASE /\ \/ \E s \in Pieces : AssignsString(s) \/ AppendsString(s)
                \/ \E s \in Pieces, offset \in -1..MaxText : InsertsString(s, offset)
                \/ \E offset \in 0..MaxText : InsertsItself(offset)
                \/ \E startIndex, endIndex \in -1..MaxText : SubstringInPlace(startIndex, endIndex)
                \/ \E n \in 0..MaxText : Truncates(n) \/ TruncatesCodePoints(n)
                \/ \E i \in 0..MaxText - 1, c \in {"a", "C2"} : SetsByte(i, c)
                \/ \E s, r \in Pieces : ReplacesString(s, r)
                \/ AppendsItself \/ CountsCodePoints \/ FoldsToUpper \/ Orphans
             /\ UNCHANGED damage
    <3>1. CASE \E s \in Pieces : AssignsString(s) \/ AppendsString(s)
      BY <2>1, <2>2, <2>5, <3>1, AssignsStep, AppendsStringStep
    <3>2. CASE \E s \in Pieces, offset \in -1..MaxText : InsertsString(s, offset)
      BY <2>1, <2>2, <2>5, <3>2, InsertsStep
    <3>3. CASE \E offset \in 0..MaxText : InsertsItself(offset)
      BY <2>1, <2>2, <2>5, <3>3, InsertsItselfStep
    <3>4. CASE \E startIndex, endIndex \in -1..MaxText : SubstringInPlace(startIndex, endIndex)
      BY <2>1, <2>2, <2>5, <3>4, SubstringStep
    <3>5. CASE \E n \in 0..MaxText : Truncates(n) \/ TruncatesCodePoints(n)
      BY <2>1, <2>2, <2>5, <3>5, TruncatesStep, TruncatesCodePointsStep
    <3>6. CASE \E i \in 0..MaxText - 1, c \in {"a", "C2"} : SetsByte(i, c)
      BY <2>1, <2>2, <2>5, <3>6, SetsStep
    <3>7. CASE \E s, r \in Pieces : ReplacesString(s, r)
      BY <2>1, <2>2, <2>5, <3>7, ReplacesStep
    <3>8. CASE AppendsItself
      BY <2>1, <2>2, <2>5, <3>8, AppendsItselfStep
    <3>9. CASE CountsCodePoints
      BY <2>1, <2>2, <2>5, <3>9, CountsStep
    <3>10. CASE FoldsToUpper
      BY <2>1, <2>2, <2>5, <3>10, FoldsStep
    <3>11. CASE Orphans
      BY <2>1, <2>2, <2>5, <3>11, OrphansStep
    <3> QED
      BY <2>5, <3>1, <3>2, <3>3, <3>4, <3>5, <3>6, <3>7, <3>8, <3>9, <3>10, <3>11
  <2> QED
    BY <1>2, <2>3, <2>4, <2>5 DEF StringNext
<1> QED
  BY <1>1, <1>2

LEMMA StringInvariant == StringSpec => []StringInv
  BY StringBegins, StringStep, PTL DEF StringSpec

\* A string has a buffer and a length that its counters can hold, whatever the calls are.
THEOREM StringTypeCorrect == StringSpec => []StringTypeOK
<1>1. StringInv => StringTypeOK
  <2> SUFFICES ASSUME StringInv PROVE StringTypeOK
    OBVIOUS
  <2>1. /\ string \in StringStates /\ string.mStringLength <= MaxText /\ MaxText \in Nat
        /\ string.mNumCodePoints \in -1..MaxText /\ intended \in Seq(StringBytes)
        /\ stale \in BOOLEAN /\ fault = FALSE /\ damage \in {"none", "replace", "trim"}
    BY StringConstants DEF StringInv, StringTypes, IsSound
  <2>2. /\ string.mUsingInternalBuffer \in BOOLEAN /\ string.mStringLength \in Nat
        /\ string.buffer \in Seq(StringBytes \cup {Terminator, Unwritten})
    BY <2>1 DEF StringStates, Cells
  <2>3. string.mStringLength \in 0..MaxText
    BY <2>1, <2>2
  <2>4. {stale, fault} \subseteq BOOLEAN
    BY <2>1
  <2> QED
    BY <2>1, <2>2, <2>3, <2>4, Zenon DEF StringTypeOK
<1> QED
  BY <1>1, StringInvariant, PTL

\* The string holds what the calls say, ended and in its buffer, with its number of
\* code points if it knows it, and split() takes it apart, for all arguments, all
\* sizes of the buffers and any length.
THEOREM StringKept == StringSpec => []StringKeepsText
<1>1. StringInv => StringKeepsText
  <2> SUFFICES ASSUME StringInv PROVE StringKeepsText
    OBVIOUS
  <2>1. fault = FALSE /\ intended \in Seq(StringBytes)
    BY DEF StringInv, StringTypes
  <2>2. SplitsAreParts
    BY <2>1, SplitsHold
  <2>3. ASSUME damage = "none"
        PROVE  /\ TextOf(string) = intended
               /\ string.buffer[string.mStringLength + 1] = Terminator
               /\ string.mUsingInternalBuffer => Len(string.buffer) = InternalSize
               /\ ~ stale => string.mNumCodePoints \in {-1, countUTF8CodePoints(intended)}
    <3>1. StringHolds
      BY <2>3 DEF StringInv
    <3>2. TextOf(string) = intended
      BY <3>1, HoldsIs
    <3> QED
      BY <3>1, <3>2 DEF StringHolds, StringTypes, IsSound, HoldsText, CountIsKnown
  <2> QED
    BY <2>1, <2>2, <2>3 DEF StringKeepsText
<1> QED
  BY <1>1, StringInvariant, PTL
=============================================================================
