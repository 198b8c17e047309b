--------------------------- MODULE VInstantProofs ---------------------------
(***************************************************************************)
(* Time (Time, VInstant, VInstantStruct, VInstantFormatter): what it       *)
(* promises holds for every range of a Vs64, every set of years, zones and *)
(* instants and formats of every length.                                   *)
(*                                                                         *)
(* Arithmetic needs no more than its types: a case for each kind of value, *)
(* and the numbers of those that are specific. The clock needs what the    *)
(* calls have asked for, and what each thread in a call has read and still *)
(* knows unless another has disturbed it (ClockInv). The calendar's        *)
(* numbers are counted in two ways; what is true of a year or a month      *)
(* because it is true of the one before is shown by the least one for      *)
(* which it would not be true (SomeIsLeast). The parser appends what the   *)
(* part of a format it has read means, as long as it passes over nothing   *)
(* (FormatRead).                                                           *)
(***************************************************************************)
EXTENDS Time, FiniteSetTheorems, SequenceTheorems, WellFoundedInduction, TLAPS

\* A set of numbers that is not empty has a least one.
LEMMA SomeIsLeast ==
    ASSUME NEW S, S \subseteq Nat, S # {}
    PROVE  \E least \in S : \A n \in S : least <= n
<1> DEFINE R == OpToRel(<, Nat)
<1>1. \E x \in S : \A y \in S : ~ (<<y, x>> \in R)
  <2> HIDE DEF R
  <2>1. IsWellFoundedOn(R, Nat)
    BY NatLessThanWellFounded DEF R
  <2> QED
    BY <2>1, WFMin
<1>2. PICK x \in S : \A y \in S : ~ (<<y, x>> \in R)
  BY <1>1
<1>3. ASSUME NEW y \in S PROVE x <= y
  <2>1. ~ (y < x)
    BY <1>2 DEF OpToRel
  <2> QED
    BY <2>1
<1> QED
  BY <1>3

-----------------------------------------------------------------------------
(* Durations *)

\* The ends of a Vs64, and room between them.
LEMMA RangeOfSpecific ==
    /\ V_MAX_S64 \in Nat /\ V_MAX_S64 > 2
    /\ V_MIN_S64 = - V_MAX_S64 - 1
  BY RangeAssumption DEF V_MIN_S64

\* What does not fit is wrapped into the range,
LEMMA WrappedInRange ==
    ASSUME NEW n \in Int
    PROVE  Wrapped(n) \in Vs64
  BY RangeOfSpecific DEF Wrapped, Vs64

\* and what fits stays what it is.
LEMMA WrappedFits ==
    ASSUME NEW n \in Vs64
    PROVE  Wrapped(n) = n
  BY RangeOfSpecific DEF Wrapped, Vs64

\* Fits describes the specific values,
LEMMA FitsIsSpecific ==
    ASSUME NEW n, Fits(n)
    PROVE  /\ n \in Vs64 /\ n \in Int /\ isSpecific(n) /\ Wrapped(n) = n
  BY RangeOfSpecific, WrappedFits
  DEF Fits, Vs64, isSpecific, Infinite, POSITIVE_INFINITY, NEGATIVE_INFINITY, UNSPECIFIED

\* and the others are the three special ones.
LEMMA SpecificFits ==
    ASSUME NEW n \in Vs64
    PROVE  /\ isSpecific(n) <=> Fits(n)
           /\ n \in Int
           /\ n = UNSPECIFIED \/ n = POSITIVE_INFINITY \/ n = NEGATIVE_INFINITY \/ Fits(n)
  BY RangeOfSpecific
  DEF Fits, Vs64, isSpecific, Infinite, POSITIVE_INFINITY, NEGATIVE_INFINITY, UNSPECIFIED

\* The special values are three, none of them specific.
LEMMA TheEnds ==
    /\ POSITIVE_INFINITY \in Vs64 /\ NEGATIVE_INFINITY \in Vs64 /\ UNSPECIFIED \in Vs64
    /\ POSITIVE_INFINITY # NEGATIVE_INFINITY
    /\ UNSPECIFIED # POSITIVE_INFINITY /\ UNSPECIFIED # NEGATIVE_INFINITY
    /\ ~ isSpecific(POSITIVE_INFINITY) /\ ~ isSpecific(NEGATIVE_INFINITY) /\ ~ isSpecific(UNSPECIFIED)
  BY RangeOfSpecific
  DEF Vs64, isSpecific, Infinite, POSITIVE_INFINITY, NEGATIVE_INFINITY, UNSPECIFIED

\* What negation does to each kind of duration.
LEMMA NegatedIs ==
    /\ Negated(POSITIVE_INFINITY) = NEGATIVE_INFINITY
    /\ Negated(NEGATIVE_INFINITY) = POSITIVE_INFINITY
    /\ \A d \in Vs64 : isSpecific(d) /\ Fits(-d) => Negated(d) = -d
  BY TheEnds, SpecificFits, FitsIsSpecific DEF Negated, OtherInfinity, Infinite

\* What is done with specific durations is done with their numbers.
LEMMA OfSpecific ==
    ASSUME NEW d, NEW e, isSpecific(d), isSpecific(e)
    PROVE  /\ Plus(d, e) = Wrapped(d + e)
           /\ Minus(d, e) = Wrapped(d - e)
           /\ LesserDuration(d, e) = IF d < e THEN d ELSE e
           /\ GreaterDuration(d, e) = IF d > e THEN d ELSE e
           /\ AbsoluteDuration(d) = IF d < 0 THEN Negated(d) ELSE d
  BY DEF Plus, Minus, LesserDuration, GreaterDuration, AbsoluteDuration, isSpecific, Infinite

\* Sums may be turned around, with infinities too.
LEMMA SumsCommute ==
    ASSUME NEW d \in Vs64 \ {UNSPECIFIED}, NEW e \in Vs64 \ {UNSPECIFIED}
    PROVE  Plus(d, e) = Plus(e, d)
<1>1. d + e = e + d
  BY SpecificFits
<1>2. d \in Infinite \/ isSpecific(d)
  BY DEF isSpecific
<1>3. e \in Infinite \/ isSpecific(e)
  BY DEF isSpecific
<1>4. isSpecific(d) /\ isSpecific(e) => Plus(d, e) = Plus(e, d)
  BY <1>1, OfSpecific
<1>5. isSpecific(d) /\ e \in Infinite => Plus(d, e) = Plus(e, d)
  BY TheEnds DEF Plus, isSpecific, Infinite
<1>6. isSpecific(e) /\ d \in Infinite => Plus(d, e) = Plus(e, d)
  BY TheEnds DEF Plus, isSpecific, Infinite
<1>7. d \in Infinite /\ e \in Infinite => Plus(d, e) = Plus(e, d)
  BY TheEnds DEF Plus, isSpecific, Infinite
<1> QED
  BY <1>2, <1>3, <1>4, <1>5, <1>6, <1>7

\* A difference is the sum with the negated duration,
LEMMA DifferenceIsSum ==
    ASSUME NEW d \in Vs64 \ {UNSPECIFIED}, NEW e \in Vs64 \ {UNSPECIFIED}, Exact(d, e)
    PROVE  Minus(d, e) = Plus(d, Negated(e))
<1>1. isSpecific(e) => Negated(e) = -e /\ isSpecific(-e) /\ e \in Int
  BY NegatedIs, FitsIsSpecific, SpecificFits DEF Exact
<1>2. CASE isSpecific(d) /\ isSpecific(e)
  <2>1. d - e = d + (-e)
    BY <1>1, SpecificFits
  <2> QED
    BY <1>1, <1>2, <2>1, OfSpecific
<1>3. CASE isSpecific(d) /\ ~ isSpecific(e)
  BY <1>3, TheEnds, NegatedIs DEF Minus, Plus, isSpecific, Infinite, OtherInfinity
<1>4. CASE ~ isSpecific(d) /\ isSpecific(e)
  BY <1>1, <1>4, TheEnds DEF Minus, Plus, isSpecific, Infinite
<1>5. CASE ~ isSpecific(d) /\ ~ isSpecific(e)
  BY <1>5, TheEnds, NegatedIs DEF Minus, Plus, isSpecific, Infinite
<1> QED
  BY <1>2, <1>3, <1>4, <1>5

\* and what is taken away can be given back.
LEMMA DifferenceAndSum ==
    ASSUME NEW d \in Vs64 \ {UNSPECIFIED}, NEW e \in Vs64 \ {UNSPECIFIED}, Exact(d, e), isSpecific(e)
    PROVE  Plus(Minus(d, e), e) = d
<1>1. CASE isSpecific(d)
  <2>1. Minus(d, e) = d - e /\ isSpecific(d - e)
    BY <1>1, FitsIsSpecific, OfSpecific DEF Exact
  <2>2. (d - e) + e = d /\ Wrapped(d) = d
    BY WrappedFits, SpecificFits
  <2> QED
    BY <2>1, <2>2, OfSpecific
<1>2. CASE ~ isSpecific(d)
  BY <1>2, TheEnds DEF Minus, Plus, isSpecific, Infinite
<1> QED
  BY <1>1, <1>2

\* To multiply by -1 is to negate, to the ends of the range.
LEMMA TimesMinusOne ==
    ASSUME NEW d \in Vs64 \ {UNSPECIFIED}
    PROVE  Times(d, -1) = Negated(d)
<1>1. d * (-1) = -d
  BY SpecificFits
<1> QED
  BY <1>1, TheEnds DEF Times, Negated, isSpecific, Infinite

\* The lesser of two is the greater one seen from the other end of the line.
LEMMA LesserIsNegatedGreater ==
    ASSUME NEW d \in Vs64 \ {UNSPECIFIED}, NEW e \in Vs64 \ {UNSPECIFIED}, Exact(d, e)
    PROVE  LesserDuration(d, e) = Negated(GreaterDuration(Negated(d), Negated(e)))
<1>1. isSpecific(d) => Negated(d) = -d /\ isSpecific(-d) /\ Negated(-d) = d
  BY NegatedIs, FitsIsSpecific, SpecificFits DEF Exact
<1>2. isSpecific(e) => Negated(e) = -e /\ isSpecific(-e) /\ Negated(-e) = e
  BY NegatedIs, FitsIsSpecific, SpecificFits DEF Exact
<1>3. d \in Int /\ e \in Int
  BY SpecificFits
<1>4. CASE isSpecific(d) /\ isSpecific(e)
  BY <1>1, <1>2, <1>3, <1>4, OfSpecific
<1>5. CASE isSpecific(d) /\ ~ isSpecific(e)
  BY <1>1, <1>5, TheEnds, NegatedIs DEF LesserDuration, GreaterDuration, isSpecific, Infinite
<1>6. CASE ~ isSpecific(d) /\ isSpecific(e)
  BY <1>2, <1>6, TheEnds, NegatedIs DEF LesserDuration, GreaterDuration, isSpecific, Infinite
<1>7. CASE ~ isSpecific(d) /\ ~ isSpecific(e)
  BY <1>7, TheEnds, NegatedIs DEF LesserDuration, GreaterDuration, isSpecific, Infinite
<1> QED
  BY <1>4, <1>5, <1>6, <1>7

\* The absolute value is the greater of a duration and its negation.
LEMMA AbsoluteIsGreater ==
    ASSUME NEW d \in Vs64 \ {UNSPECIFIED}, isSpecific(d) => Fits(-d)
    PROVE  AbsoluteDuration(d) = GreaterDuration(d, Negated(d))
<1>1. CASE isSpecific(d)
  <2>1. Negated(d) = -d /\ isSpecific(-d) /\ d \in Int
    BY <1>1, NegatedIs, FitsIsSpecific, SpecificFits
  <2> QED
    BY <1>1, <2>1, OfSpecific
<1>2. CASE ~ isSpecific(d)
  BY <1>2, TheEnds, NegatedIs DEF AbsoluteDuration, GreaterDuration, isSpecific, Infinite
<1> QED
  BY <1>1, <1>2

\* The quotient of whole numbers: no further from zero than the dividend with what
\* it is multiplied by.
LEMMA QuotientInRange ==
    ASSUME NEW n \in Int, NEW divisor \in Int \ {0}
    PROVE  /\ Quotient(n, divisor) \in Int
           /\ n >= 0 => divisor * Quotient(n, divisor) \in 0..n
           /\ n < 0 => divisor * Quotient(n, divisor) \in n..0
<1> DEFINE a == AbsoluteOf(n)  b == AbsoluteOf(divisor)  q == a \div b
<1>1. a \in Nat /\ b \in Nat \ {0}
  BY DEF AbsoluteOf
<1>2. a = (IF n < 0 THEN -n ELSE n) /\ b = (IF divisor < 0 THEN -divisor ELSE divisor)
  BY DEF AbsoluteOf
<1> HIDE DEF a, b
<1>3. q \in Nat /\ b * q <= a
  BY <1>1
<1>4. Quotient(n, divisor) = IF n * divisor < 0 THEN -q ELSE q
  BY DEF Quotient, a, b
<1> HIDE DEF q
<1>5. b * q >= 0 /\ b * q \in Int
  BY <1>1, <1>3
<1>6. CASE n >= 0 /\ divisor > 0
  <2>1. n * divisor >= 0
    BY <1>6
  <2> QED
    BY <1>2, <1>3, <1>4, <1>5, <1>6, <2>1
<1>7. CASE n >= 0 /\ divisor < 0
  <2>1. n # 0 => n * divisor < 0
    BY <1>7
  <2>2. n = 0 => q = 0
    <3>1. n = 0 => b * q <= 0
      BY <1>2, <1>3
    <3> QED
      BY <3>1, <1>1, <1>3
  <2>3. divisor * (-q) = b * q /\ divisor = -b
    BY <1>2, <1>3, <1>7
  <2> QED
    BY <1>2, <1>3, <1>4, <1>5, <1>7, <2>1, <2>2, <2>3
<1>8. CASE n < 0 /\ divisor > 0
  <2>1. n * divisor < 0
    BY <1>8
  <2>2. divisor * (-q) = - (b * q)
    BY <1>2, <1>3, <1>8
  <2> QED
    BY <1>2, <1>3, <1>4, <1>5, <1>8, <2>1, <2>2
<1>9. CASE n < 0 /\ divisor < 0
  <2>1. ~ (n * divisor < 0)
    BY <1>9
  <2>2. divisor * q = - (b * q)
    BY <1>2, <1>3, <1>9
  <2> QED
    BY <1>2, <1>3, <1>4, <1>5, <1>9, <2>1, <2>2
<1> QED
  BY <1>6, <1>7, <1>8, <1>9

\* Quotient and remainder make the dividend, whatever signs there are.
LEMMA QuotientAndRemainder ==
    ASSUME NEW d \in Vs64, NEW e \in Vs64, isSpecific(d), isSpecific(e), e # 0, Fits(-d)
    PROVE  Plus(Times(e, Divided(d, e)), Modulo(d, e)) = d
<1> DEFINE q == Quotient(d, e)
<1>1. d \in Int /\ e \in Int \ {0} /\ Fits(d)
  BY SpecificFits
<1>2. /\ q \in Int
      /\ d >= 0 => e * q \in 0..d
      /\ d < 0 => e * q \in d..0
  BY <1>1, QuotientInRange
<1>3. Remainder(d, e) = d - e * q
  BY DEF Remainder
<1> HIDE DEF q
<1>4. Fits(e * q) /\ Fits(d - e * q) /\ e * q \in Int
  BY <1>1, <1>2, RangeOfSpecific DEF Fits
<1>5. Fits(q)
  <2>1. e * q \in Int /\ (d >= 0 => e * q \in 0..d) /\ (d < 0 => e * q \in d..0)
    BY <1>2, <1>4
  <2>2. q <= AbsoluteOf(e * q) /\ -q <= AbsoluteOf(e * q)
    <3>1. CASE e > 0 /\ q >= 0
      BY <1>1, <1>2, <3>1 DEF AbsoluteOf
    <3>2. CASE e > 0 /\ q < 0
      BY <1>1, <1>2, <3>2 DEF AbsoluteOf
    <3>3. CASE e < 0 /\ q >= 0
      BY <1>1, <1>2, <3>3 DEF AbsoluteOf
    <3>4. CASE e < 0 /\ q < 0
      BY <1>1, <1>2, <3>4 DEF AbsoluteOf
    <3> QED
      BY <1>1, <1>2, <3>1, <3>2, <3>3, <3>4
  <2>3. AbsoluteOf(e * q) <= AbsoluteOf(d) /\ AbsoluteOf(e * q) \in Int
    BY <1>1, <2>1 DEF AbsoluteOf
  <2>4. Fits(AbsoluteOf(d)) /\ Fits(- AbsoluteOf(d)) /\ AbsoluteOf(d) \in Int
    <3>1. - (-d) = d
      BY <1>1
    <3> QED
      BY <1>1, <3>1 DEF AbsoluteOf
  <2>5. q <= AbsoluteOf(d) /\ - AbsoluteOf(d) <= q
    BY <1>2, <2>2, <2>3, <2>4
  <2> QED
    BY <1>2, <2>4, <2>5, RangeOfSpecific DEF Fits
<1>6. Divided(d, e) = q
  <2>1. Wrapped(q) = q
    BY <1>5, FitsIsSpecific
  <2>2. Divided(d, e) = Wrapped(Quotient(d, e))
    BY DEF Divided, isSpecific, Infinite
  <2> QED
    BY <2>1, <2>2 DEF q
<1>7. Times(e, q) = e * q
  <2>1. Wrapped(e * q) = e * q
    BY <1>4, FitsIsSpecific
  <2> QED
    BY <2>1 DEF Times, isSpecific, Infinite
<1>8. Modulo(d, e) = d - e * q
  BY <1>3 DEF Modulo
<1>9. Plus(e * q, d - e * q) = Wrapped(e * q + (d - e * q))
  BY <1>4, FitsIsSpecific, OfSpecific
<1>10. e * q + (d - e * q) = d /\ Wrapped(d) = d
  BY <1>1, <1>4, WrappedFits
<1> QED
  BY <1>6, <1>7, <1>8, <1>9, <1>10

\* Durations form the number line with its two ends, whatever the width of a Vs64.
LEMMA DurationsOnALine == duration \in Vs64 => DurationsAddUp
<1> SUFFICES ASSUME duration \in Vs64, NEW e \in Vs64 \ {UNSPECIFIED},
                    isComparable(duration), Exact(duration, e)
             PROVE  LET d == duration IN
                    /\ Plus(d, e) = Plus(e, d)
                    /\ Minus(d, e) = Plus(d, Negated(e))
                    /\ Times(d, -1) = Negated(d)
                    /\ isSpecific(e) => Plus(Minus(d, e), e) = d
                    /\ LesserDuration(d, e) = Negated(GreaterDuration(Negated(d), Negated(e)))
                    /\ AbsoluteDuration(d) = GreaterDuration(d, Negated(d))
                    /\ isSpecific(d) /\ isSpecific(e) /\ e # 0 =>
                           Plus(Times(e, Divided(d, e)), Modulo(d, e)) = d
  BY DEF DurationsAddUp
<1>1. duration \in Vs64 \ {UNSPECIFIED}
  BY DEF isComparable
<1>2. isSpecific(duration) => Fits(- duration)
  BY DEF Exact
<1>3. Plus(duration, e) = Plus(e, duration)
  BY <1>1, SumsCommute
<1>4. Minus(duration, e) = Plus(duration, Negated(e))
  BY <1>1, DifferenceIsSum
<1>5. Times(duration, -1) = Negated(duration)
  BY <1>1, TimesMinusOne
<1>6. isSpecific(e) => Plus(Minus(duration, e), e) = duration
  BY <1>1, DifferenceAndSum
<1>7. LesserDuration(duration, e) = Negated(GreaterDuration(Negated(duration), Negated(e)))
  BY <1>1, LesserIsNegatedGreater
<1>8. AbsoluteDuration(duration) = GreaterDuration(duration, Negated(duration))
  BY <1>1, <1>2, AbsoluteIsGreater
<1>9. isSpecific(duration) /\ isSpecific(e) /\ e # 0 =>
         Plus(Times(e, Divided(duration, e)), Modulo(duration, e)) = duration
  BY <1>2, QuotientAndRemainder
<1> QED
  BY <1>3, <1>4, <1>5, <1>6, <1>7, <1>8, <1>9

-----------------------------------------------------------------------------
(* Instants *)

\* An instant is specific or one of the three others.
LEMMA KindsOfInstant ==
    ASSUME NEW i \in Vs64
    PROVE  /\ i \in Int
           /\ isSpecific(i) \/ i = NEVER_OCCURRED \/ i = INFINITE_PAST \/ i = INFINITE_FUTURE
           /\ isSpecific(i) => i # NEVER_OCCURRED /\ i # INFINITE_PAST /\ i # INFINITE_FUTURE
           /\ isComparable(i) <=> i # NEVER_OCCURRED
  BY SpecificFits
  DEF NEVER_OCCURRED, INFINITE_PAST, INFINITE_FUTURE, isComparable, isSpecific, Infinite

\* The six comparisons are those of one order.
LEMMA OrderOfInstants ==
    ASSUME NEW i \in Vs64, NEW j \in Vs64
    PROVE  /\ Follows(i, j) <=> Precedes(j, i)
           /\ PrecedesOrIs(i, j) <=> Precedes(i, j) \/ i = j
           /\ FollowsOrIs(i, j) <=> Follows(i, j) \/ i = j
           /\ isComparable(i) /\ isComparable(j) =>
                  /\ Precedes(i, j) <=> ~ FollowsOrIs(i, j)
                  /\ {EarlierInstant(i, j), LaterInstant(i, j)} = {i, j}
<1>1. i \in Int /\ j \in Int
  BY KindsOfInstant
<1>2. INFINITE_PAST # INFINITE_FUTURE
  BY TheEnds DEF INFINITE_PAST, INFINITE_FUTURE
<1>3. Follows(i, j) <=> Precedes(j, i)
  BY <1>1 DEF Follows, Precedes, bothSpecific
<1>4. PrecedesOrIs(i, j) <=> Precedes(i, j) \/ i = j
  BY <1>1 DEF PrecedesOrIs, Precedes, bothSpecific
<1>5. FollowsOrIs(i, j) <=> Follows(i, j) \/ i = j
  BY <1>1 DEF FollowsOrIs, Follows, bothSpecific
<1>6. isComparable(i) /\ isComparable(j) => (Precedes(i, j) <=> ~ FollowsOrIs(i, j))
  <2>1. CASE bothSpecific(i, j)
    BY <1>1, <2>1 DEF Precedes, FollowsOrIs
  <2>2. CASE ~ bothSpecific(i, j)
    <3>1. isComparable(i) /\ isComparable(j) /\ i # j => (AtTheEnds(i, j) <=> ~ AtTheEnds(j, i))
      BY <1>2, <2>2, KindsOfInstant DEF AtTheEnds, bothSpecific
    <3> QED
      BY <2>2, <3>1 DEF Precedes, FollowsOrIs
  <2> QED
    BY <2>1, <2>2
<1>7. isComparable(i) /\ isComparable(j) => {EarlierInstant(i, j), LaterInstant(i, j)} = {i, j}
  <2>1. isComparable(i) /\ isComparable(j) => (Precedes(i, j) <=> ~ (Follows(i, j) \/ i = j))
    BY <1>5, <1>6
  <2> QED
    BY <2>1 DEF EarlierInstant, LaterInstant
<1> QED
  BY <1>3, <1>4, <1>5, <1>6, <1>7

\* What moves an instant, by its kind and that of the duration.
LEMMA MovedInstant ==
    ASSUME NEW i \in Vs64, NEW d \in Vs64 \ {UNSPECIFIED}, Exact(i, d)
    PROVE  /\ isSpecific(i) /\ isSpecific(d) => InstantPlus(i, d) = i + d /\ isSpecific(i + d)
           /\ isSpecific(i) /\ d = POSITIVE_INFINITY => InstantPlus(i, d) = INFINITE_FUTURE
           /\ isSpecific(i) /\ d = NEGATIVE_INFINITY => InstantPlus(i, d) = INFINITE_PAST
           /\ ~ isSpecific(i) => InstantPlus(i, d) = i
           /\ InstantMinus(i, d) = InstantPlus(i, Negated(d))
<1>1. isSpecific(d) \/ d = POSITIVE_INFINITY \/ d = NEGATIVE_INFINITY
  BY DEF isSpecific, Infinite
<1>2. isSpecific(i) /\ isSpecific(d) => InstantPlus(i, d) = i + d /\ isSpecific(i + d)
  <2>1. isSpecific(i) /\ isSpecific(d) => InstantPlus(i, d) = Wrapped(i + d)
    BY TheEnds DEF InstantPlus
  <2> QED
    BY <2>1, FitsIsSpecific DEF Exact
<1>3. isSpecific(i) /\ d = POSITIVE_INFINITY => InstantPlus(i, d) = INFINITE_FUTURE
  BY TheEnds DEF InstantPlus
<1>4. isSpecific(i) /\ d = NEGATIVE_INFINITY => InstantPlus(i, d) = INFINITE_PAST
  BY TheEnds DEF InstantPlus
<1>5. ~ isSpecific(i) => InstantPlus(i, d) = i
  BY DEF InstantPlus
<1>6. InstantMinus(i, d) = InstantPlus(i, Negated(d))
  <2>1. CASE ~ isSpecific(i)
    BY <2>1 DEF InstantPlus, InstantMinus
  <2>2. CASE isSpecific(i) /\ isSpecific(d)
    <3>1. Negated(d) = -d /\ isSpecific(-d)
      BY <2>2, NegatedIs, FitsIsSpecific DEF Exact
    <3>2. i - d = i + (-d)
      BY SpecificFits
    <3>3. InstantMinus(i, d) = Wrapped(i - d)
      BY <2>2, TheEnds DEF InstantMinus
    <3>4. InstantPlus(i, -d) = Wrapped(i + (-d))
      BY <2>2, <3>1, TheEnds DEF InstantPlus
    <3> QED
      BY <3>1, <3>2, <3>3, <3>4
  <2>3. CASE isSpecific(i) /\ ~ isSpecific(d)
    BY <1>1, <2>3, NegatedIs, TheEnds DEF InstantPlus, InstantMinus
  <2> QED
    BY <2>1, <2>2, <2>3
<1> QED
  BY <1>2, <1>3, <1>4, <1>5, <1>6

\* A later instant is not earlier once both are moved by the same duration.
LEMMA MovingKeepsOrder ==
    ASSUME NEW i \in Vs64, NEW j \in Vs64, NEW d \in Vs64 \ {UNSPECIFIED},
           Exact(i, d), Exact(j, d), Precedes(i, j)
    PROVE  PrecedesOrIs(InstantPlus(i, d), InstantPlus(j, d))
<1>1. isSpecific(d) \/ d = POSITIVE_INFINITY \/ d = NEGATIVE_INFINITY
  BY DEF isSpecific, Infinite
<1>2. i \in Int /\ j \in Int /\ d \in Int
  BY KindsOfInstant
<1>3. CASE bothSpecific(i, j) /\ isSpecific(d)
  <2>1. i < j
    BY <1>3 DEF Precedes
  <2>2. /\ InstantPlus(i, d) = i + d /\ isSpecific(i + d)
        /\ InstantPlus(j, d) = j + d /\ isSpecific(j + d)
    BY <1>3, MovedInstant DEF bothSpecific
  <2>3. i + d <= j + d
    BY <1>2, <2>1
  <2> QED
    BY <2>2, <2>3 DEF PrecedesOrIs, bothSpecific
<1>4. CASE bothSpecific(i, j) /\ ~ isSpecific(d)
  <2>1. InstantPlus(i, d) = InstantPlus(j, d)
    BY <1>1, <1>4, MovedInstant DEF bothSpecific
  <2>2. InstantPlus(i, d) = INFINITE_FUTURE \/ InstantPlus(i, d) = INFINITE_PAST
    BY <1>1, <1>4, MovedInstant DEF bothSpecific
  <2> QED
    BY <2>1, <2>2, TheEnds DEF PrecedesOrIs, bothSpecific, INFINITE_FUTURE, INFINITE_PAST
<1>5. CASE ~ bothSpecific(i, j)
  <2>1. AtTheEnds(i, j)
    BY <1>5 DEF Precedes
  <2>2. ~ isSpecific(INFINITE_PAST) /\ ~ isSpecific(INFINITE_FUTURE)
    BY TheEnds DEF INFINITE_FUTURE, INFINITE_PAST
  <2>3. isComparable(i) /\ isComparable(j)
    BY <2>1, TheEnds DEF AtTheEnds, isComparable, INFINITE_FUTURE, INFINITE_PAST
  <2>4. isComparable(InstantPlus(i, d)) /\ isComparable(InstantPlus(j, d))
    <3>1. ASSUME NEW k \in {i, j} PROVE isComparable(InstantPlus(k, d))
      <4>1. isComparable(k) /\ Exact(k, d) /\ k \in Vs64
        BY <2>3
      <4>2. CASE ~ isSpecific(k)
        BY <4>1, <4>2, MovedInstant
      <4>3. CASE isSpecific(k) /\ isSpecific(d)
        BY <4>1, <4>3, MovedInstant DEF isComparable, isSpecific
      <4>4. CASE isSpecific(k) /\ ~ isSpecific(d)
        BY <1>1, <4>1, <4>4, MovedInstant, TheEnds DEF isComparable, INFINITE_FUTURE, INFINITE_PAST
      <4> QED
        BY <4>2, <4>3, <4>4
    <3> QED
      BY <3>1
  <2>5. CASE i = INFINITE_PAST
    <3>1. InstantPlus(i, d) = INFINITE_PAST
      BY <2>2, <2>5, MovedInstant
    <3> QED
      BY <2>2, <2>4, <3>1 DEF PrecedesOrIs, bothSpecific, AtTheEnds
  <2>6. CASE j = INFINITE_FUTURE
    <3>1. InstantPlus(j, d) = INFINITE_FUTURE
      BY <2>2, <2>6, MovedInstant
    <3> QED
      BY <2>2, <2>4, <3>1 DEF PrecedesOrIs, bothSpecific, AtTheEnds
  <2> QED
    BY <2>1, <2>5, <2>6 DEF AtTheEnds
<1> QED
  BY <1>3, <1>4, <1>5

\* The difference of two instants leads from one to the other.
LEMMA DifferenceLeadsBack ==
    ASSUME NEW i \in Vs64, NEW j \in Vs64, isSpecific(i), isSpecific(j), Exact(i, j)
    PROVE  InstantPlus(j, Between(i, j)) = i
<1>1. Between(i, j) = i - j /\ isSpecific(i - j)
  BY FitsIsSpecific DEF Between, Exact
<1>2. InstantPlus(j, i - j) = Wrapped(j + (i - j))
  BY <1>1, TheEnds DEF InstantPlus
<1>3. j + (i - j) = i /\ Wrapped(i) = i
  BY KindsOfInstant, WrappedFits
<1> QED
  BY <1>1, <1>2, <1>3

\* With these, what InstantsAreOrdered says of two instants and a duration.
LEMMA InstantsOnALine == moment \in Vs64 /\ duration \in Vs64 => InstantsAreOrdered
<1> SUFFICES ASSUME moment \in Vs64, duration \in Vs64, NEW j \in Vs64
             PROVE  LET i == moment  d == duration IN
        /\ Follows(i, j) <=> Precedes(j, i)
        /\ PrecedesOrIs(i, j) <=> Precedes(i, j) \/ i = j
        /\ FollowsOrIs(i, j) <=> Follows(i, j) \/ i = j
        /\ isComparable(i) /\ isComparable(j) =>
               /\ Precedes(i, j) <=> ~ FollowsOrIs(i, j)
               /\ {EarlierInstant(i, j), LaterInstant(i, j)} = {i, j}
        /\ isComparable(d) /\ Exact(i, d) /\ Exact(j, d) =>
               /\ Precedes(i, j) => PrecedesOrIs(InstantPlus(i, d), InstantPlus(j, d))
               /\ InstantMinus(i, d) = InstantPlus(i, Negated(d))
        /\ isSpecific(i) /\ isSpecific(j) /\ Exact(i, j) => InstantPlus(j, Between(i, j)) = i
  BY DEF InstantsAreOrdered
<1>1. /\ Follows(moment, j) <=> Precedes(j, moment)
      /\ PrecedesOrIs(moment, j) <=> Precedes(moment, j) \/ moment = j
      /\ FollowsOrIs(moment, j) <=> Follows(moment, j) \/ moment = j
      /\ isComparable(moment) /\ isComparable(j) =>
             /\ Precedes(moment, j) <=> ~ FollowsOrIs(moment, j)
             /\ {EarlierInstant(moment, j), LaterInstant(moment, j)} = {moment, j}
  BY OrderOfInstants
<1>2. isComparable(duration) => duration \in Vs64 \ {UNSPECIFIED}
  BY DEF isComparable
<1>3. isComparable(duration) /\ Exact(moment, duration) /\ Exact(j, duration) =>
         /\ Precedes(moment, j) =>
                PrecedesOrIs(InstantPlus(moment, duration), InstantPlus(j, duration))
         /\ InstantMinus(moment, duration) = InstantPlus(moment, Negated(duration))
  BY <1>2, MovedInstant, MovingKeepsOrder
<1>4. isSpecific(moment) /\ isSpecific(j) /\ Exact(moment, j) =>
         InstantPlus(j, Between(moment, j)) = moment
  BY DifferenceLeadsBack
<1> QED
  BY <1>1, <1>3, <1>4

-----------------------------------------------------------------------------
(* The arithmetic of a Vs64 stays in its range *)

\* Every result is in the range of a Vs64,
LEMMA DurationResults ==
    ASSUME NEW d \in Vs64, NEW e \in Vs64, NEW n \in Int
    PROVE  /\ Plus(d, e) \in Vs64 /\ Minus(d, e) \in Vs64 /\ Modulo(d, e) \in Vs64
           /\ Times(d, n) \in Vs64 /\ Divided(d, n) \in Vs64
           /\ Negated(d) \in Vs64 /\ AbsoluteDuration(d) \in Vs64
<1>1. d \in Int /\ e \in Int /\ 0 \in Vs64
  BY SpecificFits, RangeOfSpecific DEF Vs64
<1>2. OtherInfinity(d) \in Vs64 /\ OtherInfinity(e) \in Vs64
  BY TheEnds DEF OtherInfinity
<1>3. Plus(d, e) \in Vs64
  <2>1. Wrapped(d + e) \in Vs64
    BY <1>1, WrappedInRange
  <2> QED
    BY <1>1, <2>1 DEF Plus
<1>4. Minus(d, e) \in Vs64
  <2>1. Wrapped(d - e) \in Vs64
    BY <1>1, WrappedInRange
  <2> QED
    BY <1>1, <1>2, <2>1 DEF Minus
<1>5. Modulo(d, e) \in Vs64
  <2>1. e # 0 => Remainder(d, e) \in Vs64
    <3> SUFFICES ASSUME e # 0 PROVE Remainder(d, e) \in Vs64
      OBVIOUS
    <3> DEFINE product == e * Quotient(d, e)
    <3>1. /\ d >= 0 => product \in 0..d
          /\ d < 0 => product \in d..0
      BY <1>1, QuotientInRange
    <3>2. Remainder(d, e) = d - product
      BY DEF Remainder
    <3> HIDE DEF product
    <3> QED
      BY <1>1, <3>1, <3>2, RangeOfSpecific DEF Vs64
  <2> QED
    BY <2>1 DEF Modulo
<1>6. Times(d, n) \in Vs64
  <2>1. Wrapped(d * n) \in Vs64
    <3>1. d * n \in Int
      BY <1>1
    <3> QED
      BY <3>1, WrappedInRange
  <2> QED
    BY <1>1, <1>2, <2>1 DEF Times
<1>7. Divided(d, n) \in Vs64
  <2>1. n # 0 => Wrapped(Quotient(d, n)) \in Vs64
    <3>1. n # 0 => Quotient(d, n) \in Int
      BY <1>1, QuotientInRange
    <3> QED
      BY <3>1, WrappedInRange
  <2> QED
    BY <2>1, TheEnds DEF Divided
<1>8. Negated(d) \in Vs64
  <2>1. Wrapped(-d) \in Vs64
    BY <1>1, WrappedInRange
  <2> QED
    BY <1>2, <2>1 DEF Negated
<1>9. AbsoluteDuration(d) \in Vs64
  BY <1>8, TheEnds DEF AbsoluteDuration
<1> QED
  BY <1>3, <1>4, <1>5, <1>6, <1>7, <1>8, <1>9

\* those of instants too.
LEMMA InstantResults ==
    ASSUME NEW i \in Vs64, NEW d \in Vs64
    PROVE  /\ InstantPlus(i, d) \in Vs64 /\ InstantMinus(i, d) \in Vs64 /\ Between(i, d) \in Vs64
           /\ INFINITE_PAST \in Vs64 /\ INFINITE_FUTURE \in Vs64 /\ NEVER_OCCURRED \in Vs64
<1>1. i \in Int /\ d \in Int /\ 0 \in Vs64
  BY SpecificFits, RangeOfSpecific DEF Vs64
<1>2. Wrapped(i + d) \in Vs64 /\ Wrapped(i - d) \in Vs64
  BY <1>1, WrappedInRange
<1>3. INFINITE_PAST \in Vs64 /\ INFINITE_FUTURE \in Vs64 /\ NEVER_OCCURRED \in Vs64
  BY TheEnds DEF INFINITE_PAST, INFINITE_FUTURE, NEVER_OCCURRED
<1> QED
  BY <1>1, <1>2, <1>3 DEF InstantPlus, InstantMinus, Between

ArithmeticTypes == duration \in Vs64 /\ moment \in Vs64

\* So the values of the thread stay in that range.
LEMMA ArithmeticTypesInit == ArithmeticInit => ArithmeticTypes
  BY RangeOfSpecific DEF ArithmeticInit, ArithmeticTypes, Vs64

LEMMA ArithmeticTypesStep ==
    ASSUME ArithmeticTypes, ArithmeticNext
    PROVE  ArithmeticTypes'
<1>1. duration \in Vs64 /\ moment \in Vs64 /\ Factors \subseteq Int
  BY RangeAssumption DEF ArithmeticTypes
<1>2. CASE ChangesDuration
  <2>1. CASE \E d \in Vs64 : duration' \in {d, Plus(duration, d), Minus(duration, d), Modulo(duration, d)}
    BY <1>1, <1>2, <2>1, DurationResults DEF ChangesDuration, ArithmeticTypes
  <2>2. CASE \E n \in Factors : duration' \in {Times(duration, n), Divided(duration, n)}
    BY <1>1, <1>2, <2>2, DurationResults DEF ChangesDuration, ArithmeticTypes
  <2>3. CASE duration' \in {Negated(duration), AbsoluteDuration(duration)}
    <3>1. 0 \in Int
      OBVIOUS
    <3> QED
      BY <1>1, <1>2, <2>3, <3>1, DurationResults DEF ChangesDuration, ArithmeticTypes
  <2> QED
    BY <1>2, <2>1, <2>2, <2>3 DEF ChangesDuration
<1>3. CASE ChangesInstant
  BY <1>1, <1>3, InstantResults DEF ChangesInstant, ArithmeticTypes
<1>4. CASE Measures
  BY <1>1, <1>4, InstantResults DEF Measures, ArithmeticTypes
<1> QED
  BY <1>2, <1>3, <1>4 DEF ArithmeticNext

-----------------------------------------------------------------------------
(* The clock *)

Settings == Offsets \cup {INFINITE_PAST}
Places == {"idle", "look", "clock", "offset", "frozen", "increment", "store", "shift"}
Arguments == {<<>>} \cup {<<i>> : i \in Settings}

ClockTypes ==
    /\ systemTime \in 0..MaxSystemTime
    /\ gSimulatedClockOffset \in Offsets /\ gFrozenClockValue \in Vs64
    /\ pc \in [Threads -> Places] /\ argument \in [Threads -> Arguments]
    /\ mValue \in [Threads -> Vs64] /\ measuredAt \in [Threads -> 0..MaxSystemTime]
    /\ promisedOffset \in Int
    /\ offsetStray \in BOOLEAN /\ frozenStray \in BOOLEAN /\ disturbed \subseteq Threads

\* What the calls ask for is what the static variables say.
FrozenAsPromised ==
    /\ promisedFrozen = <<>> \/ promisedFrozen = <<gFrozenClockValue>>
    /\ ~ frozenStray => (gFrozenClockValue # 0 <=> promisedFrozen # <<>>)
OffsetAsPromised == ~ offsetStray => gSimulatedClockOffset = promisedOffset

\* A thread whose call no other overlaps still knows what the static variables say: what
\* it adds to, or that the offset is out of the way.
Undisturbed(t) ==
    /\ pc[t] = "increment" => mValue[t] = gSimulatedClockOffset
    /\ pc[t] = "shift" => mValue[t] = gFrozenClockValue
    /\ pc[t] \in {"look", "clock", "offset"} /\ argument[t] # <<>> => gSimulatedClockOffset = 0
    /\ pc[t] = "store" => mValue[t] = measuredAt[t]

Adds(t) == \E d \in Offsets : argument[t] = <<d>> /\ mValue[t] + d \in Offsets

ThreadInv(t) ==
    /\ pc[t] = "idle" => argument[t] = <<>>
    /\ pc[t] \in {"increment", "shift"} => Adds(t)
    /\ pc[t] \in {"look", "store"} => argument[t] # <<>>
    /\ pc[t] = "offset" => mValue[t] = measuredAt[t]
    /\ t \notin disturbed => Undisturbed(t)

ClockInv ==
    /\ ClockTypes /\ FrozenAsPromised /\ OffsetAsPromised
    /\ \A t \in Threads : ThreadInv(t)

\* The offsets are specific, and the present they make fits.
LEMMA ClockRange ==
    /\ Offsets \subseteq Vs64 /\ Settings \subseteq Vs64 /\ Offsets \subseteq Int /\ 0 \in Offsets
    /\ \A i \in Offsets : isSpecific(i)
    /\ \A t \in 0..MaxSystemTime : t \in Vs64 /\ isSpecific(t) /\ t \in Int
    /\ \A t \in 0..MaxSystemTime, i \in Offsets : t + i \in Vs64 /\ i - t \in Vs64
  BY RangeAssumption
  DEF Offsets, Settings, Vs64, V_MIN_S64, isSpecific, Infinite, INFINITE_PAST, POSITIVE_INFINITY,
      NEGATIVE_INFINITY, UNSPECIFIED

\* At first nothing has been asked for.
LEMMA ClockInvInit == ClockInit => ClockInv
<1> SUFFICES ASSUME ClockInit PROVE ClockInv
  OBVIOUS
<1>1. systemTime \in 0..MaxSystemTime /\ 0 \in 0..MaxSystemTime /\ 0 \in Vs64 /\ 0 \in Offsets
  BY RangeAssumption, ClockRange DEF ClockInit
<1>2. gFrozenClockValue \in Vs64 /\ gSimulatedClockOffset \in Offsets /\ promisedOffset \in Int
  BY <1>1 DEF ClockInit
<1>3. /\ pc \in [Threads -> Places] /\ argument \in [Threads -> Arguments]
      /\ mValue \in [Threads -> Vs64] /\ measuredAt \in [Threads -> 0..MaxSystemTime]
  BY <1>1 DEF ClockInit, Places, Arguments
<1>4. offsetStray \in BOOLEAN /\ frozenStray \in BOOLEAN /\ disturbed \subseteq Threads
  BY DEF ClockInit
<1>5. ClockTypes
  BY <1>1, <1>2, <1>3, <1>4, Zenon DEF ClockTypes
<1>6. FrozenAsPromised /\ OffsetAsPromised
  BY DEF ClockInit, FrozenAsPromised, OffsetAsPromised
<1>7. ASSUME NEW t \in Threads PROVE ThreadInv(t)
  <2>1. pc[t] = "idle" /\ argument[t] = <<>>
    BY DEF ClockInit
  <2> QED
    BY <2>1 DEF ThreadInv, Undisturbed
<1> QED
  BY <1>5, <1>6, <1>7 DEF ClockInv

\* What a thread that goes on knows, and the others.
LEMMA GoesOnIs ==
    ASSUME ClockTypes, NEW t \in Threads, NEW place \in Places, NEW arg \in Arguments,
           NEW value \in Vs64, GoesOn(t, place, arg, value)
    PROVE  /\ pc' \in [Threads -> Places] /\ argument' \in [Threads -> Arguments]
           /\ mValue' \in [Threads -> Vs64]
           /\ pc'[t] = place /\ argument'[t] = arg /\ mValue'[t] = value
           /\ \A u \in Threads \ {t} :
                 pc'[u] = pc[u] /\ argument'[u] = argument[u] /\ mValue'[u] = mValue[u]
  BY DEF GoesOn, ClockTypes

LEMMA ReturnsIs ==
    ASSUME ClockTypes, NEW t \in Threads, Returns(t)
    PROVE  /\ pc' \in [Threads -> Places] /\ argument' \in [Threads -> Arguments]
           /\ mValue' \in [Threads -> Vs64] /\ measuredAt' \in [Threads -> 0..MaxSystemTime]
           /\ pc'[t] = "idle" /\ argument'[t] = <<>>
           /\ \A u \in Threads \ {t} :
                 pc'[u] = pc[u] /\ argument'[u] = argument[u] /\ mValue'[u] = mValue[u]
                 /\ measuredAt'[u] = measuredAt[u]
<1>1. "idle" \in Places /\ <<>> \in Arguments /\ 0 \in Vs64 /\ 0 \in 0..MaxSystemTime
  BY ClockRange, RangeAssumption DEF Places, Arguments
<1>2. GoesOn(t, "idle", <<>>, 0)
  BY DEF Returns
<1>3. /\ measuredAt' \in [Threads -> 0..MaxSystemTime]
      /\ \A u \in Threads \ {t} : measuredAt'[u] = measuredAt[u]
  BY <1>1 DEF Returns, ClockTypes
<1> QED
  BY <1>1, <1>2, <1>3, GoesOnIs

\* A thread that has returned knows nothing it could be wrong about.
LEMMA IdleThread ==
    ASSUME NEW t, pc'[t] = "idle", argument'[t] = <<>>
    PROVE  ThreadInv(t)'
  BY DEF ThreadInv, Undisturbed

Stays(u) ==
    /\ pc'[u] = pc[u] /\ argument'[u] = argument[u]
    /\ mValue'[u] = mValue[u] /\ measuredAt'[u] = measuredAt[u]

\* What is written is not what an undisturbed thread knows.
Spared(u) ==
    u \notin disturbed' =>
        /\ u \notin disturbed
        /\ pc[u] \notin {"idle", "shift"} => gSimulatedClockOffset' = gSimulatedClockOffset
        /\ pc[u] = "shift" => gFrozenClockValue' = gFrozenClockValue

LEMMA OtherThread ==
    ASSUME NEW u, ThreadInv(u), Stays(u), Spared(u)
    PROVE  ThreadInv(u)'
<1>1. Adds(u) => Adds(u)'
  BY DEF Adds, Stays
<1>2. u \notin disturbed' => Undisturbed(u)'
  <2> SUFFICES ASSUME u \notin disturbed' PROVE Undisturbed(u)'
    OBVIOUS
  <2>1. Undisturbed(u)
    BY DEF Spared, ThreadInv
  <2>2. /\ pc[u] \notin {"idle", "shift"} => gSimulatedClockOffset' = gSimulatedClockOffset
        /\ pc[u] = "shift" => gFrozenClockValue' = gFrozenClockValue
    BY DEF Spared
  <2> QED
    BY <2>1, <2>2 DEF Undisturbed, Stays
<1> QED
  BY <1>1, <1>2 DEF ThreadInv, Stays

\* The others are spared by a thread that writes nothing, and disturbed by the others.
LEMMA WritesSpare ==
    ASSUME NEW t \in Threads, NEW u \in Threads \ {t},
           \/ WritesOffset(t) /\ gFrozenClockValue' = gFrozenClockValue
           \/ WritesFrozen(t) /\ gSimulatedClockOffset' = gSimulatedClockOffset
           \/ /\ gFrozenClockValue' = gFrozenClockValue /\ gSimulatedClockOffset' = gSimulatedClockOffset
              /\ disturbed' \in {disturbed, disturbed \cup {t}, disturbed \ {t}}
    PROVE  Spared(u)
  BY DEF WritesOffset, WritesFrozen, Spared

\* So only the thread that takes a step has to be looked at.
LEMMA AllThreads ==
    ASSUME NEW t \in Threads, \A u \in Threads : ThreadInv(u),
           \A u \in Threads \ {t} : Stays(u),
           \/ WritesOffset(t) /\ gFrozenClockValue' = gFrozenClockValue
           \/ WritesFrozen(t) /\ gSimulatedClockOffset' = gSimulatedClockOffset
           \/ /\ gFrozenClockValue' = gFrozenClockValue /\ gSimulatedClockOffset' = gSimulatedClockOffset
              /\ disturbed' \in {disturbed, disturbed \cup {t}, disturbed \ {t}},
           ThreadInv(t)'
    PROVE  \A u \in Threads : ThreadInv(u)'
<1>1. ASSUME NEW u \in Threads \ {t} PROVE ThreadInv(u)'
  <2>1. Spared(u)
    BY WritesSpare
  <2> QED
    BY <2>1, OtherThread
<1> QED
  BY <1>1

\* The steps of a reading.
LEMMA ReadingStep ==
    ASSUME ClockInv, NEW t \in Threads,
           LooksWhetherFrozen(t) \/ ReadsSystemTime(t) \/ EndsReading(t)
    PROVE  ClockInv'
<1> USE DEF ClockInv
<1>1. /\ t \in Threads /\ argument[t] \in Arguments /\ ThreadInv(t) /\ pc[t] \in Places
      /\ systemTime \in Vs64 /\ 0 \in Vs64 /\ gFrozenClockValue \in Vs64
  BY ClockRange DEF ClockTypes
<1>2. /\ FrozenAsPromised' /\ OffsetAsPromised'
      /\ gFrozenClockValue' = gFrozenClockValue /\ gSimulatedClockOffset' = gSimulatedClockOffset
      /\ systemTime' = systemTime /\ promisedOffset' = promisedOffset
      /\ offsetStray' = offsetStray /\ frozenStray' = frozenStray
  BY DEF LooksWhetherFrozen, ReadsSystemTime, EndsReading, offsetVars, frozenVars,
         FrozenAsPromised, OffsetAsPromised
<1>3. ASSUME disturbed' \in {disturbed, disturbed \cup {t}, disturbed \ {t}},
             pc' \in [Threads -> Places], argument' \in [Threads -> Arguments],
             mValue' \in [Threads -> Vs64], measuredAt' \in [Threads -> 0..MaxSystemTime],
             \A u \in Threads \ {t} : Stays(u), ThreadInv(t)'
      PROVE  ClockInv'
  <2>1. disturbed' \subseteq Threads
    BY <1>3 DEF ClockTypes
  <2>2. ClockTypes'
    BY <1>2, <1>3, <2>1, Zenon DEF ClockTypes
  <2>3. \A u \in Threads : ThreadInv(u)'
    BY <1>2, <1>3, AllThreads
  <2> QED
    BY <1>2, <2>2, <2>3
<1>4. CASE LooksWhetherFrozen(t)
  <2> DEFINE place == IF isTimeFrozen THEN "frozen" ELSE "clock"
  <2>1. GoesOn(t, place, argument[t], 0) /\ pc[t] \in {"idle", "look"}
        /\ disturbed' = disturbed /\ measuredAt' = measuredAt
    BY <1>4 DEF LooksWhetherFrozen
  <2>2. place \in Places /\ place \in {"frozen", "clock"}
    BY DEF Places
  <2> HIDE DEF place
  <2>3. /\ pc' \in [Threads -> Places] /\ argument' \in [Threads -> Arguments]
        /\ mValue' \in [Threads -> Vs64]
        /\ pc'[t] = place /\ argument'[t] = argument[t] /\ mValue'[t] = 0
        /\ \A u \in Threads \ {t} :
              pc'[u] = pc[u] /\ argument'[u] = argument[u] /\ mValue'[u] = mValue[u]
    BY <1>1, <2>1, <2>2, GoesOnIs
  <2>4. argument[t] # <<>> => pc[t] = "look"
    BY <1>1, <2>1 DEF ThreadInv
  <2>5. t \notin disturbed' => Undisturbed(t)'
    BY <1>1, <1>2, <2>1, <2>2, <2>3, <2>4 DEF ThreadInv, Undisturbed
  <2>6. ThreadInv(t)'
    BY <2>2, <2>3, <2>5 DEF ThreadInv
  <2>7. \A u \in Threads \ {t} : Stays(u)
    BY <2>1, <2>3 DEF Stays
  <2> QED
    BY <1>3, <2>1, <2>3, <2>6, <2>7 DEF ClockTypes
<1>5. CASE ReadsSystemTime(t)
  <2>1. GoesOn(t, "offset", argument[t], systemTime) /\ pc[t] = "clock"
        /\ disturbed' = disturbed /\ measuredAt' = [measuredAt EXCEPT ![t] = systemTime]
    BY <1>5 DEF ReadsSystemTime
  <2>2. "offset" \in Places
    BY DEF Places
  <2>3. /\ pc' \in [Threads -> Places] /\ argument' \in [Threads -> Arguments]
        /\ mValue' \in [Threads -> Vs64]
        /\ pc'[t] = "offset" /\ argument'[t] = argument[t] /\ mValue'[t] = systemTime
        /\ \A u \in Threads \ {t} :
              pc'[u] = pc[u] /\ argument'[u] = argument[u] /\ mValue'[u] = mValue[u]
    BY <1>1, <2>1, <2>2, GoesOnIs
  <2>4. /\ measuredAt' \in [Threads -> 0..MaxSystemTime] /\ measuredAt'[t] = systemTime
        /\ \A u \in Threads \ {t} : measuredAt'[u] = measuredAt[u]
    BY <2>1 DEF ClockTypes
  <2>5. t \notin disturbed' => Undisturbed(t)'
    BY <1>1, <1>2, <2>1, <2>3 DEF ThreadInv, Undisturbed
  <2>6. ThreadInv(t)'
    BY <2>3, <2>4, <2>5 DEF ThreadInv
  <2>7. \A u \in Threads \ {t} : Stays(u)
    BY <2>3, <2>4 DEF Stays
  <2> QED
    BY <1>3, <2>1, <2>3, <2>4, <2>6, <2>7
<1>6. CASE EndsReading(t) /\ argument[t] = <<>>
  <2>1. Returns(t) /\ disturbed' = disturbed \ {t}
    BY <1>6 DEF EndsReading
  <2>2. /\ pc' \in [Threads -> Places] /\ argument' \in [Threads -> Arguments]
        /\ mValue' \in [Threads -> Vs64] /\ measuredAt' \in [Threads -> 0..MaxSystemTime]
        /\ pc'[t] = "idle" /\ argument'[t] = <<>>
        /\ \A u \in Threads \ {t} : Stays(u)
    BY <2>1, ReturnsIs DEF Stays
  <2> QED
    BY <1>3, <2>1, <2>2, IdleThread
<1>7. CASE EndsReading(t) /\ argument[t] # <<>>
  <2>1. /\ GoesOn(t, "store", argument[t], Reading(t)) /\ measuredAt' = measuredAt
        /\ pc[t] \in {"offset", "frozen"}
        /\ disturbed' = IF pc[t] = "frozen" THEN disturbed \cup {t} ELSE disturbed
    BY <1>7 DEF EndsReading
  <2>2. Reading(t) \in Vs64
    <3>1. gSimulatedClockOffset \in Int /\ mValue[t] \in Int
      BY ClockRange, SpecificFits DEF ClockTypes
    <3>2. mValue[t] + gSimulatedClockOffset \in Int
      BY <3>1
    <3> QED
      BY <1>1, <3>2, WrappedInRange DEF Reading
  <2>3. "store" \in Places
    BY DEF Places
  <2>4. /\ pc' \in [Threads -> Places] /\ argument' \in [Threads -> Arguments]
        /\ mValue' \in [Threads -> Vs64]
        /\ pc'[t] = "store" /\ argument'[t] = argument[t] /\ mValue'[t] = Reading(t)
        /\ \A u \in Threads \ {t} :
              pc'[u] = pc[u] /\ argument'[u] = argument[u] /\ mValue'[u] = mValue[u]
    BY <1>1, <2>1, <2>2, <2>3, GoesOnIs
  <2>5. ASSUME t \notin disturbed' PROVE mValue'[t] = measuredAt'[t]
    <3>1. pc[t] = "offset" /\ t \notin disturbed
      BY <2>1, <2>5
    <3>2. gSimulatedClockOffset = 0 /\ mValue[t] = measuredAt[t]
      BY <1>1, <1>7, <3>1 DEF ThreadInv, Undisturbed
    <3>3. Reading(t) = Wrapped(mValue[t] + gSimulatedClockOffset)
      BY <3>1 DEF Reading
    <3>4. mValue[t] \in Vs64 /\ mValue[t] + 0 = mValue[t]
      BY SpecificFits DEF ClockTypes
    <3> QED
      BY <2>1, <2>4, <3>2, <3>3, <3>4, WrappedFits
  <2>6. t \notin disturbed' => Undisturbed(t)'
    BY <2>4, <2>5 DEF Undisturbed
  <2>7. ThreadInv(t)'
    BY <1>7, <2>4, <2>6 DEF ThreadInv
  <2>8. \A u \in Threads \ {t} : Stays(u)
    BY <2>1, <2>4 DEF Stays
  <2> QED
    BY <1>3, <2>1, <2>4, <2>7, <2>8 DEF ClockTypes
<1> QED
  BY <1>4, <1>5, <1>6, <1>7

\* The steps that store the offset.
LEMMA OffsetStep ==
    ASSUME ClockInv, NEW t \in Threads,
           \/ IncrementsOffset(t) \/ SetsValue(t)
           \/ \E d \in Offsets : SetsOffset(t, d)
           \/ \E i \in Settings : BeginsToSet(t, i)
    PROVE  ClockInv'
<1> USE DEF ClockInv
<1>1. /\ systemTime' = systemTime /\ gFrozenClockValue' = gFrozenClockValue
      /\ frozenStray' = frozenStray /\ FrozenAsPromised' /\ WritesOffset(t)
  BY DEF IncrementsOffset, SetsValue, SetsOffset, BeginsToSet, frozenVars, FrozenAsPromised
<1>2. disturbed' \subseteq Threads
  BY <1>1 DEF WritesOffset, ClockTypes
<1>3. ASSUME gSimulatedClockOffset' \in Offsets, promisedOffset' \in Int, offsetStray' \in BOOLEAN,
             OffsetAsPromised',
             pc' \in [Threads -> Places], argument' \in [Threads -> Arguments],
             mValue' \in [Threads -> Vs64], measuredAt' \in [Threads -> 0..MaxSystemTime],
             \A u \in Threads \ {t} : Stays(u), ThreadInv(t)'
      PROVE  ClockInv'
  <2>1. ClockTypes'
    BY <1>1, <1>2, <1>3, Zenon DEF ClockTypes
  <2>2. \A u \in Threads : ThreadInv(u)'
    BY <1>1, <1>3, AllThreads
  <2> QED
    BY <1>1, <1>3, <2>1, <2>2
<1>4. Returns(t) =>
         /\ pc' \in [Threads -> Places] /\ argument' \in [Threads -> Arguments]
         /\ mValue' \in [Threads -> Vs64] /\ measuredAt' \in [Threads -> 0..MaxSystemTime]
         /\ \A u \in Threads \ {t} : Stays(u)
         /\ ThreadInv(t)'
  BY ReturnsIs, IdleThread DEF Stays
<1>5. CASE IncrementsOffset(t)
  <2>1. PICK d \in Offsets : argument[t] = <<d>> /\ mValue[t] + d \in Offsets
    BY <1>5 DEF IncrementsOffset, ThreadInv, Adds
  <2>2. argument[t][1] = d /\ d \in Int
    BY <2>1, ClockRange
  <2>3. gSimulatedClockOffset' = mValue[t] + d /\ Returns(t)
    BY <1>5, <2>2 DEF IncrementsOffset
  <2>4. CASE t \in disturbed \/ offsetStray
    <3>1. promisedOffset' = 0 /\ offsetStray' = TRUE
      BY <1>5, <2>4 DEF IncrementsOffset, OffsetIsStray
    <3>2. promisedOffset' \in Int /\ OffsetAsPromised'
      BY <3>1 DEF OffsetAsPromised
    <3> QED
      BY <1>3, <1>4, <2>1, <2>3, <3>1, <3>2
  <2>5. CASE ~ (t \in disturbed \/ offsetStray)
    <3>1. promisedOffset' = promisedOffset + d /\ offsetStray' = FALSE
      BY <1>5, <2>2, <2>5 DEF IncrementsOffset, OffsetIsPromised
    <3>2. mValue[t] = gSimulatedClockOffset /\ gSimulatedClockOffset = promisedOffset
      BY <1>5, <2>5 DEF IncrementsOffset, ThreadInv, Undisturbed, OffsetAsPromised
    <3>3. promisedOffset' \in Int /\ OffsetAsPromised'
      BY <2>2, <2>3, <3>1, <3>2 DEF ClockTypes, OffsetAsPromised
    <3> QED
      BY <1>3, <1>4, <2>1, <2>3, <3>1, <3>3
  <2> QED
    BY <2>4, <2>5
<1>6. CASE SetsValue(t)
  <2>1. argument[t] # <<>> /\ argument[t] \in Arguments
    BY <1>6 DEF SetsValue, ThreadInv, ClockTypes
  <2>2. PICK v \in Settings : argument[t] = <<v>>
    BY <2>1 DEF Arguments
  <2>3. argument[t][1] = v
    BY <2>2
  <2>4. gSimulatedClockOffset' = Between(v, mValue[t]) /\ gSimulatedClockOffset' \in Offsets /\ Returns(t)
    BY <1>6, <2>3 DEF SetsValue
  <2>5. CASE t \in disturbed \/ ~ isSpecific(v)
    <3>1. promisedOffset' = 0 /\ offsetStray' = TRUE
      BY <1>6, <2>3, <2>5 DEF SetsValue, OffsetIsStray
    <3>2. promisedOffset' \in Int /\ OffsetAsPromised'
      BY <3>1 DEF OffsetAsPromised
    <3> QED
      BY <1>3, <1>4, <2>4, <3>1, <3>2
  <2>6. CASE ~ (t \in disturbed \/ ~ isSpecific(v))
    <3>1. promisedOffset' = v - measuredAt[t] /\ offsetStray' = FALSE
      BY <1>6, <2>3, <2>6 DEF SetsValue, OffsetIsPromised
    <3>2. mValue[t] = measuredAt[t] /\ measuredAt[t] \in 0..MaxSystemTime
      BY <1>6, <2>6 DEF SetsValue, ThreadInv, Undisturbed, ClockTypes
    <3>3. v \in Offsets
      BY <2>2, <2>6, TheEnds DEF Settings, INFINITE_PAST
    <3>4. Between(v, measuredAt[t]) = v - measuredAt[t] /\ v - measuredAt[t] \in Int
      BY <3>2, <3>3, ClockRange, WrappedFits DEF Between
    <3>5. OffsetAsPromised'
      BY <2>4, <3>1, <3>2, <3>4 DEF OffsetAsPromised
    <3> QED
      BY <1>3, <1>4, <2>4, <3>1, <3>4, <3>5
  <2> QED
    BY <2>5, <2>6
<1>7. ASSUME NEW d \in Offsets, SetsOffset(t, d)
      PROVE  ClockInv'
  <2>1. /\ pc[t] = "idle" /\ gSimulatedClockOffset' = d /\ promisedOffset' = d /\ offsetStray' = FALSE
        /\ pc' = pc /\ argument' = argument /\ mValue' = mValue /\ measuredAt' = measuredAt
    BY <1>7 DEF SetsOffset, OffsetIsPromised, threadVars
  <2>2. ThreadInv(t)'
    BY <2>1, IdleThread DEF ThreadInv
  <2>3. promisedOffset' \in Int /\ OffsetAsPromised' /\ \A u \in Threads \ {t} : Stays(u)
    BY <2>1, ClockRange DEF OffsetAsPromised, Stays
  <2> QED
    BY <1>3, <2>1, <2>2, <2>3 DEF ClockTypes
<1>8. ASSUME NEW i \in Settings, BeginsToSet(t, i)
      PROVE  ClockInv'
  <2>1. /\ GoesOn(t, "look", <<i>>, 0) /\ gSimulatedClockOffset' = 0 /\ measuredAt' = measuredAt
        /\ promisedOffset' = 0 /\ offsetStray' = TRUE
    BY <1>8 DEF BeginsToSet, OffsetWhileSetting, OffsetIsStray
  <2>2. "look" \in Places /\ <<i>> \in Arguments /\ 0 \in Vs64 /\ 0 \in Offsets
    BY ClockRange DEF Places, Arguments
  <2>3. /\ pc' \in [Threads -> Places] /\ argument' \in [Threads -> Arguments]
        /\ mValue' \in [Threads -> Vs64]
        /\ pc'[t] = "look" /\ argument'[t] = <<i>> /\ mValue'[t] = 0
        /\ \A u \in Threads \ {t} :
              pc'[u] = pc[u] /\ argument'[u] = argument[u] /\ mValue'[u] = mValue[u]
    BY <2>1, <2>2, GoesOnIs
  <2>4. ThreadInv(t)'
    <3>1. <<i>> # <<>>
      OBVIOUS
    <3> QED
      BY <2>1, <2>3, <3>1 DEF ThreadInv, Undisturbed
  <2>5. \A u \in Threads \ {t} : Stays(u)
    BY <2>1, <2>3 DEF Stays
  <2>6. OffsetAsPromised' /\ promisedOffset' \in Int /\ offsetStray' \in BOOLEAN
        /\ gSimulatedClockOffset' \in Offsets
    BY <2>1, <2>2 DEF OffsetAsPromised
  <2> QED
    BY <1>3, <2>1, <2>3, <2>4, <2>5, <2>6 DEF ClockTypes
<1> QED
  BY <1>5, <1>6, <1>7, <1>8

\* The steps that store the value time is frozen at.
LEMMA FrozenStep ==
    ASSUME ClockInv, NEW t \in Threads,
           \/ Unfreezes(t) \/ ShiftsFrozenTime(t)
           \/ \E i \in Settings : Freezes(t, i)
    PROVE  ClockInv'
<1> USE DEF ClockInv
<1>1. /\ systemTime' = systemTime /\ gSimulatedClockOffset' = gSimulatedClockOffset
      /\ promisedOffset' = promisedOffset /\ offsetStray' = offsetStray
      /\ OffsetAsPromised' /\ WritesFrozen(t)
  BY DEF Unfreezes, ShiftsFrozenTime, Freezes, offsetVars, OffsetAsPromised
<1>2. disturbed' \subseteq Threads
  BY <1>1 DEF WritesFrozen, ClockTypes
<1>3. ASSUME gFrozenClockValue' \in Vs64, frozenStray' \in BOOLEAN, FrozenAsPromised',
             pc' \in [Threads -> Places], argument' \in [Threads -> Arguments],
             mValue' \in [Threads -> Vs64], measuredAt' \in [Threads -> 0..MaxSystemTime],
             \A u \in Threads \ {t} : Stays(u), ThreadInv(t)'
      PROVE  ClockInv'
  <2>1. ClockTypes'
    BY <1>1, <1>2, <1>3, Zenon DEF ClockTypes
  <2>2. \A u \in Threads : ThreadInv(u)'
    BY <1>1, <1>3, AllThreads
  <2> QED
    BY <1>1, <1>3, <2>1, <2>2
<1>4. ASSUME pc[t] = "idle", UNCHANGED threadVars
      PROVE  /\ pc' \in [Threads -> Places] /\ argument' \in [Threads -> Arguments]
             /\ mValue' \in [Threads -> Vs64] /\ measuredAt' \in [Threads -> 0..MaxSystemTime]
             /\ \A u \in Threads \ {t} : Stays(u)
             /\ ThreadInv(t)'
  <2>1. pc' = pc /\ argument' = argument /\ mValue' = mValue /\ measuredAt' = measuredAt
    BY <1>4 DEF threadVars
  <2>2. ThreadInv(t)'
    BY <1>4, <2>1, IdleThread DEF ThreadInv
  <2> QED
    BY <2>1, <2>2 DEF ClockTypes, Stays
<1>5. CASE Unfreezes(t)
  <2>1. /\ pc[t] = "idle" /\ UNCHANGED threadVars /\ gFrozenClockValue' = 0
        /\ promisedFrozen' = <<>> /\ frozenStray' = FALSE
    BY <1>5 DEF Unfreezes, FrozenIsPromised
  <2>2. 0 \in Vs64
    BY RangeOfSpecific DEF Vs64
  <2>3. FrozenAsPromised'
    BY <2>1 DEF FrozenAsPromised
  <2> QED
    BY <1>3, <1>4, <2>1, <2>2, <2>3
<1>6. ASSUME NEW i \in Settings, Freezes(t, i)
      PROVE  ClockInv'
  <2>1. /\ pc[t] = "idle" /\ UNCHANGED threadVars /\ gFrozenClockValue' = i
        /\ IF i = 0 THEN promisedFrozen' = <<>> /\ frozenStray' = TRUE
           ELSE promisedFrozen' = <<i>> /\ frozenStray' = FALSE
    BY <1>6 DEF Freezes, FrozenIsPromised, FrozenIsStray
  <2>2. i \in Vs64 /\ frozenStray' \in BOOLEAN /\ <<i>> # <<>>
    BY <2>1, ClockRange
  <2>3. FrozenAsPromised'
    BY <2>1, <2>2 DEF FrozenAsPromised
  <2> QED
    BY <1>3, <1>4, <2>1, <2>2, <2>3
<1>7. CASE ShiftsFrozenTime(t)
  <2>1. PICK d \in Offsets : argument[t] = <<d>> /\ mValue[t] + d \in Offsets
    BY <1>7 DEF ShiftsFrozenTime, ThreadInv, Adds
  <2>2. argument[t][1] = d
    BY <2>1
  <2>3. gFrozenClockValue' = mValue[t] + d /\ gFrozenClockValue' \in Vs64 /\ Returns(t)
    BY <1>7, <2>1, <2>2, ClockRange DEF ShiftsFrozenTime
  <2>4. /\ pc' \in [Threads -> Places] /\ argument' \in [Threads -> Arguments]
        /\ mValue' \in [Threads -> Vs64] /\ measuredAt' \in [Threads -> 0..MaxSystemTime]
        /\ \A u \in Threads \ {t} : Stays(u)
        /\ ThreadInv(t)'
    BY <2>3, ReturnsIs, IdleThread DEF Stays
  <2> DEFINE shifted == promisedFrozen[1] + d
             stray == t \in disturbed \/ frozenStray \/ promisedFrozen = <<>> \/ shifted = 0
  <2>5. CASE stray
    <3>1. promisedFrozen' = <<>> /\ frozenStray' = TRUE
      BY <1>7, <2>2, <2>5 DEF ShiftsFrozenTime, FrozenIsStray
    <3> QED
      BY <1>3, <2>3, <2>4, <3>1 DEF FrozenAsPromised
  <2>6. CASE ~ stray
    <3>1. promisedFrozen' = <<shifted>> /\ frozenStray' = FALSE
      BY <1>7, <2>2, <2>6 DEF ShiftsFrozenTime, FrozenIsPromised
    <3>2. mValue[t] = gFrozenClockValue
      BY <1>7, <2>6 DEF ShiftsFrozenTime, ThreadInv, Undisturbed
    <3>3. promisedFrozen[1] = gFrozenClockValue
      BY <2>6 DEF FrozenAsPromised
    <3>4. gFrozenClockValue' = shifted /\ shifted # 0
      BY <2>3, <2>6, <3>2, <3>3
    <3> HIDE DEF shifted
    <3>5. FrozenAsPromised'
      <4>1. <<shifted>> # <<>>
        OBVIOUS
      <4> QED
        BY <3>1, <3>4, <4>1 DEF FrozenAsPromised
    <3> QED
      BY <1>3, <2>3, <2>4, <3>1, <3>5
  <2> QED
    BY <2>5, <2>6
<1> QED
  BY <1>5, <1>6, <1>7

\* The first steps of an increment and of a shift.
LEMMA AdditionStep ==
    ASSUME ClockInv, NEW t \in Threads, NEW d \in Offsets, ReadsOffset(t, d) \/ ReadsFrozenValue(t, d)
    PROVE  ClockInv'
<1> USE DEF ClockInv
<1> DEFINE place == IF ReadsOffset(t, d) THEN "increment" ELSE "shift"
           value == IF ReadsOffset(t, d) THEN gSimulatedClockOffset ELSE gFrozenClockValue
<1>1. /\ GoesOn(t, place, <<d>>, value) /\ value + d \in Offsets
      /\ measuredAt' = measuredAt /\ disturbed' = disturbed /\ systemTime' = systemTime
      /\ UNCHANGED offsetVars /\ UNCHANGED frozenVars
  BY DEF ReadsOffset, ReadsFrozenValue
<1>2. place \in Places /\ place \in {"increment", "shift"} /\ <<d>> \in Arguments /\ value \in Vs64
  BY ClockRange DEF Places, Arguments, Settings, ClockTypes
<1>3. /\ place = "increment" => value = gSimulatedClockOffset
      /\ place = "shift" => value = gFrozenClockValue
  OBVIOUS
<1> HIDE DEF place, value
<1>4. /\ pc' \in [Threads -> Places] /\ argument' \in [Threads -> Arguments]
      /\ mValue' \in [Threads -> Vs64]
      /\ pc'[t] = place /\ argument'[t] = <<d>> /\ mValue'[t] = value
      /\ \A u \in Threads \ {t} :
            pc'[u] = pc[u] /\ argument'[u] = argument[u] /\ mValue'[u] = mValue[u]
  BY <1>1, <1>2, GoesOnIs
<1>5. /\ gSimulatedClockOffset' = gSimulatedClockOffset /\ promisedOffset' = promisedOffset
      /\ offsetStray' = offsetStray /\ gFrozenClockValue' = gFrozenClockValue
      /\ frozenStray' = frozenStray /\ promisedFrozen' = promisedFrozen
  BY <1>1 DEF offsetVars, frozenVars
<1>6. ClockTypes'
  BY <1>1, <1>4, <1>5 DEF ClockTypes
<1>7. ThreadInv(t)'
  <2>1. Adds(t)'
    BY <1>1, <1>4 DEF Adds
  <2>2. Undisturbed(t)'
    BY <1>2, <1>3, <1>4, <1>5 DEF Undisturbed
  <2> QED
    BY <1>2, <1>4, <2>1, <2>2 DEF ThreadInv
<1>8. \A u \in Threads \ {t} : Stays(u)
  BY <1>1, <1>4 DEF Stays
<1>9. \A u \in Threads : ThreadInv(u)'
  BY <1>1, <1>5, <1>7, <1>8, AllThreads
<1> QED
  BY <1>5, <1>6, <1>9 DEF FrozenAsPromised, OffsetAsPromised

\* Each step leaves the clock as the calls promise.
LEMMA ClockInvStep ==
    ASSUME ClockInv, ClockNext
    PROVE  ClockInv'
<1>1. CASE Ticks
  <2>1. systemTime' \in 0..MaxSystemTime
    BY <1>1, RangeAssumption DEF Ticks, ClockInv, ClockTypes
  <2>2. UNCHANGED <<offsetVars, frozenVars, threadVars, disturbed>>
    BY <1>1 DEF Ticks
  <2>3. \A t \in Threads : ThreadInv(t) => ThreadInv(t)'
    BY <2>2 DEF offsetVars, frozenVars, threadVars, ThreadInv, Undisturbed, Adds
  <2> QED
    BY <2>1, <2>2, <2>3
    DEF offsetVars, frozenVars, threadVars, ClockInv, ClockTypes, FrozenAsPromised, OffsetAsPromised
<1>2. ASSUME NEW t \in Threads,
             \/ LooksWhetherFrozen(t) \/ ReadsSystemTime(t) \/ EndsReading(t)
             \/ IncrementsOffset(t) \/ SetsValue(t) \/ Unfreezes(t) \/ ShiftsFrozenTime(t)
             \/ \E d \in Offsets : SetsOffset(t, d) \/ ReadsOffset(t, d) \/ ReadsFrozenValue(t, d)
             \/ \E i \in Settings : BeginsToSet(t, i) \/ Freezes(t, i)
      PROVE  ClockInv'
  BY <1>2, ReadingStep, OffsetStep, FrozenStep, AdditionStep
<1> QED
  BY <1>1, <1>2 DEF ClockNext, Settings

\* The present, and what a thread is about to show of it, is as promised.
LEMMA ClockInvPromises ==
    ASSUME ClockInv
    PROVE  PresentAsPromised /\ ReadingsAsPromised
<1>1. systemTime \in 0..MaxSystemTime /\ gSimulatedClockOffset \in Offsets
  BY DEF ClockInv, ClockTypes
<1>2. Wrapped(systemTime + gSimulatedClockOffset) = systemTime + gSimulatedClockOffset
  BY <1>1, ClockRange, WrappedFits
<1>3. isTimeFrozen => Now = gFrozenClockValue
  BY DEF Now, isTimeFrozen
<1>4. ~ isTimeFrozen => Now = systemTime + gSimulatedClockOffset
  BY <1>2 DEF Now, isTimeFrozen
<1>5. ~ frozenStray => /\ isTimeFrozen <=> promisedFrozen # <<>>
                       /\ isTimeFrozen => promisedFrozen = <<Now>>
  BY <1>3 DEF ClockInv, FrozenAsPromised, isTimeFrozen
<1>6. ASSUME NEW t \in Threads, pc[t] = "offset", ~ offsetStray
      PROVE  Reading(t) = measuredAt[t] + promisedOffset
  <2>1. mValue[t] = measuredAt[t] /\ measuredAt[t] \in 0..MaxSystemTime
        /\ gSimulatedClockOffset = promisedOffset
    BY <1>6 DEF ClockInv, ThreadInv, ClockTypes, OffsetAsPromised
  <2>2. Wrapped(measuredAt[t] + gSimulatedClockOffset) = measuredAt[t] + gSimulatedClockOffset
    BY <1>1, <2>1, ClockRange, WrappedFits
  <2>3. Reading(t) = Wrapped(mValue[t] + gSimulatedClockOffset)
    BY <1>6 DEF Reading
  <2> QED
    BY <2>1, <2>2, <2>3
<1>7. ASSUME NEW t \in Threads, pc[t] = "frozen", ~ frozenStray
      PROVE  IF promisedFrozen = <<>> THEN Reading(t) = 0 ELSE promisedFrozen = <<Reading(t)>>
  <2>1. Reading(t) = gFrozenClockValue
    BY <1>7 DEF Reading
  <2> QED
    BY <1>7, <2>1 DEF ClockInv, FrozenAsPromised
<1>8. ReadingsAsPromised
  BY <1>6, <1>7 DEF ReadingsAsPromised
<1> QED
  BY <1>4, <1>5, <1>8 DEF ClockInv, OffsetAsPromised, PresentAsPromised

\* The settings are in the range of a Vs64.
LEMMA ClockInvTypes ==
    ASSUME ClockInv, ArithmeticTypes
    PROVE  InstantTypeOK
<1>1. gSimulatedClockOffset \in Vs64
  BY ClockRange DEF ClockInv, ClockTypes
<1>2. argument \in [Threads -> {<<>>} \cup {<<i>> : i \in Vs64}]
  <2>1. Arguments \subseteq {<<>>} \cup {<<i>> : i \in Vs64}
    BY ClockRange DEF Arguments
  <2> QED
    BY <2>1 DEF ClockInv, ClockTypes
<1>3. promisedFrozen \in {<<>>} \cup {<<i>> : i \in Vs64}
  BY DEF ClockInv, ClockTypes, FrozenAsPromised
<1> QED
  BY <1>1, <1>2, <1>3 DEF ClockInv, ClockTypes, ArithmeticTypes, InstantTypeOK, Places

-----------------------------------------------------------------------------
(* Years *)

\* Leap years before a year, counted from the year 1.
LeapsBefore(year) == (year - 1) \div 4 - (year - 1) \div 100 + (year - 1) \div 400

\* One more leap year is counted after a leap year, and only then.
LEMMA NextLeap ==
    ASSUME NEW year \in Int
    PROVE  LeapsBefore(year + 1) = LeapsBefore(year) + (IF isLeapYear(year) THEN 1 ELSE 0)
<1>1. (year + 1) - 1 = year
  OBVIOUS
<1>2. year \div 4 = (year - 1) \div 4 + (IF year % 4 = 0 THEN 1 ELSE 0)
  OBVIOUS
<1>3. year \div 100 = (year - 1) \div 100 + (IF year % 100 = 0 THEN 1 ELSE 0)
  OBVIOUS
<1>4. year \div 400 = (year - 1) \div 400 + (IF year % 400 = 0 THEN 1 ELSE 0)
  OBVIOUS
<1>5. (year % 400 = 0 => year % 100 = 0) /\ (year % 100 = 0 => year % 4 = 0)
  OBVIOUS
<1> QED
  BY <1>1, <1>2, <1>3, <1>4, <1>5 DEF LeapsBefore, isLeapYear

LeapsFromEpoch(year) == {y \in EPOCH_YEAR..(year - 1) : isLeapYear(y)}

\* Counted in the loop of the code they are as many: a year for which this is not so
\* would have a first one before it.
LEMMA LeapsCounted ==
    ASSUME NEW year \in Int, year >= EPOCH_YEAR
    PROVE  IsFiniteSet(LeapsFromEpoch(year)) /\ Cardinality(LeapsFromEpoch(year)) = LeapsBefore(year) - 477
<1> DEFINE Right(y) == /\ IsFiniteSet(LeapsFromEpoch(y))
                       /\ Cardinality(LeapsFromEpoch(y)) = LeapsBefore(y) - 477
           Wrong == {n \in Nat : ~ Right(EPOCH_YEAR + n)}
<1>1. Right(EPOCH_YEAR)
  <2>1. LeapsFromEpoch(EPOCH_YEAR) = {}
    BY DEF LeapsFromEpoch, EPOCH_YEAR
  <2>2. LeapsBefore(EPOCH_YEAR) = 477
    BY DEF LeapsBefore, EPOCH_YEAR
  <2> QED
    BY <2>1, <2>2, FS_EmptySet
<1>2. ASSUME NEW y \in Int, y >= EPOCH_YEAR, Right(y)
      PROVE  Right(y + 1)
  <2>1. CASE isLeapYear(y)
    <3>1. LeapsFromEpoch(y + 1) = LeapsFromEpoch(y) \cup {y}
      BY <1>2, <2>1 DEF LeapsFromEpoch, EPOCH_YEAR
    <3>2. y \notin LeapsFromEpoch(y)
      BY DEF LeapsFromEpoch, EPOCH_YEAR
    <3>3. IsFiniteSet(LeapsFromEpoch(y + 1)) /\ Cardinality(LeapsFromEpoch(y + 1)) = Cardinality(LeapsFromEpoch(y)) + 1
      BY <1>2, <3>1, <3>2, FS_AddElement
    <3>4. LeapsBefore(y + 1) = LeapsBefore(y) + 1 /\ LeapsBefore(y) \in Int
      BY <2>1, NextLeap DEF LeapsBefore
    <3> QED
      BY <1>2, <3>3, <3>4
  <2>2. CASE ~ isLeapYear(y)
    <3>1. LeapsFromEpoch(y + 1) = LeapsFromEpoch(y)
      BY <1>2, <2>2 DEF LeapsFromEpoch, EPOCH_YEAR
    <3>2. LeapsBefore(y + 1) = LeapsBefore(y)
      BY <2>2, NextLeap DEF LeapsBefore
    <3> QED
      BY <1>2, <3>1, <3>2
  <2> QED
    BY <2>1, <2>2
<1> HIDE DEF Right
<1>3. Wrong = {}
  <2> SUFFICES ASSUME Wrong # {} PROVE FALSE
    OBVIOUS
  <2>1. PICK n \in Wrong : \A m \in Wrong : n <= m
    BY SomeIsLeast
  <2>2. n \in Nat /\ ~ Right(EPOCH_YEAR + n)
    OBVIOUS
  <2>3. n # 0
    <3>1. EPOCH_YEAR + 0 = EPOCH_YEAR
      BY DEF EPOCH_YEAR
    <3> QED
      BY <1>1, <2>2, <3>1
  <2>4. n - 1 \in Nat /\ ~ (n <= n - 1)
    BY <2>2, <2>3
  <2>5. Right(EPOCH_YEAR + (n - 1))
    BY <2>1, <2>4
  <2>6. EPOCH_YEAR + (n - 1) \in Int /\ EPOCH_YEAR + (n - 1) >= EPOCH_YEAR
        /\ (EPOCH_YEAR + (n - 1)) + 1 = EPOCH_YEAR + n
    BY <2>4 DEF EPOCH_YEAR
  <2> QED
    BY <1>2, <2>2, <2>5, <2>6
<1>4. year - EPOCH_YEAR \in Nat /\ EPOCH_YEAR + (year - EPOCH_YEAR) = year
  BY DEF EPOCH_YEAR
<1>5. Right(year)
  BY <1>3, <1>4
<1> QED
  BY <1>5 DEF Right

\* The days of the years since the epoch, from the leap years before.
LEMMA YearDaysCounted ==
    ASSUME NEW year \in Int, year >= EPOCH_YEAR
    PROVE  YearDays(year) = 365 * (year - 1970) + LeapsBefore(year) - 477
<1>1. Cardinality(EPOCH_YEAR..(year - 1)) = year - 1970
  BY FS_Interval DEF EPOCH_YEAR
<1>2. Cardinality({y \in EPOCH_YEAR..(year - 1) : isLeapYear(y)}) = LeapsBefore(year) - 477
  BY LeapsCounted DEF LeapsFromEpoch
<1>3. LeapsBefore(year) \in Int
  BY DEF LeapsBefore
<1> QED
  BY <1>1, <1>2, <1>3 DEF YearDays, DaysOfYears

-----------------------------------------------------------------------------
(* Months *)

LongMonths == {1, 3, 5, 7, 8, 10, 12}
LongBefore(month) == {m \in 1..(month - 1) : m \in LongMonths}

\* Which months have 31 days.
LEMMA LongMonth ==
    ASSUME NEW year \in Int, NEW m \in 1..12
    PROVE  DaysOfMonth(year, m) = 31 <=> m \in LongMonths
  BY DEF DaysOfMonth, LongMonths

\* One more long month is counted after a long one.
LEMMA LongMonthsStep ==
    ASSUME NEW month \in 1..11, NEW n \in Nat, IsFiniteSet(LongBefore(month)), Cardinality(LongBefore(month)) = n
    PROVE  /\ IsFiniteSet(LongBefore(month + 1))
           /\ Cardinality(LongBefore(month + 1)) = n + (IF month \in LongMonths THEN 1 ELSE 0)
<1>1. CASE month \in LongMonths
  <2>1. LongBefore(month + 1) = LongBefore(month) \cup {month} /\ month \notin LongBefore(month)
    BY <1>1 DEF LongBefore
  <2> QED
    BY <1>1, <2>1, FS_AddElement
<1>2. CASE month \notin LongMonths
  <2>1. LongBefore(month + 1) = LongBefore(month)
    BY <1>2 DEF LongBefore
  <2> QED
    BY <1>2, <2>1
<1> QED
  BY <1>1, <1>2

LongMonthsBefore(month) == IF month <= 8 THEN month \div 2 ELSE (month + 1) \div 2

\* The long months before a month.
LEMMA LongMonthsCounted ==
    ASSUME NEW month \in 1..12
    PROVE  Cardinality(LongBefore(month)) = LongMonthsBefore(month)
<1> DEFINE Right(m, n) == IsFiniteSet(LongBefore(m)) /\ Cardinality(LongBefore(m)) = n
<1>1. Right(1, 0)
  <2>1. LongBefore(1) = {}
    BY DEF LongBefore
  <2> QED
    BY <2>1, FS_EmptySet
<1>2. ASSUME NEW m \in 1..11, NEW n \in Nat, Right(m, n)
      PROVE  Right(m + 1, IF m \in LongMonths THEN n + 1 ELSE n)
  BY <1>2, LongMonthsStep
<1> HIDE DEF Right
<1>3. Right(2, 1)
  BY <1>1, <1>2 DEF LongMonths
<1>4. Right(3, 1)
  BY <1>2, <1>3 DEF LongMonths
<1>5. Right(4, 2)
  BY <1>2, <1>4 DEF LongMonths
<1>6. Right(5, 2)
  BY <1>2, <1>5 DEF LongMonths
<1>7. Right(6, 3)
  BY <1>2, <1>6 DEF LongMonths
<1>8. Right(7, 3)
  BY <1>2, <1>7 DEF LongMonths
<1>9. Right(8, 4)
  BY <1>2, <1>8 DEF LongMonths
<1>10. Right(9, 5)
  BY <1>2, <1>9 DEF LongMonths
<1>11. Right(10, 5)
  BY <1>2, <1>10 DEF LongMonths
<1>12. Right(11, 6)
  BY <1>2, <1>11 DEF LongMonths
<1>13. Right(12, 6)
  BY <1>2, <1>12 DEF LongMonths
<1>14. Right(month, LongMonthsBefore(month))
  BY <1>1, <1>3, <1>4, <1>5, <1>6, <1>7, <1>8, <1>9, <1>10, <1>11, <1>12, <1>13 DEF LongMonthsBefore
<1> QED
  BY <1>14 DEF Right

\* The days of the months before a month.
LEMMA MonthDaysCounted ==
    ASSUME NEW when, when.mYear \in Int, when.mMonth \in 1..12
    PROVE  MonthDays(when) = 30 * (when.mMonth - 1) + LongMonthsBefore(when.mMonth)
                             - (IF when.mMonth <= 2 THEN 0 ELSE IF isLeapYear(when.mYear) THEN 1 ELSE 2)
<1> DEFINE before == 1..(when.mMonth - 1)
           long == {m \in before : DaysOfMonth(when.mYear, m) = 31}
<1>1. long = LongBefore(when.mMonth)
  BY LongMonth DEF LongBefore
<1>2. Cardinality(before) = when.mMonth - 1
  <2>1. 1 \in Int /\ when.mMonth - 1 \in Int
    OBVIOUS
  <2>2. Cardinality(before) = IF 1 > when.mMonth - 1 THEN 0 ELSE (when.mMonth - 1) - 1 + 1
    BY <2>1, FS_Interval, Zenon
  <2> HIDE DEF before
  <2> QED
    BY <2>2
<1>3. Cardinality(long) = LongMonthsBefore(when.mMonth)
  BY <1>1, LongMonthsCounted
<1>4. 2 \in before <=> ~ (when.mMonth <= 2)
  OBVIOUS
<1>5. DaysOfMonth(when.mYear, 2) = IF isLeapYear(when.mYear) THEN 29 ELSE 28
  BY DEF DaysOfMonth
<1>6. MonthDays(when) = 30 * Cardinality(before) + Cardinality(long)
                        - (IF 2 \in before THEN 30 - DaysOfMonth(when.mYear, 2) ELSE 0)
  BY DEF MonthDays
<1>7. LongMonthsBefore(when.mMonth) \in Int
  BY DEF LongMonthsBefore
<1> HIDE DEF before, long
<1> QED
  BY <1>2, <1>3, <1>4, <1>5, <1>6, <1>7

\* Days in eras of 400 years, and days in years with their leap days.
LEMMA EraDays ==
    ASSUME NEW year \in Int
    PROVE  146097 * (year \div 400) + 365 * (year % 400) + (year % 400) \div 4 - (year % 400) \div 100
           = 365 * year + LeapsBefore(year + 1)
<1> DEFINE q == year \div 400  r == year % 400
<1>1. q \in Int /\ r \in 0..399 /\ year = 400 * q + r
  BY SMT
<1>2. (year + 1) - 1 = year
  BY SMT
<1>3. LeapsBefore(year + 1) = year \div 4 - year \div 100 + year \div 400
  BY <1>2, SMT DEF LeapsBefore
<1> HIDE DEF q, r
<1>4. year \div 4 = 100 * q + r \div 4
  BY <1>1, SMT
<1>5. year \div 100 = 4 * q + r \div 100
  BY <1>1, SMT
<1>6. year \div 400 = q /\ year % 400 = r
  BY SMT DEF q, r
<1>7. r \div 4 \in Int /\ r \div 100 \in Int
  BY <1>1, SMT
<1> QED
  BY <1>1, <1>3, <1>4, <1>5, <1>6, <1>7, SMT

\* Days of the months before one, counted from March in the reference definition.
LEMMA DaysFromMarch ==
    ASSUME NEW m \in 1..12
    PROVE  (153 * ((m + 9) % 12) + 2) \div 5
           = 30 * (m - 1) + LongMonthsBefore(m) + (IF m <= 2 THEN 306 ELSE -61)
<1>1. CASE m <= 2
  <2>1. (m + 9) % 12 = m + 9
    BY <1>1, SMT
  <2> QED
    BY <1>1, <2>1, SMT DEF LongMonthsBefore
<1>2. CASE m > 2
  <2>1. (m + 9) % 12 = m - 3
    BY <1>2, SMT
  <2>2. m \in {3, 4, 5, 6, 7, 8, 9, 10, 11, 12}
    BY <1>2, SMT
  <2> QED
    BY <1>2, <2>1, <2>2, SMT DEF LongMonthsBefore
<1> QED
  BY <1>1, <1>2, SMT

\* The days counted year by year are those counted in eras that begin in March.
LEMMA DaysAgree ==
    ASSUME NEW when, when.mYear \in Int, when.mYear >= EPOCH_YEAR, when.mMonth \in 1..12, when.mDay \in 1..31
    PROVE  YearDays(when.mYear) + MonthDays(when) + when.mDay - 1 = DaysSinceEpoch(when)
<1>1. PICK y \in Int : y = when.mYear
  OBVIOUS
<1>2. PICK m \in 1..12 : m = when.mMonth
  OBVIOUS
<1>3. PICK d \in 1..31 : d = when.mDay
  OBVIOUS
<1>4. PICK year \in Int : year = IF m <= 2 THEN y - 1 ELSE y
  OBVIOUS
<1>5. PICK before \in Int : before = LeapsBefore(y)
  BY DEF LeapsBefore
<1>6. PICK months \in Int : months = 30 * (m - 1) + LongMonthsBefore(m)
  BY DEF LongMonthsBefore
<1>7. YearDays(y) = 365 * (y - 1970) + before - 477
  BY <1>1, <1>5, YearDaysCounted, SMT
<1>8. MonthDays(when) = months - (IF m <= 2 THEN 0 ELSE IF isLeapYear(y) THEN 1 ELSE 2)
  <2>1. LongMonthsBefore(m) \in Int
    BY DEF LongMonthsBefore
  <2>2. MonthDays(when) = 30 * (m - 1) + LongMonthsBefore(m)
                          - (IF m <= 2 THEN 0 ELSE IF isLeapYear(y) THEN 1 ELSE 2)
    BY <1>1, <1>2, MonthDaysCounted
  <2> QED
    BY <1>6, <2>1, <2>2, SMT
<1>9. PICK eras \in Int, years \in Int, leaps \in Int, lost \in Int :
         /\ eras = year \div 400 /\ years = year % 400
         /\ leaps = (year % 400) \div 4 /\ lost = (year % 400) \div 100
  BY SMT
<1>10. PICK days \in Int : days = (153 * ((m + 9) % 12) + 2) \div 5
  BY SMT
<1>11. DaysSinceEpoch(when) = 146097 * eras + (365 * years + leaps - lost + days + d - 1) - 719468
  BY <1>1, <1>2, <1>3, <1>4, <1>9, <1>10, SMT DEF DaysSinceEpoch
<1>12. 146097 * eras + 365 * years + leaps - lost = 365 * year + LeapsBefore(year + 1)
  BY <1>9, EraDays, SMT
<1>13. days = months + (IF m <= 2 THEN 306 ELSE -61)
  BY <1>6, <1>10, DaysFromMarch, SMT
<1>14. LeapsBefore(year + 1) = before + (IF m > 2 /\ isLeapYear(y) THEN 1 ELSE 0)
  <2>1. CASE m <= 2
    <3>1. year + 1 = y
      BY <1>4, <2>1
    <3> QED
      BY <1>5, <2>1, <3>1
  <2>2. CASE m > 2
    <3>1. year = y
      BY <1>4, <2>2
    <3> QED
      BY <1>5, <2>2, <3>1, NextLeap
  <2> QED
    BY <2>1, <2>2
<1>15. DaysSinceEpoch(when) = 365 * year + LeapsBefore(year + 1) + days + d - 1 - 719468
  BY <1>11, <1>12, SMT
<1>16. CASE m <= 2
  BY <1>1, <1>3, <1>4, <1>7, <1>8, <1>13, <1>14, <1>15, <1>16, SMT
<1>17. CASE m > 2
  <2>1. year = y /\ days = months - 61
    BY <1>4, <1>13, <1>17, SMT
  <2>2. CASE isLeapYear(y)
    <3>1. MonthDays(when) = months - 1 /\ LeapsBefore(year + 1) = before + 1
      BY <1>8, <1>14, <1>17, <2>2, SMT
    <3> QED
      BY <1>1, <1>3, <1>7, <1>15, <2>1, <3>1, SMT
  <2>3. CASE ~ isLeapYear(y)
    <3>1. MonthDays(when) = months - 2 /\ LeapsBefore(year + 1) = before
      BY <1>8, <1>14, <1>17, <2>3, SMT
    <3> QED
      BY <1>1, <1>3, <1>7, <1>15, <2>1, <3>1, SMT
  <2> QED
    BY <2>2, <2>3
<1> QED
  BY <1>16, <1>17, SMT

\* The fields of a date.
LEMMA DateTypes ==
    ASSUME NEW when \in Dates
    PROVE  /\ when.mYear \in Int /\ when.mMonth \in 1..12 /\ when.mDay \in 1..31 /\ when.mHour \in 0..23
           /\ when.mDay <= DaysOfMonth(when.mYear, when.mMonth)
           /\ when \in [mYear : Years, mMonth : 1..12, mDay : Days, mHour : Hours]
  BY CalendarConstants DEF Dates

\* The same in hours.
LEMMA OffsetsAgree ==
    ASSUME NEW when \in Dates, when.mYear >= EPOCH_YEAR
    PROVE  OffsetInHours(when) = 24 * DaysSinceEpoch(when) + when.mHour
  BY DateTypes, DaysAgree DEF OffsetInHours

-----------------------------------------------------------------------------
(* Time zones *)

\* The length of a month.
LEMMA DaysOfAMonth ==
    ASSUME NEW year \in Int, NEW month \in 1..12
    PROVE  DaysOfMonth(year, month) \in 28..31
  BY DEF DaysOfMonth

\* The zone is told from the two days and hours, at every turn of a day.
LEMMA ZonesAgree ==
    ASSUME NEW when \in Dates, NEW zone \in (-23)..23
    PROVE  LocalOffset(LocalFields(when, zone), when) = zone
<1> DEFINE hour == when.mHour + zone
           day == IF hour > 23 THEN NextDay(when) ELSE IF hour < 0 THEN PreviousDay(when) ELSE when
           local == LocalFields(when, zone)
<1>1. /\ when.mYear \in Int /\ when.mMonth \in 1..12 /\ when.mDay \in 1..31 /\ when.mHour \in 0..23
      /\ when.mDay <= DaysOfMonth(when.mYear, when.mMonth)
      /\ when \in [mYear : Years, mMonth : 1..12, mDay : Days, mHour : Hours]
  BY DateTypes
<1>2. hour \in (-23)..46
  BY <1>1
<1>3. DaysOfMonth(when.mYear, when.mMonth) \in 28..31
  BY <1>1, DaysOfAMonth
<1>4. local.mDay = day.mDay /\ local.mHour = hour % 24
  BY <1>1 DEF LocalFields, NextDay, PreviousDay
<1>5. CASE hour > 23
  <2>1. hour % 24 = hour - 24
    BY <1>2, <1>5
  <2>2. day.mDay = IF when.mDay < DaysOfMonth(when.mYear, when.mMonth) THEN when.mDay + 1 ELSE 1
    BY <1>1, <1>5 DEF NextDay
  <2>3. local.mDay # when.mDay /\ LocalIsNextDay(local, when)
    BY <1>1, <1>3, <1>4, <2>2 DEF LocalIsNextDay
  <2>4. LocalOffset(local, when) = local.mHour + 24 - when.mHour
    BY <2>3 DEF LocalOffset
  <2> QED
    BY <1>1, <1>2, <1>4, <2>1, <2>4
<1>6. CASE hour < 0
  <2>1. hour % 24 = hour + 24
    BY <1>2, <1>6
  <2>2. day.mDay = when.mDay - 1 \/ (when.mDay = 1 /\ day.mDay \in 28..31)
    <3>1. CASE when.mDay > 1
      BY <1>1, <1>6, <3>1 DEF PreviousDay
    <3>2. CASE when.mDay = 1 /\ when.mMonth > 1
      <4>1. DaysOfMonth(when.mYear, when.mMonth - 1) \in 28..31
        BY <1>1, <3>2, DaysOfAMonth
      <4> QED
        BY <1>1, <1>6, <3>2, <4>1 DEF PreviousDay
    <3>3. CASE when.mDay = 1 /\ when.mMonth = 1
      BY <1>1, <1>6, <3>3 DEF PreviousDay
    <3> QED
      BY <1>1, <3>1, <3>2, <3>3
  <2>3. local.mDay # when.mDay /\ ~ LocalIsNextDay(local, when)
    BY <1>1, <1>3, <1>4, <2>2 DEF LocalIsNextDay
  <2>4. LocalOffset(local, when) = local.mHour - (when.mHour + 24)
    BY <2>3 DEF LocalOffset
  <2> QED
    BY <1>1, <1>2, <1>4, <2>1, <2>4
<1>7. CASE hour \in 0..23
  <2>1. hour % 24 = hour
    BY <1>2, <1>7
  <2>2. local.mDay = when.mDay
    BY <1>2, <1>4, <1>7
  <2>4. LocalOffset(local, when) = local.mHour - when.mHour
    BY <2>2 DEF LocalOffset
  <2> QED
    BY <1>1, <1>2, <1>4, <2>1, <2>4
<1> QED
  BY <1>2, <1>5, <1>6, <1>7

-----------------------------------------------------------------------------
(* Instants as texts *)

\* An instant is read as it was written, with the exceptions before the epoch.
LEMMA TextsAgree ==
    ASSUME NEW o \in Int
    PROVE  \/ ReadOffset(Seconds(o), MillisecondsRead(Milliseconds(o))) = [offset |-> o]
           \/ o < 0 /\ (o % 1000 # 0 \/ o = -1000)
<1>1. CASE o >= 0
  <2>1. Seconds(o) \in Nat /\ Seconds(o) = o \div 1000
    BY <1>1 DEF Seconds
  <2>2. Milliseconds(o) \in 0..999 /\ Milliseconds(o) = o - 1000 * Seconds(o)
    BY <1>1, <2>1 DEF Milliseconds
  <2>3. MillisecondsRead(Milliseconds(o)) = Milliseconds(o)
    BY <2>2 DEF MillisecondsRead
  <2>4. 1000 * Seconds(o) + Milliseconds(o) = o /\ Seconds(o) # -1
    BY <2>1, <2>2
  <2> QED
    BY <2>3, <2>4 DEF ReadOffset
<1>2. CASE o < 0 /\ o % 1000 = 0 /\ o # -1000
  <2>1. 1000 * Seconds(o) = o /\ Seconds(o) \in Int
    BY <1>2 DEF Seconds
  <2>2. Milliseconds(o) = 0
    BY <2>1 DEF Milliseconds
  <2>3. MillisecondsRead(Milliseconds(o)) = 0
    BY <2>2 DEF MillisecondsRead
  <2>4. 1000 * Seconds(o) + 0 = o /\ Seconds(o) # -1
    BY <1>2, <2>1
  <2> QED
    BY <2>3, <2>4 DEF ReadOffset
<1> QED
  BY <1>1, <1>2

-----------------------------------------------------------------------------
(* The conversions *)

Given == given \in Dates \/ \E o \in Instants : given = [offset |-> o]

Converted ==
    \/ converted = [what |-> "nothing"]
    \/ /\ given \in Dates
       /\ converted = [what |-> "offset", result |-> OffsetInHours(given)]
    \/ /\ given \in Dates
       /\ \E zone \in Zones : converted = [what |-> "zone", zone |-> zone,
                                           result |-> LocalOffset(LocalFields(given, zone), given)]
    \/ \E o \in Instants :
          /\ given = [offset |-> o]
          /\ converted = [what |-> "text", result |->
                             ReadOffset(Seconds(o), MillisecondsRead(Milliseconds(o)))]

CalendarInv == Given /\ Converted

\* Dates are told from offsets by their fields.
LEMMA GivenKind ==
    ASSUME Given
    PROVE  /\ IsDate <=> given \in Dates
           /\ IsDate \/ \E o \in Instants : given = [offset |-> o]
<1>1. given \in Dates => IsDate
  BY DEF Dates, IsDate
<1>2. ASSUME NEW o \in Instants, given = [offset |-> o]
      PROVE  ~ IsDate
  <2>1. DOMAIN given = {"offset"}
    BY <1>2
  <2> QED
    BY <2>1 DEF IsDate
<1> QED
  BY <1>1, <1>2 DEF Given

\* At first nothing has been converted, then it has been from what was given.
LEMMA CalendarInvInit == CalendarInit => CalendarInv
  BY DEF CalendarInit, CalendarInv, Given, Converted

LEMMA CalendarInvStep ==
    ASSUME CalendarInv, CalendarNext
    PROVE  CalendarInv'
<1>1. Given' /\ given' = given
  BY DEF CalendarInv, CalendarNext, Given, GetsOffset, WritesAndReads, GetsLocalOffset
<1>2. CASE GetsOffset
  <2>1. given \in Dates
    BY <1>2, GivenKind DEF GetsOffset, CalendarInv
  <2> QED
    BY <1>1, <1>2, <2>1 DEF GetsOffset, CalendarInv, Converted
<1>3. CASE WritesAndReads
  <2>1. PICK o \in Instants : given = [offset |-> o]
    BY <1>3, GivenKind DEF WritesAndReads, CalendarInv
  <2>2. given.offset = o
    BY <2>1
  <2>3. converted' = [what |-> "text", result |->
                         ReadOffset(Seconds(o), MillisecondsRead(Milliseconds(o)))]
    BY <1>3, <2>2 DEF WritesAndReads
  <2> QED
    BY <1>1, <2>1, <2>3 DEF CalendarInv, Converted
<1>4. ASSUME NEW zone \in Zones, GetsLocalOffset(zone)
      PROVE  CalendarInv'
  <2>1. given \in Dates
    BY <1>4, GivenKind DEF GetsLocalOffset, CalendarInv
  <2>2. converted' = [what |-> "zone", zone |-> zone,
                      result |-> LocalOffset(LocalFields(given, zone), given)]
    BY <1>4 DEF GetsLocalOffset
  <2> QED
    BY <1>1, <2>1, <2>2 DEF CalendarInv, Converted
<1> QED
  BY <1>2, <1>3, <1>4 DEF CalendarNext

\* Whatever was converted came out right.
LEMMA CalendarInvAgrees ==
    ASSUME CalendarInv
    PROVE  ConversionsAgree /\ CalendarTypeOK
<1>1. given \in Dates \/ (~ IsDate /\ given.offset \in Int)
  BY GivenKind, CalendarConstants DEF CalendarInv, Given
<1>2. CASE converted = [what |-> "nothing"]
  <2>1. converted.what = "nothing"
    BY <1>2
  <2> QED
    BY <1>1, <2>1 DEF ConversionsAgree, CalendarTypeOK
<1>3. CASE given \in Dates /\ converted = [what |-> "offset", result |-> OffsetInHours(given)]
  <2>1. converted.what = "offset" /\ converted.result = OffsetInHours(given)
    BY <1>3
  <2>2. given.mYear >= EPOCH_YEAR => OffsetInHours(given) = 24 * DaysSinceEpoch(given) + given.mHour
    BY <1>3, OffsetsAgree
  <2> QED
    BY <1>1, <2>1, <2>2 DEF ConversionsAgree, CalendarTypeOK
<1>4. ASSUME given \in Dates, NEW zone \in Zones,
             converted = [what |-> "zone", zone |-> zone,
                          result |-> LocalOffset(LocalFields(given, zone), given)]
      PROVE  ConversionsAgree /\ CalendarTypeOK
  <2>1. converted.what = "zone" /\ converted.zone = zone
        /\ converted.result = LocalOffset(LocalFields(given, zone), given)
    BY <1>4
  <2>2. LocalOffset(LocalFields(given, zone), given) = zone
    BY <1>4, ZonesAgree, CalendarConstants
  <2> QED
    BY <1>1, <2>1, <2>2 DEF ConversionsAgree, CalendarTypeOK
<1>5. ASSUME NEW o \in Instants, given = [offset |-> o],
             converted = [what |-> "text", result |->
                             ReadOffset(Seconds(o), MillisecondsRead(Milliseconds(o)))]
      PROVE  ConversionsAgree /\ CalendarTypeOK
  <2>1. converted.what = "text" /\ given.offset = o
        /\ converted.result = ReadOffset(Seconds(o), MillisecondsRead(Milliseconds(o)))
    BY <1>5
  <2>2. \/ ReadOffset(Seconds(o), MillisecondsRead(Milliseconds(o))) = [offset |-> o]
        \/ o < 0 /\ (o % 1000 # 0 \/ o = -1000)
    BY TextsAgree, CalendarConstants
  <2> QED
    BY <1>1, <2>1, <2>2 DEF ConversionsAgree, CalendarTypeOK
<1> QED
  BY <1>2, <1>3, <1>4, <1>5 DEF CalendarInv, Converted

-----------------------------------------------------------------------------
(* What a format means *)

Outputs == [field : Seq(FieldLetters)] \cup [text : Characters]

\* Fields of letters and characters of a text are what is appended.
LEMMA OutputKinds ==
    /\ \A c \in Characters : <<PlainText(c)>> \in Seq(Outputs) /\ PlainText(c) \in Outputs
    /\ \A letters \in Seq(FieldLetters) :
          <<FieldOf(letters)>> \in Seq(Outputs) /\ FieldOf(letters) \in Outputs
<1>1. \A c \in Characters : PlainText(c) \in Outputs
  BY DEF Outputs, PlainText
<1>2. \A letters \in Seq(FieldLetters) : FieldOf(letters) \in Outputs
  BY DEF Outputs, FieldOf
<1> QED
  BY <1>1, <1>2

\* There is a place where a run of one letter ends, and only one.
LEMMA RunEnds ==
    ASSUME NEW format \in Seq(Characters), NEW i \in 1..Len(format)
    PROVE  /\ RunFrom(format, i) \in i..Len(format)
           /\ \A k \in i..RunFrom(format, i) : format[k] = format[i]
           /\ RunFrom(format, i) = Len(format) \/ format[RunFrom(format, i) + 1] # format[i]
<1> DEFINE n == Len(format)
           Turns == {m \in i..n : m = n \/ format[m + 1] # format[m]}
<1>1. n \in Nat /\ i \in 1..n
  BY LenProperties
<1> HIDE DEF n
<1>2. Turns \subseteq Nat /\ n \in Turns
  BY <1>1
<1>3. PICK m \in Turns : \A k \in Turns : m <= k
  BY <1>2, SomeIsLeast
<1>4. m \in i..n /\ (m = n \/ format[m + 1] # format[m])
  BY <1>3
<1>5. \A k \in i..m : k # m => format[k + 1] = format[k]
  <2>1. SUFFICES ASSUME NEW k \in i..m, k # m, format[k + 1] # format[k] PROVE FALSE
    OBVIOUS
  <2>2. k \in i..n /\ ~ (m <= k)
    BY <1>1, <1>4, <2>1
  <2>3. k \in Turns
    BY <2>1, <2>2
  <2> QED
    BY <1>3, <2>2, <2>3
<1>6. \A k \in i..m : format[k] = format[i]
  <2> DEFINE Other == {k \in i..m : format[k] # format[i]}
  <2>1. SUFFICES ASSUME Other # {} PROVE FALSE
    OBVIOUS
  <2>2. Other \subseteq Nat
    BY <1>1
  <2>3. PICK k \in Other : \A l \in Other : k <= l
    BY <2>1, <2>2, SomeIsLeast
  <2>4. k \in i..m /\ format[k] # format[i]
    BY <2>3
  <2>5. k - 1 \in i..m /\ k - 1 # m /\ (k - 1) + 1 = k /\ ~ (k <= k - 1)
    BY <1>1, <1>4, <2>4
  <2>6. format[k - 1] = format[i]
    BY <2>3, <2>5
  <2>7. format[k] = format[k - 1]
    BY <1>5, <2>5
  <2> QED
    BY <2>4, <2>6, <2>7
<1>7. m = n \/ format[m + 1] # format[i]
  BY <1>1, <1>4, <1>6
<1> QED
  BY <1>4, <1>6, <1>7 DEF RunFrom, n

\* A place where a run ends is that one.
LEMMA RunEndIs ==
    ASSUME NEW format \in Seq(Characters), NEW i \in 1..Len(format), NEW m \in i..Len(format),
           \A k \in i..m : format[k] = format[i],
           m = Len(format) \/ format[m + 1] # format[i]
    PROVE  RunFrom(format, i) = m
<1> DEFINE r == RunFrom(format, i)
<1>1. /\ r \in i..Len(format)
      /\ \A k \in i..r : format[k] = format[i]
      /\ r = Len(format) \/ format[r + 1] # format[i]
  BY RunEnds
<1>2. Len(format) \in Nat
  BY LenProperties
<1> HIDE DEF r
<1>3. ~ (r < m)
  <2>1. r < m => r + 1 \in i..m /\ r # Len(format)
    BY <1>1, <1>2
  <2> QED
    BY <1>1, <2>1
<1>4. ~ (m < r)
  <2>1. m < r => m + 1 \in i..r /\ m # Len(format)
    BY <1>1, <1>2
  <2> QED
    BY <1>1, <2>1
<1>5. r = m
  BY <1>1, <1>2, <1>3, <1>4
<1> QED
  BY <1>5 DEF r

\* What a place means is told by the places after it.
LEMMA LaterPlaces ==
    ASSUME NEW format \in Seq(Characters), NEW f, NEW g, NEW i \in 1..(Len(format) + 1),
           NEW inText \in BOOLEAN, \A k \in (i + 1)..(Len(format) + 1) : f[k] = g[k]
    PROVE  SpecifiedAt(format, f, i, inText) = SpecifiedAt(format, g, i, inText)
<1>1. Len(format) \in Nat
  BY LenProperties
<1>2. CASE i > Len(format)
  BY <1>2 DEF SpecifiedAt
<1>3. CASE ~ (i > Len(format))
  <2>1. i \in 1..Len(format) /\ i + 1 \in (i + 1)..(Len(format) + 1)
    BY <1>1, <1>3
  <2>2. RunFrom(format, i) + 1 \in (i + 1)..(Len(format) + 1)
    BY <1>1, <2>1, RunEnds
  <2>3. i < Len(format) => i + 2 \in (i + 1)..(Len(format) + 1)
    BY <1>1, <2>1
  <2>4. /\ f[i + 1] = g[i + 1] /\ f[RunFrom(format, i) + 1] = g[RunFrom(format, i) + 1]
        /\ i < Len(format) => f[i + 2] = g[i + 2]
    BY <2>1, <2>2, <2>3
  <2> QED
    BY <2>4 DEF SpecifiedAt
<1> QED
  BY <1>2, <1>3

Meanings == [BOOLEAN -> Seq(Outputs)]

\* From a place on, f is what SpecifiedFrom's function is.
MeantFrom(format, m, f) ==
    /\ f \in [m..(Len(format) + 1) -> Meanings]
    /\ \A i \in m..(Len(format) + 1) : \A inText \in BOOLEAN :
          f[i][inText] = SpecifiedAt(format, f, i, inText)

\* What a place means is a sequence of outputs when that of later places is.
LEMMA MeaningTyped ==
    ASSUME NEW format \in Seq(Characters), NEW i \in 1..(Len(format) + 1), NEW f,
           \A k \in (i + 1)..(Len(format) + 1) : f[k] \in Meanings,
           NEW inText \in BOOLEAN
    PROVE  SpecifiedAt(format, f, i, inText) \in Seq(Outputs)
<1>1. Len(format) \in Nat
  BY LenProperties
<1>2. CASE i > Len(format)
  BY <1>2 DEF SpecifiedAt
<1>3. CASE ~ (i > Len(format))
  <2>1. i \in 1..Len(format) /\ i + 1 \in (i + 1)..(Len(format) + 1)
    BY <1>1, <1>3
  <2> DEFINE r == RunFrom(format, i)
  <2>2. r \in i..Len(format) /\ r + 1 \in (i + 1)..(Len(format) + 1)
        /\ \A k \in i..r : format[k] = format[i]
    BY <1>1, <2>1, RunEnds
  <2>3. i < Len(format) => i + 2 \in (i + 1)..(Len(format) + 1)
    BY <1>1, <2>1
  <2>4. format[i] \in Characters /\ SingleQuote \in Characters
    <3>1. SingleQuote \in Characters
      BY DEF Characters
    <3> QED
      BY <2>1, <3>1, ElementOfSeq
  <2>5. \A b \in BOOLEAN : f[i + 1][b] \in Seq(Outputs) /\ f[r + 1][b] \in Seq(Outputs)
                           /\ (i < Len(format) => f[i + 2][b] \in Seq(Outputs))
    BY <2>1, <2>2, <2>3 DEF Meanings
  <2>6. /\ (~ inText) \in BOOLEAN
        /\ <<PlainText(SingleQuote)>> \in Seq(Outputs) /\ <<PlainText(format[i])>> \in Seq(Outputs)
    BY <2>4, OutputKinds
  <2>7. format[i] \notin {SingleQuote} \cup PlainCharacters \cup NonASCII \cup UnusedLetters =>
           <<FieldOf(SubSeq(format, i, r))>> \in Seq(Outputs)
    <3> SUFFICES ASSUME format[i] \notin {SingleQuote} \cup PlainCharacters \cup NonASCII \cup UnusedLetters
                 PROVE  <<FieldOf(SubSeq(format, i, r))>> \in Seq(Outputs)
      OBVIOUS
    <3>1. format[i] \in FieldLetters
      BY <2>4 DEF Characters
    <3>2. \A k \in i..r : format[k] \in FieldLetters
      BY <2>2, <3>1
    <3>3. SubSeq(format, i, r) \in Seq(FieldLetters)
      <4>1. i \in Int /\ r \in Int
        BY <1>1, <2>1, <2>2
      <4> HIDE DEF r
      <4> QED
        BY <3>2, <4>1, SubSeqProperties
    <3> QED
      BY <3>3, OutputKinds
  <2> HIDE DEF r
  <2>8. \A s, t \in Seq(Outputs) : s \o t \in Seq(Outputs)
    BY ConcatProperties
  <2>9. CASE format[i] = SingleQuote /\ i < Len(format) /\ format[i + 1] = SingleQuote
    BY <1>3, <2>5, <2>6, <2>8, <2>9 DEF SpecifiedAt
  <2>10. CASE format[i] = SingleQuote /\ ~ (i < Len(format) /\ format[i + 1] = SingleQuote)
    BY <1>3, <2>5, <2>6, <2>10 DEF SpecifiedAt
  <2>11. CASE format[i] # SingleQuote /\ (inText \/ format[i] \in PlainCharacters \cup NonASCII)
    BY <1>3, <2>5, <2>6, <2>8, <2>11 DEF SpecifiedAt
  <2>12. CASE format[i] # SingleQuote /\ ~ (inText \/ format[i] \in PlainCharacters \cup NonASCII)
    <3>1. CASE format[i] \in UnusedLetters
      BY <1>3, <2>5, <2>12, <3>1 DEF SpecifiedAt
    <3>2. CASE format[i] \notin UnusedLetters
      <4>1. SpecifiedAt(format, f, i, inText) = <<FieldOf(SubSeq(format, i, r))>> \o f[r + 1][inText]
        BY <1>3, <2>12, <3>2 DEF SpecifiedAt, r
      <4> QED
        BY <2>5, <2>7, <2>8, <2>12, <3>2, <4>1
    <3> QED
      BY <3>1, <3>2
  <2> QED
    BY <2>9, <2>10, <2>11, <2>12
<1> QED
  BY <1>2, <1>3

\* There is such a function: if there were none up to some place there would be a
\* last place without, and the function that starts after it could start there.
LEMMA MeaningExists ==
    ASSUME NEW format \in Seq(Characters)
    PROVE  \E f : MeantFrom(format, 1, f)
<1> DEFINE n == Len(format)
           Missing == {k \in 0..n : ~ \E f : MeantFrom(format, n + 1 - k, f)}
<1>1. n \in Nat
  BY LenProperties
<1>2. ASSUME NEW m \in 1..(n + 1), NEW f, \A k \in (m + 1)..(n + 1) : f[k] \in Meanings,
             \A k \in (m + 1)..(n + 1) : \A inText \in BOOLEAN :
                f[k][inText] = SpecifiedAt(format, f, k, inText)
      PROVE  \E g : MeantFrom(format, m, g)
  <2> DEFINE g == [k \in m..(n + 1) |->
                      IF k > m THEN f[k] ELSE [inText \in BOOLEAN |-> SpecifiedAt(format, f, m, inText)]]
  <2>1. \A inText \in BOOLEAN : SpecifiedAt(format, f, m, inText) \in Seq(Outputs)
    BY <1>2, MeaningTyped
  <2>2. [inText \in BOOLEAN |-> SpecifiedAt(format, f, m, inText)] \in Meanings
    BY <2>1 DEF Meanings
  <2>3. \A k \in m..(n + 1) : k > m => k \in (m + 1)..(n + 1)
    BY <1>1
  <2>4. g \in [m..(n + 1) -> Meanings]
    BY <1>2, <2>2, <2>3
  <2>5. \A k \in (m + 1)..(n + 1) : g[k] = f[k]
    BY <1>1
  <2>6. \A inText \in BOOLEAN : g[m][inText] = SpecifiedAt(format, f, m, inText)
    BY <1>1
  <2> HIDE DEF g
  <2>7. ASSUME NEW k \in m..(n + 1), NEW inText \in BOOLEAN
        PROVE  g[k][inText] = SpecifiedAt(format, g, k, inText)
    <3>1. \A l \in (k + 1)..(n + 1) : f[l] = g[l]
      BY <1>1, <2>5
    <3>2. SpecifiedAt(format, f, k, inText) = SpecifiedAt(format, g, k, inText)
      <4>1. k \in 1..(Len(format) + 1)
        BY <1>1
      <4> QED
        BY <3>1, <4>1, LaterPlaces
    <3>3. g[k][inText] = SpecifiedAt(format, f, k, inText)
      BY <1>1, <1>2, <2>3, <2>5, <2>6
    <3> QED
      BY <3>2, <3>3
  <2>8. MeantFrom(format, m, g)
    BY <2>4, <2>7 DEF MeantFrom
  <2> QED
    BY <2>8
<1>3. \E f : MeantFrom(format, n + 1, f)
  <2>1. (n + 1) + 1 > n + 1 /\ n + 1 \in 1..(n + 1)
    BY <1>1
  <2>2. \A k \in ((n + 1) + 1)..(n + 1) : FALSE
    BY <1>1
  <2> HIDE DEF n
  <2> QED
    BY <1>2, <2>1, <2>2
<1>4. ASSUME NEW k \in 1..n, \E f : MeantFrom(format, n + 1 - (k - 1), f)
      PROVE  \E f : MeantFrom(format, n + 1 - k, f)
  <2>1. PICK f : MeantFrom(format, n + 1 - (k - 1), f)
    BY <1>4
  <2> DEFINE m == n + 1 - k
  <2>2. m \in 1..(n + 1) /\ n + 1 - (k - 1) = m + 1
    BY <1>1
  <2>3. /\ \A l \in (m + 1)..(n + 1) : f[l] \in Meanings
        /\ \A l \in (m + 1)..(n + 1) : \A inText \in BOOLEAN :
              f[l][inText] = SpecifiedAt(format, f, l, inText)
    BY <2>1, <2>2 DEF MeantFrom
  <2> HIDE DEF m
  <2>4. \E g : MeantFrom(format, m, g)
    BY <1>2, <2>2, <2>3
  <2> QED
    BY <2>4 DEF m
<1>5. Missing = {}
  <2> SUFFICES ASSUME Missing # {} PROVE FALSE
    OBVIOUS
  <2>1. Missing \subseteq Nat
    BY <1>1
  <2>2. PICK k \in Missing : \A l \in Missing : k <= l
    BY <2>1, SomeIsLeast
  <2>3. k \in 0..n /\ ~ \E f : MeantFrom(format, n + 1 - k, f)
    OBVIOUS
  <2>4. k # 0
    <3>1. n + 1 - 0 = n + 1
      BY <1>1
    <3> HIDE DEF n
    <3> QED
      BY <1>3, <2>3, <3>1
  <2>5. k \in 1..n /\ k - 1 \in 0..n /\ ~ (k <= k - 1)
    BY <1>1, <2>3, <2>4
  <2>6. k - 1 \notin Missing
    BY <2>2, <2>5
  <2>7. \E f : MeantFrom(format, n + 1 - (k - 1), f)
    BY <2>5, <2>6
  <2> QED
    BY <1>4, <2>3, <2>5, <2>7
<1>6. n \in 0..n /\ n + 1 - n = 1
  BY <1>1
<1>7. \E f : MeantFrom(format, n + 1 - n, f)
  BY <1>5, <1>6
<1> QED
  BY <1>6, <1>7

\* The meaning of a format from a place on.
Meaning(format) == CHOOSE f : MeantFrom(format, 1, f)
MeaningAt(format, i, inText) == Meaning(format)[i][inText]

\* SpecifiedFrom is what its recursive function, the only one there is, says of the first place.
LEMMA MeaningIs ==
    ASSUME NEW format \in Seq(Characters)
    PROVE  /\ MeantFrom(format, 1, Meaning(format))
           /\ SpecifiedFrom(format) = MeaningAt(format, 1, FALSE)
<1> DEFINE f == Meaning(format)
           Equation(g) == g = [i \in 1..Len(format) + 1 |->
                                  [inText \in BOOLEAN |-> SpecifiedAt(format, g, i, inText)]]
           h == CHOOSE g : Equation(g)
<1>1. MeantFrom(format, 1, f)
  BY MeaningExists DEF Meaning
<1>2. Len(format) \in Nat
  BY LenProperties
<1> HIDE DEF f
<1>3. Equation(f)
  <2>1. f \in [1..Len(format) + 1 -> Meanings]
    BY <1>1 DEF MeantFrom
  <2>2. ASSUME NEW i \in 1..Len(format) + 1
        PROVE  f[i] = [inText \in BOOLEAN |-> SpecifiedAt(format, f, i, inText)]
    <3>1. f[i] \in [BOOLEAN -> Seq(Outputs)]
      BY <2>1 DEF Meanings
    <3>2. \A inText \in BOOLEAN : f[i][inText] = SpecifiedAt(format, f, i, inText)
      BY <1>1 DEF MeantFrom
    <3> QED
      BY <3>1, <3>2
  <2> QED
    BY <2>1, <2>2
<1>4. Equation(h)
  BY <1>3
<1>5. SpecifiedFrom(format) = h[1][FALSE]
  BY DEF SpecifiedFrom
<1> HIDE DEF h
<1>6. h = f
  <2> DEFINE n == Len(format)
             Differs == {k \in 0..n : h[n + 1 - k] # f[n + 1 - k]}
  <2>1. ASSUME NEW g, Equation(g)
        PROVE  /\ g = [i \in 1..n + 1 |-> g[i]]
               /\ \A i \in 1..n + 1 : g[i] = [inText \in BOOLEAN |-> SpecifiedAt(format, g, i, inText)]
    BY <2>1
  <2> HIDE DEF Equation
  <2>2. ASSUME Differs # {} PROVE FALSE
    <3>1. Differs \subseteq Nat
      BY <1>2
    <3>2. PICK k \in Differs : \A l \in Differs : k <= l
      BY <2>2, <3>1, SomeIsLeast
    <3> DEFINE i == n + 1 - k
    <3>3. k \in 0..n /\ h[i] # f[i]
      BY <3>2
    <3>4. i \in 1..n + 1
      BY <1>2, <3>3
    <3>5. ASSUME NEW l \in (i + 1)..(n + 1) PROVE h[l] = f[l]
      <4>1. n + 1 - l \in 0..n /\ ~ (k <= n + 1 - l) /\ n + 1 - (n + 1 - l) = l
        BY <1>2, <3>3
      <4>2. n + 1 - l \notin Differs
        BY <3>2, <4>1
      <4> QED
        BY <4>1, <4>2
    <3> HIDE DEF i, n
    <3>6. \A inText \in BOOLEAN : SpecifiedAt(format, h, i, inText) = SpecifiedAt(format, f, i, inText)
      BY <3>4, <3>5, LaterPlaces DEF n
    <3>7. /\ h[i] = [inText \in BOOLEAN |-> SpecifiedAt(format, h, i, inText)]
          /\ f[i] = [inText \in BOOLEAN |-> SpecifiedAt(format, f, i, inText)]
      BY <1>3, <1>4, <2>1, <3>4
    <3> QED
      BY <3>3, <3>6, <3>7
  <2>3. ASSUME NEW i \in 1..n + 1 PROVE h[i] = f[i]
    <3>1. n + 1 - i \in 0..n /\ n + 1 - (n + 1 - i) = i
      BY <1>2
    <3>2. n + 1 - i \notin Differs
      BY <2>2
    <3> QED
      BY <3>1, <3>2
  <2> HIDE DEF n, Differs
  <2>4. h = [i \in 1..n + 1 |-> h[i]] /\ f = [i \in 1..n + 1 |-> f[i]]
    BY <1>3, <1>4, <2>1
  <2>5. [i \in 1..n + 1 |-> h[i]] = [i \in 1..n + 1 |-> f[i]]
    BY <2>3
  <2> QED
    BY <2>4, <2>5
<1> QED
  BY <1>1, <1>5, <1>6 DEF MeaningAt, f

\* What stands at a place, and what comes after it.
LEMMA MeaningCases ==
    ASSUME NEW format \in Seq(Characters), NEW i \in 1..Len(format), NEW inText \in BOOLEAN
    PROVE  /\ MeaningAt(format, i, inText) \in Seq(Outputs)
           /\ MeaningAt(format, i + 1, inText) \in Seq(Outputs)
           /\ MeaningAt(format, i + 1, ~ inText) \in Seq(Outputs)
           /\ format[i] = SingleQuote /\ i < Len(format) /\ format[i + 1] = SingleQuote =>
                 /\ MeaningAt(format, i + 2, inText) \in Seq(Outputs)
                 /\ MeaningAt(format, i, inText)
                    = <<PlainText(SingleQuote)>> \o MeaningAt(format, i + 2, inText)
           /\ format[i] = SingleQuote /\ (i = Len(format) \/ format[i + 1] # SingleQuote) =>
                 MeaningAt(format, i, inText) = MeaningAt(format, i + 1, ~ inText)
           /\ format[i] # SingleQuote /\ (inText \/ format[i] \in PlainCharacters \cup NonASCII) =>
                 MeaningAt(format, i, inText) = <<PlainText(format[i])>> \o MeaningAt(format, i + 1, inText)
           /\ format[i] \in UnusedLetters /\ ~ inText =>
                 MeaningAt(format, i, inText) = MeaningAt(format, i + 1, inText)
           /\ format[i] \in FieldLetters /\ ~ inText =>
                 LET r == RunFrom(format, i)
                 IN  MeaningAt(format, i, inText)
                     = <<FieldOf(SubSeq(format, i, r))>> \o MeaningAt(format, r + 1, inText)
<1> DEFINE f == Meaning(format)
<1>1. MeantFrom(format, 1, f)
  BY MeaningIs
<1>2. Len(format) \in Nat
  BY LenProperties
<1>3. i \in 1..(Len(format) + 1) /\ i + 1 \in 1..(Len(format) + 1)
      /\ (i < Len(format) => i + 2 \in 1..(Len(format) + 1)) /\ (~ inText) \in BOOLEAN
  BY <1>2
<1> HIDE DEF f
<1>4. \A k \in 1..(Len(format) + 1), b \in BOOLEAN : f[k][b] \in Seq(Outputs)
  BY <1>1 DEF MeantFrom, Meanings
<1>5. f[i][inText] = SpecifiedAt(format, f, i, inText)
  BY <1>1, <1>3 DEF MeantFrom
<1>6. \A k, b : MeaningAt(format, k, b) = f[k][b]
  BY DEF MeaningAt, f
<1>7. ~ (i > Len(format))
  BY <1>2
<1>8. format[i] \in FieldLetters =>
         format[i] # SingleQuote /\ format[i] \notin PlainCharacters \cup NonASCII
         /\ format[i] \notin UnusedLetters
  BY FormatConstants
<1>9. format[i] \in UnusedLetters => format[i] # SingleQuote /\ format[i] \notin PlainCharacters \cup NonASCII
  BY FormatConstants
<1>10. i = Len(format) => ~ (i < Len(format))
  BY <1>2
<1>11. /\ f[i][inText] \in Seq(Outputs) /\ f[i + 1][inText] \in Seq(Outputs)
       /\ f[i + 1][~ inText] \in Seq(Outputs)
       /\ i < Len(format) => f[i + 2][inText] \in Seq(Outputs)
  BY <1>3, <1>4
<1>12. format[i] = SingleQuote /\ i < Len(format) /\ format[i + 1] = SingleQuote =>
          f[i][inText] = <<PlainText(SingleQuote)>> \o f[i + 2][inText]
  BY <1>5, <1>7 DEF SpecifiedAt
<1>13. format[i] = SingleQuote /\ (i = Len(format) \/ format[i + 1] # SingleQuote) =>
          f[i][inText] = f[i + 1][~ inText]
  BY <1>5, <1>7, <1>10 DEF SpecifiedAt
<1>14. format[i] # SingleQuote /\ (inText \/ format[i] \in PlainCharacters \cup NonASCII) =>
          f[i][inText] = <<PlainText(format[i])>> \o f[i + 1][inText]
  BY <1>5, <1>7 DEF SpecifiedAt
<1>15. format[i] \in UnusedLetters /\ ~ inText => f[i][inText] = f[i + 1][inText]
  BY <1>5, <1>7, <1>9 DEF SpecifiedAt
<1>16. format[i] \in FieldLetters /\ ~ inText =>
          f[i][inText] = <<FieldOf(SubSeq(format, i, RunFrom(format, i)))>> \o f[RunFrom(format, i) + 1][inText]
  BY <1>5, <1>7, <1>8 DEF SpecifiedAt
<1> QED
  BY <1>11, <1>12, <1>13, <1>14, <1>15, <1>16 DEF MeaningAt, f

\* What a place means is a sequence of outputs;
LEMMA MeaningIsOutput ==
    ASSUME NEW format \in Seq(Characters), NEW i \in 1..(Len(format) + 1), NEW inText \in BOOLEAN
    PROVE  MeaningAt(format, i, inText) \in Seq(Outputs)
<1>1. Meaning(format) \in [1..(Len(format) + 1) -> Meanings]
  BY MeaningIs DEF MeantFrom
<1>2. Meaning(format)[i] \in [BOOLEAN -> Seq(Outputs)]
  BY <1>1 DEF Meanings
<1> QED
  BY <1>2 DEF MeaningAt

\* after the last place it is empty.
LEMMA MeaningEnds ==
    ASSUME NEW format \in Seq(Characters), NEW inText \in BOOLEAN
    PROVE  MeaningAt(format, Len(format) + 1, inText) = <<>>
<1> DEFINE f == Meaning(format)
<1>1. MeantFrom(format, 1, f)
  BY MeaningIs
<1>2. Len(format) \in Nat /\ Len(format) + 1 \in 1..(Len(format) + 1) /\ Len(format) + 1 > Len(format)
  <2>1. Len(format) \in Nat
    BY LenProperties
  <2> QED
    BY <2>1
<1> HIDE DEF f
<1>3. f[Len(format) + 1][inText] = SpecifiedAt(format, f, Len(format) + 1, inText)
  BY <1>1, <1>2 DEF MeantFrom
<1> QED
  BY <1>2, <1>3 DEF SpecifiedAt, MeaningAt, f

-----------------------------------------------------------------------------
(* What has been read and what comes *)

\* A format is a sequence of characters.
LEMMA FormatIsText ==
    ASSUME NEW format \in Formats
    PROVE  format \in Seq(Characters) /\ Len(format) \in Nat
<1>1. PICK n \in 0..MaxFormat : format \in [1..n -> Characters]
  BY DEF Formats
<1>2. n \in Nat
  BY FormatConstants
<1>3. format \in Seq(Characters)
  BY <1>1, <1>2, IsASeq
<1> QED
  BY <1>3, LenProperties

\* An appended output was the first of what came.
LEMMA OutputMoves ==
    ASSUME NEW before \in Seq(Outputs), NEW output \in Outputs, NEW rest \in Seq(Outputs)
    PROVE  /\ Append(before, output) \in Seq(Outputs)
           /\ before \o (<<output>> \o rest) = Append(before, output) \o rest
<1>1. <<output>> \in Seq(Outputs)
  OBVIOUS
<1>2. (before \o <<output>>) \o rest = before \o (<<output>> \o rest)
  BY <1>1, ConcatAssociative
<1>3. Append(before, output) = before \o <<output>>
  BY AppendIsConcat
<1>4. Append(before, output) \in Seq(Outputs)
  BY AppendProperties
<1> QED
  BY <1>2, <1>3, <1>4

RunStart == position - Len(pendingFieldSpecifier)

FormatTypes ==
    /\ mFormatSpecifier \in Formats /\ position \in 1..(Len(mFormatSpecifier) + 2)
    /\ pendingFieldSpecifier \in Seq(FieldLetters)
    /\ isEscaped \in BOOLEAN /\ isUnescapePending \in BOOLEAN /\ gotEscapedChars \in BOOLEAN
    /\ result \in Seq(Outputs)

\* The letters that wait are the last ones read, of one run.
PendingIsRun ==
    /\ RunStart \in 1..position
    /\ pendingFieldSpecifier = SubSeq(mFormatSpecifier, RunStart, position - 1)
    /\ \A k \in RunStart..(position - 1) : mFormatSpecifier[k] = mFormatSpecifier[RunStart]

\* Inside a text no letters wait, and the quote that opened it or may close it was
\* read last.
QuotesAreRead ==
    /\ isEscaped => pendingFieldSpecifier = <<>>
    /\ ~ isEscaped => ~ isUnescapePending /\ ~ gotEscapedChars
    /\ position <= Len(mFormatSpecifier) + 1 /\ isEscaped /\ (isUnescapePending \/ ~ gotEscapedChars) =>
          position # 1 /\ mFormatSpecifier[position - 1] = SingleQuote

MeansFrom(output, i, inText) ==
    SpecifiedFrom(mFormatSpecifier) = output \o MeaningAt(mFormatSpecifier, i, inText)

\* What is appended and what the rest of the format means is what the format means.
RestIsToCome ==
    position <= Len(mFormatSpecifier) + 1 =>
        /\ ~ isEscaped => MeansFrom(result, RunStart, FALSE)
        /\ isEscaped /\ ~ isUnescapePending /\ gotEscapedChars => MeansFrom(result, position, TRUE)
        /\ isEscaped /\ isUnescapePending /\ gotEscapedChars => MeansFrom(result, position - 1, TRUE)
        /\ isEscaped /\ ~ isUnescapePending /\ ~ gotEscapedChars => MeansFrom(result, position - 1, FALSE)
        /\ isEscaped /\ isUnescapePending /\ ~ gotEscapedChars =>
              MeansFrom(Append(result, PlainText(SingleQuote)), position, FALSE)

\* What has been read while no character has been passed over.
FormatRead ==
    /\ FormatTypes /\ PendingIsRun /\ QuotesAreRead
    /\ RestIsToCome /\ FormatsAsSpecified

\* Nothing has been read: all of it is to come.
LEMMA FormatReadInit == FormatInit => FormatRead
<1> SUFFICES ASSUME FormatInit PROVE FormatRead
  OBVIOUS
<1>1. /\ mFormatSpecifier \in Formats /\ position = 1 /\ pendingFieldSpecifier = <<>>
      /\ result = <<>> /\ isEscaped = FALSE /\ isUnescapePending = FALSE /\ gotEscapedChars = FALSE
  BY DEF FormatInit
<1>2. mFormatSpecifier \in Seq(Characters) /\ Len(mFormatSpecifier) \in Nat
  BY <1>1, FormatIsText
<1>3. FormatTypes
  <2>1. /\ 1 \in 1..(Len(mFormatSpecifier) + 2)
        /\ <<>> \in Seq(FieldLetters) /\ <<>> \in Seq(Outputs)
    BY <1>2, EmptySeq
  <2> QED
    BY <1>1, <2>1 DEF FormatTypes
<1>4. RunStart = 1
  BY <1>1 DEF RunStart
<1>5. PendingIsRun
  <2>1. SubSeq(mFormatSpecifier, 1, 0) = <<>>
    BY SubSeqEmpty
  <2> QED
    BY <1>1, <1>4, <2>1 DEF PendingIsRun
<1>6. QuotesAreRead
  BY <1>1 DEF QuotesAreRead
<1>7. RestIsToCome
  <2>1. SpecifiedFrom(mFormatSpecifier) = MeaningAt(mFormatSpecifier, 1, FALSE)
    BY <1>2, MeaningIs
  <2>2. MeaningAt(mFormatSpecifier, 1, FALSE) \in Seq(Outputs)
    <3>1. 1 \in 1..(Len(mFormatSpecifier) + 1)
      BY <1>2
    <3> QED
      BY <1>2, <3>1, MeaningIsOutput
  <2>3. <<>> \o MeaningAt(mFormatSpecifier, 1, FALSE) = MeaningAt(mFormatSpecifier, 1, FALSE)
    BY <2>2, ConcatEmptySeq
  <2> QED
    BY <1>1, <1>4, <2>1, <2>3 DEF RestIsToCome, MeansFrom
<1>8. FormatsAsSpecified
  BY <1>1, <1>2 DEF FormatsAsSpecified
<1> QED
  BY <1>3, <1>5, <1>6, <1>7, <1>8 DEF FormatRead

\* The letters that wait are a field once their run has ended.
LEMMA PendingFlushed ==
    ASSUME FormatTypes, PendingIsRun, position <= Len(mFormatSpecifier) + 1,
           pendingFieldSpecifier = <<>> \/ position = Len(mFormatSpecifier) + 1
               \/ mFormatSpecifier[position] # mFormatSpecifier[RunStart],
           NEW before \in Seq(Outputs), MeansFrom(before, RunStart, FALSE)
    PROVE  /\ WithPending(before) \in Seq(Outputs)
           /\ MeansFrom(WithPending(before), position, FALSE)
<1> DEFINE format == mFormatSpecifier
           q == RunStart
           p == position
<1>1. format \in Seq(Characters) /\ Len(format) \in Nat /\ p \in 1..(Len(format) + 1)
  BY FormatIsText DEF FormatTypes
<1>2. CASE pendingFieldSpecifier = <<>>
  <2>1. q = p
    BY <1>1, <1>2 DEF RunStart
  <2> QED
    BY <1>2, <2>1 DEF WithPending
<1>3. CASE pendingFieldSpecifier # <<>>
  <2>1. Len(pendingFieldSpecifier) \in Nat \ {0}
    BY <1>3, EmptySeq, LenProperties DEF FormatTypes
  <2>2. q \in 1..p /\ q # p
    BY <1>1, <2>1 DEF PendingIsRun, RunStart
  <2>3. q \in 1..Len(format) /\ p - 1 \in q..Len(format)
    BY <1>1, <2>2
  <2>4. pendingFieldSpecifier = SubSeq(format, q, p - 1)
        /\ \A k \in q..(p - 1) : format[k] = format[q]
    BY DEF PendingIsRun
  <2>5. p - 1 = Len(format) \/ format[(p - 1) + 1] # format[q]
    BY <1>1, <1>3
  <2>6. format[q] \in FieldLetters
    <3>1. \A k \in q..(p - 1) : format[k] \in Characters
      BY <1>1, <2>3, ElementOfSeq
    <3>2. 1 \in 1..((p - 1) - q + 1) /\ q + 1 - 1 = q
      BY <1>1, <2>2
    <3>3. pendingFieldSpecifier[1] = format[q]
      <4>1. q \in Int /\ p - 1 \in Int
        BY <1>1, <2>2
      <4> HIDE DEF q, p, format
      <4>2. SubSeq(format, q, p - 1)[1] = format[q + 1 - 1]
        BY <3>1, <3>2, <4>1, SubSeqProperties
      <4> QED
        BY <2>4, <3>2, <4>2
    <3>4. pendingFieldSpecifier[1] \in FieldLetters
      BY <2>1, ElementOfSeq DEF FormatTypes
    <3> QED
      BY <3>3, <3>4
  <2>7. pendingFieldSpecifier \in Seq(FieldLetters)
    BY DEF FormatTypes
  <2>8. WithPending(before) = Append(before, FieldOf(pendingFieldSpecifier))
    BY <1>3 DEF WithPending
  <2> HIDE DEF q, p, format
  <2>9. RunFrom(format, q) = p - 1
    BY <1>1, <2>3, <2>4, <2>5, RunEndIs
  <2>10. MeaningAt(format, q, FALSE)
         = <<FieldOf(pendingFieldSpecifier)>> \o MeaningAt(format, p, FALSE)
    <3>1. (p - 1) + 1 = p
      BY <1>1
    <3>2. format \in Seq(Characters) /\ q \in 1..Len(format) /\ FALSE \in BOOLEAN
      BY <1>1, <2>3
    <3>3. MeaningAt(format, q, FALSE)
          = <<FieldOf(SubSeq(format, q, RunFrom(format, q)))>>
            \o MeaningAt(format, RunFrom(format, q) + 1, FALSE)
      BY <2>6, <3>2, MeaningCases, Zenon
    <3> QED
      BY <2>4, <2>9, <3>1, <3>3, Zenon
  <2>11. FieldOf(pendingFieldSpecifier) \in Outputs
    BY <2>7, OutputKinds
  <2>12. MeaningAt(format, p, FALSE) \in Seq(Outputs)
    BY <1>1, MeaningIsOutput
  <2>13. /\ WithPending(before) \in Seq(Outputs)
         /\ before \o MeaningAt(format, q, FALSE) = WithPending(before) \o MeaningAt(format, p, FALSE)
    <3> DEFINE field == FieldOf(pendingFieldSpecifier)
               rest == MeaningAt(format, p, FALSE)
               meaning == MeaningAt(format, q, FALSE)
    <3>1. meaning = <<field>> \o rest
      BY <2>10
    <3>2. field \in Outputs /\ rest \in Seq(Outputs) /\ WithPending(before) = Append(before, field)
      BY <2>8, <2>11, <2>12
    <3> HIDE DEF field, rest, meaning
    <3>3. Append(before, field) \in Seq(Outputs) /\ before \o (<<field>> \o rest) = Append(before, field) \o rest
      BY <3>2, OutputMoves
    <3>4. before \o meaning = WithPending(before) \o rest /\ WithPending(before) \in Seq(Outputs)
      BY <3>1, <3>2, <3>3
    <3> QED
      BY <3>4 DEF rest, meaning
  <2>14. SpecifiedFrom(format) = before \o MeaningAt(format, q, FALSE)
    BY DEF MeansFrom, q, format
  <2> QED
    BY <2>13, <2>14 DEF MeansFrom, p, format
<1> QED
  BY <1>2, <1>3

\* A character read by itself, after what has been appended before it.
LEMMA Interpreted ==
    ASSUME FormatTypes, PendingIsRun, position <= Len(mFormatSpecifier),
           mFormatSpecifier[position] \notin NonASCII,
           NEW before \in Seq(Outputs), MeansFrom(before, RunStart, FALSE),
           Interprets(mFormatSpecifier[position], before),
           position' = position + 1, mFormatSpecifier' = mFormatSpecifier
    PROVE  FormatRead'
<1> DEFINE format == mFormatSpecifier
           q == RunStart
           p == position
           c == format[p]
           n == Len(format)
<1>1. format \in Seq(Characters) /\ n \in Nat /\ p \in 1..n /\ p' = p + 1 /\ format' = format
      /\ format \in Formats
  BY FormatIsText DEF FormatTypes
<1>2. /\ ~ isUnescapePending' /\ ~ gotEscapedChars' /\ isEscaped' = (c = SingleQuote)
      /\ isUnescapePending' \in BOOLEAN /\ gotEscapedChars' \in BOOLEAN /\ isEscaped' \in BOOLEAN
  BY DEF Interprets
<1>3. p + 1 <= n + 1 /\ p + 1 \in 1..(n + 2) /\ p + 1 \in 1..(n + 1) /\ p + 1 # n + 2
      /\ (p + 1) - 1 = p /\ p + 1 # 1 /\ p \in 1..(n + 1)
  BY <1>1
<1>4. FormatsAsSpecified'
  BY <1>1, <1>3 DEF FormatsAsSpecified
<1>5. c \in Characters
  BY <1>1, ElementOfSeq
<1>6. q \in 1..p /\ pendingFieldSpecifier = SubSeq(format, q, p - 1)
      /\ \A k \in q..(p - 1) : format[k] = format[q]
  BY DEF PendingIsRun
<1>7. pendingFieldSpecifier \in Seq(FieldLetters) /\ Len(pendingFieldSpecifier) = p - q
      /\ Len(pendingFieldSpecifier) \in Nat
  <2>1. pendingFieldSpecifier \in Seq(FieldLetters)
    BY DEF FormatTypes
  <2>2. Len(pendingFieldSpecifier) \in Nat
    BY <2>1, LenProperties
  <2> QED
    BY <1>1, <2>1, <2>2 DEF RunStart
<1>8. pendingFieldSpecifier # <<>> =>
         q # p /\ Head(pendingFieldSpecifier) = format[q] /\ format[q] \in FieldLetters
  <2>1. SUFFICES ASSUME pendingFieldSpecifier # <<>>
                 PROVE  q # p /\ Head(pendingFieldSpecifier) = format[q] /\ format[q] \in FieldLetters
    OBVIOUS
  <2>2. Len(pendingFieldSpecifier) # 0
    BY <1>7, <2>1, EmptySeq
  <2>3. q # p
    BY <1>1, <1>6, <1>7, <2>2
  <2>4. q \in 1..n /\ p - 1 \in q..n
    BY <1>1, <1>6, <2>3
  <2>5. Head(pendingFieldSpecifier) \in FieldLetters
    BY <1>7, <2>1, HeadTailProperties
  <2> HIDE DEF q, p, n, format
  <2>6. Head(SubSeq(format, q, p - 1)) = format[q]
    BY <1>1, <2>4, HeadTailOfSubSeq DEF n
  <2> QED
    BY <1>6, <2>3, <2>5, <2>6
<1>9. pendingFieldSpecifier = <<>> => q = p
  BY <1>1, <1>6, <1>7
<1>10. ASSUME pendingFieldSpecifier = <<>> \/ c # format[q]
       PROVE  WithPending(before) \in Seq(Outputs) /\ MeansFrom(WithPending(before), p, FALSE)
  <2>1. position <= Len(mFormatSpecifier) + 1
    BY <1>1
  <2> QED
    BY <1>10,   <2>1, PendingFlushed
<1>11. ASSUME pendingFieldSpecifier' = <<>>, result' \in Seq(Outputs),
              c # SingleQuote => MeansFrom(result', p + 1, FALSE),
              c = SingleQuote => MeansFrom(result', p, FALSE)
       PROVE  FormatRead'
  <2>1. RunStart' = p + 1
    BY <1>1, <1>11 DEF RunStart
  <2>2. PendingIsRun'
    <3>1. SubSeq(format, p + 1, (p + 1) - 1) = <<>>
      BY <1>1, SubSeqEmpty
    <3>2. \A k \in (p + 1)..((p + 1) - 1) : FALSE
      BY <1>1
    <3> QED
      BY <1>1, <1>3, <1>11, <2>1, <3>1, <3>2 DEF PendingIsRun
  <2>3. FormatTypes'
    BY <1>1, <1>2, <1>3, <1>11, EmptySeq DEF FormatTypes
  <2>4. QuotesAreRead'
    BY <1>1, <1>2, <1>3, <1>11 DEF QuotesAreRead
  <2>5. RestIsToCome'
    <3>1. ~ isEscaped' => MeansFrom(result, RunStart, FALSE)'
      BY <1>1, <1>2, <1>11, <2>1 DEF MeansFrom
    <3>2. isEscaped' => MeansFrom(result, position - 1, FALSE)'
      BY <1>1, <1>2, <1>3, <1>11 DEF MeansFrom
    <3> QED
      BY <1>2, <3>1, <3>2 DEF RestIsToCome
  <2> QED
    BY <1>4, <2>2, <2>3, <2>4, <2>5 DEF FormatRead
<1>12. ASSUME NEW start \in 1..p, result' \in Seq(Outputs), c \in FieldLetters,
              pendingFieldSpecifier' \in Seq(FieldLetters),
              Len(pendingFieldSpecifier') = p + 1 - start,
              pendingFieldSpecifier' = SubSeq(format, start, p),
              \A k \in start..p : format[k] = format[start],
              MeansFrom(result', start, FALSE)
       PROVE  FormatRead'
  <2>1. RunStart' = start /\ start \in 1..(p + 1)
    BY <1>1, <1>12 DEF RunStart
  <2>2. PendingIsRun'
    BY <1>1, <1>3, <1>12, <2>1 DEF PendingIsRun
  <2>3. FormatTypes'
    BY <1>1, <1>2, <1>3, <1>12 DEF FormatTypes
  <2>4. c # SingleQuote
    BY <1>12, FormatConstants
  <2>5. QuotesAreRead'
    BY <1>2, <2>4 DEF QuotesAreRead
  <2>6. RestIsToCome'
    <3>1. MeansFrom(result, RunStart, FALSE)'
      BY <1>1, <1>12, <2>1 DEF MeansFrom
    <3> QED
      BY <1>2, <2>4, <3>1 DEF RestIsToCome
  <2> QED
    BY <1>4, <2>2, <2>3, <2>5, <2>6 DEF FormatRead
<1>13. CASE c \in FieldLetters
  <2>1. CASE pendingFieldSpecifier # <<>> /\ c # Head(pendingFieldSpecifier)
    <3>1. c # format[q]
      BY <1>8, <2>1
    <3>2. result' = WithPending(before) /\ pendingFieldSpecifier' = <<c>>
      BY <1>13, <2>1, FormatConstants DEF Interprets
    <3>3. SubSeq(format, p, p) = <<c>> /\ <<c>> \in Seq(FieldLetters) /\ Len(<<c>>) = p + 1 - p
      <4>1. SubSeq(format, p, p) = SubSeq(format, p, p - 1) \o <<format[p]>>
        <5>1. p \in p..n
          BY <1>1
        <5> HIDE DEF p, n, format
        <5> QED
          BY <1>1, <5>1, SubSeqRecursiveSecond DEF n
      <4>2. SubSeq(format, p, p - 1) = <<>>
        BY <1>1, SubSeqEmpty
      <4>3. <<c>> \in Seq(FieldLetters) /\ Len(<<c>>) = 1 /\ p + 1 - p = 1
        BY <1>1, <1>13
      <4>4. <<>> \o <<c>> = <<c>>
        BY <4>3, ConcatEmptySeq
      <4> QED
        BY <4>1, <4>2, <4>3, <4>4
    <3>4. p \in 1..p /\ \A k \in p..p : format[k] = format[p]
      BY <1>1
    <3>5. WithPending(before) \in Seq(Outputs) /\ MeansFrom(WithPending(before), p, FALSE)
      BY <1>10, <3>1
    <3> HIDE DEF p, format, c
    <3> QED
      BY <1>12, <1>13, <3>2, <3>3, <3>4, <3>5
  <2>2. CASE ~ (pendingFieldSpecifier # <<>> /\ c # Head(pendingFieldSpecifier))
    <3>1. result' = before /\ pendingFieldSpecifier' = Append(pendingFieldSpecifier, c)
      BY <1>13, <2>2, FormatConstants DEF Interprets
    <3>2. c = format[q]
      BY <1>8, <1>9, <2>2
    <3>3. \A k \in q..p : format[k] = format[q]
      <4>1. \A k \in q..p : k = p \/ k \in q..(p - 1)
        BY <1>1, <1>6
      <4> QED
        BY <1>6, <3>2, <4>1
    <3>4. Append(pendingFieldSpecifier, c) \in Seq(FieldLetters)
          /\ Len(Append(pendingFieldSpecifier, c)) = p + 1 - q
      <4>1. Append(pendingFieldSpecifier, c) \in Seq(FieldLetters)
            /\ Len(Append(pendingFieldSpecifier, c)) = Len(pendingFieldSpecifier) + 1
        BY <1>7, <1>13, AppendProperties
      <4> QED
        BY <1>1, <1>6, <1>7, <4>1
    <3>5. Append(pendingFieldSpecifier, c) = SubSeq(format, q, p)
      <4>1. q \in 1..n /\ p \in q..n
        BY <1>1, <1>6
      <4>2. Append(pendingFieldSpecifier, c) = pendingFieldSpecifier \o <<c>>
        BY <1>7, <1>13, AppendIsConcat
      <4> HIDE DEF q, p, n, format
      <4>3. SubSeq(format, q, p) = SubSeq(format, q, p - 1) \o <<format[p]>>
        BY <1>1, <4>1, SubSeqRecursiveSecond DEF n
      <4> QED
        BY <1>6, <4>2, <4>3
    <3> HIDE DEF q, p, format, c
    <3> QED
      BY <1>6, <1>12, <1>13, <3>1, <3>3, <3>4, <3>5 DEF q
  <2> QED
    BY <2>1, <2>2
<1>14. CASE c \notin FieldLetters
  <2>1. pendingFieldSpecifier = <<>> \/ c # format[q]
    BY <1>8, <1>14
  <2>2. WithPending(before) \in Seq(Outputs) /\ MeansFrom(WithPending(before), p, FALSE)
    BY <1>10, <2>1
  <2>3. pendingFieldSpecifier' = <<>>
    BY <1>14 DEF Interprets
  <2>4. CASE c = SingleQuote
    <3>1. result' = WithPending(before)
      BY <1>14, <2>4, FormatConstants DEF Interprets
    <3> HIDE DEF p, c
    <3> QED
      BY <1>11, <2>2, <2>3, <2>4, <3>1
  <2>5. CASE c \in UnusedLetters
    <3>1. result' = WithPending(before) /\ c # SingleQuote
      BY <1>14, <2>5, FormatConstants DEF Interprets
    <3>2. MeaningAt(format, p, FALSE) = MeaningAt(format, p + 1, FALSE)
      BY <1>1, <2>5, MeaningCases
    <3>3. MeansFrom(WithPending(before), p + 1, FALSE)
      BY <2>2, <3>2 DEF MeansFrom
    <3> HIDE DEF p, c
    <3> QED
      BY <1>11, <2>2, <2>3, <3>1, <3>3
  <2>6. CASE c \in PlainCharacters
    <3>1. result' = Append(WithPending(before), PlainText(c)) /\ c # SingleQuote
      BY <1>14, <2>6, FormatConstants DEF Interprets
    <3>2. MeaningAt(format, p, FALSE) = <<PlainText(c)>> \o MeaningAt(format, p + 1, FALSE)
      BY <1>1, <2>6, <3>1, MeaningCases
    <3>3. PlainText(c) \in Outputs /\ MeaningAt(format, p + 1, FALSE) \in Seq(Outputs)
      BY <1>1, <1>3, <1>5, OutputKinds, MeaningIsOutput
    <3>4. SpecifiedFrom(format) = WithPending(before) \o MeaningAt(format, p, FALSE)
      BY <2>2 DEF MeansFrom
    <3> HIDE DEF p, c, format
    <3>5. /\ Append(WithPending(before), PlainText(c)) \in Seq(Outputs)
          /\ WithPending(before) \o (<<PlainText(c)>> \o MeaningAt(format, p + 1, FALSE))
             = Append(WithPending(before), PlainText(c)) \o MeaningAt(format, p + 1, FALSE)
      BY <2>2, <3>3, OutputMoves
    <3>6. MeansFrom(Append(WithPending(before), PlainText(c)), p + 1, FALSE)
      BY <3>2, <3>4, <3>5 DEF MeansFrom, format
    <3> QED
      BY <1>11, <2>3, <3>1, <3>5, <3>6
  <2> QED
    BY <1>5, <1>14, <2>4, <2>5, <2>6 DEF Characters
<1> QED
  BY <1>13, <1>14

\* A character of a text, or its quote, or the quote that may close it.
LEMMA EscapeStep ==
    ASSUME FormatRead, position <= Len(mFormatSpecifier), Escapes(mFormatSpecifier[position]),
           position' = position + 1, mFormatSpecifier' = mFormatSpecifier
    PROVE  FormatRead'
<1> DEFINE format == mFormatSpecifier
           p == position
           c == format[p]
           n == Len(format)
           quote == PlainText(SingleQuote)
<1>1. format \in Seq(Characters) /\ n \in Nat /\ p \in 1..n /\ p' = p + 1 /\ format' = format
      /\ format \in Formats /\ result \in Seq(Outputs)
  BY FormatIsText DEF FormatRead, FormatTypes
<1>2. p + 1 <= n + 1 /\ p + 1 \in 1..(n + 2) /\ p + 1 \in 1..(n + 1) /\ p + 1 # n + 2
      /\ (p + 1) - 1 = p /\ p + 1 # 1 /\ p \in 1..(n + 1) /\ p <= n + 1
  BY <1>1
<1>3. /\ isEscaped /\ isEscaped' /\ pendingFieldSpecifier = <<>> /\ pendingFieldSpecifier' = <<>>
      /\ isUnescapePending \in BOOLEAN /\ gotEscapedChars \in BOOLEAN
  BY DEF Escapes, FormatRead, QuotesAreRead, FormatTypes
<1>4. FormatsAsSpecified'
  BY <1>1, <1>2 DEF FormatsAsSpecified
<1>5. isUnescapePending \/ ~ gotEscapedChars => p # 1 /\ format[p - 1] = SingleQuote
  BY <1>2, <1>3 DEF FormatRead, QuotesAreRead
<1>6. c \in Characters /\ SingleQuote \in Characters
  <2>1. SingleQuote \in Characters
    BY DEF Characters
  <2> QED
    BY <1>1, <2>1, ElementOfSeq
<1>7. PlainText(c) \in Outputs /\ quote \in Outputs
  BY <1>6, OutputKinds
<1>8. PendingIsRun'
  <2>1. RunStart' = p + 1
    BY <1>1, <1>3 DEF RunStart
  <2>2. SubSeq(format, p + 1, (p + 1) - 1) = <<>>
    BY <1>1, SubSeqEmpty
  <2>3. \A k \in (p + 1)..((p + 1) - 1) : FALSE
    BY <1>1
  <2> QED
    BY <1>1, <1>2, <1>3, <2>1, <2>2, <2>3 DEF PendingIsRun
<1>9. ASSUME result' \in Seq(Outputs), isUnescapePending' \in BOOLEAN, gotEscapedChars' \in BOOLEAN,
             isUnescapePending' \/ ~ gotEscapedChars' => c = SingleQuote, RestIsToCome'
      PROVE  FormatRead'
  <2>1. FormatTypes'
    BY <1>1, <1>2, <1>3, <1>9, EmptySeq DEF FormatTypes
  <2>2. QuotesAreRead'
    BY <1>1, <1>2, <1>3, <1>9 DEF QuotesAreRead
  <2> QED
    BY <1>4, <1>8, <1>9, <2>1, <2>2 DEF FormatRead
\* A character that is appended was what the format meant here.
<1>10. ASSUME NEW inText \in BOOLEAN, NEW later \in BOOLEAN, NEW i \in 1..(n + 1), NEW k \in 1..(n + 1),
              NEW output \in Outputs, MeansFrom(result, i, inText),
              MeaningAt(format, i, inText) = <<output>> \o MeaningAt(format, k, later)
       PROVE  Append(result, output) \in Seq(Outputs) /\ MeansFrom(Append(result, output), k, later)
  <2> DEFINE rest == MeaningAt(format, k, later)
             meaning == MeaningAt(format, i, inText)
  <2>1. rest \in Seq(Outputs) /\ SpecifiedFrom(format) = result \o meaning /\ meaning = <<output>> \o rest
    BY <1>1, <1>10, MeaningIsOutput DEF MeansFrom
  <2> HIDE DEF rest, meaning
  <2>2. /\ Append(result, output) \in Seq(Outputs)
        /\ result \o (<<output>> \o rest) = Append(result, output) \o rest
    BY <1>1, <2>1, OutputMoves
  <2> QED
    BY <2>1, <2>2 DEF MeansFrom, rest
<1>11. CASE c = SingleQuote /\ isUnescapePending
  <2>1. /\ result' = Append(result, quote) /\ ~ isUnescapePending'
        /\ gotEscapedChars' = gotEscapedChars /\ isUnescapePending' \in BOOLEAN
    BY <1>11 DEF Escapes
  <2>2. p # 1 /\ p - 1 \in 1..n /\ p - 1 < n /\ (p - 1) + 1 = p /\ (p - 1) + 2 = p + 1
        /\ format[p - 1] = SingleQuote
    BY <1>1, <1>5, <1>11
  <2>3. CASE gotEscapedChars
    <3>1. MeansFrom(result, p - 1, TRUE)
      BY <1>2, <1>3, <1>11, <2>3 DEF FormatRead, RestIsToCome
    <3>2. MeaningAt(format, p - 1, TRUE) = <<quote>> \o MeaningAt(format, p + 1, TRUE)
      BY <1>1, <1>11, <2>2, MeaningCases
    <3>3. p - 1 \in 1..(n + 1)
      BY <1>1, <2>2
    <3>4. result' \in Seq(Outputs) /\ MeansFrom(result', p + 1, TRUE)
      BY <1>2, <1>7, <1>10, <2>1, <3>1, <3>2, <3>3
    <3>5. RestIsToCome'
      BY <1>1, <1>3, <2>1, <2>3, <3>4 DEF RestIsToCome, MeansFrom
    <3> QED
      BY <1>3, <1>9, <1>11, <2>1, <2>3, <3>4, <3>5
  <2>4. CASE ~ gotEscapedChars
    <3>1. MeansFrom(Append(result, quote), p, FALSE)
      BY <1>2, <1>3, <1>11, <2>4 DEF FormatRead, RestIsToCome
    <3>2. Append(result, quote) \in Seq(Outputs)
      BY <1>1, <1>7, AppendProperties
    <3>3. RestIsToCome'
      BY <1>1, <1>2, <1>3, <2>1, <2>4, <3>1 DEF RestIsToCome, MeansFrom
    <3> QED
      BY <1>3, <1>9, <1>11, <2>1, <2>4, <3>2, <3>3
  <2> QED
    BY <2>3, <2>4
<1>12. CASE c = SingleQuote /\ ~ isUnescapePending
  <2>1. result' = result /\ isUnescapePending' /\ gotEscapedChars' = gotEscapedChars
        /\ isUnescapePending' \in BOOLEAN
    BY <1>12 DEF Escapes
  <2>2. CASE gotEscapedChars
    <3>1. MeansFrom(result, p, TRUE)
      BY <1>2, <1>3, <1>12, <2>2 DEF FormatRead, RestIsToCome
    <3>2. RestIsToCome'
      BY <1>1, <1>2, <1>3, <2>1, <2>2, <3>1 DEF RestIsToCome, MeansFrom
    <3> QED
      BY <1>1, <1>3, <1>9, <1>12, <2>1, <2>2, <3>2
  <2>3. CASE ~ gotEscapedChars
    <3>1. MeansFrom(result, p - 1, FALSE)
      BY <1>2, <1>3, <1>12, <2>3 DEF FormatRead, RestIsToCome
    <3>2. p # 1 /\ p - 1 \in 1..n /\ p - 1 < n /\ (p - 1) + 1 = p /\ (p - 1) + 2 = p + 1
          /\ format[p - 1] = SingleQuote
      BY <1>1, <1>5, <2>3
    <3>3. MeaningAt(format, p - 1, FALSE) = <<quote>> \o MeaningAt(format, p + 1, FALSE)
      BY <1>1, <1>12, <3>2, MeaningCases
    <3>4. p - 1 \in 1..(n + 1)
      BY <1>1, <3>2
    <3>5. MeansFrom(Append(result, quote), p + 1, FALSE)
      BY <1>2, <1>7, <1>10, <3>1, <3>3, <3>4
    <3>6. RestIsToCome'
      BY <1>1, <1>3, <2>1, <2>3, <3>5 DEF RestIsToCome, MeansFrom
    <3> QED
      BY <1>1, <1>3, <1>9, <1>12, <2>1, <2>3, <3>6
  <2> QED
    BY <2>2, <2>3
<1>13. CASE c # SingleQuote
  <2>1. /\ ~ isUnescapePending /\ gotEscapedChars' /\ gotEscapedChars' \in BOOLEAN
        /\ result' = Append(result, PlainText(c)) /\ isUnescapePending' = isUnescapePending
    BY <1>13 DEF Escapes
  <2>2. MeansFrom(result, p, TRUE)
    <3>1. CASE gotEscapedChars
      BY <1>2, <1>3, <2>1, <3>1 DEF FormatRead, RestIsToCome
    <3>2. CASE ~ gotEscapedChars
      <4>1. MeansFrom(result, p - 1, FALSE)
        BY <1>2, <1>3, <2>1, <3>2 DEF FormatRead, RestIsToCome
      <4>2. p # 1 /\ p - 1 \in 1..n /\ (p - 1) + 1 = p /\ format[p - 1] = SingleQuote
        BY <1>1, <1>5, <3>2
      <4>3. MeaningAt(format, p - 1, FALSE) = MeaningAt(format, p, TRUE)
        <5>1. MeaningAt(format, p - 1, FALSE) = MeaningAt(format, (p - 1) + 1, ~ FALSE)
          BY <1>1, <1>13, <4>2, MeaningCases
        <5> QED
          BY <4>2, <5>1
      <4> QED
        BY <4>1, <4>3 DEF MeansFrom
    <3> QED
      BY <3>1, <3>2
  <2>3. MeaningAt(format, p, TRUE) = <<PlainText(c)>> \o MeaningAt(format, p + 1, TRUE)
    BY <1>1, <1>13, MeaningCases
  <2>4. result' \in Seq(Outputs) /\ MeansFrom(result', p + 1, TRUE)
    BY <1>2, <1>7, <1>10, <2>1, <2>2, <2>3
  <2>5. RestIsToCome'
    BY <1>1, <1>3, <2>1, <2>4 DEF RestIsToCome, MeansFrom
  <2> QED
    BY <1>3, <1>9, <2>1, <2>4, <2>5
<1> QED
  BY <1>11, <1>12, <1>13

\* Each character moves what it means from what is to come to what is appended.
LEMMA FormatReadStep == FormatRead /\ [FormatNext]_formatVars => FormatRead' \/ passedOver'
<1> SUFFICES ASSUME FormatRead, [FormatNext]_formatVars, ~ passedOver' PROVE FormatRead'
  OBVIOUS
<1> DEFINE format == mFormatSpecifier
           p == position
           n == Len(format)
<1>1. format \in Seq(Characters) /\ n \in Nat /\ p \in 1..(n + 2) /\ result \in Seq(Outputs)
      /\ FormatTypes /\ PendingIsRun /\ QuotesAreRead /\ RestIsToCome
  BY FormatIsText DEF FormatRead, FormatTypes
<1>2. CASE TakesCharacter
  <2> DEFINE c == format[p]
             quote == PlainText(SingleQuote)
  <2>1. p <= n /\ p' = p + 1 /\ format' = format /\ p <= n + 1 /\ p \in 1..n
    BY <1>1, <1>2 DEF TakesCharacter
  <2>2. CASE Escapes(c)
    BY <2>1, <2>2, EscapeStep
  <2>3. CASE isEscaped /\ isUnescapePending /\ c # SingleQuote /\ Interprets(c, EndsEscape(result))
    <3>1. pendingFieldSpecifier = <<>> /\ p # 1 /\ format[p - 1] = SingleQuote
      BY <1>1, <2>1, <2>3 DEF QuotesAreRead
    <3>2. RunStart = p
      BY <1>1, <3>1 DEF RunStart
    <3>3. EndsEscape(result) \in Seq(Outputs) /\ MeansFrom(EndsEscape(result), RunStart, FALSE)
      <4>1. CASE gotEscapedChars
        <5>1. MeansFrom(result, p - 1, TRUE)
          BY <1>1, <2>1, <2>3, <4>1 DEF RestIsToCome
        <5>2. p - 1 \in 1..n /\ (p - 1) + 1 = p
          BY <1>1, <2>1, <3>1
        <5>3. MeaningAt(format, p - 1, TRUE) = MeaningAt(format, (p - 1) + 1, ~ TRUE)
          BY <1>1, <2>3, <3>1, <5>2, MeaningCases
        <5>4. MeansFrom(result, p, FALSE)
          BY <5>1, <5>2, <5>3 DEF MeansFrom
        <5> QED
          BY <1>1, <3>2, <4>1, <5>4 DEF EndsEscape
      <4>2. CASE ~ gotEscapedChars
        <5>1. MeansFrom(Append(result, quote), p, FALSE)
          BY <1>1, <2>1, <2>3, <4>2 DEF RestIsToCome
        <5>2. quote \in Outputs
          <6>1. SingleQuote \in Characters
            BY DEF Characters
          <6> QED
            BY <6>1, OutputKinds
        <5>3. Append(result, quote) \in Seq(Outputs)
          BY <1>1, <5>2, AppendProperties
        <5> QED
          BY <3>2, <4>2, <5>1, <5>3 DEF EndsEscape
      <4> QED
        BY <4>1, <4>2
    <3>4. c \notin NonASCII
      BY <2>3 DEF Interprets
    <3> QED
      BY <1>1, <2>1, <2>3, <3>3, <3>4, Interpreted
  <2>4. CASE ~ isEscaped /\ Interprets(c, result)
    <3>1. MeansFrom(result, RunStart, FALSE)
      BY <1>1, <2>1, <2>4 DEF RestIsToCome
    <3>2. c \notin NonASCII
      BY <2>4 DEF Interprets
    <3> QED
      BY <1>1, <2>1, <2>4, <3>1, <3>2, Interpreted
  <2> QED
    BY <1>2, <2>2, <2>3, <2>4 DEF TakesCharacter
<1>3. CASE Finishes
  <2>1. /\ p = n + 1 /\ p' = n + 2 /\ format' = format /\ p <= n + 1 /\ p \in 1..(n + 1)
        /\ result' = WithPending(result) /\ pendingFieldSpecifier' = <<>>
        /\ isEscaped' = isEscaped /\ isUnescapePending' = isUnescapePending
        /\ gotEscapedChars' = gotEscapedChars
    BY <1>1, <1>3 DEF Finishes
  <2>2. \A inText \in BOOLEAN : MeaningAt(format, p, inText) = <<>>
    BY <1>1, <2>1, MeaningEnds
  <2>3. \A output \in Seq(Outputs) : output \o <<>> = output
    BY ConcatEmptySeq
  <2>4. isEscaped \in BOOLEAN /\ isUnescapePending \in BOOLEAN /\ gotEscapedChars \in BOOLEAN
        /\ format \in Formats
    BY <1>1 DEF FormatTypes
  <2>5. WithPending(result) \in Seq(Outputs)
        /\ (WithPending(result) = SpecifiedFrom(format) \/ (isUnescapePending /\ ~ gotEscapedChars))
    <3>1. CASE ~ isEscaped
      <4>1. MeansFrom(result, RunStart, FALSE)
        BY <1>1, <2>1, <3>1 DEF RestIsToCome
      <4>2. WithPending(result) \in Seq(Outputs) /\ MeansFrom(WithPending(result), p, FALSE)
        BY <1>1, <2>1, <4>1, PendingFlushed
      <4> QED
        BY <2>2, <2>3, <4>2 DEF MeansFrom
    <3>2. CASE isEscaped
      <4>1. WithPending(result) = result
        BY <1>1, <3>2 DEF QuotesAreRead, WithPending
      <4>2. CASE ~ isUnescapePending /\ gotEscapedChars
        <5>1. MeansFrom(result, p, TRUE)
          BY <1>1, <2>1, <3>2, <4>2 DEF RestIsToCome
        <5> QED
          BY <1>1, <2>2, <2>3, <4>1, <5>1 DEF MeansFrom
      <4>3. CASE ~ (~ isUnescapePending /\ gotEscapedChars) /\ ~ (isUnescapePending /\ ~ gotEscapedChars)
        <5>1. p # 1 /\ format[p - 1] = SingleQuote
          BY <1>1, <2>1, <2>4, <3>2, <4>3 DEF QuotesAreRead
        <5>2. p - 1 \in 1..n /\ p - 1 = n /\ (p - 1) + 1 = p
          BY <1>1, <2>1, <5>1
        <5>3. PICK b \in BOOLEAN : MeansFrom(result, p - 1, b)
          BY <1>1, <2>1, <2>4, <3>2, <4>3 DEF RestIsToCome
        <5>4. MeaningAt(format, p - 1, b) = MeaningAt(format, (p - 1) + 1, ~ b)
          BY <1>1, <5>1, <5>2, MeaningCases
        <5>5. MeaningAt(format, p, ~ b) = <<>>
          BY <2>2
        <5>6. MeaningAt(format, p - 1, b) = <<>>
          BY <5>2, <5>4, <5>5
        <5> QED
          BY <1>1, <2>3, <4>1, <5>3, <5>6 DEF MeansFrom
      <4> QED
        BY <1>1, <2>4, <4>1, <4>2, <4>3
    <3> QED
      BY <3>1, <3>2
  <2>6. ~ (n + 2 <= n + 1) /\ n + 2 \in 1..(n + 2)
    BY <1>1
  <2>7. FormatTypes'
    BY <2>1, <2>4, <2>5, <2>6, EmptySeq DEF FormatTypes
  <2>8. PendingIsRun'
    <3>1. RunStart' = n + 2
      BY <1>1, <2>1 DEF RunStart
    <3>2. SubSeq(format, n + 2, (n + 2) - 1) = <<>>
      BY <1>1, SubSeqEmpty
    <3>3. /\ \A k \in (n + 2)..((n + 2) - 1) : FALSE
          /\ n + 2 \in 1..(n + 2)
      BY <1>1
    <3> QED
      BY <2>1, <3>1, <3>2, <3>3 DEF PendingIsRun
  <2>9. QuotesAreRead'
    BY <1>1, <2>1, <2>6 DEF QuotesAreRead
  <2>10. RestIsToCome'
    BY <2>1, <2>6 DEF RestIsToCome
  <2>11. FormatsAsSpecified'
    BY <2>1, <2>5 DEF FormatsAsSpecified
  <2> QED
    BY <2>7, <2>8, <2>9, <2>10, <2>11 DEF FormatRead
<1>4. CASE UNCHANGED formatVars
  BY <1>4 DEF formatVars, FormatRead, FormatTypes, PendingIsRun, RunStart, QuotesAreRead,
              RestIsToCome, MeansFrom, FormatsAsSpecified
<1> QED
  BY <1>2, <1>3, <1>4 DEF FormatNext

\* Whatever is read, what is appended and what waits have their types.
LEMMA FormatTypesStep == FormatTypes /\ [FormatNext]_formatVars => FormatTypes'
<1> SUFFICES ASSUME FormatTypes, [FormatNext]_formatVars PROVE FormatTypes'
  OBVIOUS
<1> DEFINE format == mFormatSpecifier
           p == position
           n == Len(format)
           c == format[p]
           quote == PlainText(SingleQuote)
<1>1. /\ format \in Seq(Characters) /\ format \in Formats /\ n \in Nat /\ p \in 1..(n + 2)
      /\ pendingFieldSpecifier \in Seq(FieldLetters) /\ result \in Seq(Outputs)
      /\ isEscaped \in BOOLEAN /\ isUnescapePending \in BOOLEAN /\ gotEscapedChars \in BOOLEAN
  BY FormatIsText DEF FormatTypes
<1>2. /\ SingleQuote \in Characters /\ quote \in Outputs
      /\ \A output \in Outputs, before \in Seq(Outputs) : Append(before, output) \in Seq(Outputs)
      /\ \A before \in Seq(Outputs) : WithPending(before) \in Seq(Outputs)
  <2>1. SingleQuote \in Characters
    BY DEF Characters
  <2>2. \A output \in Outputs, before \in Seq(Outputs) : Append(before, output) \in Seq(Outputs)
    BY AppendProperties
  <2>3. FieldOf(pendingFieldSpecifier) \in Outputs
    BY <1>1, OutputKinds
  <2> QED
    BY <2>1, <2>2, <2>3, OutputKinds DEF WithPending
<1>3. CASE TakesCharacter
  <2>1. p <= n /\ p' = p + 1 /\ format' = format
    BY <1>3 DEF TakesCharacter
  <2>2. p + 1 \in 1..(n + 2) /\ p \in 1..n
    BY <1>1, <2>1
  <2>3. c \in Characters /\ PlainText(c) \in Outputs
    BY <1>1, <2>2, ElementOfSeq, OutputKinds
  <2> HIDE DEF c, quote, p, n
  <2>4. ASSUME NEW before \in Seq(Outputs), Interprets(c, before)
        PROVE  /\ result' \in Seq(Outputs) /\ pendingFieldSpecifier' \in Seq(FieldLetters)
               /\ isEscaped' \in BOOLEAN /\ isUnescapePending' \in BOOLEAN /\ gotEscapedChars' \in BOOLEAN
    <3>1. isEscaped' \in BOOLEAN /\ isUnescapePending' \in BOOLEAN /\ gotEscapedChars' \in BOOLEAN
      BY <2>4 DEF Interprets
    <3>2. WithPending(before) \in Seq(Outputs) /\ Append(WithPending(before), PlainText(c)) \in Seq(Outputs)
      BY <1>2, <2>3
    <3>3. c \in FieldLetters => /\ <<c>> \in Seq(FieldLetters)
                                /\ Append(pendingFieldSpecifier, c) \in Seq(FieldLetters)
      BY <1>1, AppendProperties
    <3>4. <<>> \in Seq(FieldLetters)
      BY EmptySeq
    <3>5. result' \in {before, WithPending(before), Append(WithPending(before), PlainText(c))}
      BY <2>4 DEF Interprets
    <3>6. \/ c \in FieldLetters /\ pendingFieldSpecifier' \in {<<c>>, Append(pendingFieldSpecifier, c)}
          \/ pendingFieldSpecifier' \in {<<>>, pendingFieldSpecifier}
      BY <2>4 DEF Interprets
    <3> QED
      BY <1>1, <3>1, <3>2, <3>3, <3>4, <3>5, <3>6
  <2>5. ASSUME Escapes(c)
        PROVE  /\ result' \in Seq(Outputs) /\ pendingFieldSpecifier' \in Seq(FieldLetters)
               /\ isEscaped' \in BOOLEAN /\ isUnescapePending' \in BOOLEAN /\ gotEscapedChars' \in BOOLEAN
    <3>1. Append(result, quote) \in Seq(Outputs) /\ Append(result, PlainText(c)) \in Seq(Outputs)
      BY <1>1, <1>2, <2>3
    <3>2. result' \in {result, Append(result, quote), Append(result, PlainText(c))}
      BY <2>5 DEF Escapes, quote
    <3>3. pendingFieldSpecifier' = pendingFieldSpecifier /\ isEscaped' = isEscaped
          /\ isUnescapePending' \in BOOLEAN /\ gotEscapedChars' \in BOOLEAN
      BY <1>1, <2>5 DEF Escapes
    <3> QED
      BY <1>1, <3>1, <3>2, <3>3
  <2>6. EndsEscape(result) \in Seq(Outputs)
    BY <1>1, <1>2 DEF EndsEscape, quote
  <2>7. Escapes(c) \/ Interprets(c, EndsEscape(result)) \/ Interprets(c, result)
    BY <1>3 DEF TakesCharacter, c, p
  <2>8. /\ result' \in Seq(Outputs) /\ pendingFieldSpecifier' \in Seq(FieldLetters)
        /\ isEscaped' \in BOOLEAN /\ isUnescapePending' \in BOOLEAN /\ gotEscapedChars' \in BOOLEAN
    BY <1>1, <2>4, <2>5, <2>6, <2>7
  <2> QED
    BY <1>1, <2>1, <2>2, <2>8 DEF FormatTypes, p, n
<1>4. CASE Finishes
  <2>1. p' \in 1..(n + 2)
    BY <1>1, <1>4 DEF Finishes
  <2> QED
    BY <1>1, <1>2, <1>4, <2>1, EmptySeq DEF Finishes, FormatTypes
<1>5. CASE UNCHANGED formatVars
  BY <1>5 DEF formatVars, FormatTypes
<1> QED
  BY <1>3, <1>4, <1>5 DEF FormatNext

\* Once a character has been passed over, only the types are left.
FormatInv == FormatTypes /\ passedOver \in BOOLEAN /\ (passedOver \/ FormatRead)

LEMMA FormatInvInit == FormatInit => FormatInv
  BY FormatReadInit DEF FormatInit, FormatInv, FormatRead

LEMMA FormatInvStep == FormatInv /\ [FormatNext]_formatVars => FormatInv'
<1> SUFFICES ASSUME FormatInv, [FormatNext]_formatVars PROVE FormatInv'
  OBVIOUS
<1>1. FormatTypes'
  BY FormatTypesStep DEF FormatInv
<1>2. passedOver' \in BOOLEAN /\ (passedOver => passedOver')
  BY DEF FormatInv, FormatNext, TakesCharacter, Escapes, Interprets, Finishes, formatVars
<1>3. ~ passedOver' => FormatRead'
  BY <1>2, FormatReadStep DEF FormatInv
<1> QED
  BY <1>1, <1>2, <1>3 DEF FormatInv

\* What the invariant says of the iterator and of the end of a format.
LEMMA FormatInvTypes == FormatInv => FormatTypeOK /\ FormatsAsSpecified
<1> SUFFICES ASSUME FormatInv PROVE FormatTypeOK /\ FormatsAsSpecified
  OBVIOUS
<1>1. FormatTypes /\ passedOver \in BOOLEAN
  BY DEF FormatInv
<1>2. \A i \in DOMAIN pendingFieldSpecifier : pendingFieldSpecifier[i] \in FieldLetters
  BY <1>1, ElementOfSeq, LenProperties DEF FormatTypes
<1>3. FormatTypeOK
  BY <1>1, <1>2 DEF FormatTypes, FormatTypeOK, Outputs
<1>4. FormatsAsSpecified
  BY DEF FormatInv, FormatRead, FormatsAsSpecified
<1> QED
  BY <1>3, <1>4

-----------------------------------------------------------------------------
(* Time as a whole *)

TimeInv == ArithmeticTypes /\ ClockInv /\ CalendarInv /\ FormatInv

\* A step of one part keeps its own invariant and, changing nothing of them, the others.
LEMMA TimeInvStep == TimeInv /\ [TimeNext]_timeVars => TimeInv'
<1> SUFFICES ASSUME TimeInv, [TimeNext]_timeVars PROVE TimeInv'
  OBVIOUS
<1>1. ArithmeticTypes /\ ClockInv /\ CalendarInv /\ FormatInv
  BY DEF TimeInv
<1>2. UNCHANGED arithmeticVars => ArithmeticTypes'
  BY <1>1 DEF arithmeticVars, ArithmeticTypes
<1>3. UNCHANGED clockVars => ClockInv'
  BY <1>1 DEF clockVars, offsetVars, frozenVars, threadVars, ClockInv, ClockTypes, FrozenAsPromised,
              OffsetAsPromised, ThreadInv, Undisturbed, Adds
<1>4. [CalendarNext]_calendarVars => CalendarInv'
  <2>1. CASE CalendarNext
    BY <1>1, <2>1, CalendarInvStep
  <2>2. CASE UNCHANGED calendarVars
    BY <1>1, <2>2 DEF calendarVars, CalendarInv, Given, Converted
  <2> QED
    BY <2>1, <2>2
<1>5. [FormatNext]_formatVars => FormatInv'
  BY <1>1, FormatInvStep
<1>6. CASE (ArithmeticNext \/ ClockNext) /\ UNCHANGED <<calendarVars, formatVars>>
  <2>1. ArithmeticTypes' /\ ClockInv'
    <3>1. CASE ArithmeticNext
      BY <1>1, <1>3, <3>1, ArithmeticTypesStep DEF ArithmeticNext
    <3>2. CASE ClockNext
      BY <1>1, <1>2, <3>2, ClockInvStep DEF ClockNext
    <3> QED
      BY <1>6, <3>1, <3>2
  <2> QED
    BY <1>4, <1>5, <1>6, <2>1 DEF TimeInv
<1>7. CASE CalendarNext /\ UNCHANGED <<arithmeticVars, clockVars, formatVars>>
  BY <1>2, <1>3, <1>4, <1>5, <1>7 DEF TimeInv
<1>8. CASE FormatNext /\ UNCHANGED <<arithmeticVars, clockVars, calendarVars>>
  BY <1>2, <1>3, <1>4, <1>5, <1>8 DEF TimeInv
<1>9. CASE UNCHANGED timeVars
  BY <1>2, <1>3, <1>4, <1>5, <1>9 DEF timeVars, TimeInv
<1> QED
  BY <1>6, <1>7, <1>8, <1>9 DEF TimeNext

\* Values stay in the range of a Vs64, dates on the calendar, and the parser's
\* iterator in its format.
THEOREM TimeTyped == TimeSpec => []TimeTypeOK
<1>1. TimeInit => TimeInv
  BY ArithmeticTypesInit, ClockInvInit, CalendarInvInit, FormatInvInit DEF TimeInit, TimeInv
<1>2. TimeInv => TimeTypeOK
  BY ClockInvTypes, CalendarInvAgrees, FormatInvTypes DEF TimeInv, TimeTypeOK
<1> QED
  BY <1>1, <1>2, TimeInvStep, PTL DEF TimeSpec

\* Whatever is computed, the clock is told, is converted or is parsed: durations and
\* instants lie on one line, the present is as promised, calendar fields become the
\* right numbers and formats the right fields and texts.
THEOREM TimeIsRight == TimeSpec => []TimeHolds
<1>1. TimeInit => TimeInv
  BY ArithmeticTypesInit, ClockInvInit, CalendarInvInit, FormatInvInit DEF TimeInit, TimeInv
<1>2. TimeInv => TimeHolds
  <2> SUFFICES ASSUME TimeInv PROVE TimeHolds
    OBVIOUS
  <2>1. TimeTypeOK /\ ConversionsAgree /\ FormatsAsSpecified
    BY ClockInvTypes, CalendarInvAgrees, FormatInvTypes DEF TimeInv, TimeTypeOK
  <2>2. DurationsAddUp /\ InstantsAreOrdered
    BY DurationsOnALine, InstantsOnALine DEF TimeInv, ArithmeticTypes
  <2>3. PresentAsPromised /\ ReadingsAsPromised
    BY ClockInvPromises DEF TimeInv
  <2> QED
    BY <2>1, <2>2, <2>3 DEF TimeHolds
<1> QED
  BY <1>1, <1>2, TimeInvStep, PTL DEF TimeSpec
=============================================================================
