------------------------------ MODULE VInstant ------------------------------
(***************************************************************************)
(* Durations, instants and the simulated clock (source/containers/         *)
(* vinstant.cpp, vinstant.h).  Both kinds of value are milliseconds in a   *)
(* Vs64 of which three numbers are special, with the same three meanings:  *)
(* the greatest one is UNSPECIFIED or NEVER_OCCURRED, the one below it and *)
(* the least one are infinite.  The clock is the system's, moved by an     *)
(* offset, or stopped, by static variables that no mutex protects: each    *)
(* read and each write of one is a step of the thread that does it.        *)
(***************************************************************************)
EXTENDS Integers

CONSTANTS
    V_MAX_S64,              \* the greatest Vs64, here a small number
    MaxSystemTime,          \* bound: the system's clock
    MaxOffset,              \* bound: how far the clock is moved
    Factors,                \* what durations are multiplied with and divided by
    Threads                 \* those that read and move the clock

ASSUME RangeAssumption ==
    /\ V_MAX_S64 \in Nat /\ MaxOffset \in Nat /\ MaxSystemTime \in Nat \ {0}
    /\ MaxSystemTime + 2 * MaxOffset < V_MAX_S64 - 1
    /\ Factors \subseteq Int

VARIABLES
    duration, moment,           \* a VDuration and a VInstant
    systemTime,                 \* what _platform_now() returns
    gSimulatedClockOffset,
    gFrozenClockValue,          \* 0: time is not frozen
    pc,                         \* where each thread is,
    argument,                   \*   <<what it was given>> or <<>>,
    mValue,                     \*   and what it has read
    promisedOffset,             \* history: the offset the calls ask for,
    promisedFrozen,             \*   <<the value they freeze time at>> or <<>>,
    offsetStray, frozenStray,   \*   whether they asked for what is not done,
    disturbed,                  \*   the threads whose call others overlap,
    measuredAt                  \*   and the system's time each has read

arithmeticVars == <<duration, moment>>
frozenVars == <<gFrozenClockValue, promisedFrozen, frozenStray>>
offsetVars == <<gSimulatedClockOffset, promisedOffset, offsetStray>>
threadVars == <<pc, argument, mValue, measuredAt>>
clockVars == <<systemTime, offsetVars, frozenVars, threadVars, disturbed>>

V_MIN_S64 == - V_MAX_S64 - 1
Vs64 == V_MIN_S64..V_MAX_S64

\* Results that do not fit are those of the usual processors.
Wrapped(n) == ((n - V_MIN_S64) % (V_MAX_S64 - V_MIN_S64 + 1)) + V_MIN_S64

-----------------------------------------------------------------------------
(* Durations *)

UNSPECIFIED == V_MAX_S64
POSITIVE_INFINITY == V_MAX_S64 - 1
NEGATIVE_INFINITY == V_MIN_S64

Infinite == {POSITIVE_INFINITY, NEGATIVE_INFINITY}
isSpecific(d) == d \notin Infinite \cup {UNSPECIFIED}
isComparable(d) == d # UNSPECIFIED
OtherInfinity(d) == IF d = POSITIVE_INFINITY THEN NEGATIVE_INFINITY ELSE POSITIVE_INFINITY

Negated(d) ==
    IF isSpecific(d) THEN Wrapped(-d) ELSE IF d \in Infinite THEN OtherInfinity(d) ELSE d

Plus(d, forwardOffset) ==
    CASE isSpecific(d) /\ isSpecific(forwardOffset) -> Wrapped(d + forwardOffset)
      [] isSpecific(d) /\ forwardOffset \in Infinite -> forwardOffset
      [] {d, forwardOffset} = Infinite -> 0
      [] OTHER -> d

\* variant: no special case for the difference of an infinity and itself
MinusWithoutZero(d, backwardOffset) ==
    CASE isSpecific(d) /\ isSpecific(backwardOffset) -> Wrapped(d - backwardOffset)
      [] isSpecific(d) /\ backwardOffset \in Infinite -> OtherInfinity(backwardOffset)
      [] OTHER -> d

Minus(d, backwardOffset) ==
    CASE isSpecific(d) /\ isSpecific(backwardOffset) -> Wrapped(d - backwardOffset)
      [] isSpecific(d) /\ backwardOffset \in Infinite -> OtherInfinity(backwardOffset)
      [] d = backwardOffset /\ d \in Infinite -> 0
      [] OTHER -> d

Times(d, multiplier) ==
    CASE isSpecific(d) -> Wrapped(d * multiplier)
      [] ~ isSpecific(d) /\ multiplier = 0 -> 0
      [] d \in Infinite /\ multiplier < 0 -> OtherInfinity(d)
      [] OTHER -> d

\* Division as in C++: towards zero, the remainder with the sign of the dividend.
AbsoluteOf(n) == IF n < 0 THEN -n ELSE n
Quotient(n, divisor) ==
    LET q == AbsoluteOf(n) \div AbsoluteOf(divisor) IN IF n * divisor < 0 THEN -q ELSE q
Remainder(n, divisor) == n - divisor * Quotient(n, divisor)

Divided(d, divisor) ==
    CASE isSpecific(d) /\ divisor # 0 -> Wrapped(Quotient(d, divisor))
      [] isSpecific(d) /\ divisor = 0 -> IF d >= 0 THEN POSITIVE_INFINITY ELSE NEGATIVE_INFINITY
      [] OTHER -> d

Modulo(d, divisor) ==
    IF isSpecific(d) /\ isSpecific(divisor) /\ divisor # 0 THEN Remainder(d, divisor) ELSE d

LesserDuration(d, e) ==
    CASE isSpecific(d) /\ isSpecific(e) -> IF d < e THEN d ELSE e
      [] UNSPECIFIED \in {d, e} -> UNSPECIFIED
      [] UNSPECIFIED \notin {d, e} /\ NEGATIVE_INFINITY \in {d, e} -> NEGATIVE_INFINITY
      [] OTHER -> IF d = POSITIVE_INFINITY THEN e ELSE d

GreaterDuration(d, e) ==
    CASE isSpecific(d) /\ isSpecific(e) -> IF d > e THEN d ELSE e
      [] UNSPECIFIED \in {d, e} -> UNSPECIFIED
      [] UNSPECIFIED \notin {d, e} /\ POSITIVE_INFINITY \in {d, e} -> POSITIVE_INFINITY
      [] OTHER -> IF d = NEGATIVE_INFINITY THEN e ELSE d

AbsoluteDuration(d) ==
    CASE isSpecific(d) -> IF d < 0 THEN Negated(d) ELSE d
      [] d \in Infinite -> POSITIVE_INFINITY
      [] OTHER -> d

-----------------------------------------------------------------------------
(* Instants *)

INFINITE_PAST == NEGATIVE_INFINITY
INFINITE_FUTURE == POSITIVE_INFINITY
NEVER_OCCURRED == UNSPECIFIED

InstantPlus(i, forwardOffset) ==
    CASE isSpecific(i) /\ isSpecific(forwardOffset) -> Wrapped(i + forwardOffset)
      [] isSpecific(i) /\ forwardOffset = NEGATIVE_INFINITY -> INFINITE_PAST
      [] isSpecific(i) /\ forwardOffset = POSITIVE_INFINITY -> INFINITE_FUTURE
      [] OTHER -> i

InstantMinus(i, backwardOffset) ==
    CASE isSpecific(i) /\ isSpecific(backwardOffset) -> Wrapped(i - backwardOffset)
      [] isSpecific(i) /\ backwardOffset = NEGATIVE_INFINITY -> INFINITE_FUTURE
      [] isSpecific(i) /\ backwardOffset = POSITIVE_INFINITY -> INFINITE_PAST
      [] OTHER -> i

\* The difference of two instants that are not both specific is zero.
Between(i, j) == IF isSpecific(i) /\ isSpecific(j) THEN Wrapped(i - j) ELSE 0

bothSpecific(i, j) == isSpecific(i) /\ isSpecific(j)
AtTheEnds(i, j) == (i = INFINITE_PAST /\ isComparable(j)) \/ (j = INFINITE_FUTURE /\ isComparable(i))

Precedes(i, j) == IF bothSpecific(i, j) THEN i < j ELSE i # j /\ AtTheEnds(i, j)
PrecedesOrIs(i, j) == IF bothSpecific(i, j) THEN i <= j ELSE i = j \/ AtTheEnds(i, j)
Follows(i, j) == IF bothSpecific(i, j) THEN i > j ELSE i # j /\ AtTheEnds(j, i)
FollowsOrIs(i, j) == IF bothSpecific(i, j) THEN i >= j ELSE i = j \/ AtTheEnds(j, i)

EarlierInstant(i, j) == IF Precedes(i, j) THEN i ELSE j
LaterInstant(i, j) == IF Follows(i, j) THEN i ELSE j

-----------------------------------------------------------------------------
(* What a thread does with a duration and an instant *)

ArithmeticInit == duration = 0 /\ moment = 0

ChangesDuration ==
    /\ \/ \E d \in Vs64 : duration' \in {d, Plus(duration, d), Minus(duration, d), Modulo(duration, d)}
       \/ \E n \in Factors : duration' \in {Times(duration, n), Divided(duration, n)}
       \/ duration' \in {Negated(duration), AbsoluteDuration(duration)}
    /\ UNCHANGED moment

ChangesInstant ==
    /\ moment' \in {InstantPlus(moment, duration), InstantMinus(moment, duration),
                    INFINITE_PAST, INFINITE_FUTURE, NEVER_OCCURRED}
    /\ UNCHANGED duration

Measures ==
    /\ \E i \in Vs64 : duration' = Between(moment, i)
    /\ UNCHANGED moment

ArithmeticNext == (ChangesDuration \/ ChangesInstant \/ Measures) /\ UNCHANGED clockVars

-----------------------------------------------------------------------------
(* The clock *)

Offsets == (- MaxOffset)..MaxOffset

\* Nothing is promised of a variable while it is being set, and after that until it is
\* stored anew if what was done to it is not what was asked for.
OffsetIsPromised(offset) == promisedOffset' = offset /\ offsetStray' = FALSE
OffsetIsStray == promisedOffset' = 0 /\ offsetStray' = TRUE
FrozenIsPromised(value) == promisedFrozen' = value /\ frozenStray' = FALSE
FrozenIsStray == promisedFrozen' = <<>> /\ frozenStray' = TRUE

ClockInit ==
    /\ systemTime = 1 /\ gSimulatedClockOffset = 0 /\ gFrozenClockValue = 0
    /\ pc = [t \in Threads |-> "idle"] /\ argument = [t \in Threads |-> <<>>]
    /\ mValue = [t \in Threads |-> 0] /\ measuredAt = [t \in Threads |-> 0]
    /\ promisedOffset = 0 /\ promisedFrozen = <<>>
    /\ offsetStray = FALSE /\ frozenStray = FALSE /\ disturbed = {}

\* What setNow() and snapshot() show if nothing is changed meanwhile.
Now == IF gFrozenClockValue = 0 THEN Wrapped(systemTime + gSimulatedClockOffset)
       ELSE gFrozenClockValue
isTimeFrozen == gFrozenClockValue # 0

Ticks ==
    /\ systemTime < MaxSystemTime /\ systemTime' = systemTime + 1
    /\ UNCHANGED <<offsetVars, frozenVars, threadVars, disturbed>>

\* A thread goes on in a call, with what it was given and has read, or returns.
GoesOn(t, place, arg, value) ==
    /\ pc' = [pc EXCEPT ![t] = place] /\ argument' = [argument EXCEPT ![t] = arg]
    /\ mValue' = [mValue EXCEPT ![t] = value]
Returns(t) ==
    /\ GoesOn(t, "idle", <<>>, 0) /\ measuredAt' = [measuredAt EXCEPT ![t] = 0]

\* The others whose calls depend on the offset, or on the frozen value.
WritesOffset(t) == disturbed' = (disturbed \cup {u \in Threads : pc[u] \notin {"idle", "shift"}}) \ {t}
WritesFrozen(t) == disturbed' = (disturbed \cup {u \in Threads : pc[u] = "shift"}) \ {t}

\* setNow() and snapshot(), and setNow() in setSimulatedClockValue(): a look at whether
\* time is frozen; then the frozen value is read once more, or the system's time and
\* after that the offset.
LooksWhetherFrozen(t) ==
    /\ pc[t] \in {"idle", "look"}
    /\ GoesOn(t, IF isTimeFrozen THEN "frozen" ELSE "clock", argument[t], 0)
    /\ UNCHANGED <<systemTime, offsetVars, frozenVars, disturbed, measuredAt>>

ReadsSystemTime(t) ==
    /\ pc[t] = "clock" /\ GoesOn(t, "offset", argument[t], systemTime)
    /\ measuredAt' = [measuredAt EXCEPT ![t] = systemTime]
    /\ UNCHANGED <<systemTime, offsetVars, frozenVars, disturbed>>

Reading(t) == IF pc[t] = "offset" THEN Wrapped(mValue[t] + gSimulatedClockOffset) ELSE gFrozenClockValue

\* What setSimulatedClockValue() measures from while time is frozen is not the time.
EndsReading(t) ==
    /\ pc[t] \in {"offset", "frozen"}
    /\ IF argument[t] = <<>> THEN Returns(t) /\ disturbed' = disturbed \ {t}
       ELSE /\ GoesOn(t, "store", argument[t], Reading(t)) /\ UNCHANGED measuredAt
            /\ disturbed' = IF pc[t] = "frozen" THEN disturbed \cup {t} ELSE disturbed
    /\ UNCHANGED <<systemTime, offsetVars, frozenVars>>

\* setSimulatedClockOffset()
SetsOffset(t, offset) ==
    /\ pc[t] = "idle" /\ gSimulatedClockOffset' = offset
    /\ OffsetIsPromised(offset) /\ WritesOffset(t)
    /\ UNCHANGED <<systemTime, frozenVars, threadVars>>

\* incrementSimulatedClockOffset() reads the offset and stores the sum.
ReadsOffset(t, delta) ==
    /\ pc[t] = "idle" /\ gSimulatedClockOffset + delta \in Offsets
    /\ GoesOn(t, "increment", <<delta>>, gSimulatedClockOffset)
    /\ UNCHANGED <<systemTime, offsetVars, frozenVars, disturbed, measuredAt>>

IncrementsOffset(t) ==
    /\ pc[t] = "increment" /\ Returns(t) /\ WritesOffset(t)
    /\ gSimulatedClockOffset' = mValue[t] + argument[t][1]
    /\ IF t \in disturbed \/ offsetStray THEN OffsetIsStray
       ELSE OffsetIsPromised(promisedOffset + argument[t][1])
    /\ UNCHANGED <<systemTime, frozenVars>>

\* variant: the offset is left where it is
OffsetKept == gSimulatedClockOffset

\* setSimulatedClockValue() puts the offset out of the way,
OffsetWhileSetting == 0

BeginsToSet(t, value) ==
    /\ pc[t] = "idle" /\ GoesOn(t, "look", <<value>>, 0)
    /\ gSimulatedClockOffset' = OffsetWhileSetting
    /\ OffsetIsStray /\ WritesOffset(t)
    /\ UNCHANGED <<systemTime, frozenVars, measuredAt>>

\* reads the present, and stores how far it is from it.
SetsValue(t) ==
    /\ pc[t] = "store" /\ Returns(t) /\ WritesOffset(t)
    /\ Between(argument[t][1], mValue[t]) \in Offsets
    /\ gSimulatedClockOffset' = Between(argument[t][1], mValue[t])
    /\ IF t \in disturbed \/ ~ isSpecific(argument[t][1]) THEN OffsetIsStray
       ELSE OffsetIsPromised(argument[t][1] - measuredAt[t])
    /\ UNCHANGED <<systemTime, frozenVars>>

\* freezeTime() and unfreezeTime()
Freezes(t, value) ==
    /\ pc[t] = "idle" /\ gFrozenClockValue' = value
    /\ IF value = 0 THEN FrozenIsStray ELSE FrozenIsPromised(<<value>>)
    /\ WritesFrozen(t)
    /\ UNCHANGED <<systemTime, offsetVars, threadVars>>

Unfreezes(t) ==
    /\ pc[t] = "idle" /\ gFrozenClockValue' = 0
    /\ FrozenIsPromised(<<>>) /\ WritesFrozen(t)
    /\ UNCHANGED <<systemTime, offsetVars, threadVars>>

\* shiftFrozenTime() reads the frozen value and stores the sum; time that is not
\* frozen is frozen by it.
ReadsFrozenValue(t, delta) ==
    /\ pc[t] = "idle" /\ gFrozenClockValue + delta \in Offsets
    /\ GoesOn(t, "shift", <<delta>>, gFrozenClockValue)
    /\ UNCHANGED <<systemTime, offsetVars, frozenVars, disturbed, measuredAt>>

ShiftsFrozenTime(t) ==
    /\ pc[t] = "shift" /\ Returns(t) /\ WritesFrozen(t)
    /\ gFrozenClockValue' = mValue[t] + argument[t][1]
    /\ LET shifted == promisedFrozen[1] + argument[t][1] IN
           IF t \in disturbed \/ frozenStray \/ promisedFrozen = <<>> \/ shifted = 0 THEN FrozenIsStray
           ELSE FrozenIsPromised(<<shifted>>)
    /\ UNCHANGED <<systemTime, offsetVars>>

ClockNext ==
    /\ \/ Ticks
       \/ \E t \in Threads :
              \/ LooksWhetherFrozen(t) \/ ReadsSystemTime(t) \/ EndsReading(t)
              \/ IncrementsOffset(t) \/ SetsValue(t) \/ Unfreezes(t) \/ ShiftsFrozenTime(t)
              \/ \E d \in Offsets : SetsOffset(t, d) \/ ReadsOffset(t, d) \/ ReadsFrozenValue(t, d)
              \/ \E i \in Offsets \cup {INFINITE_PAST} : BeginsToSet(t, i) \/ Freezes(t, i)
    /\ UNCHANGED arithmeticVars

-----------------------------------------------------------------------------
\* The values have their types.
InstantTypeOK ==
    /\ duration \in Vs64 /\ moment \in Vs64
    /\ systemTime \in 0..MaxSystemTime
    /\ gSimulatedClockOffset \in Vs64 /\ gFrozenClockValue \in Vs64
    /\ pc \in [Threads -> {"idle", "look", "clock", "offset", "frozen", "increment", "store", "shift"}]
    /\ argument \in [Threads -> {<<>>} \cup {<<i>> : i \in Vs64}]
    /\ mValue \in [Threads -> Vs64] /\ measuredAt \in [Threads -> 0..MaxSystemTime]
    /\ promisedOffset \in Int /\ promisedFrozen \in {<<>>} \cup {<<i>> : i \in Vs64}
    /\ offsetStray \in BOOLEAN /\ frozenStray \in BOOLEAN /\ disturbed \subseteq Threads

\* Specific numbers that are still specific after what is done with them.
Fits(n) == n \in (V_MIN_S64 + 1)..(V_MAX_S64 - 2)
Exact(d, e) ==
    /\ isSpecific(d) => Fits(-d)
    /\ isSpecific(e) => Fits(-e)
    /\ isSpecific(d) /\ isSpecific(e) => Fits(d + e) /\ Fits(d - e)

\* Durations form the number line with its two ends: sums, differences, negation,
\* lesser and greater, quotient and remainder fit together, as long as no result
\* leaves the range of the specific values (vinstant.cpp 90-204, 308-356).
DurationsAddUp ==
    \A e \in Vs64 \ {UNSPECIFIED} : LET d == duration IN
        isComparable(d) /\ Exact(d, e) =>
            /\ Plus(d, e) = Plus(e, d)
            /\ Minus(d, e) = Plus(d, Negated(e))
            /\ Times(d, -1) = Negated(d)
            /\ isSpecific(e) => Plus(Minus(d, e), e) = d
            /\ LesserDuration(d, e) = Negated(GreaterDuration(Negated(d), Negated(e)))
            /\ AbsoluteDuration(d) = GreaterDuration(d, Negated(d))
            /\ isSpecific(d) /\ isSpecific(e) /\ e # 0 =>
                   Plus(Times(e, Divided(d, e)), Modulo(d, e)) = d

\* Instants are ordered whatever ends of time they are, NEVER_OCCURRED only by
\* being itself (vinstant.cpp 905-990); moving them by a duration keeps the order, and the
\* difference of two leads from one to the other (591-611).
InstantsAreOrdered ==
    \A j \in Vs64 : LET i == moment  d == duration IN
        /\ Follows(i, j) <=> Precedes(j, i)
        /\ PrecedesOrIs(i, j) <=> Precedes(i, j) \/ i = j
        /\ FollowsOrIs(i, j) <=> Follows(i, j) \/ i = j
        /\ isComparable(i) /\ isComparable(j) =>
               /\ Precedes(i, j) <=> ~ FollowsOrIs(i, j)
               /\ {EarlierInstant(i, j), LaterInstant(i, j)} = {i, j}
        /\ isComparable(d) /\ Exact(i, d) /\ Exact(j, d) =>
               /\ Precedes(i, j) => PrecedesOrIs(InstantPlus(i, d), InstantPlus(j, d))
               /\ InstantMinus(i, d) = InstantPlus(i, Negated(d))
        /\ isSpecific(i) /\ isSpecific(j) /\ Exact(i, j) => InstantPlus(j, Between(i, j)) = i

\* The present is the instant time is frozen at, or else the system's moved by the
\* offset that was asked for last, also when the clock was already moved before it
\* was set (vinstant.cpp 1006-1045), whatever was done while it was frozen and by however
\* many threads.  Excepted is what the calls cannot do: freeze time at zero, shift time
\* that runs, and set the clock to no specific instant or while it is frozen; an increment
\* or a shift between whose read and write another thread writes, which is then lost or
\* undoes what the other did; and the clock while it is being set.
PresentAsPromised ==
    /\ ~ frozenStray =>
           /\ isTimeFrozen <=> promisedFrozen # <<>>
           /\ isTimeFrozen => promisedFrozen = <<Now>>
    /\ ~ frozenStray /\ ~ offsetStray /\ ~ isTimeFrozen => Now = systemTime + promisedOffset

\* A thread that reads the clock (613-620, 993-998) shows such a present, also when others
\* move, freeze and unfreeze time between its reads.  Excepted is time that is unfrozen
\* between the two reads of the frozen value: what is shown is then 0, the epoch.
ReadingsAsPromised ==
    \A t \in Threads :
        /\ pc[t] = "offset" /\ ~ offsetStray => Reading(t) = measuredAt[t] + promisedOffset
        /\ pc[t] = "frozen" /\ ~ frozenStray =>
               IF promisedFrozen = <<>> THEN Reading(t) = 0 ELSE promisedFrozen = <<Reading(t)>>
=============================================================================
