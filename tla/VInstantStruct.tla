--------------------------- MODULE VInstantStruct ---------------------------
(***************************************************************************)
(* From the fields of a calendar to the offset of an instant and back      *)
(* (source/containers/vinstant.cpp, _unix/vinstant_platform.cpp): the      *)
(* library's own timegm() for the platforms that have none, in hours; the  *)
(* offset of the local time zone, in hours, told by the fields of local    *)
(* time and UTC; and an instant's way through a text, with the system's    *)
(* gmtime() and timegm().                                                  *)
(***************************************************************************)
EXTENDS Integers, FiniteSets

CONSTANTS
    Years, Days, Hours,     \* the years, days of a month and hours of a day looked at,
    Zones,                  \*   time zones, in hours east,
    Instants                \*   and instants, in milliseconds

ASSUME CalendarConstants ==
    /\ Years \subseteq Int /\ Days \subseteq 1..31 /\ Hours \subseteq 0..23
    /\ Zones \subseteq (-23)..23 /\ Instants \subseteq Int

VARIABLES
    given,                  \* a time in UTC: mYear, mMonth, mDay, mHour, or [offset]
    converted               \* what was made of it: [what, result], "nothing" at first

calendarVars == <<given, converted>>

EPOCH_YEAR == 1970

isLeapYear(year) == year % 4 = 0 /\ (year % 100 # 0 \/ year % 400 = 0)

DaysOfMonth(year, month) ==
    CASE month = 2 -> IF isLeapYear(year) THEN 29 ELSE 28
      [] month \in {4, 6, 9, 11} -> 30
      [] OTHER -> 31

Dates ==
    {when \in [mYear : Years, mMonth : 1..12, mDay : Days, mHour : Hours] :
        when.mDay <= DaysOfMonth(when.mYear, when.mMonth)}

-----------------------------------------------------------------------------
(* _timegm_instantStructToMilliseconds() *)

DaysOfYears(years) == 365 * Cardinality(years) + Cardinality({y \in years : isLeapYear(y)})

\* The loop that goes back from the epoch begins with the epoch's own year.
YearDays(year) ==
    IF year >= EPOCH_YEAR THEN DaysOfYears(EPOCH_YEAR..(year - 1)) ELSE - DaysOfYears(year..EPOCH_YEAR)

MonthDays(when) ==
    LET before == 1..(when.mMonth - 1)
        long == {m \in before : DaysOfMonth(when.mYear, m) = 31}
    IN  30 * Cardinality(before) + Cardinality(long)
        - (IF 2 \in before THEN 30 - DaysOfMonth(when.mYear, 2) ELSE 0)

OffsetInHours(when) == 24 * (YearDays(when.mYear) + MonthDays(when) + when.mDay - 1) + when.mHour

-----------------------------------------------------------------------------
(* getLocalOffsetMilliseconds() *)

NextDay(when) ==
    IF when.mDay < DaysOfMonth(when.mYear, when.mMonth) THEN [when EXCEPT !.mDay = @ + 1]
    ELSE IF when.mMonth < 12 THEN [when EXCEPT !.mDay = 1, !.mMonth = @ + 1]
    ELSE [when EXCEPT !.mDay = 1, !.mMonth = 1, !.mYear = @ + 1]

PreviousDay(when) ==
    IF when.mDay > 1 THEN [when EXCEPT !.mDay = @ - 1]
    ELSE IF when.mMonth > 1
    THEN [when EXCEPT !.mDay = DaysOfMonth(when.mYear, when.mMonth - 1), !.mMonth = @ - 1]
    ELSE [when EXCEPT !.mDay = 31, !.mMonth = 12, !.mYear = @ - 1]

\* localtime(): the fields in a zone that many hours east.
LocalFields(utc, zone) ==
    LET hour == utc.mHour + zone
        day == IF hour > 23 THEN NextDay(utc) ELSE IF hour < 0 THEN PreviousDay(utc) ELSE utc
    IN  [day EXCEPT !.mHour = hour % 24]

\* variant: the first day of a month follows no day
LocalIsNextNumber(local, utc) == local.mDay = utc.mDay + 1

LocalIsNextDay(local, utc) == local.mDay = utc.mDay + 1 \/ (local.mDay = 1 /\ utc.mDay > 27)

LocalOffset(local, utc) ==
    CASE local.mDay = utc.mDay -> local.mHour - utc.mHour
      [] local.mDay # utc.mDay /\ LocalIsNextDay(local, utc) -> local.mHour + 24 - utc.mHour
      [] OTHER -> local.mHour - (utc.mHour + 24)

-----------------------------------------------------------------------------
(* getUTCString() and setUTCString() of a specific instant, in milliseconds *)

\* Division of C++, towards zero: the milliseconds have the sign of the instant.
Seconds(offset) == IF offset >= 0 THEN offset \div 1000 ELSE - ((-offset) \div 1000)
Milliseconds(offset) == offset - 1000 * Seconds(offset)

\* "%03d", of which sscanf() takes three characters, a sign among them.
MillisecondsRead(milliseconds) ==
    IF milliseconds > -100 THEN milliseconds ELSE - ((-milliseconds) \div 10)

\* timegm() says by -1 that it has failed.
ReadOffset(seconds, milliseconds) ==
    IF seconds = -1 THEN [failed |-> TRUE] ELSE [offset |-> 1000 * seconds + milliseconds]

-----------------------------------------------------------------------------
CalendarInit ==
    /\ given \in Dates \cup {[offset |-> o] : o \in Instants}
    /\ converted = [what |-> "nothing"]

IsDate == "mYear" \in DOMAIN given

GetsOffset ==
    /\ IsDate /\ UNCHANGED given
    /\ converted' = [what |-> "offset", result |-> OffsetInHours(given)]

GetsLocalOffset(zone) ==
    /\ IsDate /\ UNCHANGED given
    /\ converted' = [what |-> "zone", zone |-> zone,
                     result |-> LocalOffset(LocalFields(given, zone), given)]

WritesAndReads ==
    /\ ~ IsDate /\ UNCHANGED given
    /\ converted' =
           [what |-> "text", result |->
               ReadOffset(Seconds(given.offset), MillisecondsRead(Milliseconds(given.offset)))]

CalendarNext ==
    \/ GetsOffset \/ WritesAndReads
    \/ \E zone \in Zones : GetsLocalOffset(zone)

CalendarSpec == CalendarInit /\ [][CalendarNext]_calendarVars

-----------------------------------------------------------------------------
\* The values have their types.
CalendarTypeOK ==
    /\ given \in Dates \/ (~ IsDate /\ given.offset \in Int)
    /\ converted.what \in {"nothing", "offset", "zone", "text"}

\* Days since the epoch, counted in years that begin in March and in eras of 400.
DaysSinceEpoch(when) ==
    LET year == IF when.mMonth <= 2 THEN when.mYear - 1 ELSE when.mYear
        month == (when.mMonth + 9) % 12
        yearOfEra == year % 400
        dayOfEra == 365 * yearOfEra + yearOfEra \div 4 - yearOfEra \div 100
                    + (153 * month + 2) \div 5 + when.mDay - 1
    IN  146097 * (year \div 400) + dayOfEra - 719468

\* The library's timegm() counts leap days as the calendar has them
\* (vinstant.cpp 386-411), except that it is a year short before the epoch; the
\* zone is told from the fields at every turn of a day, a month and a year (856-902);
\* and an instant is read as it was written (665-679, 707-724), except before the
\* epoch with a fraction of a second or one second before it.
ConversionsAgree ==
    /\ converted.what = "offset" /\ given.mYear >= EPOCH_YEAR =>
           converted.result = 24 * DaysSinceEpoch(given) + given.mHour
    /\ converted.what = "zone" => converted.result = converted.zone
    /\ converted.what = "text" =>
           \/ converted.result = [offset |-> given.offset]
           \/ given.offset < 0 /\ (given.offset % 1000 # 0 \/ given.offset = -1000)
=============================================================================
