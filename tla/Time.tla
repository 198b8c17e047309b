-------------------------------- MODULE Time --------------------------------
(***************************************************************************)
(* Time (source/containers/vinstant.cpp) as a whole: the arithmetic of     *)
(* durations and instants with the clock, the calendar's conversions, and  *)
(* the parser of formats.  They share no state; a step is one of one part. *)
(***************************************************************************)
EXTENDS VInstant, VInstantStruct, VInstantFormatter

timeVars == <<arithmeticVars, clockVars, calendarVars, formatVars>>

TimeInit == ArithmeticInit /\ ClockInit /\ CalendarInit /\ FormatInit

TimeNext ==
    \/ (ArithmeticNext \/ ClockNext) /\ UNCHANGED <<calendarVars, formatVars>>
    \/ CalendarNext /\ UNCHANGED <<arithmeticVars, clockVars, formatVars>>
    \/ FormatNext /\ UNCHANGED <<arithmeticVars, clockVars, calendarVars>>

TimeSpec == TimeInit /\ [][TimeNext]_timeVars

-----------------------------------------------------------------------------
\* The values have their types: the range of a Vs64, the fields of a calendar and
\* what the parser reads and appends.
TimeTypeOK == InstantTypeOK /\ CalendarTypeOK /\ FormatTypeOK

\* Time: the values stay in their range, durations and instants fit together, the
\* clock shows what it was told to, and calendar fields and formats are turned into
\* the right numbers and texts (vinstant.cpp).
TimeHolds ==
    /\ TimeTypeOK
    /\ DurationsAddUp /\ InstantsAreOrdered
    /\ PresentAsPromised /\ ReadingsAsPromised
    /\ ConversionsAgree
    /\ FormatsAsSpecified
=============================================================================
