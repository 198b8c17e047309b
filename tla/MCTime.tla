------------------------------- MODULE MCTime -------------------------------
(***************************************************************************)
(* The four parts of Time in one instance.  They share no state: a         *)
(* behaviour picks one at first and runs it, the others stay as they are.  *)
(***************************************************************************)
EXTENDS Time, TLC

\* No thread differs from another.
ThreadSymmetry == Permutations(Threads)

\* The numbers by which durations are multiplied and divided.
MCFactors == {-2, -1, 0, 2, 3}

\* Zones at both ends; instants at the epoch, and before it with and without a fraction.
MCZones == {-12, -1, 0, 5, 14}
MCInstants == {-2500, -2050, -2000, -1500, -1000, -999, -1, 0, 1, 999, 1000, 1001}

VARIABLE part       \* the one that runs

\* A part that does not run has one initial state.
Init ==
    /\ part \in {"arithmetic", "clock", "calendar", "format"}
    /\ part # "calendar" => given = [offset |-> 0]
    /\ part # "format" => mFormatSpecifier = <<>>
    /\ TimeInit

PartNext ==
    \/ part = "arithmetic" /\ ArithmeticNext /\ UNCHANGED <<calendarVars, formatVars>>
    \/ part = "clock" /\ ClockNext /\ UNCHANGED <<calendarVars, formatVars>>
    \/ part = "calendar" /\ CalendarNext /\ UNCHANGED <<arithmeticVars, clockVars, formatVars>>
    \/ part = "format" /\ FormatNext /\ UNCHANGED <<arithmeticVars, clockVars, calendarVars>>

Next == PartNext /\ UNCHANGED part

Spec == Init /\ [][Next]_<<part, timeVars>>
=============================================================================
