----------------------- MODULE VLoggerRepetitionFilter -----------------------
(***************************************************************************)
(* What a named logger does with a message (VNamedLogger::log() in         *)
(* source/toolbox/vlogger.cpp): the level, the filter that counts repeated *)
(* messages, and the limits on stack traces.  All of it is one step under  *)
(* the logger's mutex, but switching the filter on or off.                 *)
(***************************************************************************)
EXTENDS Naturals

CONSTANTS
    LogMessages,        \* each stands for a level, a place and a text
    Filtered,           \* those of a level the logger does not log
    Severe,             \* those of a level that prints a stack trace
    NoMessage,
    MaxLogged           \* bound: how often a message is logged

ASSUME FilterConstants == Filtered \subseteq LogMessages /\ Severe \subseteq LogMessages
                           /\ NoMessage \notin LogMessages

VARIABLES
    mEnabled,           \* the filter is on
    mMessage,           \* the saved message, or NoMessage
    mNumSuppressedOccurrences,
    stack,              \* the VLoggerPrintStackConfig: level, maximum, limit in time, countdown
    timesLogged, emitted,    \* history: how often each message was logged, and came out
    stacks              \* history: the stack traces since the countdown was set

filterVars == <<mEnabled, mMessage, mNumSuppressedOccurrences, stack, timesLogged, emitted, stacks>>

\* configure(): no maximum is 0 here, and -1 in the code, which makes -1 of 0 too.
StackConfigs == [on : BOOLEAN, max : 0..2, timed : BOOLEAN, countdown : 0..2]
StackOff == [on |-> FALSE, max |-> 0, timed |-> FALSE, countdown |-> 0]

FilterInit ==
    /\ mEnabled = TRUE /\ mMessage = NoMessage /\ mNumSuppressedOccurrences = 0
    /\ stack = StackOff
    /\ timesLogged = [m \in LogMessages |-> 0] /\ emitted = [m \in LogMessages |-> 0]
    /\ stacks = 0

setEnabled(enabled) ==
    /\ mEnabled' = enabled
    /\ UNCHANGED <<mMessage, mNumSuppressedOccurrences, stack, timesLogged, emitted, stacks>>

configure(max, timed) ==
    /\ stack' = [on |-> TRUE, max |-> max, timed |-> timed, countdown |-> max]
    /\ stacks' = 0
    /\ UNCHANGED <<mEnabled, mMessage, mNumSuppressedOccurrences, timesLogged, emitted>>

-----------------------------------------------------------------------------
(* One message *)

\* A saved message that waited for a minute comes out, with its count.
TimesOut(late) == mEnabled /\ mNumSuppressedOccurrences > 0 /\ late

\* variant: the count is reset, but nothing comes out when the next message differs
FlushedOnTimeoutOnly(m, late) == TimesOut(late)

\* The repetitions come out before m does.
Flushed(m, late) ==
    \/ TimesOut(late)
    \/ mEnabled /\ mNumSuppressedOccurrences > 0 /\ m # mMessage

Repeats(m, late) == mEnabled /\ m = mMessage /\ ~ TimesOut(late)

\* shouldPrintStack(): what becomes of the configuration, and is there a trace?
PrintsStack(expired) ==
    /\ stack.on
    /\ IF stack.max = 0 THEN ~ stack.timed \/ ~ expired
       ELSE stack.countdown > 0 \/ (stack.timed /\ expired)

TurnsOff(expired) ==
    stack.on /\ ~ PrintsStack(expired) /\ (stack.max = 0 \/ ~ stack.timed)

ResetsCountdown(expired) == stack.on /\ stack.max > 0 /\ stack.timed /\ expired

StackAfter(expired) ==
    IF TurnsOff(expired) THEN StackOff
    ELSE LET countdown == IF ResetsCountdown(expired) THEN stack.max ELSE stack.countdown IN
         [stack EXCEPT !.countdown =
             IF PrintsStack(expired) /\ countdown > 0 THEN countdown - 1 ELSE countdown]

\* log(): first the level; then checkTimeout(); then checkMessage(), and the
\* appenders and the stack trace unless m is a repetition.
log(m, late, expired) ==
    /\ m \notin Filtered
    /\ timesLogged[m] < MaxLogged
    /\ timesLogged' = [timesLogged EXCEPT ![m] = @ + 1]
    /\ emitted' = [x \in LogMessages |->
                     emitted[x] + (IF Flushed(m, late) /\ x = mMessage
                                   THEN mNumSuppressedOccurrences ELSE 0)
                                + (IF x = m /\ ~ Repeats(m, late) THEN 1 ELSE 0)]
    /\ IF ~ mEnabled THEN UNCHANGED <<mMessage, mNumSuppressedOccurrences>>
       ELSE /\ mMessage' = m
            /\ mNumSuppressedOccurrences' =
                  IF Repeats(m, late) THEN mNumSuppressedOccurrences + 1 ELSE 0
    /\ IF Repeats(m, late) \/ m \notin Severe THEN UNCHANGED <<stack, stacks>>
       ELSE /\ stack' = StackAfter(expired)
            /\ stacks' = (IF ResetsCountdown(expired) THEN 0 ELSE stacks)
                         + (IF PrintsStack(expired) /\ stack.max > 0 THEN 1 ELSE 0)
    /\ UNCHANGED mEnabled

FilterNext ==
    \/ \E enabled \in BOOLEAN : setEnabled(enabled)
    \/ \E max \in 0..2, timed \in BOOLEAN : configure(max, timed)
    \/ \E m \in LogMessages, late, expired \in BOOLEAN : log(m, late, expired)

FilterSpec == FilterInit /\ [][FilterNext]_filterVars

-----------------------------------------------------------------------------
(* Properties *)

\* The filter's state has its types.
FilterTypeOK ==
    /\ mEnabled \in BOOLEAN /\ mMessage \in LogMessages \cup {NoMessage}
    /\ mNumSuppressedOccurrences \in Nat
    /\ stack \in StackConfigs /\ stacks \in Nat
    /\ timesLogged \in [LogMessages -> Nat] /\ emitted \in [LogMessages -> Nat]

\* Every message that was logged has come out, alone or in the count of a
\* repetition, or is in the count that the filter holds (1308-1374), also when the
\* filter is switched off and on while it holds one; and no more stack traces come
\* out than the configuration allows (1400-1469).
LoggedIsCounted ==
    /\ \A m \in LogMessages :
          timesLogged[m] = emitted[m] + (IF m = mMessage THEN mNumSuppressedOccurrences ELSE 0)
    /\ stack.max > 0 => stacks <= stack.max
=============================================================================
