------------------------------- MODULE VLogger -------------------------------
(***************************************************************************)
(* The registry of named loggers (source/toolbox/vlogger.cpp): the map of  *)
(* loggers by their dotted names, the default logger, and the level that   *)
(* the logging macros test first, gMaxActiveLevel.  All of it is under the *)
(* logger mutex but VNamedLogger::setLevel(), which stores the level and   *)
(* only then takes the mutex to adjust the maximum.                        *)
(*                                                                         *)
(* A name is the sequence of its segments, a level a number of which 0     *)
(* is OFF.                                                                 *)
(***************************************************************************)
EXTENDS Naturals, Sequences

CONSTANTS
    LoggerNames,            \* names of loggers, or of what is logged to
    Loggers,                \* the VNamedLogger objects
    NameOf,                 \* the name of each
    AutoLogger,             \* the logger made when there is no default logger
    Levels,
    AutoLevel,              \* INFO, the level it is made with
    LevelSetters,           \* the threads that call setLevel()
    NoLogger                \* a null pointer

ASSUME LoggerConstants ==
    /\ LoggerNames \subseteq Seq(Nat) /\ NameOf \in [Loggers -> LoggerNames]
    /\ AutoLogger \in Loggers /\ NoLogger \notin Loggers
    /\ Levels \subseteq Nat /\ 0 \in Levels /\ AutoLevel \in Levels
    /\ \E all \in Levels : \A l \in Levels : l <= all

VARIABLES
    loggerMap,              \* the registered logger of each name
    level,                  \* mLevel of each logger
    gDefaultLogger,
    gMaxActiveLevel,
    setting                 \* the setLevel() each thread is in: its logger, old and new level

loggerVars == <<loggerMap, level, gDefaultLogger, gMaxActiveLevel, setting>>

NotSetting == <<NoLogger, 0, 0>>

LoggerInit ==
    /\ loggerMap = [n \in LoggerNames |-> NoLogger]
    /\ level \in [Loggers -> Levels]
    /\ gDefaultLogger = NoLogger
    /\ gMaxActiveLevel = 0
    /\ setting = [t \in LevelSetters |-> NotSetting]

-----------------------------------------------------------------------------
(* The maximum *)

\* _recalculateMaxActiveLogLevel(): the highest level of a registered logger.
HighestLevel(map) ==
    LET active == {level[map[n]] : n \in {m \in LoggerNames : map[m] # NoLogger}} \cup {0} IN
    CHOOSE highest \in active : \A l \in active : l <= highest

MaxOnceAdded(new) == IF new > gMaxActiveLevel THEN new ELSE gMaxActiveLevel

MaxOnceRemoved(removed, map) ==
    IF removed >= gMaxActiveLevel THEN HighestLevel(map) ELSE gMaxActiveLevel

\* variant: the level that was lowered becomes the maximum, unsearched
MaxUnsearched(old, new) ==
    IF new > gMaxActiveLevel \/ old >= gMaxActiveLevel THEN new ELSE gMaxActiveLevel

\* _checkMaxActiveLogLevelForChangedLogger()
MaxOnceChanged(old, new) ==
    IF new > gMaxActiveLevel THEN new
    ELSE IF old >= gMaxActiveLevel /\ new < gMaxActiveLevel THEN HighestLevel(loggerMap)
    ELSE gMaxActiveLevel

-----------------------------------------------------------------------------
(* The registry *)

_registerLogger(logger, asDefault) ==
    /\ gDefaultLogger' = IF asDefault \/ gDefaultLogger = NoLogger THEN logger ELSE gDefaultLogger
    /\ loggerMap' = [loggerMap EXCEPT ![NameOf[logger]] = logger]

registerLogger(logger, asDefault) ==
    /\ logger # AutoLogger
    /\ _registerLogger(logger, asDefault)
    /\ gMaxActiveLevel' = MaxOnceAdded(level[logger])
    /\ UNCHANGED <<level, setting>>

\* getDefaultLogger(), or findDefaultLoggerForLevel(): a new logger if there is none.
getDefaultLogger ==
    /\ gDefaultLogger = NoLogger
    /\ \A t \in LevelSetters : setting[t][1] # AutoLogger
    /\ level' = [level EXCEPT ![AutoLogger] = AutoLevel]
    /\ _registerLogger(AutoLogger, TRUE)
    /\ gMaxActiveLevel' = MaxOnceAdded(AutoLevel)
    /\ UNCHANGED setting

\* The logger need not be registered, and the maximum stays.
setDefaultLogger(logger) ==
    /\ gDefaultLogger' = logger
    /\ UNCHANGED <<loggerMap, level, gMaxActiveLevel, setting>>

\* Whatever logger has its name is erased.
deregisterLogger(logger) ==
    /\ gDefaultLogger' = IF gDefaultLogger = logger THEN NoLogger ELSE gDefaultLogger
    /\ loggerMap' = [loggerMap EXCEPT ![NameOf[logger]] = NoLogger]
    /\ gMaxActiveLevel' = MaxOnceRemoved(level[logger], loggerMap')
    /\ UNCHANGED <<level, setting>>

shutdown ==
    /\ gDefaultLogger' = NoLogger
    /\ loggerMap' = [n \in LoggerNames |-> NoLogger]
    /\ gMaxActiveLevel' = 0
    /\ UNCHANGED <<level, setting>>

\* VNamedLogger::setLevel(), called alone or by commandSetLogLevel() for each logger:
\* the level, without a mutex, and then the maximum.
SetsLevel(t, logger, new) ==
    /\ setting[t] = NotSetting
    /\ setting' = [setting EXCEPT ![t] = <<logger, level[logger], new>>]
    /\ level' = [level EXCEPT ![logger] = new]
    /\ UNCHANGED <<loggerMap, gDefaultLogger, gMaxActiveLevel>>

AdjustsMax(t) ==
    /\ setting[t] # NotSetting
    /\ gMaxActiveLevel' = MaxOnceChanged(setting[t][2], setting[t][3])
    /\ setting' = [setting EXCEPT ![t] = NotSetting]
    /\ UNCHANGED <<loggerMap, level, gDefaultLogger>>

LoggerNext ==
    \/ \E l \in Loggers, asDefault \in BOOLEAN : registerLogger(l, asDefault)
    \/ getDefaultLogger \/ shutdown
    \/ \E l \in Loggers : setDefaultLogger(l) \/ deregisterLogger(l)
    \/ \E t \in LevelSetters, l \in Loggers, new \in Levels : SetsLevel(t, l, new)
    \/ \E t \in LevelSetters : AdjustsMax(t)

LoggerSpec == LoggerInit /\ [][LoggerNext]_loggerVars

-----------------------------------------------------------------------------
(* Properties *)

\* The registry has its types.
LoggerTypeOK ==
    /\ loggerMap \in [LoggerNames -> Loggers \cup {NoLogger}]
    /\ level \in [Loggers -> Levels]
    /\ gDefaultLogger \in Loggers \cup {NoLogger}
    /\ gMaxActiveLevel \in Levels
    /\ setting \in [LevelSetters -> (Loggers \cup {NoLogger}) \X Levels \X Levels]

\* _findNamedLoggerFromPathName(): the registered logger with the longest prefix.
FoundFromPathName(path) ==
    LET found == {i \in 1..Len(path) : SubSeq(path, 1, i) \in LoggerNames
                                       /\ loggerMap[SubSeq(path, 1, i)] # NoLogger} IN
    IF found = {} THEN NoLogger
    ELSE loggerMap[SubSeq(path, 1, CHOOSE i \in found : \A j \in found : j <= i)]

\* No message is dropped by the first test of the macros if the logger that its
\* name leads to would log it (589-608, 850-879), whatever threads change levels
\* while loggers come and go, except while a setLevel() is on its way to raise the
\* maximum.
ActiveLevelsPass ==
    \A path \in LoggerNames : LET logger == FoundFromPathName(path) IN
        logger # NoLogger /\ level[logger] > gMaxActiveLevel =>
            \E t \in LevelSetters : setting[t][1] = logger /\ setting[t][3] = level[logger]
=============================================================================
