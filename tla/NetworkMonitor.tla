-------------------------- MODULE NetworkMonitor --------------------------
(***************************************************************************)
(* The network monitor (source/sockets/networkmonitor.cpp): for each       *)
(* client a bounded history of sessions, and for each session bounded      *)
(* histories of its receiving (Rx) and sending (Tx) transactions.  Each    *)
(* history has a mutex, but adding a Tx transaction takes that of the Rx   *)
(* history.  A session is a number, counted over all clients; a            *)
(* transaction is its number among those of its session and direction.     *)
(*                                                                         *)
(* A session whose owner still has its weak pointer is alive as long as it *)
(* is in a history.                                                        *)
(***************************************************************************)
EXTENDS Naturals, Sequences, SequencesExt

CONSTANTS
    Clients,
    MAX_SESSIONS_HISTORY, MAX_LOGS_HISTORY,
    Monitors,                       \* the threads that use the monitor
    MaxMonitored,                   \* bound: sessions
    FollowedSessions,               \* bound: those whose transactions are followed
    MaxTransactions                 \* bound: transactions of a session and direction

ASSUME HistoryConstants ==
    /\ MAX_SESSIONS_HISTORY \in Nat /\ MAX_SESSIONS_HISTORY > 1
    /\ MAX_LOGS_HISTORY \in Nat /\ MAX_LOGS_HISTORY > 1
    /\ MaxMonitored \in Nat \ {0} /\ MaxTransactions \in Nat
    /\ FollowedSessions \subseteq 1..MaxMonitored

Directions == {"Rx", "Tx"}
SessionNumbers == 1..MaxMonitored

VARIABLES
    monitor,            \* the singleton: "unmade", "made" or "destroyed"
    clientSessions,     \* of each client
    opened,             \* history: the sessions opened for each client since its last clearing
    sessionsOpened,     \* how many there have been
    logs,               \* of each session and direction
    logged,             \* history: how many transactions of each there have been
    accessing           \* each thread's access to logs: what, of which session and direction

monitorVars == <<monitor, clientSessions, opened, sessionsOpened, logs, logged, accessing>>

NoAccess == [what |-> "none", session |-> 1, direction |-> "Rx"]

MonitorInit ==
    /\ monitor = "unmade"
    /\ clientSessions = [c \in Clients |-> <<>>] /\ opened = [c \in Clients |-> <<>>]
    /\ sessionsOpened = 0
    /\ logs = [s \in FollowedSessions |-> [d \in Directions |-> <<>>]]
    /\ logged = [s \in FollowedSessions |-> [d \in Directions |-> 0]]
    /\ accessing = [t \in Monitors |-> NoAccess]

getInstance ==
    /\ monitor = "unmade" /\ monitor' = "made"
    /\ UNCHANGED <<clientSessions, opened, sessionsOpened, logs, logged, accessing>>

destroyInstance ==
    /\ monitor = "made" /\ monitor' = "destroyed"
    /\ clientSessions' = [c \in Clients |-> <<>>] /\ opened' = [c \in Clients |-> <<>>]
    /\ UNCHANGED <<sessionsOpened, logs, logged, accessing>>

\* variant: the limit is tested too late
RetainedLate(list, max, x) == Append(IF Len(list) > max THEN RemoveAt(list, 2) ELSE list, x)

\* A full history loses its second element: the first one stays.
Retained(list, max, x) == Append(IF Len(list) >= max THEN RemoveAt(list, 2) ELSE list, x)

createNetworkSession(c) ==
    /\ monitor = "made" /\ sessionsOpened < MaxMonitored
    /\ sessionsOpened' = sessionsOpened + 1
    /\ clientSessions' = [clientSessions EXCEPT ![c] =
                              Retained(@, MAX_SESSIONS_HISTORY, sessionsOpened + 1)]
    /\ opened' = [opened EXCEPT ![c] = Append(@, sessionsOpened + 1)]
    /\ UNCHANGED <<monitor, logs, logged, accessing>>

\* clearClientLogs() for one client, clearAllLogs() for all.
ClearLogs(cleared) ==
    /\ monitor = "made"
    /\ clientSessions' = [c \in Clients |-> IF c \in cleared THEN <<>> ELSE clientSessions[c]]
    /\ opened' = [c \in Clients |-> IF c \in cleared THEN <<>> ELSE opened[c]]
    /\ UNCHANGED <<monitor, sessionsOpened, logs, logged, accessing>>

-----------------------------------------------------------------------------
(* The transactions of a session *)

\* The mutex an access takes, by its direction, in addRx-, addTx- and get...TransactionLogs().
AddsUnder(a) == "Rx"
TakesMutexOf(a) == IF a.what = "add" THEN AddsUnder(a) ELSE a.direction

Excludes(a, b) ==
    /\ a.what # "none" /\ b.what # "none"
    /\ a.session = b.session /\ TakesMutexOf(a) = TakesMutexOf(b)

BeginsAccess(t, s, d, what) ==
    LET a == [what |-> what, session |-> s, direction |-> d] IN
    /\ s <= sessionsOpened /\ accessing[t] = NoAccess
    /\ \E c \in Clients : Contains(clientSessions[c], s)
    /\ what = "add" => logged[s][d] < MaxTransactions
    /\ \A u \in Monitors : ~ Excludes(a, accessing[u])
    /\ accessing' = [accessing EXCEPT ![t] = a]
    /\ UNCHANGED <<monitor, clientSessions, opened, sessionsOpened, logs, logged>>

EndsAccess(t) ==
    LET a == accessing[t] IN
    /\ a # NoAccess
    /\ accessing' = [accessing EXCEPT ![t] = NoAccess]
    /\ IF a.what = "add"
       THEN /\ logged' = [logged EXCEPT ![a.session][a.direction] = @ + 1]
            /\ logs' = [logs EXCEPT ![a.session][a.direction] =
                   Retained(@, MAX_LOGS_HISTORY, logged[a.session][a.direction] + 1)]
       ELSE UNCHANGED <<logs, logged>>
    /\ UNCHANGED <<monitor, clientSessions, opened, sessionsOpened>>

MonitorNext ==
    \/ getInstance \/ destroyInstance
    \/ \E c \in Clients : createNetworkSession(c) \/ ClearLogs({c})
    \/ ClearLogs(Clients)
    \/ \E t \in Monitors : EndsAccess(t)
    \/ \E t \in Monitors, s \in FollowedSessions, d \in Directions, what \in {"add", "get"} :
          BeginsAccess(t, s, d, what)

MonitorSpec == MonitorInit /\ [][MonitorNext]_monitorVars

-----------------------------------------------------------------------------
(* Properties *)

\* The network monitor's state has its types.
MonitorTypeOK ==
    /\ monitor \in {"unmade", "made", "destroyed"}
    /\ sessionsOpened \in 0..MaxMonitored
    /\ clientSessions \in [Clients -> Seq(SessionNumbers)] /\ opened \in [Clients -> Seq(SessionNumbers)]
    /\ logs \in [FollowedSessions -> [Directions -> Seq(1..MaxTransactions)]]
    /\ logged \in [FollowedSessions -> [Directions -> 0..MaxTransactions]]
    /\ accessing \in [Monitors -> [what : {"none", "add", "get"}, session : SessionNumbers,
                                   direction : Directions]]

\* The first of what there has been, and the newest, in order and no more than the limit.
FirstAndNewest(list, all, max) ==
    list = IF Len(all) <= max THEN all
           ELSE <<all[1]>> \o SubSeq(all, Len(all) - max + 2, Len(all))

\* A history is never longer than its limit, and it loses neither the newest
\* entries nor the very first (232, 249, 316), through any number of additions.
HistoriesKeepNewest ==
    /\ \A c \in Clients : FirstAndNewest(clientSessions[c], opened[c], MAX_SESSIONS_HISTORY)
    /\ \A s \in FollowedSessions, d \in Directions :
          FirstAndNewest(logs[s][d], [i \in 1..logged[s][d] |-> i], MAX_LOGS_HISTORY)

\* A history of received transactions is never changed while another thread
\* copies or changes it (161-175, 223-238).
RxLogsExclusive ==
    \A t, u \in Monitors :
        t # u /\ accessing[t].what = "add" /\ accessing[u].what # "none"
        /\ accessing[t].session = accessing[u].session
        /\ accessing[t].direction = "Rx" => accessing[u].direction # "Rx"

\* Both: what a history keeps, and that the received ones are read undisturbed.
HistoriesAreWhole == HistoriesKeepNewest /\ RxLogsExclusive
=============================================================================
