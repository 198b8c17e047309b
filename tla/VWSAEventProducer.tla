------------------------ MODULE VWSAEventProducer ------------------------
(***************************************************************************)
(* The Windows event producer (source/sockets/_win/vwsaeventproducer.cpp): *)
(* the sessions of one list are divided among polling threads, and         *)
(* UpdateSessions() pauses these, changes the list, divides it again and   *)
(* lets them go on.  The pause is a barrier of three signals: the wait     *)
(* token, the abort event, and a join event of each thread that the thread *)
(* sets once when it pauses and once when it goes on.                      *)
(*                                                                         *)
(* A wait for join events may time out, and then goes on as if they were   *)
(* all set.  The list is its length and a version; setting or resetting an *)
(* event never fails.  One thread updates, once at a time, and one stops.  *)
(***************************************************************************)
EXTENDS Integers, Sequences, FiniteSets

CONSTANTS
    PollingThreadSlots,             \* identities of polling threads, used once each
    minimumPollingThreads,
    maximumEventsPerPollingThread,
    MaxSessions, MaxUpdates         \* bounds of a run

ASSUME PollingConstants ==
    /\ IsFiniteSet(PollingThreadSlots) /\ PollingThreadSlots = 1..Cardinality(PollingThreadSlots)
    /\ minimumPollingThreads <= Cardinality(PollingThreadSlots)
    /\ minimumPollingThreads \in Nat \ {0} /\ maximumEventsPerPollingThread \in Nat \ {0}
    /\ MaxSessions \in Nat /\ MaxUpdates \in Nat

VARIABLES
    wsaStarted, wsaCancelled,       \* Stop()'s flags
    listLength, version,            \* the list of sessions
    waitFlag,                       \* the wait token says wait
    abortIOWaitEvent,
    pollingThreads,                 \* the slots of the current threads, in order
    offset, number,                 \* the share of each slot
    retired,                        \* the slots whose own cancellation is set
    join,                           \* the join event of each slot
    at,                             \* where each polling thread is
    refresh, synced,                \* refreshSessionsList, isNewThreadSynchronized
    local,                          \* what it copied: version, offset, number
    updating,                       \* where UpdateSessions() is
    stopping,                       \* where Stop() is
    trust                           \* history: since the last update that found every
                                    \* thread paused, no wait has timed out

shares == <<pollingThreads, offset, number>>
flags == <<wsaStarted, wsaCancelled, waitFlag, abortIOWaitEvent>>
threadVars == <<at, refresh, synced, local>>
wsaVars == <<flags, listLength, version, shares, retired, join, threadVars, updating, stopping, trust>>

None == [version |-> -1, offset |-> 0, number |-> 0]
InSlots(v) == [t \in PollingThreadSlots |-> v]

WSAInit ==
    /\ wsaStarted = FALSE /\ wsaCancelled = FALSE
    /\ listLength = 0 /\ version = 0
    /\ waitFlag = FALSE /\ abortIOWaitEvent = FALSE
    /\ pollingThreads = <<>> /\ offset = InSlots(0) /\ number = InSlots(0)
    /\ retired = {} /\ join = InSlots(FALSE)
    /\ at = InSlots("unborn") /\ refresh = InSlots(TRUE) /\ synced = InSlots(FALSE)
    /\ local = InSlots(None)
    /\ updating = "idle" /\ stopping = "idle" /\ trust = FALSE

Current == {pollingThreads[i] : i \in DOMAIN pollingThreads}

WSAStart ==
    /\ ~ wsaStarted /\ ~ wsaCancelled
    /\ wsaStarted' = TRUE
    /\ pollingThreads' = [i \in 1..minimumPollingThreads |-> i]
    /\ at' = [t \in PollingThreadSlots |-> IF t <= minimumPollingThreads THEN "loop" ELSE "unborn"]
    /\ UNCHANGED <<wsaCancelled, waitFlag, abortIOWaitEvent, listLength, version, offset, number,
                   retired, join, refresh, synced, local, updating, stopping, trust>>

-----------------------------------------------------------------------------
(* UpdateSessions() *)

UpdateFrame == UNCHANGED <<wsaStarted, wsaCancelled, threadVars, stopping>>

\* The mutex, and step 1: the wait token, then the abort event.
Pause ==
    /\ updating = "idle" /\ stopping \in {"idle", "lock"}
    /\ wsaStarted /\ ~ wsaCancelled /\ version < MaxUpdates
    /\ waitFlag' = TRUE
    /\ updating' = "abort"
    /\ UNCHANGED <<abortIOWaitEvent, listLength, version, shares, retired, join, trust>> /\ UpdateFrame

SetAbortIOWaitEvent ==
    /\ updating = "abort"
    /\ abortIOWaitEvent' = TRUE
    /\ updating' = "pausing"
    /\ UNCHANGED <<waitFlag, listLength, version, shares, retired, join, trust>> /\ UpdateFrame

IsPaused(t) == at[t] \in {"paused", "ended"}

\* Bound: until an update has found all threads paused, and after the first update,
\* a wait times out only for threads that may never set their join events.
MayNeverJoin(t) ==
    at[t] \in {"ended"} \cup (IF waitFlag THEN {"sync", "paused"} ELSE {"loop", "io", "events"})
MayTimeOut == trust \/ version = 0 \/ \A t \in Current : join[t] \/ MayNeverJoin(t)

\* Steps 2 and 7: all the join events are set, or the wait times out.
waitForAllJoinEvents(from, to) ==
    /\ updating = from /\ updating' = to
    /\ \/ /\ \A t \in Current : join[t]
          /\ trust' = IF from = "pausing" THEN \A t \in Current : IsPaused(t) ELSE trust
       \/ /\ MayTimeOut /\ \E t \in Current : ~ join[t]
          /\ trust' = FALSE
    /\ UNCHANGED <<waitFlag, abortIOWaitEvent, listLength, version, shares, retired, join>>
    /\ UpdateFrame

\* Step 3: any number of sessions leaves, any number comes.
ChangeList(n) ==
    /\ updating = "change"
    /\ listLength' = n /\ version' = version + 1
    /\ updating' = "divide"
    /\ UNCHANGED <<waitFlag, abortIOWaitEvent, shares, retired, join, trust>> /\ UpdateFrame

\* Step 4: the number of groups, and the share of the i-th.
Groups(n) ==
    LET max == maximumEventsPerPollingThread
        required == (n \div max) + (IF n % max > 0 THEN 1 ELSE 0)
    IN IF required < minimumPollingThreads THEN minimumPollingThreads ELSE required

Least(a, b) == IF a < b THEN a ELSE b
Share(n, groups, i) == (n \div groups) + (IF i <= n % groups THEN 1 ELSE 0)
OffsetOf(n, groups, i) == (i - 1) * (n \div groups) + Least(i - 1, n % groups)

ResetJoinEvents(kept) == [t \in PollingThreadSlots |-> IF t \in kept THEN FALSE ELSE join[t]]

\* Steps 4 to 6: the last threads retire or new ones start, all with new shares.
Redistribute ==
    LET groups == Groups(listLength)
        born == {t \in PollingThreadSlots : at[t] # "unborn"}
        had == Len(pollingThreads)
        now == [i \in 1..groups |-> IF i <= had THEN pollingThreads[i] ELSE Cardinality(born) + i - had]
        place(t) == CHOOSE i \in 1..groups : now[i] = t
        kept == {now[i] : i \in 1..groups} \cap born
        new == {now[i] : i \in 1..groups} \ born
    IN
    /\ updating = "divide"
    /\ new \subseteq PollingThreadSlots
    /\ pollingThreads' = now
    /\ offset' = [t \in PollingThreadSlots |->
          IF t \in kept \cup new THEN OffsetOf(listLength, groups, place(t)) ELSE offset[t]]
    /\ number' = [t \in PollingThreadSlots |->
          IF t \in kept \cup new THEN Share(listLength, groups, place(t)) ELSE number[t]]
    /\ retired' = retired \cup (Current \ kept)
    /\ join' = ResetJoinEvents(kept)
    /\ at' = [t \in PollingThreadSlots |-> IF t \in new THEN "loop" ELSE at[t]]
    /\ updating' = "unabort"
    /\ UNCHANGED <<flags, listLength, version, refresh, synced, local, stopping, trust>>

\* Step 7: the abort event is reset, then the token continues.
ResetAbortIOWaitEvent ==
    /\ updating = "unabort"
    /\ abortIOWaitEvent' = FALSE
    /\ updating' = "continue"
    /\ UNCHANGED <<waitFlag, listLength, version, shares, retired, join, trust>> /\ UpdateFrame

\* variant: Continue() is forgotten
ContinueForgotten == UNCHANGED waitFlag
Continue == waitFlag' = FALSE

ContinueThreads ==
    /\ updating = "continue"
    /\ Continue
    /\ updating' = "resuming"
    /\ UNCHANGED <<abortIOWaitEvent, listLength, version, shares, retired, join, trust>> /\ UpdateFrame

\* variant: the last reset of the join events is forgotten
FinalResetForgotten == UNCHANGED join
FinalReset == join' = [t \in PollingThreadSlots |-> IF t \in Current THEN FALSE ELSE join[t]]

\* The mutex is released.
UpdateReturns ==
    /\ updating = "reset"
    /\ FinalReset
    /\ updating' = "idle"
    /\ UNCHANGED <<waitFlag, abortIOWaitEvent, listLength, version, shares, retired, trust>>
    /\ UpdateFrame

UpdateSessions ==
    \/ SetAbortIOWaitEvent \/ waitForAllJoinEvents("pausing", "change")
    \/ (\E n \in 0..MaxSessions : ChangeList(n)) \/ Redistribute
    \/ ResetAbortIOWaitEvent \/ ContinueThreads
    \/ waitForAllJoinEvents("resuming", "reset") \/ UpdateReturns

-----------------------------------------------------------------------------
(* Stop() *)

WSAStopCancels ==
    /\ stopping = "idle" /\ wsaStarted
    /\ wsaStarted' = FALSE /\ wsaCancelled' = TRUE
    /\ stopping' = "lock"
    /\ UNCHANGED <<waitFlag, abortIOWaitEvent, listLength, version, shares, retired, join, threadVars,
                   updating, trust>>

WSAStopLocks ==
    /\ stopping = "lock" /\ updating = "idle"
    /\ retired' = retired \cup Current
    /\ abortIOWaitEvent' = TRUE
    /\ stopping' = "join"
    /\ UNCHANGED <<wsaStarted, wsaCancelled, waitFlag, listLength, version, shares, join, threadVars,
                   updating, trust>>

WSAStopReturns ==
    /\ stopping = "join" /\ \A t \in Current : at[t] = "ended"
    /\ pollingThreads' = <<>> /\ listLength' = 0
    /\ stopping' = "stopped"
    /\ UNCHANGED <<flags, version, offset, number, retired, join, threadVars, updating, trust>>

-----------------------------------------------------------------------------
(* ListenAndProduceEvents(), in the polling thread t *)

ThreadFrame == UNCHANGED <<flags, listLength, version, shares, retired, updating, stopping, trust>>
Goes(t, from, to) == at[t] = from /\ at' = [at EXCEPT ![t] = to]
threadCancelled(t) == wsaCancelled \/ t \in retired

\* The head of the loop: ends, copies its share, or waits for events.
Loops(t) ==
    /\ Goes(t, "loop", IF threadCancelled(t) THEN "exit" ELSE IF refresh[t] THEN "copying" ELSE "io")
    /\ UNCHANGED <<refresh, synced, local, join>> /\ ThreadFrame

\* Its share of the list, between two looks at the list. A thread cancelled meanwhile ends.
Copies(t) ==
    /\ Goes(t, "copying", IF threadCancelled(t) THEN "exit" ELSE IF synced[t] THEN "io" ELSE "sync")
    /\ refresh' = [refresh EXCEPT ![t] = FALSE]
    /\ local' = [local EXCEPT ![t] = [version |-> version, offset |-> offset[t], number |-> number[t]]]
    /\ UNCHANGED <<synced, join>> /\ ThreadFrame

\* A new thread waits until it may go on, and says that it does.
Synchronizes(t) ==
    /\ Goes(t, "sync", "io")
    /\ ~ waitFlag
    /\ synced' = [synced EXCEPT ![t] = TRUE]
    /\ join' = [join EXCEPT ![t] = TRUE]
    /\ UNCHANGED <<refresh, local>> /\ ThreadFrame

\* A socket of its share has an event, and the abort event was not set yet.
FindsEvents(t) ==
    /\ local[t].number > 0 /\ ~ threadCancelled(t)
    /\ ~ abortIOWaitEvent
    /\ Goes(t, "io", "events")
    /\ UNCHANGED <<refresh, synced, local, join>> /\ ThreadFrame

\* The events are raised, which takes its time.
RaisesTheEvents(t) ==
    /\ Goes(t, "events", "loop")
    /\ UNCHANGED <<refresh, synced, local, join>> /\ ThreadFrame

\* The wait ends with the abort event, or with a cancelled thread.
StopsWaiting(t) ==
    /\ Goes(t, "io", IF threadCancelled(t) THEN "exit" ELSE "joining")
    /\ threadCancelled(t) \/ abortIOWaitEvent
    /\ UNCHANGED <<refresh, synced, local, join>> /\ ThreadFrame

\* The wait fails: the thread ends.
WaitFails(t) ==
    /\ Goes(t, "io", "exit")
    /\ UNCHANGED <<refresh, synced, local, join>> /\ ThreadFrame

Joins(t) ==
    /\ Goes(t, "joining", "paused")
    /\ join' = [join EXCEPT ![t] = TRUE]
    /\ UNCHANGED <<refresh, synced, local>> /\ ThreadFrame

WakesUp(t) ==
    /\ Goes(t, "paused", "resumed")
    /\ ~ waitFlag
    /\ UNCHANGED <<refresh, synced, local, join>> /\ ThreadFrame

GoesOn(t) ==
    /\ Goes(t, "resumed", "loop")
    /\ join' = [join EXCEPT ![t] = TRUE]
    /\ refresh' = [refresh EXCEPT ![t] = TRUE]
    /\ UNCHANGED <<synced, local>> /\ ThreadFrame

Exits(t) ==
    /\ Goes(t, "exit", "ended")
    /\ join' = [join EXCEPT ![t] = TRUE]
    /\ UNCHANGED <<refresh, synced, local>> /\ ThreadFrame

PollingThread(t) ==
    \/ Loops(t) \/ Copies(t) \/ Synchronizes(t) \/ FindsEvents(t) \/ RaisesTheEvents(t)
    \/ StopsWaiting(t) \/ WaitFails(t) \/ Joins(t) \/ WakesUp(t) \/ GoesOn(t) \/ Exits(t)

WSANext ==
    \/ WSAStart \/ Pause \/ UpdateSessions
    \/ WSAStopCancels \/ WSAStopLocks \/ WSAStopReturns
    \/ \E t \in PollingThreadSlots : PollingThread(t)

\* The threads run.
WSAFairness ==
    /\ WF_wsaVars(UpdateSessions) /\ WF_wsaVars(WSAStopLocks) /\ WF_wsaVars(WSAStopReturns)
    /\ \A t \in PollingThreadSlots : WF_wsaVars(PollingThread(t))

WSASpec == WSAInit /\ [][WSANext]_wsaVars /\ WSAFairness

-----------------------------------------------------------------------------
(* Properties *)

\* The Windows producer's state has its types.
WSATypeOK ==
    /\ flags \in BOOLEAN \X BOOLEAN \X BOOLEAN \X BOOLEAN
    /\ listLength \in 0..MaxSessions /\ version \in 0..MaxUpdates
    /\ pollingThreads \in Seq(PollingThreadSlots)
    /\ offset \in [PollingThreadSlots -> Nat] /\ number \in [PollingThreadSlots -> Nat]
    /\ retired \subseteq PollingThreadSlots
    /\ join \in [PollingThreadSlots -> BOOLEAN]
    /\ at \in [PollingThreadSlots -> {"unborn", "loop", "copying", "sync", "io", "events", "joining",
                                      "paused", "resumed", "exit", "ended"}]
    /\ refresh \in [PollingThreadSlots -> BOOLEAN] /\ synced \in [PollingThreadSlots -> BOOLEAN]
    /\ updating \in {"idle", "abort", "pausing", "change", "divide", "unabort", "continue",
                     "resuming", "reset"}
    /\ stopping \in {"idle", "lock", "join", "stopped"}
    /\ trust \in BOOLEAN

\* Once an update has found every thread paused, and until a wait times out, a
\* set join event in step 2 is of a thread that has paused for this update: the
\* list is not changed under a thread that reads it (176-193).
JoinMeansPaused ==
    /\ trust /\ updating = "pausing" => \A t \in Current : join[t] => IsPaused(t)
    /\ trust /\ updating \in {"change", "divide"} => \A t \in Current : IsPaused(t)

\* The share a thread works on, or is about to copy.
WorksOn(t) == IF refresh[t] THEN [version |-> version, offset |-> offset[t], number |-> number[t]]
              ELSE local[t]

\* After such an update every session of the new list is in the share of exactly
\* one thread, which works on it or is about to copy it, and no share is larger
\* than a thread can wait for (212-320).
EverySessionHasItsThread ==
    trust /\ updating = "idle" /\ ~ wsaCancelled =>
        /\ \A t \in Current : /\ at[t] \notin {"joining", "paused", "resumed"}
                              /\ at[t] \notin {"exit", "ended"} => WorksOn(t).version = version
                              /\ number[t] <= maximumEventsPerPollingThread
        /\ \A i \in 0..listLength - 1 :
              Cardinality({t \in Current : offset[t] <= i /\ i < offset[t] + number[t]}) = 1

\* Both: an update of the list reaches every thread whole, and none while it works.
UpdatesAreWhole == JoinMeansPaused /\ EverySessionHasItsThread

\* Stop() returns: whatever the threads wait for, they see the cancellation
\* (59-92, 428-459, 490).
WSAStopEnds == []<>(stopping \in {"idle", "stopped"})
=============================================================================
