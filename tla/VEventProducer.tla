--------------------------- MODULE VEventProducer ---------------------------
(***************************************************************************)
(* The unix event producer (source/sockets/_unix/veventproducer.cpp): one  *)
(* polling thread asks epoll for events of the monitored sessions and      *)
(* raises a read or a closed event.  Each descriptor is registered one     *)
(* shot: an event disarms it until the reader rearms it.                   *)
(*                                                                         *)
(* The application starts the producer once, updates it from one thread,   *)
(* adds a session when its descriptor is free, and passes a session as     *)
(* closed once its closed event was raised, no later than the call that    *)
(* adds another session with the same descriptor.  A lookup in the map of  *)
(* sessions takes no mutex: one that overlaps an update has any outcome.   *)
(***************************************************************************)
EXTENDS Naturals

CONSTANTS
    EventSessions,      \* the sessions the application ever adds
    Descriptors,        \* the descriptors of their sockets
    DescriptorOf,       \* the descriptor of each session
    NoSession           \* an empty entry of the map

ASSUME ProducerConstants ==
    /\ DescriptorOf \in [EventSessions -> Descriptors]
    /\ NoSession \notin EventSessions

VARIABLES
    started, cancelled,     \* the two flags that Stop() sets
    startStopOwner,         \* who holds startStopMutex: "update", "stop" or "nobody"
    sessions,               \* the map, by descriptor
    epoll,                  \* what epoll knows of each descriptor
    poller,                 \* where the polling thread is
    batch,                  \* the descriptors epoll_wait() returned, to go through
    hungUp,                 \* those of them it returned a hang-up for
    readingSessions, closedSessions,    \* collected from the batch
    connectionState,        \* of each VCommSessionInfo
    life,                   \* what the application knows of each session
    peer,                   \* what the peer has done that was not yet noticed
    updater,                \* where the thread in UpdateSessions() is
    adding,                 \* the sessions it has yet to add
    stopper,                \* where the thread in Stop() is
    raced                   \* history: a lookup has overlapped an update

mapVars == <<sessions, startStopOwner, updater, adding>>
batchVars == <<batch, hungUp, readingSessions, closedSessions>>
appVars == <<life, peer>>
producerVars == <<started, cancelled, mapVars, epoll, poller, batchVars, connectionState,
                  appVars, stopper, raced>>

ProducerInit ==
    /\ started = FALSE /\ cancelled = FALSE
    /\ startStopOwner = "nobody"
    /\ sessions = [d \in Descriptors |-> NoSession]
    /\ epoll = [d \in Descriptors |-> "absent"]
    /\ poller = "unborn"
    /\ batch = {} /\ hungUp = {} /\ readingSessions = {} /\ closedSessions = {}
    /\ connectionState = [s \in EventSessions |-> "Connected"]
    /\ life = [s \in EventSessions |-> "unknown"]
    /\ peer = [s \in EventSessions |-> "silent"]
    /\ updater = "idle" /\ adding = {}
    /\ stopper = "idle"
    /\ raced = FALSE

-----------------------------------------------------------------------------
(* Start() and Stop() *)

Start ==
    /\ startStopOwner = "nobody"
    /\ ~ cancelled /\ ~ started
    /\ poller' = "check"
    /\ started' = TRUE
    /\ UNCHANGED <<cancelled, mapVars, epoll, batchVars, connectionState, appVars, stopper, raced>>

\* The flags are set before the mutex is wanted.
StopCancels ==
    /\ stopper = "idle"
    /\ started /\ ~ cancelled
    /\ started' = FALSE /\ cancelled' = TRUE
    /\ stopper' = "lock"
    /\ UNCHANGED <<mapVars, epoll, poller, batchVars, connectionState, appVars, raced>>

\* variant: the map is emptied before the polling thread has ended
StopLocksAndClears ==
    /\ stopper = "lock" /\ startStopOwner = "nobody"
    /\ startStopOwner' = "stop"
    /\ sessions' = [d \in Descriptors |-> NoSession]
    /\ stopper' = "join"
    /\ UNCHANGED <<started, cancelled, updater, adding, epoll, poller, batchVars,
                   connectionState, appVars, raced>>

StopLocks ==
    /\ stopper = "lock" /\ startStopOwner = "nobody"
    /\ startStopOwner' = "stop"
    /\ stopper' = "join"
    /\ UNCHANGED <<started, cancelled, sessions, updater, adding, epoll, poller, batchVars,
                   connectionState, appVars, raced>>

\* join_all() has returned.
StopClears ==
    /\ stopper = "join" /\ poller = "ended"
    /\ sessions' = [d \in Descriptors |-> NoSession]
    /\ startStopOwner' = "nobody"
    /\ stopper' = "stopped"
    /\ UNCHANGED <<started, cancelled, updater, adding, epoll, poller, batchVars, connectionState,
                   appVars, raced>>

-----------------------------------------------------------------------------
(* UpdateSessions() and ReArmSession() *)

\* The sessions the application may add: nobody else has their descriptor, or
\* it is closed in the same call.
MayAdd(new, closed) ==
    /\ \A s \in new : life[s] = "unknown"
    /\ \A s \in closed : life[s] = "reported"
    /\ \A s \in new : \A o \in EventSessions \ {s} :
          DescriptorOf[o] = DescriptorOf[s] => o \notin new /\ (life[o] \in {"unknown", "gone"} \/ o \in closed)

\* variant: the closed sessions are erased after the new ones were refused
EraseLast(closed) == UNCHANGED sessions

\* The closed sessions leave the map first, by descriptor.
EraseClosed(closed) ==
    sessions' = [d \in Descriptors |->
        IF \E s \in closed : DescriptorOf[s] = d THEN NoSession ELSE sessions[d]]

\* The tests, before the mutex.  After a Stop() the call throws or returns.
UpdateTests ==
    /\ updater = "idle"
    /\ started /\ ~ cancelled
    /\ updater' = "tested"
    /\ UNCHANGED <<started, cancelled, startStopOwner, sessions, adding, epoll, poller, batchVars,
                   connectionState, appVars, stopper, raced>>

\* The mutex, and the erasing.
UpdateLocks(new, closed) ==
    /\ updater = "tested" /\ startStopOwner = "nobody"
    /\ new \cup closed # {} /\ MayAdd(new, closed)
    /\ startStopOwner' = "update" /\ updater' = "adding"
    /\ EraseClosed(closed)
    /\ adding' = new
    /\ life' = [s \in EventSessions |-> IF s \in new THEN "live"
                                        ELSE IF s \in closed THEN "gone" ELSE life[s]]
    /\ UNCHANGED <<started, cancelled, epoll, poller, batchVars, connectionState, peer, stopper,
                   raced>>

\* emplace() refuses a descriptor that is taken; then epoll is told.
UpdateAdds(s) ==
    LET d == DescriptorOf[s] IN
    /\ s \in adding
    /\ adding' = adding \ {s}
    /\ IF sessions[d] = NoSession
       THEN /\ sessions' = [sessions EXCEPT ![d] = s]
            /\ epoll' = [epoll EXCEPT ![d] = IF @ = "absent" THEN "armed" ELSE @]
       ELSE UNCHANGED <<sessions, epoll>>
    /\ UNCHANGED <<started, cancelled, startStopOwner, updater, poller, batchVars,
                   connectionState, appVars, stopper, raced>>

UpdateEnds ==
    /\ updater = "adding" /\ adding = {}
    /\ startStopOwner' = "nobody" /\ updater' = "idle"
    /\ UNCHANGED <<started, cancelled, sessions, adding, epoll, poller, batchVars,
                   connectionState, appVars, stopper, raced>>

ReArmSession(s) ==
    epoll' = [epoll EXCEPT ![DescriptorOf[s]] = IF @ = "absent" THEN @ ELSE "armed"]

\* The application has read what came in, all of it, and rearms the session.
ReadAndRearm(s) ==
    /\ life[s] = "reading"
    /\ ReArmSession(s)
    /\ life' = [life EXCEPT ![s] = "live"]
    /\ peer' = [peer EXCEPT ![s] = IF @ = "sent" THEN "silent" ELSE @]
    /\ UNCHANGED <<started, cancelled, mapVars, poller, batchVars, connectionState, stopper, raced>>

\* The peer sends, or closes the connection.
PeerActs(s, what) ==
    /\ life[s] \in {"live", "reading"}
    /\ peer[s] # "closed"
    /\ peer' = [peer EXCEPT ![s] = what]
    /\ UNCHANGED <<started, cancelled, mapVars, epoll, poller, batchVars, connectionState,
                   life, stopper, raced>>

-----------------------------------------------------------------------------
(* ListenAndProduceEvents() *)

\* The descriptors with an event for epoll_wait() to return.
Ready == {d \in Descriptors :
            epoll[d] = "armed" /\ \E s \in EventSessions :
                /\ DescriptorOf[s] = d /\ life[s] \in {"live", "reading"}
                /\ peer[s] # "silent"}

\* variant: the outer loop does not look at the cancellation
PollerLoopsForEver ==
    /\ poller = "check"
    /\ poller' = "poll"
    /\ UNCHANGED <<started, cancelled, mapVars, epoll, batchVars, connectionState, appVars,
                   stopper, raced>>

PollerLoops ==
    /\ poller = "check"
    /\ poller' = IF cancelled THEN "ended" ELSE "poll"
    /\ UNCHANGED <<started, cancelled, mapVars, epoll, batchVars, connectionState, appVars,
                   stopper, raced>>

\* epoll_wait() fails: the inner loop is left with no event.
PollFails ==
    /\ poller = "poll"
    /\ poller' = "check"
    /\ UNCHANGED <<started, cancelled, mapVars, epoll, batchVars, connectionState, appVars,
                   stopper, raced>>

\* variant: EPOLLIN, which a hang-up sets too, is tested first
HungUpTestedLast(d) == FALSE

HungUp(d) == \E s \in EventSessions :
                /\ DescriptorOf[s] = d /\ life[s] \in {"live", "reading"}
                /\ peer[s] = "closed"

\* Some events; with none the inner loop asks again, whatever Stop() has done.
Polls(found) ==
    /\ poller = "poll"
    /\ found # {} /\ found \subseteq Ready
    /\ batch' = found
    /\ hungUp' = {d \in found : HungUp(d)}
    /\ epoll' = [d \in Descriptors |-> IF d \in found THEN "disarmed" ELSE epoll[d]]
    /\ poller' = "each"
    /\ UNCHANGED <<started, cancelled, mapVars, readingSessions, closedSessions,
                   connectionState, appVars, stopper, raced>>

\* The mutex is not taken: at() while an update is going on is a data race.
Racing == startStopOwner = "update"

\* One event of the batch: EPOLL_CTL_DEL for a hang-up, then at().
TakesEvent(d) ==
    LET s == sessions[d] IN
    /\ poller = "each" /\ d \in batch
    /\ s # NoSession
    /\ batch' = batch \ {d} /\ hungUp' = hungUp \ {d}
    /\ IF d \in hungUp
       THEN /\ epoll' = [epoll EXCEPT ![d] = "absent"]
            /\ connectionState' = [connectionState EXCEPT ![s] = "Disconnected"]
            /\ closedSessions' = closedSessions \cup {s}
            /\ UNCHANGED readingSessions
       ELSE /\ readingSessions' = readingSessions \cup {s}
            /\ UNCHANGED <<epoll, connectionState, closedSessions>>
    /\ raced' = (raced \/ Racing)
    /\ UNCHANGED <<started, cancelled, mapVars, poller, appVars, stopper>>

\* at() throws, or a raced lookup does worse: nobody catches it, the program ends.
LookupFails(d) ==
    /\ poller = "each" /\ d \in batch
    /\ sessions[d] = NoSession \/ Racing
    /\ poller' = "crashed"
    /\ raced' = (raced \/ Racing)
    /\ UNCHANGED <<started, cancelled, mapVars, epoll, batchVars, connectionState, appVars,
                   stopper>>

\* RaiseReadEvent(), then RaiseClosedEvent(), and the loop goes on.
RaisesEvents ==
    /\ poller = "each" /\ batch = {}
    /\ life' = [s \in EventSessions |-> IF s \in closedSessions THEN "reported"
                                        ELSE IF s \in readingSessions THEN "reading" ELSE life[s]]
    /\ readingSessions' = {} /\ closedSessions' = {}
    /\ poller' = "check"
    /\ UNCHANGED <<started, cancelled, mapVars, epoll, batch, hungUp, connectionState, peer, stopper,
                   raced>>

\* What the polling thread does by itself, and when there are events.
PollerAdvances ==
    \/ PollerLoops \/ RaisesEvents
    \/ \E found \in SUBSET Descriptors : Polls(found)
    \/ \E d \in Descriptors : TakesEvent(d) \/ LookupFails(d)

Update == (\E s \in EventSessions : UpdateAdds(s)) \/ UpdateEnds

ProducerNext ==
    \/ Start \/ StopCancels \/ StopLocks \/ StopClears
    \/ UpdateTests \/ Update
    \/ \E new, closed \in SUBSET EventSessions : UpdateLocks(new, closed)
    \/ \E s \in EventSessions : ReadAndRearm(s)
    \/ \E s \in EventSessions : \E what \in {"sent", "closed"} : PeerActs(s, what)
    \/ PollerAdvances \/ PollFails

\* An epoll_wait() that reports this descriptor, among others.
Reports(d) == \E found \in SUBSET Descriptors : d \in found /\ Polls(found)

(* The threads run; the application reads what it is told to read; epoll's  *)
(* ready list lets no ready descriptor wait for ever.  Nothing makes        *)
(* epoll_wait() fail: with no event the polling thread stays in its inner   *)
(* loop.                                                                    *)
ProducerRuns ==
    /\ WF_producerVars(PollerAdvances) /\ WF_producerVars(Update)
    /\ WF_producerVars(StopLocks) /\ WF_producerVars(StopClears)
    /\ \A s \in EventSessions : WF_producerVars(ReadAndRearm(s))
ProducerFairness == ProducerRuns /\ \A d \in Descriptors : SF_producerVars(Reports(d))

ProducerSpec == ProducerInit /\ [][ProducerNext]_producerVars /\ ProducerFairness

-----------------------------------------------------------------------------
(* Properties *)

\* The producer's state has its types.
ProducerTypeOK ==
    /\ started \in BOOLEAN /\ cancelled \in BOOLEAN /\ raced \in BOOLEAN
    /\ startStopOwner \in {"update", "stop", "nobody"}
    /\ sessions \in [Descriptors -> EventSessions \cup {NoSession}]
    /\ epoll \in [Descriptors -> {"absent", "armed", "disarmed"}]
    /\ poller \in {"unborn", "check", "poll", "each", "ended", "crashed"}
    /\ batch \subseteq Descriptors /\ hungUp \subseteq Descriptors
    /\ readingSessions \subseteq EventSessions /\ closedSessions \subseteq EventSessions
    /\ connectionState \in [EventSessions -> {"Connected", "Disconnected"}]
    /\ life \in [EventSessions -> {"unknown", "live", "reading", "reported", "gone"}]
    /\ peer \in [EventSessions -> {"silent", "sent", "closed"}]
    /\ updater \in {"idle", "tested", "adding"} /\ adding \subseteq EventSessions
    /\ stopper \in {"idle", "lock", "join", "stopped"}

\* The polling thread dies of a lookup that finds nothing only when the lookup
\* overlapped an update (149, 155: at() without startStopMutex).
DiesOnlyOfRace == poller = "crashed" => raced

\* A session UpdateSessions() took in stays monitored under its own descriptor,
\* also when that was another session's before (88-108), until its event is on
\* its way to the application.
NewSessionsMonitored ==
    \A s \in EventSessions : LET d == DescriptorOf[s] IN
        life[s] = "live" /\ startStopOwner = "nobody" /\ ~ cancelled =>
            /\ sessions[d] = s
            /\ epoll[d] = "armed" \/ d \in batch \/ s \in readingSessions \cup closedSessions

\* A hang-up of a monitored session is reported, whatever came in before it
\* (145-158), unless the producer stops or dies.
HangUpReported ==
    []<>(\/ \A s \in EventSessions : life[s] \in {"live", "reading"} => peer[s] # "closed"
         \/ cancelled \/ poller = "crashed")

\* A Stop() that waits for the polling thread returns if the thread is out of epoll_wait()
\* or there is an event to get it out: nothing else makes it look at the cancellation
\* (125-137).  A Stop() that comes when there is none waits until there is one.
StopReturnsIfEvents ==
    stopper = "join" /\ (poller # "poll" \/ Ready # {}) ~> stopper # "join" \/ poller = "crashed"
=============================================================================
