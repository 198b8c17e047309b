------------------------ MODULE VEventProducerProofs ------------------------
(***************************************************************************)
(* Proofs about the event producers for unix and for Windows and about the *)
(* subscribers of an event producer, for any sessions, descriptors,        *)
(* handlers and polling threads.                                           *)
(***************************************************************************)
EXTENDS VEventProducer, VCommSessionEventProducer, VWSAEventProducer, FiniteSetTheorems,
        WellFoundedInduction, TLAPS

-----------------------------------------------------------------------------
(* The subscribers *)

\* Who has to hear the event is alive, and has heard it or is about to.
HandlersInv ==
    /\ HandlersTypeOK
    /\ faithful \subseteq alive
    /\ faithful \subseteq called \cup toCall
    /\ raising = "idle" => toCall = {}

LEMMA HandlersInvInit == HandlersInit => HandlersInv
  BY DEF HandlersInit, HandlersInv, HandlersTypeOK

LEMMA HandlersInvStep == HandlersInv /\ [HandlersNext]_handlerVars => HandlersInv'
<1> SUFFICES ASSUME HandlersInv, [HandlersNext]_handlerVars PROVE HandlersInv'
  OBVIOUS
<1> USE DEF HandlersInv, HandlersTypeOK
<1>1. ASSUME NEW h \in HandlerIds, Subscribe(h) PROVE HandlersInv'
  BY <1>1 DEF Subscribe, raiseVars
<1>2. ASSUME NEW h \in HandlerIds, Unsubscribe(h) PROVE HandlersInv'
  BY <1>2 DEF Unsubscribe, raiseVars
<1>3. ASSUME NEW h \in HandlerIds, Expire(h) PROVE HandlersInv'
  BY <1>3 DEF Expire, raiseVars
<1>4. CASE RaiseBegins
  BY <1>4 DEF RaiseBegins, StillAlive
<1>5. ASSUME NEW h \in HandlerIds, Calls(h) PROVE HandlersInv'
  <2>1. CASE h \in alive
    BY <1>5, <2>1 DEF Calls, CallsUnlocked
  <2>2. CASE h \notin alive
    BY <1>5, <2>2 DEF Calls
  <2> QED
    BY <2>1, <2>2
<1>6. CASE WantsToUnsubscribe
  BY <1>6 DEF WantsToUnsubscribe
<1>7. CASE UnsubscribesItself
  BY <1>7 DEF UnsubscribesItself
<1>8. CASE Returns
  BY <1>8 DEF Returns
<1>9. CASE RaiseEnds
  BY <1>9 DEF RaiseEnds
<1>10. CASE UNCHANGED handlerVars
  BY <1>10 DEF handlerVars, raiseVars
<1> QED
  BY <1>1, <1>2, <1>3, <1>4, <1>5, <1>6, <1>7, <1>8, <1>9, <1>10 DEF HandlersNext, Raise

\* The subscribers' state keeps its types.
THEOREM HandlersTypeCorrect == HandlersSpec => []HandlersTypeOK
<1>1. HandlersInv => HandlersTypeOK
  BY DEF HandlersInv
<1> QED
  BY <1>1, HandlersInvInit, HandlersInvStep, PTL DEF HandlersSpec

\* Raising an event reaches every handler that was subscribed when it began and
\* stays so, whatever the others do and whichever of them expire (RaiseReadEvent()
\* and RaiseClosedEvent()).
THEOREM EventsReachSubscribers == HandlersSpec => []SubscribersHearEvents
<1>1. HandlersInv => SubscribersHearEvents
  BY DEF HandlersInv, SubscribersHearEvents
<1> QED
  BY <1>1, HandlersInvInit, HandlersInvStep, PTL DEF HandlersSpec

-----------------------------------------------------------------------------
(* The polling thread and the map of sessions *)

\* The application has handed the session in, and not yet taken it back.
Present(s) == life[s] \in {"live", "reading", "reported"}

\* Where a session can be: what epoll knows of its descriptor follows from it.
Stage(s) == LET d == DescriptorOf[s] IN
    \/ ~ Present(s) /\ s \notin adding /\ s \notin readingSessions /\ s \notin closedSessions
    \/ /\ life[s] = "live" /\ s \in adding
       /\ epoll[d] = "absent" /\ d \notin batch /\ s \notin readingSessions /\ s \notin closedSessions
    \/ /\ life[s] = "live" /\ s \notin adding
       /\ epoll[d] = "armed" /\ d \notin batch /\ s \notin readingSessions /\ s \notin closedSessions
    \/ /\ life[s] = "live" /\ s \notin adding
       /\ epoll[d] = "disarmed" /\ d \in batch /\ s \notin readingSessions /\ s \notin closedSessions
    \/ /\ life[s] = "live" /\ s \notin adding
       /\ epoll[d] = "disarmed" /\ d \notin batch /\ s \in readingSessions /\ s \notin closedSessions
    \/ /\ life[s] = "live" /\ s \notin adding
       /\ epoll[d] = "absent" /\ d \notin batch /\ s \notin readingSessions /\ s \in closedSessions
    \/ /\ life[s] = "reading" /\ s \notin adding
       /\ epoll[d] = "disarmed" /\ d \notin batch /\ s \notin readingSessions /\ s \notin closedSessions
    \/ /\ life[s] = "reported" /\ s \notin adding
       /\ epoll[d] = "absent" /\ d \notin batch /\ s \notin readingSessions /\ s \notin closedSessions

\* No two sessions have the same descriptor at a time, and a descriptor without a
\* session is unknown to epoll.
Descriptive ==
    /\ \A s \in EventSessions : Stage(s)
    /\ \A s, o \in EventSessions :
          DescriptorOf[s] = DescriptorOf[o] /\ Present(s) /\ Present(o) => s = o
    /\ \A d \in Descriptors :
          (\A s \in EventSessions : DescriptorOf[s] = d => ~ Present(s)) =>
              epoll[d] = "absent" /\ d \notin batch

\* The map has the sessions that are present and not still being added.
Mapped ==
    /\ \A d \in Descriptors : sessions[d] # NoSession =>
          DescriptorOf[sessions[d]] = d /\ Present(sessions[d]) /\ sessions[d] \notin adding
    /\ stopper # "stopped" => \A s \in EventSessions :
          Present(s) /\ s \notin adding => sessions[DescriptorOf[s]] = s

\* Who holds the mutex, and where the threads are.
Places ==
    /\ startStopOwner = "update" <=> updater = "adding"
    /\ startStopOwner = "stop" <=> stopper = "join"
    /\ adding # {} => updater = "adding"
    /\ ~ started => cancelled \/ poller = "unborn"
    /\ stopper # "idle" => cancelled
    /\ stopper = "stopped" => poller = "ended"
    /\ poller \in {"unborn", "check", "poll", "ended"} =>
          batch = {} /\ readingSessions = {} /\ closedSessions = {}
    /\ DiesOnlyOfRace

ProducerInv == ProducerTypeOK /\ Descriptive /\ Mapped /\ Places

LEMMA ProducerInvInit == ProducerInit => ProducerInv
<1> SUFFICES ASSUME ProducerInit PROVE ProducerInv
  OBVIOUS
<1> USE DEF ProducerInit
<1>1. \A s \in EventSessions : ~ Present(s) /\ Stage(s)
  BY DEF Present, Stage
<1>2. Descriptive
  BY <1>1 DEF Descriptive
<1>3. Mapped
  BY <1>1 DEF Mapped
<1>4. Places
  BY DEF Places, DiesOnlyOfRace
<1>5. ProducerTypeOK
  BY DEF ProducerTypeOK
<1> QED
  BY <1>2, <1>3, <1>4, <1>5 DEF ProducerInv

\* A step that leaves the sessions and what is known of them as they are keeps
\* what the invariant says of them.
LEMMA SessionsUnchanged ==
    ASSUME ProducerInv,
           UNCHANGED <<sessions, epoll, batchVars, life, adding>>,
           stopper = "stopped" => stopper' = "stopped"
    PROVE  Descriptive' /\ Mapped'
<1>1. UNCHANGED <<sessions, epoll, batch, readingSessions, closedSessions, life, adding>>
  BY DEF batchVars
<1>2. \A s \in EventSessions : (Present(s)' <=> Present(s)) /\ (Stage(s)' <=> Stage(s))
  BY <1>1 DEF Present, Stage
<1>3. Descriptive'
  BY <1>1, <1>2 DEF ProducerInv, Descriptive
<1>4. Mapped'
  <2>1. ASSUME NEW d \in Descriptors, sessions'[d] # NoSession
        PROVE  /\ DescriptorOf[sessions'[d]] = d /\ Present(sessions'[d])
               /\ sessions'[d] \notin adding'
    BY <1>1, <2>1 DEF ProducerInv, Mapped
  <2>2. ASSUME stopper' # "stopped", NEW s \in EventSessions, Present(s)', s \notin adding'
        PROVE  sessions'[DescriptorOf[s]] = s
    BY <1>1, <1>2, <2>2 DEF ProducerInv, Mapped
  <2> QED
    BY <2>1, <2>2, <1>1 DEF Mapped, Present
<1> QED
  BY <1>3, <1>4

-----------------------------------------------------------------------------
\* Start() and Stop().
LEMMA StartStopStep ==
    ASSUME ProducerInv, Start \/ StopCancels \/ StopLocks \/ StopClears
    PROVE  ProducerInv'
<1> USE DEF ProducerInv, ProducerTypeOK
<1>1. CASE Start
  <2>1. Descriptive' /\ Mapped'
    BY <1>1, SessionsUnchanged DEF Start, mapVars, batchVars, appVars
  <2> QED
    BY <1>1, <2>1 DEF Start, mapVars, batchVars, appVars, Places, DiesOnlyOfRace
<1>2. CASE StopCancels
  <2>1. Descriptive' /\ Mapped'
    BY <1>2, SessionsUnchanged DEF StopCancels, mapVars, batchVars, appVars
  <2> QED
    BY <1>2, <2>1 DEF StopCancels, mapVars, batchVars, appVars, Places, DiesOnlyOfRace
<1>3. CASE StopLocks
  <2>1. Descriptive' /\ Mapped'
    BY <1>3, SessionsUnchanged DEF StopLocks, mapVars, batchVars, appVars
  <2> QED
    BY <1>3, <2>1 DEF StopLocks, mapVars, batchVars, appVars, Places, DiesOnlyOfRace
<1>4. CASE StopClears
  <2>1. Descriptive'
    BY <1>4 DEF StopClears, batchVars, appVars, Descriptive, Stage, Present
  <2>2. Mapped'
    BY <1>4 DEF StopClears, Mapped
  <2> QED
    BY <1>4, <2>1, <2>2 DEF StopClears, batchVars, appVars, Places, DiesOnlyOfRace
<1> QED
  BY <1>1, <1>2, <1>3, <1>4

\* UpdateSessions(), but for its map.
LEMMA UpdateFrameStep ==
    ASSUME ProducerInv, UpdateTests \/ UpdateEnds
    PROVE  ProducerInv'
<1> USE DEF ProducerInv, ProducerTypeOK
<1>1. Descriptive' /\ Mapped'
  BY SessionsUnchanged DEF UpdateTests, UpdateEnds, mapVars, batchVars, appVars
<1>2. CASE UpdateTests
  BY <1>1, <1>2 DEF UpdateTests, batchVars, appVars, Places, DiesOnlyOfRace
<1>3. CASE UpdateEnds
  BY <1>1, <1>3 DEF UpdateEnds, batchVars, appVars, Places, DiesOnlyOfRace
<1> QED
  BY <1>2, <1>3

\* The closed sessions leave, and the new ones find their descriptors free.
LEMMA UpdateLocksStep ==
    ASSUME ProducerInv, NEW new \in SUBSET EventSessions, NEW closed \in SUBSET EventSessions,
           UpdateLocks(new, closed)
    PROVE  ProducerInv'
<1> USE DEF ProducerInv, ProducerTypeOK
<1>1. /\ adding = {} /\ adding' = new
      /\ \A s \in new : life[s] = "unknown" /\ life'[s] = "live"
      /\ \A s \in closed : life[s] = "reported" /\ life'[s] = "gone"
      /\ \A s \in EventSessions \ (new \cup closed) : life'[s] = life[s]
      /\ UNCHANGED <<epoll, batchVars, stopper>>
  BY DEF UpdateLocks, MayAdd, Places
<1>2. \A s \in new : \A o \in EventSessions \ {s} :
         DescriptorOf[o] = DescriptorOf[s] =>
             o \notin new /\ (life[o] \in {"unknown", "gone"} \/ o \in closed)
  BY DEF UpdateLocks, MayAdd
<1>3. ProducerTypeOK'
  <2>1. sessions' \in [Descriptors -> EventSessions \cup {NoSession}]
    BY DEF UpdateLocks, EraseClosed
  <2>2. life' \in [EventSessions -> {"unknown", "live", "reading", "reported", "gone"}]
    BY DEF UpdateLocks
  <2> QED
    BY <2>1, <2>2 DEF UpdateLocks, batchVars
<1>4. \A s \in new : ~ Present(s) /\ Present(s)'
  BY <1>1 DEF Present
<1>5. \A s \in closed : Present(s) /\ ~ Present(s)'
  BY <1>1 DEF Present
<1>6. \A s \in EventSessions \ (new \cup closed) : Present(s)' <=> Present(s)
  BY <1>1 DEF Present
<1>7. ASSUME NEW s \in new
      PROVE  epoll[DescriptorOf[s]] = "absent" /\ DescriptorOf[s] \notin batch
  <2> DEFINE d == DescriptorOf[s]
  <2>1. CASE \E o \in EventSessions : DescriptorOf[o] = d /\ Present(o)
    <3>1. PICK o \in EventSessions : DescriptorOf[o] = d /\ Present(o)
      BY <2>1
    <3>2. o # s
      BY <3>1, <1>4
    <3>3. o \in closed
      BY <3>1, <3>2, <1>2 DEF Present
    <3>4. life[o] = "reported" /\ Stage(o)
      BY <3>3, <1>1 DEF Descriptive
    <3> QED
      BY <3>1, <3>4 DEF Stage, Present
  <2>2. CASE ~ \E o \in EventSessions : DescriptorOf[o] = d /\ Present(o)
    BY <2>2, ProducerConstants DEF Descriptive
  <2> QED
    BY <2>1, <2>2
<1>8. ASSUME NEW s \in EventSessions PROVE Stage(s)'
  <2>0. Stage(s)
    BY DEF Descriptive
  <2>1. CASE s \in new
    BY <2>0, <2>1, <1>1, <1>4, <1>7 DEF Stage, batchVars
  <2>2. CASE s \in closed
    BY <2>0, <2>2, <1>1, <1>5, <1>4 DEF Stage, batchVars
  <2>3. CASE s \notin new \cup closed
    BY <2>0, <2>3, <1>1, <1>6 DEF Stage, batchVars, Present
  <2> QED
    BY <2>1, <2>2, <2>3
<1>9. ASSUME NEW s \in EventSessions, NEW o \in EventSessions,
             DescriptorOf[s] = DescriptorOf[o], Present(s)', Present(o)'
      PROVE  s = o
  <2>1. s \notin closed /\ o \notin closed
    BY <1>9, <1>5
  <2>2. ASSUME NEW x \in new, NEW y \in EventSessions, DescriptorOf[x] = DescriptorOf[y],
               y \notin closed, Present(y)'
        PROVE  x = y
    BY <2>2, <1>2, <1>6 DEF Present
  <2>3. CASE s \in new \/ o \in new
    BY <1>9, <2>1, <2>2, <2>3
  <2>4. CASE s \notin new /\ o \notin new
    BY <1>9, <2>1, <2>4, <1>6 DEF Descriptive
  <2> QED
    BY <2>3, <2>4
<1>10. ASSUME NEW d \in Descriptors, \A s \in EventSessions : DescriptorOf[s] = d => ~ Present(s)'
       PROVE  epoll'[d] = "absent" /\ d \notin batch'
  <2>1. CASE \E o \in EventSessions : DescriptorOf[o] = d /\ Present(o)
    <3>1. PICK o \in EventSessions : DescriptorOf[o] = d /\ Present(o)
      BY <2>1
    <3>2. o \in closed
      BY <3>1, <1>10, <1>4, <1>6
    <3>3. life[o] = "reported" /\ Stage(o)
      BY <3>2, <1>1 DEF Descriptive
    <3> QED
      BY <3>1, <3>3, <1>1 DEF Stage, Present, batchVars
  <2>2. CASE ~ \E o \in EventSessions : DescriptorOf[o] = d /\ Present(o)
    BY <2>2, <1>1 DEF Descriptive, batchVars
  <2> QED
    BY <2>1, <2>2
<1>11. Descriptive'
  BY <1>8, <1>9, <1>10 DEF Descriptive
<1>12. Mapped'
  <2>1. ASSUME NEW d \in Descriptors, sessions'[d] # NoSession
        PROVE  /\ DescriptorOf[sessions'[d]] = d /\ Present(sessions[d])'
               /\ sessions'[d] \notin adding'
    <3>1. sessions'[d] = sessions[d] /\ ~ \E s \in closed : DescriptorOf[s] = d
      BY <2>1 DEF UpdateLocks, EraseClosed
    <3>2. DescriptorOf[sessions[d]] = d /\ Present(sessions[d]) /\ sessions[d] \in EventSessions
      BY <2>1, <3>1 DEF Mapped
    <3>3. sessions[d] \notin new /\ sessions[d] \notin closed
      BY <3>1, <3>2, <1>4
    <3> QED
      BY <3>1, <3>2, <3>3, <1>1 DEF Present
  <2>2. ASSUME stopper' # "stopped", NEW s \in EventSessions, Present(s)', s \notin adding'
        PROVE  sessions'[DescriptorOf[s]] = s
    <3>1. s \notin closed /\ s \notin new /\ Present(s)
      BY <2>2, <1>1, <1>5, <1>6
    <3>2. sessions[DescriptorOf[s]] = s
      BY <3>1, <2>2, <1>1 DEF Mapped
    <3>3. ~ \E o \in closed : DescriptorOf[o] = DescriptorOf[s]
      BY <3>1, <1>5 DEF Descriptive
    <3> QED
      BY <3>2, <3>3, ProducerConstants DEF UpdateLocks, EraseClosed
  <2> QED
    BY <2>1, <2>2 DEF Mapped, Present
<1> QED
  BY <1>1, <1>3, <1>11, <1>12 DEF UpdateLocks, Places, DiesOnlyOfRace, batchVars

\* A new session finds its entry empty, and epoll is told of it.
LEMMA UpdateAddsStep ==
    ASSUME ProducerInv, NEW s \in EventSessions, UpdateAdds(s)
    PROVE  ProducerInv'
<1> USE DEF ProducerInv, ProducerTypeOK
<1> DEFINE d == DescriptorOf[s]
<1>1. /\ s \in adding /\ life[s] = "live" /\ Present(s) /\ d \in Descriptors
      /\ epoll[d] = "absent" /\ d \notin batch /\ s \notin readingSessions /\ s \notin closedSessions
  BY ProducerConstants DEF UpdateAdds, Descriptive, Stage, Present
<1>2. sessions[d] = NoSession
  BY <1>1 DEF Mapped, Descriptive
<1>3. /\ adding' = adding \ {s}
      /\ sessions' = [sessions EXCEPT ![d] = s] /\ epoll' = [epoll EXCEPT ![d] = "armed"]
      /\ UNCHANGED <<batch, readingSessions, closedSessions, life, stopper, updater, startStopOwner,
                     poller, started, cancelled, raced>>
  BY <1>1, <1>2 DEF UpdateAdds, batchVars, appVars
<1>4. ProducerTypeOK'
  BY <1>1, <1>3 DEF UpdateAdds, batchVars, appVars
<1>5. \A o \in EventSessions : Present(o)' <=> Present(o)
  BY <1>3 DEF Present
<1>6. ASSUME NEW o \in EventSessions PROVE Stage(o)'
  <2>0. Stage(o)
    BY DEF Descriptive
  <2>1. CASE o = s
    BY <1>1, <1>3, <2>1 DEF Stage
  <2>2. CASE DescriptorOf[o] # d
    BY <2>0, <1>1, <1>3, <1>5, <2>2, ProducerConstants DEF Stage
  <2>3. CASE o # s /\ DescriptorOf[o] = d
    BY <2>0, <1>1, <1>3, <1>5, <2>3 DEF Stage, Descriptive, Present
  <2> QED
    BY <2>1, <2>2, <2>3
<1>7. Descriptive'
  BY <1>1, <1>3, <1>5, <1>6 DEF Descriptive
<1>8. Mapped'
  <2>1. ASSUME NEW e \in Descriptors, sessions'[e] # NoSession
        PROVE  /\ DescriptorOf[sessions'[e]] = e /\ Present(sessions'[e])
               /\ sessions'[e] \notin adding'
    BY <1>1, <1>3, <2>1 DEF Mapped
  <2>2. ASSUME stopper # "stopped", NEW o \in EventSessions, Present(o), o \notin adding'
        PROVE  sessions'[DescriptorOf[o]] = o
    BY <1>1, <1>3, <2>2, ProducerConstants DEF Mapped, Descriptive
  <2> QED
    BY <2>1, <2>2, <1>3 DEF Mapped, Present
<1> QED
  BY <1>3, <1>4, <1>7, <1>8 DEF Places, DiesOnlyOfRace

\* The application reads and rearms, and the peer acts.
LEMMA ApplicationStep ==
    ASSUME ProducerInv, NEW s \in EventSessions,
           ReadAndRearm(s) \/ \E what \in {"sent", "closed"} : PeerActs(s, what)
    PROVE  ProducerInv'
<1> USE DEF ProducerInv, ProducerTypeOK
<1> DEFINE d == DescriptorOf[s]
<1>1. CASE ReadAndRearm(s)
  <2>1. life[s] = "reading" /\ Present(s) /\ d \in Descriptors
        /\ s \notin adding /\ epoll[d] = "disarmed" /\ d \notin batch
        /\ s \notin readingSessions /\ s \notin closedSessions
    <3>1. life[s] = "reading" /\ Stage(s)
      BY <1>1 DEF ReadAndRearm, Descriptive
    <3>2. d \in Descriptors
      BY ProducerConstants
    <3> QED
      BY <3>1, <3>2 DEF Stage, Present
  <2>2. /\ epoll' = [epoll EXCEPT ![d] = "armed"] /\ life' = [life EXCEPT ![s] = "live"]
        /\ UNCHANGED <<started, cancelled, sessions, startStopOwner, updater, adding, poller, batch, hungUp,
                       readingSessions, closedSessions, stopper, raced>>
    BY <1>1, <2>1 DEF ReadAndRearm, ReArmSession, mapVars, batchVars
  <2>3. ProducerTypeOK'
    <3>1. epoll' \in [Descriptors -> {"absent", "armed", "disarmed"}]
      BY <2>1, <2>2
    <3>2. life' \in [EventSessions -> {"unknown", "live", "reading", "reported", "gone"}]
      BY <2>2
    <3>3. peer' \in [EventSessions -> {"silent", "sent", "closed"}]
      BY <1>1 DEF ReadAndRearm
    <3>4. UNCHANGED connectionState
      BY <1>1 DEF ReadAndRearm
    <3> QED
      BY <2>2, <3>1, <3>2, <3>3, <3>4
  <2>4. \A o \in EventSessions : Present(o)' <=> Present(o)
    BY <2>1, <2>2 DEF Present
  <2>5. ASSUME NEW o \in EventSessions PROVE Stage(o)'
    <3>0. Stage(o)
      BY DEF Descriptive
    <3>1. CASE o = s
      BY <2>1, <2>2, <3>1 DEF Stage
    <3>2. CASE DescriptorOf[o] # d
      BY <3>0, <2>1, <2>2, <2>4, <3>2, ProducerConstants DEF Stage
    <3>3. CASE o # s /\ DescriptorOf[o] = d
      BY <3>0, <2>1, <2>2, <2>4, <3>3 DEF Stage, Descriptive, Present
    <3> QED
      BY <3>1, <3>2, <3>3
  <2>6. Descriptive'
    BY <2>1, <2>2, <2>4, <2>5 DEF Descriptive
  <2>7. Mapped'
    <3>1. ASSUME NEW e \in Descriptors, sessions'[e] # NoSession
          PROVE  /\ DescriptorOf[sessions'[e]] = e /\ Present(sessions[e])'
                 /\ sessions'[e] \notin adding'
      BY <2>2, <2>4, <3>1 DEF Mapped
    <3>2. ASSUME stopper' # "stopped", NEW o \in EventSessions, Present(o)', o \notin adding'
          PROVE  sessions'[DescriptorOf[o]] = o
      BY <2>2, <2>4, <3>2 DEF Mapped
    <3> QED
      BY <3>1, <3>2 DEF Mapped, Present
  <2> QED
    BY <2>2, <2>3, <2>6, <2>7 DEF Places, DiesOnlyOfRace
<1>2. ASSUME NEW what \in {"sent", "closed"}, PeerActs(s, what) PROVE ProducerInv'
  <2>1. Descriptive' /\ Mapped'
    BY <1>2, SessionsUnchanged DEF PeerActs, mapVars
  <2> QED
    BY <1>2, <2>1 DEF PeerActs, mapVars, batchVars, Places, DiesOnlyOfRace
<1> QED
  BY <1>1, <1>2

\* The polling thread between two batches.
LEMMA PollerFrameStep ==
    ASSUME ProducerInv, PollerLoops \/ PollFails
    PROVE  ProducerInv'
<1> USE DEF ProducerInv, ProducerTypeOK
<1>1. Descriptive' /\ Mapped'
  BY SessionsUnchanged DEF PollerLoops, PollFails, mapVars, appVars
<1>2. CASE PollerLoops
  BY <1>1, <1>2 DEF PollerLoops, mapVars, batchVars, appVars, Places, DiesOnlyOfRace
<1>3. CASE PollFails
  BY <1>1, <1>3 DEF PollFails, mapVars, batchVars, appVars, Places, DiesOnlyOfRace
<1> QED
  BY <1>2, <1>3

\* A ready descriptor is that of one session, which is armed.
LEMMA PollsStep ==
    ASSUME ProducerInv, NEW found \in SUBSET Descriptors, Polls(found)
    PROVE  ProducerInv'
<1> USE DEF ProducerInv, ProducerTypeOK
<1>1. /\ batch = {} /\ readingSessions = {} /\ closedSessions = {} /\ batch' = found
      /\ epoll' = [d \in Descriptors |-> IF d \in found THEN "disarmed" ELSE epoll[d]]
      /\ UNCHANGED <<started, cancelled, sessions, startStopOwner, updater, adding,
                     readingSessions, closedSessions, life, stopper, raced>>
      /\ poller' = "each"
  BY DEF Polls, mapVars, appVars, Places
<1>2. \A d \in found : epoll[d] = "armed" /\ \E s \in EventSessions :
                           DescriptorOf[s] = d /\ life[s] \in {"live", "reading"}
  BY DEF Polls, Ready
<1>3. \A s \in EventSessions : Present(s)' <=> Present(s)
  BY <1>1 DEF Present
<1>4. ASSUME NEW s \in EventSessions PROVE Stage(s)'
  <2>1. Stage(s) /\ DescriptorOf[s] \in Descriptors
    BY ProducerConstants DEF Descriptive
  <2>2. CASE DescriptorOf[s] \in found
    BY <1>1, <1>2, <1>3, <2>1, <2>2 DEF Stage
  <2>3. CASE DescriptorOf[s] \notin found
    BY <1>1, <1>3, <2>1, <2>3 DEF Stage
  <2> QED
    BY <2>2, <2>3
<1>5. ASSUME NEW d \in Descriptors, \A s \in EventSessions : DescriptorOf[s] = d => ~ Present(s)
      PROVE  epoll'[d] = "absent" /\ d \notin batch'
  <2>1. d \notin found
    BY <1>2, <1>5 DEF Present
  <2> QED
    BY <1>1, <1>5, <2>1 DEF Descriptive
<1>6. Descriptive'
  BY <1>3, <1>4, <1>5 DEF Descriptive
<1>7. Mapped'
  <2>1. ASSUME NEW e \in Descriptors, sessions'[e] # NoSession
        PROVE  /\ DescriptorOf[sessions'[e]] = e /\ Present(sessions[e])'
               /\ sessions'[e] \notin adding'
    BY <1>1, <1>3, <2>1 DEF Mapped
  <2>2. ASSUME stopper' # "stopped", NEW o \in EventSessions, Present(o)', o \notin adding'
        PROVE  sessions'[DescriptorOf[o]] = o
    BY <1>1, <1>3, <2>2 DEF Mapped
  <2> QED
    BY <2>1, <2>2 DEF Mapped, Present
<1>8. ProducerTypeOK'
  BY <1>1 DEF Polls, mapVars, appVars
<1>9. poller # "ended"
  BY DEF Polls
<1> QED
  BY <1>1, <1>6, <1>7, <1>8, <1>9 DEF Polls, Places, DiesOnlyOfRace

\* While the polling thread goes through a batch, the map has the session of each
\* of its descriptors.
LEMMA BatchMapped ==
    ASSUME ProducerInv, poller = "each", NEW d \in batch
    PROVE  \E s \in EventSessions :
              /\ DescriptorOf[s] = d /\ sessions[d] = s /\ life[s] = "live" /\ s \notin adding
              /\ epoll[d] = "disarmed" /\ s \notin readingSessions /\ s \notin closedSessions
<1> USE DEF ProducerInv, ProducerTypeOK
<1>1. d \in Descriptors
  OBVIOUS
<1>2. PICK s \in EventSessions : DescriptorOf[s] = d /\ Present(s)
  BY <1>1 DEF Descriptive
<1>3. /\ life[s] = "live" /\ s \notin adding /\ epoll[d] = "disarmed"
      /\ s \notin readingSessions /\ s \notin closedSessions
  BY <1>2 DEF Descriptive, Stage
<1>4. stopper # "stopped"
  BY DEF Places
<1> QED
  BY <1>2, <1>3, <1>4 DEF Mapped

LEMMA TakesEventStep ==
    ASSUME ProducerInv, NEW d \in Descriptors, TakesEvent(d)
    PROVE  ProducerInv'
<1> USE DEF ProducerInv, ProducerTypeOK
<1>1. poller = "each" /\ d \in batch
  BY DEF TakesEvent
<1>2. PICK s \in EventSessions :
         /\ DescriptorOf[s] = d /\ sessions[d] = s /\ life[s] = "live" /\ s \notin adding
         /\ epoll[d] = "disarmed" /\ s \notin readingSessions /\ s \notin closedSessions
  BY <1>1, BatchMapped
<1>3. /\ batch' = batch \ {d}
      /\ UNCHANGED <<started, cancelled, sessions, startStopOwner, updater, adding, poller,
                     life, stopper>>
      /\ \/ /\ epoll' = [epoll EXCEPT ![d] = "absent"] /\ closedSessions' = closedSessions \cup {s}
            /\ readingSessions' = readingSessions
            /\ connectionState' = [connectionState EXCEPT ![s] = "Disconnected"]
         \/ /\ epoll' = epoll /\ readingSessions' = readingSessions \cup {s}
            /\ closedSessions' = closedSessions /\ connectionState' = connectionState
  BY <1>2 DEF TakesEvent, mapVars, appVars
<1>4. \A o \in EventSessions : Present(o)' <=> Present(o)
  BY <1>3 DEF Present
<1>5. ASSUME NEW o \in EventSessions PROVE Stage(o)'
  <2>0. Stage(o)
    BY DEF Descriptive
  <2>1. CASE o = s
    BY <1>1, <1>2, <1>3, <2>1 DEF Stage
  <2>2. CASE DescriptorOf[o] # d
    BY <2>0, <1>2, <1>3, <1>4, <2>2, ProducerConstants DEF Stage
  <2>3. CASE o # s /\ DescriptorOf[o] = d
    BY <2>0, <1>2, <1>3, <1>4, <2>3 DEF Stage, Descriptive, Present
  <2> QED
    BY <2>1, <2>2, <2>3
<1>6. Descriptive'
  BY <1>2, <1>3, <1>4, <1>5 DEF Descriptive, Present
<1>7. Mapped'
  <2>1. ASSUME NEW e \in Descriptors, sessions'[e] # NoSession
        PROVE  /\ DescriptorOf[sessions'[e]] = e /\ Present(sessions[e])'
               /\ sessions'[e] \notin adding'
    BY <1>3, <1>4, <2>1 DEF Mapped
  <2>2. ASSUME stopper' # "stopped", NEW o \in EventSessions, Present(o)', o \notin adding'
        PROVE  sessions'[DescriptorOf[o]] = o
    BY <1>3, <1>4, <2>2 DEF Mapped
  <2> QED
    BY <2>1, <2>2 DEF Mapped, Present
<1>8. ProducerTypeOK'
  BY <1>2, <1>3 DEF TakesEvent, mapVars, appVars, Racing
<1> QED
  BY <1>1, <1>3, <1>6, <1>7, <1>8 DEF Places, DiesOnlyOfRace

\* A lookup finds nothing only if it overlaps an update.
LEMMA LookupFailsStep ==
    ASSUME ProducerInv, NEW d \in Descriptors, LookupFails(d)
    PROVE  ProducerInv'
<1> USE DEF ProducerInv, ProducerTypeOK
<1>1. poller = "each" /\ d \in batch
  BY DEF LookupFails
<1>2. sessions[d] # NoSession
  BY <1>1, BatchMapped, ProducerConstants
<1>3. Racing
  BY <1>2 DEF LookupFails
<1>4. Descriptive' /\ Mapped'
  BY SessionsUnchanged DEF LookupFails, mapVars, appVars
<1> QED
  BY <1>1, <1>3, <1>4 DEF LookupFails, mapVars, batchVars, appVars, Places, DiesOnlyOfRace, Racing

LEMMA RaisesEventsStep ==
    ASSUME ProducerInv, RaisesEvents
    PROVE  ProducerInv'
<1> USE DEF ProducerInv, ProducerTypeOK
<1>1. /\ poller = "each" /\ batch = {} /\ poller' = "check"
      /\ readingSessions' = {} /\ closedSessions' = {}
      /\ UNCHANGED <<started, cancelled, sessions, startStopOwner, updater, adding, epoll, batch,
                     stopper, raced>>
      /\ \A s \in EventSessions :
            life'[s] = IF s \in closedSessions THEN "reported"
                       ELSE IF s \in readingSessions THEN "reading" ELSE life[s]
  BY DEF RaisesEvents, mapVars
<1>2. ASSUME NEW s \in EventSessions PROVE (Present(s)' <=> Present(s)) /\ Stage(s)'
  <2>1. Stage(s)
    BY DEF Descriptive
  <2>2. Present(s)' <=> Present(s)
    BY <1>1, <2>1 DEF Stage, Present
  <2>3. CASE ~ Present(s)
    BY <1>1, <2>1, <2>2, <2>3 DEF Stage, Present
  <2>4. CASE Present(s)
    BY <1>1, <2>1, <2>2, <2>4 DEF Stage
  <2> QED
    BY <2>2, <2>3, <2>4
<1>3. Descriptive'
  BY <1>1, <1>2 DEF Descriptive
<1>4. Mapped'
  <2>1. ASSUME NEW e \in Descriptors, sessions'[e] # NoSession
        PROVE  /\ DescriptorOf[sessions'[e]] = e /\ Present(sessions[e])'
               /\ sessions'[e] \notin adding'
    BY <1>1, <1>2, <2>1 DEF Mapped
  <2>2. ASSUME stopper' # "stopped", NEW o \in EventSessions, Present(o)', o \notin adding'
        PROVE  sessions'[DescriptorOf[o]] = o
    BY <1>1, <1>2, <2>2 DEF Mapped
  <2> QED
    BY <2>1, <2>2 DEF Mapped, Present
<1>5. ProducerTypeOK'
  BY <1>1 DEF RaisesEvents, mapVars
<1> QED
  BY <1>1, <1>3, <1>4, <1>5 DEF Places, DiesOnlyOfRace

LEMMA ProducerInvStep == ProducerInv /\ [ProducerNext]_producerVars => ProducerInv'
<1> SUFFICES ASSUME ProducerInv, [ProducerNext]_producerVars PROVE ProducerInv'
  OBVIOUS
<1>1. CASE UNCHANGED producerVars
  <2>1. Descriptive' /\ Mapped'
    BY <1>1, SessionsUnchanged DEF producerVars, mapVars, appVars
  <2> QED
    BY <1>1, <2>1 DEF producerVars, mapVars, batchVars, appVars, ProducerInv, ProducerTypeOK,
       Places, DiesOnlyOfRace
<1>2. CASE ProducerNext
  BY <1>2, StartStopStep, UpdateFrameStep, UpdateLocksStep, UpdateAddsStep, ApplicationStep,
     PollerFrameStep, PollsStep, TakesEventStep, LookupFailsStep, RaisesEventsStep
     DEF ProducerNext, Update, PollerAdvances
<1> QED
  BY <1>1, <1>2

LEMMA ProducerInvHolds == ProducerSpec => []ProducerInv
  BY ProducerInvInit, ProducerInvStep, PTL DEF ProducerSpec

\* The producer's state keeps its types.
THEOREM ProducerTypeCorrect == ProducerSpec => []ProducerTypeOK
<1>1. ProducerInv => ProducerTypeOK
  BY DEF ProducerInv
<1> QED
  BY <1>1, ProducerInvHolds, PTL

\* at() in the polling thread throws only when it overlaps UpdateSessions(): the
\* application's and the thread's own steps keep the session of every descriptor
\* with an event in the map.
THEOREM LookupsFailOnlyInRaces == ProducerSpec => []DiesOnlyOfRace
<1>1. ProducerInv => DiesOnlyOfRace
  BY DEF ProducerInv, Places
<1> QED
  BY <1>1, ProducerInvHolds, PTL

\* Every session that UpdateSessions() took in is monitored, or its event is on its
\* way, whatever session its descriptor was before.
THEOREM AllNewSessionsMonitored == ProducerSpec => []NewSessionsMonitored
<1>1. ProducerInv => NewSessionsMonitored
  <2> SUFFICES ASSUME ProducerInv, NEW s \in EventSessions,
                      life[s] = "live", startStopOwner = "nobody", ~ cancelled
               PROVE  /\ sessions[DescriptorOf[s]] = s
                      /\ \/ epoll[DescriptorOf[s]] = "armed" \/ DescriptorOf[s] \in batch
                         \/ s \in readingSessions \cup closedSessions
    BY DEF NewSessionsMonitored
  <2>1. adding = {} /\ stopper # "stopped"
    BY DEF ProducerInv, Places
  <2>2. Stage(s) /\ Present(s)
    BY DEF ProducerInv, Descriptive, Present
  <2> QED
    BY <2>1, <2>2 DEF ProducerInv, Mapped, Stage
<1> QED
  BY <1>1, ProducerInvHolds, PTL

-----------------------------------------------------------------------------
(* The event producer for Windows: how the sessions are divided *)

\* Division, as it is used here.
LEMMA DivisionIs ==
    ASSUME NEW n \in Nat, NEW g \in Nat \ {0}
    PROVE  /\ n \div g \in Nat /\ n % g \in Nat /\ n % g < g
           /\ n = g * (n \div g) + (n % g)
<1>1. n \div g \in Nat /\ (n % g) \in 0..(g - 1)
  OBVIOUS
<1>2. n = g * (n \div g) + (n % g)
  OBVIOUS
<1> QED
  BY <1>1, <1>2

LEMMA TimesIsMonotone ==
    ASSUME NEW a \in Nat, NEW b \in Nat, NEW q \in Nat, a <= b
    PROVE  a * q \in Nat /\ b * q \in Nat /\ a * q <= b * q
  OBVIOUS

LEMMA TimesOneMore ==
    ASSUME NEW a \in Int, NEW q \in Int
    PROVE  a * q \in Int /\ (a - 1) * q \in Int /\ a * q = (a - 1) * q + q /\ a * q = q * a
  OBVIOUS

\* Enough groups for shares that a thread can wait for.
LEMMA GroupsSuffice ==
    ASSUME NEW n \in Nat
    PROVE  /\ Groups(n) \in Nat \ {0} /\ n <= Groups(n) * maximumEventsPerPollingThread
<1> DEFINE max == maximumEventsPerPollingThread
           d == n \div max
           r == n % max
           required == d + (IF r > 0 THEN 1 ELSE 0)
<1>c. max \in Nat \ {0} /\ minimumPollingThreads \in Nat \ {0}
  BY PollingConstants
<1>1. d \in Nat /\ r \in Nat /\ r < max /\ n = max * d + r
  BY <1>c, DivisionIs
<1>2. Groups(n) = IF required < minimumPollingThreads THEN minimumPollingThreads ELSE required
  BY DEF Groups
<1> HIDE DEF max, d, r
<1>3. required \in Nat /\ (r > 0 => required = d + 1) /\ (r = 0 => required = d)
  BY <1>1, <1>c
<1>4. Groups(n) \in Nat \ {0} /\ required <= Groups(n)
  <2> HIDE DEF required
  <2> QED
    BY <1>2, <1>3, <1>c
<1>5. required * max <= Groups(n) * max /\ required * max \in Nat /\ Groups(n) * max \in Nat
  <2> HIDE DEF required
  <2> QED
    BY <1>3, <1>4, <1>c, TimesIsMonotone
<1>6. n <= required * max
  <2>1. max * d = d * max /\ d * max \in Nat
    BY <1>1, <1>c
  <2>2. CASE r = 0
    BY <2>1, <2>2, <1>1, <1>3
  <2>3. CASE r > 0
    <3>1. (d + 1) * max = d * max + max
      BY <1>1, <1>c
    <3>2. required = d + 1
      BY <2>3, <1>3
    <3> QED
      BY <2>1, <3>1, <3>2, <1>1, <1>c
  <2> QED
    BY <2>2, <2>3, <1>1
<1>7. n <= Groups(n) * max
  <2> HIDE DEF required
  <2> QED
    BY <1>5, <1>6
<1> QED
  BY <1>4, <1>7 DEF max

\* A share begins where the one before it ends, the first at 0, and the last ends at n.
LEMMA SharesFollow ==
    ASSUME NEW n \in Nat, NEW groups \in Nat \ {0}, NEW i \in 1..groups
    PROVE  /\ OffsetOf(n, groups, i) \in Nat /\ Share(n, groups, i) \in Nat
           /\ OffsetOf(n, groups, i + 1) = OffsetOf(n, groups, i) + Share(n, groups, i)
           /\ OffsetOf(n, groups, 1) = 0 /\ OffsetOf(n, groups, groups + 1) = n
<1> DEFINE d == n \div groups
           r == n % groups
<1>1. d \in Nat /\ r \in Nat /\ r < groups /\ n = groups * d + r
  BY DivisionIs
<1>2. /\ OffsetOf(n, groups, i) = (i - 1) * d + (IF i - 1 < r THEN i - 1 ELSE r)
      /\ Share(n, groups, i) = d + (IF i <= r THEN 1 ELSE 0)
      /\ OffsetOf(n, groups, i + 1) = ((i + 1) - 1) * d + (IF (i + 1) - 1 < r THEN (i + 1) - 1 ELSE r)
      /\ OffsetOf(n, groups, 1) = (1 - 1) * d + (IF 1 - 1 < r THEN 1 - 1 ELSE r)
      /\ OffsetOf(n, groups, groups + 1) =
            ((groups + 1) - 1) * d + (IF (groups + 1) - 1 < r THEN (groups + 1) - 1 ELSE r)
  BY DEF OffsetOf, Share, Least
<1> HIDE DEF d, r
<1>3. (i + 1) - 1 = i /\ (groups + 1) - 1 = groups /\ 1 - 1 = 0 /\ 0 * d = 0 /\ i - 1 \in Nat
  BY <1>1
<1>4. (i - 1) * d \in Nat /\ i * d = (i - 1) * d + d
  <2>1. (i - 1) * d \in Nat
    BY <1>3, <1>1, TimesIsMonotone
  <2> QED
    BY <2>1, <1>1, TimesOneMore
<1>5. OffsetOf(n, groups, i) \in Nat /\ Share(n, groups, i) \in Nat
  BY <1>1, <1>2, <1>3, <1>4
<1>6. OffsetOf(n, groups, i + 1) = i * d + (IF i < r THEN i ELSE r)
  BY <1>2, <1>3
<1>7. OffsetOf(n, groups, i + 1) = OffsetOf(n, groups, i) + Share(n, groups, i)
  BY <1>1, <1>2, <1>4, <1>6
<1>8. OffsetOf(n, groups, 1) = 0
  BY <1>1, <1>2, <1>3
<1>9. OffsetOf(n, groups, groups + 1) = n
  BY <1>1, <1>2, <1>3
<1> QED
  BY <1>5, <1>7, <1>8, <1>9

\* Offsets grow.
LEMMA OffsetsGrow ==
    ASSUME NEW n \in Nat, NEW groups \in Nat \ {0}, NEW a \in Nat \ {0}, NEW b \in Nat \ {0}, a <= b
    PROVE  /\ OffsetOf(n, groups, a) \in Nat /\ OffsetOf(n, groups, b) \in Nat
           /\ OffsetOf(n, groups, a) <= OffsetOf(n, groups, b)
<1> DEFINE d == n \div groups
           r == n % groups
<1>1. d \in Nat /\ r \in Nat
  BY DivisionIs
<1>2. /\ OffsetOf(n, groups, a) = (a - 1) * d + (IF a - 1 < r THEN a - 1 ELSE r)
      /\ OffsetOf(n, groups, b) = (b - 1) * d + (IF b - 1 < r THEN b - 1 ELSE r)
  BY DEF OffsetOf, Least
<1> HIDE DEF d, r
<1>3. a - 1 \in Nat /\ b - 1 \in Nat /\ a - 1 <= b - 1
  OBVIOUS
<1>4. (a - 1) * d \in Nat /\ (b - 1) * d \in Nat /\ (a - 1) * d <= (b - 1) * d
  BY <1>1, <1>3, TimesIsMonotone
<1> QED
  BY <1>1, <1>2, <1>3, <1>4

\* A set of numbers that is not empty has a least one.
LEMMA LeastExists ==
    ASSUME NEW S, S \subseteq Nat, S # {}
    PROVE  \E least \in S : \A l \in S : least <= l
<1> DEFINE R == OpToRel(<, Nat)
<1>1. \E x \in S : \A y \in S : ~ (<<y, x>> \in R)
  <2> HIDE DEF R
  <2>1. IsWellFoundedOn(R, Nat)
    BY NatLessThanWellFounded DEF R
  <2> QED
    BY <2>1, WFMin
<1>2. PICK x \in S : \A y \in S : ~ (<<y, x>> \in R)
  BY <1>1
<1>3. ASSUME NEW y \in S PROVE x <= y
  <2>1. ~ (y < x)
    BY <1>2 DEF OpToRel
  <2> QED
    BY <2>1
<1> QED
  BY <1>3

\* Every session is in exactly one share.
InShare(n, groups, j, i) ==
    OffsetOf(n, groups, j) <= i /\ i < OffsetOf(n, groups, j) + Share(n, groups, j)

LEMMA OneShareHasIt ==
    ASSUME NEW n \in Nat, NEW groups \in Nat \ {0}, NEW i \in 0..n - 1
    PROVE  \E j \in 1..groups : /\ InShare(n, groups, j, i)
                                /\ \A k \in 1..groups : InShare(n, groups, k, i) => k = j
<1> DEFINE o(j) == OffsetOf(n, groups, j)
           Later == {j \in 1..groups + 1 : o(j) > i}
<1>1. groups \in 1..groups /\ o(1) = 0 /\ o(groups + 1) = n
  <2>1. groups \in 1..groups
    OBVIOUS
  <2> QED
    BY <2>1, SharesFollow
<1>6. ASSUME NEW k \in 1..groups
      PROVE  /\ o(k) \in Nat /\ o(k + 1) \in Nat /\ Share(n, groups, k) \in Nat
             /\ o(k + 1) = o(k) + Share(n, groups, k)
  <2>1. /\ OffsetOf(n, groups, k) \in Nat /\ Share(n, groups, k) \in Nat
        /\ OffsetOf(n, groups, k + 1) = OffsetOf(n, groups, k) + Share(n, groups, k)
    BY SharesFollow
  <2> QED
    BY <2>1
<1>2. groups + 1 \in Later /\ Later \subseteq Nat
  BY <1>1
<1>3. PICK next \in Later : \A l \in Later : next <= l
  <2> HIDE DEF Later
  <2> QED
    BY <1>2, LeastExists
<1>4. next \in 2..groups + 1 /\ o(next) > i
  BY <1>1, <1>3
<1> DEFINE j == next - 1
<1>5. j \in 1..groups /\ j + 1 = next /\ j \in 1..groups + 1
  BY <1>4
<1> HIDE DEF j, o
<1>7. o(j) <= i
  <2>1. j \notin Later
    BY <1>3, <1>4, <1>5 DEF j
  <2> QED
    BY <2>1, <1>5, <1>6
<1>8. InShare(n, groups, j, i)
  <2>1. i < o(j) + Share(n, groups, j)
    BY <1>4, <1>5, <1>6
  <2> QED
    BY <2>1, <1>7 DEF InShare, o
<1>9. ASSUME NEW k \in 1..groups, InShare(n, groups, k, i) PROVE k = j
  <2>1. o(k) <= i /\ i < o(k + 1)
    BY <1>6, <1>9 DEF InShare, o
  <2>2. o(j) <= i /\ i < o(j + 1)
    BY <1>4, <1>5, <1>7
  <2>3. ~ (k < j)
    <3>1. ASSUME k < j PROVE o(k + 1) <= o(j)
      <4>1. k + 1 \in Nat \ {0} /\ j \in Nat \ {0} /\ k + 1 <= j
        BY <1>5, <3>1
      <4> QED
        BY <4>1, OffsetsGrow DEF o
    <3> QED
      BY <2>1, <2>2, <3>1, <1>5, <1>6
  <2>4. ~ (j < k)
    <3>1. ASSUME j < k PROVE o(j + 1) <= o(k)
      <4>1. j + 1 \in Nat \ {0} /\ k \in Nat \ {0} /\ j + 1 <= k
        BY <1>5, <3>1
      <4> QED
        BY <4>1, OffsetsGrow DEF o
    <3> QED
      BY <2>1, <2>2, <3>1, <1>5, <1>6
  <2> QED
    BY <2>3, <2>4, <1>5
<1> QED
  BY <1>5, <1>8, <1>9

\* No share is larger than what a thread can wait for.
LEMMA SharesAreSmall ==
    ASSUME NEW n \in Nat, NEW i \in 1..Groups(n)
    PROVE  Share(n, Groups(n), i) <= maximumEventsPerPollingThread
<1> DEFINE g == Groups(n)
           d == n \div g
           r == n % g
           max == maximumEventsPerPollingThread
<1>1. g \in Nat \ {0} /\ n <= g * max /\ max \in Nat
  BY GroupsSuffice, PollingConstants
<1>2. d \in Nat /\ r \in Nat /\ n = g * d + r
  <2> HIDE DEF g
  <2> QED
    BY <1>1, DivisionIs
<1>3. Share(n, g, i) = d + (IF i <= r THEN 1 ELSE 0)
  BY DEF Share
<1>4. i \in 1..g
  OBVIOUS
<1> HIDE DEF g, d, r, max
<1>5. d <= max
  <2>1. ASSUME d > max PROVE FALSE
    <3>1. max + 1 <= d /\ max + 1 \in Nat
      BY <2>1, <1>1, <1>2
    <3>2. (max + 1) * g <= d * g /\ (max + 1) * g \in Nat /\ d * g \in Nat
      BY <3>1, <1>1, <1>2, TimesIsMonotone
    <3>3. (max + 1) * g = g * max + g /\ d * g = g * d /\ g * max \in Nat
      BY <1>1, <1>2
    <3> QED
      BY <3>2, <3>3, <1>1, <1>2
  <2> QED
    BY <2>1, <1>1, <1>2
<1>6. d = max => r = 0
  <2>1. ASSUME d = max PROVE r = 0
    <3>1. g * d = g * max /\ g * d \in Nat
      BY <2>1, <1>1
    <3> QED
      BY <3>1, <1>1, <1>2
  <2> QED
    BY <2>1
<1>7. Share(n, g, i) <= max
  BY <1>1, <1>2, <1>3, <1>4, <1>5, <1>6
<1> QED
  BY <1>7 DEF g, max

-----------------------------------------------------------------------------
(* The event producer for Windows: the barrier of an update *)

PollingPlaces == {"unborn", "loop", "copying", "sync", "io", "events", "joining", "paused", "resumed",
                  "exit", "ended"}
Phases == {"idle", "abort", "pausing", "change", "divide", "unabort", "continue", "resuming", "reset"}

PollingFlagTypes ==
    /\ wsaStarted \in BOOLEAN /\ wsaCancelled \in BOOLEAN /\ waitFlag \in BOOLEAN
    /\ abortIOWaitEvent \in BOOLEAN /\ trust \in BOOLEAN
    /\ join \in [PollingThreadSlots -> BOOLEAN] /\ refresh \in [PollingThreadSlots -> BOOLEAN]
    /\ synced \in [PollingThreadSlots -> BOOLEAN]
PollingTypes ==
    /\ listLength \in 0..MaxSessions /\ version \in 0..MaxUpdates
    /\ offset \in [PollingThreadSlots -> Nat] /\ number \in [PollingThreadSlots -> Nat]
    /\ retired \subseteq PollingThreadSlots /\ at \in [PollingThreadSlots -> PollingPlaces]
    /\ local \in [PollingThreadSlots -> [version : Int, offset : Nat, number : Nat]]
    /\ updating \in Phases /\ stopping \in {"idle", "lock", "join", "stopped"}

\* The signals, by how far an update is.
Signals ==
    /\ waitFlag <=> updating \in {"abort", "pausing", "change", "divide", "unabort", "continue"}
    /\ abortIOWaitEvent /\ ~ wsaCancelled => updating \in {"pausing", "change", "divide", "unabort"}
    /\ stopping # "idle" => wsaCancelled
    /\ updating \in {"abort", "pausing", "change"} => version < MaxUpdates

NotStarted ==
    ~ wsaStarted /\ ~ wsaCancelled =>
        /\ updating = "idle" /\ ~ trust /\ pollingThreads = <<>>
        /\ \A t \in PollingThreadSlots : at[t] = "unborn"

\* The slots are used in order, each once.
SlotsInOrder ==
    /\ \E k \in Nat : {t \in PollingThreadSlots : at[t] # "unborn"} = 1..k
    /\ pollingThreads \in Seq(PollingThreadSlots)
    /\ \A i, j \in 1..Len(pollingThreads) :
          /\ at[pollingThreads[i]] # "unborn"
          /\ pollingThreads[i] = pollingThreads[j] => i = j

\* A thread that waits for events has been synchronized.
ThreadOK(t) ==
    /\ at[t] = "unborn" => ~ join[t] /\ refresh[t] /\ ~ synced[t]
    /\ at[t] \in {"io", "events", "joining", "paused", "resumed"} => synced[t]
    /\ at[t] = "loop" /\ ~ synced[t] => refresh[t]

IsNew(t) == at[t] \in {"loop", "copying"} /\ ~ synced[t]
Works(t) == at[t] \in {"io", "events", "exit", "ended"} \/ (at[t] \in {"loop", "copying"} /\ synced[t])

\* Where a current thread is, and what its join event says, by how far an update is.
Follows(t) ==
    /\ updating \in {"idle", "abort"} => Works(t) /\ (join[t] => at[t] = "ended")
    /\ updating = "pausing" =>
          /\ Works(t) \/ at[t] \in {"joining", "paused"}
          /\ join[t] => IsPaused(t)
    /\ updating \in {"change", "divide"} => IsPaused(t)
    /\ updating \in {"unabort", "continue"} =>
          /\ join[t] => at[t] = "ended"
          /\ ~ join[t] => IsNew(t) \/ at[t] \in {"sync", "paused", "exit", "ended"}
    /\ updating = "resuming" =>
          /\ join[t] => Works(t)
          /\ ~ join[t] => IsNew(t) \/ at[t] \in {"sync", "paused", "resumed", "exit", "ended"}
    /\ updating = "reset" => Works(t)

\* A thread has the current list once an update has divided it, or will look.
HasList(t) ==
    updating \in {"unabort", "continue", "resuming", "reset", "idle"} =>
        at[t] \in {"paused", "resumed", "ended"} \/ refresh[t] \/ local[t].version = version

Barrier == trust => \A t \in Current : Follows(t) /\ HasList(t)

\* The shares are those of the list.
Divided ==
    trust /\ ~ wsaCancelled /\ updating \in {"unabort", "continue", "resuming", "reset", "idle"} =>
        /\ Len(pollingThreads) = Groups(listLength)
        /\ \A i \in 1..Len(pollingThreads) :
              /\ offset[pollingThreads[i]] = OffsetOf(listLength, Len(pollingThreads), i)
              /\ number[pollingThreads[i]] = Share(listLength, Len(pollingThreads), i)

PollingInv ==
    /\ PollingFlagTypes /\ PollingTypes /\ Signals /\ NotStarted /\ SlotsInOrder
    /\ \A t \in PollingThreadSlots : ThreadOK(t)
    /\ Barrier /\ Divided

LEMMA PollingInvInit == WSAInit => PollingInv
<1> SUFFICES ASSUME WSAInit PROVE PollingInv
  OBVIOUS
<1>0. PollingFlagTypes
  BY DEF WSAInit, PollingFlagTypes, InSlots
<1>1. PollingTypes
  <2>1. None \in [version : Int, offset : Nat, number : Nat]
    BY DEF None
  <2>2. local \in [PollingThreadSlots -> [version : Int, offset : Nat, number : Nat]]
    BY <2>1 DEF WSAInit, InSlots
  <2>3. 0 \in 0..MaxSessions /\ 0 \in 0..MaxUpdates
    BY PollingConstants
  <2> QED
    BY <2>2, <2>3 DEF WSAInit, PollingTypes, InSlots, PollingPlaces, Phases
<1>2. Signals
  <2>1. ~ waitFlag /\ ~ abortIOWaitEvent
    BY DEF WSAInit
  <2>2. updating = "idle" /\ stopping = "idle"
    BY DEF WSAInit
  <2> QED
    BY <2>1, <2>2 DEF Signals
<1>6. NotStarted
  BY DEF WSAInit, NotStarted, InSlots
<1>3. SlotsInOrder
  <2>1. {t \in PollingThreadSlots : at[t] # "unborn"} = 1..0 /\ 0 \in Nat
    BY DEF WSAInit, InSlots
  <2>2. pollingThreads \in Seq(PollingThreadSlots) /\ Len(pollingThreads) = 0
    BY DEF WSAInit
  <2> QED
    BY <2>1, <2>2 DEF SlotsInOrder
<1>4. ASSUME NEW t \in PollingThreadSlots PROVE ThreadOK(t)
  BY DEF WSAInit, InSlots, ThreadOK
<1>5. Barrier /\ Divided
  BY DEF WSAInit, Barrier, Divided
<1> QED
  BY <1>0, <1>1, <1>2, <1>3, <1>4, <1>5, <1>6 DEF PollingInv

\* A step of a polling thread changes what is the thread's own, and says nothing
\* of the others.
LEMMA ThreadStep ==
    ASSUME PollingInv, NEW t \in PollingThreadSlots, ThreadFrame,
           at[t] # "unborn", NEW place \in PollingPlaces \ {"unborn"}, at' = [at EXCEPT ![t] = place],
           join' \in {join, [join EXCEPT ![t] = TRUE]},
           refresh' \in {refresh, [refresh EXCEPT ![t] = TRUE], [refresh EXCEPT ![t] = FALSE]},
           synced' \in {synced, [synced EXCEPT ![t] = TRUE]},
           local' \in {local, [local EXCEPT ![t] = [version |-> version, offset |-> offset[t],
                                                    number |-> number[t]]]},
           ThreadOK(t)',
           Follows(t) /\ HasList(t) => Follows(t)' /\ HasList(t)'
    PROVE  PollingInv'
<1> USE DEF PollingInv
<1>f. /\ UNCHANGED <<wsaStarted, wsaCancelled, waitFlag, abortIOWaitEvent, listLength, version>>
      /\ UNCHANGED <<pollingThreads, offset, number, retired, updating, stopping, trust>>
  BY DEF ThreadFrame, flags, shares
<1>1. PollingFlagTypes'
  BY <1>f DEF PollingFlagTypes
<1>2. PollingTypes'
  <2>1. local' \in [PollingThreadSlots -> [version : Int, offset : Nat, number : Nat]]
    <3>1. [version |-> version, offset |-> offset[t], number |-> number[t]]
            \in [version : Int, offset : Nat, number : Nat]
      BY PollingConstants DEF PollingTypes
    <3> QED
      BY <3>1 DEF PollingTypes
  <2>2. at' \in [PollingThreadSlots -> PollingPlaces]
    BY DEF PollingTypes
  <2> QED
    BY <1>f, <2>1, <2>2 DEF PollingTypes
<1>3. Signals'
  BY <1>f DEF Signals
<1>o. ASSUME NEW u \in PollingThreadSlots, u # t
      PROVE  at'[u] = at[u] /\ join'[u] = join[u] /\ refresh'[u] = refresh[u]
             /\ synced'[u] = synced[u] /\ local'[u] = local[u]
  BY <1>o DEF PollingTypes, PollingFlagTypes
<1>a. at'[t] = place /\ place # "unborn"
  BY DEF PollingTypes
<1>b. \A u \in PollingThreadSlots : at'[u] # "unborn" <=> at[u] # "unborn"
  BY <1>o, <1>a
<1>4. NotStarted'
  BY <1>f DEF NotStarted
<1>5. SlotsInOrder'
  <2>1. {u \in PollingThreadSlots : at'[u] # "unborn"} = {u \in PollingThreadSlots : at[u] # "unborn"}
    BY <1>b
  <2>2. \A i \in 1..Len(pollingThreads) : pollingThreads[i] \in PollingThreadSlots
    BY DEF SlotsInOrder
  <2> QED
    BY <1>f, <1>b, <2>1, <2>2 DEF SlotsInOrder
<1>6. ASSUME NEW u \in PollingThreadSlots PROVE ThreadOK(u)'
  <2>1. CASE u = t
    BY <2>1
  <2>2. CASE u # t
    BY <2>2, <1>o DEF ThreadOK
  <2> QED
    BY <2>1, <2>2
<1>7. Barrier'
  <2> SUFFICES ASSUME trust', NEW u \in Current' PROVE Follows(u)' /\ HasList(u)'
    BY DEF Barrier
  <2>1. u \in Current /\ trust /\ u \in PollingThreadSlots
    BY <1>f DEF Current, SlotsInOrder
  <2>2. Follows(u) /\ HasList(u)
    BY <2>1 DEF Barrier
  <2>3. CASE u = t
    BY <2>2, <2>3
  <2>4. CASE u # t
    <3>1. Follows(u)'
      BY <1>f, <1>o, <2>1, <2>2, <2>4 DEF Follows, Works, IsNew, IsPaused
    <3>2. HasList(u)'
      BY <1>f, <1>o, <2>1, <2>2, <2>4 DEF HasList
    <3> QED
      BY <3>1, <3>2
  <2> QED
    BY <2>3, <2>4
<1>8. Divided'
  BY <1>f DEF Divided
<1> QED
  BY <1>1, <1>2, <1>3, <1>4, <1>5, <1>6, <1>7, <1>8

\* What a thread does keeps it where the update expects it.
LEMMA PollingThreadStep ==
    ASSUME PollingInv, NEW t \in PollingThreadSlots, PollingThread(t)
    PROVE  PollingInv'
<1>t. /\ at \in [PollingThreadSlots -> PollingPlaces] /\ join \in [PollingThreadSlots -> BOOLEAN]
      /\ refresh \in [PollingThreadSlots -> BOOLEAN] /\ synced \in [PollingThreadSlots -> BOOLEAN]
      /\ DOMAIN local = PollingThreadSlots
  BY DEF PollingInv, PollingTypes, PollingFlagTypes
<1>k. ThreadOK(t) /\ Signals
  BY DEF PollingInv
<1>f. ThreadFrame => UNCHANGED <<waitFlag, abortIOWaitEvent, updating, version, wsaCancelled>>
  BY DEF ThreadFrame, flags
<1> USE DEF Goes
<1>1. CASE Loops(t)
  <2> DEFINE place == IF threadCancelled(t) THEN "exit" ELSE IF refresh[t] THEN "copying" ELSE "io"
  <2>1. /\ at[t] = "loop" /\ at' = [at EXCEPT ![t] = place] /\ at'[t] = place
        /\ place \in {"exit", "copying", "io"} /\ ThreadFrame /\ UNCHANGED <<refresh, synced, local, join>>
        /\ place = "io" => ~ refresh[t]
    BY <1>1, <1>t DEF Loops
  <2> HIDE DEF place
  <2>2. ThreadOK(t)'
    BY <2>1, <1>k DEF ThreadOK
  <2>3. ASSUME Follows(t), HasList(t) PROVE Follows(t)' /\ HasList(t)'
    <3>1. Follows(t)'
      BY <2>1, <2>3, <1>f, <1>k DEF Follows, Works, IsNew, IsPaused, ThreadOK
    <3>2. HasList(t)'
      BY <2>1, <2>3, <1>f DEF HasList
    <3> QED
      BY <3>1, <3>2
  <2>4. place \in PollingPlaces \ {"unborn"}
    BY <2>1 DEF PollingPlaces
  <2> QED
    BY <2>1, <2>2, <2>3, <2>4, ThreadStep
<1>2. CASE Copies(t)
  <2> DEFINE place == IF threadCancelled(t) THEN "exit" ELSE IF synced[t] THEN "io" ELSE "sync"
             copy == [version |-> version, offset |-> offset[t], number |-> number[t]]
  <2>1. /\ at[t] = "copying" /\ at' = [at EXCEPT ![t] = place] /\ at'[t] = place
        /\ place \in {"exit", "io", "sync"} /\ ThreadFrame /\ UNCHANGED <<synced, join>>
        /\ refresh' = [refresh EXCEPT ![t] = FALSE] /\ local' = [local EXCEPT ![t] = copy]
        /\ local'[t] = copy /\ (place = "io" => synced[t]) /\ (place = "sync" => ~ synced[t])
        /\ ~ refresh'[t]
    BY <1>2, <1>t DEF Copies
  <2>v. local'[t].version = version
    BY <2>1
  <2> HIDE DEF place
  <2>2. ThreadOK(t)'
    BY <2>1, <1>k DEF ThreadOK
  <2>3. ASSUME Follows(t), HasList(t) PROVE Follows(t)' /\ HasList(t)'
    <3>1. Follows(t)'
      BY <2>1, <2>3, <1>f, <1>k DEF Follows, Works, IsNew, IsPaused, ThreadOK
    <3>2. HasList(t)'
      BY <2>1, <2>v, <2>3, <1>f DEF HasList
    <3> QED
      BY <3>1, <3>2
  <2>4. place \in PollingPlaces \ {"unborn"}
    BY <2>1 DEF PollingPlaces
  <2> QED
    BY <2>1, <2>2, <2>3, <2>4, ThreadStep
<1>3. CASE Synchronizes(t)
  <2>1. /\ at[t] = "sync" /\ at' = [at EXCEPT ![t] = "io"] /\ at'[t] = "io" /\ ~ waitFlag
        /\ ThreadFrame /\ UNCHANGED <<refresh, local>>
        /\ synced' = [synced EXCEPT ![t] = TRUE] /\ join' = [join EXCEPT ![t] = TRUE]
        /\ synced'[t] /\ join'[t]
    BY <1>3, <1>t DEF Synchronizes
  <2>2. ThreadOK(t)'
    BY <2>1, <1>k DEF ThreadOK
  <2>3. ASSUME Follows(t), HasList(t) PROVE Follows(t)' /\ HasList(t)'
    <3>1. Follows(t)'
      BY <2>1, <2>3, <1>f, <1>k DEF Follows, Works, IsNew, IsPaused, ThreadOK, Signals
    <3>2. HasList(t)'
      BY <2>1, <2>3, <1>f DEF HasList
    <3> QED
      BY <3>1, <3>2
  <2> QED
    BY <2>1, <2>2, <2>3, ThreadStep DEF PollingPlaces
<1>4. CASE FindsEvents(t)
  <2>1. /\ at[t] = "io" /\ at' = [at EXCEPT ![t] = "events"] /\ at'[t] = "events"
        /\ ThreadFrame /\ UNCHANGED <<refresh, synced, local, join>>
    BY <1>4, <1>t DEF FindsEvents
  <2>2. ThreadOK(t)'
    BY <2>1, <1>k DEF ThreadOK
  <2>3. ASSUME Follows(t), HasList(t) PROVE Follows(t)' /\ HasList(t)'
    <3>1. Follows(t)'
      BY <2>1, <2>3, <1>f, <1>k DEF Follows, Works, IsNew, IsPaused, ThreadOK
    <3>2. HasList(t)'
      BY <2>1, <2>3, <1>f DEF HasList
    <3> QED
      BY <3>1, <3>2
  <2> QED
    BY <2>1, <2>2, <2>3, ThreadStep DEF PollingPlaces
<1>5. CASE RaisesTheEvents(t)
  <2>1. /\ at[t] = "events" /\ at' = [at EXCEPT ![t] = "loop"] /\ at'[t] = "loop"
        /\ ThreadFrame /\ UNCHANGED <<refresh, synced, local, join>>
    BY <1>5, <1>t DEF RaisesTheEvents
  <2>2. ThreadOK(t)'
    BY <2>1, <1>k DEF ThreadOK
  <2>3. ASSUME Follows(t), HasList(t) PROVE Follows(t)' /\ HasList(t)'
    <3>1. Follows(t)'
      BY <2>1, <2>3, <1>f, <1>k DEF Follows, Works, IsNew, IsPaused, ThreadOK
    <3>2. HasList(t)'
      BY <2>1, <2>3, <1>f DEF HasList
    <3> QED
      BY <3>1, <3>2
  <2> QED
    BY <2>1, <2>2, <2>3, ThreadStep DEF PollingPlaces
<1>6. CASE StopsWaiting(t)
  <2> DEFINE place == IF threadCancelled(t) THEN "exit" ELSE "joining"
  <2>1. /\ at[t] = "io" /\ at' = [at EXCEPT ![t] = place] /\ at'[t] = place
        /\ place \in {"exit", "joining"} /\ ThreadFrame /\ UNCHANGED <<refresh, synced, local, join>>
        /\ place = "joining" => abortIOWaitEvent /\ ~ wsaCancelled
    BY <1>6, <1>t DEF StopsWaiting, threadCancelled
  <2> HIDE DEF place
  <2>2. ThreadOK(t)'
    BY <2>1, <1>k DEF ThreadOK
  <2>3. ASSUME Follows(t), HasList(t) PROVE Follows(t)' /\ HasList(t)'
    <3>1. Follows(t)'
      BY <2>1, <2>3, <1>f, <1>k DEF Follows, Works, IsNew, IsPaused, ThreadOK, Signals
    <3>2. HasList(t)'
      BY <2>1, <2>3, <1>f DEF HasList
    <3> QED
      BY <3>1, <3>2
  <2>4. place \in PollingPlaces \ {"unborn"}
    BY <2>1 DEF PollingPlaces
  <2> QED
    BY <2>1, <2>2, <2>3, <2>4, ThreadStep
<1>7. CASE WaitFails(t)
  <2>1. /\ at[t] = "io" /\ at' = [at EXCEPT ![t] = "exit"] /\ at'[t] = "exit"
        /\ ThreadFrame /\ UNCHANGED <<refresh, synced, local, join>>
    BY <1>7, <1>t DEF WaitFails
  <2>2. ThreadOK(t)'
    BY <2>1, <1>k DEF ThreadOK
  <2>3. ASSUME Follows(t), HasList(t) PROVE Follows(t)' /\ HasList(t)'
    <3>1. Follows(t)'
      BY <2>1, <2>3, <1>f, <1>k DEF Follows, Works, IsNew, IsPaused, ThreadOK
    <3>2. HasList(t)'
      BY <2>1, <2>3, <1>f DEF HasList
    <3> QED
      BY <3>1, <3>2
  <2> QED
    BY <2>1, <2>2, <2>3, ThreadStep DEF PollingPlaces
<1>8. CASE Joins(t)
  <2>1. /\ at[t] = "joining" /\ at' = [at EXCEPT ![t] = "paused"] /\ at'[t] = "paused"
        /\ ThreadFrame /\ UNCHANGED <<refresh, synced, local>>
        /\ join' = [join EXCEPT ![t] = TRUE] /\ join'[t]
    BY <1>8, <1>t DEF Joins
  <2>2. ThreadOK(t)'
    BY <2>1, <1>k DEF ThreadOK
  <2>3. ASSUME Follows(t), HasList(t) PROVE Follows(t)' /\ HasList(t)'
    <3>1. Follows(t)'
      BY <2>1, <2>3, <1>f, <1>k DEF Follows, Works, IsNew, IsPaused, ThreadOK
    <3>2. HasList(t)'
      BY <2>1, <2>3, <1>f DEF HasList
    <3> QED
      BY <3>1, <3>2
  <2> QED
    BY <2>1, <2>2, <2>3, ThreadStep DEF PollingPlaces
<1>9. CASE WakesUp(t)
  <2>1. /\ at[t] = "paused" /\ at' = [at EXCEPT ![t] = "resumed"] /\ at'[t] = "resumed" /\ ~ waitFlag
        /\ ThreadFrame /\ UNCHANGED <<refresh, synced, local, join>>
    BY <1>9, <1>t DEF WakesUp
  <2>2. ThreadOK(t)'
    BY <2>1, <1>k DEF ThreadOK
  <2>3. ASSUME Follows(t), HasList(t) PROVE Follows(t)' /\ HasList(t)'
    <3>1. Follows(t)'
      BY <2>1, <2>3, <1>f, <1>k DEF Follows, Works, IsNew, IsPaused, ThreadOK, Signals
    <3>2. HasList(t)'
      BY <2>1, <2>3, <1>f DEF HasList
    <3> QED
      BY <3>1, <3>2
  <2> QED
    BY <2>1, <2>2, <2>3, ThreadStep DEF PollingPlaces
<1>10. CASE GoesOn(t)
  <2>1. /\ at[t] = "resumed" /\ at' = [at EXCEPT ![t] = "loop"] /\ at'[t] = "loop"
        /\ ThreadFrame /\ UNCHANGED <<synced, local>>
        /\ join' = [join EXCEPT ![t] = TRUE] /\ join'[t]
        /\ refresh' = [refresh EXCEPT ![t] = TRUE] /\ refresh'[t]
    BY <1>10, <1>t DEF GoesOn
  <2>2. ThreadOK(t)'
    BY <2>1, <1>k DEF ThreadOK
  <2>3. ASSUME Follows(t), HasList(t) PROVE Follows(t)' /\ HasList(t)'
    <3>1. Follows(t)'
      BY <2>1, <2>3, <1>f, <1>k DEF Follows, Works, IsNew, IsPaused, ThreadOK
    <3>2. HasList(t)'
      BY <2>1, <2>3, <1>f DEF HasList
    <3> QED
      BY <3>1, <3>2
  <2> QED
    BY <2>1, <2>2, <2>3, ThreadStep DEF PollingPlaces
<1>11. CASE Exits(t)
  <2>1. /\ at[t] = "exit" /\ at' = [at EXCEPT ![t] = "ended"] /\ at'[t] = "ended"
        /\ ThreadFrame /\ UNCHANGED <<refresh, synced, local>>
        /\ join' = [join EXCEPT ![t] = TRUE] /\ join'[t]
    BY <1>11, <1>t DEF Exits
  <2>2. ThreadOK(t)'
    BY <2>1, <1>k DEF ThreadOK
  <2>3. ASSUME Follows(t), HasList(t) PROVE Follows(t)' /\ HasList(t)'
    <3>1. Follows(t)'
      BY <2>1, <2>3, <1>f, <1>k DEF Follows, Works, IsNew, IsPaused, ThreadOK
    <3>2. HasList(t)'
      BY <2>1, <2>3, <1>f DEF HasList
    <3> QED
      BY <3>1, <3>2
  <2> QED
    BY <2>1, <2>2, <2>3, ThreadStep DEF PollingPlaces
<1> QED
  BY <1>1, <1>2, <1>3, <1>4, <1>5, <1>6, <1>7, <1>8, <1>9, <1>10, <1>11 DEF PollingThread

\* What an update leaves alone, it keeps right.
LEMMA UpdateKeeps ==
    ASSUME PollingInv, UpdateFrame, UNCHANGED <<pollingThreads, offset, number, retired>>,
           wsaStarted \/ wsaCancelled, updating' \in Phases,
           waitFlag' \in BOOLEAN, abortIOWaitEvent' \in BOOLEAN, trust' \in BOOLEAN,
           listLength' \in 0..MaxSessions, version' \in 0..MaxUpdates,
           join' \in [PollingThreadSlots -> BOOLEAN],
           \A t \in PollingThreadSlots : join'[t] => join[t]
    PROVE  PollingFlagTypes' /\ PollingTypes' /\ NotStarted' /\ SlotsInOrder'
           /\ \A t \in PollingThreadSlots : ThreadOK(t)'
<1> USE DEF PollingInv, UpdateFrame, threadVars
<1>f. UNCHANGED <<wsaStarted, wsaCancelled, at, refresh, synced, local, stopping>>
  OBVIOUS
<1>1. PollingFlagTypes'
  BY <1>f DEF PollingFlagTypes
<1>2. PollingTypes'
  BY <1>f DEF PollingTypes
<1>3. NotStarted'
  BY <1>f DEF NotStarted
<1>4. SlotsInOrder'
  BY <1>f DEF SlotsInOrder
<1>5. ASSUME NEW t \in PollingThreadSlots PROVE ThreadOK(t)'
  BY <1>f DEF ThreadOK
<1> QED
  BY <1>1, <1>2, <1>3, <1>4, <1>5

\* The shares stay those of the list.
LEMMA DividedKept ==
    ASSUME Divided, UNCHANGED <<wsaCancelled, pollingThreads, offset, number, listLength>>,
           trust' => trust, updating' \in {"continue", "resuming", "reset", "idle"} =>
                updating \in {"unabort", "continue", "resuming", "reset", "idle"},
           updating' # "unabort"
    PROVE  Divided'
  BY DEF Divided

\* An update goes on only once the producer has been started.
LEMMA UpdatingStarted == PollingInv /\ updating # "idle" => wsaStarted \/ wsaCancelled
  BY DEF PollingInv, NotStarted

LEMMA PauseStep == PollingInv /\ Pause => PollingInv'
<1> SUFFICES ASSUME PollingInv, Pause PROVE PollingInv'
  OBVIOUS
<1>1. /\ UpdateFrame /\ wsaStarted /\ version < MaxUpdates /\ waitFlag' /\ waitFlag' \in BOOLEAN
      /\ updating = "idle" /\ updating' = "abort"
      /\ UNCHANGED <<abortIOWaitEvent, listLength, version, pollingThreads, offset, number, retired, join, trust>>
  BY DEF Pause, shares
<1>t. PollingFlagTypes /\ PollingTypes /\ Signals /\ Barrier /\ Divided
  BY DEF PollingInv
<1>2. PollingFlagTypes' /\ PollingTypes' /\ NotStarted' /\ SlotsInOrder'
      /\ \A t \in PollingThreadSlots : ThreadOK(t)'
  BY <1>1, <1>t, UpdateKeeps DEF PollingFlagTypes, PollingTypes, Phases
<1>f. UNCHANGED <<wsaStarted, wsaCancelled, at, refresh, synced, local, stopping>>
  BY <1>1 DEF UpdateFrame, threadVars
<1>3. Signals'
  BY <1>1, <1>f, <1>t DEF Signals
<1>4. Barrier'
  <2> SUFFICES ASSUME trust', NEW t \in Current' PROVE Follows(t)' /\ HasList(t)'
    BY DEF Barrier
  <2>1. Follows(t) /\ HasList(t)
    BY <1>1, <1>t DEF Barrier, Current
  <2>2. Follows(t)'
    BY <2>1, <1>1, <1>f DEF Follows, Works
  <2>3. HasList(t)'
    BY <1>1 DEF HasList
  <2> QED
    BY <2>2, <2>3
<1>5. Divided'
  BY <1>1 DEF Divided
<1> QED
  BY <1>2, <1>3, <1>4, <1>5 DEF PollingInv

LEMMA SetAbortStep == PollingInv /\ SetAbortIOWaitEvent => PollingInv'
<1> SUFFICES ASSUME PollingInv, SetAbortIOWaitEvent PROVE PollingInv'
  OBVIOUS
<1>1. /\ UpdateFrame /\ abortIOWaitEvent' /\ abortIOWaitEvent' \in BOOLEAN
      /\ updating = "abort" /\ updating' = "pausing"
      /\ UNCHANGED <<waitFlag, listLength, version, pollingThreads, offset, number, retired, join, trust>>
  BY DEF SetAbortIOWaitEvent, shares
<1>t. PollingFlagTypes /\ PollingTypes /\ Signals /\ Barrier
  BY DEF PollingInv
<1>2. PollingFlagTypes' /\ PollingTypes' /\ NotStarted' /\ SlotsInOrder'
      /\ \A t \in PollingThreadSlots : ThreadOK(t)'
  BY <1>1, <1>t, UpdateKeeps, UpdatingStarted DEF PollingFlagTypes, PollingTypes, Phases
<1>f. UNCHANGED <<wsaStarted, wsaCancelled, at, refresh, synced, local, stopping>>
  BY <1>1 DEF UpdateFrame, threadVars
<1>3. Signals'
  BY <1>1, <1>f, <1>t DEF Signals
<1>4. Barrier'
  <2> SUFFICES ASSUME trust', NEW t \in Current' PROVE Follows(t)' /\ HasList(t)'
    BY DEF Barrier
  <2>1. Follows(t) /\ HasList(t)
    BY <1>1, <1>t DEF Barrier, Current
  <2>2. Follows(t)'
    BY <2>1, <1>1, <1>f DEF Follows, Works, IsPaused
  <2>3. HasList(t)'
    BY <1>1 DEF HasList
  <2> QED
    BY <2>2, <2>3
<1>5. Divided'
  BY <1>1 DEF Divided
<1> QED
  BY <1>2, <1>3, <1>4, <1>5 DEF PollingInv

LEMMA PausedStep == PollingInv /\ waitForAllJoinEvents("pausing", "change") => PollingInv'
<1> SUFFICES ASSUME PollingInv, waitForAllJoinEvents("pausing", "change") PROVE PollingInv'
  OBVIOUS
<1>1. /\ UpdateFrame /\ updating = "pausing" /\ updating' = "change" /\ trust' \in BOOLEAN
      /\ trust' => \A t \in Current : IsPaused(t)
      /\ UNCHANGED <<waitFlag, abortIOWaitEvent, listLength, version, pollingThreads, offset, number,
                     retired, join>>
  BY DEF waitForAllJoinEvents, shares
<1>t. PollingFlagTypes /\ PollingTypes /\ Signals
  BY DEF PollingInv
<1>2. PollingFlagTypes' /\ PollingTypes' /\ NotStarted' /\ SlotsInOrder'
      /\ \A t \in PollingThreadSlots : ThreadOK(t)'
  BY <1>1, <1>t, UpdateKeeps, UpdatingStarted DEF PollingFlagTypes, PollingTypes, Phases
<1>f. UNCHANGED <<wsaStarted, wsaCancelled, at, refresh, synced, local, stopping>>
  BY <1>1 DEF UpdateFrame, threadVars
<1>3. Signals'
  BY <1>1, <1>f, <1>t DEF Signals
<1>4. Barrier'
  <2> SUFFICES ASSUME trust', NEW t \in Current' PROVE Follows(t)' /\ HasList(t)'
    BY DEF Barrier
  <2>1. IsPaused(t)
    BY <1>1 DEF Current
  <2>2. Follows(t)'
    BY <2>1, <1>1, <1>f DEF Follows, IsPaused
  <2>3. HasList(t)'
    BY <1>1 DEF HasList
  <2> QED
    BY <2>2, <2>3
<1>5. Divided'
  BY <1>1 DEF Divided
<1> QED
  BY <1>2, <1>3, <1>4, <1>5 DEF PollingInv

LEMMA ChangeListStep == ASSUME PollingInv, NEW n \in 0..MaxSessions, ChangeList(n) PROVE PollingInv'
<1>t. PollingFlagTypes /\ PollingTypes /\ Signals /\ Barrier
  BY DEF PollingInv
<1>1. /\ UpdateFrame /\ updating = "change" /\ updating' = "divide"
      /\ listLength' = n /\ version' = version + 1
      /\ UNCHANGED <<waitFlag, abortIOWaitEvent, pollingThreads, offset, number, retired, join, trust>>
  BY DEF ChangeList, shares
<1>v. version' \in 0..MaxUpdates
  BY <1>1, <1>t, PollingConstants DEF Signals, PollingTypes
<1>2. PollingFlagTypes' /\ PollingTypes' /\ NotStarted' /\ SlotsInOrder'
      /\ \A t \in PollingThreadSlots : ThreadOK(t)'
  BY <1>1, <1>t, <1>v, UpdateKeeps, UpdatingStarted DEF PollingFlagTypes, Phases
<1>f. UNCHANGED <<wsaStarted, wsaCancelled, at, refresh, synced, local, stopping>>
  BY <1>1 DEF UpdateFrame, threadVars
<1>3. Signals'
  BY <1>1, <1>f, <1>t DEF Signals
<1>4. Barrier'
  <2> SUFFICES ASSUME trust', NEW t \in Current' PROVE Follows(t)' /\ HasList(t)'
    BY DEF Barrier
  <2>1. Follows(t)
    BY <1>1, <1>t DEF Barrier, Current
  <2>2. Follows(t)'
    BY <2>1, <1>1, <1>f DEF Follows, IsPaused
  <2>3. HasList(t)'
    BY <1>1 DEF HasList
  <2> QED
    BY <2>2, <2>3
<1>5. Divided'
  BY <1>1 DEF Divided
<1> QED
  BY <1>2, <1>3, <1>4, <1>5 DEF PollingInv

LEMMA ResetAbortStep == PollingInv /\ ResetAbortIOWaitEvent => PollingInv'
<1> SUFFICES ASSUME PollingInv, ResetAbortIOWaitEvent PROVE PollingInv'
  OBVIOUS
<1>1. /\ UpdateFrame /\ ~ abortIOWaitEvent' /\ abortIOWaitEvent' \in BOOLEAN
      /\ updating = "unabort" /\ updating' = "continue"
      /\ UNCHANGED <<waitFlag, listLength, version, pollingThreads, offset, number, retired, join, trust>>
  BY DEF ResetAbortIOWaitEvent, shares
<1>t. PollingFlagTypes /\ PollingTypes /\ Signals /\ Barrier /\ Divided
  BY DEF PollingInv
<1>2. PollingFlagTypes' /\ PollingTypes' /\ NotStarted' /\ SlotsInOrder'
      /\ \A t \in PollingThreadSlots : ThreadOK(t)'
  BY <1>1, <1>t, UpdateKeeps, UpdatingStarted DEF PollingFlagTypes, PollingTypes, Phases
<1>f. UNCHANGED <<wsaStarted, wsaCancelled, at, refresh, synced, local, stopping>>
  BY <1>1 DEF UpdateFrame, threadVars
<1>3. Signals'
  BY <1>1, <1>f, <1>t DEF Signals
<1>4. Barrier'
  <2> SUFFICES ASSUME trust', NEW t \in Current' PROVE Follows(t)' /\ HasList(t)'
    BY DEF Barrier
  <2>1. Follows(t) /\ HasList(t)
    BY <1>1, <1>t DEF Barrier, Current
  <2>2. Follows(t)'
    BY <2>1, <1>1, <1>f DEF Follows, IsNew
  <2>3. HasList(t)'
    BY <2>1, <1>1, <1>f DEF HasList
  <2> QED
    BY <2>2, <2>3
<1>5. Divided'
  BY <1>1, <1>f, <1>t, DividedKept
<1> QED
  BY <1>2, <1>3, <1>4, <1>5 DEF PollingInv

LEMMA ContinueStep == PollingInv /\ ContinueThreads => PollingInv'
<1> SUFFICES ASSUME PollingInv, ContinueThreads PROVE PollingInv'
  OBVIOUS
<1>1. /\ UpdateFrame /\ ~ waitFlag' /\ waitFlag' \in BOOLEAN
      /\ updating = "continue" /\ updating' = "resuming"
      /\ UNCHANGED <<abortIOWaitEvent, listLength, version, pollingThreads, offset, number, retired, join, trust>>
  BY DEF ContinueThreads, Continue, shares
<1>t. PollingFlagTypes /\ PollingTypes /\ Signals /\ Barrier /\ Divided
  BY DEF PollingInv
<1>2. PollingFlagTypes' /\ PollingTypes' /\ NotStarted' /\ SlotsInOrder'
      /\ \A t \in PollingThreadSlots : ThreadOK(t)'
  BY <1>1, <1>t, UpdateKeeps, UpdatingStarted DEF PollingFlagTypes, PollingTypes, Phases
<1>f. UNCHANGED <<wsaStarted, wsaCancelled, at, refresh, synced, local, stopping>>
  BY <1>1 DEF UpdateFrame, threadVars
<1>3. Signals'
  BY <1>1, <1>f, <1>t DEF Signals
<1>4. Barrier'
  <2> SUFFICES ASSUME trust', NEW t \in Current' PROVE Follows(t)' /\ HasList(t)'
    BY DEF Barrier
  <2>1. Follows(t) /\ HasList(t)
    BY <1>1, <1>t DEF Barrier, Current
  <2>2. Follows(t)'
    BY <2>1, <1>1, <1>f DEF Follows, IsNew, Works
  <2>3. HasList(t)'
    BY <2>1, <1>1, <1>f DEF HasList
  <2> QED
    BY <2>2, <2>3
<1>5. Divided'
  BY <1>1, <1>f, <1>t, DividedKept
<1> QED
  BY <1>2, <1>3, <1>4, <1>5 DEF PollingInv

LEMMA ResumedStep == PollingInv /\ waitForAllJoinEvents("resuming", "reset") => PollingInv'
<1> SUFFICES ASSUME PollingInv, waitForAllJoinEvents("resuming", "reset") PROVE PollingInv'
  OBVIOUS
<1>t. PollingFlagTypes /\ PollingTypes /\ Signals /\ Barrier /\ Divided
  BY DEF PollingInv
<1>1. /\ UpdateFrame /\ updating = "resuming" /\ updating' = "reset"
      /\ trust' \in BOOLEAN /\ (trust' => trust) /\ (trust' => \A t \in Current : join[t])
      /\ UNCHANGED <<waitFlag, abortIOWaitEvent, listLength, version, pollingThreads, offset, number,
                     retired, join>>
  BY <1>t DEF waitForAllJoinEvents, shares, PollingFlagTypes
<1>2. PollingFlagTypes' /\ PollingTypes' /\ NotStarted' /\ SlotsInOrder'
      /\ \A t \in PollingThreadSlots : ThreadOK(t)'
  BY <1>1, <1>t, UpdateKeeps, UpdatingStarted DEF PollingFlagTypes, PollingTypes, Phases
<1>f. UNCHANGED <<wsaStarted, wsaCancelled, at, refresh, synced, local, stopping>>
  BY <1>1 DEF UpdateFrame, threadVars
<1>3. Signals'
  BY <1>1, <1>f, <1>t DEF Signals
<1>4. Barrier'
  <2> SUFFICES ASSUME trust', NEW t \in Current' PROVE Follows(t)' /\ HasList(t)'
    BY DEF Barrier
  <2>1. Follows(t) /\ HasList(t) /\ join[t]
    BY <1>1, <1>t DEF Barrier, Current
  <2>2. Follows(t)'
    BY <2>1, <1>1, <1>f DEF Follows, Works
  <2>3. HasList(t)'
    BY <2>1, <1>1, <1>f DEF HasList
  <2> QED
    BY <2>2, <2>3
<1>5. Divided'
  BY <1>1, <1>f, <1>t, DividedKept
<1> QED
  BY <1>2, <1>3, <1>4, <1>5 DEF PollingInv

LEMMA UpdateReturnsStep == PollingInv /\ UpdateReturns => PollingInv'
<1> SUFFICES ASSUME PollingInv, UpdateReturns PROVE PollingInv'
  OBVIOUS
<1>t. PollingFlagTypes /\ PollingTypes /\ Signals /\ Barrier /\ Divided
  BY DEF PollingInv
<1>1. /\ UpdateFrame /\ updating = "reset" /\ updating' = "idle"
      /\ join' = [t \in PollingThreadSlots |-> IF t \in Current THEN FALSE ELSE join[t]]
      /\ UNCHANGED <<waitFlag, abortIOWaitEvent, listLength, version, pollingThreads, offset, number,
                     retired, trust>>
  BY DEF UpdateReturns, FinalReset, shares
<1>j. /\ join' \in [PollingThreadSlots -> BOOLEAN]
      /\ \A t \in PollingThreadSlots : (join'[t] => join[t]) /\ (t \in Current => ~ join'[t])
  BY <1>1, <1>t DEF PollingFlagTypes
<1>2. PollingFlagTypes' /\ PollingTypes' /\ NotStarted' /\ SlotsInOrder'
      /\ \A t \in PollingThreadSlots : ThreadOK(t)'
  BY <1>1, <1>t, <1>j, UpdateKeeps, UpdatingStarted DEF PollingFlagTypes, PollingTypes, Phases
<1>f. UNCHANGED <<wsaStarted, wsaCancelled, at, refresh, synced, local, stopping>>
  BY <1>1 DEF UpdateFrame, threadVars
<1>3. Signals'
  BY <1>1, <1>f, <1>t DEF Signals
<1>4. Barrier'
  <2> SUFFICES ASSUME trust', NEW t \in Current' PROVE Follows(t)' /\ HasList(t)'
    BY DEF Barrier
  <2>1. Follows(t) /\ HasList(t)
    BY <1>1, <1>t DEF Barrier, Current
  <2>2. t \in Current /\ t \in PollingThreadSlots
    BY <1>1 DEF PollingInv, SlotsInOrder, Current
  <2>3. Follows(t)'
    BY <2>1, <2>2, <1>1, <1>f, <1>j DEF Follows, Works
  <2>4. HasList(t)'
    BY <2>1, <1>1, <1>f DEF HasList
  <2> QED
    BY <2>3, <2>4
<1>5. Divided'
  BY <1>1, <1>f, <1>t, DividedKept
<1> QED
  BY <1>2, <1>3, <1>4, <1>5 DEF PollingInv

LEMMA StopStep == PollingInv /\ (WSAStopCancels \/ WSAStopLocks \/ WSAStopReturns) => PollingInv'
<1> SUFFICES ASSUME PollingInv, WSAStopCancels \/ WSAStopLocks \/ WSAStopReturns PROVE PollingInv'
  OBVIOUS
<1>t. PollingFlagTypes /\ PollingTypes /\ Signals /\ Barrier /\ Divided /\ SlotsInOrder
  BY DEF PollingInv
<1>k. \A t \in PollingThreadSlots : ThreadOK(t)
  BY DEF PollingInv
<1>s. Current \subseteq PollingThreadSlots
  BY <1>t DEF Current, SlotsInOrder
<1>1. CASE WSAStopCancels
  <2>1. /\ wsaStarted' \in BOOLEAN /\ wsaCancelled' \in BOOLEAN /\ wsaCancelled' /\ stopping' = "lock"
        /\ UNCHANGED <<waitFlag, abortIOWaitEvent, listLength, version, pollingThreads, offset, number,
                       retired, join, at, refresh, synced, local, updating, trust>>
    BY <1>1 DEF WSAStopCancels, shares, threadVars
  <2>2. PollingFlagTypes' /\ PollingTypes'
    BY <2>1, <1>t DEF PollingFlagTypes, PollingTypes
  <2>3. Signals' /\ NotStarted' /\ SlotsInOrder' /\ Divided'
    BY <2>1, <1>t DEF Signals, NotStarted, SlotsInOrder, Divided
  <2>4. \A t \in PollingThreadSlots : ThreadOK(t)'
    BY <2>1, <1>k DEF ThreadOK
  <2>5. Barrier'
    BY <2>1, <1>t DEF Barrier, Current, Follows, HasList, Works, IsNew, IsPaused
  <2> QED
    BY <2>2, <2>3, <2>4, <2>5 DEF PollingInv
<1>2. CASE WSAStopLocks
  <2>1. /\ retired' = retired \cup Current /\ abortIOWaitEvent' \in BOOLEAN /\ wsaCancelled
        /\ stopping' = "join"
        /\ UNCHANGED <<wsaStarted, wsaCancelled, waitFlag, listLength, version, pollingThreads, offset,
                       number, join, at, refresh, synced, local, updating, trust>>
    BY <1>2, <1>t DEF WSAStopLocks, shares, threadVars, Signals
  <2>2. PollingFlagTypes' /\ PollingTypes'
    BY <2>1, <1>s, <1>t DEF PollingFlagTypes, PollingTypes
  <2>3. Signals' /\ NotStarted' /\ SlotsInOrder' /\ Divided'
    BY <2>1, <1>t DEF Signals, NotStarted, SlotsInOrder, Divided
  <2>4. \A t \in PollingThreadSlots : ThreadOK(t)'
    BY <2>1, <1>k DEF ThreadOK
  <2>5. Barrier'
    BY <2>1, <1>t DEF Barrier, Current, Follows, HasList, Works, IsNew, IsPaused
  <2> QED
    BY <2>2, <2>3, <2>4, <2>5 DEF PollingInv
<1>3. CASE WSAStopReturns
  <2>1. /\ pollingThreads' = <<>> /\ listLength' = 0 /\ wsaCancelled /\ stopping' = "stopped"
        /\ UNCHANGED <<wsaStarted, wsaCancelled, waitFlag, abortIOWaitEvent, version, offset, number,
                       retired, join, at, refresh, synced, local, updating, trust>>
    BY <1>3, <1>t DEF WSAStopReturns, flags, threadVars, Signals
  <2>2. PollingFlagTypes' /\ PollingTypes'
    BY <2>1, <1>t, PollingConstants DEF PollingFlagTypes, PollingTypes
  <2>3. Signals' /\ NotStarted' /\ Divided'
    BY <2>1, <1>t DEF Signals, NotStarted, Divided
  <2>4. \A t \in PollingThreadSlots : ThreadOK(t)'
    BY <2>1, <1>k DEF ThreadOK
  <2>5. SlotsInOrder'
    BY <2>1, <1>t DEF SlotsInOrder
  <2>6. Barrier'
    BY <2>1 DEF Barrier, Current
  <2> QED
    BY <2>2, <2>3, <2>4, <2>5, <2>6 DEF PollingInv
<1> QED
  BY <1>1, <1>2, <1>3

LEMMA StartStep == PollingInv /\ WSAStart => PollingInv'
<1> SUFFICES ASSUME PollingInv, WSAStart PROVE PollingInv'
  OBVIOUS
<1> DEFINE min == minimumPollingThreads
<1>t. PollingFlagTypes /\ PollingTypes /\ Signals /\ NotStarted
  BY DEF PollingInv
<1>k. \A t \in PollingThreadSlots : ThreadOK(t)
  BY DEF PollingInv
<1>c. min \in Nat \ {0} /\ 1..min \subseteq PollingThreadSlots /\ PollingThreadSlots \subseteq Nat \ {0}
  BY PollingConstants, FS_CardinalityType
<1>1. /\ wsaStarted' \in BOOLEAN /\ wsaStarted' /\ pollingThreads' = [i \in 1..min |-> i]
      /\ at' = [t \in PollingThreadSlots |-> IF t <= min THEN "loop" ELSE "unborn"]
      /\ UNCHANGED <<wsaCancelled, waitFlag, abortIOWaitEvent, listLength, version, offset, number,
                     retired, join, refresh, synced, local, updating, stopping, trust>>
  BY DEF WSAStart
<1>2. ~ trust /\ \A t \in PollingThreadSlots : at[t] = "unborn"
  BY <1>t DEF NotStarted, WSAStart
<1>3. PollingFlagTypes' /\ PollingTypes'
  BY <1>1, <1>t DEF PollingFlagTypes, PollingTypes, PollingPlaces
<1>4. Signals' /\ NotStarted' /\ Divided' /\ Barrier'
  BY <1>1, <1>2, <1>t DEF Signals, NotStarted, Divided, Barrier
<1>5. ASSUME NEW t \in PollingThreadSlots PROVE ThreadOK(t)'
  <2>1. ThreadOK(t) /\ at[t] = "unborn" /\ at'[t] \in {"loop", "unborn"}
    BY <1>k, <1>1, <1>2
  <2> QED
    BY <2>1, <1>1 DEF ThreadOK
<1>6. SlotsInOrder'
  <2>1. {t \in PollingThreadSlots : at'[t] # "unborn"} = 1..min
    <3>1. \A t \in PollingThreadSlots : at'[t] # "unborn" <=> t <= min
      BY <1>1
    <3>2. \A t \in 1..min : t \in PollingThreadSlots /\ t <= min
      BY <1>c
    <3>3. \A t \in PollingThreadSlots : t <= min => t \in 1..min
      BY <1>c
    <3> QED
      BY <3>1, <3>2, <3>3
  <2>2. pollingThreads' \in Seq(PollingThreadSlots) /\ Len(pollingThreads') = min
    BY <1>c, <1>1
  <2>3. \A i \in 1..min : pollingThreads'[i] = i /\ at'[i] # "unborn"
    BY <1>c, <1>1
  <2> HIDE DEF min
  <2> QED
    BY <2>1, <2>2, <2>3, <1>c DEF SlotsInOrder
<1> QED
  BY <1>3, <1>4, <1>5, <1>6 DEF PollingInv

\* What Redistribute() makes of the threads: with the slots 1..k used so far, the
\* first threads stay and the slots that follow are used.
ThreadsNow(k, groups) ==
    [i \in 1..groups |-> IF i <= Len(pollingThreads) THEN pollingThreads[i] ELSE k + i - Len(pollingThreads)]
NewThreads(k, groups) == {ThreadsNow(k, groups)[i] : i \in 1..groups} \ (1..k)

LEMMA ThreadsAre ==
    ASSUME PollingInv, NEW k \in Nat, {t \in PollingThreadSlots : at[t] # "unborn"} = 1..k,
           NEW groups \in Nat \ {0}, NewThreads(k, groups) \subseteq PollingThreadSlots
    PROVE  /\ ThreadsNow(k, groups) \in Seq(PollingThreadSlots) /\ Len(ThreadsNow(k, groups)) = groups
           /\ \A i, j \in 1..groups : ThreadsNow(k, groups)[i] = ThreadsNow(k, groups)[j] => i = j
           /\ \A i \in 1..groups : ThreadsNow(k, groups)[i] \in 1..k =>
                 i <= Len(pollingThreads) /\ ThreadsNow(k, groups)[i] = pollingThreads[i]
           /\ \E m \in Nat : (1..k) \cup NewThreads(k, groups) = 1..m
<1> DEFINE now == ThreadsNow(k, groups)
           new == NewThreads(k, groups)
<1>n. now = [i \in 1..groups |-> IF i <= Len(pollingThreads) THEN pollingThreads[i]
                                 ELSE k + i - Len(pollingThreads)]
  BY DEF ThreadsNow
<1>w. new = {now[i] : i \in 1..groups} \ (1..k) /\ new \subseteq PollingThreadSlots
  BY DEF NewThreads
<1> HIDE DEF now, new
<1> DEFINE had == Len(pollingThreads)
<1>t. pollingThreads \in Seq(PollingThreadSlots) /\ had \in Nat
  BY DEF PollingInv, SlotsInOrder
<1>1. \A i \in 1..had : pollingThreads[i] \in PollingThreadSlots /\ at[pollingThreads[i]] # "unborn"
  BY <1>t DEF PollingInv, SlotsInOrder
<1>2. \A i \in 1..had : pollingThreads[i] \in 1..k
  BY <1>1
<1>3. \A i, j \in 1..had : pollingThreads[i] = pollingThreads[j] => i = j
  BY <1>t DEF PollingInv, SlotsInOrder
<1>4. 1..k \subseteq PollingThreadSlots
  OBVIOUS
<1> HIDE DEF had
<1>5. ASSUME NEW i \in 1..groups
      PROVE  /\ i <= had => now[i] = pollingThreads[i] /\ now[i] \in 1..k
             /\ i > had => now[i] = k + i - had /\ now[i] \in Nat /\ now[i] > k /\ now[i] \notin 1..k
  <2>1. now[i] = IF i <= had THEN pollingThreads[i] ELSE k + i - had
    BY <1>n DEF had
  <2>2. ASSUME i <= had PROVE now[i] = pollingThreads[i] /\ now[i] \in 1..k
    <3>1. i \in 1..had
      BY <1>t, <2>2
    <3> QED
      BY <2>1, <2>2, <3>1, <1>2
  <2>3. ASSUME i > had PROVE now[i] = k + i - had /\ now[i] \in Nat /\ now[i] > k /\ now[i] \notin 1..k
    <3>1. now[i] = k + i - had
      BY <2>1, <2>3, <1>t
    <3>2. k + i - had \in Nat /\ k + i - had > k
      BY <2>3, <1>t
    <3> QED
      BY <3>1, <3>2
  <2> QED
    BY <2>2, <2>3
<1>6. ASSUME NEW i \in 1..groups PROVE now[i] \in PollingThreadSlots
  BY <1>4, <1>w
<1>7. now \in Seq(PollingThreadSlots) /\ Len(now) = groups
  BY <1>6, <1>n
<1>8. ASSUME NEW i \in 1..groups, NEW j \in 1..groups, now[i] = now[j] PROVE i = j
  <2>1. CASE i <= had /\ j <= had
    <3>1. i \in 1..had /\ j \in 1..had /\ pollingThreads[i] = pollingThreads[j]
      BY <2>1, <1>5, <1>8, <1>t
    <3> QED
      BY <3>1, <1>3
  <2>2. CASE i > had /\ j > had
    <3>1. k + i - had = k + j - had
      BY <2>2, <1>5, <1>8
    <3> QED
      BY <3>1, <1>t
  <2>3. ~ (i <= had /\ j > had) /\ ~ (i > had /\ j <= had)
    BY <1>5, <1>8
  <2> QED
    BY <2>1, <2>2, <2>3, <1>t
<1>9. ASSUME NEW i \in 1..groups, now[i] \in 1..k PROVE i <= had /\ now[i] = pollingThreads[i]
  <2>1. i <= had \/ i > had
    BY <1>t
  <2> QED
    BY <2>1, <1>5, <1>9
<1>10. \E m \in Nat : (1..k) \cup new = 1..m
  <2>1. CASE groups <= had
    <3>1. \A i \in 1..groups : now[i] \in 1..k
      BY <2>1, <1>5, <1>t
    <3>2. (1..k) \cup new = 1..k
      BY <3>1, <1>w
    <3> QED
      BY <3>2
  <2>2. CASE groups > had
    <3> DEFINE m == k + groups - had
    <3>1. m \in Nat /\ m >= k
      BY <2>2, <1>t
    <3>2. ASSUME NEW t \in new PROVE t \in 1..m
      <4>1. PICK i \in 1..groups : t = now[i] /\ now[i] \notin 1..k
        BY <3>2, <1>w
      <4>2. i > had
        BY <4>1, <1>5, <1>t
      <4> QED
        BY <4>1, <4>2, <1>5, <1>t
    <3>3. ASSUME NEW t \in 1..m, t \notin 1..k PROVE t \in new
      <4>1. t - k + had \in 1..groups /\ t - k + had > had
        BY <3>3, <1>t
      <4>2. now[t - k + had] = k + (t - k + had) - had /\ now[t - k + had] \notin 1..k
        BY <4>1, <1>5
      <4>3. k + (t - k + had) - had = t
        BY <1>t, <3>3
      <4> QED
        BY <4>1, <4>2, <4>3, <1>w
    <3>4. 1..k \subseteq 1..m
      BY <3>1
    <3> HIDE DEF m
    <3>5. (1..k) \cup new = 1..m
      BY <3>2, <3>3, <3>4
    <3> QED
      BY <3>1, <3>5
  <2>3. groups <= had \/ groups > had
    BY <1>t
  <2> QED
    BY <2>1, <2>2, <2>3
<1> QED
  BY <1>7, <1>8, <1>9, <1>10 DEF had, now, new

LEMMA RedistributeStep == PollingInv /\ Redistribute => PollingInv'
<1> SUFFICES ASSUME PollingInv, Redistribute PROVE PollingInv'
  OBVIOUS
<1>t. PollingFlagTypes /\ PollingTypes /\ Signals /\ Barrier /\ NotStarted /\ SlotsInOrder
  BY DEF PollingInv
<1>k. \A t \in PollingThreadSlots : ThreadOK(t)
  BY DEF PollingInv
<1> DEFINE groups == Groups(listLength)
           born == {t \in PollingThreadSlots : at[t] # "unborn"}
           had == Len(pollingThreads)
           now == [i \in 1..groups |-> IF i <= had THEN pollingThreads[i] ELSE Cardinality(born) + i - had]
           place(t) == CHOOSE i \in 1..groups : now[i] = t
           all == {now[i] : i \in 1..groups}
           kept == all \cap born
           new == all \ born
<1>1. /\ updating = "divide" /\ updating' = "unabort" /\ new \subseteq PollingThreadSlots
      /\ pollingThreads' = now
      /\ offset' = [t \in PollingThreadSlots |->
            IF t \in kept \cup new THEN OffsetOf(listLength, groups, place(t)) ELSE offset[t]]
      /\ number' = [t \in PollingThreadSlots |->
            IF t \in kept \cup new THEN Share(listLength, groups, place(t)) ELSE number[t]]
      /\ retired' = retired \cup (Current \ kept)
      /\ join' = ResetJoinEvents(kept)
      /\ at' = [t \in PollingThreadSlots |-> IF t \in new THEN "loop" ELSE at[t]]
  BY DEF Redistribute
<1>2. UNCHANGED <<wsaStarted, wsaCancelled, waitFlag, abortIOWaitEvent, listLength, version, refresh,
                  synced, local, stopping, trust>>
  BY DEF Redistribute, flags
<1>3. PICK k \in Nat : born = 1..k
  BY <1>t DEF SlotsInOrder
<1>4. Cardinality(born) = k
  <2>1. Cardinality(1..k) = IF 1 > k THEN 0 ELSE k - 1 + 1
    BY FS_Interval
  <2>2. Cardinality(1..k) = k
    BY <2>1
  <2> HIDE DEF born
  <2> QED
    BY <2>2, <1>3
<1>n. listLength \in Nat
  BY <1>t DEF PollingTypes
<1>g. groups \in Nat \ {0}
  BY <1>n, GroupsSuffice
<1> HIDE DEF groups
<1>5. /\ now \in Seq(PollingThreadSlots) /\ Len(now) = groups
      /\ \A i, j \in 1..groups : now[i] = now[j] => i = j
      /\ \A i \in 1..groups : now[i] \in born => i <= had /\ now[i] = pollingThreads[i]
      /\ \E m \in Nat : born \cup new = 1..m
  <2>1. now = ThreadsNow(k, groups)
    BY <1>4 DEF ThreadsNow
  <2>2. new = NewThreads(k, groups)
    BY <2>1, <1>3 DEF NewThreads
  <2>3. {t \in PollingThreadSlots : at[t] # "unborn"} = 1..k /\ new \subseteq PollingThreadSlots
    BY <1>1, <1>3
  <2> HIDE DEF now, new, born
  <2> QED
    BY <2>1, <2>2, <2>3, <1>3, <1>g, ThreadsAre
<1>h. had \in Nat /\ \A i \in 1..had : pollingThreads[i] \in Current
  BY <1>t DEF SlotsInOrder, Current
<1>d. Current \subseteq PollingThreadSlots
  BY <1>t DEF SlotsInOrder, Current
<1> HIDE DEF now
<1>6. \A i \in 1..groups : now[i] \in all /\ now[i] \in PollingThreadSlots
  BY <1>5
<1>7. \A i \in 1..groups : place(now[i]) = i
  BY <1>5
<1>8. \A t \in all : place(t) \in 1..groups /\ now[place(t)] = t
  OBVIOUS
<1>9. kept \cup new = all /\ all \subseteq PollingThreadSlots
  BY <1>6
<1>10. Current' = all
  <2>1. DOMAIN now = 1..groups
    BY DEF now
  <2> QED
    BY <2>1, <1>1 DEF Current
<1> HIDE DEF place
<1>11. ASSUME NEW i \in 1..groups
       PROVE  /\ offset'[now[i]] = OffsetOf(listLength, groups, i)
              /\ number'[now[i]] = Share(listLength, groups, i)
  BY <1>1, <1>6, <1>7, <1>9
<1>12. ASSUME NEW i \in 1..groups
       PROVE  OffsetOf(listLength, groups, i) \in Nat /\ Share(listLength, groups, i) \in Nat
  BY <1>n, <1>g, SharesFollow
<1>13. offset' \in [PollingThreadSlots -> Nat] /\ number' \in [PollingThreadSlots -> Nat]
  <2>1. \A t \in kept \cup new : OffsetOf(listLength, groups, place(t)) \in Nat
                                 /\ Share(listLength, groups, place(t)) \in Nat
    BY <1>8, <1>9, <1>12
  <2> QED
    BY <2>1, <1>1, <1>t DEF PollingTypes
<1> HIDE DEF all, kept, new, born
<1>14. ASSUME NEW t \in PollingThreadSlots
       PROVE  /\ t \in new => at[t] = "unborn" /\ at'[t] = "loop" /\ join'[t] = join[t]
              /\ t \notin new => at'[t] = at[t]
              /\ t \in kept => ~ join'[t]
              /\ join'[t] => join[t]
  <2>1. at'[t] = IF t \in new THEN "loop" ELSE at[t]
    BY <1>1
  <2>2. join'[t] = IF t \in kept THEN FALSE ELSE join[t]
    BY <1>1 DEF ResetJoinEvents
  <2>3. t \in new => at[t] = "unborn" /\ t \notin kept
    BY DEF new, kept, born
  <2>4. t \in new => at'[t] = "loop"
    BY <2>1
  <2>5. t \notin new => at'[t] = at[t]
    BY <2>1
  <2>6. t \in kept => ~ join'[t]
    BY <2>2
  <2>7. t \notin kept => join'[t] = join[t]
    BY <2>2
  <2> QED
    BY <2>3, <2>4, <2>5, <2>6, <2>7
<1>15. join' \in [PollingThreadSlots -> BOOLEAN]
  BY <1>1, <1>t DEF ResetJoinEvents, PollingFlagTypes
<1>16. PollingFlagTypes'
  BY <1>2, <1>15, <1>t DEF PollingFlagTypes
<1>17. PollingTypes'
  <2>1. at' \in [PollingThreadSlots -> PollingPlaces]
    BY <1>1, <1>t DEF PollingTypes, PollingPlaces
  <2>2. retired' \subseteq PollingThreadSlots
    BY <1>1, <1>d, <1>t DEF PollingTypes
  <2> QED
    BY <2>1, <2>2, <1>1, <1>2, <1>13, <1>t DEF PollingTypes, Phases
<1>18. Signals'
  BY <1>1, <1>2, <1>t DEF Signals
<1>19. NotStarted'
  BY <1>1, <1>2, <1>t DEF NotStarted
<1>20. ASSUME NEW t \in PollingThreadSlots PROVE ThreadOK(t)'
  <2>1. ThreadOK(t)
    BY <1>k
  <2>2. CASE t \in new
    BY <2>1, <2>2, <1>14, <1>2 DEF ThreadOK
  <2>3. CASE t \notin new
    BY <2>1, <2>3, <1>14, <1>2 DEF ThreadOK
  <2> QED
    BY <2>2, <2>3
<1>21. SlotsInOrder'
  <2>1. \A t \in PollingThreadSlots : at'[t] # "unborn" <=> t \in born \cup new
    BY <1>14 DEF born
  <2>2. born \cup new \subseteq PollingThreadSlots
    BY <1>1 DEF born
  <2>3. {t \in PollingThreadSlots : at'[t] # "unborn"} = born \cup new
    BY <2>1, <2>2
  <2>4. \E m \in Nat : {t \in PollingThreadSlots : at'[t] # "unborn"} = 1..m
    BY <2>3, <1>5
  <2>5. ASSUME NEW i \in 1..Len(pollingThreads'), NEW j \in 1..Len(pollingThreads')
        PROVE  /\ at'[pollingThreads'[i]] # "unborn"
               /\ pollingThreads'[i] = pollingThreads'[j] => i = j
    <3>1. i \in 1..groups /\ j \in 1..groups /\ pollingThreads' = now
      BY <1>1, <1>5
    <3>2. now[i] \in born \cup new /\ now[i] \in PollingThreadSlots
      BY <3>1, <1>6, <1>9 DEF kept
    <3> QED
      BY <3>1, <3>2, <2>1, <1>5
  <2>6. pollingThreads' \in Seq(PollingThreadSlots)
    BY <1>1, <1>5
  <2> QED
    BY <2>4, <2>5, <2>6 DEF SlotsInOrder
<1>22. Barrier'
  <2> SUFFICES ASSUME trust', NEW t \in Current' PROVE Follows(t)' /\ HasList(t)'
    BY DEF Barrier
  <2>1. t \in PollingThreadSlots /\ t \in kept \cup new
    BY <1>9, <1>10
  <2>2. CASE t \in new
    <3>1. at'[t] = "loop" /\ ~ join'[t] /\ refresh'[t] /\ ~ synced'[t]
      BY <2>1, <2>2, <1>2, <1>14, <1>k DEF ThreadOK
    <3>2. Follows(t)'
      BY <3>1, <1>1 DEF Follows, IsNew
    <3>3. HasList(t)'
      BY <3>1 DEF HasList
    <3> QED
      BY <3>2, <3>3
  <2>3. CASE t \in kept /\ t \notin new
    <3>1. PICK i \in 1..groups : t = now[i]
      BY <2>3 DEF kept, all
    <3>2. i \in 1..had /\ t = pollingThreads[i]
      BY <2>3, <3>1, <1>5, <1>h DEF kept
    <3>3. t \in Current /\ trust
      BY <3>2, <1>h, <1>2
    <3>4. IsPaused(t)
      BY <3>3, <1>1, <1>t DEF Barrier, Follows
    <3>5. at'[t] \in {"paused", "ended"} /\ ~ join'[t]
      BY <2>1, <2>3, <3>4, <1>14 DEF IsPaused
    <3>6. Follows(t)'
      BY <3>5, <1>1 DEF Follows
    <3>7. HasList(t)'
      BY <3>5 DEF HasList
    <3> QED
      BY <3>6, <3>7
  <2> QED
    BY <2>1, <2>2, <2>3
<1>23. Divided'
  <2>1. Len(pollingThreads') = groups /\ pollingThreads' = now /\ listLength' = listLength
    BY <1>1, <1>2, <1>5
  <2>2. Len(pollingThreads') = Groups(listLength')
    BY <2>1 DEF groups
  <2>3. ASSUME NEW i \in 1..Len(pollingThreads')
        PROVE  /\ offset'[pollingThreads'[i]] = OffsetOf(listLength', Len(pollingThreads'), i)
               /\ number'[pollingThreads'[i]] = Share(listLength', Len(pollingThreads'), i)
    BY <2>1, <1>11
  <2> QED
    BY <2>2, <2>3 DEF Divided
<1> QED
  BY <1>16, <1>17, <1>18, <1>19, <1>20, <1>21, <1>22, <1>23 DEF PollingInv

LEMMA PollingInvHolds == WSASpec => []PollingInv
<1>1. PollingInv /\ [WSANext]_wsaVars => PollingInv'
  <2> SUFFICES ASSUME PollingInv, [WSANext]_wsaVars PROVE PollingInv'
    OBVIOUS
  <2>1. CASE UNCHANGED wsaVars
    <3>1. UNCHANGED <<wsaStarted, wsaCancelled, waitFlag, abortIOWaitEvent, listLength, version,
                      pollingThreads, offset, number, retired, join, at, refresh, synced, local,
                      updating, stopping, trust>>
      BY <2>1 DEF wsaVars, flags, shares, threadVars
    <3>2. PollingFlagTypes' /\ PollingTypes'
      BY <3>1 DEF PollingInv, PollingFlagTypes, PollingTypes
    <3>5. Signals' /\ NotStarted' /\ SlotsInOrder'
      BY <3>1 DEF PollingInv, Signals, NotStarted, SlotsInOrder
    <3>3. \A t \in PollingThreadSlots : ThreadOK(t)'
      BY <3>1 DEF PollingInv, ThreadOK
    <3>4. Barrier' /\ Divided'
      BY <3>1 DEF PollingInv, Barrier, Current, Follows, HasList, Works, IsNew, IsPaused, Divided
    <3> QED
      BY <3>2, <3>3, <3>4, <3>5 DEF PollingInv
  <2>2. CASE WSAStart \/ Pause \/ WSAStopCancels \/ WSAStopLocks \/ WSAStopReturns
    BY <2>2, StartStep, PauseStep, StopStep
  <2>3. CASE UpdateSessions
    BY <2>3, SetAbortStep, PausedStep, ChangeListStep, RedistributeStep, ResetAbortStep, ContinueStep,
       ResumedStep, UpdateReturnsStep DEF UpdateSessions
  <2>4. ASSUME NEW t \in PollingThreadSlots, PollingThread(t) PROVE PollingInv'
    BY <2>4, PollingThreadStep
  <2> QED
    BY <2>1, <2>2, <2>3, <2>4 DEF WSANext
<1> QED
  BY <1>1, PollingInvInit, PTL DEF WSASpec

\* The Windows producer's state has its types.
THEOREM PollingTyped == WSASpec => []WSATypeOK
<1>1. PollingInv => WSATypeOK
  <2> SUFFICES ASSUME PollingInv PROVE WSATypeOK
    OBVIOUS
  <2>1. flags \in BOOLEAN \X BOOLEAN \X BOOLEAN \X BOOLEAN
    BY DEF PollingInv, PollingFlagTypes, flags
  <2>2. pollingThreads \in Seq(PollingThreadSlots)
    BY DEF PollingInv, SlotsInOrder
  <2>3. join \in [PollingThreadSlots -> BOOLEAN] /\ refresh \in [PollingThreadSlots -> BOOLEAN]
        /\ synced \in [PollingThreadSlots -> BOOLEAN] /\ trust \in BOOLEAN
    BY DEF PollingInv, PollingFlagTypes
  <2>4. PollingTypes
    BY DEF PollingInv
  <2> QED
    BY <2>1, <2>2, <2>3, <2>4 DEF WSATypeOK, PollingTypes, PollingPlaces, Phases
<1> QED
  BY <1>1, PollingInvHolds, PTL

LEMMA EverySessionHasItsThreadLemma == PollingInv => EverySessionHasItsThread
<1> SUFFICES ASSUME PollingInv, trust, updating = "idle", ~ wsaCancelled
             PROVE  /\ \A t \in Current :
                          /\ at[t] \notin {"joining", "paused", "resumed"}
                          /\ at[t] \notin {"exit", "ended"} => WorksOn(t).version = version
                          /\ number[t] <= maximumEventsPerPollingThread
                    /\ \A i \in 0..listLength - 1 :
                          Cardinality({t \in Current : offset[t] <= i /\ i < offset[t] + number[t]}) = 1
  BY DEF EverySessionHasItsThread
<1> DEFINE groups == Len(pollingThreads)
           thread(j) == pollingThreads[j]
<1>t. PollingTypes /\ SlotsInOrder /\ Barrier /\ Divided
  BY DEF PollingInv
<1>1. listLength \in Nat /\ groups = Groups(listLength) /\ groups \in Nat \ {0}
  BY <1>t, GroupsSuffice DEF PollingTypes, Divided
<1>2. ASSUME NEW j \in 1..groups
      PROVE  /\ thread(j) \in Current /\ offset[thread(j)] = OffsetOf(listLength, groups, j)
             /\ number[thread(j)] = Share(listLength, groups, j)
  BY <1>t DEF Divided, SlotsInOrder, Current
<1>3. ASSUME NEW t \in Current PROVE \E j \in 1..groups : t = thread(j)
  BY <1>t DEF SlotsInOrder, Current
<1> HIDE DEF groups, thread
<1>4. ASSUME NEW t \in Current
      PROVE  /\ at[t] \notin {"joining", "paused", "resumed"}
             /\ at[t] \notin {"exit", "ended"} => WorksOn(t).version = version
             /\ number[t] <= maximumEventsPerPollingThread
  <2>1. Follows(t) /\ HasList(t)
    BY <1>t DEF Barrier
  <2>2. at[t] \notin {"joining", "paused", "resumed"}
    BY <2>1 DEF Follows, Works
  <2>3. ASSUME at[t] \notin {"exit", "ended"} PROVE WorksOn(t).version = version
    <3>1. refresh[t] \/ local[t].version = version
      BY <2>1, <2>2, <2>3 DEF HasList
    <3> QED
      BY <3>1 DEF WorksOn
  <2>4. number[t] <= maximumEventsPerPollingThread
    <3>1. PICK j \in 1..groups : t = thread(j)
      BY <1>3
    <3>2. number[t] = Share(listLength, groups, j)
      BY <3>1, <1>2
    <3> QED
      BY <3>2, <1>1, SharesAreSmall
  <2> QED
    BY <2>2, <2>3, <2>4
<1>5. ASSUME NEW i \in 0..listLength - 1
      PROVE  Cardinality({t \in Current : offset[t] <= i /\ i < offset[t] + number[t]}) = 1
  <2>1. PICK j \in 1..groups : /\ InShare(listLength, groups, j, i)
                               /\ \A k \in 1..groups : InShare(listLength, groups, k, i) => k = j
    BY <1>1, OneShareHasIt
  <2>2. {t \in Current : offset[t] <= i /\ i < offset[t] + number[t]} = {thread(j)}
    <3>1. thread(j) \in Current /\ offset[thread(j)] <= i /\ i < offset[thread(j)] + number[thread(j)]
      BY <2>1, <1>2 DEF InShare
    <3>2. ASSUME NEW t \in Current, offset[t] <= i, i < offset[t] + number[t] PROVE t = thread(j)
      <4>1. PICK k \in 1..groups : t = thread(k)
        BY <1>3
      <4>2. InShare(listLength, groups, k, i)
        BY <3>2, <4>1, <1>2 DEF InShare
      <4> QED
        BY <2>1, <4>1, <4>2
    <3> QED
      BY <3>1, <3>2
  <2> QED
    BY <2>2, FS_Singleton
<1> QED
  BY <1>4, <1>5

\* An update of the list reaches every polling thread whole, and none while it works:
\* for any threads, groups and sessions (vwsaeventproducer.cpp 176-193 and 212-320).
THEOREM UpdatesWhole == WSASpec => []UpdatesAreWhole
<1>1. PollingInv => JoinMeansPaused
  BY DEF PollingInv, Barrier, JoinMeansPaused, Follows
<1>2. PollingInv => UpdatesAreWhole
  BY <1>1, EverySessionHasItsThreadLemma DEF UpdatesAreWhole
<1> QED
  BY <1>2, PollingInvHolds, PTL

=============================================================================
