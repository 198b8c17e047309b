-------------------------- MODULE VClientSession --------------------------
(***************************************************************************)
(* The server side of one listener: VListenerThread accepts connections    *)
(* and has a session made for each; a VClientSession ties a socket to a    *)
(* VMessageInputThread and, when it is asynchronous, a                     *)
(* VMessageOutputThread; VServer lists the sessions; an application thread *)
(* broadcasts and shuts sessions down; an administrator stops a socket     *)
(* thread and then the listener.                                           *)
(*                                                                         *)
(* A section run under a session's mMutex is one action unless it blocks   *)
(* there (a synchronous send).  Whatever crosses a mutex boundary, a       *)
(* blocking call or the start or end of a thread is a step of its own.     *)
(* The output queue is the FIFO of VMessageQueue, whose blocking get       *)
(* returns null within five seconds.  Time limits are a choice: once a     *)
(* period has begun it may be over at any later call.                      *)
(***************************************************************************)
EXTENDS Naturals, Sequences, FiniteSets

CONSTANTS
    Sessions,           \* the connections that may be accepted
    MaxMessages,        \* bound: broadcasts and queued replies in a behaviour
    MaxQueueSize,       \* mMaxQueueSize of an output thread; 0 is no limit
    MaxStandbySize,     \* mMaxClientQueueDataSize, in messages; 0 is no limit
    HasGracePeriod,     \* mMaxQueueGracePeriod # ZERO
    MayStop,            \* bound: does the administrator stop the listener?
    None

In(s) == <<"in", s>>
Out(s) == <<"out", s>>
Threads == {"in", "out"} \X Sessions
\* Every thread that takes a mutex here.
Listener == <<"listener", None>>
App == <<"app", None>>
Admin == <<"admin", None>>
Actors == Threads \cup {Listener, App, Admin}
Broadcasts == 1..MaxMessages
Reply == 0                                  \* a message posted by a handler

ASSUME ConstantsAssumption ==
    /\ MaxMessages \in Nat /\ MaxQueueSize \in Nat /\ MaxStandbySize \in Nat
    /\ HasGracePeriod \in BOOLEAN /\ MayStop \in BOOLEAN
    /\ None \notin Sessions \cup Actors /\ None \notin {Reply} \cup Broadcasts

VARIABLES
    \* the listener, the server's list and the listener's list
    lpc, lcur, mShouldListen, lRunning, mSocketThreads, mSessions, registered,
    \* the mutexes: mSocketThreadsMutex, mSessionsMutex, each session's mMutex
    threadsOwner, sessionsOwner, sessionOwner,
    \* the threads: control point, mIsRunning, mSocket # NULL, mHasOutputThread
    pc, isRunning, hasSocket, mHasOutputThread,
    \* the sessions: who holds a VClientSessionPtr, and the fields
    isAsync, holders, mIsShuttingDown, mInputThread, mOutputThread, clientState,
    \* the sockets, and what the peers are doing
    sock, peer,
    \* the messages
    posted, standby, standbyBegun, outQueue, wasOverLimit, refused, inHand,
    \* histories: the broadcasts each session has taken on, and has sent
    accepted, sent,
    \* the application thread and the administrator
    apppc, appMessage, appTodo, appSession, adminpc, adminTodo, adminTarget

listenerVars == <<lpc, lcur, mShouldListen, lRunning, registered>>
listVars == <<mSocketThreads, mSessions>>
lockVars == <<threadsOwner, sessionsOwner, sessionOwner>>
threadVars == <<pc, isRunning, hasSocket, mHasOutputThread>>
sessionVars == <<isAsync, holders, mIsShuttingDown, mInputThread, mOutputThread, clientState>>
ioVars == <<sock, peer>>
messageVars == <<posted, standby, standbyBegun, outQueue, wasOverLimit, refused, inHand,
                 accepted, sent>>
appVars == <<apppc, appMessage, appTodo, appSession>>
adminVars == <<adminpc, adminTodo, adminTarget>>

vars == <<lpc, lcur, mShouldListen, lRunning, mSocketThreads, mSessions, registered,
          threadsOwner, sessionsOwner, sessionOwner, pc, isRunning, hasSocket,
          mHasOutputThread, isAsync, holders, mIsShuttingDown, mInputThread, mOutputThread,
          clientState, sock, peer, posted, standby, standbyBegun, outQueue, wasOverLimit,
          refused, inHand, accepted, sent, apppc, appMessage, appTodo, appSession, adminpc, adminTodo,
          adminTarget>>

Init ==
    /\ lpc = "accept" /\ lcur = None /\ mShouldListen = TRUE /\ lRunning = TRUE
    /\ mSocketThreads = {} /\ mSessions = {} /\ registered = {}
    /\ threadsOwner = None /\ sessionsOwner = None
    /\ sessionOwner = [s \in Sessions |-> None]
    /\ pc = [t \in Threads |-> "unborn"]
    /\ isRunning = [t \in Threads |-> FALSE]
    /\ hasSocket = [t \in Threads |-> FALSE]
    /\ mHasOutputThread = [s \in Sessions |-> FALSE]
    /\ isAsync \in [Sessions -> BOOLEAN]
    /\ holders = [s \in Sessions |-> {}]
    /\ mIsShuttingDown = [s \in Sessions |-> FALSE]
    /\ mInputThread = [s \in Sessions |-> FALSE]
    /\ mOutputThread = [s \in Sessions |-> FALSE]
    /\ clientState = [s \in Sessions |-> "starting"]
    /\ sock = [s \in Sessions |-> "none"]
    /\ peer = [s \in Sessions |-> "none"]
    /\ posted = 0
    /\ standby = [s \in Sessions |-> <<>>]
    /\ standbyBegun = [s \in Sessions |-> FALSE]
    /\ outQueue = [s \in Sessions |-> <<>>]
    /\ wasOverLimit = [s \in Sessions |-> FALSE]
    /\ refused = [s \in Sessions |-> FALSE]
    /\ inHand = [s \in Sessions |-> None]
    /\ accepted = [s \in Sessions |-> <<>>]
    /\ sent = [s \in Sessions |-> <<>>]
    /\ apppc = "idle" /\ appMessage = None /\ appTodo = {} /\ appSession = None
    /\ adminpc = "idle" /\ adminTodo = {} /\ adminTarget = None

Goto(t, label) == pc' = [pc EXCEPT ![t] = label]

\* The last reference to a session gone, ~VClientSession releases the standby
\* queue and deletes the socket.
ReleaseSession(s, listed) ==
    LET isLast == holders'[s] = {} /\ s \notin listed
    IN  /\ sock' = [sock EXCEPT ![s] = IF isLast THEN "deleted" ELSE @]
        /\ standby' = [standby EXCEPT ![s] = IF isLast THEN <<>> ELSE @]

-----------------------------------------------------------------------------
(* VListenerThread::run and _runListening *)

\* A connection arrives while the listener is in accept(), which it may have
\* entered before it was told to stop.
Accept(s) ==
    /\ lpc = "accept"
    /\ sock[s] = "none"
    /\ sock' = [sock EXCEPT ![s] = "open"]
    /\ peer' = [peer EXCEPT ![s] = "reading"]
    /\ lcur' = s
    /\ lpc' = "accepted"
    /\ UNCHANGED <<mShouldListen, lRunning, registered, listVars, lockVars, threadVars,
                   sessionVars, messageVars, appVars, adminVars>>

\* accept() throws: the listener gives up listening.  (Bound: only while a
\* connection may still come; nothing would tell a later failure apart.)
AcceptThrows ==
    /\ lpc = "accept"
    /\ \E s \in Sessions : sock[s] = "none"
    /\ mShouldListen' = FALSE
    /\ lpc' = "quiet"
    /\ UNCHANGED <<lcur, lRunning, registered, listVars, lockVars, threadVars, sessionVars,
                   ioVars, messageVars, appVars, adminVars>>

\* accept() timed out and the loops look at the flags again: the thread is
\* quiet from now on, asleep until it is told to stop, and then ended.
StopListening ==
    /\ lpc = "accept"
    /\ ~ (mShouldListen /\ lRunning)
    /\ lpc' = "quiet"
    /\ UNCHANGED <<lcur, mShouldListen, lRunning, registered, listVars, lockVars, threadVars,
                   sessionVars, ioVars, messageVars, appVars, adminVars>>

\* Under mSocketThreadsMutex the factory builds the threads and the session:
\* the output thread's constructor marks the input thread as dependent on it.
CreateSession ==
    /\ lpc = "accepted"
    /\ threadsOwner = None
    /\ threadsOwner' = Listener
    /\ pc' = [t \in Threads |-> IF t = In(lcur) \/ (t = Out(lcur) /\ isAsync[lcur])
                                THEN "new" ELSE pc[t]]
    /\ hasSocket' = [t \in Threads |-> hasSocket[t] \/ pc'[t] = "new"]
    /\ mHasOutputThread' = [mHasOutputThread EXCEPT ![lcur] = isAsync[lcur]]
    /\ mInputThread' = [mInputThread EXCEPT ![lcur] = TRUE]
    /\ mOutputThread' = [mOutputThread EXCEPT ![lcur] = isAsync[lcur]]
    /\ holders' = [holders EXCEPT ![lcur] = {"listener"}]
    /\ lpc' = "startInput"
    /\ UNCHANGED <<lcur, mShouldListen, lRunning, registered, listVars, sessionsOwner,
                   sessionOwner, isRunning, isAsync, mIsShuttingDown, clientState, ioVars,
                   messageVars, appVars, adminVars>>

\* variant: started with no session attached
StartUnattached(t, s) ==
    /\ pc[t] = "new"
    /\ Goto(t, "loop")
    /\ isRunning' = [isRunning EXCEPT ![t] = TRUE]
    /\ UNCHANGED <<lcur, mShouldListen, lRunning, registered, listVars, lockVars, hasSocket,
                   mHasOutputThread, sessionVars, ioVars, messageVars, appVars, adminVars>>

\* VThread::start(), after attachSession().
Start(t, s) ==
    /\ pc[t] = "new"
    /\ Goto(t, "loop")
    /\ isRunning' = [isRunning EXCEPT ![t] = TRUE]
    /\ holders' = [holders EXCEPT ![s] = @ \cup {t[1]}]
    /\ UNCHANGED <<lcur, mShouldListen, lRunning, registered, listVars, lockVars, hasSocket,
                   mHasOutputThread, isAsync, mIsShuttingDown, mInputThread, mOutputThread,
                   clientState, ioVars, messageVars, appVars, adminVars>>

\* initIOThreads() starts the input thread first.
StartInput ==
    /\ lpc = "startInput"
    /\ Start(In(lcur), lcur)
    /\ lpc' = IF isAsync[lcur] THEN "startOutput" ELSE "track"

StartOutput ==
    /\ lpc = "startOutput"
    /\ Start(Out(lcur), lcur)
    /\ lpc' = "track"

\* The threads the session still points to enter the listener's list.
TrackThreads ==
    /\ lpc = "track"
    /\ mSocketThreads' = mSocketThreads
          \cup (IF mInputThread[lcur] THEN {In(lcur)} ELSE {})
          \cup (IF mOutputThread[lcur] THEN {Out(lcur)} ELSE {})
    /\ lpc' = "add"
    /\ UNCHANGED <<lcur, mShouldListen, lRunning, registered, mSessions, lockVars, threadVars,
                   sessionVars, ioVars, messageVars, appVars, adminVars>>

\* addSessionToServer(), after which the listener drops its pointer and
\* leaves the section under mSocketThreadsMutex and its loop looks at the flags.
AddToServer ==
    /\ lpc = "add"
    /\ sessionsOwner = None
    /\ mSessions' = mSessions \cup {lcur}
    /\ registered' = IF mIsShuttingDown[lcur] THEN registered ELSE registered \cup {lcur}
    /\ holders' = [holders EXCEPT ![lcur] = @ \ {"listener"}]
    /\ threadsOwner' = None
    /\ lcur' = None
    /\ lpc' = IF mShouldListen /\ lRunning THEN "accept" ELSE "quiet"
    /\ UNCHANGED <<mShouldListen, lRunning, mSocketThreads, sessionsOwner, sessionOwner,
                   threadVars, isAsync, mIsShuttingDown, mInputThread, mOutputThread,
                   clientState, ioVars, messageVars, appVars, adminVars>>

\* What the listener must finish once begun.
ListenerContinues ==
    StopListening \/ CreateSession \/ StartInput \/ StartOutput \/ TrackThreads \/ AddToServer
ListenerStep == (\E s \in Sessions : Accept(s)) \/ AcceptThrows \/ ListenerContinues

-----------------------------------------------------------------------------
(* VClientSession::postOutputMessage and VMessageOutputThread::
   postOutputMessage, all of it under mMutex *)

Close(s) == sock' = [sock EXCEPT ![s] = IF @ = "open" THEN "closed" ELSE @]
\* A history keeps the broadcasts only.
AppendTo(history, s, m) ==
    [history EXCEPT ![s] = IF m = Reply THEN @ ELSE Append(@, m)]
Enqueue(s, m) ==
    /\ outQueue' = [outQueue EXCEPT ![s] = Append(@, m)]
    /\ accepted' = AppendTo(accepted, s, m)

RefusesPosts(s) == mIsShuttingDown[s] \/ clientState[s] = "goingOffline"

PostRefused(s) ==
    /\ RefusesPosts(s)
    /\ UNCHANGED <<standby, standbyBegun, outQueue, wasOverLimit, refused, accepted, sock,
                   isRunning>>

\* A broadcast to a session that is not online yet goes to the standby queue,
\* unless the queue is full or its time is over: then the socket is closed.
PostStandby(s, m) ==
    /\ ~ RefusesPosts(s) /\ m # Reply /\ clientState[s] = "starting"
    /\ LET isFull == MaxStandbySize > 0 /\ Len(standby[s]) >= MaxStandbySize
       IN  \/ /\ ~ isFull
              /\ standby' = [standby EXCEPT ![s] = Append(@, m)]
              /\ accepted' = AppendTo(accepted, s, m)
              /\ UNCHANGED sock
           \/ /\ isFull \/ standbyBegun[s]
              /\ Close(s)
              /\ UNCHANGED <<standby, accepted>>
    /\ standbyBegun' = [standbyBegun EXCEPT ![s] = TRUE]
    /\ UNCHANGED <<outQueue, wasOverLimit, refused, isRunning>>

\* Otherwise the output thread queues it, within its limits or for as long
\* as the grace period lasts; a post refused for the limit stops the thread.
PostToOutputThread(s, m) ==
    /\ ~ RefusesPosts(s) /\ (m = Reply \/ clientState[s] = "online")
    /\ mOutputThread[s]
    /\ LET isOver == MaxQueueSize # 0 /\ Len(outQueue[s]) >= MaxQueueSize
       IN  \/ /\ ~ isOver
              /\ Enqueue(s, m)
              /\ wasOverLimit' = [wasOverLimit EXCEPT ![s] = FALSE]
              /\ UNCHANGED <<refused, isRunning>>
           \/ /\ isOver /\ (wasOverLimit[s] \/ HasGracePeriod)
              /\ Enqueue(s, m)
              /\ wasOverLimit' = [wasOverLimit EXCEPT ![s] = TRUE]
              /\ UNCHANGED <<refused, isRunning>>
           \/ /\ isOver /\ (wasOverLimit[s] \/ ~ HasGracePeriod)
              /\ refused' = [refused EXCEPT ![s] = TRUE]
              /\ isRunning' = [isRunning EXCEPT ![Out(s)] = FALSE]
              /\ UNCHANGED <<outQueue, wasOverLimit, accepted>>
    /\ UNCHANGED <<standby, standbyBegun, sock>>

\* With no output thread the caller sends on the socket, holding mMutex.
MustSendItself(s, m) ==
    /\ ~ RefusesPosts(s) /\ (m = Reply \/ clientState[s] = "online")
    /\ ~ mOutputThread[s]

Post(s, m) ==
    /\ sessionOwner[s] = None
    /\ PostRefused(s) \/ PostStandby(s, m) \/ PostToOutputThread(s, m)

\* A send returns once the peer reads or has gone, and has succeeded only on a
\* socket still open.  One blocked by a peer that does not read may throw: when
\* the socket has a write timeout, or where the close of the socket wakes it.
SendSucceeds(s) == sock[s] = "open" /\ peer[s] = "reading"
SendFails(s) == peer[s] = "gone" \/ (peer[s] = "reading" /\ sock[s] # "open")
SendGivesUp(s) == peer[s] = "stalled"

-----------------------------------------------------------------------------
(* VClientSession::shutdown *)

\* variant: removeClientSession() called with mMutex still held
LeaveSectionAfterRemove(s, a) == sessionOwner' = [sessionOwner EXCEPT ![s] = a]
\* mMutex is released before the server's mutex is wanted.
LeaveSection(s, a) == UNCHANGED sessionOwner

\* The section under mMutex: the caller's own pointer is cleared, the other
\* thread is told to stop.
ShutdownSection(s, a) ==
    /\ sessionOwner[s] = None
    /\ mIsShuttingDown' = [mIsShuttingDown EXCEPT ![s] = TRUE]
    /\ mInputThread' = [mInputThread EXCEPT ![s] = @ /\ a # In(s)]
    /\ mOutputThread' = [mOutputThread EXCEPT ![s] = @ /\ a # Out(s)]
    /\ isRunning' = [t \in Threads |->
          IF (t = In(s) /\ mInputThread'[s]) \/ (t = Out(s) /\ mOutputThread'[s])
          THEN FALSE ELSE isRunning[t]]
    /\ LeaveSection(s, a)

Shutdown(t, s) ==
    /\ pc[t] = "shutdown"
    /\ ShutdownSection(s, t)
    /\ Goto(t, "remove")
    /\ UNCHANGED <<listenerVars, listVars, threadsOwner, sessionsOwner, hasSocket,
                   mHasOutputThread, isAsync, holders, clientState, ioVars, messageVars,
                   appVars, adminVars>>

\* variant: the session is not found in the list
RemoveNothing(t, s) ==
    /\ pc[t] = "remove"
    /\ sessionsOwner = None
    /\ Goto(t, IF t = In(s) THEN "spin" ELSE "clear")
    /\ UNCHANGED <<listenerVars, listVars, lockVars, isRunning, hasSocket,
                   mHasOutputThread, sessionVars, ioVars, messageVars, appVars, adminVars>>

\* VServer::removeClientSession, which finds nothing if the session is not
\* in the list.
Remove(t, s) ==
    /\ pc[t] = "remove"
    /\ sessionsOwner = None
    /\ mSessions' = mSessions \ {s}
    /\ Goto(t, IF t = In(s) THEN "spin" ELSE "clear")
    /\ UNCHANGED <<listenerVars, mSocketThreads, lockVars, isRunning, hasSocket,
                   mHasOutputThread, sessionVars, ioVars, messageVars, appVars, adminVars>>

\* The thread object is deleted: its destructor clears mSocket, an output
\* thread's releases the queue, and the pointer to the session is dropped.
DropSession(t, s) ==
    /\ pc[t] = "free1"
    /\ hasSocket' = [hasSocket EXCEPT ![t] = FALSE]
    /\ holders' = [holders EXCEPT ![s] = @ \ {t[1]}]
    /\ ReleaseSession(s, mSessions)
    /\ outQueue' = IF t = Out(s) THEN [outQueue EXCEPT ![s] = <<>>] ELSE outQueue
    /\ Goto(t, "free2")
    /\ UNCHANGED <<listenerVars, listVars, lockVars, isRunning, mHasOutputThread, isAsync,
                   mIsShuttingDown, mInputThread, mOutputThread, clientState, peer, posted,
                   standbyBegun, wasOverLimit, refused, inHand, accepted, sent, appVars,
                   adminVars>>

\* ~VSocketThread tells the listener, which waits for mSocketThreadsMutex;
\* ~VThread clears mIsRunning.
SocketThreadEnded(t) ==
    /\ pc[t] = "free2"
    /\ threadsOwner = None
    /\ mSocketThreads' = mSocketThreads \ {t}
    /\ isRunning' = [isRunning EXCEPT ![t] = FALSE]
    /\ Goto(t, "gone")
    /\ UNCHANGED <<listenerVars, mSessions, lockVars, hasSocket, mHasOutputThread,
                   sessionVars, ioVars, messageVars, appVars, adminVars>>

-----------------------------------------------------------------------------
(* VMessageInputThread *)

\* The parts no step of a socket thread touches.
ThreadFrame == <<listenerVars, listVars, threadsOwner, sessionsOwner, hasSocket,
                 mHasOutputThread, isAsync, holders, mIsShuttingDown, mInputThread,
                 mOutputThread, peer, appVars, adminVars>>

\* run() looks at mIsRunning before every blocking read.
InLoop(s) ==
    /\ pc[In(s)] = "loop"
    /\ Goto(In(s), IF isRunning[In(s)] THEN "read" ELSE "shutdown")
    /\ UNCHANGED <<ThreadFrame, sessionOwner, isRunning, clientState, sock, messageVars>>

InReceive(s) ==
    /\ pc[In(s)] = "read"
    /\ sock[s] = "open" /\ peer[s] \in {"reading", "stalled"}
    /\ Goto(In(s), "dispatch")
    /\ UNCHANGED <<ThreadFrame, sessionOwner, isRunning, clientState, sock, messageVars>>

\* VEOFException ends the loop.
InEof(s) ==
    /\ pc[In(s)] = "read"
    /\ peer[s] = "gone"
    /\ Goto(In(s), "shutdown")
    /\ UNCHANGED <<ThreadFrame, sessionOwner, isRunning, clientState, sock, messageVars>>

\* So does any other exception: the socket's read timeout, if it has one, a
\* failed recv(), the close of the socket where that wakes a blocked read, or
\* _handleNoMessageHandler(), of a message without handler, where it answers.
InThrows(s) ==
    /\ pc[In(s)] \in {"read", "dispatch"}
    /\ Goto(In(s), "shutdown")
    /\ UNCHANGED <<ThreadFrame, sessionOwner, isRunning, clientState, sock, messageVars>>

\* A handler that posts nothing, or no handler at all.
HandleQuietly(s) ==
    /\ pc[In(s)] = "dispatch"
    /\ Goto(In(s), "loop")
    /\ UNCHANGED <<ThreadFrame, sessionOwner, isRunning, clientState, sock, messageVars>>

\* A handler that posts its reply.
HandlePosting(s) ==
    /\ pc[In(s)] = "dispatch"
    /\ \/ /\ posted < MaxMessages
          /\ posted' = posted + 1
          /\ Post(s, Reply)
          /\ Goto(In(s), "loop")
          /\ UNCHANGED sessionOwner
       \/ /\ sessionOwner[s] = None /\ MustSendItself(s, Reply)
          /\ sessionOwner' = [sessionOwner EXCEPT ![s] = In(s)]
          /\ Goto(In(s), "replying")
          /\ UNCHANGED <<isRunning, sock, posted, standby, standbyBegun, outQueue,
                         wasOverLimit, refused, accepted>>
    /\ UNCHANGED <<ThreadFrame, clientState, inHand, sent>>

\* variant: the reply leaves mMutex locked
ReplyKeepingMutex(s) ==
    /\ pc[In(s)] = "replying"
    /\ SendSucceeds(s) \/ SendFails(s) \/ SendGivesUp(s)
    /\ Goto(In(s), "loop")
    /\ UNCHANGED <<ThreadFrame, sessionOwner, isRunning, clientState, sock, messageVars>>

\* The reply has been sent or has thrown; _dispatchMessage() catches whatever a
\* handler throws.
ReplyEnds(s) ==
    /\ pc[In(s)] = "replying"
    /\ SendSucceeds(s) \/ SendFails(s) \/ SendGivesUp(s)
    /\ sessionOwner' = [sessionOwner EXCEPT ![s] = None]
    /\ Goto(In(s), "loop")
    /\ UNCHANGED <<ThreadFrame, isRunning, clientState, sock, messageVars>>

\* variant: the messages are copied and stay on standby
CopyStandby(s) ==
    /\ outQueue' = [outQueue EXCEPT ![s] = @ \o standby[s]]
    /\ standbyBegun' = [standbyBegun EXCEPT ![s] = FALSE]
    /\ UNCHANGED standby

\* _moveStandbyMessagesToAsyncOutputQueue(), which takes no notice of limits.
MoveStandby(s) ==
    /\ outQueue' = [outQueue EXCEPT ![s] = @ \o standby[s]]
    /\ standby' = [standby EXCEPT ![s] = <<>>]
    /\ standbyBegun' = [standbyBegun EXCEPT ![s] = FALSE]

\* The concrete session's handlers for its protocol state hold mMutex.  One
\* that goes online moves the standby messages; it must have an output thread
\* if there are any.
GoOnline(s) ==
    /\ pc[In(s)] = "dispatch"
    /\ sessionOwner[s] = None
    /\ clientState[s] = "starting"
    /\ mOutputThread[s] \/ standby[s] = <<>>
    /\ clientState' = [clientState EXCEPT ![s] = "online"]
    /\ MoveStandby(s)
    /\ Goto(In(s), "loop")
    /\ UNCHANGED <<ThreadFrame, sessionOwner, isRunning, sock, posted, wasOverLimit, refused,
                   inHand, accepted, sent>>

Logout(s) ==
    /\ pc[In(s)] = "dispatch"
    /\ sessionOwner[s] = None
    /\ clientState' = [clientState EXCEPT ![s] = "goingOffline"]
    /\ Goto(In(s), "loop")
    /\ UNCHANGED <<ThreadFrame, sessionOwner, isRunning, sock, messageVars>>

\* variant: the input thread does not wait for the output thread
SpinNot(s) ==
    /\ pc[In(s)] = "spin"
    /\ Goto(In(s), "free1")
    /\ UNCHANGED <<ThreadFrame, sessionOwner, isRunning, clientState, sock, messageVars>>

\* The input thread sleeps and looks until the output thread clears the flag.
Spin(s) ==
    /\ pc[In(s)] = "spin"
    /\ ~ mHasOutputThread[s]
    /\ Goto(In(s), "free1")
    /\ UNCHANGED <<ThreadFrame, sessionOwner, isRunning, clientState, sock, messageVars>>

\* What the input thread does of itself, and with the peer's help.
InStep(s) ==
    \/ InLoop(s) \/ InEof(s)
    \/ HandleQuietly(s) \/ HandlePosting(s) \/ GoOnline(s) \/ Logout(s) \/ ReplyEnds(s)
    \/ Shutdown(In(s), s) \/ Remove(In(s), s) \/ Spin(s)
    \/ DropSession(In(s), s) \/ SocketThreadEnded(In(s))
InExternal(s) == InReceive(s) \/ InThrows(s)

-----------------------------------------------------------------------------
(* VMessageOutputThread *)

OutLoop(s) ==
    /\ pc[Out(s)] = "loop"
    /\ Goto(Out(s), IF isRunning[Out(s)] THEN "wait" ELSE "shutdown")
    /\ UNCHANGED <<ThreadFrame, sessionOwner, isRunning, clientState, sock, messageVars>>

\* variant: the message popped is not returned
PopUnseen(s) ==
    /\ outQueue' = [outQueue EXCEPT ![s] = Tail(@)]
    /\ UNCHANGED inHand
PopNext(s) ==
    /\ inHand' = [inHand EXCEPT ![s] = Head(outQueue[s])]
    /\ outQueue' = [outQueue EXCEPT ![s] = Tail(@)]

\* blockUntilNextMessage() returns a message, or null after five seconds.
OutWait(s) ==
    /\ pc[Out(s)] = "wait"
    /\ \/ /\ outQueue[s] # <<>>
          /\ PopNext(s)
          /\ Goto(Out(s), "send")
       \/ /\ outQueue[s] = <<>>
          /\ Goto(Out(s), "loop")
          /\ UNCHANGED <<inHand, outQueue>>
    /\ UNCHANGED <<ThreadFrame, sessionOwner, isRunning, clientState, sock, posted, standby,
                   standbyBegun, wasOverLimit, refused, accepted, sent>>

\* sendMessageToClient() looks at the session's state without mMutex, and drops
\* the message of a session that is going away.
OutSend(s) ==
    /\ pc[Out(s)] = "send"
    /\ Goto(Out(s), IF RefusesPosts(s) THEN "loop" ELSE "sending")
    /\ inHand' = [inHand EXCEPT ![s] = IF RefusesPosts(s) THEN None ELSE @]
    /\ UNCHANGED <<ThreadFrame, sessionOwner, isRunning, clientState, sock, posted, standby,
                   standbyBegun, outQueue, wasOverLimit, refused, accepted, sent>>

\* A failed send throws out of run()'s loop.
OutSent(s) ==
    /\ pc[Out(s)] = "sending"
    /\ \/ /\ SendSucceeds(s)
          /\ sent' = AppendTo(sent, s, inHand[s])
          /\ Goto(Out(s), "loop")
       \/ /\ SendFails(s)
          /\ Goto(Out(s), "shutdown")
          /\ UNCHANGED sent
    /\ inHand' = [inHand EXCEPT ![s] = None]
    /\ UNCHANGED <<ThreadFrame, sessionOwner, isRunning, clientState, sock, posted, standby,
                   standbyBegun, outQueue, wasOverLimit, refused, accepted>>

OutGivesUp(s) ==
    /\ pc[Out(s)] = "sending"
    /\ SendGivesUp(s)
    /\ Goto(Out(s), "shutdown")
    /\ inHand' = [inHand EXCEPT ![s] = None]
    /\ UNCHANGED <<ThreadFrame, sessionOwner, isRunning, clientState, sock, posted, standby,
                   standbyBegun, outQueue, wasOverLimit, refused, accepted, sent>>

\* variant: the input thread is not told
KeepFlag(s) ==
    /\ pc[Out(s)] = "clear"
    /\ Goto(Out(s), "free1")
    /\ UNCHANGED <<ThreadFrame, sessionOwner, isRunning, clientState, sock, messageVars>>

\* run() ends by releasing the input thread.
ClearFlag(s) ==
    /\ pc[Out(s)] = "clear"
    /\ mHasOutputThread' = [mHasOutputThread EXCEPT ![s] = FALSE]
    /\ Goto(Out(s), "free1")
    /\ UNCHANGED <<listenerVars, listVars, lockVars, isRunning, hasSocket, sessionVars, ioVars,
                   messageVars, appVars, adminVars>>

OutStep(s) ==
    \/ OutLoop(s) \/ OutWait(s) \/ OutSend(s) \/ OutSent(s)
    \/ Shutdown(Out(s), s) \/ Remove(Out(s), s) \/ ClearFlag(s)
    \/ DropSession(Out(s), s) \/ SocketThreadEnded(Out(s))

-----------------------------------------------------------------------------
(* The application thread: postBroadcastMessage() of the concrete server, which
   walks the sessions under mSessionsMutex, and shutdown(NULL) *)

BroadcastBegin ==
    /\ apppc = "idle"
    /\ posted < MaxMessages
    /\ sessionsOwner = None
    /\ sessionsOwner' = App
    /\ posted' = posted + 1
    /\ appMessage' = posted'
    /\ appTodo' = mSessions
    /\ apppc' = "broadcast"
    /\ UNCHANGED <<listenerVars, listVars, threadsOwner, sessionOwner, threadVars, sessionVars,
                   ioVars, standby, standbyBegun, outQueue, wasOverLimit, refused, inHand,
                   accepted, sent, appSession, adminVars>>

\* postBroadcastOutputMessage()
BroadcastPost(s) ==
    /\ apppc = "broadcast" /\ s \in appTodo
    /\ Post(s, appMessage)
    /\ appTodo' = appTodo \ {s}
    /\ UNCHANGED <<listenerVars, listVars, lockVars, pc, hasSocket, mHasOutputThread,
                   sessionVars, peer, posted, inHand, sent, apppc, appMessage, appSession,
                   adminVars>>

BroadcastSend(s) ==
    /\ apppc = "broadcast" /\ s \in appTodo
    /\ sessionOwner[s] = None
    /\ MustSendItself(s, appMessage)
    /\ sessionOwner' = [sessionOwner EXCEPT ![s] = App]
    /\ appSession' = s
    /\ apppc' = "sending"
    /\ UNCHANGED <<listenerVars, listVars, threadsOwner, sessionsOwner, threadVars,
                   sessionVars, ioVars, messageVars, appMessage, appTodo, adminVars>>

BroadcastSent ==
    /\ apppc = "sending"
    /\ SendSucceeds(appSession)
    /\ sent' = AppendTo(sent, appSession, appMessage)
    /\ accepted' = AppendTo(accepted, appSession, appMessage)
    /\ sessionOwner' = [sessionOwner EXCEPT ![appSession] = None]
    /\ appTodo' = appTodo \ {appSession}
    /\ appSession' = None
    /\ apppc' = "broadcast"
    /\ UNCHANGED <<listenerVars, listVars, threadsOwner, sessionsOwner, threadVars,
                   sessionVars, ioVars, posted, standby, standbyBegun, outQueue, wasOverLimit,
                   refused, inHand, appMessage, adminVars>>

\* The exception of a failed send unlocks both mutexes and ends the walk.
BroadcastThrows ==
    /\ apppc = "sending"
    /\ SendFails(appSession) \/ SendGivesUp(appSession)
    /\ sessionOwner' = [sessionOwner EXCEPT ![appSession] = None]
    /\ sessionsOwner' = None
    /\ appTodo' = {} /\ appSession' = None /\ appMessage' = None
    /\ apppc' = "idle"
    /\ UNCHANGED <<listenerVars, listVars, threadsOwner, threadVars, sessionVars, ioVars,
                   messageVars, adminVars>>

BroadcastEnd ==
    /\ apppc = "broadcast" /\ appTodo = {}
    /\ sessionsOwner' = None
    /\ appMessage' = None
    /\ apppc' = "idle"
    /\ UNCHANGED <<listenerVars, listVars, threadsOwner, sessionOwner, threadVars, sessionVars,
                   ioVars, messageVars, appTodo, appSession, adminVars>>

\* The application takes a session from the server's list to shut it down.
TakeSession(s) ==
    /\ apppc = "idle"
    /\ sessionsOwner = None
    /\ s \in mSessions
    /\ appSession' = s
    /\ holders' = [holders EXCEPT ![s] = @ \cup {"app"}]
    /\ apppc' = "shutdown"
    /\ UNCHANGED <<listenerVars, listVars, lockVars, threadVars, isAsync, mIsShuttingDown,
                   mInputThread, mOutputThread, clientState, ioVars, messageVars, appMessage,
                   appTodo, adminVars>>

AppShutdown ==
    /\ apppc = "shutdown"
    /\ ShutdownSection(appSession, App)
    /\ apppc' = "remove"
    /\ UNCHANGED <<listenerVars, listVars, threadsOwner, sessionsOwner, pc, hasSocket,
                   mHasOutputThread, isAsync, holders, clientState, ioVars, messageVars,
                   appMessage, appTodo, appSession, adminVars>>

\* removeClientSession() and the release of the application's pointer.
AppRemove ==
    /\ apppc = "remove"
    /\ sessionsOwner = None
    /\ mSessions' = mSessions \ {appSession}
    /\ holders' = [holders EXCEPT ![appSession] = @ \ {"app"}]
    /\ ReleaseSession(appSession, mSessions')
    /\ appSession' = None
    /\ apppc' = "idle"
    /\ UNCHANGED <<listenerVars, mSocketThreads, lockVars, threadVars, isAsync,
                   mIsShuttingDown, mInputThread, mOutputThread, clientState, peer, posted,
                   standbyBegun, outQueue, wasOverLimit, refused, inHand, accepted, sent,
                   appMessage, appTodo, adminVars>>

\* What the application must finish once begun.
AppContinues ==
    \/ \E s \in Sessions : BroadcastPost(s) \/ BroadcastSend(s)
    \/ BroadcastSent \/ BroadcastThrows \/ BroadcastEnd
    \/ AppShutdown \/ AppRemove
AppStep == BroadcastBegin \/ (\E s \in Sessions : TakeSession(s)) \/ AppContinues

-----------------------------------------------------------------------------
(* VListenerThread::stop on the administrator's thread *)

AdminFrame == <<lpc, lcur, registered, listVars, sessionsOwner, sessionOwner, pc, hasSocket,
                mHasOutputThread, sessionVars, peer, messageVars, appVars>>

StopListener ==
    /\ MayStop
    /\ adminpc = "idle"
    /\ mShouldListen' = FALSE
    /\ adminpc' = "lock"
    /\ UNCHANGED <<AdminFrame, lRunning, threadsOwner, isRunning, sock, adminTodo, adminTarget>>

\* stopAllSocketThreads()
StopAllBegin ==
    /\ adminpc = "lock"
    /\ threadsOwner = None
    /\ threadsOwner' = Admin
    /\ adminTodo' = mSocketThreads
    /\ adminpc' = "each"
    /\ UNCHANGED <<AdminFrame, mShouldListen, lRunning, isRunning, sock, adminTarget>>

\* closeAndStop() looks at mSocket, which the thread's destructor clears with
\* no mutex held, and then closes it.  Closing a socket that has been deleted
\* in between is undefined: in the outcome followed here it does nothing.
CheckSocket(t) ==
    /\ adminpc = "each" /\ t \in adminTodo
    /\ adminTarget' = t
    /\ adminTodo' = adminTodo \ {t}
    /\ adminpc' = IF hasSocket[t] THEN "close" ELSE "halt"
    /\ UNCHANGED <<AdminFrame, mShouldListen, lRunning, threadsOwner, isRunning, sock>>

CloseSocket ==
    /\ adminpc = "close"
    /\ Close(adminTarget[2])
    /\ adminpc' = "halt"
    /\ UNCHANGED <<AdminFrame, mShouldListen, lRunning, threadsOwner, isRunning, adminTodo,
                   adminTarget>>

StopThread ==
    /\ adminpc = "halt"
    /\ isRunning' = [isRunning EXCEPT ![adminTarget] = FALSE]
    /\ adminTarget' = None
    /\ adminpc' = "each"
    /\ UNCHANGED <<AdminFrame, mShouldListen, lRunning, threadsOwner, sock, adminTodo>>

StopAllEnd ==
    /\ adminpc = "each" /\ adminTodo = {}
    /\ threadsOwner' = None
    /\ adminpc' = "stop"
    /\ UNCHANGED <<AdminFrame, mShouldListen, lRunning, isRunning, sock, adminTodo, adminTarget>>

\* VThread::stop() of the listener itself comes last.
StopEnd ==
    /\ adminpc = "stop"
    /\ lRunning' = FALSE
    /\ adminpc' = "done"
    /\ UNCHANGED <<AdminFrame, mShouldListen, threadsOwner, isRunning, sock, adminTodo,
                   adminTarget>>

AdminContinues ==
    \/ StopAllBegin \/ (\E t \in Threads : CheckSocket(t)) \/ CloseSocket \/ StopThread
    \/ StopAllEnd \/ StopEnd

-----------------------------------------------------------------------------
(* The peers, and the specification *)

PeerMoves(s, from, to) ==
    /\ peer[s] \in from
    /\ peer' = [peer EXCEPT ![s] = to]
    /\ UNCHANGED <<listenerVars, listVars, lockVars, threadVars, sessionVars, sock,
                   messageVars, appVars, adminVars>>
PeerStalls(s) == PeerMoves(s, {"reading"}, "stalled")
PeerResumes(s) == PeerMoves(s, {"stalled"}, "reading")
PeerLeaves(s) == PeerMoves(s, {"reading", "stalled"}, "gone")

Next ==
    \/ ListenerStep
    \/ \E s \in Sessions : InStep(s) \/ InExternal(s) \/ OutStep(s) \/ OutGivesUp(s)
    \/ AppStep
    \/ StopListener \/ AdminContinues
    \/ \E s \in Sessions : PeerStalls(s) \/ PeerResumes(s) \/ PeerLeaves(s)

Spec == Init /\ [][Next]_vars

\* Threads run.  Nothing makes a peer act, a connection arrive, a blocked call
\* give up, or the application or the administrator begin something.
\* Strong fairness of the application: it gets a mutex that is free time and
\* again, though the input thread of a synchronous session replies without end.
Fairness ==
    /\ WF_vars(ListenerContinues)
    /\ \A s \in Sessions : WF_vars(InStep(s)) /\ WF_vars(OutStep(s))
    /\ SF_vars(AppContinues) /\ WF_vars(AdminContinues)
FairSpec == Spec /\ Fairness

-----------------------------------------------------------------------------
(* Properties *)

Labels == {"unborn", "new", "loop", "read", "dispatch", "replying", "wait", "send", "sending",
           "shutdown", "remove", "spin", "clear", "free1", "free2", "gone"}
Deleted(t) == pc[t] \in {"unborn", "free1", "free2", "gone"}

\* Every variable keeps its type; an output thread about to send has a message.
TypeOK ==
    /\ lpc \in {"accept", "quiet", "accepted", "startInput", "startOutput", "track", "add"}
    /\ lcur \in Sessions \cup {None}
    /\ mShouldListen \in BOOLEAN /\ lRunning \in BOOLEAN
    /\ mSocketThreads \subseteq Threads /\ mSessions \subseteq Sessions
    /\ registered \subseteq Sessions
    /\ threadsOwner \in {None, Listener, Admin} /\ sessionsOwner \in {None, App}
    /\ sessionOwner \in [Sessions -> {None} \cup Actors]
    /\ pc \in [Threads -> Labels]
    /\ isRunning \in [Threads -> BOOLEAN] /\ hasSocket \in [Threads -> BOOLEAN]
    /\ mHasOutputThread \in [Sessions -> BOOLEAN] /\ isAsync \in [Sessions -> BOOLEAN]
    /\ holders \in [Sessions -> SUBSET {"listener", "in", "out", "app"}]
    /\ mIsShuttingDown \in [Sessions -> BOOLEAN]
    /\ mInputThread \in [Sessions -> BOOLEAN] /\ mOutputThread \in [Sessions -> BOOLEAN]
    /\ clientState \in [Sessions -> {"starting", "online", "goingOffline"}]
    /\ sock \in [Sessions -> {"none", "open", "closed", "deleted"}]
    /\ peer \in [Sessions -> {"none", "reading", "stalled", "gone"}]
    /\ posted \in 0..MaxMessages
    /\ standby \in [Sessions -> Seq(Broadcasts)]
    /\ standbyBegun \in [Sessions -> BOOLEAN]
    /\ outQueue \in [Sessions -> Seq({Reply} \cup Broadcasts)]
    /\ wasOverLimit \in [Sessions -> BOOLEAN] /\ refused \in [Sessions -> BOOLEAN]
    /\ inHand \in [Sessions -> {None, Reply} \cup Broadcasts]
    /\ \A s \in Sessions : inHand[s] # None <=> pc[Out(s)] \in {"send", "sending"}
    /\ accepted \in [Sessions -> Seq(Broadcasts)] /\ sent \in [Sessions -> Seq(Broadcasts)]
    /\ apppc \in {"idle", "broadcast", "sending", "shutdown", "remove"}
    /\ appMessage \in {None} \cup Broadcasts
    /\ appTodo \subseteq Sessions /\ appSession \in {None} \cup Sessions
    /\ adminpc \in {"idle", "lock", "each", "close", "halt", "stop", "done"}
    /\ adminTodo \subseteq Threads /\ adminTarget \in {None} \cup Threads

\* Nothing refers to a thread whose destruction has begun: not the session, which
\* would stop it; not the output thread, which clears its input thread's flag;
\* and the listener's list only until the destructor has told the listener.
PointersLive ==
    \A s \in Sessions :
        /\ mInputThread[s] => ~ Deleted(In(s))
        /\ mOutputThread[s] => ~ Deleted(Out(s))
        /\ ~ Deleted(Out(s)) => ~ Deleted(In(s))
        /\ \A t \in {In(s), Out(s)} : t \in mSocketThreads => pc[t] \notin {"unborn", "gone"}

\* A session, and the socket it deletes, outlive every use of them: its threads
\* still running, the listener still registering it, a broadcast or a shutdown
\* under way in it.
SocketOutlivesUse ==
    \A s \in Sessions : sock[s] = "deleted" =>
        /\ Deleted(In(s)) /\ Deleted(Out(s))
        /\ lcur # s /\ appSession # s /\ s \notin appTodo

\* The mutexes, ranked in the order in which they are taken: that of the
\* listener's threads, the server's, a session's.  What an actor holds, and what
\* it may have to wait for in its next step.
Holds(a, r) ==
    \/ r = 1 /\ threadsOwner = a
    \/ r = 2 /\ sessionsOwner = a
    \/ r = 3 /\ \E s \in Sessions : sessionOwner[s] = a
Awaits(a, r) ==
    \/ /\ r = 1
       /\ \/ a = Listener /\ lpc = "accepted"
          \/ a = Admin /\ adminpc = "lock"
          \/ a \in Threads /\ pc[a] = "free2"
    \/ /\ r = 2
       /\ \/ a = Listener /\ lpc = "add"
          \/ a = App /\ apppc \in {"idle", "remove"}
          \/ a \in Threads /\ pc[a] = "remove"
    \/ /\ r = 3
       /\ \/ a = App /\ apppc \in {"broadcast", "shutdown"}
          \/ a \in Threads /\ pc[a] \in {"dispatch", "shutdown"}

\* No actor waits for a mutex that precedes, or equals, one it holds, so that
\* no circle of them can form: mSocketThreadsMutex, then mSessionsMutex, then a
\* session's mMutex.  shutdown() releases mMutex early for this reason.
LockOrder ==
    \A a \in Actors : \A h, r \in 1..3 : Holds(a, h) /\ Awaits(a, r) => h < r

\* The broadcasts of a queue, in order.
BroadcastsIn(queue) ==
    LET upTo[i \in 0..Len(queue)] ==
            IF i = 0 THEN <<>>
            ELSE IF queue[i] = Reply THEN upTo[i - 1] ELSE Append(upTo[i - 1], queue[i])
    IN  upTo[Len(queue)]
Hand(s) == IF inHand[s] \in Broadcasts THEN <<inHand[s]>> ELSE <<>>

\* As long as nothing has gone wrong with a session, every broadcast it took on
\* is sent, in hand, queued or on standby, in the order of posting: going online
\* between two posts loses none and lets none overtake.
NothingLost ==
    \A s \in Sessions :
        (/\ ~ RefusesPosts(s) /\ sock[s] = "open"
         /\ pc[Out(s)] \in {"unborn", "new", "loop", "wait", "send", "sending"})
        => accepted[s] = sent[s] \o Hand(s) \o BroadcastsIn(outQueue[s]) \o standby[s]

\* From some moment on every peer reads, or has gone.
PeersRead == \A s \in Sessions : <>[](peer[s] # "stalled")

Released(s) ==
    /\ pc[In(s)] = "gone" /\ pc[Out(s)] \in {"unborn", "gone"}
    /\ s \notin mSessions /\ sock[s] = "deleted"

\* A session that was registered while alive is torn down completely once its
\* peer leaves: both threads end, the server forgets it, its socket is deleted.
RegisteredSessionReleased ==
    PeersRead => \A s \in Sessions : (s \in registered /\ peer[s] = "gone") ~> Released(s)

\* A broadcast comes to its end and gives the server's mutex back, though it
\* may send on the sockets of synchronous sessions with both mutexes held.
BroadcastEnds == PeersRead => (apppc \in {"broadcast", "sending"} ~> apppc = "idle")

\* vclientsession.h: shutdown() "triggers a tear-down of the client session".
\* Violated when the input thread ends before the listener has finished setting
\* the session up: the session is added to the server's list after it was
\* removed and never leaves it, or start() of the output thread undoes the
\* stop() and both threads stay for ever.
ShutdownTearsDown ==
    PeersRead => \A s \in Sessions : (mIsShuttingDown[s] /\ peer[s] = "gone") ~> Released(s)

\* vmessageoutputthread.h, on a post over the limit: "the call will just close
\* the socket and return".  Violated: it stops the output thread, and the socket
\* stays open with the input thread blocked on it.
OverLimitClosesSocket ==
    \A s \in Sessions : refused[s] => sock[s] \in {"closed", "deleted"}

\* vclientsession.h, on sendMessageToClient(): "the test for state and the act of
\* sending is done in an atomic fashion with respect to the session state".
\* Violated: no mutex is held between the two.
SendIsAtomicWithState ==
    \A s \in Sessions : pc[Out(s)] = "sending" => ~ mIsShuttingDown[s]

\* vlistenerthread.h, on stop(): it "also stops listening and stops the socket
\* threads".  Violated by a connection accepted before and set up after
\* stopAllSocketThreads(): its threads run on with the listener gone.
StopStopsSocketThreads ==
    (adminpc = "done" /\ lpc = "quiet") => \A t \in mSocketThreads : ~ isRunning[t]
=============================================================================
