--------------------------- MODULE VMessageQueue ---------------------------
(***************************************************************************)
(* VMessageQueue (source/server/vmessagequeue.cpp): a deque guarded by a   *)
(* mutex, a running total of the queued bytes, and a semaphore that is a   *)
(* bare condition variable.  A consumer is a VMessageOutputThread run loop *)
(* around blockUntilNextMessage(); a caller is any thread that posts,      *)
(* wakes, stops a consumer, or (once, as it destroys the queue's owner)    *)
(* releases what is still queued.                                          *)
(*                                                                         *)
(* A critical section is split where its effect is visible without the     *)
(* mutex: getQueueSize() and getQueueDataSize() take no lock, so a reader  *)
(* sees the deque changed and the byte total not yet.                      *)
(***************************************************************************)
EXTENDS Integers, Sequences

CONSTANTS
    Messages,           \* the message objects, each posted at most once
    DataLength,         \* getMessageDataLength() of each, fixed while queued
    Callers,            \* threads that post, wake, stop and release
    Consumers,          \* threads that loop on blockUntilNextMessage()
    None                \* the null message, and the owner of a free mutex

Threads == Callers \cup Consumers

ASSUME ConstantsAssumption ==
    /\ DataLength \in [Messages -> Nat]
    /\ Callers \cap Consumers = {}
    /\ None \notin Messages
    /\ None \notin Threads

VARIABLES
    mQueuedMessages,            \* the deque, front first
    mQueuedMessagesDataSize,    \* the byte total
    mutexOwner,                 \* who holds mMessageQueueMutex
    pc,                         \* where each thread is
    inHand,                     \* the local variable "message" of each thread
    isRunning,                  \* VThread::mIsRunning of each consumer
    \* history
    posted,                     \* every message ever pushed, in order
    bytesPosted,                \* bytesPosted[i+1]: bytes of the first i of them
    popped,                     \* how many have been popped
    taken                       \* those popped by a consumer, in order

queueVars == <<mQueuedMessages, mQueuedMessagesDataSize>>
history == <<posted, bytesPosted, popped, taken>>
vars == <<mQueuedMessages, mQueuedMessagesDataSize, mutexOwner, pc, inHand,
          isRunning, posted, bytesPosted, popped, taken>>

CallerPCs == {"idle", "posting", "signalling", "releasing", "releaseCount", "finished"}
ConsumerPCs == {"run", "get", "getCount", "aboutToWait", "waiting",
                "regain", "process", "ended"}
\* The control points at which a thread is inside the critical section.
LockedPCs == {"posting", "releasing", "releaseCount", "getCount"}

Init ==
    /\ mQueuedMessages = <<>>
    /\ mQueuedMessagesDataSize = 0
    /\ mutexOwner = None
    /\ pc = [t \in Threads |-> IF t \in Callers THEN "idle" ELSE "run"]
    /\ inHand = [t \in Threads |-> None]
    /\ isRunning = [c \in Consumers |-> TRUE]
    /\ posted = <<>>
    /\ bytesPosted = <<0>>
    /\ popped = 0
    /\ taken = <<>>

Goto(t, label) == pc' = [pc EXCEPT ![t] = label]

Lock(t) == mutexOwner = None /\ mutexOwner' = t
Unlock(t) == mutexOwner' = None

-----------------------------------------------------------------------------
(* postMessage() *)

\* The push at the back, with the mutex just taken.
PushBack(m) == mQueuedMessages' = Append(mQueuedMessages, m)

PostPush(p, m) ==
    /\ pc[p] = "idle"
    /\ \A i \in 1..Len(posted) : posted[i] # m
    /\ Lock(p)
    /\ PushBack(m)
    /\ inHand' = [inHand EXCEPT ![p] = m]
    /\ posted' = Append(posted, m)
    /\ bytesPosted' = Append(bytesPosted, bytesPosted[Len(bytesPosted)] + DataLength[m])
    /\ Goto(p, "posting")
    /\ UNCHANGED <<mQueuedMessagesDataSize, isRunning, popped, taken>>

\* The byte total catches up, and the mutex is released before the signal.
PostCount(p) ==
    /\ pc[p] = "posting"
    /\ mQueuedMessagesDataSize' = mQueuedMessagesDataSize + DataLength[inHand[p]]
    /\ inHand' = [inHand EXCEPT ![p] = None]
    /\ Unlock(p)
    /\ Goto(p, "signalling")
    /\ UNCHANGED <<mQueuedMessages, isRunning, history>>

(* wakeUp(), and the stop() that VMessageOutputThread builds on it *)

WakeUp(p) ==
    /\ pc[p] = "idle"
    /\ Goto(p, "signalling")
    /\ UNCHANGED <<queueVars, mutexOwner, inHand, isRunning, history>>

Stop(p, c) ==
    /\ pc[p] = "idle"
    /\ isRunning' = [isRunning EXCEPT ![c] = FALSE]
    /\ Goto(p, "signalling")
    /\ UNCHANGED <<queueVars, mutexOwner, inHand, history>>

Waiters == {c \in Consumers : pc[c] = "waiting"}

\* mMessageQueueSemaphore.signal(): wakes one waiter, or nobody; a signal
\* nobody waits for leaves no trace.
Signal(p) ==
    /\ pc[p] = "signalling"
    /\ \/ Waiters = {} /\ Goto(p, "idle")
       \/ \E c \in Waiters : pc' = [pc EXCEPT ![p] = "idle", ![c] = "regain"]
    /\ UNCHANGED <<queueVars, mutexOwner, inHand, isRunning, history>>

-----------------------------------------------------------------------------
(* getNextMessage(), as blockUntilNextMessage() calls it, before and after
   its wait *)

\* variant: front() read, pop_front() forgotten
FrontWithoutPop(t) ==
    /\ mQueuedMessages # <<>>
    /\ UNCHANGED mQueuedMessages
    /\ inHand' = [inHand EXCEPT ![t] = Head(mQueuedMessages)]
    /\ popped' = popped + 1

\* variant: the wrong end is erased
FrontThenPopBack(t) ==
    /\ mQueuedMessages # <<>>
    /\ mQueuedMessages' = SubSeq(mQueuedMessages, 1, Len(mQueuedMessages) - 1)
    /\ inHand' = [inHand EXCEPT ![t] = Head(mQueuedMessages)]
    /\ popped' = popped + 1

PopFront(t) ==
    /\ mQueuedMessages # <<>>
    /\ mQueuedMessages' = Tail(mQueuedMessages)
    /\ inHand' = [inHand EXCEPT ![t] = Head(mQueuedMessages)]
    /\ popped' = popped + 1

\* variant: the total is never reduced
CountOutForgotten(t) == UNCHANGED mQueuedMessagesDataSize

\* The subtraction that follows a pop of a non-null message.
CountOut(t) ==
    mQueuedMessagesDataSize' = mQueuedMessagesDataSize - DataLength[inHand[t]]

GetPop(c) ==
    /\ pc[c] \in {"get", "regain"}
    /\ Lock(c)
    /\ PopFront(c)
    /\ taken' = Append(taken, Head(mQueuedMessages))
    /\ Goto(c, "getCount")
    /\ UNCHANGED <<mQueuedMessagesDataSize, isRunning, posted, bytesPosted>>

GetCount(c) ==
    /\ pc[c] = "getCount"
    /\ CountOut(c)
    /\ Unlock(c)
    /\ Goto(c, "process")
    /\ UNCHANGED <<mQueuedMessages, inHand, isRunning, history>>

\* An empty queue: the first call goes on to wait, the second returns null.
GetNothing(c) ==
    /\ pc[c] \in {"get", "regain"}
    /\ mutexOwner = None
    /\ mQueuedMessages = <<>>
    /\ Goto(c, IF pc[c] = "get" THEN "aboutToWait" ELSE "run")
    /\ UNCHANGED <<queueVars, mutexOwner, inHand, isRunning, history>>

\* The wait starts after getNextMessage() has released the queue's mutex, on
\* a mutex of its own: a signal in between is lost.
EnterWait(c) ==
    /\ pc[c] = "aboutToWait"
    /\ Goto(c, "waiting")
    /\ UNCHANGED <<queueVars, mutexOwner, inHand, isRunning, history>>

\* variant: wait() with a zero timeout, which waits for ever
WaitForEver(c) == FALSE

\* Five seconds pass, or the condition variable wakes spuriously.
WaitTimedOut(c) ==
    /\ pc[c] = "waiting"
    /\ Goto(c, "regain")
    /\ UNCHANGED <<queueVars, mutexOwner, inHand, isRunning, history>>

(* the consumer's run loop *)

\* variant: a loop that does not look at isRunning() again
RunLoopForEver(c) ==
    /\ pc[c] = "run"
    /\ Goto(c, "get")
    /\ UNCHANGED <<queueVars, mutexOwner, inHand, isRunning, history>>

RunLoop(c) ==
    /\ pc[c] = "run"
    /\ Goto(c, IF isRunning[c] THEN "get" ELSE "ended")
    /\ UNCHANGED <<queueVars, mutexOwner, inHand, isRunning, history>>

Process(c) ==
    /\ pc[c] = "process"
    /\ inHand' = [inHand EXCEPT ![c] = None]
    /\ Goto(c, "run")
    /\ UNCHANGED <<queueVars, mutexOwner, isRunning, history>>

-----------------------------------------------------------------------------
(* releaseAllMessages() *)

ReleaseBegin(p) ==
    /\ pc[p] = "idle"
    /\ Lock(p)
    /\ Goto(p, "releasing")
    /\ UNCHANGED <<queueVars, inHand, isRunning, history>>

ReleasePop(p) ==
    /\ pc[p] = "releasing"
    /\ PopFront(p)
    /\ Goto(p, "releaseCount")
    /\ UNCHANGED <<mQueuedMessagesDataSize, mutexOwner, isRunning, posted, bytesPosted, taken>>

ReleaseCount(p) ==
    /\ pc[p] = "releaseCount"
    /\ CountOut(p)
    /\ inHand' = [inHand EXCEPT ![p] = None]
    /\ Goto(p, "releasing")
    /\ UNCHANGED <<mQueuedMessages, mutexOwner, isRunning, history>>

ReleaseEnd(p) ==
    /\ pc[p] = "releasing"
    /\ mQueuedMessages = <<>>
    /\ Unlock(p)
    /\ Goto(p, "finished")
    /\ UNCHANGED <<queueVars, inHand, isRunning, history>>

-----------------------------------------------------------------------------
CallerStep(p) ==
    \/ \E m \in Messages : PostPush(p, m)
    \/ PostCount(p)
    \/ WakeUp(p)
    \/ \E c \in Consumers : Stop(p, c)
    \/ Signal(p)
    \/ ReleaseBegin(p)
    \/ ReleasePop(p)
    \/ ReleaseCount(p)
    \/ ReleaseEnd(p)

ConsumerStep(c) ==
    \/ RunLoop(c)
    \/ GetPop(c)
    \/ GetCount(c)
    \/ GetNothing(c)
    \/ EnterWait(c)
    \/ WaitTimedOut(c)
    \/ Process(c)

Next ==
    \/ \E p \in Callers : CallerStep(p)
    \/ \E c \in Consumers : ConsumerStep(c)

Spec == Init /\ [][Next]_vars

\* A call that has begun is completed, and a consumer thread keeps running:
\* its timed wait ends.  Nothing makes a caller begin a call.
Fairness ==
    /\ \A c \in Consumers : WF_vars(ConsumerStep(c))
    /\ \A p \in Callers : WF_vars(PostCount(p) \/ Signal(p) \/ ReleasePop(p)
                                    \/ ReleaseCount(p) \/ ReleaseEnd(p))

FairSpec == Spec /\ Fairness

-----------------------------------------------------------------------------
TypeOK ==
    /\ mQueuedMessages \in Seq(Messages)
    /\ mQueuedMessagesDataSize \in Int
    /\ mutexOwner \in Threads \cup {None}
    /\ pc \in [Threads -> CallerPCs \cup ConsumerPCs]
    /\ \A p \in Callers : pc[p] \in CallerPCs
    /\ \A c \in Consumers : pc[c] \in ConsumerPCs
    /\ inHand \in [Threads -> Messages \cup {None}]
    /\ isRunning \in [Consumers -> BOOLEAN]
    /\ posted \in Seq(Messages)
    /\ bytesPosted \in Seq(Nat)
    /\ Len(bytesPosted) = Len(posted) + 1
    /\ popped \in 0..Len(posted)
    /\ taken \in Seq(Messages)

\* The mutex is held exactly by the thread that is inside a critical section,
\* so the steps of two critical sections never mix.
MutexHeldInside ==
    \A t \in Threads : pc[t] \in LockedPCs <=> mutexOwner = t

\* Bytes of a message that is pushed but not yet counted are missing from the
\* total, bytes of one popped but not yet counted out are still in it.
Uncounted ==
    IF mutexOwner = None \/ pc[mutexOwner] = "releasing" THEN 0
    ELSE IF pc[mutexOwner] = "posting" THEN - DataLength[inHand[mutexOwner]]
    ELSE DataLength[inHand[mutexOwner]]

\* postMessage, getNextMessage and releaseAllMessages together keep
\* mQueuedMessagesDataSize equal to the bytes of the queued messages, up to
\* the one message the mutex holder is moving, and an unlocked
\* getQueueDataSize() never sees it negative.
DataSizeAccounted ==
    /\ mQueuedMessagesDataSize =
          bytesPosted[Len(posted) + 1] - bytesPosted[popped + 1] + Uncounted
    /\ mQueuedMessagesDataSize >= 0

\* The deque holds exactly the posted messages that were not yet popped, in
\* the order postMessage pushed them: nothing is lost, doubled or reordered.
QueueIsPostedSuffix ==
    /\ Len(mQueuedMessages) = Len(posted) - popped
    /\ \A i \in 1..Len(mQueuedMessages) : mQueuedMessages[i] = posted[popped + i]

\* The queue implements the FIFO channel of MessageChannel.
Channel == INSTANCE MessageChannel
    WITH chan <- mQueuedMessages,
         entered <- {posted[i] : i \in 1..Len(posted)},
         taken <- taken
ImplementsChannel == Channel!Spec

\* In spite of wakeups lost between getNextMessage() and the wait, a queued
\* message leaves the queue as long as some consumer is not stopped.
EveryMessageLeaves ==
    \A m \in Messages :
        (\E i \in 1..Len(mQueuedMessages) : mQueuedMessages[i] = m)
            ~> (\/ ~ \E i \in 1..Len(mQueuedMessages) : mQueuedMessages[i] = m
                \/ \A c \in Consumers : ~ isRunning[c])

\* A consumer told to stop leaves its run loop, whatever it was doing: stop()
\* may signal before the consumer waits.
StopEndsConsumer ==
    \A c \in Consumers : ~ isRunning[c] ~> pc[c] = "ended"
=============================================================================
