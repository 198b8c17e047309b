----------------- MODULE VSocketConnectionStrategyThreaded -----------------
(***************************************************************************)
(* VSocketConnectionStrategyThreaded::connect() (source/sockets/           *)
(* vsocket.cpp): the caller's thread starts a runner thread and polls it;  *)
(* the runner resolves the host name, starts a batch of worker threads,    *)
(* one address each, and lives until all of them have reported and the     *)
(* caller has let go of it; the first worker that connects wins, a worker  *)
(* that fails is replaced while there are addresses and time left.         *)
(*                                                                         *)
(* Every section under the runner's mMutex is one action, but for the      *)
(* first, which holds the mutex while the host name is resolved.  OS       *)
(* threads can always be created.                                          *)
(***************************************************************************)
EXTENDS Integers, Sequences, FiniteSets

CONSTANTS
    NumAddresses,           \* how many addresses the host name resolves to
    MaxNumThreads,          \* mMaxNumThreads; a negative one never runs out
    None                    \* kNoSocketID

Addresses == 1..NumAddresses

ASSUME ConstantsAssumption ==
    /\ NumAddresses \in Nat \ {0}
    /\ MaxNumThreads \in Int
    /\ None \notin Addresses

VARIABLES
    strategy,               \* where connect() is
    socketToConnect,        \* whose socket it has handed to its caller
    runner,                 \* where the runner is
    resolved,               \* history: FALSE if resolveHostName() threw
    expired,                \* now > mExpiry
    mDetachedFromStrategy, mIPAddressesYetToTry, mConnectionCompleted,
    mAllWorkersFailed, mConnectedSocketID, mWorkers,
    worker,                 \* where the worker of each address is
    tempSocket,             \* the socket ID in the worker's VSocket
    open,                   \* the addresses a connected socket is open to
    failed, socketless      \* histories: addresses that refused, or got no socket

strategyVars == <<strategy, socketToConnect>>
runnerVars == <<runner, resolved>>
answerVars == <<mConnectionCompleted, mConnectedSocketID>>
workerVars == <<worker, tempSocket, open, failed, socketless>>
vars == <<strategy, socketToConnect, runner, resolved, expired, mDetachedFromStrategy,
          mIPAddressesYetToTry, mConnectionCompleted, mAllWorkersFailed, mConnectedSocketID,
          mWorkers, worker, tempSocket, open, failed, socketless>>

Init ==
    /\ strategy = "polling" /\ socketToConnect = None
    /\ runner = "starting" /\ resolved = TRUE
    /\ expired = FALSE
    /\ mDetachedFromStrategy = FALSE /\ mIPAddressesYetToTry = <<>>
    /\ mConnectionCompleted = FALSE /\ mAllWorkersFailed = FALSE
    /\ mConnectedSocketID = None /\ mWorkers = {}
    /\ worker = [a \in Addresses |-> "unborn"]
    /\ tempSocket = [a \in Addresses |-> None]
    /\ open = {} /\ failed = {} /\ socketless = {}

\* The mutex is free, and the object it is in exists.  What a call on a deleted
\* runner does is undefined and not followed.
CanLock == runner \notin {"resolving", "gone"}

-----------------------------------------------------------------------------
(* connect(), on the caller's thread *)

HasAnswer == mConnectionCompleted \/ mAllWorkersFailed \/ expired

Poll ==
    /\ strategy = "polling" /\ CanLock
    /\ HasAnswer
    /\ strategy' = "asking"
    /\ UNCHANGED <<socketToConnect, runnerVars, expired, mDetachedFromStrategy,
                   mIPAddressesYetToTry, answerVars, mAllWorkersFailed, mWorkers, workerVars>>

\* getConnectedSockID() is another section than hasAnswer(): a worker may have
\* won since.  With no socket connect() throws, and never detaches.
TakeSocket ==
    /\ strategy = "asking" /\ CanLock
    /\ socketToConnect' = mConnectedSocketID
    /\ strategy' = IF mConnectedSocketID = None THEN "threw" ELSE "detaching"
    /\ UNCHANGED <<runnerVars, expired, mDetachedFromStrategy, mIPAddressesYetToTry, answerVars,
                   mAllWorkersFailed, mWorkers, workerVars>>

\* detachFromStrategy()
Detach ==
    /\ strategy = "detaching" /\ CanLock
    /\ mDetachedFromStrategy' = TRUE
    /\ strategy' = "done"
    /\ UNCHANGED <<socketToConnect, runnerVars, expired, mIPAddressesYetToTry, answerVars,
                   mAllWorkersFailed, mWorkers, workerVars>>

-----------------------------------------------------------------------------
(* The runner *)

RunnerLock ==
    /\ runner = "starting"
    /\ runner' = "resolving"
    /\ UNCHANGED <<strategyVars, resolved, expired, mDetachedFromStrategy, mIPAddressesYetToTry,
                   answerVars, mAllWorkersFailed, mWorkers, workerVars>>

\* variant: indices counted from zero
FirstBatchFromZero ==
    IF MaxNumThreads \in 0..NumAddresses THEN 0..(MaxNumThreads - 1) ELSE Addresses
\* numWorkersRemaining counts down to zero, or from below zero.
FirstBatch == IF MaxNumThreads \in 0..NumAddresses THEN 1..MaxNumThreads ELSE Addresses

StartWorkers ==
    /\ runner = "resolving"
    /\ LET batch == FirstBatch IN
       /\ mWorkers' = batch
       /\ worker' = [a \in Addresses |-> IF a \in batch THEN "connecting" ELSE worker[a]]
       /\ mIPAddressesYetToTry' =
             [i \in 1..(NumAddresses - Cardinality(batch)) |-> Cardinality(batch) + i]
    /\ runner' = "working"
    /\ UNCHANGED <<strategyVars, resolved, expired, mDetachedFromStrategy, answerVars,
                   mAllWorkersFailed, tempSocket, open, failed, socketless>>

\* resolveHostName() throws out of run(): the mutex is released on the way to
\* VThread::threadMain, which deletes the thread.
ResolveFails ==
    /\ runner = "resolving"
    /\ resolved' = FALSE
    /\ runner' = "ending"
    /\ UNCHANGED <<strategyVars, expired, mDetachedFromStrategy, mIPAddressesYetToTry,
                   answerVars, mAllWorkersFailed, mWorkers, workerVars>>

\* The two loops of run(), _isDone() and then _isDetachedFromStrategy().
SeeDone ==
    /\ runner = "working"
    /\ mWorkers = {}
    /\ runner' = "waiting"
    /\ UNCHANGED <<strategyVars, resolved, expired, mDetachedFromStrategy, mIPAddressesYetToTry,
                   answerVars, mAllWorkersFailed, mWorkers, workerVars>>

\* variant: the runner does not wait for the strategy
SeeNothing ==
    /\ runner = "waiting"
    /\ runner' = "ending"
    /\ UNCHANGED <<strategyVars, resolved, expired, mDetachedFromStrategy, mIPAddressesYetToTry,
                   answerVars, mAllWorkersFailed, mWorkers, workerVars>>

SeeDetached ==
    /\ runner = "waiting"
    /\ mDetachedFromStrategy
    /\ runner' = "ending"
    /\ UNCHANGED <<strategyVars, resolved, expired, mDetachedFromStrategy, mIPAddressesYetToTry,
                   answerVars, mAllWorkersFailed, mWorkers, workerVars>>

DeleteRunner ==
    /\ runner = "ending"
    /\ runner' = "gone"
    /\ UNCHANGED <<strategyVars, resolved, expired, mDetachedFromStrategy, mIPAddressesYetToTry,
                   answerVars, mAllWorkersFailed, mWorkers, workerVars>>

-----------------------------------------------------------------------------
(* The workers *)

WorkerFrame == <<strategyVars, runnerVars, expired, mDetachedFromStrategy,
                 mIPAddressesYetToTry, answerVars, mAllWorkersFailed, mWorkers>>

Connects(a) ==
    /\ worker[a] = "connecting"
    /\ tempSocket' = [tempSocket EXCEPT ![a] = a]
    /\ open' = open \cup {a}
    /\ worker' = [worker EXCEPT ![a] = "succeeding"]
    /\ UNCHANGED <<WorkerFrame, failed, socketless>>

ConnectFails(a) ==
    /\ worker[a] = "connecting"
    /\ failed' = failed \cup {a}
    /\ worker' = [worker EXCEPT ![a] = "failing"]
    /\ UNCHANGED <<WorkerFrame, tempSocket, open, socketless>>

\* _connectToIPAddress() does not throw when ::socket() gives it no socket: to
\* the worker this is a success.  (Nor when it gives an ID beyond FD_SETSIZE, for
\* a socket that is then never connected; that case is not followed.)
GetsNoSocket(a) ==
    /\ worker[a] = "connecting"
    /\ socketless' = socketless \cup {a}
    /\ worker' = [worker EXCEPT ![a] = "succeeding"]
    /\ UNCHANGED <<WorkerFrame, tempSocket, open, failed>>

\* variant: the winner's VSocket keeps the ID, and closes it
AdoptWithoutRelease(a) == UNCHANGED tempSocket
\* setSockID(kNoSocketID): the winner's VSocket will not close what was adopted.
ReleaseTempSocket(a) == tempSocket' = [tempSocket EXCEPT ![a] = None]

\* _workerSucceeded()
WorkerSucceeded(a) ==
    /\ worker[a] = "succeeding" /\ CanLock
    /\ \/ /\ mConnectionCompleted
          /\ UNCHANGED <<answerVars, tempSocket>>
       \/ /\ ~ mConnectionCompleted
          /\ mConnectedSocketID' = tempSocket[a]
          /\ mConnectionCompleted' = TRUE
          /\ ReleaseTempSocket(a)
    /\ mWorkers' = mWorkers \ {a}
    /\ worker' = [worker EXCEPT ![a] = "ending"]
    /\ UNCHANGED <<strategyVars, runnerVars, expired, mDetachedFromStrategy,
                   mIPAddressesYetToTry, mAllWorkersFailed, open, failed, socketless>>

\* variant: one failure is taken for the last one
AnyWorkerFailed == mAllWorkersFailed' = TRUE
\* variant: the last failure goes unnoticed
LastFailureUnnoticed ==
    mAllWorkersFailed' =
        (\/ mAllWorkersFailed
         \/ ~ mConnectionCompleted /\ mIPAddressesYetToTry # <<>> /\ expired)
\* Time is up with addresses left, or the last worker failed with none left.
LastWorkerFailed ==
    mAllWorkersFailed' =
        (\/ mAllWorkersFailed
         \/ mWorkers' = {}
         \/ ~ mConnectionCompleted /\ mIPAddressesYetToTry # <<>> /\ expired)

\* A worker for the next address takes the place of the one that failed.
NextWorker(a) ==
    LET isTried == ~ mConnectionCompleted /\ mIPAddressesYetToTry # <<>>
        isStarted == isTried /\ ~ expired
        next == Head(mIPAddressesYetToTry)
    IN  /\ mWorkers' = (mWorkers \ {a}) \cup (IF isStarted THEN {next} ELSE {})
        /\ worker' = [b \in Addresses |-> IF b = a THEN "ending"
                                          ELSE IF isStarted /\ b = next THEN "connecting"
                                          ELSE worker[b]]
        /\ mIPAddressesYetToTry' = IF isStarted THEN Tail(mIPAddressesYetToTry)
                                   ELSE IF isTried THEN <<>>
                                   ELSE mIPAddressesYetToTry

\* _workerFailed()
WorkerFailed(a) ==
    /\ worker[a] = "failing" /\ CanLock
    /\ NextWorker(a)
    /\ LastWorkerFailed
    /\ UNCHANGED <<strategyVars, runnerVars, expired, mDetachedFromStrategy, answerVars,
                   tempSocket, open, failed, socketless>>

\* run() returns, its VSocket closes what it still holds, the thread is deleted.
WorkerEnds(a) ==
    /\ worker[a] = "ending"
    /\ open' = open \ {tempSocket[a]}
    /\ tempSocket' = [tempSocket EXCEPT ![a] = None]
    /\ worker' = [worker EXCEPT ![a] = "gone"]
    /\ UNCHANGED <<WorkerFrame, failed, socketless>>

Expire ==
    /\ ~ expired
    /\ expired' = TRUE
    /\ UNCHANGED <<strategyVars, runnerVars, mDetachedFromStrategy, mIPAddressesYetToTry,
                   answerVars, mAllWorkersFailed, mWorkers, workerVars>>

-----------------------------------------------------------------------------
StrategyStep == Poll \/ TakeSocket \/ Detach
RunnerStep == RunnerLock \/ StartWorkers \/ ResolveFails \/ SeeDone \/ SeeDetached \/ DeleteRunner
WorkerStep(a) ==
    \/ Connects(a) \/ ConnectFails(a) \/ GetsNoSocket(a)
    \/ WorkerSucceeded(a) \/ WorkerFailed(a) \/ WorkerEnds(a)

Next ==
    \/ StrategyStep
    \/ RunnerStep
    \/ \E a \in Addresses : WorkerStep(a)
    \/ Expire

Spec == Init /\ [][Next]_vars

\* Threads run, name resolution returns, and an attempt to connect ends one way
\* or another.  The timeout may be infinite: nothing makes it expire.
Fairness ==
    /\ WF_vars(StrategyStep) /\ WF_vars(RunnerStep)
    /\ \A a \in Addresses : WF_vars(WorkerStep(a))
FairSpec == Spec /\ Fairness

-----------------------------------------------------------------------------
(* Properties *)

TypeOK ==
    /\ strategy \in {"polling", "asking", "detaching", "threw", "done"}
    /\ socketToConnect \in Addresses \cup {None}
    /\ runner \in {"starting", "resolving", "working", "waiting", "ending", "gone"}
    /\ resolved \in BOOLEAN /\ expired \in BOOLEAN
    /\ mDetachedFromStrategy \in BOOLEAN
    /\ mIPAddressesYetToTry \in Seq(Addresses)
    /\ mConnectionCompleted \in BOOLEAN /\ mAllWorkersFailed \in BOOLEAN
    /\ mConnectedSocketID \in Addresses \cup {None}
    /\ mWorkers \subseteq Addresses
    /\ worker \in [Addresses -> {"unborn", "connecting", "succeeding", "failing", "ending", "gone"}]
    /\ tempSocket \in [Addresses -> Addresses \cup {None}]
    /\ open \subseteq Addresses /\ failed \subseteq Addresses /\ socketless \subseteq Addresses

\* The runner deletes itself only when nobody will call it again: no worker that
\* has yet to report, and, if the host name was resolved, not the strategy.
RunnerOutlivesCallers ==
    runner = "gone" =>
        /\ \A a \in Addresses : worker[a] \in {"unborn", "ending", "gone"}
        /\ resolved => strategy = "done"

\* The runner never has more workers at a time than it was told: a worker that
\* fails is forgotten before the next is started.
BatchesAreLimited == MaxNumThreads >= 0 => Cardinality(mWorkers) <= MaxNumThreads

\* Exactly one owner for every open socket: a worker, whose VSocket will close
\* it, or the runner, for connect() to hand it on.  So the loser's socket is
\* closed, the winner's is not, and the caller gets one that is open.  A worker may win
\* after connect() threw: its socket is the runner's for good, and nobody closes it.
SocketsAreOwned ==
    /\ \A a \in Addresses : a \in open <=> (tempSocket[a] = a \/ mConnectedSocketID = a)
    /\ \A a, b \in Addresses : tempSocket[a] = b => a = b /\ mConnectedSocketID # b
    /\ strategy \in {"detaching", "done"} => socketToConnect \in open

\* connect() throws before its time is up only if every address has refused,
\* unless some worker was given no socket.
ThrowsWhenAllFailed ==
    (strategy = "threw" /\ ~ expired /\ socketless = {}) => failed = Addresses

\* connect() comes back, even with an infinite timeout.
ConnectReturns ==
    MaxNumThreads # 0 => (runner = "working" ~> strategy \in {"done", "threw"})

\* After a successful connect() the runner goes away, as soon as the workers
\* that lost have reported.
RunnerEnds == strategy = "done" ~> runner = "gone"

\* A connect() that throws does not detach (997-998): once its workers have reported the
\* runner waits for ever (876), unless the host name was not resolved.
ThrowingLeavesRunner == strategy = "threw" ~> ~ resolved \/ [](runner = "waiting")

\* The caller always comes back.  The runner "hangs around until all worker threads have
\* communicated their completion" (721-728) and, but for a connect() that threw, goes.
ConnectEnds == ConnectReturns /\ RunnerEnds /\ ThrowingLeavesRunner

\* vsocket.h: the strategy "connects to all DNS resolved IP addresses for a host
\* name, in parallel batches, until one succeeds or a specified timeout is
\* reached".  Violated: a worker given no socket by ::socket() wins the race, and
\* connect() throws though other addresses would accept.
TriesUntilOneSucceeds == (strategy = "threw" /\ ~ expired) => open = {}

\* vsocket.cpp: the strategy calls detachFromStrategy() "to signal that you will
\* no longer refer to the runner, so that it can self-destruct".  Violated: when
\* the host name cannot be resolved the runner is deleted while connect() polls.
RunnerWaitsForDetach == runner = "gone" => mDetachedFromStrategy
=============================================================================
