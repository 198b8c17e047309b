------------------------- MODULE VTextStreamTailer -------------------------
(***************************************************************************)
(* Threads that follow a text as it is written, line by line               *)
(* (source/streams/vtextstreamtailer.cpp).  One thread of the application  *)
(* starts and stops the runner.  What the handler is given are the lines   *)
(* of VTextIOStream.                                                       *)
(***************************************************************************)
EXTENDS VTextIOStream

CONSTANTS TailThreads, NoTailThread

VARIABLES
    mTailThread,        \* the runner's pointer
    tail,               \* per thread: "none", "created", "loop", "readLine", "ended"
    tailIsRunning,      \* per thread: VThread::mIsRunning
    twoReaders          \* history: two threads were in the stream at a time

runnerVars == <<mTailThread, tail, tailIsRunning, twoReaders>>
tailVars == <<lineReaderVars, runnerVars>>

RunnerInit ==
    /\ mTailThread = NoTailThread
    /\ tail = [t \in TailThreads |-> "none"]
    /\ tailIsRunning = [t \in TailThreads |-> FALSE]
    /\ twoReaders = FALSE

TailInit == TextInit /\ ~ includeLineEnding /\ RunnerInit

\* The memory of a deleted thread is taken to keep what its destructor wrote.
isRunning == mTailThread # NoTailThread /\ tailIsRunning[mTailThread]

-----------------------------------------------------------------------------
(* The application *)

\* start() takes no mutex, and forgets a thread that runs already.
CreatesThread(t) ==
    /\ tail[t] = "none" /\ \A u \in TailThreads : tail[u] # "created"
    /\ tail' = [tail EXCEPT ![t] = "created"]
    /\ mTailThread' = t
    /\ UNCHANGED <<tailIsRunning, twoReaders, lineReaderVars>>

StartsThread(t) ==
    /\ tail[t] = "created"
    /\ tail' = [tail EXCEPT ![t] = "loop"]
    /\ tailIsRunning' = [tailIsRunning EXCEPT ![t] = TRUE]
    /\ UNCHANGED <<mTailThread, twoReaders, lineReaderVars>>

\* Not followed: a call for a thread that an exception has ended and deleted.
StopsThread ==
    /\ mTailThread # NoTailThread /\ tail[mTailThread] \in {"loop", "readLine"}
    /\ tailIsRunning' = [tailIsRunning EXCEPT ![mTailThread] = FALSE]
    /\ mTailThread' = NoTailThread
    /\ UNCHANGED <<tail, twoReaders, lineReaderVars>>

-----------------------------------------------------------------------------
(* VTailRunnerThread::run() *)

\* What two threads in one stream do to it is not followed.
BeginsLine(t) ==
    /\ tail[t] = "loop" /\ tailIsRunning[t]
    /\ tail' = [tail EXCEPT ![t] = "readLine"]
    /\ IF reading = "no" THEN CallsReadLine /\ UNCHANGED twoReaders
       ELSE twoReaders' = TRUE /\ UNCHANGED lineVars
    /\ UNCHANGED <<mTailThread, tailIsRunning>>

EndsItself(t) ==
    /\ tail' = [tail EXCEPT ![t] = "ended"]
    /\ tailIsRunning' = [tailIsRunning EXCEPT ![t] = FALSE]
    /\ UNCHANGED <<mTailThread, twoReaders>>

IsDone(t) ==
    /\ tail[t] = "loop" /\ ~ tailIsRunning[t]
    /\ EndsItself(t)
    /\ UNCHANGED lineVars

\* variant: nothing ends the wait for a byte
WaitsOn == FALSE
GivesUp == ~ isRunning /\ reading = "codePoint" /\ LeavesReadLine /\ UNCHANGED textOffset

\* readGuaranteedByte() waits for a byte as long as the runner, not this thread,
\* runs.  The end of the stream is caught here, any other exception is not.
ReadsOn(t) ==
    /\ tail[t] = "readLine"
    /\ \/ TakesPending \/ StartsCodePoint \/ ReturnsAtEnd \/ ThrowsAtEnd
       \/ isRunning /\ ReadsByte
       \/ GivesUp
    /\ tail' = [tail EXCEPT ![t] = IF reading' = "no" THEN "loop" ELSE "readLine"]
    /\ UNCHANGED <<mTailThread, tailIsRunning, twoReaders>>

DiesOfInvalidText(t) ==
    /\ tail[t] = "readLine"
    /\ ThrowsOutOfRange /\ (reading = "codePoint" => isRunning)
    /\ EndsItself(t)

Tails(t) ==
    /\ ~ twoReaders
    /\ BeginsLine(t) \/ IsDone(t) \/ ReadsOn(t) \/ DiesOfInvalidText(t)
    /\ UNCHANGED <<rawTextVars, includeLineEnding>>

TailNext ==
    \/ Appends /\ UNCHANGED runnerVars
    \/ \E t \in TailThreads : CreatesThread(t) \/ StartsThread(t) \/ Tails(t)
    \/ StopsThread

\* A thread that can go on does; nothing makes the text grow.
TailFairness == \A t \in TailThreads : WF_tailVars(Tails(t)) /\ WF_tailVars(StartsThread(t))

TailSpec == TailInit /\ [][TailNext]_tailVars /\ TailFairness

-----------------------------------------------------------------------------
TailTypeOK ==
    /\ mTailThread \in TailThreads \cup {NoTailThread}
    /\ tail \in [TailThreads -> {"none", "created", "loop", "readLine", "ended"}]
    /\ tailIsRunning \in [TailThreads -> BOOLEAN]
    /\ twoReaders \in BOOLEAN

\* A runner hands over what there is, the last line without its end, except for a
\* code point it waits for the rest of; and once it is stopped its threads end.
\* Both unless invalid text has ended a thread, or start() was called while one
\* still ran: then two are in the stream, or one is forgotten and goes on.
CaughtUp == available = 0 /\ (reading = "no" \/ source # <<>>)
TailFollows ==
    []<>(\/ twoReaders
         \/ IF isRunning THEN CaughtUp
            ELSE \A t \in TailThreads : tail[t] \in {"loop", "readLine"} => tailIsRunning[t])
=============================================================================
