------------------------ MODULE VMessageQueueProofs ------------------------
(***************************************************************************)
(* The safety of VMessageQueue for every set of messages, callers and      *)
(* consumers: the mutex discipline, the FIFO order, the byte accounting,   *)
(* and that the queue implements MessageChannel.                           *)
(***************************************************************************)
EXTENDS VMessageQueue, TLAPS

\* The history of byte totals grows by each posted message's length.
Ledger ==
    /\ \A i \in 1..Len(posted) :
          bytesPosted[i + 1] = bytesPosted[i] + DataLength[posted[i]]
    /\ \A i, j \in 1..Len(bytesPosted) : i <= j => bytesPosted[i] <= bytesPosted[j]

\* What a thread inside a critical section has in hand: the last message
\* pushed, which is still queued, or the last one popped.
HandMatches ==
    \A t \in Threads :
        /\ pc[t] = "posting" => /\ popped < Len(posted)
                                /\ inHand[t] = posted[Len(posted)]
        /\ pc[t] \in {"getCount", "releaseCount"} => /\ popped > 0
                                                     /\ inHand[t] = posted[popped]

\* The byte total, without the bound that follows from it and Ledger.
TotalMatches ==
    mQueuedMessagesDataSize =
        bytesPosted[Len(posted) + 1] - bytesPosted[popped + 1] + Uncounted

IInv ==
    /\ TypeOK
    /\ MutexHeldInside
    /\ Ledger
    /\ HandMatches
    /\ TotalMatches
    /\ QueueIsPostedSuffix

-----------------------------------------------------------------------------
\* Every conjunct of the invariant holds initially.
LEMMA InitEstablishes == Init => IInv
<1> SUFFICES ASSUME Init PROVE IInv
    OBVIOUS
<1> USE ConstantsAssumption DEF Init
<1>1. TypeOK
    BY DEF TypeOK, Threads, CallerPCs, ConsumerPCs
<1>2. MutexHeldInside
    BY DEF MutexHeldInside, LockedPCs, Threads
<1>3. Ledger
    BY DEF Ledger
<1>4. HandMatches
    BY DEF HandMatches, Threads
<1>5. TotalMatches
    BY DEF TotalMatches, Uncounted
<1>6. QueueIsPostedSuffix
    BY DEF QueueIsPostedSuffix
<1> QED
    BY <1>1, <1>2, <1>3, <1>4, <1>5, <1>6 DEF IInv

\* Every entry of the byte history is a natural number.
LEMMA HistoryEntry ==
    ASSUME TypeOK, NEW i \in 1..(Len(posted) + 1)
    PROVE  bytesPosted[i] \in Nat
<1>1. bytesPosted \in Seq(Nat) /\ i \in 1..Len(bytesPosted)
    BY DEF TypeOK
<1> QED
    BY <1>1

\* A thread that is about to count a message has a message in hand.
LEMMA HandIsMessage ==
    ASSUME TypeOK, HandMatches, NEW t \in Threads,
           pc[t] \in {"posting", "getCount", "releaseCount"}
    PROVE  inHand[t] \in Messages /\ DataLength[inHand[t]] \in Nat
<1>1. posted \in Seq(Messages) /\ popped \in 0..Len(posted)
    BY DEF TypeOK
<1>2. CASE pc[t] = "posting"
    BY <1>1, <1>2, ConstantsAssumption DEF HandMatches
<1>3. CASE pc[t] \in {"getCount", "releaseCount"}
    BY <1>1, <1>3, ConstantsAssumption DEF HandMatches
<1> QED
    BY <1>2, <1>3

\* What a pop leaves well typed: the shorter deque, the hand it fills and the
\* count of messages popped.
LEMMA PopTypes ==
    ASSUME TypeOK, QueueIsPostedSuffix, NEW t \in Threads, PopFront(t)
    PROVE  /\ Head(mQueuedMessages) \in Messages
           /\ mQueuedMessages' \in Seq(Messages)
           /\ inHand' \in [Threads -> Messages \cup {None}]
           /\ popped' \in 0..Len(posted)
<1>1. mQueuedMessages \in Seq(Messages) /\ mQueuedMessages # <<>>
    BY DEF TypeOK, PopFront
<1>2. Head(mQueuedMessages) \in Messages /\ Tail(mQueuedMessages) \in Seq(Messages)
    BY <1>1
<1>3. /\ popped \in 0..Len(posted) /\ Len(mQueuedMessages) = Len(posted) - popped
      /\ posted \in Seq(Messages)
    BY DEF TypeOK, QueueIsPostedSuffix
<1>4. Len(mQueuedMessages) \in Nat /\ Len(mQueuedMessages) # 0 /\ Len(posted) \in Nat
    BY <1>1, <1>3
<1>5. popped + 1 \in 0..Len(posted)
    BY <1>3, <1>4
<1>6. inHand \in [Threads -> Messages \cup {None}]
    BY DEF TypeOK
<1>7. /\ mQueuedMessages' = Tail(mQueuedMessages) /\ popped' = popped + 1
      /\ inHand' = [inHand EXCEPT ![t] = Head(mQueuedMessages)]
    BY DEF PopFront
<1> QED
    BY <1>2, <1>5, <1>6, <1>7

\* A step keeps the types.
LEMMA TypeStep == IInv /\ [Next]_vars => TypeOK'
<1> SUFFICES ASSUME IInv, [Next]_vars PROVE TypeOK'
    OBVIOUS
<1> USE ConstantsAssumption
        DEF IInv, TypeOK, Threads, CallerPCs, ConsumerPCs, Goto, Lock, Unlock,
            queueVars, history
<1>1. ASSUME NEW p \in Callers, NEW m \in Messages, PostPush(p, m) PROVE TypeOK'
    BY <1>1 DEF PostPush, PushBack
<1>2. ASSUME NEW p \in Callers, PostCount(p) PROVE TypeOK'
    <2>1. inHand[p] \in Messages /\ DataLength[inHand[p]] \in Nat
        BY <1>2, HandIsMessage DEF PostCount
    <2> QED
        BY <1>2, <2>1 DEF PostCount
<1>3. ASSUME NEW p \in Callers, WakeUp(p) PROVE TypeOK'
    BY <1>3 DEF WakeUp
<1>4. ASSUME NEW p \in Callers, NEW c \in Consumers, Stop(p, c) PROVE TypeOK'
    BY <1>4 DEF Stop
<1>5. ASSUME NEW p \in Callers, Signal(p) PROVE TypeOK'
    BY <1>5 DEF Signal, Waiters
<1>6. ASSUME NEW p \in Callers, ReleaseBegin(p) PROVE TypeOK'
    BY <1>6 DEF ReleaseBegin
<1>7. ASSUME NEW p \in Callers, ReleasePop(p) PROVE TypeOK'
    <2>1. PopFront(p)
        BY <1>7 DEF ReleasePop
    <2>2. /\ mQueuedMessages' \in Seq(Messages) /\ popped' \in 0..Len(posted)
          /\ inHand' \in [Threads -> Messages \cup {None}]
        BY <2>1, PopTypes
    <2>3. /\ pc' = [pc EXCEPT ![p] = "releaseCount"]
          /\ UNCHANGED <<mQueuedMessagesDataSize, mutexOwner, isRunning, posted,
                         bytesPosted, taken>>
        BY <1>7 DEF ReleasePop
    <2> QED
        BY <2>2, <2>3
<1>8. ASSUME NEW p \in Callers, ReleaseCount(p) PROVE TypeOK'
    <2>1. inHand[p] \in Messages /\ DataLength[inHand[p]] \in Nat
        BY <1>8, HandIsMessage DEF ReleaseCount
    <2> QED
        BY <1>8, <2>1 DEF ReleaseCount, CountOut
<1>9. ASSUME NEW p \in Callers, ReleaseEnd(p) PROVE TypeOK'
    BY <1>9 DEF ReleaseEnd
<1>10. ASSUME NEW c \in Consumers, GetPop(c) PROVE TypeOK'
    <2>1. PopFront(c)
        BY <1>10 DEF GetPop
    <2>2. /\ mQueuedMessages' \in Seq(Messages) /\ popped' \in 0..Len(posted)
          /\ inHand' \in [Threads -> Messages \cup {None}]
          /\ Head(mQueuedMessages) \in Messages
        BY <2>1, PopTypes
    <2>3. taken' \in Seq(Messages)
        BY <1>10, <2>2 DEF GetPop
    <2>4. /\ pc' = [pc EXCEPT ![c] = "getCount"] /\ mutexOwner' = c
          /\ UNCHANGED <<mQueuedMessagesDataSize, isRunning, posted, bytesPosted>>
        BY <1>10 DEF GetPop
    <2> QED
        BY <2>2, <2>3, <2>4
<1>11. ASSUME NEW c \in Consumers, GetCount(c) PROVE TypeOK'
    <2>1. inHand[c] \in Messages /\ DataLength[inHand[c]] \in Nat
        BY <1>11, HandIsMessage DEF GetCount
    <2> QED
        BY <1>11, <2>1 DEF GetCount, CountOut
<1>12. ASSUME NEW c \in Consumers,
              RunLoop(c) \/ GetNothing(c) \/ EnterWait(c) \/ WaitTimedOut(c) \/ Process(c)
       PROVE TypeOK'
    <2>1. CASE RunLoop(c)
        BY <2>1 DEF RunLoop
    <2>2. CASE GetNothing(c)
        BY <2>2 DEF GetNothing
    <2>3. CASE EnterWait(c) \/ WaitTimedOut(c)
        BY <2>3 DEF EnterWait, WaitTimedOut
    <2>4. CASE Process(c)
        BY <2>4 DEF Process
    <2> QED
        BY <1>12, <2>1, <2>2, <2>3, <2>4
<1>13. CASE UNCHANGED vars
    BY <1>13 DEF vars
<1> QED
    BY <1>1, <1>2, <1>3, <1>4, <1>5, <1>6, <1>7, <1>8, <1>9, <1>10, <1>11, <1>12, <1>13
       DEF Next, CallerStep, ConsumerStep

\* A step keeps the mutex with the one thread inside a critical section.
LEMMA MutexStep == IInv /\ [Next]_vars => MutexHeldInside'
<1> SUFFICES ASSUME IInv, [Next]_vars PROVE MutexHeldInside'
    OBVIOUS
<1> USE ConstantsAssumption
        DEF IInv, TypeOK, MutexHeldInside, LockedPCs, Threads, Goto, Lock, Unlock
<1>1. ASSUME NEW p \in Callers, NEW m \in Messages, PostPush(p, m) PROVE MutexHeldInside'
    <2>1. /\ pc[p] = "idle" /\ mutexOwner = None /\ mutexOwner' = p
          /\ pc' = [pc EXCEPT ![p] = "posting"]
        BY <1>1 DEF PostPush
    <2> QED
        BY <2>1
<1>2. ASSUME NEW p \in Callers,
             PostCount(p) \/ WakeUp(p) \/ ReleaseBegin(p) \/ ReleasePop(p)
               \/ ReleaseCount(p) \/ ReleaseEnd(p)
      PROVE MutexHeldInside'
    <2>1. CASE PostCount(p)
        BY <2>1 DEF PostCount
    <2>2. CASE WakeUp(p)
        BY <2>2 DEF WakeUp
    <2>3. CASE ReleaseBegin(p)
        BY <2>3 DEF ReleaseBegin
    <2>4. CASE ReleasePop(p) \/ ReleaseCount(p)
        BY <2>4 DEF ReleasePop, ReleaseCount
    <2>5. CASE ReleaseEnd(p)
        BY <2>5 DEF ReleaseEnd
    <2> QED
        BY <1>2, <2>1, <2>2, <2>3, <2>4, <2>5
<1>3. ASSUME NEW p \in Callers, NEW c \in Consumers, Stop(p, c) PROVE MutexHeldInside'
    BY <1>3 DEF Stop
<1>4. ASSUME NEW p \in Callers, Signal(p) PROVE MutexHeldInside'
    BY <1>4 DEF Signal, Waiters
<1>5. ASSUME NEW c \in Consumers,
             RunLoop(c) \/ GetPop(c) \/ GetCount(c) \/ GetNothing(c) \/ EnterWait(c)
               \/ WaitTimedOut(c) \/ Process(c)
      PROVE MutexHeldInside'
    <2>1. CASE RunLoop(c) \/ GetNothing(c)
        BY <2>1 DEF RunLoop, GetNothing
    <2>2. CASE GetPop(c)
        BY <2>2 DEF GetPop
    <2>3. CASE GetCount(c)
        BY <2>3 DEF GetCount
    <2>4. CASE EnterWait(c) \/ WaitTimedOut(c) \/ Process(c)
        BY <2>4 DEF EnterWait, WaitTimedOut, Process
    <2> QED
        BY <1>5, <2>1, <2>2, <2>3, <2>4
<1>6. CASE UNCHANGED vars
    BY <1>6 DEF vars
<1> QED
    BY <1>1, <1>2, <1>3, <1>4, <1>5, <1>6 DEF Next, CallerStep, ConsumerStep

\* Only a push extends the byte history, by the pushed message's length.
LEMMA LedgerStep == IInv /\ [Next]_vars => Ledger'
<1> SUFFICES ASSUME IInv, [Next]_vars PROVE Ledger'
    OBVIOUS
<1>1. ASSUME NEW p \in Callers, NEW m \in Messages, PostPush(p, m) PROVE Ledger'
    <2> DEFINE n == Len(posted)
    <2>1. /\ posted \in Seq(Messages) /\ n \in Nat
          /\ bytesPosted \in Seq(Nat) /\ Len(bytesPosted) = n + 1
          /\ DataLength[m] \in Nat
        BY ConstantsAssumption DEF IInv, TypeOK
    <2>2. /\ posted' = Append(posted, m)
          /\ bytesPosted' = Append(bytesPosted, bytesPosted[n + 1] + DataLength[m])
        BY <1>1, <2>1 DEF PostPush
    <2>3. /\ Len(posted') = n + 1 /\ Len(bytesPosted') = n + 2
          /\ posted'[n + 1] = m
          /\ bytesPosted'[n + 2] = bytesPosted[n + 1] + DataLength[m]
          /\ \A i \in 1..n : posted'[i] = posted[i]
          /\ \A i \in 1..(n + 1) : bytesPosted'[i] = bytesPosted[i]
        BY <2>1, <2>2
    <2>4. \A i \in 1..(n + 1) : bytesPosted'[i + 1] = bytesPosted'[i] + DataLength[posted'[i]]
        <3> TAKE i \in 1..(n + 1)
        <3>1. CASE i = n + 1
            BY <3>1, <2>1, <2>3
        <3>2. CASE i \in 1..n
            <4>1. bytesPosted[i + 1] = bytesPosted[i] + DataLength[posted[i]]
                BY <3>2 DEF IInv, Ledger
            <4> QED
                BY <3>2, <4>1, <2>1, <2>3
        <3> QED
            BY <3>1, <3>2, <2>1
    <2>5. \A i, j \in 1..(n + 2) : i <= j => bytesPosted'[i] <= bytesPosted'[j]
        <3> TAKE i, j \in 1..(n + 2)
        <3> HAVE i <= j
        <3>1. \A k, l \in 1..(n + 1) : k <= l => bytesPosted[k] <= bytesPosted[l]
            BY <2>1 DEF IInv, Ledger
        <3>2. CASE j \in 1..(n + 1)
            <4>1. i \in 1..(n + 1) /\ bytesPosted[i] <= bytesPosted[j]
                BY <3>1, <3>2, <2>1
            <4>2. bytesPosted'[i] = bytesPosted[i] /\ bytesPosted'[j] = bytesPosted[j]
                BY <3>2, <4>1, <2>3
            <4> QED
                BY <4>1, <4>2
        <3>3. CASE j = n + 2 /\ i \in 1..(n + 1)
            <4>1. bytesPosted[i] <= bytesPosted[n + 1]
                BY <3>1, <3>3, <2>1
            <4>2. bytesPosted[i] \in Nat /\ bytesPosted[n + 1] \in Nat
                BY <3>3, <2>1
            <4> QED
                BY <4>1, <4>2, <3>3, <2>1, <2>3
        <3>4. CASE j = n + 2 /\ i = n + 2
            BY <3>4, <2>1, <2>3
        <3> QED
            BY <3>2, <3>3, <3>4, <2>1
    <2> QED
        BY <2>1, <2>3, <2>4, <2>5 DEF Ledger
<1>2. CASE UNCHANGED <<posted, bytesPosted>>
    BY <1>2 DEF IInv, Ledger
<1> QED
    BY <1>1, <1>2
       DEF Next, CallerStep, ConsumerStep, vars, history, PostCount, WakeUp, Stop, Signal,
           ReleaseBegin, ReleasePop, ReleaseCount, ReleaseEnd, RunLoop, GetPop, GetCount,
           GetNothing, EnterWait, WaitTimedOut, Process

\* The deque changes at its ends, together with the history it is matched to.
LEMMA QueueStep == IInv /\ [Next]_vars => QueueIsPostedSuffix'
<1> SUFFICES ASSUME IInv, [Next]_vars PROVE QueueIsPostedSuffix'
    OBVIOUS
<1>0. /\ mQueuedMessages \in Seq(Messages) /\ posted \in Seq(Messages)
      /\ popped \in 0..Len(posted)
      /\ Len(mQueuedMessages) = Len(posted) - popped
      /\ \A i \in 1..Len(mQueuedMessages) : mQueuedMessages[i] = posted[popped + i]
    BY DEF IInv, TypeOK, QueueIsPostedSuffix
<1>1. ASSUME NEW p \in Callers, NEW m \in Messages, PostPush(p, m)
      PROVE QueueIsPostedSuffix'
    <2>1. /\ mQueuedMessages' = Append(mQueuedMessages, m)
          /\ posted' = Append(posted, m) /\ popped' = popped
        BY <1>1 DEF PostPush, PushBack
    <2>2. /\ Len(mQueuedMessages') = Len(mQueuedMessages) + 1
          /\ mQueuedMessages'[Len(mQueuedMessages) + 1] = m
          /\ \A i \in 1..Len(mQueuedMessages) : mQueuedMessages'[i] = mQueuedMessages[i]
        BY <1>0, <2>1
    <2>3. /\ Len(posted') = Len(posted) + 1 /\ posted'[Len(posted) + 1] = m
          /\ \A i \in 1..Len(posted) : posted'[i] = posted[i]
        BY <1>0, <2>1
    <2>4. ASSUME NEW i \in 1..Len(mQueuedMessages')
          PROVE  mQueuedMessages'[i] = posted'[popped' + i]
        <3>1. CASE i = Len(mQueuedMessages) + 1
            BY <3>1, <1>0, <2>1, <2>2, <2>3
        <3>2. CASE i \in 1..Len(mQueuedMessages)
            BY <3>2, <1>0, <2>1, <2>2, <2>3
        <3> QED
            BY <3>1, <3>2, <2>2, <1>0
    <2>5. Len(mQueuedMessages') = Len(posted') - popped'
        <3>1. popped' = popped
            BY <2>1
        <3> QED
            BY <3>1, <1>0, <2>2, <2>3
    <2> QED
        BY <2>4, <2>5 DEF QueueIsPostedSuffix
<1>2. ASSUME NEW t \in Threads, PopFront(t), posted' = posted
      PROVE QueueIsPostedSuffix'
    <2>1. /\ mQueuedMessages' = Tail(mQueuedMessages) /\ mQueuedMessages # <<>>
          /\ popped' = popped + 1
        BY <1>2 DEF PopFront
    <2>2. /\ Len(mQueuedMessages') = Len(mQueuedMessages) - 1
          /\ \A i \in 1..Len(mQueuedMessages') :
                mQueuedMessages'[i] = mQueuedMessages[i + 1]
        BY <1>0, <2>1
    <2>3. ASSUME NEW i \in 1..Len(mQueuedMessages')
          PROVE  mQueuedMessages'[i] = posted'[popped' + i]
        <3>1. i + 1 \in 1..Len(mQueuedMessages)
            BY <1>0, <2>1, <2>2
        <3>2. mQueuedMessages[i + 1] = posted[popped + (i + 1)]
            BY <1>0, <3>1
        <3> QED
            BY <1>0, <1>2, <2>1, <2>2, <3>2
    <2>4. Len(mQueuedMessages') = Len(posted') - popped'
        BY <1>0, <1>2, <2>1, <2>2
    <2> QED
        BY <2>3, <2>4 DEF QueueIsPostedSuffix
<1>3. CASE UNCHANGED <<mQueuedMessages, posted, popped>>
    BY <1>3 DEF IInv, QueueIsPostedSuffix
<1> QED
    BY <1>1, <1>2, <1>3
       DEF Next, CallerStep, ConsumerStep, vars, history, queueVars, PostCount, WakeUp, Stop,
           Signal, ReleaseBegin, ReleasePop, ReleaseCount, ReleaseEnd, RunLoop, GetPop,
           GetCount, GetNothing, EnterWait, WaitTimedOut, Process, Threads

\* Whoever enters a critical section with a message has the one it moved; the
\* mutex keeps everyone else from moving another.
LEMMA HandStep == IInv /\ [Next]_vars => HandMatches'
<1> SUFFICES ASSUME IInv, [Next]_vars PROVE HandMatches'
    OBVIOUS
<1> USE ConstantsAssumption DEF HandMatches, Threads, Goto, Lock, Unlock
<1>0. /\ mQueuedMessages \in Seq(Messages) /\ posted \in Seq(Messages)
      /\ popped \in 0..Len(posted)
      /\ pc \in [Threads -> CallerPCs \cup ConsumerPCs]
      /\ inHand \in [Threads -> Messages \cup {None}]
      /\ \A t \in Threads : pc[t] \in LockedPCs <=> mutexOwner = t
      /\ HandMatches
      /\ Len(mQueuedMessages) = Len(posted) - popped
      /\ \A i \in 1..Len(mQueuedMessages) : mQueuedMessages[i] = posted[popped + i]
    BY DEF IInv, TypeOK, MutexHeldInside, QueueIsPostedSuffix
<1>1. ASSUME NEW p \in Callers, NEW m \in Messages, PostPush(p, m) PROVE HandMatches'
    <2>1. /\ posted' = Append(posted, m) /\ popped' = popped /\ mutexOwner = None
          /\ pc' = [pc EXCEPT ![p] = "posting"] /\ inHand' = [inHand EXCEPT ![p] = m]
        BY <1>1 DEF PostPush
    <2>2. Len(posted') = Len(posted) + 1 /\ posted'[Len(posted')] = m
        BY <1>0, <2>1
    <2>3. \A t \in Threads : t # p => pc'[t] \notin LockedPCs
        BY <1>0, <2>1
    <2> QED
        BY <1>0, <2>1, <2>2, <2>3 DEF LockedPCs
<1>2. ASSUME NEW t \in Threads, PopFront(t), posted' = posted,
             \A u \in Threads : u # t => pc[u] \notin LockedPCs,
             NEW label, pc' = [pc EXCEPT ![t] = label], label \in {"getCount", "releaseCount"}
      PROVE HandMatches'
    <2>1. Head(mQueuedMessages) = posted[popped + 1] /\ popped' = popped + 1
        BY <1>0, <1>2 DEF PopFront
    <2>2. inHand' = [inHand EXCEPT ![t] = posted[popped + 1]]
        BY <2>1, <1>2 DEF PopFront
    <2> QED
        BY <1>0, <1>2, <2>1, <2>2 DEF LockedPCs
<1>3. ASSUME NEW p \in Callers, ReleasePop(p) PROVE HandMatches'
    <2>1. \A u \in Threads : u # p => pc[u] \notin LockedPCs
        BY <1>0, <1>3 DEF ReleasePop, LockedPCs
    <2> QED
        BY <1>2, <1>3, <2>1 DEF ReleasePop
<1>4. ASSUME NEW c \in Consumers, GetPop(c) PROVE HandMatches'
    <2>1. \A u \in Threads : u # c => pc[u] \notin LockedPCs
        BY <1>0, <1>4 DEF GetPop
    <2> QED
        BY <1>2, <1>4, <2>1 DEF GetPop
<1>5. ASSUME UNCHANGED <<posted, popped>>,
             \A t \in Threads : pc'[t] \in {"posting", "getCount", "releaseCount"} =>
                                 pc'[t] = pc[t] /\ inHand'[t] = inHand[t]
      PROVE HandMatches'
    BY <1>0, <1>5
<1>6. ASSUME NEW p \in Callers,
             PostCount(p) \/ ReleaseCount(p) \/ WakeUp(p) \/ ReleaseBegin(p) \/ ReleaseEnd(p)
      PROVE HandMatches'
    BY <1>0, <1>5, <1>6
       DEF PostCount, ReleaseCount, WakeUp, ReleaseBegin, ReleaseEnd, history
<1>7. ASSUME NEW p \in Callers, NEW c \in Consumers, Stop(p, c) PROVE HandMatches'
    BY <1>0, <1>5, <1>7 DEF Stop, history
<1>8. ASSUME NEW p \in Callers, Signal(p) PROVE HandMatches'
    BY <1>0, <1>5, <1>8 DEF Signal, Waiters, history
<1>9. ASSUME NEW c \in Consumers,
             RunLoop(c) \/ GetCount(c) \/ GetNothing(c) \/ EnterWait(c)
               \/ WaitTimedOut(c) \/ Process(c)
      PROVE HandMatches'
    BY <1>0, <1>5, <1>9
       DEF RunLoop, GetCount, GetNothing, EnterWait, WaitTimedOut, Process, history
<1>10. CASE UNCHANGED vars
    BY <1>0, <1>5, <1>10 DEF vars
<1> QED
    BY <1>1, <1>3, <1>4, <1>6, <1>7, <1>8, <1>9, <1>10
       DEF Next, CallerStep, ConsumerStep

\* Every step that moves a message or counts one keeps the byte total matched.
LEMMA TotalStep == IInv /\ [Next]_vars => TotalMatches'
<1> SUFFICES ASSUME IInv, [Next]_vars PROVE TotalMatches'
    OBVIOUS
<1> USE ConstantsAssumption DEF Threads, Goto, Lock, Unlock
<1>0. /\ mQueuedMessages \in Seq(Messages) /\ posted \in Seq(Messages)
      /\ bytesPosted \in Seq(Nat) /\ Len(bytesPosted) = Len(posted) + 1
      /\ popped \in 0..Len(posted) /\ mQueuedMessagesDataSize \in Int
      /\ mutexOwner \in Threads \cup {None}
      /\ pc \in [Threads -> CallerPCs \cup ConsumerPCs]
      /\ inHand \in [Threads -> Messages \cup {None}]
      /\ \A t \in Threads : pc[t] \in LockedPCs <=> mutexOwner = t
      /\ Len(mQueuedMessages) = Len(posted) - popped
      /\ \A i \in 1..Len(mQueuedMessages) : mQueuedMessages[i] = posted[popped + i]
      /\ TotalMatches
    BY DEF IInv, TypeOK, MutexHeldInside, QueueIsPostedSuffix
<1>1. ASSUME NEW p \in Callers, NEW m \in Messages, PostPush(p, m) PROVE TotalMatches'
    <2>1. /\ posted' = Append(posted, m) /\ popped' = popped
          /\ mutexOwner = None /\ mutexOwner' = p
          /\ pc' = [pc EXCEPT ![p] = "posting"] /\ inHand' = [inHand EXCEPT ![p] = m]
          /\ bytesPosted' = Append(bytesPosted,
                                   bytesPosted[Len(bytesPosted)] + DataLength[m])
          /\ mQueuedMessagesDataSize' = mQueuedMessagesDataSize
        BY <1>1 DEF PostPush
    <2>2. Uncounted = 0 /\ Uncounted' = - DataLength[m]
        BY <1>0, <2>1 DEF Uncounted
    <2> DEFINE n == Len(posted)
    <2>3. /\ n \in Nat /\ Len(posted') = n + 1
          /\ bytesPosted'[n + 2] = bytesPosted[n + 1] + DataLength[m]
          /\ bytesPosted'[popped + 1] = bytesPosted[popped + 1]
        <3>1. /\ n \in Nat /\ Len(bytesPosted) = n + 1 /\ popped + 1 \in 1..(n + 1)
              /\ bytesPosted \in Seq(Nat) /\ posted \in Seq(Messages)
            BY <1>0
        <3>2. Len(posted') = n + 1
            BY <3>1, <2>1
        <3>3. bytesPosted' = Append(bytesPosted, bytesPosted[n + 1] + DataLength[m])
            BY <3>1, <2>1
        <3>4. bytesPosted'[n + 2] = bytesPosted[n + 1] + DataLength[m]
            BY <3>1, <3>3
        <3>5. bytesPosted'[popped + 1] = bytesPosted[popped + 1]
            BY <3>1, <3>3
        <3> QED
            BY <3>1, <3>2, <3>4, <3>5
    <2>4. /\ DataLength[m] \in Nat /\ bytesPosted[popped + 1] \in Nat
          /\ bytesPosted[Len(posted) + 1] \in Nat
        BY <1>0
    <2>5. mQueuedMessagesDataSize = bytesPosted[Len(posted) + 1] - bytesPosted[popped + 1]
        BY <1>0, <2>2, <2>4 DEF TotalMatches
    <2>6. mQueuedMessagesDataSize' =
              bytesPosted'[Len(posted') + 1] - bytesPosted'[popped' + 1] + Uncounted'
        <3>1. Len(posted') + 1 = n + 2 /\ popped' + 1 = popped + 1
            BY <2>1, <2>3
        <3>2. bytesPosted[n + 1] - bytesPosted[popped + 1]
                = (bytesPosted[n + 1] + DataLength[m]) - bytesPosted[popped + 1]
                    + (- DataLength[m])
            BY <2>4
        <3>3. mQueuedMessagesDataSize' = bytesPosted[n + 1] - bytesPosted[popped + 1]
            BY <2>1, <2>5
        <3>4. /\ bytesPosted'[Len(posted') + 1] = bytesPosted[n + 1] + DataLength[m]
              /\ bytesPosted'[popped' + 1] = bytesPosted[popped + 1]
            BY <3>1, <2>3
        <3> HIDE DEF n
        <3> QED
            BY <3>2, <3>3, <3>4, <2>2
    <2> QED
        BY <2>6 DEF TotalMatches
<1>2. ASSUME NEW t \in Threads, PopFront(t),
             UNCHANGED <<posted, bytesPosted, mQueuedMessagesDataSize>>,
             Uncounted = 0, mutexOwner' = t,
             NEW label, pc' = [pc EXCEPT ![t] = label], label \in {"getCount", "releaseCount"}
      PROVE TotalMatches'
    <2>1. /\ Head(mQueuedMessages) = posted[popped + 1] /\ popped' = popped + 1
          /\ popped + 1 \in 1..Len(posted) /\ popped \in Nat /\ Len(posted) \in Nat
        <3>1. /\ mQueuedMessages # <<>> /\ mQueuedMessages \in Seq(Messages)
              /\ popped' = popped + 1
            BY <1>0, <1>2 DEF PopFront
        <3>2. /\ Len(mQueuedMessages) \in Nat \ {0} /\ 1 \in 1..Len(mQueuedMessages)
              /\ Head(mQueuedMessages) = mQueuedMessages[1]
            BY <3>1
        <3>3. mQueuedMessages[1] = posted[popped + 1]
            BY <3>2, <1>0
        <3>4. /\ Len(posted) \in Nat /\ popped \in Nat
              /\ Len(mQueuedMessages) = Len(posted) - popped
            BY <1>0
        <3>5. popped + 1 \in 1..Len(posted)
            BY <3>2, <3>4
        <3> QED
            BY <3>1, <3>2, <3>3, <3>4, <3>5
    <2>2. inHand' = [inHand EXCEPT ![t] = posted[popped + 1]]
        BY <2>1, <1>2 DEF PopFront
    <2>3. Uncounted' = DataLength[posted[popped + 1]]
        BY <1>0, <1>2, <2>2 DEF Uncounted
    <2>4. bytesPosted[popped + 2] = bytesPosted[popped + 1] + DataLength[posted[popped + 1]]
        <3>1. bytesPosted[(popped + 1) + 1]
                = bytesPosted[popped + 1] + DataLength[posted[popped + 1]]
            BY <2>1 DEF IInv, Ledger
        <3>2. (popped + 1) + 1 = popped + 2
            BY <2>1
        <3> QED
            BY <3>1, <3>2
    <2>5. /\ bytesPosted[popped + 1] \in Nat /\ bytesPosted[popped + 2] \in Nat
          /\ bytesPosted[Len(posted) + 1] \in Nat
          /\ DataLength[posted[popped + 1]] \in Nat
        <3>1. /\ popped + 1 \in 1..(Len(posted) + 1) /\ popped + 2 \in 1..(Len(posted) + 1)
              /\ Len(posted) + 1 \in 1..(Len(posted) + 1)
            BY <2>1
        <3>2. posted[popped + 1] \in Messages
            BY <1>0, <2>1
        <3>3. DataLength[posted[popped + 1]] \in Nat
            BY <3>2
        <3> QED
            BY <3>1, <3>3, HistoryEntry DEF IInv
    <2>6. mQueuedMessagesDataSize = bytesPosted[Len(posted) + 1] - bytesPosted[popped + 1]
        <3>1. mQueuedMessagesDataSize =
                  bytesPosted[Len(posted) + 1] - bytesPosted[popped + 1] + Uncounted
            BY <1>0 DEF TotalMatches
        <3> QED
            BY <3>1, <1>2, <2>5
    <2>7. mQueuedMessagesDataSize' =
              bytesPosted'[Len(posted') + 1] - bytesPosted'[popped' + 1] + Uncounted'
        <3>1. bytesPosted'[Len(posted') + 1] = bytesPosted[Len(posted) + 1]
            BY <1>2
        <3>2. bytesPosted'[popped' + 1] = bytesPosted[popped + 2]
            <4>1. popped' + 1 = popped + 2
                BY <2>1
            <4> QED
                BY <4>1, <1>2
        <3>3. mQueuedMessagesDataSize' = mQueuedMessagesDataSize
            BY <1>2
        <3> QED
            BY <3>1, <3>2, <3>3, <2>3, <2>4, <2>5, <2>6
    <2> QED
        BY <2>7 DEF TotalMatches
<1>3. ASSUME NEW p \in Callers, ReleasePop(p) PROVE TotalMatches'
    <2>1. mutexOwner = p /\ Uncounted = 0
        BY <1>0, <1>3 DEF ReleasePop, LockedPCs, Uncounted
    <2> QED
        BY <1>2, <1>3, <2>1 DEF ReleasePop
<1>4. ASSUME NEW c \in Consumers, GetPop(c) PROVE TotalMatches'
    BY <1>2, <1>4 DEF GetPop, Uncounted
\* What the three steps that count have in common.
<1>5. ASSUME UNCHANGED <<posted, bytesPosted, popped>>,
             Uncounted \in Int, Uncounted' \in Int,
             mQueuedMessagesDataSize' - Uncounted' = mQueuedMessagesDataSize - Uncounted,
             mQueuedMessagesDataSize' \in Int
      PROVE TotalMatches'
    <2>1. bytesPosted[popped + 1] \in Nat /\ bytesPosted[Len(posted) + 1] \in Nat
        BY <1>0
    <2>2. mQueuedMessagesDataSize' =
              bytesPosted'[Len(posted') + 1] - bytesPosted'[popped' + 1] + Uncounted'
        <3>1. /\ bytesPosted'[Len(posted') + 1] = bytesPosted[Len(posted) + 1]
              /\ bytesPosted'[popped' + 1] = bytesPosted[popped + 1]
            BY <1>5
        <3>2. mQueuedMessagesDataSize =
                  bytesPosted[Len(posted) + 1] - bytesPosted[popped + 1] + Uncounted
            BY <1>0 DEF TotalMatches
        <3> QED
            <4> DEFINE a == bytesPosted[Len(posted) + 1]
                       b == bytesPosted[popped + 1]
                       s == mQueuedMessagesDataSize
                       u == Uncounted
                       v == Uncounted'
                       w == mQueuedMessagesDataSize'
            <4>1. a \in Int /\ b \in Int /\ s \in Int /\ w \in Int /\ u \in Int /\ v \in Int
                BY <1>0, <1>5, <2>1
            <4>2. s = a - b + u /\ w - v = s - u
                BY <3>2, <1>5
            <4> HIDE DEF a, b, s, u, v, w
            <4>3. w = a - b + v
                BY <4>1, <4>2
            <4> QED
                BY <4>3, <3>1 DEF a, b, v, w
    <2> QED
        BY <2>2 DEF TotalMatches
<1>6. ASSUME NEW p \in Callers, PostCount(p) PROVE TotalMatches'
    <2>1. DataLength[inHand[p]] \in Nat
        BY <1>6, HandIsMessage DEF PostCount, IInv
    <2>2. Uncounted = - DataLength[inHand[p]] /\ Uncounted' = 0
        BY <1>0, <1>6 DEF PostCount, Uncounted, LockedPCs
    <2> QED
        BY <1>0, <1>5, <1>6, <2>1, <2>2 DEF PostCount, history
<1>7. ASSUME NEW p \in Callers, ReleaseCount(p) PROVE TotalMatches'
    <2>1. DataLength[inHand[p]] \in Nat
        BY <1>7, HandIsMessage DEF ReleaseCount, IInv
    <2>2. Uncounted = DataLength[inHand[p]] /\ Uncounted' = 0
        BY <1>0, <1>7 DEF ReleaseCount, Uncounted, LockedPCs
    <2> QED
        BY <1>0, <1>5, <1>7, <2>1, <2>2 DEF ReleaseCount, CountOut, history
<1>8. ASSUME NEW c \in Consumers, GetCount(c) PROVE TotalMatches'
    <2>1. DataLength[inHand[c]] \in Nat
        BY <1>8, HandIsMessage DEF GetCount, IInv
    <2>2. Uncounted = DataLength[inHand[c]] /\ Uncounted' = 0
        BY <1>0, <1>8 DEF GetCount, Uncounted, LockedPCs
    <2> QED
        BY <1>0, <1>5, <1>8, <2>1, <2>2 DEF GetCount, CountOut, history
<1>9. ASSUME NEW p \in Callers, ReleaseBegin(p) \/ ReleaseEnd(p) PROVE TotalMatches'
    <2>1. Uncounted = 0 /\ Uncounted' = 0
        BY <1>0, <1>9 DEF ReleaseBegin, ReleaseEnd, Uncounted, LockedPCs
    <2> QED
        BY <1>0, <1>5, <1>9, <2>1 DEF ReleaseBegin, ReleaseEnd, queueVars, history
\* The remaining steps leave the owner of the mutex, if any, where it is.
<1>10. ASSUME UNCHANGED <<posted, bytesPosted, popped, mQueuedMessagesDataSize, mutexOwner>>,
              mutexOwner # None => pc'[mutexOwner] = pc[mutexOwner]
                                   /\ inHand'[mutexOwner] = inHand[mutexOwner]
       PROVE TotalMatches'
    <2>1. Uncounted' = Uncounted
        BY <1>10 DEF Uncounted
    <2>2. mQueuedMessagesDataSize' =
              bytesPosted'[Len(posted') + 1] - bytesPosted'[popped' + 1] + Uncounted'
        BY <1>0, <1>10, <2>1 DEF TotalMatches
    <2> QED
        BY <2>2 DEF TotalMatches
<1>11. ASSUME NEW p \in Callers, WakeUp(p) PROVE TotalMatches'
    BY <1>0, <1>10, <1>11 DEF WakeUp, queueVars, history, LockedPCs
<1>12. ASSUME NEW p \in Callers, NEW c \in Consumers, Stop(p, c) PROVE TotalMatches'
    BY <1>0, <1>10, <1>12 DEF Stop, queueVars, history, LockedPCs
<1>13. ASSUME NEW p \in Callers, Signal(p) PROVE TotalMatches'
    BY <1>0, <1>10, <1>13 DEF Signal, Waiters, queueVars, history, LockedPCs
<1>14. ASSUME NEW c \in Consumers,
              RunLoop(c) \/ GetNothing(c) \/ EnterWait(c) \/ WaitTimedOut(c) \/ Process(c)
       PROVE TotalMatches'
    BY <1>0, <1>10, <1>14
       DEF RunLoop, GetNothing, EnterWait, WaitTimedOut, Process, queueVars, history, LockedPCs
<1>15. CASE UNCHANGED vars
    BY <1>10, <1>15 DEF vars
<1> QED
    BY <1>1, <1>3, <1>4, <1>6, <1>7, <1>8, <1>9, <1>11, <1>12, <1>13, <1>14, <1>15
       DEF Next, CallerStep, ConsumerStep

-----------------------------------------------------------------------------
\* The inductive invariant holds in every reachable state.
THEOREM InductiveInvariant == Spec => []IInv
<1>1. Init => IInv
    BY InitEstablishes
<1>2. IInv /\ [Next]_vars => IInv'
    BY TypeStep, MutexStep, LedgerStep, HandStep, TotalStep, QueueStep DEF IInv
<1> QED
    BY <1>1, <1>2, PTL DEF Spec

\* The variables of VMessageQueue keep their types.
THEOREM TypeCorrect == Spec => []TypeOK
<1>1. IInv => TypeOK
    BY DEF IInv
<1> QED
    BY <1>1, InductiveInvariant, PTL

\* mMessageQueueMutex is owned by exactly the thread inside a critical section.
THEOREM MutexDiscipline == Spec => []MutexHeldInside
<1>1. IInv => MutexHeldInside
    BY DEF IInv
<1> QED
    BY <1>1, InductiveInvariant, PTL

\* The deque is what was posted and not yet popped, in the order of posting.
THEOREM FifoOrder == Spec => []QueueIsPostedSuffix
<1>1. IInv => QueueIsPostedSuffix
    BY DEF IInv
<1> QED
    BY <1>1, InductiveInvariant, PTL

\* The byte total is that of the queued messages up to the one being moved,
\* and an unlocked reader never sees it below zero.
LEMMA InvariantBoundsTotal == IInv => DataSizeAccounted
<1> SUFFICES ASSUME IInv PROVE DataSizeAccounted
    OBVIOUS
<1> DEFINE n == Len(posted)
<1>1. /\ posted \in Seq(Messages) /\ n \in Nat /\ popped \in 0..n
      /\ bytesPosted \in Seq(Nat) /\ Len(bytesPosted) = n + 1
      /\ mutexOwner \in Threads \cup {None}
      /\ \A t \in Threads : pc[t] \in LockedPCs <=> mutexOwner = t
    BY DEF IInv, TypeOK, MutexHeldInside
<1>2. /\ bytesPosted[n + 1] \in Nat /\ bytesPosted[popped + 1] \in Nat
      /\ bytesPosted[popped + 1] <= bytesPosted[n + 1]
    <2>1. n + 1 \in 1..(n + 1) /\ popped + 1 \in 1..(n + 1) /\ popped + 1 <= n + 1
        BY <1>1
    <2>2. bytesPosted[popped + 1] <= bytesPosted[n + 1]
        BY <1>1, <2>1 DEF IInv, Ledger
    <2> QED
        BY <2>1, <2>2, HistoryEntry DEF IInv
<1>3. mQueuedMessagesDataSize = bytesPosted[n + 1] - bytesPosted[popped + 1] + Uncounted
    BY DEF IInv, TotalMatches
<1>4. CASE mutexOwner = None \/ pc[mutexOwner] = "releasing"
    <2>1. Uncounted = 0
        BY <1>4 DEF Uncounted
    <2> QED
        BY <1>2, <1>3, <2>1 DEF DataSizeAccounted
<1>5. CASE mutexOwner # None /\ pc[mutexOwner] = "posting"
    <2>1. /\ popped < n /\ inHand[mutexOwner] = posted[n]
          /\ Uncounted = - DataLength[inHand[mutexOwner]]
        BY <1>1, <1>5 DEF IInv, HandMatches, Uncounted
    <2>2. n \in 1..n /\ popped + 1 \in 1..n
        BY <1>1, <2>1
    <2>3. bytesPosted[n + 1] = bytesPosted[n] + DataLength[posted[n]]
        BY <1>1, <2>2 DEF IInv, Ledger
    <2>4. bytesPosted[popped + 1] <= bytesPosted[n]
        BY <1>1, <2>2 DEF IInv, Ledger
    <2>5. bytesPosted[n] \in Nat /\ DataLength[posted[n]] \in Nat
        BY <1>1, <2>2, ConstantsAssumption
    <2> QED
        BY <1>2, <1>3, <2>1, <2>3, <2>4, <2>5 DEF DataSizeAccounted
<1>6. CASE mutexOwner # None /\ pc[mutexOwner] \in {"getCount", "releaseCount"}
    <2>1. DataLength[inHand[mutexOwner]] \in Nat
        BY <1>1, <1>6, HandIsMessage DEF IInv
    <2>2. Uncounted = DataLength[inHand[mutexOwner]]
        BY <1>6 DEF Uncounted
    <2> QED
        BY <1>2, <1>3, <2>1, <2>2 DEF DataSizeAccounted
<1> QED
    BY <1>1, <1>4, <1>5, <1>6 DEF LockedPCs

\* mQueuedMessagesDataSize never drifts from the queue's contents.
THEOREM BytesAccounted == Spec => []DataSizeAccounted
    BY InvariantBoundsTotal, InductiveInvariant, PTL

-----------------------------------------------------------------------------
\* A push is the channel's Post, a pop its Take or Discard, and every other
\* step of the threads leaves the channel alone.
LEMMA StepImplementsChannel == IInv /\ [Next]_vars => [Channel!Next]_(Channel!cvars)
<1> SUFFICES ASSUME IInv, [Next]_vars PROVE [Channel!Next]_(Channel!cvars)
    OBVIOUS
<1>0. posted \in Seq(Messages)
    BY DEF IInv, TypeOK
<1>1. ASSUME NEW p \in Callers, NEW m \in Messages, PostPush(p, m) PROVE Channel!Post(m)
    <2>1. posted' = Append(posted, m)
        BY <1>1 DEF PostPush
    <2>2. {posted'[i] : i \in 1..Len(posted')} = {posted[i] : i \in 1..Len(posted)} \cup {m}
        BY <1>0, <2>1
    <2> QED
        BY <1>1, <2>2 DEF PostPush, PushBack, Channel!Post
<1>2. ASSUME NEW p \in Callers, ReleasePop(p) PROVE Channel!Discard
    BY <1>2 DEF ReleasePop, PopFront, Channel!Discard
<1>3. ASSUME NEW c \in Consumers, GetPop(c) PROVE Channel!Take
    BY <1>3 DEF GetPop, PopFront, Channel!Take
<1>4. CASE UNCHANGED <<mQueuedMessages, posted, taken>>
    BY <1>4 DEF Channel!cvars
<1> QED
    BY <1>1, <1>2, <1>3, <1>4
       DEF Next, CallerStep, ConsumerStep, Channel!Next, vars, history, queueVars, PostCount,
           WakeUp, Stop, Signal, ReleaseBegin, ReleaseCount, ReleaseEnd, RunLoop,
           GetCount, GetNothing, EnterWait, WaitTimedOut, Process

\* VMessageQueue, with its locks, signals and consumers, is a FIFO channel.
THEOREM QueueImplementsChannel == Spec => ImplementsChannel
<1>1. Init => Channel!Init
    <2> SUFFICES ASSUME Init PROVE Channel!Init
        OBVIOUS
    <2>1. Len(posted) = 0 /\ mQueuedMessages = <<>> /\ taken = <<>>
        BY DEF Init
    <2>2. {posted[i] : i \in 1..Len(posted)} = {}
        BY <2>1
    <2> QED
        BY <2>1, <2>2 DEF Channel!Init
<1> QED
    BY <1>1, StepImplementsChannel, InductiveInvariant, PTL
       DEF Spec, ImplementsChannel, Channel!Spec
=============================================================================
