----------------------- MODULE VClientSessionProofs -----------------------
(***************************************************************************)
(* The safety of VClientSession for every set of sessions and every bound: *)
(* the mutexes are held where the code says and taken in one order; what   *)
(* refers to a thread or a socket does not outlive it; every variable      *)
(* keeps its type; no broadcast a session has taken on is lost.            *)
(***************************************************************************)
EXTENDS VClientSession, SequenceTheorems, WellFoundedInduction, TLAPS

\* The variables the argument about mutexes is about have their types.
LockTypes ==
    /\ sessionOwner \in [Sessions -> {None} \cup Actors]
    /\ pc \in [Threads -> Labels]
    /\ sock \in [Sessions -> {"none", "open", "closed", "deleted"}]
    /\ lcur \in Sessions \cup {None}

\* Who holds each mutex, by control point.
LockHolders ==
    /\ threadsOwner \in {None, Listener, Admin}
    /\ threadsOwner = Listener <=> lpc \in {"startInput", "startOutput", "track", "add"}
    /\ threadsOwner = Admin <=> adminpc \in {"each", "close", "halt"}
    /\ sessionsOwner \in {None, App}
    /\ sessionsOwner = App <=> apppc \in {"broadcast", "sending"}
    /\ \A s \in Sessions :
          /\ sessionOwner[s] \in {None, In(s), App}
          /\ sessionOwner[s] = In(s) <=> pc[In(s)] = "replying"
          /\ sessionOwner[s] = App <=> apppc = "sending" /\ appSession = s

\* A connection not yet made into a session has no threads.
Births ==
    /\ \A s \in Sessions :
          sock[s] = "none" => pc[In(s)] = "unborn" /\ pc[Out(s)] = "unborn"
    /\ lpc \in {"accepted", "startInput", "startOutput", "track", "add"} =>
          lcur \in Sessions /\ sock[lcur] # "none"
    /\ lpc = "accepted" => pc[In(lcur)] = "unborn" /\ pc[Out(lcur)] = "unborn"

LockInv == LockTypes /\ LockHolders /\ Births

-----------------------------------------------------------------------------
\* The actors of one session and the three others are all different.
LEMMA ActorsDiffer ==
    /\ \A s, r \in Sessions : (In(s) = In(r) => s = r) /\ (Out(s) = Out(r) => s = r)
    /\ \A s, r \in Sessions : In(s) # Out(r)
    /\ \A s \in Sessions : In(s) \in Threads /\ Out(s) \in Threads
    /\ \A t \in Threads : t \notin {None, Listener, App, Admin}
    /\ Listener # App /\ App # Admin /\ Listener # Admin
    /\ None \notin {Listener, App, Admin}
    /\ Threads \cup {Listener, App, Admin} \subseteq Actors
<1> USE ConstantsAssumption DEF In, Out, Listener, App, Admin, Threads, Actors
<1> QED
    OBVIOUS

\* Every thread is the input or the output thread of a session.
LEMMA ThreadIsInOrOut ==
    ASSUME NEW t \in Threads
    PROVE  \E s \in Sessions : t = In(s) \/ t = Out(s)
BY DEF Threads, In, Out

\* The invariant gives the order: whoever waits holds only what comes before.
LEMMA HoldersAreOrdered == LockInv => LockOrder
<1> SUFFICES ASSUME LockInv, NEW a \in Actors, NEW h \in 1..3, NEW r \in 1..3,
                    Holds(a, h), Awaits(a, r)
             PROVE  h < r
    BY DEF LockOrder
<1> USE ActorsDiffer DEF LockInv, LockTypes, LockHolders, Holds, Awaits
<1>1. CASE a = Listener
    BY <1>1
<1>2. CASE a = App
    BY <1>2
<1>3. CASE a = Admin
    BY <1>3
<1>4. CASE a \in Threads
    <2>1. PICK s \in Sessions : a = In(s) \/ a = Out(s)
        BY <1>4, ThreadIsInOrOut
    <2>2. h = 3 /\ a = In(s) /\ pc[a] = "replying"
        BY <1>4, <2>1
    <2> QED
        BY <1>4, <2>2
<1> QED
    BY <1>1, <1>2, <1>3, <1>4 DEF Actors

\* Posting closes a socket at most.
LEMMA PostSockets ==
    ASSUME LockTypes, NEW s \in Sessions, NEW m, Post(s, m)
    PROVE  /\ sock' \in [Sessions -> {"none", "open", "closed", "deleted"}]
           /\ \A r \in Sessions :
                 sock'[r] = sock[r] \/ (sock[r] = "open" /\ sock'[r] = "closed")
BY DEF LockTypes, Post, PostRefused, PostStandby, PostToOutputThread, Close

\* Every step keeps the invariant.
LEMMA LockStep == LockInv /\ [Next]_vars => LockInv'
<1> SUFFICES ASSUME LockInv, [Next]_vars PROVE LockInv'
    OBVIOUS
<1> USE ActorsDiffer, ConstantsAssumption
        DEF LockInv, LockTypes, LockHolders, Births, Labels, Goto, Close, ReleaseSession,
            listenerVars, listVars, lockVars, threadVars, sessionVars, ioVars, messageVars,
            appVars, adminVars, ThreadFrame, AdminFrame
<1>1. ASSUME NEW s \in Sessions, Accept(s) PROVE LockInv'
    BY <1>1 DEF Accept
<1>2. ASSUME AcceptThrows \/ StopListening PROVE LockInv'
    BY <1>2 DEF AcceptThrows, StopListening
<1>3. ASSUME CreateSession PROVE LockInv'
    BY <1>3 DEF CreateSession
<1>4. ASSUME StartInput PROVE LockInv'
    BY <1>4 DEF StartInput, Start
<1>5. ASSUME StartOutput PROVE LockInv'
    BY <1>5 DEF StartOutput, Start
<1>6. ASSUME TrackThreads PROVE LockInv'
    BY <1>6 DEF TrackThreads
<1>7. ASSUME AddToServer PROVE LockInv'
    BY <1>7 DEF AddToServer
<1>8. ASSUME NEW s \in Sessions, InLoop(s) PROVE LockInv'
    BY <1>8 DEF InLoop
<1>9. ASSUME NEW s \in Sessions, InReceive(s) PROVE LockInv'
    BY <1>9 DEF InReceive
<1>10. ASSUME NEW s \in Sessions, InEof(s) PROVE LockInv'
    BY <1>10 DEF InEof
<1>11. ASSUME NEW s \in Sessions, InThrows(s) PROVE LockInv'
    BY <1>11 DEF InThrows
<1>12. ASSUME NEW s \in Sessions, HandleQuietly(s) PROVE LockInv'
    BY <1>12 DEF HandleQuietly
<1>13. ASSUME NEW s \in Sessions, HandlePosting(s) PROVE LockInv'
    <2>1. UNCHANGED <<threadsOwner, sessionsOwner, lpc, lcur, apppc, appSession, adminpc>>
        BY <1>13 DEF HandlePosting
    <2>2. CASE Post(s, Reply) /\ Goto(In(s), "loop") /\ UNCHANGED sessionOwner
        BY <1>13, <2>1, <2>2, PostSockets DEF HandlePosting
    <2>3. CASE /\ sessionOwner[s] = None /\ UNCHANGED sock
               /\ sessionOwner' = [sessionOwner EXCEPT ![s] = In(s)]
               /\ Goto(In(s), "replying")
        BY <1>13, <2>1, <2>3 DEF HandlePosting
    <2> QED
        BY <1>13, <2>2, <2>3 DEF HandlePosting
<1>14. ASSUME NEW s \in Sessions, GoOnline(s) PROVE LockInv'
    BY <1>14 DEF GoOnline
<1>15. ASSUME NEW s \in Sessions, Logout(s) PROVE LockInv'
    BY <1>15 DEF Logout
<1>16. ASSUME NEW s \in Sessions, ReplyEnds(s) PROVE LockInv'
    BY <1>16 DEF ReplyEnds
<1>17. ASSUME NEW s \in Sessions, Spin(s) PROVE LockInv'
    BY <1>17 DEF Spin
<1>18. ASSUME NEW s \in Sessions, OutLoop(s) PROVE LockInv'
    BY <1>18 DEF OutLoop
<1>19. ASSUME NEW s \in Sessions, OutWait(s) PROVE LockInv'
    <2>1. \E l \in {"send", "loop"} : Goto(Out(s), l)
        BY <1>19 DEF OutWait
    <2>2. UNCHANGED <<threadsOwner, sessionsOwner, sessionOwner, lpc, lcur, apppc, appSession,
                      adminpc, sock>>
        BY <1>19 DEF OutWait
    <2>3. pc[Out(s)] = "wait"
        BY <1>19 DEF OutWait
    <2> QED
        BY <2>1, <2>2, <2>3
<1>20. ASSUME NEW s \in Sessions, OutSend(s) PROVE LockInv'
    BY <1>20 DEF OutSend
<1>21. ASSUME NEW s \in Sessions, OutSent(s) PROVE LockInv'
    BY <1>21 DEF OutSent
<1>22. ASSUME NEW s \in Sessions, OutGivesUp(s) PROVE LockInv'
    BY <1>22 DEF OutGivesUp
<1>23. ASSUME NEW s \in Sessions, ClearFlag(s) PROVE LockInv'
    BY <1>23 DEF ClearFlag
<1>24. ASSUME NEW s \in Sessions, NEW t \in {In(s), Out(s)}, Shutdown(t, s) PROVE LockInv'
    BY <1>24 DEF Shutdown, ShutdownSection, LeaveSection
<1>25. ASSUME NEW s \in Sessions, NEW t \in {In(s), Out(s)}, Remove(t, s) PROVE LockInv'
    BY <1>25 DEF Remove
<1>26. ASSUME NEW s \in Sessions, NEW t \in {In(s), Out(s)}, DropSession(t, s) PROVE LockInv'
    BY <1>26 DEF DropSession
<1>27. ASSUME NEW t \in Threads, SocketThreadEnded(t) PROVE LockInv'
    BY <1>27 DEF SocketThreadEnded
<1>28. ASSUME BroadcastBegin PROVE LockInv'
    BY <1>28 DEF BroadcastBegin
<1>29. ASSUME NEW s \in Sessions, BroadcastPost(s) PROVE LockInv'
    <2>1. Post(s, appMessage)
        BY <1>29 DEF BroadcastPost
    <2>2. UNCHANGED <<threadsOwner, sessionsOwner, sessionOwner, lpc, lcur, apppc, appSession,
                      adminpc, pc>>
        BY <1>29 DEF BroadcastPost
    <2> QED
        BY <2>1, <2>2, PostSockets
<1>30. ASSUME NEW s \in Sessions, BroadcastSend(s) PROVE LockInv'
    BY <1>30 DEF BroadcastSend
<1>31. ASSUME BroadcastSent PROVE LockInv'
    <2>1. LockTypes' /\ Births'
        BY <1>31 DEF BroadcastSent
    <2>2. LockHolders'
        BY <1>31 DEF BroadcastSent
    <2> QED
        BY <2>1, <2>2
<1>32. ASSUME BroadcastThrows PROVE LockInv'
    <2>1. LockTypes' /\ Births'
        BY <1>32 DEF BroadcastThrows
    <2>2. LockHolders'
        BY <1>32 DEF BroadcastThrows
    <2> QED
        BY <2>1, <2>2
<1>33. ASSUME BroadcastEnd PROVE LockInv'
    BY <1>33 DEF BroadcastEnd
<1>34. ASSUME NEW s \in Sessions, TakeSession(s) PROVE LockInv'
    BY <1>34 DEF TakeSession
<1>35. ASSUME AppShutdown PROVE LockInv'
    BY <1>35 DEF AppShutdown, ShutdownSection, LeaveSection
<1>36. ASSUME AppRemove PROVE LockInv'
    BY <1>36 DEF AppRemove
<1>37. ASSUME StopListener PROVE LockInv'
    BY <1>37 DEF StopListener
<1>38. ASSUME StopAllBegin PROVE LockInv'
    BY <1>38 DEF StopAllBegin
<1>39. ASSUME NEW t \in Threads, CheckSocket(t) PROVE LockInv'
    BY <1>39 DEF CheckSocket
<1>40. ASSUME CloseSocket PROVE LockInv'
    BY <1>40 DEF CloseSocket
<1>41. ASSUME StopThread PROVE LockInv'
    BY <1>41 DEF StopThread
<1>42. ASSUME StopAllEnd PROVE LockInv'
    BY <1>42 DEF StopAllEnd
<1>43. ASSUME StopEnd PROVE LockInv'
    BY <1>43 DEF StopEnd
<1>44. ASSUME NEW s \in Sessions, PeerStalls(s) \/ PeerResumes(s) \/ PeerLeaves(s)
       PROVE LockInv'
    BY <1>44 DEF PeerStalls, PeerResumes, PeerLeaves, PeerMoves
<1>45. CASE UNCHANGED vars
    BY <1>45 DEF vars
<1> QED
    BY <1>1, <1>2, <1>3, <1>4, <1>5, <1>6, <1>7, <1>8, <1>9, <1>10, <1>11, <1>12,
       <1>13, <1>14, <1>15, <1>16, <1>17, <1>18, <1>19, <1>20, <1>21, <1>22, <1>23, <1>24,
       <1>25, <1>26, <1>27, <1>28, <1>29, <1>30, <1>31, <1>32, <1>33, <1>34, <1>35, <1>36,
       <1>37, <1>38, <1>39, <1>40, <1>41, <1>42, <1>43, <1>44, <1>45
       DEF Next, ListenerStep, ListenerContinues, InStep, InExternal, OutStep, AppStep,
           AppContinues, AdminContinues
-----------------------------------------------------------------------------
\* The invariant holds from the start and in every reachable state.
THEOREM MutexInvariant == Spec => []LockInv
<1>1. Init => LockInv
    BY ActorsDiffer, ConstantsAssumption
       DEF Init, LockInv, LockTypes, LockHolders, Births, Labels
<1> QED
    BY <1>1, LockStep, PTL DEF Spec

\* No actor ever waits for a mutex that precedes or equals one it holds: the
\* listener, the socket threads, broadcasts, shutdowns and the administrator
\* cannot form a circle of waiting.
THEOREM MutexesOrdered == Spec => []LockOrder
BY MutexInvariant, HoldersAreOrdered, PTL
-----------------------------------------------------------------------------
(* What refers to a thread *)

PointerTypes ==
    /\ pc \in [Threads -> Labels]
    /\ mInputThread \in [Sessions -> BOOLEAN] /\ mOutputThread \in [Sessions -> BOOLEAN]
    /\ mHasOutputThread \in [Sessions -> BOOLEAN] /\ isAsync \in [Sessions -> BOOLEAN]
    /\ mSocketThreads \subseteq Threads

\* A session points to a thread until that thread has shut the session down; the
\* flag tells the input thread that its output thread is still there.
ThreadLives ==
    \A s \in Sessions :
        /\ mInputThread[s] =>
              pc[In(s)] \in {"new", "loop", "read", "dispatch", "replying", "shutdown"}
        /\ mOutputThread[s] =>
              pc[Out(s)] \in {"new", "loop", "wait", "send", "sending", "shutdown"}
        /\ ~ Deleted(Out(s)) => mHasOutputThread[s]
        /\ mHasOutputThread[s] => ~ Deleted(In(s))
        /\ \A t \in {In(s), Out(s)} : t \in mSocketThreads => pc[t] \notin {"unborn", "gone"}

PointerInv == PointerTypes /\ ThreadLives

\* Every step keeps the invariant.
LEMMA PointerStep == LockInv /\ PointerInv /\ [Next]_vars => PointerInv'
<1> SUFFICES ASSUME LockInv, PointerInv, [Next]_vars PROVE PointerInv'
    OBVIOUS
<1> /\ lpc = "accepted" => /\ lcur \in Sessions
                          /\ pc[In(lcur)] = "unborn" /\ pc[Out(lcur)] = "unborn"
    /\ lpc \in {"startInput", "startOutput", "track"} => lcur \in Sessions
    BY DEF LockInv, Births
<1> USE ActorsDiffer
        DEF PointerInv, PointerTypes, ThreadLives, Deleted, Labels, Goto, listenerVars,
            listVars, lockVars, threadVars, sessionVars, ioVars, messageVars, appVars,
            adminVars, ThreadFrame, AdminFrame
<1> HIDE DEF LockInv
<1>1. ASSUME NEW s \in Sessions, Accept(s) PROVE PointerInv'
    BY <1>1 DEF Accept
<1>2. ASSUME AcceptThrows \/ StopListening PROVE PointerInv'
    BY <1>2 DEF AcceptThrows, StopListening
<1>3. ASSUME CreateSession PROVE PointerInv'
    <2>1. PointerTypes'
        BY <1>3 DEF CreateSession
    <2>2. ThreadLives'
        BY <1>3 DEF CreateSession
    <2> QED
        BY <2>1, <2>2
<1>4. ASSUME StartInput PROVE PointerInv'
    BY <1>4 DEF StartInput, Start
<1>5. ASSUME StartOutput PROVE PointerInv'
    BY <1>5 DEF StartOutput, Start
<1>6. ASSUME TrackThreads PROVE PointerInv'
    BY <1>6 DEF TrackThreads
<1>7. ASSUME AddToServer PROVE PointerInv'
    BY <1>7 DEF AddToServer
<1>8. ASSUME NEW s \in Sessions, InLoop(s) PROVE PointerInv'
    BY <1>8 DEF InLoop
<1>9. ASSUME NEW s \in Sessions, InReceive(s) PROVE PointerInv'
    BY <1>9 DEF InReceive
<1>10. ASSUME NEW s \in Sessions, InEof(s) PROVE PointerInv'
    BY <1>10 DEF InEof
<1>11. ASSUME NEW s \in Sessions, InThrows(s) PROVE PointerInv'
    BY <1>11 DEF InThrows
<1>12. ASSUME NEW s \in Sessions, HandleQuietly(s) PROVE PointerInv'
    BY <1>12 DEF HandleQuietly
<1>13. ASSUME NEW s \in Sessions, HandlePosting(s) PROVE PointerInv'
    <2>1. \E l \in {"loop", "replying"} : Goto(In(s), l)
        BY <1>13 DEF HandlePosting
    <2>2. pc[In(s)] = "dispatch" /\ UNCHANGED <<mInputThread, mOutputThread, mHasOutputThread,
                                      mSocketThreads, isAsync>>
        BY <1>13 DEF HandlePosting
    <2> QED
        BY <2>1, <2>2
<1>14. ASSUME NEW s \in Sessions, GoOnline(s) PROVE PointerInv'
    BY <1>14 DEF GoOnline
<1>15. ASSUME NEW s \in Sessions, Logout(s) PROVE PointerInv'
    BY <1>15 DEF Logout
<1>16. ASSUME NEW s \in Sessions, ReplyEnds(s) PROVE PointerInv'
    BY <1>16 DEF ReplyEnds
<1>17. ASSUME NEW s \in Sessions, Spin(s) PROVE PointerInv'
    BY <1>17 DEF Spin
<1>18. ASSUME NEW s \in Sessions, OutLoop(s) PROVE PointerInv'
    BY <1>18 DEF OutLoop
<1>19. ASSUME NEW s \in Sessions, OutWait(s) PROVE PointerInv'
    <2>1. \E l \in {"send", "loop"} : Goto(Out(s), l)
        BY <1>19 DEF OutWait
    <2>2. pc[Out(s)] = "wait" /\ UNCHANGED <<mInputThread, mOutputThread, mHasOutputThread,
                                      mSocketThreads, isAsync>>
        BY <1>19 DEF OutWait
    <2> QED
        BY <2>1, <2>2
<1>20. ASSUME NEW s \in Sessions, OutSend(s) PROVE PointerInv'
    BY <1>20 DEF OutSend
<1>21. ASSUME NEW s \in Sessions, OutSent(s) PROVE PointerInv'
    BY <1>21 DEF OutSent
<1>22. ASSUME NEW s \in Sessions, OutGivesUp(s) PROVE PointerInv'
    BY <1>22 DEF OutGivesUp
<1>23. ASSUME NEW s \in Sessions, ClearFlag(s) PROVE PointerInv'
    BY <1>23 DEF ClearFlag
<1>24. ASSUME NEW s \in Sessions, NEW t \in {In(s), Out(s)}, Shutdown(t, s) PROVE PointerInv'
    <2>1. pc[t] = "shutdown" /\ Goto(t, "remove")
        BY <1>24 DEF Shutdown
    <2>2. UNCHANGED <<mHasOutputThread, mSocketThreads, isAsync>>
        BY <1>24 DEF Shutdown
    <2>3. /\ mInputThread' = [mInputThread EXCEPT ![s] = @ /\ t # In(s)]
          /\ mOutputThread' = [mOutputThread EXCEPT ![s] = @ /\ t # Out(s)]
        BY <1>24 DEF Shutdown, ShutdownSection
    <2>4. PointerTypes'
        BY <2>1, <2>2, <2>3
    <2>5. ASSUME NEW r \in Sessions
          PROVE  /\ mInputThread'[r] => mInputThread[r] /\ t # In(r)
                 /\ mOutputThread'[r] => mOutputThread[r] /\ t # Out(r)
        BY <1>24, <2>3
    <2>6. ThreadLives'
        BY <2>1, <2>2, <2>5
    <2> QED
        BY <2>4, <2>6
<1>25. ASSUME NEW s \in Sessions, NEW t \in {In(s), Out(s)}, Remove(t, s) PROVE PointerInv'
    BY <1>25 DEF Remove
<1>26. ASSUME NEW s \in Sessions, NEW t \in {In(s), Out(s)}, DropSession(t, s) PROVE PointerInv'
    BY <1>26 DEF DropSession
<1>27. ASSUME NEW t \in Threads, SocketThreadEnded(t) PROVE PointerInv'
    BY <1>27 DEF SocketThreadEnded
<1>28. ASSUME BroadcastBegin PROVE PointerInv'
    BY <1>28 DEF BroadcastBegin
<1>29. ASSUME NEW s \in Sessions, BroadcastPost(s) PROVE PointerInv'
    BY <1>29 DEF BroadcastPost
<1>30. ASSUME NEW s \in Sessions, BroadcastSend(s) PROVE PointerInv'
    BY <1>30 DEF BroadcastSend
<1>31. ASSUME BroadcastSent PROVE PointerInv'
    BY <1>31 DEF BroadcastSent
<1>32. ASSUME BroadcastThrows PROVE PointerInv'
    BY <1>32 DEF BroadcastThrows
<1>33. ASSUME BroadcastEnd PROVE PointerInv'
    BY <1>33 DEF BroadcastEnd
<1>34. ASSUME NEW s \in Sessions, TakeSession(s) PROVE PointerInv'
    BY <1>34 DEF TakeSession
<1>35. ASSUME AppShutdown PROVE PointerInv'
    <2>1. UNCHANGED <<pc, mHasOutputThread, mSocketThreads, isAsync, holders, lpc, lcur>>
        BY <1>35 DEF AppShutdown
    <2>2. /\ mInputThread' = [mInputThread EXCEPT ![appSession] = @ /\ App # In(appSession)]
          /\ mOutputThread' = [mOutputThread EXCEPT ![appSession] = @ /\ App # Out(appSession)]
        BY <1>35 DEF AppShutdown, ShutdownSection
    <2>3. PointerTypes'
        BY <2>1, <2>2
    <2>4. ASSUME NEW r \in Sessions
          PROVE  /\ mInputThread'[r] => mInputThread[r]
                 /\ mOutputThread'[r] => mOutputThread[r]
        BY <2>2
    <2>5. ThreadLives'
        BY <2>1, <2>4
    <2> QED
        BY <2>3, <2>5
<1>36. ASSUME AppRemove PROVE PointerInv'
    BY <1>36 DEF AppRemove
<1>37. ASSUME StopListener PROVE PointerInv'
    BY <1>37 DEF StopListener
<1>38. ASSUME StopAllBegin PROVE PointerInv'
    BY <1>38 DEF StopAllBegin
<1>39. ASSUME NEW t \in Threads, CheckSocket(t) PROVE PointerInv'
    BY <1>39 DEF CheckSocket
<1>40. ASSUME CloseSocket PROVE PointerInv'
    BY <1>40 DEF CloseSocket
<1>41. ASSUME StopThread PROVE PointerInv'
    BY <1>41 DEF StopThread
<1>42. ASSUME StopAllEnd PROVE PointerInv'
    BY <1>42 DEF StopAllEnd
<1>43. ASSUME StopEnd PROVE PointerInv'
    BY <1>43 DEF StopEnd
<1>44. ASSUME NEW s \in Sessions, PeerStalls(s) \/ PeerResumes(s) \/ PeerLeaves(s)
       PROVE PointerInv'
    BY <1>44 DEF PeerStalls, PeerResumes, PeerLeaves, PeerMoves
<1>45. CASE UNCHANGED vars
    BY <1>45 DEF vars
<1> QED
    BY <1>1, <1>2, <1>3, <1>4, <1>5, <1>6, <1>7, <1>8, <1>9, <1>10, <1>11, <1>12,
       <1>13, <1>14, <1>15, <1>16, <1>17, <1>18, <1>19, <1>20, <1>21, <1>22, <1>23, <1>24,
       <1>25, <1>26, <1>27, <1>28, <1>29, <1>30, <1>31, <1>32, <1>33, <1>34, <1>35, <1>36,
       <1>37, <1>38, <1>39, <1>40, <1>41, <1>42, <1>43, <1>44, <1>45
       DEF Next, ListenerStep, ListenerContinues, InStep, InExternal, OutStep, AppStep,
           AppContinues, AdminContinues
\* Nothing ever refers to a thread whose destruction has begun: the session's
\* pointers, the listener's list, and the output thread's pointer to the input
\* thread, which waits for it.
THEOREM PointersStayLive == Spec => []PointersLive
<1>1. Init => PointerInv
    BY ActorsDiffer
       DEF Init, PointerInv, PointerTypes, ThreadLives, Deleted, Labels
<1>2. PointerInv => PointersLive
    BY DEF PointerInv, ThreadLives, PointersLive, Deleted
<1> QED
    BY <1>1, <1>2, PointerStep, MutexInvariant, PTL DEF Spec
-----------------------------------------------------------------------------
(* What keeps a session, and the socket it owns, alive *)

HolderTypes ==
    /\ pc \in [Threads -> Labels]
    /\ sock \in [Sessions -> {"none", "open", "closed", "deleted"}]
    /\ holders \in [Sessions -> SUBSET {"listener", "in", "out", "app"}]
    /\ mSessions \subseteq Sessions
    /\ lpc \in {"accept", "quiet", "accepted", "startInput", "startOutput", "track", "add"}
    /\ apppc \in {"idle", "broadcast", "sending", "shutdown", "remove"}

\* The listener holds the session it is setting up; only it starts threads.
ListenerHolds ==
    /\ lpc \in {"accept", "quiet"} <=> lcur = None
    /\ lpc = "accepted" => /\ sock[lcur] \in {"open", "closed"}
                          /\ holders[lcur] = {} /\ lcur \notin mSessions
    /\ lpc \in {"startInput", "startOutput", "track", "add"} => "listener" \in holders[lcur]
    /\ \A s \in Sessions :
          /\ sock[s] = "none" => holders[s] = {} /\ s \notin mSessions
          /\ pc[In(s)] = "new" => lcur = s /\ lpc = "startInput"
          /\ pc[Out(s)] = "new" => lcur = s /\ lpc \in {"startInput", "startOutput"}
          /\ pc[Out(s)] = "new" => isAsync[s]

\* A thread that has been started holds its session until it is deleted.
ThreadsHold ==
    \A s \in Sessions :
        /\ pc[In(s)] \notin {"unborn", "new", "free2", "gone"} => "in" \in holders[s]
        /\ pc[Out(s)] \notin {"unborn", "new", "free2", "gone"} => "out" \in holders[s]

\* The application holds the session it shuts down; those it broadcasts to are in
\* the server's list, whose mutex it has.
AppHolds ==
    /\ apppc \in {"shutdown", "remove"} =>
          appSession \in Sessions /\ "app" \in holders[appSession]
    /\ apppc = "sending" => appSession \in mSessions
    /\ apppc \in {"idle", "broadcast"} => appSession = None
    /\ apppc \in {"broadcast", "sending"} => appTodo \subseteq mSessions
    /\ apppc \in {"idle", "shutdown", "remove"} => appTodo = {}

DeletedUnheld ==
    \A s \in Sessions : sock[s] = "deleted" => holders[s] = {} /\ s \notin mSessions

HolderInv == HolderTypes /\ ListenerHolds /\ ThreadsHold /\ AppHolds /\ DeletedUnheld

\* Every step keeps the invariant.
LEMMA HolderStep == LockInv /\ HolderInv /\ [Next]_vars => HolderInv'
<1> SUFFICES ASSUME LockInv, HolderInv, [Next]_vars PROVE HolderInv'
    OBVIOUS
<1>a. /\ \A s \in Sessions :
            sock[s] = "none" => pc[In(s)] = "unborn" /\ pc[Out(s)] = "unborn"
      /\ lpc \in {"accepted", "startInput", "startOutput", "track", "add"} =>
            lcur \in Sessions /\ sock[lcur] # "none"
      /\ lpc = "accepted" => pc[In(lcur)] = "unborn" /\ pc[Out(lcur)] = "unborn"
      /\ \A s \in Sessions : In(s)[1] = "in" /\ Out(s)[1] = "out"
      /\ sessionsOwner = None => apppc \notin {"broadcast", "sending"}
    BY ActorsDiffer DEF LockInv, Births, LockHolders, In, Out
<1> USE ActorsDiffer, ConstantsAssumption, <1>a
        DEF HolderInv, HolderTypes, ListenerHolds, ThreadsHold, AppHolds, DeletedUnheld,
            Labels, Goto, Close, listenerVars, listVars, lockVars, threadVars, sessionVars,
            ioVars, messageVars, appVars, adminVars, ThreadFrame, AdminFrame
<1>1. ASSUME NEW s \in Sessions, Accept(s) PROVE HolderInv'
    BY <1>1 DEF Accept
<1>2. ASSUME AcceptThrows \/ StopListening PROVE HolderInv'
    BY <1>2 DEF AcceptThrows, StopListening
<1>3. ASSUME CreateSession PROVE HolderInv'
    <2>1. HolderTypes'
        BY <1>3 DEF CreateSession
    <2>2. ListenerHolds'
        BY <1>3 DEF CreateSession
    <2>3. ThreadsHold'
        BY <1>3 DEF CreateSession
    <2>4. AppHolds'
        BY <1>3 DEF CreateSession
    <2>5. DeletedUnheld'
        BY <1>3 DEF CreateSession
    <2> QED
        BY <2>1, <2>2, <2>3, <2>4, <2>5
<1>4. ASSUME StartInput PROVE HolderInv'
    <2>1. HolderTypes'
        BY <1>4 DEF StartInput, Start
    <2>2. ListenerHolds'
        BY <1>4 DEF StartInput, Start
    <2>3. ThreadsHold'
        BY <1>4 DEF StartInput, Start
    <2>4. AppHolds'
        BY <1>4 DEF StartInput, Start
    <2>5. DeletedUnheld'
        BY <1>4 DEF StartInput, Start
    <2> QED
        BY <2>1, <2>2, <2>3, <2>4, <2>5
<1>5. ASSUME StartOutput PROVE HolderInv'
    <2>1. HolderTypes'
        BY <1>5 DEF StartOutput, Start
    <2>2. ListenerHolds'
        BY <1>5 DEF StartOutput, Start
    <2>3. ThreadsHold'
        BY <1>5 DEF StartOutput, Start
    <2>4. AppHolds'
        BY <1>5 DEF StartOutput, Start
    <2>5. DeletedUnheld'
        BY <1>5 DEF StartOutput, Start
    <2> QED
        BY <2>1, <2>2, <2>3, <2>4, <2>5
<1>6. ASSUME TrackThreads PROVE HolderInv'
    BY <1>6 DEF TrackThreads
<1>7. ASSUME AddToServer PROVE HolderInv'
    BY <1>7 DEF AddToServer
<1>8. ASSUME NEW s \in Sessions, InLoop(s) PROVE HolderInv'
    BY <1>8 DEF InLoop
<1>9. ASSUME NEW s \in Sessions, InReceive(s) PROVE HolderInv'
    BY <1>9 DEF InReceive
<1>10. ASSUME NEW s \in Sessions, InEof(s) PROVE HolderInv'
    BY <1>10 DEF InEof
<1>11. ASSUME NEW s \in Sessions, InThrows(s) PROVE HolderInv'
    BY <1>11 DEF InThrows
<1>12. ASSUME NEW s \in Sessions, HandleQuietly(s) PROVE HolderInv'
    BY <1>12 DEF HandleQuietly
<1>13. ASSUME NEW s \in Sessions, HandlePosting(s) PROVE HolderInv'
    <2>1. UNCHANGED <<lpc, lcur, apppc, appSession, appTodo, holders, mSessions, isAsync>>
        BY <1>13 DEF HandlePosting
    <2>2. Post(s, Reply) \/ UNCHANGED sock
        BY <1>13 DEF HandlePosting
    <2>3. LockTypes
        BY DEF LockInv
    <2>4. /\ sock' \in [Sessions -> {"none", "open", "closed", "deleted"}]
          /\ \A r \in Sessions :
                sock'[r] = sock[r] \/ (sock[r] = "open" /\ sock'[r] = "closed")
        BY <2>2, <2>3, PostSockets
    <2>5. pc[In(s)] = "dispatch" /\ \E l \in {"loop", "replying"} : Goto(In(s), l)
        BY <1>13 DEF HandlePosting
    <2> QED
        BY <2>1, <2>4, <2>5
<1>14. ASSUME NEW s \in Sessions, GoOnline(s) PROVE HolderInv'
    BY <1>14 DEF GoOnline
<1>15. ASSUME NEW s \in Sessions, Logout(s) PROVE HolderInv'
    BY <1>15 DEF Logout
<1>16. ASSUME NEW s \in Sessions, ReplyEnds(s) PROVE HolderInv'
    BY <1>16 DEF ReplyEnds
<1>17. ASSUME NEW s \in Sessions, Spin(s) PROVE HolderInv'
    BY <1>17 DEF Spin
<1>18. ASSUME NEW s \in Sessions, OutLoop(s) PROVE HolderInv'
    BY <1>18 DEF OutLoop
<1>19. ASSUME NEW s \in Sessions, OutWait(s) PROVE HolderInv'
    BY <1>19 DEF OutWait
<1>20. ASSUME NEW s \in Sessions, OutSend(s) PROVE HolderInv'
    BY <1>20 DEF OutSend
<1>21. ASSUME NEW s \in Sessions, OutSent(s) PROVE HolderInv'
    BY <1>21 DEF OutSent
<1>22. ASSUME NEW s \in Sessions, OutGivesUp(s) PROVE HolderInv'
    BY <1>22 DEF OutGivesUp
<1>23. ASSUME NEW s \in Sessions, ClearFlag(s) PROVE HolderInv'
    BY <1>23 DEF ClearFlag
<1>24. ASSUME NEW s \in Sessions, NEW t \in {In(s), Out(s)}, Shutdown(t, s) PROVE HolderInv'
    BY <1>24 DEF Shutdown
<1>25. ASSUME NEW s \in Sessions, NEW t \in {In(s), Out(s)}, Remove(t, s) PROVE HolderInv'
    BY <1>25 DEF Remove
<1>26. ASSUME NEW s \in Sessions, NEW t \in {In(s), Out(s)}, DropSession(t, s) PROVE HolderInv'
    <2>1. /\ pc[t] = "free1" /\ Goto(t, "free2")
          /\ holders' = [holders EXCEPT ![s] = @ \ {t[1]}]
          /\ UNCHANGED <<lpc, lcur, apppc, appSession, appTodo, mSessions, isAsync>>
        BY <1>26 DEF DropSession
    <2>2. sock' = [sock EXCEPT ![s] = IF holders'[s] = {} /\ s \notin mSessions
                                      THEN "deleted" ELSE @]
        BY <1>26 DEF DropSession, ReleaseSession
    <2>3. (t = In(s) /\ t[1] = "in") \/ (t = Out(s) /\ t[1] = "out")
        BY <1>26
    <2>4. HolderTypes'
        BY <2>1, <2>2, <2>3
    <2>5. \A r \in Sessions : /\ "listener" \in holders[r] => "listener" \in holders'[r]
                              /\ "app" \in holders[r] => "app" \in holders'[r]
                              /\ holders'[r] \subseteq holders[r]
        BY <2>1, <2>3
    <2>6. ListenerHolds'
        BY <2>1, <2>2, <2>5
    <2>7. ThreadsHold'
        BY <2>1, <2>3
    <2>8. AppHolds'
        BY <2>1, <2>5
    <2>9. DeletedUnheld'
        BY <2>1, <2>2
    <2> QED
        BY <2>4, <2>6, <2>7, <2>8, <2>9
<1>27. ASSUME NEW t \in Threads, SocketThreadEnded(t) PROVE HolderInv'
    BY <1>27 DEF SocketThreadEnded
<1>28. ASSUME BroadcastBegin PROVE HolderInv'
    BY <1>28 DEF BroadcastBegin
<1>29. ASSUME NEW s \in Sessions, BroadcastPost(s) PROVE HolderInv'
    <2>1. Post(s, appMessage) /\ appTodo' \subseteq appTodo /\ apppc = "broadcast"
        BY <1>29 DEF BroadcastPost
    <2>2. UNCHANGED <<pc, lpc, lcur, apppc, appSession, holders, mSessions, isAsync>>
        BY <1>29 DEF BroadcastPost
    <2>3. LockTypes
        BY DEF LockInv
    <2> QED
        BY <2>1, <2>2, <2>3, PostSockets
<1>30. ASSUME NEW s \in Sessions, BroadcastSend(s) PROVE HolderInv'
    BY <1>30 DEF BroadcastSend
<1>31. ASSUME BroadcastSent PROVE HolderInv'
    BY <1>31 DEF BroadcastSent
<1>32. ASSUME BroadcastThrows PROVE HolderInv'
    BY <1>32 DEF BroadcastThrows
<1>33. ASSUME BroadcastEnd PROVE HolderInv'
    BY <1>33 DEF BroadcastEnd
<1>34. ASSUME NEW s \in Sessions, TakeSession(s) PROVE HolderInv'
    BY <1>34 DEF TakeSession
<1>35. ASSUME AppShutdown PROVE HolderInv'
    BY <1>35 DEF AppShutdown
<1>36. ASSUME AppRemove PROVE HolderInv'
    <2>1. /\ apppc = "remove" /\ apppc' = "idle" /\ appSession' = None
          /\ holders' = [holders EXCEPT ![appSession] = @ \ {"app"}]
          /\ mSessions' = mSessions \ {appSession}
          /\ UNCHANGED <<pc, lpc, lcur, appTodo, isAsync>>
        BY <1>36 DEF AppRemove
    <2>2. sock' = [sock EXCEPT ![appSession] =
                     IF holders'[appSession] = {} /\ appSession \notin mSessions'
                     THEN "deleted" ELSE @]
        BY <1>36 DEF AppRemove, ReleaseSession
    <2>3. HolderTypes'
        BY <2>1, <2>2
    <2>4. \A r \in Sessions : /\ holders'[r] \subseteq holders[r]
                              /\ \A h \in {"listener", "in", "out"} :
                                    h \in holders[r] => h \in holders'[r]
        BY <2>1
    <2>5. appSession \in Sessions /\ holders[appSession] # {}
        BY <2>1
    <2>6. ListenerHolds'
        BY <2>1, <2>2, <2>4, <2>5
    <2>7. ThreadsHold'
        BY <2>1, <2>4
    <2>8. AppHolds'
        BY <2>1
    <2>9. DeletedUnheld'
        BY <2>1, <2>2, <2>5
    <2> QED
        BY <2>3, <2>6, <2>7, <2>8, <2>9
<1>37. ASSUME StopListener PROVE HolderInv'
    BY <1>37 DEF StopListener
<1>38. ASSUME StopAllBegin PROVE HolderInv'
    BY <1>38 DEF StopAllBegin
<1>39. ASSUME NEW t \in Threads, CheckSocket(t) PROVE HolderInv'
    BY <1>39 DEF CheckSocket
<1>40. ASSUME CloseSocket PROVE HolderInv'
    <2>1. UNCHANGED <<pc, lpc, lcur, apppc, appSession, appTodo, holders, mSessions, isAsync>>
        BY <1>40 DEF CloseSocket
    <2>2. /\ sock' \in [Sessions -> {"none", "open", "closed", "deleted"}]
          /\ \A r \in Sessions :
                sock'[r] = sock[r] \/ (sock[r] = "open" /\ sock'[r] = "closed")
        <3>1. sock \in [Sessions -> {"none", "open", "closed", "deleted"}]
            OBVIOUS
        <3>2. sock' = [sock EXCEPT ![adminTarget[2]] = IF @ = "open" THEN "closed" ELSE @]
            BY <1>40 DEF CloseSocket
        <3> QED
            BY ONLY <3>1, <3>2
    <2>3. ListenerHolds'
        BY <2>1, <2>2
    <2>4. AppHolds'
        BY <2>1, <2>2
    <2>5. HolderTypes' /\ ThreadsHold'
        BY <2>1, <2>2
    <2>6. DeletedUnheld'
        BY <2>1, <2>2
    <2> QED
        BY <2>3, <2>4, <2>5, <2>6
<1>41. ASSUME StopThread PROVE HolderInv'
    BY <1>41 DEF StopThread
<1>42. ASSUME StopAllEnd PROVE HolderInv'
    BY <1>42 DEF StopAllEnd
<1>43. ASSUME StopEnd PROVE HolderInv'
    BY <1>43 DEF StopEnd
<1>44. ASSUME NEW s \in Sessions, PeerStalls(s) \/ PeerResumes(s) \/ PeerLeaves(s)
       PROVE HolderInv'
    BY <1>44 DEF PeerStalls, PeerResumes, PeerLeaves, PeerMoves
<1>45. CASE UNCHANGED vars
    BY <1>45 DEF vars
<1> QED
    BY <1>1, <1>2, <1>3, <1>4, <1>5, <1>6, <1>7, <1>8, <1>9, <1>10, <1>11, <1>12,
       <1>13, <1>14, <1>15, <1>16, <1>17, <1>18, <1>19, <1>20, <1>21, <1>22, <1>23, <1>24,
       <1>25, <1>26, <1>27, <1>28, <1>29, <1>30, <1>31, <1>32, <1>33, <1>34, <1>35, <1>36,
       <1>37, <1>38, <1>39, <1>40, <1>41, <1>42, <1>43, <1>44, <1>45
       DEF Next, ListenerStep, ListenerContinues, InStep, InExternal, OutStep, AppStep,
           AppContinues, AdminContinues
\* A session's socket is deleted only when nobody uses it any more: no thread of
\* the session runs, the listener is not setting it up, no broadcast or shutdown
\* is under way in it.
THEOREM SocketsOutliveUse == Spec => []SocketOutlivesUse
<1>1. Init => HolderInv
    BY ActorsDiffer, ConstantsAssumption
       DEF Init, HolderInv, HolderTypes, ListenerHolds, ThreadsHold, AppHolds, DeletedUnheld,
           Labels
<1>2. LockInv /\ HolderInv => SocketOutlivesUse
    <2> SUFFICES ASSUME LockInv, HolderInv, NEW s \in Sessions, sock[s] = "deleted"
                 PROVE  /\ Deleted(In(s)) /\ Deleted(Out(s))
                        /\ lcur # s /\ appSession # s /\ s \notin appTodo
        BY DEF SocketOutlivesUse
    <2>1. holders[s] = {} /\ s \notin mSessions
        BY DEF HolderInv, DeletedUnheld
    <2>2. In(s) \in Threads /\ Out(s) \in Threads /\ s # None
        BY ActorsDiffer, ConstantsAssumption
    <2>3. lcur # s
        BY <2>1, <2>2 DEF HolderInv, HolderTypes, ListenerHolds
    <2>4. Deleted(In(s)) /\ Deleted(Out(s))
        BY <2>1, <2>2, <2>3 DEF HolderInv, ListenerHolds, ThreadsHold, Deleted
    <2>5. appSession # s /\ s \notin appTodo
        BY <2>1, <2>2 DEF HolderInv, HolderTypes, AppHolds
    <2> QED
        BY <2>3, <2>4, <2>5
<1> QED
    BY <1>1, <1>2, HolderStep, MutexInvariant, PTL DEF Spec
-----------------------------------------------------------------------------
(* The broadcasts of a queue: what BroadcastsIn computes, by least
   counterexample *)

\* A set of numbers that is not empty has a least one.
LEMMA SomeIsLeast ==
    ASSUME NEW S, S \subseteq Nat, S # {}
    PROVE  \E least \in S : \A n \in S : least <= n
<1> DEFINE R == OpToRel(<, Nat)
<1>1. \E x \in S : \A y \in S : ~ (<<y, x>> \in R)
    <2> HIDE DEF R
    <2>1. IsWellFoundedOn(R, Nat)
        BY NatLessThanWellFounded DEF R
    <2> QED
        BY <2>1, WFMin
<1>2. PICK x \in S : \A y \in S : ~ (<<y, x>> \in R)
    BY <1>1
<1>3. ASSUME NEW y \in S PROVE x <= y
    <2>1. ~ (y < x)
        BY <1>2 DEF OpToRel
    <2> QED
        BY <2>1
<1> QED
    BY <1>3

Messages == {Reply} \cup Broadcasts

\* What a walk over a queue has found after each of its messages.
Found(queue, f) ==
    /\ f \in [0..Len(queue) -> Seq(Broadcasts)]
    /\ f[0] = <<>>
    /\ \A i \in 1..Len(queue) :
          f[i] = IF queue[i] = Reply THEN f[i - 1] ELSE Append(f[i - 1], queue[i])

\* The same as the equation that defines the walk in BroadcastsIn.
FoundBy(queue, f) ==
    f = [i \in 0..Len(queue) |->
            IF i = 0 THEN <<>>
            ELSE IF queue[i] = Reply THEN f[i - 1] ELSE Append(f[i - 1], queue[i])]

\* There is such a walk: a queue that had none would have a shortest start with
\* none, and the walk up to there could go on.
LEMMA WalkExists ==
    ASSUME NEW queue \in Seq(Messages)
    PROVE  \E f : Found(queue, f)
<1> DEFINE upTo(n, f) ==
              /\ f \in [0..n -> Seq(Broadcasts)]
              /\ f[0] = <<>>
              /\ \A i \in 1..n :
                    f[i] = IF queue[i] = Reply THEN f[i - 1] ELSE Append(f[i - 1], queue[i])
           Missing == {n \in 0..Len(queue) : ~ \E f : upTo(n, f)}
<1>1. Len(queue) \in Nat /\ \A i \in 1..Len(queue) : queue[i] \in Messages
    BY LenProperties, ElementOfSeq
<1>2. Missing \subseteq Nat
    BY <1>1
<1>3. upTo(0, [i \in 0..0 |-> <<>>])
    OBVIOUS
<1>4. ASSUME NEW n \in 1..Len(queue), NEW f, upTo(n - 1, f)
      PROVE  \E g : upTo(n, g)
    <2> DEFINE g == [i \in 0..n |->
                        IF i < n THEN f[i]
                        ELSE IF queue[n] = Reply THEN f[n - 1] ELSE Append(f[n - 1], queue[n])]
    <2>1. n - 1 \in 0..(n - 1) /\ n \in Nat /\ 0 < n /\ f[n - 1] \in Seq(Broadcasts)
        BY <1>1, <1>4
    <2>2. queue[n] # Reply => queue[n] \in Broadcasts
        BY <1>1 DEF Messages
    <2>3. queue[n] # Reply => Append(f[n - 1], queue[n]) \in Seq(Broadcasts)
        BY <2>1, <2>2, AppendProperties
    <2>4. \A i \in 0..n : i < n => i \in 0..(n - 1)
        BY <2>1
    <2>5. g \in [0..n -> Seq(Broadcasts)]
        BY <1>4, <2>1, <2>3, <2>4
    <2>6. \A i \in 0..(n - 1) : g[i] = f[i]
        BY <2>1
    <2>7. g[n] = IF queue[n] = Reply THEN f[n - 1] ELSE Append(f[n - 1], queue[n])
        BY <2>1
    <2> HIDE DEF g
    <2>8. g[0] = <<>>
        BY <1>4, <2>1, <2>6
    <2>9. ASSUME NEW i \in 1..n
          PROVE  g[i] = IF queue[i] = Reply THEN g[i - 1] ELSE Append(g[i - 1], queue[i])
        <3>1. CASE i = n
            BY <3>1, <2>1, <2>6, <2>7
        <3>2. CASE i # n
            <4>1. i \in 1..(n - 1) /\ i \in 0..(n - 1) /\ i - 1 \in 0..(n - 1)
                BY <3>2, <2>1
            <4>2. f[i] = IF queue[i] = Reply THEN f[i - 1] ELSE Append(f[i - 1], queue[i])
                BY <4>1, <1>4
            <4> QED
                BY <4>1, <4>2, <2>6
        <3> QED
            BY <3>1, <3>2
    <2> QED
        BY <2>5, <2>8, <2>9
<1>5. Missing = {}
    <2> SUFFICES ASSUME Missing # {} PROVE FALSE
        OBVIOUS
    <2>1. PICK n \in Missing : \A m \in Missing : n <= m
        BY <1>2, SomeIsLeast
    <2>2. n \in 0..Len(queue) /\ ~ \E f : upTo(n, f)
        OBVIOUS
    <2>3. n # 0
        BY <2>2, <1>3
    <2>4. n - 1 \in 0..Len(queue) /\ n \in 1..Len(queue) /\ ~ (n <= n - 1)
        BY <1>1, <2>2, <2>3
    <2>5. n - 1 \notin Missing
        BY <2>1, <2>4
    <2>6. \E f : upTo(n - 1, f)
        BY <2>4, <2>5
    <2> QED
        BY <1>4, <2>2, <2>4, <2>6
<1>6. Len(queue) \notin Missing
    BY <1>5
<1>7. \E f : upTo(Len(queue), f)
    BY <1>1, <1>6
<1> QED
    BY <1>7 DEF Found

\* Any walk over a queue ends with its broadcasts.
LEMMA WalkFinds ==
    ASSUME NEW queue \in Seq(Messages), NEW f, Found(queue, f)
    PROVE  BroadcastsIn(queue) = f[Len(queue)]
<1> DEFINE N == Len(queue)
           h == CHOOSE upTo : FoundBy(queue, upTo)
<1>1. N \in Nat
    BY LenProperties
<1> HIDE DEF N
<1>2. FoundBy(queue, f)
    <2>1. f \in [0..N -> Seq(Broadcasts)] /\ f[0] = <<>>
        BY DEF Found, N
    <2>2. ASSUME NEW i \in 0..N, i # 0
          PROVE  f[i] = IF queue[i] = Reply THEN f[i - 1] ELSE Append(f[i - 1], queue[i])
        <3>1. i \in 1..N
            BY <1>1, <2>2
        <3>2. \A j \in 1..N :
                 f[j] = IF queue[j] = Reply THEN f[j - 1] ELSE Append(f[j - 1], queue[j])
            BY DEF Found, N
        <3> QED
            BY <3>1, <3>2
    <2>3. ASSUME NEW i \in 0..N
          PROVE  f[i] = IF i = 0 THEN <<>>
                        ELSE IF queue[i] = Reply THEN f[i - 1] ELSE Append(f[i - 1], queue[i])
        BY <2>1, <2>2
    <2> QED
        BY <2>1, <2>3 DEF FoundBy, N
<1>3. FoundBy(queue, h)
    BY <1>2
<1>4. BroadcastsIn(queue) = h[N]
    BY DEF BroadcastsIn, FoundBy, N
<1> HIDE DEF h
<1>5. /\ h[0] = <<>>
      /\ \A i \in 1..N : h[i] = IF queue[i] = Reply THEN h[i - 1] ELSE Append(h[i - 1], queue[i])
    <2> DEFINE e(i) == IF i = 0 THEN <<>>
                       ELSE IF queue[i] = Reply THEN h[i - 1] ELSE Append(h[i - 1], queue[i])
    <2>1. h = [i \in 0..N |-> e(i)]
        BY <1>3 DEF FoundBy, N
    <2>2. \A i \in 0..N : h[i] = e(i)
        <3> HIDE DEF e
        <3> QED
            BY <2>1
    <2>3. 0 \in 0..N /\ \A i \in 1..N : i \in 0..N /\ i # 0
        BY <1>1
    <2>4. h[0] = <<>>
        BY <2>2, <2>3
    <2>5. ASSUME NEW i \in 1..N
          PROVE  h[i] = IF queue[i] = Reply THEN h[i - 1] ELSE Append(h[i - 1], queue[i])
        BY <2>2, <2>3
    <2> QED
        BY <2>4, <2>5
<1>6. /\ f[0] = <<>>
      /\ \A i \in 1..N : f[i] = IF queue[i] = Reply THEN f[i - 1] ELSE Append(f[i - 1], queue[i])
    BY DEF Found, N
<1> DEFINE Differ == {i \in 0..N : h[i] # f[i]}
<1>7. Differ = {}
    <2> SUFFICES ASSUME Differ # {} PROVE FALSE
        OBVIOUS
    <2>1. Differ \subseteq Nat
        BY <1>1
    <2>2. PICK n \in Differ : \A m \in Differ : n <= m
        BY <2>1, SomeIsLeast
    <2>3. n \in 1..N /\ n - 1 \in 0..N /\ ~ (n <= n - 1)
        BY <1>1, <1>5, <1>6
    <2>4. h[n - 1] = f[n - 1]
        BY <2>2, <2>3
    <2> QED
        BY <1>5, <1>6, <2>3, <2>4
<1>8. h[N] = f[N]
    BY <1>1, <1>7
<1> QED
    BY <1>4, <1>8 DEF N

\* The broadcasts of two queues, one after the other.
LEMMA BroadcastsOfConcat ==
    ASSUME NEW p \in Seq(Messages), NEW q \in Seq(Messages)
    PROVE  /\ BroadcastsIn(p) \in Seq(Broadcasts)
           /\ BroadcastsIn(p \o q) = BroadcastsIn(p) \o BroadcastsIn(q)
<1> DEFINE M == Len(p)
           N == Len(q)
<1>1. M \in Nat /\ N \in Nat
    BY LenProperties
<1>2. /\ p \o q \in Seq(Messages) /\ Len(p \o q) = M + N
      /\ \A i \in 1..M : (p \o q)[i] = p[i]
      /\ \A i \in 1..N : (p \o q)[M + i] = q[i]
    <2>1. /\ p \o q \in Seq(Messages) /\ Len(p \o q) = M + N
          /\ \A i \in 1..(M + N) : (p \o q)[i] = IF i <= M THEN p[i] ELSE q[i - M]
        BY ConcatProperties
    <2> HIDE DEF M, N
    <2>2. ASSUME NEW i \in 1..M PROVE (p \o q)[i] = p[i]
        <3>1. i \in 1..(M + N) /\ i <= M
            BY <1>1
        <3> QED
            BY <2>1, <3>1
    <2>3. ASSUME NEW i \in 1..N PROVE (p \o q)[M + i] = q[i]
        <3>1. M + i \in 1..(M + N) /\ ~ (M + i <= M) /\ (M + i) - M = i
            BY <1>1
        <3> QED
            BY <2>1, <3>1
    <2> QED
        BY <2>1, <2>2, <2>3
<1>3. PICK f : Found(q, f)
    BY WalkExists
<1>4. PICK g : Found(p \o q, g)
    BY <1>2, WalkExists
<1>5. BroadcastsIn(q) = f[N] /\ BroadcastsIn(p \o q) = g[M + N]
    BY <1>2, <1>3, <1>4, WalkFinds
<1>6. /\ f \in [0..N -> Seq(Broadcasts)] /\ f[0] = <<>>
      /\ \A i \in 1..N : f[i] = IF q[i] = Reply THEN f[i - 1] ELSE Append(f[i - 1], q[i])
    BY <1>3 DEF Found
<1>7. /\ g \in [0..(M + N) -> Seq(Broadcasts)] /\ g[0] = <<>>
      /\ \A i \in 1..(M + N) :
            g[i] = IF (p \o q)[i] = Reply THEN g[i - 1] ELSE Append(g[i - 1], (p \o q)[i])
    BY <1>2, <1>4 DEF Found
<1> DEFINE first == [i \in 0..M |-> g[i]]
<1>8. Found(p, first)
    <2> HIDE DEF M, N
    <2>1. \A i \in 0..M : i \in 0..(M + N)
        BY <1>1
    <2>2. first \in [0..M -> Seq(Broadcasts)]
        BY <1>7, <2>1
    <2>3. first[0] = <<>>
        BY <1>1, <1>7
    <2>4. ASSUME NEW i \in 1..M
          PROVE  first[i] = IF p[i] = Reply THEN first[i - 1] ELSE Append(first[i - 1], p[i])
        <3>1. i \in 0..M /\ i - 1 \in 0..M /\ i \in 1..(M + N) /\ (p \o q)[i] = p[i]
            BY <1>1, <1>2
        <3>2. first[i] = g[i] /\ first[i - 1] = g[i - 1]
            BY <3>1
        <3> HIDE DEF first
        <3> QED
            BY <1>7, <3>1, <3>2
    <2> QED
        BY <2>2, <2>3, <2>4 DEF Found, M
<1>9. BroadcastsIn(p) = g[M] /\ g[M] \in Seq(Broadcasts)
    <2>1. BroadcastsIn(p) = first[M]
        BY <1>8, WalkFinds
    <2>2. M \in 0..M /\ M \in 0..(M + N)
        BY <1>1
    <2> QED
        BY <2>1, <2>2, <1>7
<1> HIDE DEF M, N, first
<1>10. ASSUME NEW i \in 1..N
       PROVE  g[M + i] = IF q[i] = Reply THEN g[M + (i - 1)]
                         ELSE Append(g[M + (i - 1)], q[i])
    <2>1. M + i \in 1..(M + N) /\ (M + i) - 1 = M + (i - 1) /\ (p \o q)[M + i] = q[i]
        BY <1>1, <1>2
    <2> QED
        BY <1>7, <2>1
<1> DEFINE Differ == {i \in 0..N : g[M + i] # g[M] \o f[i]}
<1>11. Differ = {}
    <2> SUFFICES ASSUME Differ # {} PROVE FALSE
        OBVIOUS
    <2>1. Differ \subseteq Nat
        <3>1. \A n \in Differ : n \in 0..N
            OBVIOUS
        <3> HIDE DEF Differ
        <3> QED
            BY <1>1, <3>1
    <2>2. PICK n \in Differ : \A m \in Differ : n <= m
        BY <2>1, SomeIsLeast
    <2>3. n \in 0..N /\ g[M + n] # g[M] \o f[n]
        OBVIOUS
    <2> HIDE DEF Differ
    <2>4. n # 0
        <3> SUFFICES ASSUME n = 0 PROVE FALSE
            OBVIOUS
        <3>1. g[M] \o f[0] = g[M]
            BY <1>6, <1>9, ConcatEmptySeq
        <3>2. M + 0 = M
            BY <1>1
        <3> QED
            BY <2>3, <3>1, <3>2
    <2>5. n \in 1..N /\ n - 1 \in 0..N /\ ~ (n <= n - 1)
        BY <1>1, <2>3, <2>4
    <2>6. n - 1 \notin Differ
        BY <2>2, <2>5
    <2>7. g[M + (n - 1)] = g[M] \o f[n - 1]
        BY <2>5, <2>6 DEF Differ
    <2>8. CASE q[n] = Reply
        BY <1>6, <1>10, <2>3, <2>5, <2>7, <2>8
    <2>9. CASE q[n] # Reply
        <3>1. q[n] \in Broadcasts /\ f[n - 1] \in Seq(Broadcasts)
            <4>1. q[n] \in Messages
                BY <2>5, ElementOfSeq DEF N
            <4> QED
                BY <4>1, <2>5, <2>9, <1>6 DEF Messages
        <3>2. g[M + n] = Append(g[M] \o f[n - 1], q[n])
            BY <1>10, <2>5, <2>7, <2>9
        <3>3. f[n] = Append(f[n - 1], q[n])
            BY <1>6, <2>5, <2>9
        <3>4. Append(g[M] \o f[n - 1], q[n]) = g[M] \o Append(f[n - 1], q[n])
            <4> DEFINE a == g[M]
                       b == f[n - 1]
                       c == q[n]
            <4>1. a \in Seq(Broadcasts) /\ b \in Seq(Broadcasts) /\ c \in Broadcasts
                BY <1>9, <3>1
            <4> HIDE DEF a, b, c
            <4>2. a \o b \in Seq(Broadcasts) /\ <<c>> \in Seq(Broadcasts)
                BY <4>1, ConcatProperties
            <4>3. Append(a \o b, c) = (a \o b) \o <<c>>
                BY <4>1, <4>2, AppendIsConcat
            <4>4. Append(b, c) = b \o <<c>>
                BY <4>1, AppendIsConcat
            <4>5. (a \o b) \o <<c>> = a \o (b \o <<c>>)
                BY <4>1, <4>2, ConcatAssociative
            <4>6. Append(a \o b, c) = a \o Append(b, c)
                BY <4>3, <4>4, <4>5
            <4> QED
                BY <4>6 DEF a, b, c
        <3> QED
            BY <2>3, <3>2, <3>3, <3>4
    <2> QED
        BY <2>8, <2>9
<1>12. g[M + N] = g[M] \o f[N]
    <2>1. N \in 0..N
        BY <1>1
    <2>2. N \notin Differ
        BY <1>11
    <2> QED
        BY <2>1, <2>2
<1> QED
    BY <1>5, <1>9, <1>12

\* A queue of one message.
LEMMA BroadcastsOfOne ==
    /\ BroadcastsIn(<<>>) = <<>>
    /\ \A m \in Messages : BroadcastsIn(<<m>>) = IF m = Reply THEN <<>> ELSE <<m>>
<1>1. BroadcastsIn(<<>>) = <<>>
    <2> DEFINE f == [i \in 0..0 |-> <<>>]
    <2>1. <<>> \in Seq(Messages) /\ Len(<<>>) = 0 /\ <<>> \in Seq(Broadcasts)
        OBVIOUS
    <2>2. Found(<<>>, f)
        BY <2>1 DEF Found
    <2>3. f[0] = <<>>
        OBVIOUS
    <2> HIDE DEF f
    <2> QED
        BY <2>1, <2>2, <2>3, WalkFinds
<1>2. ASSUME NEW m \in Messages PROVE BroadcastsIn(<<m>>) = IF m = Reply THEN <<>> ELSE <<m>>
    <2> DEFINE f == [i \in 0..1 |-> IF i = 0 \/ m = Reply THEN <<>> ELSE <<m>>]
    <2>1. <<m>> \in Seq(Messages) /\ Len(<<m>>) = 1 /\ <<m>>[1] = m
        OBVIOUS
    <2>2. m # Reply => <<m>> \in Seq(Broadcasts) /\ Append(<<>>, m) = <<m>>
        BY DEF Messages
    <2>3. f \in [0..1 -> Seq(Broadcasts)]
        BY <2>2
    <2>4. f[0] = <<>> /\ f[1] = IF m = Reply THEN <<>> ELSE <<m>>
        OBVIOUS
    <2> HIDE DEF f
    <2>5. Found(<<m>>, f)
        <3> DEFINE one == <<m>>
        <3>1. Len(one) = 1 /\ one[1] = m
            BY <2>1
        <3>2. f[1] = IF m = Reply THEN f[0] ELSE Append(f[0], m)
            BY <2>2, <2>4
        <3> HIDE DEF one
        <3>3. ASSUME NEW i \in 1..Len(one)
              PROVE  f[i] = IF one[i] = Reply THEN f[i - 1] ELSE Append(f[i - 1], one[i])
            <4>1. i = 1 /\ i - 1 = 0
                BY <3>1
            <4> QED
                BY <3>1, <3>2, <4>1
        <3>4. Found(one, f)
            BY <2>3, <2>4, <3>1, <3>3 DEF Found
        <3> QED
            BY <3>4 DEF one
    <2> QED
        BY <2>1, <2>4, <2>5, WalkFinds
<1> QED
    BY <1>1, <1>2

\* A queue of broadcasts only is its own.
LEMMA BroadcastsOfBroadcasts ==
    ASSUME NEW q \in Seq(Broadcasts)
    PROVE  BroadcastsIn(q) = q
<1> DEFINE N == Len(q)
           f == [i \in 0..N |-> SubSeq(q, 1, i)]
<1>1. N \in Nat /\ \A i \in 1..N : q[i] \in Broadcasts
    BY LenProperties, ElementOfSeq
<1>2. q \in Seq(Messages)
    BY SeqMonotonic DEF Messages
<1>3. \A i \in 1..N : q[i] # Reply
    BY <1>1 DEF Broadcasts, Reply
<1>4. ASSUME NEW i \in 0..N PROVE f[i] \in Seq(Broadcasts) /\ Len(f[i]) = i
                                  /\ \A j \in 1..i : f[i][j] = q[j]
    <2>1. f[i] = SubSeq(q, 1, i)
        OBVIOUS
    <2> HIDE DEF f
    <2>2. 1 \in Int /\ i \in Int /\ \A j \in 1..i : q[j] \in Broadcasts
        BY <1>1
    <2>3. /\ SubSeq(q, 1, i) \in Seq(Broadcasts)
          /\ Len(SubSeq(q, 1, i)) = IF 1 <= i THEN i - 1 + 1 ELSE 0
          /\ \A j \in 1..(i - 1 + 1) : SubSeq(q, 1, i)[j] = q[1 + j - 1]
        BY <2>2, SubSeqProperties
    <2> HIDE DEF N
    <2> QED
        BY <1>1, <2>1, <2>3
<1>5. f \in [0..N -> Seq(Broadcasts)]
    BY <1>4
<1> HIDE DEF f, N
<1>6. f[0] = <<>>
    <2>1. f[0] \in Seq(Broadcasts) /\ Len(f[0]) = 0
        BY <1>1, <1>4
    <2> QED
        BY <2>1
<1>7. ASSUME NEW i \in 1..N PROVE f[i] = Append(f[i - 1], q[i])
    <2>1. i \in 0..N /\ i - 1 \in 0..N /\ q[i] \in Broadcasts
        BY <1>1
    <2>2. /\ f[i] \in Seq(Broadcasts) /\ Len(f[i]) = i
          /\ \A j \in 1..i : f[i][j] = q[j]
        BY <2>1, <1>4
    <2>3. /\ f[i - 1] \in Seq(Broadcasts) /\ Len(f[i - 1]) = i - 1
          /\ \A j \in 1..(i - 1) : f[i - 1][j] = q[j]
        BY <2>1, <1>4
    <2> DEFINE a == Append(f[i - 1], q[i])
    <2>4. a \in Seq(Broadcasts) /\ Len(a) = Len(f[i - 1]) + 1 /\ a[Len(f[i - 1]) + 1] = q[i]
          /\ \A j \in 1..Len(f[i - 1]) : a[j] = f[i - 1][j]
        BY <2>1, <2>3, AppendProperties
    <2> HIDE DEF a
    <2>5. Len(f[i - 1]) + 1 = i /\ Len(a) = i
        BY <1>1, <2>3, <2>4
    <2>6. ASSUME NEW j \in 1..i PROVE f[i][j] = a[j]
        <3>1. f[i][j] = q[j]
            BY <2>2
        <3>2. CASE j = i
            BY <2>4, <2>5, <3>1, <3>2
        <3>3. CASE j # i
            <4>1. j \in 1..(i - 1)
                BY <1>1, <3>3
            <4> QED
                BY <2>3, <2>4, <3>1, <4>1
        <3> QED
            BY <3>2, <3>3
    <2>7. Len(f[i]) = Len(a) /\ \A j \in 1..Len(f[i]) : f[i][j] = a[j]
        BY <2>2, <2>5, <2>6
    <2>8. f[i] = a
        BY <2>2, <2>4, <2>7, SeqEqual
    <2> QED
        BY <2>8 DEF a
<1>8. Found(q, f)
    BY <1>3, <1>5, <1>6, <1>7 DEF Found, N
<1>9. f[N] = q
    <2>0. N \in 0..N
        BY <1>1
    <2>1. f[N] \in Seq(Broadcasts) /\ Len(f[N]) = N /\ \A j \in 1..N : f[N][j] = q[j]
        BY <2>0, <1>4
    <2> QED
        BY <2>1, SeqEqual DEF N
<1> QED
    BY <1>2, <1>8, <1>9, WalkFinds DEF N

-----------------------------------------------------------------------------
(* The types of all variables *)

FlagTypes ==
    /\ mShouldListen \in BOOLEAN /\ lRunning \in BOOLEAN
    /\ registered \subseteq Sessions
    /\ isRunning \in [Threads -> BOOLEAN] /\ hasSocket \in [Threads -> BOOLEAN]
    /\ mIsShuttingDown \in [Sessions -> BOOLEAN]
    /\ clientState \in [Sessions -> {"starting", "online", "goingOffline"}]
    /\ peer \in [Sessions -> {"none", "reading", "stalled", "gone"}]
    /\ standbyBegun \in [Sessions -> BOOLEAN]
    /\ wasOverLimit \in [Sessions -> BOOLEAN] /\ refused \in [Sessions -> BOOLEAN]
    /\ adminpc \in {"idle", "lock", "each", "close", "halt", "stop", "done"}
    /\ adminTodo \subseteq Threads /\ adminTarget \in {None} \cup Threads

\* Posting keeps the types of the flags it sets.
LEMMA PostFlags ==
    ASSUME FlagTypes, NEW s \in Sessions, NEW m, Post(s, m)
    PROVE  /\ isRunning' \in [Threads -> BOOLEAN]
           /\ standbyBegun' \in [Sessions -> BOOLEAN]
           /\ wasOverLimit' \in [Sessions -> BOOLEAN] /\ refused' \in [Sessions -> BOOLEAN]
BY ActorsDiffer
   DEF FlagTypes, Post, PostRefused, PostStandby, PostToOutputThread

\* Every step keeps the types of the flags.
LEMMA FlagStep == LockInv /\ PointerInv /\ FlagTypes /\ [Next]_vars => FlagTypes'
<1> SUFFICES ASSUME LockInv, PointerInv, FlagTypes, [Next]_vars PROVE FlagTypes'
    OBVIOUS
<1>a. /\ lpc \in {"accepted", "startInput", "startOutput", "track", "add"} => lcur \in Sessions
      /\ pc \in [Threads -> Labels] /\ mSocketThreads \subseteq Threads
      /\ mInputThread \in [Sessions -> BOOLEAN] /\ mOutputThread \in [Sessions -> BOOLEAN]
    BY DEF LockInv, LockTypes, Births, PointerInv, PointerTypes
<1> USE ActorsDiffer, <1>a
        DEF FlagTypes, Goto, listenerVars, listVars, lockVars, threadVars, sessionVars, ioVars,
            messageVars, appVars, adminVars, ThreadFrame, AdminFrame
<1>1. ASSUME NEW s \in Sessions, Accept(s) PROVE FlagTypes'
    BY <1>1 DEF Accept
<1>2. ASSUME AcceptThrows \/ StopListening PROVE FlagTypes'
    BY <1>2 DEF AcceptThrows, StopListening
<1>3. ASSUME CreateSession PROVE FlagTypes'
    BY <1>3 DEF CreateSession
<1>4. ASSUME StartInput PROVE FlagTypes'
    BY <1>4 DEF StartInput, Start
<1>5. ASSUME StartOutput PROVE FlagTypes'
    BY <1>5 DEF StartOutput, Start
<1>6. ASSUME TrackThreads PROVE FlagTypes'
    BY <1>6 DEF TrackThreads
<1>7. ASSUME AddToServer PROVE FlagTypes'
    BY <1>7 DEF AddToServer
<1>8. ASSUME NEW s \in Sessions, InLoop(s) PROVE FlagTypes'
    BY <1>8 DEF InLoop
<1>9. ASSUME NEW s \in Sessions, InReceive(s) PROVE FlagTypes'
    BY <1>9 DEF InReceive
<1>10. ASSUME NEW s \in Sessions, InEof(s) PROVE FlagTypes'
    BY <1>10 DEF InEof
<1>11. ASSUME NEW s \in Sessions, InThrows(s) PROVE FlagTypes'
    BY <1>11 DEF InThrows
<1>12. ASSUME NEW s \in Sessions, HandleQuietly(s) PROVE FlagTypes'
    BY <1>12 DEF HandleQuietly
<1>13. ASSUME NEW s \in Sessions, HandlePosting(s) PROVE FlagTypes'
    <2>1. Post(s, Reply) \/ UNCHANGED <<isRunning, standbyBegun, wasOverLimit, refused>>
        BY <1>13 DEF HandlePosting
    <2>2. UNCHANGED <<mShouldListen, lRunning, registered, hasSocket, mIsShuttingDown,
                      clientState, peer, adminpc, adminTodo, adminTarget>>
        BY <1>13 DEF HandlePosting
    <2> QED
        BY <2>1, <2>2, PostFlags
<1>14. ASSUME NEW s \in Sessions, GoOnline(s) PROVE FlagTypes'
    BY <1>14 DEF GoOnline, MoveStandby
<1>15. ASSUME NEW s \in Sessions, Logout(s) PROVE FlagTypes'
    BY <1>15 DEF Logout
<1>16. ASSUME NEW s \in Sessions, ReplyEnds(s) PROVE FlagTypes'
    BY <1>16 DEF ReplyEnds
<1>17. ASSUME NEW s \in Sessions, Spin(s) PROVE FlagTypes'
    BY <1>17 DEF Spin
<1>18. ASSUME NEW s \in Sessions, OutLoop(s) PROVE FlagTypes'
    BY <1>18 DEF OutLoop
<1>19. ASSUME NEW s \in Sessions, OutWait(s) PROVE FlagTypes'
    BY <1>19 DEF OutWait, PopNext
<1>20. ASSUME NEW s \in Sessions, OutSend(s) PROVE FlagTypes'
    BY <1>20 DEF OutSend
<1>21. ASSUME NEW s \in Sessions, OutSent(s) PROVE FlagTypes'
    BY <1>21 DEF OutSent
<1>22. ASSUME NEW s \in Sessions, OutGivesUp(s) PROVE FlagTypes'
    BY <1>22 DEF OutGivesUp
<1>23. ASSUME NEW s \in Sessions, ClearFlag(s) PROVE FlagTypes'
    BY <1>23 DEF ClearFlag
<1>24. ASSUME NEW s \in Sessions, NEW t \in {In(s), Out(s)}, Shutdown(t, s) PROVE FlagTypes'
    BY <1>24 DEF Shutdown, ShutdownSection
<1>25. ASSUME NEW s \in Sessions, NEW t \in {In(s), Out(s)}, Remove(t, s) PROVE FlagTypes'
    BY <1>25 DEF Remove
<1>26. ASSUME NEW s \in Sessions, NEW t \in {In(s), Out(s)}, DropSession(t, s) PROVE FlagTypes'
    BY <1>26 DEF DropSession, ReleaseSession
<1>27. ASSUME NEW t \in Threads, SocketThreadEnded(t) PROVE FlagTypes'
    BY <1>27 DEF SocketThreadEnded
<1>28. ASSUME BroadcastBegin PROVE FlagTypes'
    BY <1>28 DEF BroadcastBegin
<1>29. ASSUME NEW s \in Sessions, BroadcastPost(s) PROVE FlagTypes'
    <2>1. Post(s, appMessage)
        BY <1>29 DEF BroadcastPost
    <2>2. UNCHANGED <<mShouldListen, lRunning, registered, hasSocket, mIsShuttingDown,
                      clientState, peer, adminpc, adminTodo, adminTarget>>
        BY <1>29 DEF BroadcastPost
    <2> QED
        BY <2>1, <2>2, PostFlags
<1>30. ASSUME NEW s \in Sessions, BroadcastSend(s) PROVE FlagTypes'
    BY <1>30 DEF BroadcastSend
<1>31. ASSUME BroadcastSent PROVE FlagTypes'
    BY <1>31 DEF BroadcastSent
<1>32. ASSUME BroadcastThrows PROVE FlagTypes'
    BY <1>32 DEF BroadcastThrows
<1>33. ASSUME BroadcastEnd PROVE FlagTypes'
    BY <1>33 DEF BroadcastEnd
<1>34. ASSUME NEW s \in Sessions, TakeSession(s) PROVE FlagTypes'
    BY <1>34 DEF TakeSession
<1>35. ASSUME AppShutdown PROVE FlagTypes'
    BY <1>35 DEF AppShutdown, ShutdownSection
<1>36. ASSUME AppRemove PROVE FlagTypes'
    BY <1>36 DEF AppRemove, ReleaseSession
<1>37. ASSUME StopListener PROVE FlagTypes'
    BY <1>37 DEF StopListener
<1>38. ASSUME StopAllBegin PROVE FlagTypes'
    BY <1>38 DEF StopAllBegin
<1>39. ASSUME NEW t \in Threads, CheckSocket(t) PROVE FlagTypes'
    BY <1>39 DEF CheckSocket
<1>40. ASSUME CloseSocket PROVE FlagTypes'
    BY <1>40 DEF CloseSocket
<1>41. ASSUME StopThread PROVE FlagTypes'
    BY <1>41 DEF StopThread
<1>42. ASSUME StopAllEnd PROVE FlagTypes'
    BY <1>42 DEF StopAllEnd
<1>43. ASSUME StopEnd PROVE FlagTypes'
    BY <1>43 DEF StopEnd
<1>44. ASSUME NEW s \in Sessions, PeerStalls(s) \/ PeerResumes(s) \/ PeerLeaves(s) PROVE FlagTypes'
    BY <1>44 DEF PeerStalls, PeerResumes, PeerLeaves, PeerMoves
<1>45. CASE UNCHANGED vars
    BY <1>45 DEF vars
<1> QED
    BY <1>1, <1>2, <1>3, <1>4, <1>5, <1>6, <1>7, <1>8, <1>9, <1>10, <1>11, <1>12,
       <1>13, <1>14, <1>15, <1>16, <1>17, <1>18, <1>19, <1>20, <1>21, <1>22, <1>23, <1>24,
       <1>25, <1>26, <1>27, <1>28, <1>29, <1>30, <1>31, <1>32, <1>33, <1>34, <1>35, <1>36,
       <1>37, <1>38, <1>39, <1>40, <1>41, <1>42, <1>43, <1>44, <1>45
       DEF Next, ListenerStep, ListenerContinues, InStep, InExternal, OutStep, AppStep,
           AppContinues, AdminContinues

MessageTypes ==
    /\ posted \in 0..MaxMessages
    /\ standby \in [Sessions -> Seq(Broadcasts)]
    /\ outQueue \in [Sessions -> Seq(Messages)]
    /\ inHand \in [Sessions -> {None} \cup Messages]
    /\ accepted \in [Sessions -> Seq(Broadcasts)] /\ sent \in [Sessions -> Seq(Broadcasts)]
    /\ appMessage \in {None} \cup Broadcasts

\* An output thread about to send has a message, and so has a broadcast under way.
MessageInHand ==
    /\ \A s \in Sessions : inHand[s] # None <=> pc[Out(s)] \in {"send", "sending"}
    /\ apppc \in {"broadcast", "sending"} => appMessage \in Broadcasts

MessageInv == MessageTypes /\ MessageInHand

\* A history takes on broadcasts.
LEMMA HistoryTyped ==
    ASSUME NEW history \in [Sessions -> Seq(Broadcasts)], NEW s \in Sessions,
           NEW m \in Messages
    PROVE  AppendTo(history, s, m) \in [Sessions -> Seq(Broadcasts)]
<1>1. m # Reply => Append(history[s], m) \in Seq(Broadcasts)
    <2>1. m # Reply => m \in Broadcasts
        BY DEF Messages
    <2> QED
        BY <2>1, AppendProperties
<1> DEFINE e == IF m = Reply THEN history[s] ELSE Append(history[s], m)
<1>2. e \in Seq(Broadcasts)
    BY <1>1
<1>3. AppendTo(history, s, m) = [history EXCEPT ![s] = e]
    BY DEF AppendTo
<1> HIDE DEF e
<1> QED
    BY <1>2, <1>3

\* Posting keeps the types of the queues.
LEMMA PostMessages ==
    ASSUME MessageTypes, NEW s \in Sessions, NEW m \in Messages, Post(s, m)
    PROVE  /\ standby' \in [Sessions -> Seq(Broadcasts)]
           /\ outQueue' \in [Sessions -> Seq(Messages)]
           /\ accepted' \in [Sessions -> Seq(Broadcasts)]
<1>1. AppendTo(accepted, s, m) \in [Sessions -> Seq(Broadcasts)]
    BY HistoryTyped DEF MessageTypes
<1>2. [outQueue EXCEPT ![s] = Append(@, m)] \in [Sessions -> Seq(Messages)]
    <2>1. Append(outQueue[s], m) \in Seq(Messages)
        BY AppendProperties DEF MessageTypes
    <2> QED
        BY <2>1 DEF MessageTypes
<1>3. m # Reply => [standby EXCEPT ![s] = Append(@, m)] \in [Sessions -> Seq(Broadcasts)]
    <2>1. m # Reply => Append(standby[s], m) \in Seq(Broadcasts)
        BY AppendProperties DEF MessageTypes, Messages
    <2> QED
        BY <2>1 DEF MessageTypes
<1> USE DEF MessageTypes
<1>4. CASE PostRefused(s)
    BY <1>4 DEF PostRefused
<1>5. CASE PostStandby(s, m)
    BY <1>1, <1>3, <1>5 DEF PostStandby
<1>6. CASE PostToOutputThread(s, m)
    BY <1>1, <1>2, <1>6 DEF PostToOutputThread, Enqueue
<1> QED
    BY <1>4, <1>5, <1>6 DEF Post

\* Every step keeps the types of the messages.
LEMMA MessageStep ==
    LockInv /\ PointerInv /\ HolderInv /\ MessageInv /\ [Next]_vars => MessageInv'
<1> SUFFICES ASSUME LockInv, PointerInv, HolderInv, MessageInv, [Next]_vars PROVE MessageInv'
    OBVIOUS
<1>a. /\ lpc \in {"accepted", "startInput", "startOutput", "track", "add"} => lcur \in Sessions
      /\ lpc = "accepted" => pc[In(lcur)] = "unborn" /\ pc[Out(lcur)] = "unborn"
      /\ pc \in [Threads -> Labels]
      /\ apppc \in {"sending", "shutdown", "remove"} => appSession \in Sessions
    BY DEF LockInv, LockTypes, Births, HolderInv, HolderTypes, AppHolds
<1>b. /\ Reply \in Messages /\ Broadcasts \subseteq Messages /\ None \notin Messages
      /\ MaxMessages \in Nat
    BY ConstantsAssumption DEF Messages
<1> USE ActorsDiffer, <1>a
        DEF MessageInv, MessageTypes, MessageInHand, Labels, Goto, listenerVars, listVars,
            lockVars, threadVars, sessionVars, ioVars, messageVars, appVars, adminVars,
            ThreadFrame, AdminFrame
<1>1. ASSUME NEW s \in Sessions, Accept(s) PROVE MessageInv'
    BY <1>1 DEF Accept
<1>2. ASSUME AcceptThrows \/ StopListening PROVE MessageInv'
    BY <1>2 DEF AcceptThrows, StopListening
<1>3. ASSUME CreateSession PROVE MessageInv'
    BY <1>3 DEF CreateSession
<1>4. ASSUME StartInput PROVE MessageInv'
    BY <1>4 DEF StartInput, Start
<1>5. ASSUME StartOutput PROVE MessageInv'
    BY <1>5 DEF StartOutput, Start
<1>6. ASSUME TrackThreads PROVE MessageInv'
    BY <1>6 DEF TrackThreads
<1>7. ASSUME AddToServer PROVE MessageInv'
    BY <1>7 DEF AddToServer
<1>8. ASSUME NEW s \in Sessions, InLoop(s) PROVE MessageInv'
    BY <1>8 DEF InLoop
<1>9. ASSUME NEW s \in Sessions, InReceive(s) PROVE MessageInv'
    BY <1>9 DEF InReceive
<1>10. ASSUME NEW s \in Sessions, InEof(s) PROVE MessageInv'
    BY <1>10 DEF InEof
<1>11. ASSUME NEW s \in Sessions, InThrows(s) PROVE MessageInv'
    BY <1>11 DEF InThrows
<1>12. ASSUME NEW s \in Sessions, HandleQuietly(s) PROVE MessageInv'
    BY <1>12 DEF HandleQuietly
<1>13. ASSUME NEW s \in Sessions, HandlePosting(s) PROVE MessageInv'
    <2>1. UNCHANGED <<inHand, sent, apppc, appMessage>>
        BY <1>13 DEF HandlePosting
    <2>2. pc[In(s)] = "dispatch" /\ \E l \in {"loop", "replying"} : Goto(In(s), l)
        BY <1>13 DEF HandlePosting
    <2>3. posted' \in 0..MaxMessages
        <3>1. posted' = posted \/ (posted < MaxMessages /\ posted' = posted + 1)
            BY <1>13 DEF HandlePosting
        <3> QED
            BY <1>b, <3>1
    <2>4. Post(s, Reply) \/ UNCHANGED <<standby, outQueue, accepted>>
        BY <1>13 DEF HandlePosting
    <2>5. MessageTypes'
        BY <1>b, <2>1, <2>3, <2>4, PostMessages
    <2>6. MessageInHand'
        BY <2>1, <2>2
    <2> QED
        BY <2>5, <2>6
<1>14. ASSUME NEW s \in Sessions, GoOnline(s) PROVE MessageInv'
    <2>1. outQueue[s] \o standby[s] \in Seq(Messages)
        <3>1. standby[s] \in Seq(Messages)
            BY <1>b, SeqMonotonic
        <3> QED
            BY <3>1, ConcatProperties
    <2>2. MessageTypes'
        BY <1>14, <2>1 DEF GoOnline, MoveStandby
    <2>3. MessageInHand'
        BY <1>14 DEF GoOnline, MoveStandby
    <2> QED
        BY <2>2, <2>3
<1>15. ASSUME NEW s \in Sessions, Logout(s) PROVE MessageInv'
    BY <1>15 DEF Logout
<1>16. ASSUME NEW s \in Sessions, ReplyEnds(s) PROVE MessageInv'
    BY <1>16 DEF ReplyEnds
<1>17. ASSUME NEW s \in Sessions, Spin(s) PROVE MessageInv'
    BY <1>17 DEF Spin
<1>18. ASSUME NEW s \in Sessions, OutLoop(s) PROVE MessageInv'
    BY <1>18 DEF OutLoop
<1>19. ASSUME NEW s \in Sessions, OutWait(s) PROVE MessageInv'
    <2>1. UNCHANGED <<posted, standby, accepted, sent, apppc, appMessage>>
        BY <1>19 DEF OutWait
    <2>2. CASE outQueue[s] # <<>> /\ PopNext(s) /\ Goto(Out(s), "send")
        <3>1. Head(outQueue[s]) \in Messages /\ Tail(outQueue[s]) \in Seq(Messages)
            BY <2>2, HeadTailProperties
        <3>2. MessageTypes'
            BY <2>1, <2>2, <3>1 DEF PopNext
        <3>3. MessageInHand'
            BY <1>b, <2>1, <2>2, <3>1 DEF PopNext
        <3> QED
            BY <3>2, <3>3
    <2>3. CASE Goto(Out(s), "loop") /\ UNCHANGED <<inHand, outQueue>>
        <3>1. pc[Out(s)] = "wait"
            BY <1>19 DEF OutWait
        <3> QED
            BY <2>1, <2>3, <3>1
    <2> QED
        BY <1>19, <2>2, <2>3 DEF OutWait
<1>20. ASSUME NEW s \in Sessions, OutSend(s) PROVE MessageInv'
    BY <1>20 DEF OutSend
<1>21. ASSUME NEW s \in Sessions, OutSent(s) PROVE MessageInv'
    <2>1. pc[Out(s)] = "sending" /\ inHand[s] \in Messages
        BY <1>21 DEF OutSent
    <2>2. AppendTo(sent, s, inHand[s]) \in [Sessions -> Seq(Broadcasts)]
        BY <2>1, HistoryTyped
    <2>3. MessageTypes'
        BY <1>21, <2>2 DEF OutSent
    <2>4. MessageInHand'
        BY <1>21 DEF OutSent
    <2> QED
        BY <2>3, <2>4
<1>22. ASSUME NEW s \in Sessions, OutGivesUp(s) PROVE MessageInv'
    BY <1>22 DEF OutGivesUp
<1>23. ASSUME NEW s \in Sessions, ClearFlag(s) PROVE MessageInv'
    BY <1>23 DEF ClearFlag
<1>24. ASSUME NEW s \in Sessions, NEW t \in {In(s), Out(s)}, Shutdown(t, s) PROVE MessageInv'
    BY <1>24 DEF Shutdown, ShutdownSection
<1>25. ASSUME NEW s \in Sessions, NEW t \in {In(s), Out(s)}, Remove(t, s) PROVE MessageInv'
    BY <1>25 DEF Remove
<1>26. ASSUME NEW s \in Sessions, NEW t \in {In(s), Out(s)}, DropSession(t, s) PROVE MessageInv'
    <2>1. UNCHANGED <<posted, inHand, accepted, sent, apppc, appMessage>>
        BY <1>26 DEF DropSession
    <2>2. pc[t] = "free1" /\ Goto(t, "free2")
        BY <1>26 DEF DropSession
    <2>3. standby' \in [Sessions -> Seq(Broadcasts)]
        BY <1>26 DEF DropSession, ReleaseSession
    <2>4. outQueue' \in [Sessions -> Seq(Messages)]
        BY <1>26 DEF DropSession
    <2>5. MessageInHand'
        BY <2>1, <2>2
    <2> QED
        BY <2>1, <2>3, <2>4, <2>5
<1>27. ASSUME NEW t \in Threads, SocketThreadEnded(t) PROVE MessageInv'
    BY <1>27 DEF SocketThreadEnded
<1>28. ASSUME BroadcastBegin PROVE MessageInv'
    <2>1. posted' \in 1..MaxMessages /\ posted' \in Broadcasts
        BY <1>b, <1>28 DEF BroadcastBegin, Broadcasts
    <2> QED
        BY <1>28, <2>1 DEF BroadcastBegin
<1>29. ASSUME NEW s \in Sessions, BroadcastPost(s) PROVE MessageInv'
    <2>1. Post(s, appMessage) /\ appMessage \in Messages
        BY <1>b, <1>29 DEF BroadcastPost
    <2>2. UNCHANGED <<pc, posted, inHand, sent, apppc, appMessage>>
        BY <1>29 DEF BroadcastPost
    <2> QED
        BY <2>1, <2>2, PostMessages
<1>30. ASSUME NEW s \in Sessions, BroadcastSend(s) PROVE MessageInv'
    BY <1>30 DEF BroadcastSend
<1>31. ASSUME BroadcastSent PROVE MessageInv'
    <2>1. apppc = "sending" /\ appSession \in Sessions /\ appMessage \in Messages
        BY <1>b, <1>31 DEF BroadcastSent
    <2>2. /\ AppendTo(sent, appSession, appMessage) \in [Sessions -> Seq(Broadcasts)]
          /\ AppendTo(accepted, appSession, appMessage) \in [Sessions -> Seq(Broadcasts)]
        BY <2>1, HistoryTyped
    <2> QED
        BY <1>31, <2>2 DEF BroadcastSent
<1>32. ASSUME BroadcastThrows PROVE MessageInv'
    BY <1>32 DEF BroadcastThrows
<1>33. ASSUME BroadcastEnd PROVE MessageInv'
    BY <1>33 DEF BroadcastEnd
<1>34. ASSUME NEW s \in Sessions, TakeSession(s) PROVE MessageInv'
    BY <1>34 DEF TakeSession
<1>35. ASSUME AppShutdown PROVE MessageInv'
    BY <1>35 DEF AppShutdown, ShutdownSection
<1>36. ASSUME AppRemove PROVE MessageInv'
    BY <1>36 DEF AppRemove, ReleaseSession
<1>37. ASSUME StopListener PROVE MessageInv'
    BY <1>37 DEF StopListener
<1>38. ASSUME StopAllBegin PROVE MessageInv'
    BY <1>38 DEF StopAllBegin
<1>39. ASSUME NEW t \in Threads, CheckSocket(t) PROVE MessageInv'
    BY <1>39 DEF CheckSocket
<1>40. ASSUME CloseSocket PROVE MessageInv'
    BY <1>40 DEF CloseSocket
<1>41. ASSUME StopThread PROVE MessageInv'
    BY <1>41 DEF StopThread
<1>42. ASSUME StopAllEnd PROVE MessageInv'
    BY <1>42 DEF StopAllEnd
<1>43. ASSUME StopEnd PROVE MessageInv'
    BY <1>43 DEF StopEnd
<1>44. ASSUME NEW s \in Sessions, PeerStalls(s) \/ PeerResumes(s) \/ PeerLeaves(s) PROVE MessageInv'
    BY <1>44 DEF PeerStalls, PeerResumes, PeerLeaves, PeerMoves
<1>45. CASE UNCHANGED vars
    BY <1>45 DEF vars
<1> QED
    BY <1>1, <1>2, <1>3, <1>4, <1>5, <1>6, <1>7, <1>8, <1>9, <1>10, <1>11, <1>12,
       <1>13, <1>14, <1>15, <1>16, <1>17, <1>18, <1>19, <1>20, <1>21, <1>22, <1>23, <1>24,
       <1>25, <1>26, <1>27, <1>28, <1>29, <1>30, <1>31, <1>32, <1>33, <1>34, <1>35, <1>36,
       <1>37, <1>38, <1>39, <1>40, <1>41, <1>42, <1>43, <1>44, <1>45
       DEF Next, ListenerStep, ListenerContinues, InStep, InExternal, OutStep, AppStep,
           AppContinues, AdminContinues

-----------------------------------------------------------------------------
(* What the queues hold, by the state of the session *)

\* Only a session not yet online has messages on standby, only one with an output
\* thread has any queued, and the caller sends only for one that never had one.
QueueUses ==
    /\ \A s \in Sessions :
          /\ clientState[s] = "online" => standby[s] = <<>>
          /\ pc[Out(s)] = "unborn" => outQueue[s] = <<>>
          /\ ~ mOutputThread[s] /\ ~ mIsShuttingDown[s] => pc[Out(s)] = "unborn"
    /\ apppc = "sending" =>
          /\ clientState[appSession] = "online"
          /\ ~ mOutputThread[appSession] /\ ~ mIsShuttingDown[appSession]

QueueTypes == FlagTypes /\ MessageInv

\* What posting does to the queues.
LEMMA PostQueues ==
    ASSUME QueueTypes, NEW s \in Sessions, NEW m \in Messages, Post(s, m)
    PROVE  /\ \A r \in Sessions : r # s => standby'[r] = standby[r] /\ outQueue'[r] = outQueue[r]
           /\ standby'[s] # standby[s] => clientState[s] = "starting"
           /\ outQueue'[s] # outQueue[s] => mOutputThread[s]
<1> USE DEF QueueTypes, MessageInv, MessageTypes
<1>1. CASE PostRefused(s)
    BY <1>1 DEF PostRefused
<1>2. CASE PostStandby(s, m)
    BY <1>2 DEF PostStandby
<1>3. CASE PostToOutputThread(s, m)
    BY <1>3 DEF PostToOutputThread, Enqueue
<1> QED
    BY <1>1, <1>2, <1>3 DEF Post

\* Every step keeps these uses.
LEMMA QueueStep ==
    /\ LockInv /\ PointerInv /\ HolderInv /\ QueueTypes /\ QueueUses /\ [Next]_vars
    => QueueUses'
<1> SUFFICES ASSUME LockInv, PointerInv, HolderInv, QueueTypes, QueueUses, [Next]_vars
             PROVE  QueueUses'
    OBVIOUS
<1>a. /\ lpc \in {"accepted", "startInput", "startOutput", "track", "add"} => lcur \in Sessions
      /\ lpc = "accepted" => lcur \notin mSessions
      /\ lpc = "accepted" => pc[In(lcur)] = "unborn" /\ pc[Out(lcur)] = "unborn"
      /\ pc \in [Threads -> Labels]
      /\ \A s \in Sessions : sessionOwner[s] = App <=> apppc = "sending" /\ appSession = s
      /\ apppc = "sending" => appSession \in mSessions
      /\ apppc \in {"sending", "shutdown", "remove"} => appSession \in Sessions
    BY DEF LockInv, LockTypes, LockHolders, Births, HolderInv, HolderTypes, ListenerHolds,
           AppHolds
<1>b. /\ mOutputThread \in [Sessions -> BOOLEAN] /\ isAsync \in [Sessions -> BOOLEAN]
      /\ mIsShuttingDown \in [Sessions -> BOOLEAN]
      /\ \A s \in Sessions : mOutputThread[s] => pc[Out(s)] # "unborn"
      /\ standby \in [Sessions -> Seq(Broadcasts)] /\ outQueue \in [Sessions -> Seq(Messages)]
      /\ clientState \in [Sessions -> {"starting", "online", "goingOffline"}]
      /\ mInputThread \in [Sessions -> BOOLEAN]
    BY DEF PointerInv, PointerTypes, ThreadLives, QueueTypes, FlagTypes, MessageInv,
           MessageTypes
<1>c. /\ Reply \in Messages /\ Broadcasts \subseteq Messages
      /\ apppc \in {"broadcast", "sending"} => appMessage \in Broadcasts
    BY DEF Messages, QueueTypes, MessageInv, MessageInHand
<1> USE ActorsDiffer, <1>a, <1>b
        DEF QueueUses, Labels, Goto, listenerVars, listVars, lockVars, threadVars, sessionVars,
            ioVars, messageVars, appVars, adminVars, ThreadFrame, AdminFrame
<1>1. ASSUME NEW s \in Sessions, Accept(s) PROVE QueueUses'
    BY <1>1 DEF Accept
<1>2. ASSUME AcceptThrows \/ StopListening PROVE QueueUses'
    BY <1>2 DEF AcceptThrows, StopListening
<1>3. ASSUME CreateSession PROVE QueueUses'
    BY <1>3 DEF CreateSession
<1>4. ASSUME StartInput PROVE QueueUses'
    BY <1>4 DEF StartInput, Start
<1>5. ASSUME StartOutput PROVE QueueUses'
    BY <1>5 DEF StartOutput, Start
<1>6. ASSUME TrackThreads PROVE QueueUses'
    BY <1>6 DEF TrackThreads
<1>7. ASSUME AddToServer PROVE QueueUses'
    BY <1>7 DEF AddToServer
<1>8. ASSUME NEW s \in Sessions, InLoop(s) PROVE QueueUses'
    BY <1>8 DEF InLoop
<1>9. ASSUME NEW s \in Sessions, InReceive(s) PROVE QueueUses'
    BY <1>9 DEF InReceive
<1>10. ASSUME NEW s \in Sessions, InEof(s) PROVE QueueUses'
    BY <1>10 DEF InEof
<1>11. ASSUME NEW s \in Sessions, InThrows(s) PROVE QueueUses'
    BY <1>11 DEF InThrows
<1>12. ASSUME NEW s \in Sessions, HandleQuietly(s) PROVE QueueUses'
    BY <1>12 DEF HandleQuietly
<1>13. ASSUME NEW s \in Sessions, HandlePosting(s) PROVE QueueUses'
    <2>1. UNCHANGED <<apppc, appSession, clientState, mOutputThread, mIsShuttingDown>>
        BY <1>13 DEF HandlePosting
    <2>2. pc[In(s)] = "dispatch" /\ \E l \in {"loop", "replying"} : Goto(In(s), l)
        BY <1>13 DEF HandlePosting
    <2>3. Post(s, Reply) \/ UNCHANGED <<standby, outQueue>>
        BY <1>13 DEF HandlePosting
    <2>4. /\ \A r \in Sessions : r # s => standby'[r] = standby[r] /\ outQueue'[r] = outQueue[r]
          /\ standby'[s] # standby[s] => clientState[s] = "starting"
          /\ outQueue'[s] # outQueue[s] => mOutputThread[s]
        BY <1>c, <2>3, PostQueues
    <2> QED
        BY <2>1, <2>2, <2>4
<1>14. ASSUME NEW s \in Sessions, GoOnline(s) PROVE QueueUses'
    <2>1. /\ UNCHANGED <<apppc, appSession, mOutputThread, mIsShuttingDown>>
          /\ clientState' = [clientState EXCEPT ![s] = "online"] /\ clientState[s] = "starting"
          /\ Goto(In(s), "loop")
          /\ standby' = [standby EXCEPT ![s] = <<>>]
        BY <1>14 DEF GoOnline, MoveStandby
    <2>2. outQueue'[s] = outQueue[s] \/ mOutputThread[s]
        <3>1. CASE standby[s] = <<>>
            <4>1. outQueue[s] \o <<>> = outQueue[s]
                BY ConcatEmptySeq
            <4> QED
                BY <1>14, <3>1, <4>1 DEF GoOnline, MoveStandby
        <3> QED
            BY <1>14, <3>1 DEF GoOnline
    <2>3. \A r \in Sessions : r # s => outQueue'[r] = outQueue[r]
        BY <1>14 DEF GoOnline, MoveStandby
    <2> QED
        BY <2>1, <2>2, <2>3
<1>15. ASSUME NEW s \in Sessions, Logout(s) PROVE QueueUses'
    BY <1>15 DEF Logout
<1>16. ASSUME NEW s \in Sessions, ReplyEnds(s) PROVE QueueUses'
    BY <1>16 DEF ReplyEnds
<1>17. ASSUME NEW s \in Sessions, Spin(s) PROVE QueueUses'
    BY <1>17 DEF Spin
<1>18. ASSUME NEW s \in Sessions, OutLoop(s) PROVE QueueUses'
    BY <1>18 DEF OutLoop
<1>19. ASSUME NEW s \in Sessions, OutWait(s) PROVE QueueUses'
    BY <1>19 DEF OutWait, PopNext
<1>20. ASSUME NEW s \in Sessions, OutSend(s) PROVE QueueUses'
    BY <1>20 DEF OutSend
<1>21. ASSUME NEW s \in Sessions, OutSent(s) PROVE QueueUses'
    BY <1>21 DEF OutSent
<1>22. ASSUME NEW s \in Sessions, OutGivesUp(s) PROVE QueueUses'
    BY <1>22 DEF OutGivesUp
<1>23. ASSUME NEW s \in Sessions, ClearFlag(s) PROVE QueueUses'
    BY <1>23 DEF ClearFlag
<1>24. ASSUME NEW s \in Sessions, NEW t \in {In(s), Out(s)}, Shutdown(t, s) PROVE QueueUses'
    BY <1>24 DEF Shutdown, ShutdownSection
<1>25. ASSUME NEW s \in Sessions, NEW t \in {In(s), Out(s)}, Remove(t, s) PROVE QueueUses'
    BY <1>25 DEF Remove
<1>26. ASSUME NEW s \in Sessions, NEW t \in {In(s), Out(s)}, DropSession(t, s) PROVE QueueUses'
    BY <1>26 DEF DropSession, ReleaseSession
<1>27. ASSUME NEW t \in Threads, SocketThreadEnded(t) PROVE QueueUses'
    BY <1>27 DEF SocketThreadEnded
<1>28. ASSUME BroadcastBegin PROVE QueueUses'
    BY <1>28 DEF BroadcastBegin
<1>29. ASSUME NEW s \in Sessions, BroadcastPost(s) PROVE QueueUses'
    <2>1. Post(s, appMessage) /\ appMessage \in Messages /\ apppc = "broadcast"
        BY <1>c, <1>29 DEF BroadcastPost
    <2>2. UNCHANGED <<pc, apppc, appSession, clientState, mOutputThread, mIsShuttingDown>>
        BY <1>29 DEF BroadcastPost
    <2>3. /\ \A r \in Sessions : r # s => standby'[r] = standby[r] /\ outQueue'[r] = outQueue[r]
          /\ standby'[s] # standby[s] => clientState[s] = "starting"
          /\ outQueue'[s] # outQueue[s] => mOutputThread[s]
        BY <2>1, PostQueues
    <2> QED
        BY <2>1, <2>2, <2>3
<1>30. ASSUME NEW s \in Sessions, BroadcastSend(s) PROVE QueueUses'
    <2>1. appMessage # Reply
        BY <1>c, <1>30 DEF BroadcastSend, Broadcasts, Reply
    <2> QED
        BY <1>30, <2>1 DEF BroadcastSend, MustSendItself, RefusesPosts
<1>31. ASSUME BroadcastSent PROVE QueueUses'
    BY <1>31 DEF BroadcastSent
<1>32. ASSUME BroadcastThrows PROVE QueueUses'
    BY <1>32 DEF BroadcastThrows
<1>33. ASSUME BroadcastEnd PROVE QueueUses'
    BY <1>33 DEF BroadcastEnd
<1>34. ASSUME NEW s \in Sessions, TakeSession(s) PROVE QueueUses'
    BY <1>34 DEF TakeSession
<1>35. ASSUME AppShutdown PROVE QueueUses'
    BY <1>35 DEF AppShutdown, ShutdownSection
<1>36. ASSUME AppRemove PROVE QueueUses'
    BY <1>36 DEF AppRemove, ReleaseSession
<1>37. ASSUME StopListener PROVE QueueUses'
    BY <1>37 DEF StopListener
<1>38. ASSUME StopAllBegin PROVE QueueUses'
    BY <1>38 DEF StopAllBegin
<1>39. ASSUME NEW t \in Threads, CheckSocket(t) PROVE QueueUses'
    BY <1>39 DEF CheckSocket
<1>40. ASSUME CloseSocket PROVE QueueUses'
    BY <1>40 DEF CloseSocket
<1>41. ASSUME StopThread PROVE QueueUses'
    BY <1>41 DEF StopThread
<1>42. ASSUME StopAllEnd PROVE QueueUses'
    BY <1>42 DEF StopAllEnd
<1>43. ASSUME StopEnd PROVE QueueUses'
    BY <1>43 DEF StopEnd
<1>44. ASSUME NEW s \in Sessions, PeerStalls(s) \/ PeerResumes(s) \/ PeerLeaves(s) PROVE QueueUses'
    BY <1>44 DEF PeerStalls, PeerResumes, PeerLeaves, PeerMoves
<1>45. CASE UNCHANGED vars
    BY <1>45 DEF vars
<1> QED
    BY <1>1, <1>2, <1>3, <1>4, <1>5, <1>6, <1>7, <1>8, <1>9, <1>10, <1>11, <1>12,
       <1>13, <1>14, <1>15, <1>16, <1>17, <1>18, <1>19, <1>20, <1>21, <1>22, <1>23, <1>24,
       <1>25, <1>26, <1>27, <1>28, <1>29, <1>30, <1>31, <1>32, <1>33, <1>34, <1>35, <1>36,
       <1>37, <1>38, <1>39, <1>40, <1>41, <1>42, <1>43, <1>44, <1>45
       DEF Next, ListenerStep, ListenerContinues, InStep, InExternal, OutStep, AppStep,
           AppContinues, AdminContinues

-----------------------------------------------------------------------------
(* Nothing is lost *)

\* A session with which nothing has gone wrong so far.
Working == {"unborn", "new", "loop", "wait", "send", "sending"}
Sound(s) == ~ RefusesPosts(s) /\ sock[s] # "deleted" /\ pc[Out(s)] \in Working
\* Four sequences in a row, and one with an element added; the provers use what
\* the lemmas below say of them, and not how they are defined.
Row(a, b, c, d) == a \o b \o c \o d
Added(q, m) == Append(q, m)
InOrder(s) == accepted[s] = Row(sent[s], Hand(s), BroadcastsIn(outQueue[s]), standby[s])

\* A socket closed but not deleted makes no difference to the queues.
Delivered == \A s \in Sessions : Sound(s) => InOrder(s)

\* A step that leaves the messages of a session alone.
SameMessages(s) ==
    /\ accepted'[s] = accepted[s] /\ sent'[s] = sent[s] /\ inHand'[s] = inHand[s]
    /\ outQueue'[s] = outQueue[s] /\ standby'[s] = standby[s]

\* It keeps their order.
LEMMA SameOrder ==
    ASSUME NEW s \in Sessions, SameMessages(s), InOrder(s)
    PROVE  InOrder(s)'
BY DEF SameMessages, InOrder, Hand

\* A step in one session.
LEMMA DeliveredIn ==
    ASSUME Delivered, NEW s \in Sessions,
           \A r \in Sessions : r # s => SameMessages(r) /\ (Sound(r)' => Sound(r)),
           Sound(s)' => InOrder(s)'
    PROVE  Delivered'
<1> SUFFICES ASSUME NEW r \in Sessions, Sound(r)' PROVE InOrder(r)'
    BY DEF Delivered
<1>1. CASE r = s
    BY <1>1
<1>2. CASE r # s
    BY <1>2, SameOrder DEF Delivered
<1> QED
    BY <1>1, <1>2

\* Sequences one after the other: the last grows, or the last but one where
\* there is no last.
LEMMA RowGrows ==
    ASSUME NEW a \in Seq(Broadcasts), NEW b \in Seq(Broadcasts),
           NEW c \in Seq(Broadcasts), NEW d \in Seq(Broadcasts),
           NEW m \in Broadcasts
    PROVE  /\ Added(Row(a, b, c, d), m) = Row(a, b, c, Added(d, m))
           /\ Added(Row(a, b, c, <<>>), m) = Row(a, b, Added(c, m), <<>>)
<1>1. /\ a \o b \in Seq(Broadcasts) /\ b \o c \in Seq(Broadcasts) /\ c \o d \in Seq(Broadcasts)
      /\ <<m>> \in Seq(Broadcasts) /\ <<>> \in Seq(Broadcasts)
    BY ConcatProperties
<1>2. a \o b \o c \in Seq(Broadcasts) /\ a \o b \o c \o d \in Seq(Broadcasts)
    BY <1>1, ConcatProperties
<1>3. /\ Append(d, m) = d \o <<m>> /\ Append(c, m) = c \o <<m>>
      /\ d \o <<m>> \in Seq(Broadcasts) /\ c \o <<m>> \in Seq(Broadcasts)
    BY <1>1, AppendIsConcat, ConcatProperties
<1>4. Append(a \o b \o c \o d, m) = a \o b \o c \o Append(d, m)
    <2>1. Append(a \o b \o c \o d, m) = (a \o b \o c \o d) \o <<m>>
        BY <1>2, AppendIsConcat
    <2>2. (a \o b \o c \o d) \o <<m>> = a \o b \o c \o (d \o <<m>>)
        BY <1>1, <1>2, ConcatAssociative
    <2> QED
        BY <1>3, <2>1, <2>2
<1>5. Append(a \o b \o c \o <<>>, m) = a \o b \o Append(c, m) \o <<>>
    <2>1. a \o b \o c \o <<>> = a \o b \o c
        BY <1>2, ConcatEmptySeq
    <2>2. Append(a \o b \o c, m) = (a \o b \o c) \o <<m>>
        BY <1>2, AppendIsConcat
    <2>3. (a \o b \o c) \o <<m>> = a \o b \o (c \o <<m>>)
        BY <1>1, ConcatAssociative
    <2>4. a \o b \o (c \o <<m>>) \in Seq(Broadcasts)
        BY <1>1, <1>3, ConcatProperties
    <2>5. a \o b \o (c \o <<m>>) \o <<>> = a \o b \o (c \o <<m>>)
        BY <2>4, ConcatEmptySeq
    <2> QED
        BY <1>3, <2>1, <2>2, <2>3, <2>5
<1> QED
    BY <1>4, <1>5 DEF Row, Added

\* The third takes over the last, the second is taken off the third or added to
\* the first.
LEMMA RowMoves ==
    ASSUME NEW a \in Seq(Broadcasts), NEW b \in Seq(Broadcasts),
           NEW c \in Seq(Broadcasts), NEW d \in Seq(Broadcasts)
    PROVE  /\ Row(a, b, c \o d, <<>>) = Row(a, b, c, d)
           /\ Row(a, <<>>, b \o c, d) = Row(a, b, c, d)
           /\ Row(a \o b, <<>>, c, d) = Row(a, b, c, d)
<1>1. /\ a \o b \in Seq(Broadcasts) /\ c \o d \in Seq(Broadcasts)
      /\ a \o b \o (c \o d) \in Seq(Broadcasts)
    BY ConcatProperties
<1>2. a \o b \o (c \o d) \o <<>> = a \o b \o c \o d
    <2>1. a \o b \o (c \o d) \o <<>> = a \o b \o (c \o d)
        BY <1>1, ConcatEmptySeq
    <2>2. ((a \o b) \o c) \o d = (a \o b) \o (c \o d)
        BY <1>1, ConcatAssociative
    <2> QED
        BY <2>1, <2>2
<1>3. a \o <<>> \o (b \o c) \o d = a \o b \o c \o d
    <2>1. a \o <<>> = a
        BY ConcatEmptySeq
    <2>2. (a \o b) \o c = a \o (b \o c)
        BY ConcatAssociative
    <2> QED
        BY <2>1, <2>2
<1>4. (a \o b) \o <<>> \o c \o d = a \o b \o c \o d
    <2>1. (a \o b) \o <<>> = a \o b
        BY <1>1, ConcatEmptySeq
    <2> QED
        BY <2>1
<1> QED
    BY <1>2, <1>3, <1>4 DEF Row

\* The broadcasts of a queue as it grows and shrinks.
LEMMA QueueBroadcasts ==
    ASSUME NEW q \in Seq(Messages)
    PROVE  /\ BroadcastsIn(q) \in Seq(Broadcasts)
           /\ \A m \in Messages : BroadcastsIn(Append(q, m)) =
                 IF m = Reply THEN BroadcastsIn(q) ELSE Append(BroadcastsIn(q), m)
           /\ \A d \in Seq(Broadcasts) : BroadcastsIn(q \o d) = BroadcastsIn(q) \o d
           /\ q # <<>> => BroadcastsIn(q) =
                 (IF Head(q) = Reply THEN <<>> ELSE <<Head(q)>>) \o BroadcastsIn(Tail(q))
<1>1. BroadcastsIn(q) \in Seq(Broadcasts)
    BY BroadcastsOfConcat
<1>2. ASSUME NEW m \in Messages
      PROVE  BroadcastsIn(Append(q, m)) =
                IF m = Reply THEN BroadcastsIn(q) ELSE Append(BroadcastsIn(q), m)
    <2>1. Append(q, m) = q \o <<m>> /\ <<m>> \in Seq(Messages)
        BY AppendIsConcat
    <2>2. BroadcastsIn(q \o <<m>>) = BroadcastsIn(q) \o BroadcastsIn(<<m>>)
        BY <2>1, BroadcastsOfConcat
    <2>3. CASE m = Reply
        <3>1. BroadcastsIn(q) \o <<>> = BroadcastsIn(q)
            BY <1>1, ConcatEmptySeq
        <3> QED
            BY <2>1, <2>2, <2>3, <3>1, BroadcastsOfOne
    <2>4. CASE m # Reply
        <3>1. m \in Broadcasts
            BY <2>4 DEF Messages
        <3>2. Append(BroadcastsIn(q), m) = BroadcastsIn(q) \o <<m>>
            BY <1>1, <3>1, AppendIsConcat
        <3>3. BroadcastsIn(<<m>>) = <<m>>
            BY <2>4, BroadcastsOfOne
        <3> QED
            BY <2>1, <2>2, <2>4, <3>2, <3>3
    <2> QED
        BY <2>3, <2>4
<1>3. ASSUME NEW d \in Seq(Broadcasts) PROVE BroadcastsIn(q \o d) = BroadcastsIn(q) \o d
    <2>1. d \in Seq(Messages)
        BY SeqMonotonic DEF Messages
    <2>2. BroadcastsIn(d) = d
        BY BroadcastsOfBroadcasts
    <2>3. BroadcastsIn(q \o d) = BroadcastsIn(q) \o BroadcastsIn(d)
        BY <2>1, BroadcastsOfConcat
    <2> QED
        BY <2>2, <2>3
<1>4. ASSUME q # <<>>
      PROVE  BroadcastsIn(q) =
                (IF Head(q) = Reply THEN <<>> ELSE <<Head(q)>>) \o BroadcastsIn(Tail(q))
    <2>1. Head(q) \in Messages /\ Tail(q) \in Seq(Messages)
        BY <1>4, HeadTailProperties
    <2>2. q = <<Head(q)>> \o Tail(q)
        BY <1>4, <2>1
    <2>3. <<Head(q)>> \in Seq(Messages)
        BY <2>1
    <2>4. BroadcastsIn(<<Head(q)>> \o Tail(q)) = BroadcastsIn(<<Head(q)>>) \o BroadcastsIn(Tail(q))
        BY <2>1, <2>3, BroadcastsOfConcat
    <2>5. BroadcastsIn(<<Head(q)>>) = IF Head(q) = Reply THEN <<>> ELSE <<Head(q)>>
        BY <2>1, BroadcastsOfOne
    <2> QED
        BY <2>2, <2>4, <2>5
<1> QED
    BY <1>1, <1>2, <1>3, <1>4

\* Posting a message to a session.
LEMMA PostDelivered ==
    ASSUME LockTypes, QueueTypes, QueueUses, Delivered,
           NEW s \in Sessions, NEW m \in Messages, Post(s, m),
           UNCHANGED <<sent, inHand, mIsShuttingDown, clientState>>,
           \A r \in Sessions : pc'[Out(r)] = pc[Out(r)]
    PROVE  Delivered'
<1>1. \A r \in Sessions : Sound(r)' => Sound(r)
    <2>1. \A r \in Sessions : sock'[r] # "deleted" => sock[r] # "deleted"
        BY PostSockets
    <2> QED
        BY <2>1 DEF Sound, RefusesPosts
<1>2. /\ standby \in [Sessions -> Seq(Broadcasts)] /\ outQueue \in [Sessions -> Seq(Messages)]
      /\ accepted \in [Sessions -> Seq(Broadcasts)] /\ sent \in [Sessions -> Seq(Broadcasts)]
      /\ Hand(s) \in Seq(Broadcasts) /\ Hand(s)' = Hand(s)
    BY DEF QueueTypes, MessageInv, MessageTypes, Hand
<1>3. BroadcastsIn(outQueue[s]) \in Seq(Broadcasts)
    BY <1>2, QueueBroadcasts
<1>4. CASE PostRefused(s)
    BY <1>1, <1>4, DeliveredIn, SameOrder DEF PostRefused, SameMessages, Delivered
<1>5. CASE PostStandby(s, m)
    <2>1. m # Reply /\ m \in Broadcasts
        BY <1>5 DEF PostStandby, Messages
    <2>2. CASE UNCHANGED <<standby, accepted>>
        <3>1. UNCHANGED outQueue
            BY <1>5 DEF PostStandby
        <3> QED
            BY <1>1, <2>2, <3>1, DeliveredIn, SameOrder DEF SameMessages, Delivered
    <2>3. CASE /\ standby' = [standby EXCEPT ![s] = Append(@, m)]
               /\ accepted' = AppendTo(accepted, s, m)
        <3>1. UNCHANGED outQueue
            BY <1>5 DEF PostStandby
        <3>2. standby'[s] = Added(standby[s], m) /\ accepted'[s] = Added(accepted[s], m)
            BY <1>2, <2>1, <2>3 DEF AppendTo, Added
        <3>3. \A r \in Sessions : r # s => SameMessages(r)
            BY <1>2, <2>3, <3>1 DEF SameMessages, AppendTo
        <3>4. Sound(s)' => InOrder(s)'
            <4> SUFFICES ASSUME Sound(s)' PROVE InOrder(s)'
                OBVIOUS
            <4>1. InOrder(s)
                BY <1>1 DEF Delivered
            <4>2. standby[s] \in Seq(Broadcasts) /\ sent[s] \in Seq(Broadcasts)
                  /\ Hand(s) \in Seq(Broadcasts)
                BY <1>2
            <4>3. Added(Row(sent[s], Hand(s), BroadcastsIn(outQueue[s]), standby[s]), m)
                  = Row(sent[s], Hand(s), BroadcastsIn(outQueue[s]), Added(standby[s], m))
                BY ONLY <1>3, <2>1, <4>2, RowGrows
            <4> QED
                BY <1>2, <3>1, <3>2, <4>1, <4>3 DEF InOrder
        <3> QED
            BY <1>1, <3>3, <3>4, DeliveredIn
    <2> QED
        BY <1>5, <2>2, <2>3 DEF PostStandby
<1>6. CASE PostToOutputThread(s, m)
    <2>1. m # Reply => m \in Broadcasts /\ clientState[s] = "online"
        BY <1>6 DEF PostToOutputThread, Messages
    <2>2. UNCHANGED standby
        BY <1>6 DEF PostToOutputThread
    <2>3. CASE UNCHANGED <<outQueue, accepted>>
        BY <1>1, <2>2, <2>3, DeliveredIn, SameOrder DEF SameMessages, Delivered
    <2>4. CASE Enqueue(s, m)
        <3>1. /\ outQueue'[s] = Append(outQueue[s], m)
              /\ accepted'[s] = IF m = Reply THEN accepted[s] ELSE Added(accepted[s], m)
            BY <1>2, <2>4 DEF Enqueue, AppendTo, Added
        <3>2. \A r \in Sessions : r # s => SameMessages(r)
            BY <1>2, <2>2, <2>4 DEF SameMessages, Enqueue, AppendTo
        <3>3. BroadcastsIn(Append(outQueue[s], m)) =
                 IF m = Reply THEN BroadcastsIn(outQueue[s])
                 ELSE Added(BroadcastsIn(outQueue[s]), m)
            BY <1>2, QueueBroadcasts DEF Added
        <3>4. Sound(s)' => InOrder(s)'
            <4> SUFFICES ASSUME Sound(s)' PROVE InOrder(s)'
                OBVIOUS
            <4>1. InOrder(s)
                BY <1>1 DEF Delivered
            <4>2. CASE m = Reply
                BY <1>2, <2>2, <3>1, <3>3, <4>1, <4>2 DEF InOrder
            <4>3. CASE m # Reply
                <5>1. standby[s] = <<>>
                    BY <2>1, <4>3 DEF QueueUses
                <5>2. sent[s] \in Seq(Broadcasts) /\ <<>> \in Seq(Broadcasts)
                    BY <1>2
                <5>3. Added(Row(sent[s], Hand(s), BroadcastsIn(outQueue[s]), <<>>), m)
                      = Row(sent[s], Hand(s), Added(BroadcastsIn(outQueue[s]), m), <<>>)
                    <6>1. Hand(s) \in Seq(Broadcasts) /\ m \in Broadcasts
                        BY <1>2, <2>1, <4>3
                    <6> QED
                        BY ONLY <1>3, <5>2, <6>1, RowGrows
                <5> QED
                    BY <1>2, <2>2, <3>1, <3>3, <4>1, <4>3, <5>1, <5>3 DEF InOrder
            <4> QED
                BY <4>2, <4>3
        <3> QED
            BY <1>1, <3>2, <3>4, DeliveredIn
    <2> QED
        BY <1>6, <2>3, <2>4 DEF PostToOutputThread
<1> QED
    BY <1>4, <1>5, <1>6 DEF Post

\* Every step keeps the broadcasts of a sound session together.
LEMMA DeliveryStep ==
    /\ LockInv /\ PointerInv /\ HolderInv /\ QueueTypes /\ QueueUses /\ Delivered
    /\ [Next]_vars
    => Delivered'
<1> SUFFICES ASSUME LockInv, PointerInv, HolderInv, QueueTypes, QueueUses, Delivered,
                    [Next]_vars
             PROVE  Delivered'
    OBVIOUS
<1>a. /\ lpc \in {"accepted", "startInput", "startOutput", "track", "add"} => lcur \in Sessions
      /\ lpc = "accepted" => pc[In(lcur)] = "unborn" /\ pc[Out(lcur)] = "unborn"
      /\ LockTypes /\ pc \in [Threads -> Labels]
      /\ sock \in [Sessions -> {"none", "open", "closed", "deleted"}]
      /\ mIsShuttingDown \in [Sessions -> BOOLEAN]
      /\ clientState \in [Sessions -> {"starting", "online", "goingOffline"}]
      /\ apppc \in {"sending", "shutdown", "remove"} => appSession \in Sessions
    BY DEF LockInv, LockTypes, Births, HolderInv, HolderTypes, AppHolds, QueueTypes, FlagTypes
<1>b. /\ standby \in [Sessions -> Seq(Broadcasts)] /\ outQueue \in [Sessions -> Seq(Messages)]
      /\ accepted \in [Sessions -> Seq(Broadcasts)] /\ sent \in [Sessions -> Seq(Broadcasts)]
      /\ inHand \in [Sessions -> {None} \cup Messages]
      /\ \A s \in Sessions : inHand[s] # None <=> pc[Out(s)] \in {"send", "sending"}
    BY DEF QueueTypes, MessageInv, MessageTypes, MessageInHand
<1>c. /\ Reply \in Messages /\ Broadcasts \subseteq Messages
      /\ None \notin Messages /\ Reply \notin Broadcasts
      /\ apppc \in {"broadcast", "sending"} => appMessage \in Broadcasts
    BY ConstantsAssumption DEF Messages, QueueTypes, MessageInv, MessageInHand, Broadcasts, Reply
<1>d. ASSUME UNCHANGED <<accepted, sent, inHand, outQueue, standby>>,
             \A s \in Sessions : Sound(s)' => Sound(s)
      PROVE  Delivered'
    BY <1>d, SameOrder DEF SameMessages, Delivered
<1>e. ASSUME NEW s \in Sessions
      PROVE  Hand(s) \in Seq(Broadcasts) /\ BroadcastsIn(outQueue[s]) \in Seq(Broadcasts)
    <2>1. outQueue[s] \in Seq(Messages)
        BY <1>b
    <2>2. BroadcastsIn(outQueue[s]) \in Seq(Broadcasts)
        BY <2>1, QueueBroadcasts
    <2>3. Hand(s) \in Seq(Broadcasts)
        BY DEF Hand
    <2> QED
        BY <2>2, <2>3
<1> USE ActorsDiffer, <1>a, <1>d
        DEF Sound, RefusesPosts, Working, Labels, Goto, Close, listenerVars, listVars, lockVars,
            threadVars, sessionVars, ioVars, messageVars, appVars, adminVars, ThreadFrame,
            AdminFrame
<1>1. ASSUME NEW s \in Sessions, Accept(s) PROVE Delivered'
    BY <1>1 DEF Accept
<1>2. ASSUME AcceptThrows \/ StopListening PROVE Delivered'
    BY <1>2 DEF AcceptThrows, StopListening
<1>3. ASSUME CreateSession PROVE Delivered'
    BY <1>3 DEF CreateSession
<1>4. ASSUME StartInput PROVE Delivered'
    BY <1>4 DEF StartInput, Start
<1>5. ASSUME StartOutput PROVE Delivered'
    BY <1>5 DEF StartOutput, Start
<1>6. ASSUME TrackThreads PROVE Delivered'
    BY <1>6 DEF TrackThreads
<1>7. ASSUME AddToServer PROVE Delivered'
    BY <1>7 DEF AddToServer
<1>8. ASSUME NEW s \in Sessions, InLoop(s) PROVE Delivered'
    BY <1>8 DEF InLoop
<1>9. ASSUME NEW s \in Sessions, InReceive(s) PROVE Delivered'
    BY <1>9 DEF InReceive
<1>10. ASSUME NEW s \in Sessions, InEof(s) PROVE Delivered'
    BY <1>10 DEF InEof
<1>11. ASSUME NEW s \in Sessions, InThrows(s) PROVE Delivered'
    BY <1>11 DEF InThrows
<1>12. ASSUME NEW s \in Sessions, HandleQuietly(s) PROVE Delivered'
    BY <1>12 DEF HandleQuietly
<1>13. ASSUME NEW s \in Sessions, HandlePosting(s) PROVE Delivered'
    <2>1. UNCHANGED <<sent, inHand, mIsShuttingDown, clientState>>
        BY <1>13 DEF HandlePosting
    <2>2. \A r \in Sessions : pc'[Out(r)] = pc[Out(r)]
        BY <1>13 DEF HandlePosting
    <2>3. CASE Post(s, Reply)
        BY <1>c, <2>1, <2>2, <2>3, PostDelivered
    <2>4. CASE UNCHANGED <<sock, standby, outQueue, accepted>>
        BY <2>1, <2>2, <2>4
    <2> QED
        BY <1>13, <2>3, <2>4 DEF HandlePosting
<1>14. ASSUME NEW s \in Sessions, GoOnline(s) PROVE Delivered'
    <2>1. UNCHANGED <<sock, mIsShuttingDown, inHand, accepted, sent>>
        BY <1>14 DEF GoOnline
    <2>2. /\ clientState[s] = "starting"
          /\ clientState' = [clientState EXCEPT ![s] = "online"]
          /\ \A r \in Sessions : pc'[Out(r)] = pc[Out(r)]
        BY <1>14 DEF GoOnline
    <2>3. /\ outQueue'[s] = outQueue[s] \o standby[s] /\ standby'[s] = <<>>
          /\ \A r \in Sessions : r # s => outQueue'[r] = outQueue[r] /\ standby'[r] = standby[r]
        BY <1>b, <1>14 DEF GoOnline, MoveStandby
    <2>4. \A r \in Sessions : Sound(r)' => Sound(r)
        BY <2>1, <2>2
    <2>5. Sound(s)' => InOrder(s)'
        <3> SUFFICES ASSUME Sound(s)' PROVE InOrder(s)'
            OBVIOUS
        <3>1. InOrder(s)
            BY <2>4 DEF Delivered
        <3>2. standby[s] \in Seq(Broadcasts) /\ sent[s] \in Seq(Broadcasts)
              /\ outQueue[s] \in Seq(Messages) /\ Hand(s)' = Hand(s)
            BY <1>b, <2>1 DEF Hand
        <3>3. BroadcastsIn(outQueue'[s]) = BroadcastsIn(outQueue[s]) \o standby[s]
            <4>1. BroadcastsIn(outQueue[s] \o standby[s]) = BroadcastsIn(outQueue[s]) \o standby[s]
                BY ONLY <3>2, QueueBroadcasts
            <4> QED
                BY <2>3, <4>1
        <3>4. Row(sent[s], Hand(s), BroadcastsIn(outQueue[s]) \o standby[s], <<>>)
              = Row(sent[s], Hand(s), BroadcastsIn(outQueue[s]), standby[s])
            <4>1. Hand(s) \in Seq(Broadcasts) /\ BroadcastsIn(outQueue[s]) \in Seq(Broadcasts)
                BY <1>e
            <4> QED
                BY ONLY <3>2, <4>1, RowMoves
        <3> QED
            BY <2>1, <2>3, <3>1, <3>2, <3>3, <3>4 DEF InOrder
    <2>6. \A r \in Sessions : r # s => SameMessages(r)
        BY <2>1, <2>3 DEF SameMessages
    <2> QED
        BY <2>4, <2>5, <2>6, DeliveredIn
<1>15. ASSUME NEW s \in Sessions, Logout(s) PROVE Delivered'
    BY <1>15 DEF Logout
<1>16. ASSUME NEW s \in Sessions, ReplyEnds(s) PROVE Delivered'
    BY <1>16 DEF ReplyEnds
<1>17. ASSUME NEW s \in Sessions, Spin(s) PROVE Delivered'
    BY <1>17 DEF Spin
<1>18. ASSUME NEW s \in Sessions, OutLoop(s) PROVE Delivered'
    BY <1>18 DEF OutLoop
<1>19. ASSUME NEW s \in Sessions, OutWait(s) PROVE Delivered'
    <2>1. UNCHANGED <<sock, mIsShuttingDown, clientState, accepted, sent, standby>>
        BY <1>19 DEF OutWait
    <2>2. pc[Out(s)] = "wait" /\ \E l \in {"send", "loop"} : Goto(Out(s), l)
        BY <1>19 DEF OutWait
    <2>3. \A r \in Sessions : Sound(r)' => Sound(r)
        BY <2>1, <2>2
    <2>4. CASE UNCHANGED <<inHand, outQueue>>
        BY <2>1, <2>3, <2>4
    <2>5. CASE outQueue[s] # <<>> /\ PopNext(s)
        <3>1. /\ inHand'[s] = Head(outQueue[s]) /\ outQueue'[s] = Tail(outQueue[s])
              /\ \A r \in Sessions : r # s => inHand'[r] = inHand[r] /\ outQueue'[r] = outQueue[r]
            BY <1>b, <2>5 DEF PopNext
        <3>2. inHand[s] = None /\ Hand(s) = <<>>
            BY <1>b, <1>c, <2>2 DEF Hand
        <3>3. Head(outQueue[s]) \in Messages /\ Tail(outQueue[s]) \in Seq(Messages)
            BY <1>b, <2>5, HeadTailProperties
        <3>4. Hand(s)' = IF Head(outQueue[s]) = Reply THEN <<>> ELSE <<Head(outQueue[s])>>
            BY <1>c, <3>1, <3>3 DEF Hand, Messages
        <3>5. BroadcastsIn(outQueue[s]) = Hand(s)' \o BroadcastsIn(Tail(outQueue[s]))
            BY <1>b, <2>5, <3>4, QueueBroadcasts
        <3>6. Sound(s)' => InOrder(s)'
            <4> SUFFICES ASSUME Sound(s)' PROVE InOrder(s)'
                OBVIOUS
            <4>1. InOrder(s)
                BY <2>3 DEF Delivered
            <4> DEFINE h == Hand(s)'
                       b == BroadcastsIn(Tail(outQueue[s]))
            <4>2. h \in Seq(Broadcasts)
                BY <3>3, <3>4 DEF Messages
            <4>3. b \in Seq(Broadcasts)
                BY <3>3, QueueBroadcasts
            <4>4. standby[s] \in Seq(Broadcasts) /\ sent[s] \in Seq(Broadcasts)
                BY <1>b
            <4>5. accepted[s] = Row(sent[s], <<>>, h \o b, standby[s])
                BY <3>2, <3>5, <4>1 DEF InOrder
            <4>6. BroadcastsIn(outQueue'[s]) = b
                BY <3>1
            <4> HIDE DEF h, b
            <4>7. Row(sent[s], <<>>, h \o b, standby[s]) = Row(sent[s], h, b, standby[s])
                BY ONLY <4>2, <4>3, <4>4, RowMoves
            <4>8. accepted'[s] = Row(sent'[s], h, BroadcastsIn(outQueue'[s]), standby'[s])
                BY <2>1, <4>5, <4>6, <4>7
            <4> QED
                BY <4>8 DEF InOrder, h
        <3>7. \A r \in Sessions : r # s => SameMessages(r)
            BY <2>1, <3>1 DEF SameMessages
        <3> QED
            BY <2>3, <3>6, <3>7, DeliveredIn
    <2> QED
        BY <1>19, <2>4, <2>5 DEF OutWait
<1>20. ASSUME NEW s \in Sessions, OutSend(s) PROVE Delivered'
    <2>1. /\ UNCHANGED <<sock, mIsShuttingDown, clientState, accepted, sent, standby, outQueue>>
          /\ pc[Out(s)] = "send" /\ \E l \in {"loop", "sending"} : Goto(Out(s), l)
        BY <1>20 DEF OutSend
    <2>2. \A r \in Sessions : Sound(r)' => Sound(r)
        BY <2>1
    <2>3. CASE UNCHANGED inHand
        BY <2>1, <2>2, <2>3
    <2>4. CASE RefusesPosts(s)
        <3>1. \A r \in Sessions : r # s => inHand'[r] = inHand[r]
            BY <1>b, <1>20 DEF OutSend
        <3>2. \A r \in Sessions : r # s => SameMessages(r)
            BY <2>1, <3>1 DEF SameMessages
        <3>3. ~ Sound(s)'
            BY <2>1, <2>4
        <3> QED
            BY <2>2, <3>2, <3>3, DeliveredIn
    <2>5. ~ RefusesPosts(s) => UNCHANGED inHand
        BY <1>b, <1>20 DEF OutSend
    <2> QED
        BY <2>3, <2>4, <2>5
<1>21. ASSUME NEW s \in Sessions, OutSent(s) PROVE Delivered'
    <2>1. /\ UNCHANGED <<sock, mIsShuttingDown, clientState, accepted, standby, outQueue>>
          /\ pc[Out(s)] = "sending" /\ \E l \in {"loop", "shutdown"} : Goto(Out(s), l)
        BY <1>21 DEF OutSent
    <2>2. \A r \in Sessions : Sound(r)' => Sound(r)
        BY <2>1
    <2>3. inHand'[s] = None /\ \A r \in Sessions : r # s => inHand'[r] = inHand[r]
        BY <1>b, <1>21 DEF OutSent
    <2>4. CASE Goto(Out(s), "shutdown") /\ UNCHANGED sent
        <3>1. ~ Sound(s)'
            BY <2>4
        <3>2. \A r \in Sessions : r # s => SameMessages(r)
            BY <2>1, <2>3, <2>4 DEF SameMessages
        <3> QED
            BY <2>2, <3>1, <3>2, DeliveredIn
    <2>5. CASE sent' = AppendTo(sent, s, inHand[s])
        <3>1. inHand[s] \in Messages
            BY <1>b, <2>1
        <3>2. sent'[s] = sent[s] \o Hand(s)
            <4>0. sent[s] \in Seq(Broadcasts)
                BY <1>b
            <4>1. CASE inHand[s] = Reply
                <5>1. sent[s] \o <<>> = sent[s]
                    BY <4>0, ConcatEmptySeq
                <5> QED
                    BY <1>b, <1>c, <2>5, <4>1, <5>1 DEF Hand, AppendTo
            <4>2. CASE inHand[s] # Reply
                <5>1. inHand[s] \in Broadcasts
                    BY <3>1, <4>2 DEF Messages
                <5>2. Append(sent[s], inHand[s]) = sent[s] \o <<inHand[s]>>
                    BY <4>0, <5>1, AppendIsConcat
                <5> QED
                    BY <1>b, <2>5, <4>2, <5>1, <5>2 DEF Hand, AppendTo
            <4> QED
                BY <4>1, <4>2
        <3>3. \A r \in Sessions : r # s => SameMessages(r)
            BY <1>b, <2>1, <2>3, <2>5 DEF SameMessages, AppendTo
        <3>4. Hand(s)' = <<>>
            BY <1>c, <2>3 DEF Hand
        <3>5. Sound(s)' => InOrder(s)'
            <4> SUFFICES ASSUME Sound(s)' PROVE InOrder(s)'
                OBVIOUS
            <4>1. InOrder(s)
                BY <2>2 DEF Delivered
            <4>2. standby[s] \in Seq(Broadcasts) /\ sent[s] \in Seq(Broadcasts)
                BY <1>b
            <4>3. Row(sent[s] \o Hand(s), <<>>, BroadcastsIn(outQueue[s]), standby[s])
                  = Row(sent[s], Hand(s), BroadcastsIn(outQueue[s]), standby[s])
                <5>1. Hand(s) \in Seq(Broadcasts) /\ BroadcastsIn(outQueue[s]) \in Seq(Broadcasts)
                    BY <1>e
                <5> QED
                    BY ONLY <4>2, <5>1, RowMoves
            <4> QED
                BY <2>1, <3>2, <3>4, <4>1, <4>3 DEF InOrder
        <3> QED
            BY <2>2, <3>3, <3>5, DeliveredIn
    <2> QED
        BY <1>21, <2>4, <2>5 DEF OutSent
<1>22. ASSUME NEW s \in Sessions, OutGivesUp(s) PROVE Delivered'
    <2>1. /\ UNCHANGED <<sock, mIsShuttingDown, clientState, accepted, sent, standby, outQueue>>
          /\ Goto(Out(s), "shutdown")
          /\ \A r \in Sessions : r # s => inHand'[r] = inHand[r]
        BY <1>b, <1>22 DEF OutGivesUp
    <2>2. \A r \in Sessions : r # s => SameMessages(r) /\ (Sound(r)' => Sound(r))
        BY <2>1 DEF SameMessages
    <2>3. ~ Sound(s)'
        BY <2>1
    <2> QED
        BY <2>2, <2>3, DeliveredIn
<1>23. ASSUME NEW s \in Sessions, ClearFlag(s) PROVE Delivered'
    BY <1>23 DEF ClearFlag
<1>24. ASSUME NEW s \in Sessions, NEW t \in {In(s), Out(s)}, Shutdown(t, s) PROVE Delivered'
    BY <1>24 DEF Shutdown, ShutdownSection
<1>25. ASSUME NEW s \in Sessions, NEW t \in {In(s), Out(s)}, Remove(t, s) PROVE Delivered'
    BY <1>25 DEF Remove
<1>26. ASSUME NEW s \in Sessions, NEW t \in {In(s), Out(s)}, DropSession(t, s) PROVE Delivered'
    <2>1. /\ UNCHANGED <<mIsShuttingDown, clientState, accepted, sent, inHand>>
          /\ pc[t] = "free1" /\ Goto(t, "free2")
        BY <1>26 DEF DropSession
    <2>2. /\ \A r \in Sessions : r # s => sock'[r] = sock[r] /\ standby'[r] = standby[r]
          /\ sock'[s] # "deleted" => sock[s] # "deleted" /\ standby'[s] = standby[s]
        BY <1>b, <1>26 DEF DropSession, ReleaseSession
    <2>3. /\ \A r \in Sessions : r # s => outQueue'[r] = outQueue[r]
          /\ t # Out(s) => outQueue'[s] = outQueue[s]
        BY <1>b, <1>26 DEF DropSession
    <2>4. \A r \in Sessions : r # s => SameMessages(r) /\ (Sound(r)' => Sound(r))
        BY <1>26, <2>1, <2>2, <2>3 DEF SameMessages
    <2>5. Sound(s)' => InOrder(s)'
        <3> SUFFICES ASSUME Sound(s)' PROVE InOrder(s)'
            OBVIOUS
        <3>1. t = In(s)
            BY <1>26, <2>1
        <3>2. Sound(s)
            BY <2>1, <2>2, <3>1
        <3>3. SameMessages(s)
            BY <2>1, <2>2, <2>3, <3>1 DEF SameMessages
        <3> QED
            BY <3>2, <3>3, SameOrder DEF Delivered
    <2> QED
        BY <2>4, <2>5, DeliveredIn
<1>27. ASSUME NEW t \in Threads, SocketThreadEnded(t) PROVE Delivered'
    BY <1>27 DEF SocketThreadEnded
<1>28. ASSUME BroadcastBegin PROVE Delivered'
    BY <1>28 DEF BroadcastBegin
<1>29. ASSUME NEW s \in Sessions, BroadcastPost(s) PROVE Delivered'
    <2>1. Post(s, appMessage) /\ appMessage \in Messages
        BY <1>c, <1>29 DEF BroadcastPost
    <2>2. UNCHANGED <<pc, sent, inHand, mIsShuttingDown, clientState>>
        BY <1>29 DEF BroadcastPost
    <2> QED
        BY <2>1, <2>2, PostDelivered
<1>30. ASSUME NEW s \in Sessions, BroadcastSend(s) PROVE Delivered'
    BY <1>30 DEF BroadcastSend
<1>31. ASSUME BroadcastSent PROVE Delivered'
    <2>0. PICK s \in Sessions : s = appSession
        BY <1>31 DEF BroadcastSent
    <2>1. apppc = "sending" /\ appMessage \in Broadcasts /\ appMessage # Reply
        BY <1>c, <1>31 DEF BroadcastSent
    <2>2. UNCHANGED <<pc, sock, mIsShuttingDown, clientState, standby, inHand, outQueue>>
        BY <1>31 DEF BroadcastSent
    <2>3. /\ sent'[s] = Append(sent[s], appMessage)
          /\ accepted'[s] = Append(accepted[s], appMessage)
          /\ \A r \in Sessions : r # s => sent'[r] = sent[r] /\ accepted'[r] = accepted[r]
        BY <1>b, <1>31, <2>0, <2>1 DEF BroadcastSent, AppendTo
    <2>4. \A r \in Sessions : Sound(r)' => Sound(r)
        BY <2>2
    <2>5. \A r \in Sessions : r # s => SameMessages(r)
        BY <2>2, <2>3 DEF SameMessages
    <2>6. Sound(s)' => InOrder(s)'
        <3> SUFFICES ASSUME Sound(s)' PROVE InOrder(s)'
            OBVIOUS
        <3>1. InOrder(s)
            BY <2>1, <2>4 DEF Delivered
        <3>2. standby[s] = <<>> /\ pc[Out(s)] = "unborn"
            BY <2>0, <2>1 DEF QueueUses
        <3>3. outQueue[s] = <<>>
            BY <2>1, <3>2 DEF QueueUses
        <3>4. Hand(s) = <<>> /\ Hand(s)' = <<>>
            <4>1. inHand[s] = None /\ inHand'[s] = None
                BY <1>b, <2>2, <3>2
            <4> QED
                BY <1>c, <4>1 DEF Hand
        <3>5. \A q \in Seq(Broadcasts) : q \o <<>> = q
            BY ConcatEmptySeq
        <3>6. sent[s] \in Seq(Broadcasts) /\ sent'[s] \in Seq(Broadcasts)
            BY <1>b, <2>1, <2>3, AppendProperties
        <3>7. accepted[s] = sent[s]
            BY <3>1, <3>2, <3>3, <3>4, <3>5, <3>6, BroadcastsOfOne DEF InOrder, Row
        <3>8. accepted'[s] = sent'[s]
            BY <2>3, <3>7
        <3> QED
            BY <2>2, <3>2, <3>3, <3>4, <3>5, <3>6, <3>8, BroadcastsOfOne DEF InOrder, Row
    <2> QED
        BY <2>1, <2>4, <2>5, <2>6, DeliveredIn
<1>32. ASSUME BroadcastThrows PROVE Delivered'
    BY <1>32 DEF BroadcastThrows
<1>33. ASSUME BroadcastEnd PROVE Delivered'
    BY <1>33 DEF BroadcastEnd
<1>34. ASSUME NEW s \in Sessions, TakeSession(s) PROVE Delivered'
    BY <1>34 DEF TakeSession
<1>35. ASSUME AppShutdown PROVE Delivered'
    BY <1>35 DEF AppShutdown, ShutdownSection
<1>36. ASSUME AppRemove PROVE Delivered'
    <2>0. PICK s \in Sessions : s = appSession
        BY <1>36 DEF AppRemove
    <2>1. UNCHANGED <<pc, mIsShuttingDown, clientState, accepted, sent, inHand, outQueue>>
        BY <1>36 DEF AppRemove
    <2>2. /\ \A r \in Sessions : r # s => sock'[r] = sock[r] /\ standby'[r] = standby[r]
          /\ sock'[s] # "deleted" =>
                sock[s] # "deleted" /\ standby'[s] = standby[s]
        BY <1>b, <1>36, <2>0 DEF AppRemove, ReleaseSession
    <2>3. \A r \in Sessions : r # s => SameMessages(r) /\ (Sound(r)' => Sound(r))
        BY <2>1, <2>2 DEF SameMessages
    <2>4. Sound(s)' => Sound(s) /\ SameMessages(s)
        BY <2>1, <2>2 DEF SameMessages
    <2>5. Sound(s)' => InOrder(s)'
        BY <2>1, <2>4, SameOrder DEF Delivered
    <2> QED
        BY <2>1, <2>3, <2>5, DeliveredIn
<1>37. ASSUME StopListener PROVE Delivered'
    BY <1>37 DEF StopListener
<1>38. ASSUME StopAllBegin PROVE Delivered'
    BY <1>38 DEF StopAllBegin
<1>39. ASSUME NEW t \in Threads, CheckSocket(t) PROVE Delivered'
    BY <1>39 DEF CheckSocket
<1>40. ASSUME CloseSocket PROVE Delivered'
    BY <1>40 DEF CloseSocket
<1>41. ASSUME StopThread PROVE Delivered'
    BY <1>41 DEF StopThread
<1>42. ASSUME StopAllEnd PROVE Delivered'
    BY <1>42 DEF StopAllEnd
<1>43. ASSUME StopEnd PROVE Delivered'
    BY <1>43 DEF StopEnd
<1>44. ASSUME NEW s \in Sessions, PeerStalls(s) \/ PeerResumes(s) \/ PeerLeaves(s) PROVE Delivered'
    BY <1>44 DEF PeerStalls, PeerResumes, PeerLeaves, PeerMoves
<1>45. CASE UNCHANGED vars
    BY <1>45 DEF vars
<1> QED
    BY <1>1, <1>2, <1>3, <1>4, <1>5, <1>6, <1>7, <1>8, <1>9, <1>10, <1>11, <1>12,
       <1>13, <1>14, <1>15, <1>16, <1>17, <1>18, <1>19, <1>20, <1>21, <1>22, <1>23, <1>24,
       <1>25, <1>26, <1>27, <1>28, <1>29, <1>30, <1>31, <1>32, <1>33, <1>34, <1>35, <1>36,
       <1>37, <1>38, <1>39, <1>40, <1>41, <1>42, <1>43, <1>44, <1>45
       DEF Next, ListenerStep, ListenerContinues, InStep, InExternal, OutStep, AppStep,
           AppContinues, AdminContinues

-----------------------------------------------------------------------------
\* All that the argument about messages rests on.
SessionInv == LockInv /\ PointerInv /\ HolderInv /\ QueueTypes /\ QueueUses /\ Delivered

\* The invariant holds from the start and in every reachable state.
THEOREM SessionInvariant == Spec => []SessionInv
<1>1. Init => LockInv /\ PointerInv /\ HolderInv
    BY ActorsDiffer, ConstantsAssumption
       DEF Init, LockInv, LockTypes, LockHolders, Births, Labels, PointerInv, PointerTypes,
           ThreadLives, Deleted, HolderInv, HolderTypes, ListenerHolds, ThreadsHold, AppHolds,
           DeletedUnheld
<1>2. Init => QueueTypes
    BY ActorsDiffer, ConstantsAssumption
       DEF Init, QueueTypes, FlagTypes, MessageInv, MessageTypes, MessageInHand, Labels
<1>3. Init => QueueUses
    BY ActorsDiffer DEF Init, QueueUses
<1>4. Init => Delivered
    <2> SUFFICES ASSUME Init, NEW s \in Sessions PROVE InOrder(s)
        BY DEF Delivered
    <2>1. /\ accepted[s] = <<>> /\ sent[s] = <<>> /\ outQueue[s] = <<>> /\ standby[s] = <<>>
          /\ inHand[s] = None
        BY DEF Init
    <2>2. Hand(s) = <<>>
        BY <2>1, ConstantsAssumption DEF Hand
    <2>3. <<>> \o <<>> = <<>>
        OBVIOUS
    <2> QED
        BY <2>1, <2>2, <2>3, BroadcastsOfOne DEF InOrder, Row
<1>5. SessionInv /\ [Next]_vars => SessionInv'
    BY LockStep, PointerStep, HolderStep, FlagStep, MessageStep, QueueStep, DeliveryStep
       DEF SessionInv, QueueTypes
<1>6. Init => SessionInv
    BY <1>1, <1>2, <1>3, <1>4 DEF SessionInv
<1> QED
    BY <1>5, <1>6, PTL DEF Spec

\* Every variable keeps its type; an output thread about to send has a message.
THEOREM SessionsTyped == Spec => []TypeOK
<1>1. SessionInv => TypeOK
    <2> SUFFICES ASSUME SessionInv PROVE TypeOK
        OBVIOUS
    <2>1. /\ appTodo \subseteq Sessions /\ appSession \in {None} \cup Sessions
        BY DEF SessionInv, HolderInv, HolderTypes, AppHolds
    <2>2. /\ Messages = {Reply} \cup Broadcasts
          /\ {None} \cup Messages = {None, Reply} \cup Broadcasts
        BY DEF Messages
    <2> QED
        BY <2>1, <2>2
           DEF SessionInv, LockInv, LockTypes, LockHolders, PointerInv, PointerTypes, HolderInv,
               HolderTypes, QueueTypes, FlagTypes, MessageInv, MessageTypes, MessageInHand,
               TypeOK
<1> QED
    BY <1>1, SessionInvariant, PTL

\* As long as nothing has gone wrong with a session, every broadcast it took on is
\* sent, in hand, queued or on standby, in the order of posting, whatever the
\* number of sessions and messages: going online while broadcasts come in loses
\* none and lets none overtake.
THEOREM BroadcastsNotLost == Spec => []NothingLost
<1>1. SessionInv => NothingLost
    <2> SUFFICES ASSUME Delivered PROVE NothingLost
        BY DEF SessionInv
    <2> QED
        BY DEF Delivered, Sound, InOrder, Row, Working, NothingLost
<1> QED
    BY <1>1, SessionInvariant, PTL
=============================================================================
