------------------------------ MODULE VSocket ------------------------------
(***************************************************************************)
(* The loop of VSocket::read() and the one of VSocket::write(), which is   *)
(* the same with another direction (source/sockets/vsocket.cpp), in one    *)
(* thread, while another thread may call close().  The system moves bytes  *)
(* in any portions, interrupts a wait at any time, and may give the number *)
(* of a closed descriptor to another connection.  The bytes of a direction *)
(* are numbered in the order they are sent.                                *)
(***************************************************************************)
EXTENDS Integers, Sequences

CONSTANTS
    MaxBytes,           \* bound: bytes that go one way
    MaxTransfer,        \* bound: bytes one call asks for
    TimeOut             \* what the time-out was set to, in units of time

ASSUME SocketConstants == MaxBytes \in Nat /\ MaxTransfer \in Nat /\ TimeOut \in Nat

VARIABLES
    mode,               \* [direction, selectWritesBack, mRequireReadAll, mTimeOutActive]
    mSocketID,          \* "set" or "none"
    descriptor,         \* whose its number is: "ours", "closed" or "another's"
    socketPeer,         \* "open", "closed" or "reset"
    ready, offered,     \* bytes to receive, or room to send; and in all so far
    mTimeOut,           \* mReadTimeOut or mWriteTimeOut
    mNumBytes,          \* mNumBytesRead or mNumBytesWritten
    transfer,           \* "idle", or where the call is: "select", "waits", "asleep", "moves"
    transferBuffer, nextBufferPosition, bytesRemaining,
    timeLeft, waited,   \* time this select() has left; history: time this call has waited
    timedOut,           \* history: a call that was to wait longer timed out
    through,            \* history: the buffers read() returned, or what send() was given
    sent,               \* history: bytes of all calls of write()
    spoiled             \* history: a read failed with bytes taken, or bytes went astray

socketVars == <<mode, mSocketID, descriptor, socketPeer, ready, offered, mTimeOut, mNumBytes,
                transfer, transferBuffer, nextBufferPosition, bytesRemaining, timeLeft, waited,
                timedOut, through, sent, spoiled>>

Reading == mode.direction = "read"

SocketInit ==
    /\ mode \in [direction : {"read", "write"}, selectWritesBack : BOOLEAN,
                 mRequireReadAll : BOOLEAN, mTimeOutActive : BOOLEAN]
    /\ ~ Reading => mode.mRequireReadAll          \* write() does not look at it
    /\ ~ mode.mTimeOutActive => ~ mode.selectWritesBack
    /\ mSocketID = "set" /\ descriptor = "ours" /\ socketPeer = "open"
    /\ ready = 0 /\ offered = 0
    /\ mTimeOut = TimeOut /\ mNumBytes = 0
    /\ transfer = "idle" /\ transferBuffer = <<>> /\ nextBufferPosition = 1 /\ bytesRemaining = 0
    /\ timeLeft = 0 /\ waited = 0 /\ timedOut = FALSE
    /\ through = <<>> /\ sent = 0 /\ spoiled = FALSE

connectionVars == <<mSocketID, descriptor, socketPeer, ready, offered>>
bufferVars == <<transferBuffer, nextBufferPosition, bytesRemaining>>
historyVars == <<through, sent, spoiled>>

-----------------------------------------------------------------------------
(* The peer, the system and the thread that closes *)

Offers ==
    /\ socketPeer = "open" /\ offered < MaxBytes
    /\ ready' = ready + 1 /\ offered' = offered + 1
    /\ UNCHANGED <<mSocketID, descriptor, socketPeer>>

\* A reset discards what has not been received.
PeerEnds(how) ==
    /\ socketPeer = "open" \/ (socketPeer = "closed" /\ how = "reset")
    /\ socketPeer' = how
    /\ ready' = IF how = "reset" THEN 0 ELSE ready
    /\ UNCHANGED <<mSocketID, descriptor, offered>>

\* close() gives the number back before it forgets it.
ClosesDescriptor ==
    /\ mSocketID = "set" /\ descriptor = "ours"
    /\ descriptor' = "closed"
    /\ UNCHANGED <<mSocketID, socketPeer, ready, offered>>
Reopens ==
    /\ descriptor = "closed"
    /\ descriptor' = "another's"
    /\ UNCHANGED <<mSocketID, socketPeer, ready, offered>>
ForgetsID ==
    /\ mSocketID = "set" /\ descriptor # "ours"
    /\ mSocketID' = "none"
    /\ UNCHANGED <<descriptor, socketPeer, ready, offered>>

Surroundings ==
    /\ Offers \/ PeerEnds("closed") \/ PeerEnds("reset") \/ ClosesDescriptor \/ Reopens \/ ForgetsID
    /\ UNCHANGED <<mode, mTimeOut, mNumBytes, transfer, bufferVars, timeLeft, waited, timedOut,
                   historyVars>>

-----------------------------------------------------------------------------
(* read() and write() *)

CallsTransfer(n) ==
    /\ transfer = "idle" /\ mSocketID = "set" /\ ~ spoiled
    /\ Reading \/ sent + n <= MaxBytes
    /\ transfer' = "select"
    /\ transferBuffer' = [i \in 1..n |-> IF Reading THEN 0 ELSE sent + i]
    /\ nextBufferPosition' = 1 /\ bytesRemaining' = n
    /\ waited' = 0
    /\ sent' = IF Reading THEN sent ELSE sent + n
    /\ UNCHANGED <<mTimeOut, mNumBytes, timeLeft, timedOut, through, spoiled>>

\* The locals of a call go with it.
TransferEnds ==
    transfer' = "idle" /\ transferBuffer' = <<>> /\ nextBufferPosition' = 1 /\ bytesRemaining' = 0

\* The call fails: bytes a read has put in the buffer are not seen again, and the
\* caller of a write cannot know how many went out.
TransferFails ==
    /\ TransferEnds
    /\ spoiled' = (bytesRemaining < Len(transferBuffer) \/ ~ Reading)
    /\ UNCHANGED <<mNumBytes, through, sent>>

\* With no ID, FD_SET(-1) and select(0, ...) wait for nothing.
Selects ==
    /\ transfer = "select"
    /\ timeLeft' = mTimeOut
    /\ IF mSocketID = "set" /\ descriptor = "closed"
       THEN TransferFails
       ELSE /\ transfer' = (IF mSocketID = "set" THEN "waits" ELSE "asleep")
            /\ UNCHANGED <<mNumBytes, bufferVars, historyVars>>
    /\ UNCHANGED <<mTimeOut, waited, timedOut>>

SelectReturns ==
    /\ mTimeOut' = IF mode.mTimeOutActive /\ mode.selectWritesBack THEN timeLeft ELSE mTimeOut
    /\ UNCHANGED <<timeLeft, waited>>

IsReady == transfer = "waits" /\ (ready > 0 \/ socketPeer # "open")
FindsReady ==
    /\ IsReady \/ (transfer = "waits" /\ descriptor = "another's")
    /\ transfer' = "moves"
    /\ SelectReturns
    /\ UNCHANGED <<mNumBytes, bufferVars, historyVars, timedOut>>

\* EINTR: the loop begins anew.
IsInterrupted ==
    /\ transfer \in {"waits", "asleep"}
    /\ transfer' = "select"
    /\ SelectReturns
    /\ UNCHANGED <<mNumBytes, bufferVars, historyVars, timedOut>>

TimePasses ==
    /\ transfer \in {"waits", "asleep"} /\ mode.mTimeOutActive /\ timeLeft > 0
    /\ timeLeft' = timeLeft - 1 /\ waited' = IF waited < TimeOut THEN waited + 1 ELSE waited
    /\ UNCHANGED <<mTimeOut, mNumBytes, transfer, bufferVars, historyVars, timedOut>>

SelectTimesOut ==
    /\ transfer \in {"waits", "asleep"} /\ mode.mTimeOutActive /\ timeLeft = 0 /\ ~ IsReady
    /\ TransferFails
    /\ SelectReturns
    /\ timedOut' = (timedOut \/ waited < TimeOut)

\* variant: each portion goes to, or comes from, the start of the buffer
StaysAt(n) == nextBufferPosition
Advanced(n) == nextBufferPosition + n

\* recv() or send() of what there is, or of a part of it.
Moves(n) ==
    /\ transfer = "moves" /\ mSocketID = "set" /\ descriptor = "ours"
    /\ n <= bytesRemaining /\ n <= ready
    /\ ready' = ready - n /\ mNumBytes' = mNumBytes + n
    /\ LET next == Advanced(n)
           filled == [i \in DOMAIN transferBuffer |->
                         IF Reading /\ i \in nextBufferPosition..nextBufferPosition + n - 1
                         THEN mNumBytes + 1 + i - nextBufferPosition ELSE transferBuffer[i]]
           isDone == n = bytesRemaining
       IN  /\ through' = through \o
                   (IF ~ Reading THEN SubSeq(transferBuffer, nextBufferPosition, nextBufferPosition + n - 1)
                    ELSE IF isDone THEN filled ELSE <<>>)
           /\ IF isDone THEN TransferEnds
              ELSE /\ transfer' = "select" /\ transferBuffer' = filled
                   /\ nextBufferPosition' = next /\ bytesRemaining' = bytesRemaining - n
    /\ UNCHANGED <<sent, spoiled, mSocketID, descriptor, socketPeer, offered>>

\* The peer has gone: the end of what it sent, or an error.
MovesNothing ==
    /\ transfer = "moves" /\ mSocketID = "set" /\ descriptor = "ours" /\ ready = 0
    /\ IF Reading /\ socketPeer = "closed" /\ ~ mode.mRequireReadAll
       THEN /\ TransferEnds
            /\ through' = through \o SubSeq(transferBuffer, 1, Len(transferBuffer) - bytesRemaining)
            /\ UNCHANGED <<mNumBytes, sent, spoiled>>
       ELSE TransferFails
    /\ UNCHANGED connectionVars

\* The number is no longer this connection's: EBADF, or another's bytes.
MovesAstray ==
    /\ transfer = "moves" /\ (mSocketID = "none" \/ descriptor # "ours")
    /\ TransferEnds
    /\ spoiled' = (\/ (mSocketID = "set" /\ descriptor = "another's")
                   \/ bytesRemaining < Len(transferBuffer) \/ ~ Reading)
    /\ UNCHANGED <<mNumBytes, through, sent, connectionVars>>

SocketNext ==
    \/ Surroundings
    \/ /\ \/ \E n \in 1..MaxTransfer : CallsTransfer(n)
          \/ Selects \/ FindsReady \/ IsInterrupted \/ TimePasses \/ SelectTimesOut
       /\ UNCHANGED <<mode, connectionVars>>
    \/ /\ (\E n \in 1..MaxTransfer : Moves(n)) \/ MovesNothing \/ MovesAstray
       /\ UNCHANGED <<mode, mTimeOut, timeLeft, waited, timedOut>>

SocketSpec == SocketInit /\ [][SocketNext]_socketVars

-----------------------------------------------------------------------------
SocketTypeOK ==
    /\ mSocketID \in {"set", "none"} /\ descriptor \in {"ours", "closed", "another's"}
    /\ socketPeer \in {"open", "closed", "reset"}
    /\ offered \in 0..MaxBytes /\ ready \in 0..offered /\ mNumBytes \in 0..MaxBytes
    /\ mTimeOut \in 0..TimeOut /\ timeLeft \in 0..TimeOut /\ waited \in 0..TimeOut
    /\ transfer \in {"idle", "select", "waits", "asleep", "moves"}
    /\ transferBuffer \in Seq(0..MaxBytes) /\ bytesRemaining \in 0..Len(transferBuffer)
    /\ nextBufferPosition \in 1..Len(transferBuffer) + 1
    /\ through \in Seq(0..MaxBytes) /\ sent \in 0..MaxBytes
    /\ spoiled \in BOOLEAN /\ timedOut \in BOOLEAN

\* However the system divides them, the bytes come through in order, each once,
\* and are counted: with those of a read under way, as long as no read failed that
\* had taken some.  What write() was not told to fail went out whole.
BytesComeThrough ==
    ~ spoiled =>
        LET underWay == IF Reading /\ transfer # "idle"
                        THEN SubSeq(transferBuffer, 1, Len(transferBuffer) - bytesRemaining) ELSE <<>>
        IN  /\ through \o underWay = [i \in 1..mNumBytes |-> i]
            /\ ~ Reading /\ transfer = "idle" => mNumBytes = sent

\* A call gives up only after the time that was set, on a system whose select()
\* leaves the time-out alone: vsocket.cpp passes the member itself (381, 444), so
\* that elsewhere each wait shortens the next.
TimeOutsAreFull == timedOut => mode.selectWritesBack

\* Both of read() and of write(): whatever portions the system moves and however
\* often it interrupts, the bytes come whole or the call fails in its time.
TransfersAreWhole == BytesComeThrough /\ TimeOutsAreFull
=============================================================================
