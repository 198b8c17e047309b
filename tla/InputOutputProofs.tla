-------------------------- MODULE InputOutputProofs --------------------------
(***************************************************************************)
(* Proofs about sockets, files and streams: the loops of VSocket::read()   *)
(* and VSocket::write() and the histories of the network monitor, for any  *)
(* numbers of bytes, sessions and transactions and any limits;             *)
(* VFSNode::safelyOverwriteFile(), for any number of calls and any clock;  *)
(* the memory stream with the write buffer on it, for any bytes, sizes and *)
(* increment; and the threaded connection strategy, for any number of      *)
(* addresses and any limit on the number of threads.                       *)
(***************************************************************************)
EXTENDS VSocketConnectionStrategyThreaded, VSocket, NetworkMonitor, VFSNode, VMemoryStream,
        FiniteSetTheorems, SequenceTheorems, TLAPS

-----------------------------------------------------------------------------
(* Sockets and the network monitor *)

\* Two runs of numbers, the second after the first, are one.
LEMMA NumbersFollow ==
    ASSUME NEW S, NEW s \in Seq(S), NEW t \in Seq(S),
           \A i \in 1..Len(s) : s[i] = i,
           \A i \in 1..Len(t) : t[i] = Len(s) + i
    PROVE  /\ s \o t \in Seq(S) /\ Len(s \o t) = Len(s) + Len(t)
           /\ \A i \in 1..Len(s \o t) : (s \o t)[i] = i
<1>1. /\ s \o t \in Seq(S) /\ Len(s) \in Nat /\ Len(t) \in Nat
      /\ Len(s \o t) = Len(s) + Len(t)
      /\ \A i \in 1..Len(s) + Len(t) : (s \o t)[i] = IF i <= Len(s) THEN s[i] ELSE t[i - Len(s)]
  BY ConcatProperties, LenProperties
<1>2. ASSUME NEW i \in 1..Len(s) + Len(t) PROVE (s \o t)[i] = i
  <2>1. CASE i <= Len(s)
    <3>1. i \in 1..Len(s)
      BY <1>1, <2>1
    <3> QED
      BY <1>1, <2>1, <3>1
  <2>2. CASE ~ (i <= Len(s))
    <3>1. i - Len(s) \in 1..Len(t) /\ Len(s) + (i - Len(s)) = i
      BY <1>1, <2>2
    <3>2. t[i - Len(s)] = i
      BY <3>1
    <3> QED
      BY <1>1, <2>2, <3>2
  <2> QED
    BY <2>1, <2>2
<1> QED
  BY <1>1, <1>2

\* A part of a sequence, and its first part.
LEMMA PartOf ==
    ASSUME NEW S, NEW s \in Seq(S), NEW m \in 1..Len(s) + 1, NEW n \in m - 1..Len(s)
    PROVE  /\ SubSeq(s, m, n) \in Seq(S) /\ Len(SubSeq(s, m, n)) = n - m + 1
           /\ \A i \in 1..n - m + 1 : SubSeq(s, m, n)[i] = s[m + i - 1]
<1>1. m \in Nat /\ n \in Nat /\ m >= 1 /\ n >= m - 1 /\ n <= Len(s) /\ Len(s) \in Nat
  BY LenProperties
<1>2. \A i \in m..n : s[i] \in S
  <2>1. \A i \in m..n : i \in 1..Len(s)
    BY <1>1
  <2> QED
    BY <2>1, ElementOfSeq
<1>3. m \in Int /\ n \in Int
  BY <1>1
<1>4. /\ SubSeq(s, m, n) \in Seq(S)
      /\ Len(SubSeq(s, m, n)) = IF m <= n THEN n - m + 1 ELSE 0
      /\ \A i \in 1..n - m + 1 : SubSeq(s, m, n)[i] = s[m + i - 1]
  BY ONLY <1>2, <1>3, SubSeqProperties
<1>5. ~ (m <= n) => n - m + 1 = 0
  BY <1>1
<1> QED
  BY <1>4, <1>5

LEMMA FirstPartOf ==
    ASSUME NEW S, NEW s \in Seq(S), NEW n \in 0..Len(s)
    PROVE  /\ SubSeq(s, 1, n) \in Seq(S) /\ Len(SubSeq(s, 1, n)) = n
           /\ \A i \in 1..n : SubSeq(s, 1, n)[i] = s[i]
<1>1. 1 \in 1..Len(s) + 1 /\ n \in 1 - 1..Len(s) /\ n - 1 + 1 = n /\ Len(s) \in Nat
  BY LenProperties
<1>2. \A i \in 1..n : 1 + i - 1 = i
  OBVIOUS
<1> QED
  BY ONLY <1>1, <1>2, PartOf

-----------------------------------------------------------------------------
(* The transfer loops *)

ModeTypes ==
    mode \in [direction : {"read", "write"}, selectWritesBack : BOOLEAN,
              mRequireReadAll : BOOLEAN, mTimeOutActive : BOOLEAN]

\* The types of what surrounds a call, of its time, and of its bytes.
ConnectionTypes ==
    /\ mSocketID \in {"set", "none"} /\ descriptor \in {"ours", "closed", "another's"}
    /\ socketPeer \in {"open", "closed", "reset"}
TimeTypes ==
    /\ mTimeOut \in 0..TimeOut /\ timeLeft \in 0..TimeOut /\ waited \in 0..TimeOut
FlagTypes == timedOut \in BOOLEAN /\ spoiled \in BOOLEAN
BufferTypes ==
    /\ transfer \in {"idle", "select", "waits", "asleep", "moves"}
    /\ transferBuffer \in Seq(0..MaxBytes) /\ bytesRemaining \in 0..Len(transferBuffer)
    /\ through \in Seq(0..MaxBytes) /\ sent \in 0..MaxBytes

\* No byte is counted that was not there to be moved.
CountsOK ==
    /\ offered \in 0..MaxBytes /\ ready \in Nat /\ mNumBytes \in Nat
    /\ ready + mNumBytes <= offered

\* A call is under way while bytes remain; the position follows what has been moved.
CallOK ==
    /\ transfer = "idle" <=> bytesRemaining = 0
    /\ transfer = "idle" => transferBuffer = <<>>
    /\ spoiled => transfer = "idle"
    /\ nextBufferPosition = Len(transferBuffer) - bytesRemaining + 1

\* The buffer of a write holds the last bytes given to write().
WriteBuffer ==
    ~ Reading =>
        /\ Len(transferBuffer) <= sent
        /\ \A i \in 1..Len(transferBuffer) : transferBuffer[i] = sent - Len(transferBuffer) + i

\* What has come through, and what is in the buffer of a read, byte by byte.
InOrder ==
    ~ spoiled =>
        /\ \A i \in 1..Len(through) : through[i] = i
        /\ Reading =>
              /\ mNumBytes = Len(through) + Len(transferBuffer) - bytesRemaining
              /\ \A i \in 1..Len(transferBuffer) - bytesRemaining :
                    transferBuffer[i] = Len(through) + i
        /\ ~ Reading => mNumBytes = Len(through) /\ sent = mNumBytes + bytesRemaining

\* A select() that leaves the time-out alone starts with all of it.
TimeOK ==
    ~ mode.selectWritesBack =>
        /\ mTimeOut = TimeOut /\ ~ timedOut
        /\ transfer \in {"waits", "asleep"} => waited + timeLeft >= TimeOut

TransferInv ==
    /\ ModeTypes /\ ConnectionTypes /\ TimeTypes /\ FlagTypes /\ BufferTypes
    /\ CountsOK /\ CallOK /\ WriteBuffer /\ InOrder /\ TimeOK

LEMMA TransferInvInit == SocketInit => TransferInv
<1> SUFFICES ASSUME SocketInit PROVE TransferInv
  OBVIOUS
<1> USE SocketConstants DEF SocketInit
<1>0. ModeTypes /\ ConnectionTypes /\ FlagTypes
  BY DEF ModeTypes, ConnectionTypes, FlagTypes
<1>1. TimeTypes /\ CountsOK
  BY DEF TimeTypes, CountsOK
<1>7. TimeOK
  BY DEF TimeOK
<1>2. transferBuffer \in Seq(0..MaxBytes) /\ Len(transferBuffer) = 0
  BY EmptySeq
<1>3. through \in Seq(0..MaxBytes) /\ Len(through) = 0
  BY EmptySeq
<1>4. BufferTypes
  BY <1>2, <1>3 DEF BufferTypes
<1>5. CallOK
  BY <1>2 DEF CallOK
<1>6. WriteBuffer /\ InOrder
  BY <1>2, <1>3 DEF WriteBuffer, InOrder
<1> QED
  BY <1>0, <1>1, <1>4, <1>5, <1>6, <1>7 DEF TransferInv

\* What goes on around a call only changes what there is to move.
LEMMA SurroundingsStep ==
    ASSUME TransferInv, Surroundings
    PROVE  TransferInv'
<1> USE DEF TransferInv
<1>1. ModeTypes' /\ TimeTypes' /\ FlagTypes' /\ BufferTypes' /\ CallOK' /\ WriteBuffer' /\ InOrder' /\ TimeOK'
  BY DEF Surroundings, bufferVars, historyVars, ModeTypes, TimeTypes, FlagTypes, BufferTypes, CallOK,
         WriteBuffer, InOrder, TimeOK, Reading
<1>2. ConnectionTypes' /\ CountsOK'
  <2> USE SocketConstants DEF ConnectionTypes, CountsOK
  <2>0. mNumBytes' = mNumBytes
    BY DEF Surroundings
  <2>1. CASE Offers
    BY <2>0, <2>1 DEF Offers
  <2>2. CASE PeerEnds("closed")
    BY <2>0, <2>2 DEF PeerEnds
  <2>3. CASE PeerEnds("reset")
    BY <2>0, <2>3 DEF PeerEnds
  <2>4. CASE ClosesDescriptor
    BY <2>0, <2>4 DEF ClosesDescriptor
  <2>5. CASE Reopens
    BY <2>0, <2>5 DEF Reopens
  <2>6. CASE ForgetsID
    BY <2>0, <2>6 DEF ForgetsID
  <2> QED
    BY <2>1, <2>2, <2>3, <2>4, <2>5, <2>6 DEF Surroundings
<1> QED
  BY <1>1, <1>2

\* A call begins with all its bytes to move.
LEMMA CallsTransferStep ==
    ASSUME TransferInv, NEW n \in 1..MaxTransfer, CallsTransfer(n),
           UNCHANGED <<mode, connectionVars>>
    PROVE  TransferInv'
<1> USE SocketConstants DEF TransferInv, CallsTransfer, connectionVars
<1>1. n \in Nat /\ n > 0 /\ sent \in Nat /\ sent <= MaxBytes
  BY DEF BufferTypes
<1>2. /\ transferBuffer' \in [1..n -> 0..MaxBytes]
      /\ \A i \in 1..n : transferBuffer'[i] = IF Reading THEN 0 ELSE sent + i
  <2>1. \A i \in 1..n : (IF Reading THEN 0 ELSE sent + i) \in 0..MaxBytes
    BY <1>1
  <2> QED
    BY <2>1
<1>3. transferBuffer' \in Seq(0..MaxBytes) /\ Len(transferBuffer') = n
  BY <1>1, <1>2
<1>4. sent' \in 0..MaxBytes /\ (~ Reading => sent' = sent + n) /\ Reading' = Reading
  BY <1>1 DEF BufferTypes, Reading
<1>5. ModeTypes' /\ ConnectionTypes' /\ TimeTypes' /\ FlagTypes' /\ TimeOK' /\ CountsOK'
  BY DEF ModeTypes, ConnectionTypes, TimeTypes, FlagTypes, TimeOK, CountsOK
<1>6. BufferTypes' /\ CallOK'
  BY <1>1, <1>3, <1>4 DEF BufferTypes, CallOK
<1>7. WriteBuffer'
  BY <1>1, <1>2, <1>3, <1>4 DEF WriteBuffer
<1>8. InOrder'
  <2>1. through' = through /\ spoiled' = spoiled /\ mNumBytes' = mNumBytes /\ bytesRemaining' = n
    OBVIOUS
  <2>2. Len(transferBuffer) = 0 /\ bytesRemaining = 0
    BY EmptySeq DEF CallOK, BufferTypes
  <2>3. ~ spoiled /\ Len(through) \in Nat /\ mNumBytes \in Nat
    BY DEF BufferTypes, CountsOK
  <2> QED
    BY <1>1, <1>3, <1>4, <2>1, <2>2, <2>3 DEF InOrder
<1> QED
  BY <1>5, <1>6, <1>7, <1>8

\* The steps of the wait leave the bytes alone, unless the call fails.
LEMMA WaitStep ==
    ASSUME TransferInv, UNCHANGED <<mode, connectionVars, mNumBytes, bufferVars, historyVars>>,
           transfer # "idle", transfer' \in {"select", "waits", "asleep", "moves"},
           TimeTypes', FlagTypes', TimeOK'
    PROVE  TransferInv'
<1> USE DEF TransferInv, connectionVars, bufferVars, historyVars
<1>1. ModeTypes' /\ ConnectionTypes' /\ CountsOK' /\ BufferTypes' /\ CallOK'
  BY DEF ModeTypes, ConnectionTypes, CountsOK, BufferTypes, CallOK
<1>2. WriteBuffer' /\ InOrder'
  BY DEF WriteBuffer, InOrder, Reading
<1> QED
  BY <1>1, <1>2

\* When a call ends without a byte more than it had, nothing is lost that spoiled does
\* not tell.
LEMMA EndStep ==
    ASSUME TransferInv, TransferEnds, UNCHANGED <<mode, connectionVars, mNumBytes, through, sent>>,
           transfer # "idle",
           bytesRemaining < Len(transferBuffer) \/ ~ Reading => spoiled',
           TimeTypes', FlagTypes', TimeOK'
    PROVE  TransferInv'
<1> USE DEF TransferInv, connectionVars, TransferEnds
<1>1. ModeTypes' /\ ConnectionTypes' /\ CountsOK'
  BY DEF ModeTypes, ConnectionTypes, CountsOK
<1>2. transferBuffer' \in Seq(0..MaxBytes) /\ Len(transferBuffer') = 0
  BY EmptySeq
<1>3. BufferTypes' /\ CallOK'
  BY <1>2 DEF BufferTypes, CallOK
<1>4. WriteBuffer'
  BY <1>2, SocketConstants DEF WriteBuffer, BufferTypes
<1>5. InOrder'
  <2>1. ~ spoiled /\ Reading' = Reading
    BY DEF CallOK, Reading
  <2>2. Len(transferBuffer) \in Nat /\ bytesRemaining \in 0..Len(transferBuffer) /\ Len(through) \in Nat
    BY DEF BufferTypes
  <2>3. ~ spoiled' => Reading /\ bytesRemaining = Len(transferBuffer)
    BY <2>2
  <2> QED
    BY <1>2, <2>1, <2>2, <2>3 DEF InOrder
<1> QED
  BY <1>1, <1>3, <1>4, <1>5

\* What recv() or send() moves follows what has been moved.
LEMMA MovesStep ==
    ASSUME TransferInv, NEW n \in 1..MaxTransfer, Moves(n),
           UNCHANGED <<mode, mTimeOut, timeLeft, waited, timedOut>>
    PROVE  TransferInv'
<1> DEFINE position == nextBufferPosition
           size == Len(transferBuffer)
           got == size - bytesRemaining
           isDone == n = bytesRemaining
           filled == [i \in DOMAIN transferBuffer |->
                         IF Reading /\ i \in position..position + n - 1
                         THEN mNumBytes + 1 + i - position ELSE transferBuffer[i]]
           portion == IF ~ Reading THEN SubSeq(transferBuffer, position, position + n - 1)
                      ELSE IF isDone THEN filled ELSE <<>>
\* The numbers
<1>1. n \in Nat /\ n > 0 /\ n <= bytesRemaining /\ n <= ready
  BY SocketConstants DEF Moves
<1>2. /\ size \in Nat /\ bytesRemaining \in Nat /\ bytesRemaining <= size
      /\ got \in Nat /\ got = size - bytesRemaining /\ position = got + 1 /\ got + n <= size
  BY <1>1 DEF TransferInv, BufferTypes, CallOK
<1>3. /\ mNumBytes \in Nat /\ ready \in Nat /\ offered \in Nat /\ offered <= MaxBytes
      /\ mNumBytes + n <= MaxBytes
  BY <1>1, SocketConstants DEF TransferInv, CountsOK
<1>4. transfer = "moves" /\ ~ spoiled
  BY DEF Moves, TransferInv, CallOK
\* What changes
<1>5. ready' = ready - n /\ mNumBytes' = mNumBytes + n
  BY DEF Moves
<1>6. through' = through \o portion
  BY DEF Moves
<1>7. isDone => TransferEnds
  BY DEF Moves
<1>8. ~ isDone => /\ transfer' = "select" /\ transferBuffer' = filled
                  /\ nextBufferPosition' = position + n
                  /\ bytesRemaining' = bytesRemaining - n
  BY DEF Moves, Advanced
<1>9. UNCHANGED <<mode, sent, spoiled, mSocketID, descriptor, socketPeer, offered>>
  BY DEF Moves
<1>10. Reading' = Reading /\ ~ spoiled'
  BY <1>4, <1>9 DEF Reading
<1>11. bytesRemaining' = bytesRemaining - n
  BY <1>1, <1>2, <1>7, <1>8 DEF TransferEnds
<1> HIDE DEF position, size, got
\* The buffers
<1>12. /\ transferBuffer \in Seq(0..MaxBytes) /\ DOMAIN transferBuffer = 1..size
       /\ through \in Seq(0..MaxBytes) /\ Len(through) \in Nat
       /\ \A i \in 1..size : transferBuffer[i] \in 0..MaxBytes
  BY LenProperties, ElementOfSeq DEF size, TransferInv, BufferTypes
<1>13. /\ filled \in Seq(0..MaxBytes) /\ Len(filled) = size
       /\ \A i \in 1..size :
             filled[i] = IF Reading /\ i \in position..position + n - 1
                         THEN mNumBytes + 1 + i - position ELSE transferBuffer[i]
  <2>1. ASSUME NEW i \in 1..size
        PROVE  (IF Reading /\ i \in position..position + n - 1
                THEN mNumBytes + 1 + i - position ELSE transferBuffer[i]) \in 0..MaxBytes
    <3>1. transferBuffer[i] \in 0..MaxBytes
      BY <1>12
    <3>2. i \in position..position + n - 1 => mNumBytes + 1 + i - position \in 0..MaxBytes
      BY <1>1, <1>2, <1>3, SocketConstants
    <3> QED
      BY <3>1, <3>2
  <2>2. filled \in [1..size -> 0..MaxBytes]
    BY <1>12, <2>1
  <2> QED
    BY <1>2, <1>12, <2>2
<1> HIDE DEF filled
<1>14. /\ portion \in Seq(0..MaxBytes)
       /\ ~ Reading => /\ Len(portion) = n
                       /\ \A i \in 1..n : portion[i] = transferBuffer[got + i]
       /\ Reading /\ isDone => portion = filled
       /\ Reading /\ ~ isDone => portion = <<>>
  <2>1. CASE Reading
    BY <1>13, <2>1, EmptySeq
  <2>2. CASE ~ Reading
    <3>1. /\ position \in 1..Len(transferBuffer) + 1
          /\ position + n - 1 \in position - 1..Len(transferBuffer)
      BY <1>1, <1>2 DEF size
    <3>2. transferBuffer \in Seq(0..MaxBytes)
      BY <1>12
    <3>3. portion = SubSeq(transferBuffer, position, position + n - 1)
      BY <2>2
    <3> HIDE DEF portion
    <3> DEFINE last == position + n - 1
    <3>4. last \in position - 1..Len(transferBuffer) /\ portion = SubSeq(transferBuffer, position, last)
      BY <3>1, <3>3
    <3>5. last - position + 1 = n /\ \A i \in 1..n : position + i - 1 = got + i
      BY <1>1, <1>2
    <3> HIDE DEF last
    <3>6. /\ portion \in Seq(0..MaxBytes) /\ Len(portion) = last - position + 1
          /\ \A i \in 1..last - position + 1 : portion[i] = transferBuffer[position + i - 1]
      BY <3>1, <3>2, <3>4, PartOf
    <3> QED
      BY <2>2, <3>5, <3>6
  <2> QED
    BY <2>1, <2>2
<1> HIDE DEF portion
<1>15. through' \in Seq(0..MaxBytes) /\ Len(through') = Len(through) + Len(portion)
  BY <1>6, <1>12, <1>14, ConcatProperties
<1>16. isDone => transferBuffer' \in Seq(0..MaxBytes) /\ Len(transferBuffer') = 0
  BY <1>7, EmptySeq DEF TransferEnds
<1>17. ~ isDone => transferBuffer' \in Seq(0..MaxBytes) /\ Len(transferBuffer') = size
  BY <1>8, <1>13
\* The invariant
<1>18. ModeTypes' /\ ConnectionTypes' /\ TimeTypes' /\ FlagTypes'
  BY <1>9 DEF TransferInv, ModeTypes, ConnectionTypes, TimeTypes, FlagTypes
<1>19. TimeOK'
  BY <1>4, <1>7, <1>8, <1>9 DEF TransferInv, TimeOK, TransferEnds
<1>20. CountsOK'
  BY <1>1, <1>3, <1>5, <1>9 DEF TransferInv, CountsOK
<1>21. BufferTypes'
  <2>1. through' \in Seq(0..MaxBytes) /\ sent' \in 0..MaxBytes
    BY <1>9, <1>15 DEF TransferInv, BufferTypes
  <2>2. transfer' \in {"idle", "select", "waits", "asleep", "moves"}
    BY <1>7, <1>8 DEF TransferEnds
  <2>3. bytesRemaining' \in 0..Len(transferBuffer')
    BY <1>1, <1>2, <1>11, <1>16, <1>17
  <2> QED
    BY <1>16, <1>17, <2>1, <2>2, <2>3 DEF BufferTypes
<1>22. CallOK'
  <2>1. CASE isDone
    BY <1>2, <1>7, <1>10, <1>16, <2>1 DEF CallOK, TransferEnds
  <2>2. CASE ~ isDone
    <3>1. transfer' # "idle" /\ nextBufferPosition' = position + n
      BY <1>8, <2>2
    <3>2. bytesRemaining' # 0
      BY <1>1, <1>2, <1>11, <2>2
    <3>3. nextBufferPosition' = Len(transferBuffer') - bytesRemaining' + 1
      BY <1>1, <1>2, <1>11, <1>17, <2>2, <3>1
    <3> QED
      BY <1>10, <3>1, <3>2, <3>3 DEF CallOK
  <2> QED
    BY <2>1, <2>2
<1>23. WriteBuffer'
  <2>1. CASE isDone
    BY <1>9, <1>16, <2>1 DEF TransferInv, WriteBuffer, BufferTypes
  <2>2. CASE ~ isDone
    BY <1>8, <1>9, <1>10, <1>13, <2>2 DEF TransferInv, WriteBuffer, size
  <2> QED
    BY <2>1, <2>2
<1>24. \A i \in 1..Len(through) : through[i] = i
  BY <1>4 DEF TransferInv, InOrder
<1>25. ASSUME Reading PROVE InOrder'
  <2>1. /\ mNumBytes = Len(through) + got
        /\ \A i \in 1..got : transferBuffer[i] = Len(through) + i
    BY <1>2, <1>4, <1>12, <1>25 DEF TransferInv, InOrder, size
  <2>2. \A i \in 1..got + n : filled[i] = Len(through) + i
    <3>1. ASSUME NEW i \in 1..got + n PROVE filled[i] = Len(through) + i
      <4>1. i \in 1..size
        BY <1>1, <1>2
      <4>2. CASE i <= got
        <5>1. ~ (i \in position..position + n - 1) /\ i \in 1..got
          BY <1>1, <1>2, <4>2
        <5> QED
          BY <1>13, <2>1, <4>1, <5>1
      <4>3. CASE ~ (i <= got)
        <5>1. i \in position..position + n - 1
          BY <1>1, <1>2, <4>3
        <5>2. filled[i] = mNumBytes + 1 + i - position
          BY <1>13, <1>25, <4>1, <5>1
        <5> QED
          BY <1>2, <1>12, <2>1, <5>2
      <4> QED
        BY <1>1, <1>2, <4>2, <4>3
    <3> QED
      BY <3>1
  <2>3. CASE isDone
    <3>1. got + n = size /\ portion = filled
      BY <1>1, <1>2, <1>14, <1>25, <2>3
    <3>2. \A i \in 1..Len(portion) : portion[i] = Len(through) + i
      BY <1>13, <2>2, <3>1
    <3>3. \A i \in 1..Len(through') : through'[i] = i
      BY <1>6, <1>12, <1>14, <1>24, <3>2, NumbersFollow
    <3>4. Len(through') = Len(through) + got + n
      <4>1. Len(portion) = got + n
        BY <1>13, <3>1
      <4> QED
        BY <1>1, <1>2, <1>12, <1>15, <4>1
    <3>5. mNumBytes' = Len(through')
      BY <1>1, <1>2, <1>5, <1>12, <2>1, <3>4
    <3>6. Len(transferBuffer') = 0 /\ bytesRemaining' = 0
      BY <1>7, <1>16, <2>3 DEF TransferEnds
    <3>7. Len(through') \in Nat
      BY <1>1, <1>2, <1>12, <3>4
    <3> QED
      BY <1>10, <1>25, <3>3, <3>5, <3>6, <3>7 DEF InOrder
  <2>4. CASE ~ isDone
    <3>1. through' = through
      BY <1>6, <1>12, <1>14, <1>25, <2>4, ConcatEmptySeq
    <3>2. Len(transferBuffer') - bytesRemaining' = got + n
      BY <1>1, <1>2, <1>11, <1>17, <2>4
    <3>3. mNumBytes' = Len(through) + size - bytesRemaining'
      BY <1>1, <1>2, <1>5, <1>11, <1>12, <2>1
    <3>4. mNumBytes' = Len(through') + Len(transferBuffer') - bytesRemaining'
      BY <1>17, <2>4, <3>1, <3>3
    <3>5. \A i \in 1..Len(transferBuffer') - bytesRemaining' : transferBuffer'[i] = Len(through') + i
      BY <1>8, <2>2, <2>4, <3>1, <3>2
    <3> QED
      BY <1>10, <1>24, <1>25, <3>1, <3>4, <3>5 DEF InOrder
  <2> QED
    BY <2>3, <2>4
<1>26. ASSUME ~ Reading PROVE InOrder'
  <2>1. mNumBytes = Len(through) /\ sent = mNumBytes + bytesRemaining
    BY <1>4, <1>26 DEF TransferInv, InOrder
  <2>2. \A i \in 1..size : transferBuffer[i] = sent - size + i
    BY <1>26 DEF TransferInv, WriteBuffer, size
  <2>3. ASSUME NEW i \in 1..n PROVE portion[i] = Len(through) + i
    <3>1. got + i \in 1..size
      BY <1>1, <1>2
    <3>2. portion[i] = sent - size + (got + i)
      BY <1>14, <1>26, <2>2, <3>1
    <3> QED
      BY <1>2, <1>3, <1>12, <2>1, <3>2
  <2>4. Len(portion) = n
    BY <1>14, <1>26
  <2>5. \A i \in 1..Len(through') : through'[i] = i
    BY <1>6, <1>12, <1>14, <1>24, <2>3, <2>4, NumbersFollow
  <2>6. mNumBytes' = Len(through')
    BY <1>5, <1>15, <2>1, <2>4
  <2>7. sent' = mNumBytes' + bytesRemaining'
    BY <1>1, <1>2, <1>3, <1>5, <1>9, <1>11, <2>1
  <2> QED
    BY <1>10, <1>26, <2>5, <2>6, <2>7 DEF InOrder
<1>27. InOrder'
  BY <1>25, <1>26
<1> QED
  BY <1>18, <1>19, <1>20, <1>21, <1>22, <1>23, <1>27 DEF TransferInv

\* At the end of what the peer has sent, a read that may return less returns what it has.
LEMMA EndOfFileStep ==
    ASSUME TransferInv, TransferEnds, Reading, transfer # "idle",
           through' = through \o SubSeq(transferBuffer, 1, Len(transferBuffer) - bytesRemaining),
           UNCHANGED <<mode, connectionVars, mNumBytes, sent, spoiled>>,
           TimeTypes', FlagTypes', TimeOK'
    PROVE  TransferInv'
<1> DEFINE got == Len(transferBuffer) - bytesRemaining
           part == SubSeq(transferBuffer, 1, got)
<1>1. /\ ~ spoiled /\ Reading' = Reading /\ mNumBytes' = mNumBytes /\ sent' = sent
      /\ spoiled' = spoiled /\ bytesRemaining' = 0 /\ through' = through \o part
  BY DEF TransferInv, CallOK, Reading, TransferEnds
<1>2. /\ got \in Nat /\ got <= Len(transferBuffer) /\ Len(transferBuffer) \in Nat
      /\ through \in Seq(0..MaxBytes) /\ transferBuffer \in Seq(0..MaxBytes)
  BY DEF TransferInv, BufferTypes
<1>3. /\ \A i \in 1..Len(through) : through[i] = i
      /\ mNumBytes = Len(through) + got
      /\ \A i \in 1..got : transferBuffer[i] = Len(through) + i
  <2>1. mNumBytes = Len(through) + Len(transferBuffer) - bytesRemaining
    BY <1>1 DEF TransferInv, InOrder
  <2>2. Len(through) \in Nat /\ bytesRemaining \in Nat
    BY <1>2 DEF TransferInv, BufferTypes
  <2>3. mNumBytes = Len(through) + got
    BY <1>2, <2>1, <2>2
  <2> QED
    BY <1>1, <2>3 DEF TransferInv, InOrder
<1>4. part \in Seq(0..MaxBytes) /\ Len(part) = got /\ \A i \in 1..got : part[i] = transferBuffer[i]
  <2>1. got \in 0..Len(transferBuffer)
    BY <1>2
  <2> HIDE DEF got
  <2> QED
    BY <1>2, <2>1, FirstPartOf
<1> HIDE DEF part, got
<1>5. /\ through' \in Seq(0..MaxBytes) /\ Len(through') = Len(through) + got
      /\ \A i \in 1..Len(through') : through'[i] = i
  <2>1. \A i \in 1..Len(part) : part[i] = Len(through) + i
    BY <1>3, <1>4
  <2>2. \A i \in 1..Len(through) : through[i] = i
    BY <1>3
  <2>3. /\ through \o part \in Seq(0..MaxBytes)
        /\ Len(through \o part) = Len(through) + Len(part)
        /\ \A i \in 1..Len(through \o part) : (through \o part)[i] = i
    BY <1>2, <1>4, <2>1, <2>2, NumbersFollow
  <2> QED
    BY <1>1, <1>4, <2>3
<1>6. transferBuffer' \in Seq(0..MaxBytes) /\ Len(transferBuffer') = 0
  BY EmptySeq DEF TransferEnds
<1>7. ModeTypes' /\ ConnectionTypes' /\ CountsOK'
  BY DEF TransferInv, ModeTypes, ConnectionTypes, CountsOK, connectionVars
<1>8. BufferTypes' /\ CallOK'
  BY <1>1, <1>5, <1>6 DEF TransferInv, BufferTypes, CallOK, TransferEnds
<1>9. WriteBuffer'
  BY <1>1 DEF WriteBuffer
<1>10. InOrder'
  <2>1. mNumBytes' = Len(through') /\ mNumBytes' \in Nat
    BY <1>1, <1>3, <1>5 DEF TransferInv, CountsOK
  <2>2. bytesRemaining' = 0
    BY <1>1
  <2>4. mNumBytes' = Len(through') + Len(transferBuffer') - bytesRemaining'
    BY ONLY <1>6, <2>1, <2>2
  <2>3. \A i \in 1..Len(transferBuffer') - bytesRemaining' :
           transferBuffer'[i] = Len(through') + i
    BY <1>1, <1>6
  <2> QED
    BY <1>1, <1>5, <2>3, <2>4 DEF InOrder
<1> QED
  BY <1>7, <1>8, <1>9, <1>10 DEF TransferInv

\* Each step of the rest of the loop is one that waits or one that ends the call.
LEMMA LoopStep ==
    ASSUME TransferInv,
           \/ /\ Selects \/ FindsReady \/ IsInterrupted \/ TimePasses \/ SelectTimesOut
              /\ UNCHANGED <<mode, connectionVars>>
           \/ /\ MovesNothing \/ MovesAstray
              /\ UNCHANGED <<mode, mTimeOut, timeLeft, waited, timedOut>>
    PROVE  TransferInv'
<1>1. /\ mTimeOut \in 0..TimeOut /\ timeLeft \in 0..TimeOut /\ waited \in 0..TimeOut
      /\ TimeOut \in Nat
  BY SocketConstants DEF TransferInv, TimeTypes
<1>2. timedOut \in BOOLEAN /\ spoiled \in BOOLEAN
  BY DEF TransferInv, FlagTypes
<1>3. TimeOK
  BY DEF TransferInv
<1>4. CASE Selects /\ UNCHANGED <<mode, connectionVars>>
  <2>1. /\ transfer = "select" /\ timeLeft' = mTimeOut
        /\ UNCHANGED <<mode, connectionVars, mNumBytes, mTimeOut, waited, timedOut>>
    BY <1>4 DEF Selects, TransferFails
  <2>2. TimeTypes'
    BY <1>1, <2>1 DEF TimeTypes
  <2>3. CASE mSocketID = "set" /\ descriptor = "closed"
    <3>1. TransferFails
      BY <1>4, <2>3 DEF Selects
    <3>2. /\ spoiled' \in BOOLEAN /\ timedOut' \in BOOLEAN
          /\ bytesRemaining < Len(transferBuffer) \/ ~ Reading => spoiled'
      BY <1>2, <2>1, <3>1 DEF TransferFails
    <3>3. TimeOK'
      BY <1>3, <2>1, <3>1 DEF TimeOK, TransferFails, TransferEnds
    <3> QED
      BY <2>1, <2>2, <3>1, <3>2, <3>3, EndStep DEF TransferFails, FlagTypes
  <2>4. CASE ~ (mSocketID = "set" /\ descriptor = "closed")
    <3>1. transfer' \in {"waits", "asleep"} /\ UNCHANGED <<bufferVars, historyVars>>
      BY <1>4, <2>4 DEF Selects
    <3>2. FlagTypes'
      BY <1>2, <2>1, <3>1 DEF FlagTypes, historyVars
    <3>3. TimeOK'
      BY <1>1, <1>3, <2>1, <3>1 DEF TimeOK
    <3> QED
      BY <2>1, <2>2, <3>1, <3>2, <3>3, WaitStep
  <2> QED
    BY <2>3, <2>4
<1>5. CASE (FindsReady \/ IsInterrupted) /\ UNCHANGED <<mode, connectionVars>>
  <2>1. /\ transfer \in {"waits", "asleep"} /\ transfer' \in {"select", "moves"} /\ SelectReturns
        /\ UNCHANGED <<mode, connectionVars, mNumBytes, bufferVars, historyVars, timedOut>>
    BY <1>5 DEF FindsReady, IsInterrupted, IsReady
  <2>2. TimeTypes'
    BY <1>1, <2>1 DEF TimeTypes, SelectReturns
  <2>3. FlagTypes'
    BY <1>2, <2>1 DEF FlagTypes, historyVars
  <2>4. TimeOK'
    BY <1>3, <2>1 DEF TimeOK, SelectReturns
  <2> QED
    BY <2>1, <2>2, <2>3, <2>4, WaitStep
<1>6. CASE TimePasses /\ UNCHANGED <<mode, connectionVars>>
  <2>1. /\ transfer \in {"waits", "asleep"} /\ timeLeft > 0 /\ timeLeft' = timeLeft - 1
        /\ waited' = IF waited < TimeOut THEN waited + 1 ELSE waited
        /\ UNCHANGED <<mode, connectionVars, mTimeOut, mNumBytes, transfer, bufferVars,
                       historyVars, timedOut>>
    BY <1>6 DEF TimePasses
  <2>2. TimeTypes'
    BY <1>1, <2>1 DEF TimeTypes
  <2>3. FlagTypes'
    BY <1>2, <2>1 DEF FlagTypes, historyVars
  <2>4. TimeOK'
    <3>1. waited + timeLeft >= TimeOut => waited' + timeLeft' >= TimeOut
      BY <1>1, <2>1
    <3> QED
      BY <1>3, <2>1, <3>1 DEF TimeOK
  <2> QED
    BY <2>1, <2>2, <2>3, <2>4, WaitStep
<1>7. CASE SelectTimesOut /\ UNCHANGED <<mode, connectionVars>>
  <2>1. /\ transfer \in {"waits", "asleep"} /\ timeLeft = 0 /\ TransferFails /\ SelectReturns
        /\ timedOut' = (timedOut \/ waited < TimeOut)
        /\ UNCHANGED <<mode, connectionVars>>
    BY <1>7 DEF SelectTimesOut
  <2>2. TimeTypes'
    BY <1>1, <2>1 DEF TimeTypes, SelectReturns
  <2>3. /\ spoiled' \in BOOLEAN /\ timedOut' \in BOOLEAN
        /\ bytesRemaining < Len(transferBuffer) \/ ~ Reading => spoiled'
    BY <1>2, <2>1 DEF TransferFails
  <2>4. TimeOK'
    <3>1. ASSUME ~ mode.selectWritesBack PROVE mTimeOut' = TimeOut /\ ~ timedOut'
      <4>1. mTimeOut = TimeOut /\ ~ timedOut /\ waited + timeLeft >= TimeOut
        BY <1>3, <2>1, <3>1 DEF TimeOK
      <4>2. ~ (waited < TimeOut)
        BY <1>1, <2>1, <4>1
      <4> QED
        BY <2>1, <3>1, <4>1, <4>2 DEF SelectReturns
    <3>2. transfer' = "idle" /\ mode' = mode
      BY <2>1 DEF TransferFails, TransferEnds
    <3> QED
      BY <3>1, <3>2 DEF TimeOK
  <2> QED
    BY <2>1, <2>2, <2>3, <2>4, EndStep DEF TransferFails, FlagTypes
<1>8. CASE (MovesNothing \/ MovesAstray) /\ UNCHANGED <<mode, mTimeOut, timeLeft, waited, timedOut>>
  <2>1. /\ transfer = "moves" /\ TransferEnds
        /\ UNCHANGED <<mode, connectionVars, mNumBytes, sent, mTimeOut, timeLeft, waited, timedOut>>
    BY <1>8 DEF MovesNothing, MovesAstray, TransferFails
  <2>2. TimeTypes' /\ timedOut' \in BOOLEAN
    BY <1>1, <1>2, <2>1 DEF TimeTypes
  <2>3. TimeOK'
    BY <1>3, <2>1 DEF TimeOK, TransferEnds
  <2>4. CASE UNCHANGED through /\ (spoiled' \in BOOLEAN)
             /\ (bytesRemaining < Len(transferBuffer) \/ ~ Reading => spoiled')
    BY <2>1, <2>2, <2>3, <2>4, EndStep DEF FlagTypes
  <2>5. CASE MovesNothing /\ Reading /\ socketPeer = "closed" /\ ~ mode.mRequireReadAll
    <3>1. /\ through' = through \o SubSeq(transferBuffer, 1, Len(transferBuffer) - bytesRemaining)
          /\ spoiled' = spoiled
      BY <2>5 DEF MovesNothing
    <3>2. FlagTypes'
      BY <1>2, <2>2, <3>1 DEF FlagTypes
    <3>3. Reading /\ transfer # "idle"
      BY <2>1, <2>5
    <3> QED
      BY <2>1, <2>2, <2>3, <3>1, <3>2, <3>3, EndOfFileStep
  <2>6. CASE MovesNothing /\ ~ (Reading /\ socketPeer = "closed" /\ ~ mode.mRequireReadAll)
    BY <2>4, <2>6 DEF MovesNothing, TransferFails
  <2>7. CASE MovesAstray
    BY <2>4, <2>7 DEF MovesAstray
  <2> QED
    BY <1>8, <2>5, <2>6, <2>7
<1> QED
  BY <1>4, <1>5, <1>6, <1>7, <1>8

LEMMA TransferInvStep == TransferInv /\ [SocketNext]_socketVars => TransferInv'
<1> SUFFICES ASSUME TransferInv, [SocketNext]_socketVars PROVE TransferInv'
  OBVIOUS
<1>1. CASE Surroundings
  BY <1>1, SurroundingsStep
<1>2. ASSUME NEW n \in 1..MaxTransfer, CallsTransfer(n), UNCHANGED <<mode, connectionVars>>
      PROVE  TransferInv'
  BY <1>2, CallsTransferStep
<1>3. ASSUME NEW n \in 1..MaxTransfer, Moves(n),
             UNCHANGED <<mode, mTimeOut, timeLeft, waited, timedOut>>
      PROVE  TransferInv'
  BY <1>3, MovesStep
<1>4. CASE UNCHANGED socketVars
  BY <1>4 DEF socketVars, TransferInv, ModeTypes, ConnectionTypes, TimeTypes, FlagTypes,
              BufferTypes, CountsOK, CallOK, WriteBuffer, InOrder, TimeOK, Reading
<1> QED
  BY <1>1, <1>2, <1>3, <1>4, LoopStep DEF SocketNext

\* The invariant gives the types.
LEMMA TransferInvTypes == TransferInv => SocketTypeOK
<1> SUFFICES ASSUME TransferInv PROVE SocketTypeOK
  OBVIOUS
<1>1. ready \in 0..offered /\ mNumBytes \in 0..MaxBytes /\ offered \in 0..MaxBytes
  BY SocketConstants DEF TransferInv, CountsOK
<1>2. nextBufferPosition \in 1..Len(transferBuffer) + 1
  BY DEF TransferInv, BufferTypes, CallOK
<1> QED
  BY <1>1, <1>2 DEF TransferInv, ConnectionTypes, TimeTypes, FlagTypes, BufferTypes, SocketTypeOK

\* The invariant says byte by byte what BytesComeThrough says of the whole.
LEMMA TransferInvWhole == TransferInv => TransfersAreWhole
<1> SUFFICES ASSUME TransferInv PROVE TransfersAreWhole
  OBVIOUS
<1> DEFINE got == Len(transferBuffer) - bytesRemaining
           underWay == IF Reading /\ transfer # "idle" THEN SubSeq(transferBuffer, 1, got) ELSE <<>>
           whole == [i \in 1..mNumBytes |-> i]
<1>1. ASSUME ~ spoiled PROVE through \o underWay = whole
  <2>1. /\ through \in Seq(0..MaxBytes) /\ transferBuffer \in Seq(0..MaxBytes)
        /\ Len(through) \in Nat /\ Len(transferBuffer) \in Nat /\ bytesRemaining \in Nat
        /\ got \in Nat /\ got <= Len(transferBuffer) /\ mNumBytes \in Nat
    BY DEF TransferInv, BufferTypes, CountsOK
  <2>2. \A i \in 1..Len(through) : through[i] = i
    BY <1>1 DEF TransferInv, InOrder
  <2>3. /\ underWay \in Seq(0..MaxBytes) /\ mNumBytes = Len(through) + Len(underWay)
        /\ \A i \in 1..Len(underWay) : underWay[i] = Len(through) + i
    <3>1. CASE Reading /\ transfer # "idle"
      <4>1. got \in 0..Len(transferBuffer) /\ underWay = SubSeq(transferBuffer, 1, got)
        BY <2>1, <3>1
      <4>2. /\ \A i \in 1..got : transferBuffer[i] = Len(through) + i
            /\ mNumBytes = Len(through) + Len(transferBuffer) - bytesRemaining
        BY <1>1, <3>1 DEF TransferInv, InOrder
      <4>3. mNumBytes = Len(through) + got
        BY <2>1, <4>2
      <4> HIDE DEF got, underWay
      <4>4. /\ underWay \in Seq(0..MaxBytes) /\ Len(underWay) = got
            /\ \A i \in 1..got : underWay[i] = transferBuffer[i]
        BY <2>1, <4>1, FirstPartOf
      <4> QED
        BY <4>2, <4>3, <4>4
    <3>2. CASE ~ (Reading /\ transfer # "idle")
      <4>1. underWay \in Seq(0..MaxBytes) /\ Len(underWay) = 0
        BY <3>2, EmptySeq
      <4>2. Reading => Len(transferBuffer) = 0 /\ bytesRemaining = 0
        BY <3>2, EmptySeq DEF TransferInv, CallOK
      <4>3. mNumBytes = Len(through)
        BY <1>1, <2>1, <4>2 DEF TransferInv, InOrder
      <4> QED
        BY <2>1, <4>1, <4>3
    <3> QED
      BY <3>1, <3>2
  <2> HIDE DEF underWay
  <2>4. /\ through \o underWay \in Seq(0..MaxBytes) /\ Len(through \o underWay) = mNumBytes
        /\ \A i \in 1..mNumBytes : (through \o underWay)[i] = i
    BY <2>1, <2>2, <2>3, NumbersFollow
  <2>5. mNumBytes <= MaxBytes
    BY SocketConstants DEF TransferInv, CountsOK
  <2>6. whole \in [1..mNumBytes -> 0..MaxBytes]
    BY <2>1, <2>5, SocketConstants
  <2>7. /\ whole \in Seq(0..MaxBytes) /\ Len(whole) = mNumBytes
        /\ \A i \in 1..mNumBytes : whole[i] = i
    BY <2>1, <2>6
  <2> HIDE DEF whole
  <2> QED
    BY <2>4, <2>7, SeqEqual
<1>2. ~ spoiled /\ ~ Reading /\ transfer = "idle" => mNumBytes = sent
  BY DEF TransferInv, InOrder, CallOK, CountsOK
<1>3. BytesComeThrough
  BY <1>1, <1>2 DEF BytesComeThrough
<1>4. TimeOutsAreFull
  BY DEF TransferInv, TimeOK, TimeOutsAreFull
<1> QED
  BY <1>3, <1>4 DEF TransfersAreWhole

\* The state of a socket has its types, whatever is transferred and however a transfer ends.
THEOREM SocketTyped == SocketSpec => []SocketTypeOK
<1>1. SocketSpec => []TransferInv
  BY TransferInvInit, TransferInvStep, PTL DEF SocketSpec
<1> QED
  BY <1>1, TransferInvTypes, PTL

\* However the system divides, interrupts and ends the transfers, the bytes that
\* read() returns and send() is given are those sent, in order and each once, and no
\* call that may wait longer times out early unless select() writes the time-out back.
THEOREM TransfersWhole == SocketSpec => []TransfersAreWhole
<1>1. SocketSpec => []TransferInv
  BY TransferInvInit, TransferInvStep, PTL DEF SocketSpec
<1> QED
  BY <1>1, TransferInvWhole, PTL

-----------------------------------------------------------------------------
(* The histories of the network monitor *)

\* Element by element: the first entry, then the newest.
LEMMA FirstAndNewestIs ==
    ASSUME NEW S, NEW all \in Seq(S), NEW list, NEW max \in Nat, max > 1, Len(all) >= max
    PROVE  FirstAndNewest(list, all, max) <=>
               /\ list \in Seq(S) /\ Len(list) = max /\ list[1] = all[1]
               /\ \A i \in 2..max : list[i] = all[Len(all) - max + i]
<1> DEFINE size == Len(all)
           newest == SubSeq(all, size - max + 2, size)
           kept == <<all[1]>> \o newest
<1>1. size \in Nat /\ size >= max /\ max >= 2 /\ max \in Nat
  BY LenProperties
<1> HIDE DEF size
<1>2. <<all[1]>> \in Seq(S) /\ Len(<<all[1]>>) = 1 /\ <<all[1]>>[1] = all[1]
  BY <1>1, ElementOfSeq DEF size
<1>3. newest \in Seq(S) /\ Len(newest) = max - 1 /\ \A i \in 1..max - 1 : newest[i] = all[size - max + 1 + i]
  <2> DEFINE first == size - max + 2
  <2>1. first \in 1..Len(all) + 1 /\ size \in first - 1..Len(all)
    BY <1>1 DEF size
  <2>2. size - first + 1 = max - 1 /\ \A i \in 1..max - 1 : first + i - 1 = size - max + 1 + i
    BY <1>1
  <2> HIDE DEF first
  <2>3. /\ SubSeq(all, first, size) \in Seq(S) /\ Len(SubSeq(all, first, size)) = size - first + 1
        /\ \A i \in 1..size - first + 1 : SubSeq(all, first, size)[i] = all[first + i - 1]
    BY <2>1, PartOf
  <2>4. newest = SubSeq(all, first, size)
    BY DEF first
  <2> HIDE DEF newest
  <2> QED
    BY <2>2, <2>3, <2>4
<1> HIDE DEF newest
<1>4. /\ kept \in Seq(S) /\ Len(kept) = max
      /\ kept[1] = all[1] /\ \A i \in 2..max : kept[i] = all[size - max + i]
  <2>1. /\ kept \in Seq(S) /\ Len(kept) = 1 + (max - 1)
        /\ \A i \in 1..1 + (max - 1) : kept[i] = IF i <= 1 THEN <<all[1]>>[i] ELSE newest[i - 1]
    BY <1>2, <1>3, ConcatProperties
  <2>2. 1 + (max - 1) = max /\ 1 \in 1..max
    BY <1>1
  <2>3. kept[1] = all[1]
    BY <1>2, <2>1, <2>2
  <2>4. ASSUME NEW i \in 2..max PROVE kept[i] = all[size - max + i]
    <3>1. i - 1 \in 1..max - 1 /\ ~ (i <= 1) /\ i \in 1..max /\ size - max + 1 + (i - 1) = size - max + i
      BY <1>1
    <3>2. kept[i] = newest[i - 1]
      BY <2>1, <2>2, <3>1
    <3> QED
      BY <1>3, <3>1, <3>2
  <2> QED
    BY <2>1, <2>2, <2>3, <2>4
<1>5. FirstAndNewest(list, all, max) <=> list = kept
  <2>1. CASE size = max
    <3>1. FirstAndNewest(list, all, max) <=> list = all
      BY <2>1 DEF FirstAndNewest, size
    <3>2. \A i \in 1..max : kept[i] = all[i]
      BY <1>1, <1>4, <2>1
    <3>3. kept = all
      BY <1>4, <2>1, <3>2, SeqEqual DEF size
    <3> QED
      BY <3>1, <3>3
  <2>2. CASE size > max
    BY <1>1, <2>2 DEF FirstAndNewest, size, newest
  <2> QED
    BY <1>1, <2>1, <2>2
<1> HIDE DEF kept
<1>6. ASSUME list \in Seq(S), Len(list) = max, list[1] = all[1],
             \A i \in 2..max : list[i] = all[size - max + i]
      PROVE  list = kept
  <2>1. \A i \in 1..max : list[i] = kept[i]
    BY <1>1, <1>4, <1>6
  <2> QED
    BY <1>4, <1>6, <2>1, SeqEqual
<1> QED
  BY <1>4, <1>5, <1>6 DEF size

\* As long as all fit, the history is all there has been.
LEMMA ShortHistoryIs ==
    ASSUME NEW S, NEW all \in Seq(S), NEW list, NEW max \in Nat, Len(all) <= max
    PROVE  FirstAndNewest(list, all, max) <=> list = all
  BY DEF FirstAndNewest

\* Without its second element.
LEMMA RemoveSecond ==
    ASSUME NEW S, NEW s \in Seq(S), Len(s) >= 2
    PROVE  /\ RemoveAt(s, 2) \in Seq(S) /\ Len(RemoveAt(s, 2)) = Len(s) - 1
           /\ RemoveAt(s, 2)[1] = s[1]
           /\ \A i \in 2..Len(s) - 1 : RemoveAt(s, 2)[i] = s[i + 1]
<1> DEFINE size == Len(s)
           rest == SubSeq(s, 3, size)
           one == SubSeq(s, 1, 1)
<1>1. size \in Nat /\ size >= 2
  BY LenProperties
<1>2. one \in Seq(S) /\ Len(one) = 1 /\ one[1] = s[1]
  <2>1. 1 \in 0..Len(s) /\ 1 \in 1..1
    BY <1>1
  <2> QED
    BY <2>1, FirstPartOf
<1>3. rest \in Seq(S) /\ Len(rest) = size - 2 /\ \A i \in 1..size - 2 : rest[i] = s[i + 2]
  <2>1. 3 \in 1..Len(s) + 1 /\ size \in 3 - 1..Len(s)
    BY <1>1
  <2>2. size - 3 + 1 = size - 2 /\ \A i \in 1..size - 2 : 3 + i - 1 = i + 2
    BY <1>1
  <2> HIDE DEF size
  <2>3. /\ SubSeq(s, 3, size) \in Seq(S) /\ Len(SubSeq(s, 3, size)) = size - 3 + 1
        /\ \A i \in 1..size - 3 + 1 : SubSeq(s, 3, size)[i] = s[3 + i - 1]
    BY ONLY <2>1, PartOf
  <2> QED
    BY <2>2, <2>3
<1>4. RemoveAt(s, 2) = one \o rest
  BY DEF RemoveAt
<1> HIDE DEF one, rest, size
<1>5. /\ one \o rest \in Seq(S) /\ Len(one \o rest) = 1 + (size - 2)
      /\ \A i \in 1..1 + (size - 2) : (one \o rest)[i] = IF i <= 1 THEN one[i] ELSE rest[i - 1]
  <2>1. /\ one \o rest \in Seq(S) /\ Len(one \o rest) = Len(one) + Len(rest)
        /\ \A i \in 1..Len(one) + Len(rest) :
              (one \o rest)[i] = IF i <= Len(one) THEN one[i] ELSE rest[i - Len(one)]
    BY <1>2, <1>3, ConcatProperties
  <2>2. Len(one) = 1 /\ Len(rest) = size - 2
    BY <1>2, <1>3
  <2> QED
    BY ONLY <2>1, <2>2
<1>6. 1 + (size - 2) = size - 1 /\ 1 \in 1..size - 1
  BY <1>1
<1>7. (one \o rest)[1] = s[1]
  BY <1>2, <1>5, <1>6
<1>8. ASSUME NEW i \in 2..size - 1 PROVE (one \o rest)[i] = s[i + 1]
  <2>1. i \in 1..size - 1 /\ ~ (i <= 1) /\ i - 1 \in 1..size - 2 /\ i - 1 + 2 = i + 1
    BY <1>1
  <2>2. (one \o rest)[i] = rest[i - 1]
    BY <1>5, <1>6, <2>1
  <2> QED
    BY <1>3, <2>1, <2>2
<1> QED
  BY <1>4, <1>5, <1>6, <1>7, <1>8 DEF size

\* An addition to a history that has the first and the newest entries keeps them so.
LEMMA RetainedKeeps ==
    ASSUME NEW S, NEW all \in Seq(S), NEW list \in Seq(S), NEW max \in Nat, max > 1, NEW x \in S,
           FirstAndNewest(list, all, max)
    PROVE  /\ Retained(list, max, x) \in Seq(S) /\ Append(all, x) \in Seq(S)
           /\ FirstAndNewest(Retained(list, max, x), Append(all, x), max)
<1> DEFINE size == Len(all)
           more == Append(all, x)
           kept == Retained(list, max, x)
<1>1. size \in Nat /\ Len(list) \in Nat /\ max \in Nat /\ max >= 2
  BY LenProperties
<1>2. /\ more \in Seq(S) /\ Len(more) = size + 1 /\ more[size + 1] = x
      /\ \A i \in 1..size : more[i] = all[i]
  BY AppendProperties
<1>3. CASE size < max
  <2>1. list = all
    BY <1>1, <1>3, ShortHistoryIs
  <2>2. kept = more
    BY <1>1, <1>3, <2>1 DEF Retained
  <2>3. Len(more) <= max
    BY <1>1, <1>2, <1>3
  <2> QED
    BY <1>2, <2>2, <2>3, ShortHistoryIs
<1>4. CASE size >= max
  <2>1. /\ Len(list) = max /\ list[1] = all[1]
        /\ \A i \in 2..max : list[i] = all[size - max + i]
    <3>1. FirstAndNewest(list, all, max) <=>
             /\ list \in Seq(S) /\ Len(list) = max /\ list[1] = all[1]
             /\ \A i \in 2..max : list[i] = all[Len(all) - max + i]
      BY <1>1, <1>4, FirstAndNewestIs
    <3> QED
      BY <3>1
  <2> DEFINE rest == RemoveAt(list, 2)
  <2>2. /\ rest \in Seq(S) /\ Len(rest) = max - 1 /\ rest[1] = list[1]
        /\ \A i \in 2..max - 1 : rest[i] = list[i + 1]
    BY <1>1, <2>1, RemoveSecond
  <2>3. kept = Append(rest, x)
    BY <1>1, <2>1 DEF Retained
  <2> HIDE DEF rest, kept, more, size
  <2>4. /\ kept \in Seq(S) /\ Len(kept) = max - 1 + 1 /\ kept[max - 1 + 1] = x
        /\ \A i \in 1..max - 1 : kept[i] = rest[i]
    BY <2>2, <2>3, AppendProperties
  <2>5. max - 1 + 1 = max /\ 1 \in 1..max - 1 /\ 1 \in 1..size
    BY <1>1, <1>4
  <2>6. kept[1] = more[1]
    BY <1>2, <2>1, <2>2, <2>4, <2>5
  <2>7. ASSUME NEW i \in 2..max PROVE kept[i] = more[Len(more) - max + i]
    <3>1. Len(more) - max + i = size + 1 - max + i /\ i \in Nat
      BY <1>1, <1>2
    <3>2. CASE i = max
      <4>1. size + 1 - max + i = size + 1
        BY <1>1, <3>2
      <4> QED
        BY <1>2, <2>4, <2>5, <3>1, <3>2, <4>1
    <3>3. CASE i # max
      <4>1. /\ i \in 2..max - 1 /\ i \in 1..max - 1 /\ i + 1 \in 2..max
            /\ size - max + (i + 1) = size + 1 - max + i /\ size + 1 - max + i \in 1..size
        BY <1>1, <1>4, <3>3
      <4>2. kept[i] = list[i + 1]
        BY <2>2, <2>4, <4>1
      <4>3. list[i + 1] = all[size + 1 - max + i]
        BY <2>1, <4>1
      <4> QED
        BY <1>2, <3>1, <4>1, <4>2, <4>3
    <3> QED
      BY <3>2, <3>3
  <2>8. Len(more) >= max
    BY <1>1, <1>2, <1>4
  <2>9. FirstAndNewest(kept, more, max)
    <3>1. kept \in Seq(S) /\ Len(kept) = max
      BY <2>4, <2>5
    <3>2. more \in Seq(S) /\ max \in Nat /\ max > 1
      BY <1>2
    <3>3. \A i \in 2..max : kept[i] = more[Len(more) - max + i]
      BY <2>7
    <3>4. FirstAndNewest(kept, more, max) <=>
             /\ kept \in Seq(S) /\ Len(kept) = max /\ kept[1] = more[1]
             /\ \A i \in 2..max : kept[i] = more[Len(more) - max + i]
      BY ONLY <2>8, <3>2, FirstAndNewestIs
    <3> QED
      BY ONLY <2>6, <3>1, <3>3, <3>4
  <2> QED
    BY <1>2, <2>4, <2>9 DEF kept, more
<1> QED
  BY <1>1, <1>3, <1>4

Accesses == [what : {"none", "add", "get"}, session : SessionNumbers, direction : Directions]

MonitorTypes ==
    /\ monitor \in {"unmade", "made", "destroyed"} /\ sessionsOpened \in 0..MaxMonitored
    /\ accessing \in [Monitors -> Accesses]
SessionTypes ==
    clientSessions \in [Clients -> Seq(SessionNumbers)] /\ opened \in [Clients -> Seq(SessionNumbers)]
LogTypes ==
    /\ logs \in [FollowedSessions -> [Directions -> Seq(1..MaxTransactions)]]
    /\ logged \in [FollowedSessions -> [Directions -> 0..MaxTransactions]]

\* The numbers of the first n transactions.
Numbers(n) == [i \in 1..n |-> i]

SessionsKept == \A c \in Clients : FirstAndNewest(clientSessions[c], opened[c], MAX_SESSIONS_HISTORY)
LogsKept ==
    \A s \in FollowedSessions, d \in Directions :
        FirstAndNewest(logs[s][d], Numbers(logged[s][d]), MAX_LOGS_HISTORY)

\* What is accessed is followed, what is added has its place, and no two threads hold
\* the same mutex.
AccessOK ==
    /\ \A t \in Monitors :
          /\ accessing[t].what # "none" => accessing[t].session \in FollowedSessions
          /\ accessing[t].what = "add" =>
                logged[accessing[t].session][accessing[t].direction] < MaxTransactions
    /\ \A t, u \in Monitors : t # u => ~ Excludes(accessing[t], accessing[u])

MonitorInv == MonitorTypes /\ SessionTypes /\ LogTypes /\ SessionsKept /\ LogsKept /\ AccessOK

LEMMA NumbersAre ==
    ASSUME NEW n \in Nat, NEW max \in Nat, n <= max
    PROVE  /\ Numbers(n) \in Seq(1..max) /\ Len(Numbers(n)) = n
           /\ \A i \in 1..n : Numbers(n)[i] = i
<1>1. Numbers(n) \in [1..n -> 1..max]
  BY DEF Numbers
<1> QED
  BY <1>1 DEF Numbers

\* One more transaction.
LEMMA NumbersAppend ==
    ASSUME NEW n \in Nat, NEW max \in Nat, n + 1 <= max
    PROVE  Append(Numbers(n), n + 1) = Numbers(n + 1)
<1>1. n + 1 \in 1..max /\ n + 1 \in Nat /\ n <= max
  OBVIOUS
<1>2. /\ Numbers(n) \in Seq(1..max) /\ Len(Numbers(n)) = n
      /\ \A i \in 1..n : Numbers(n)[i] = i
  BY <1>1, NumbersAre
<1>3. /\ Numbers(n + 1) \in Seq(1..max) /\ Len(Numbers(n + 1)) = n + 1
      /\ \A i \in 1..n + 1 : Numbers(n + 1)[i] = i
  BY <1>1, NumbersAre
<1> DEFINE more == Append(Numbers(n), n + 1)
<1>4. /\ more \in Seq(1..max) /\ Len(more) = n + 1 /\ more[n + 1] = n + 1
      /\ \A i \in 1..n : more[i] = Numbers(n)[i]
  BY <1>1, <1>2, AppendProperties
<1> HIDE DEF more
<1>5. \A i \in 1..n + 1 : more[i] = Numbers(n + 1)[i]
  <2>1. ASSUME NEW i \in 1..n + 1 PROVE more[i] = i
    BY <1>2, <1>4
  <2> QED
    BY <1>3, <2>1
<1>6. more = Numbers(n + 1)
  BY <1>3, <1>4, <1>5, SeqEqual
<1> QED
  BY <1>6 DEF more

\* An empty history has all there has been.
LEMMA EmptyHistoryKept ==
    ASSUME NEW max \in Nat
    PROVE  /\ FirstAndNewest(<<>>, <<>>, max) /\ Numbers(0) = <<>>
<1>1. FirstAndNewest(<<>>, <<>>, max)
  BY EmptySeq DEF FirstAndNewest
<1>2. Numbers(0) \in Seq(1..0) /\ Len(Numbers(0)) = 0
  BY NumbersAre
<1>3. Numbers(0) = <<>>
  BY <1>2, EmptySeq
<1> QED
  BY <1>1, <1>3

LEMMA MonitorInvInit == MonitorInit => MonitorInv
<1> SUFFICES ASSUME MonitorInit PROVE MonitorInv
  OBVIOUS
<1> USE DEF MonitorInit
<1>1. NoAccess \in Accesses /\ NoAccess.what = "none"
  BY HistoryConstants DEF NoAccess, Accesses, SessionNumbers, Directions
<1>2. MonitorTypes
  BY <1>1, HistoryConstants DEF MonitorTypes
<1>3. SessionTypes
  BY EmptySeq DEF SessionTypes
<1>4. LogTypes
  BY HistoryConstants, EmptySeq DEF LogTypes
<1>5. SessionsKept
  BY HistoryConstants, EmptyHistoryKept DEF SessionsKept
<1>6. LogsKept
  BY HistoryConstants, EmptyHistoryKept DEF LogsKept
<1>7. AccessOK
  BY <1>1 DEF AccessOK, Excludes
<1> QED
  BY <1>2, <1>3, <1>4, <1>5, <1>6, <1>7 DEF MonitorInv

\* The sessions that are opened and cleared.
LEMMA SessionStep ==
    ASSUME MonitorInv,
           \/ getInstance \/ destroyInstance
           \/ \E c \in Clients : createNetworkSession(c) \/ ClearLogs({c})
           \/ ClearLogs(Clients)
    PROVE  MonitorInv'
<1>1. UNCHANGED <<logs, logged, accessing>>
  BY DEF getInstance, destroyInstance, createNetworkSession, ClearLogs
<1>2. LogTypes' /\ LogsKept' /\ AccessOK'
  BY <1>1 DEF MonitorInv, LogTypes, LogsKept, AccessOK
<1>3. CASE getInstance
  BY <1>1, <1>2, <1>3 DEF getInstance, MonitorInv, MonitorTypes, SessionTypes, SessionsKept
<1>4. ASSUME NEW cleared, ClearLogs(cleared) PROVE MonitorInv'
  <2>1. /\ clientSessions' = [c \in Clients |-> IF c \in cleared THEN <<>> ELSE clientSessions[c]]
        /\ opened' = [c \in Clients |-> IF c \in cleared THEN <<>> ELSE opened[c]]
        /\ UNCHANGED <<monitor, sessionsOpened>>
    BY <1>4 DEF ClearLogs
  <2>2. MonitorTypes'
    BY <1>1, <2>1 DEF MonitorInv, MonitorTypes
  <2>3. SessionTypes'
    BY <2>1, EmptySeq DEF MonitorInv, SessionTypes
  <2>4. SessionsKept'
    BY <2>1, HistoryConstants, EmptyHistoryKept DEF MonitorInv, SessionsKept
  <2> QED
    BY <1>2, <2>2, <2>3, <2>4 DEF MonitorInv
<1>5. CASE destroyInstance
  <2>1. /\ clientSessions' = [c \in Clients |-> <<>>] /\ opened' = [c \in Clients |-> <<>>]
        /\ monitor' = "destroyed" /\ sessionsOpened' = sessionsOpened
    BY <1>5 DEF destroyInstance
  <2>2. MonitorTypes'
    BY <1>1, <2>1 DEF MonitorInv, MonitorTypes
  <2>3. SessionTypes'
    BY <2>1, EmptySeq DEF SessionTypes
  <2>4. SessionsKept'
    BY <2>1, HistoryConstants, EmptyHistoryKept DEF SessionsKept
  <2> QED
    BY <1>2, <2>2, <2>3, <2>4 DEF MonitorInv
<1>6. ASSUME NEW c \in Clients, createNetworkSession(c) PROVE MonitorInv'
  <2>1. /\ sessionsOpened' = sessionsOpened + 1 /\ sessionsOpened < MaxMonitored
        /\ clientSessions' = [clientSessions EXCEPT ![c] =
                                  Retained(@, MAX_SESSIONS_HISTORY, sessionsOpened + 1)]
        /\ opened' = [opened EXCEPT ![c] = Append(@, sessionsOpened + 1)]
        /\ monitor' = monitor
    BY <1>6 DEF createNetworkSession
  <2>2. MonitorTypes' /\ sessionsOpened + 1 \in SessionNumbers
    BY <1>1, <2>1, HistoryConstants DEF MonitorInv, MonitorTypes, SessionNumbers
  <2>3. /\ clientSessions[c] \in Seq(SessionNumbers) /\ opened[c] \in Seq(SessionNumbers)
        /\ FirstAndNewest(clientSessions[c], opened[c], MAX_SESSIONS_HISTORY)
    BY DEF MonitorInv, SessionTypes, SessionsKept
  <2> DEFINE kept == Retained(clientSessions[c], MAX_SESSIONS_HISTORY, sessionsOpened + 1)
             more == Append(opened[c], sessionsOpened + 1)
  <2>4. /\ kept \in Seq(SessionNumbers) /\ more \in Seq(SessionNumbers)
        /\ FirstAndNewest(kept, more, MAX_SESSIONS_HISTORY)
    BY <2>2, <2>3, HistoryConstants, RetainedKeeps
  <2>5. /\ clientSessions' = [clientSessions EXCEPT ![c] = kept]
        /\ opened' = [opened EXCEPT ![c] = more]
    BY <2>1
  <2> HIDE DEF kept, more
  <2>6. SessionTypes'
    BY <2>4, <2>5 DEF MonitorInv, SessionTypes
  <2>7. SessionsKept'
    BY <2>4, <2>5 DEF MonitorInv, SessionTypes, SessionsKept
  <2> QED
    BY <1>2, <2>2, <2>6, <2>7 DEF MonitorInv
<1> QED
  BY <1>3, <1>4, <1>5, <1>6

\* An access begins when no other thread holds its mutex.
LEMMA BeginsAccessStep ==
    ASSUME MonitorInv, NEW t \in Monitors, NEW s \in FollowedSessions, NEW d \in Directions,
           NEW what \in {"add", "get"}, BeginsAccess(t, s, d, what)
    PROVE  MonitorInv'
<1> DEFINE a == [what |-> what, session |-> s, direction |-> d]
<1>1. /\ what = "add" => logged[s][d] < MaxTransactions
      /\ \A u \in Monitors : ~ Excludes(a, accessing[u])
      /\ accessing' = [accessing EXCEPT ![t] = a]
      /\ UNCHANGED <<monitor, clientSessions, opened, sessionsOpened, logs, logged>>
  BY DEF BeginsAccess
<1>2. a \in Accesses /\ a.what = what /\ a.session = s /\ a.direction = d
  BY HistoryConstants DEF Accesses, SessionNumbers
<1> HIDE DEF a
<1>3. SessionTypes' /\ LogTypes' /\ SessionsKept' /\ LogsKept'
  BY <1>1 DEF MonitorInv, SessionTypes, LogTypes, SessionsKept, LogsKept
<1>4. MonitorTypes'
  BY <1>1, <1>2 DEF MonitorInv, MonitorTypes
<1>5. AccessOK'
  <2>1. \A u \in Monitors : accessing'[u] = IF u = t THEN a ELSE accessing[u]
    BY <1>1 DEF MonitorInv, MonitorTypes
  <2>2. ASSUME NEW u \in Monitors
        PROVE  /\ accessing'[u].what # "none" => accessing'[u].session \in FollowedSessions
               /\ accessing'[u].what = "add" =>
                     logged'[accessing'[u].session][accessing'[u].direction] < MaxTransactions
    BY <1>1, <1>2, <2>1 DEF MonitorInv, AccessOK
  <2>3. ASSUME NEW u \in Monitors, NEW v \in Monitors, u # v
        PROVE  ~ Excludes(accessing'[u], accessing'[v])
    <3>1. \A x, y : Excludes(x, y) <=> Excludes(y, x)
      BY DEF Excludes
    <3> QED
      BY <1>1, <2>1, <2>3, <3>1 DEF MonitorInv, AccessOK
  <2> QED
    BY <2>2, <2>3 DEF AccessOK
<1> QED
  BY <1>3, <1>4, <1>5 DEF MonitorInv

\* Another thread that adds to the session and direction holds the mutex too.
LEMMA EndsAccessStep ==
    ASSUME MonitorInv, NEW t \in Monitors, EndsAccess(t)
    PROVE  MonitorInv'
<1> DEFINE a == accessing[t]
           s == a.session
           d == a.direction
<1>1. /\ accessing' = [accessing EXCEPT ![t] = NoAccess]
      /\ IF a.what = "add"
         THEN /\ logged' = [logged EXCEPT ![s][d] = @ + 1]
              /\ logs' = [logs EXCEPT ![s][d] = Retained(@, MAX_LOGS_HISTORY, logged[s][d] + 1)]
         ELSE UNCHANGED <<logs, logged>>
      /\ UNCHANGED <<monitor, clientSessions, opened, sessionsOpened>>
  BY DEF EndsAccess
<1>2. NoAccess \in Accesses /\ NoAccess.what = "none"
  BY HistoryConstants DEF NoAccess, Accesses, SessionNumbers, Directions
<1>3. \A u \in Monitors : accessing'[u] = IF u = t THEN NoAccess ELSE accessing[u]
  BY <1>1 DEF MonitorInv, MonitorTypes
<1>4. MonitorTypes' /\ SessionTypes' /\ SessionsKept'
  BY <1>1, <1>2 DEF MonitorInv, MonitorTypes, SessionTypes, SessionsKept
<1>5. \A u, v \in Monitors : u # v => ~ Excludes(accessing'[u], accessing'[v])
  BY <1>2, <1>3 DEF MonitorInv, AccessOK, Excludes
<1>6. CASE a.what # "add"
  <2>1. UNCHANGED <<logs, logged>>
    BY <1>1, <1>6
  <2>2. LogTypes' /\ LogsKept'
    BY <2>1 DEF MonitorInv, LogTypes, LogsKept
  <2>3. AccessOK'
    BY <1>2, <1>3, <1>5, <2>1 DEF MonitorInv, AccessOK
  <2> QED
    BY <1>4, <2>2, <2>3 DEF MonitorInv
<1>7. CASE a.what = "add"
  <2>1. s \in FollowedSessions /\ d \in Directions /\ logged[s][d] < MaxTransactions
    BY <1>7 DEF MonitorInv, AccessOK, MonitorTypes, Accesses
  <2> DEFINE count == logged[s][d]
             kept == Retained(logs[s][d], MAX_LOGS_HISTORY, count + 1)
  <2>2. /\ count \in Nat /\ count + 1 \in Nat /\ count + 1 <= MaxTransactions
        /\ count + 1 \in 1..MaxTransactions /\ count <= MaxTransactions
    <3>1. count \in 0..MaxTransactions /\ count < MaxTransactions
      BY <2>1 DEF MonitorInv, LogTypes
    <3> HIDE DEF count
    <3> QED
      BY <3>1, HistoryConstants
  <2>3. /\ logs[s][d] \in Seq(1..MaxTransactions)
        /\ FirstAndNewest(logs[s][d], Numbers(count), MAX_LOGS_HISTORY)
    BY <2>1 DEF MonitorInv, LogTypes, LogsKept
  <2>4. kept \in Seq(1..MaxTransactions) /\ FirstAndNewest(kept, Numbers(count + 1), MAX_LOGS_HISTORY)
    <3>1. Numbers(count) \in Seq(1..MaxTransactions)
      BY <2>2, HistoryConstants, NumbersAre
    <3>2. Append(Numbers(count), count + 1) = Numbers(count + 1)
      BY <2>2, HistoryConstants, NumbersAppend
    <3>3. MAX_LOGS_HISTORY \in Nat /\ MAX_LOGS_HISTORY > 1 /\ count + 1 \in 1..MaxTransactions
      BY <2>2, HistoryConstants
    <3> HIDE DEF count
    <3> QED
      BY <2>3, <3>1, <3>2, <3>3, RetainedKeeps
  <2>5. logged' = [logged EXCEPT ![s][d] = count + 1] /\ logs' = [logs EXCEPT ![s][d] = kept]
    BY <1>1, <1>7
  <2> HIDE DEF kept
  <2>6. ASSUME NEW x \in FollowedSessions, NEW e \in Directions
        PROVE  /\ logged'[x][e] = IF x = s /\ e = d THEN count + 1 ELSE logged[x][e]
               /\ logs'[x][e] = IF x = s /\ e = d THEN kept ELSE logs[x][e]
    BY <2>1, <2>5 DEF MonitorInv, LogTypes
  <2> HIDE DEF count
  <2>7. LogTypes'
    <3>1. logged' \in [FollowedSessions -> [Directions -> 0..MaxTransactions]]
      BY <2>1, <2>2, <2>5 DEF MonitorInv, LogTypes
    <3>2. logs' \in [FollowedSessions -> [Directions -> Seq(1..MaxTransactions)]]
      BY <2>1, <2>4, <2>5 DEF MonitorInv, LogTypes
    <3> QED
      BY <3>1, <3>2 DEF LogTypes
  <2>8. LogsKept'
    BY <2>4, <2>6 DEF MonitorInv, LogsKept
  <2>9. AccessOK'
    <3>1. ASSUME NEW u \in Monitors, accessing'[u].what # "none"
          PROVE  /\ accessing'[u].session \in FollowedSessions
                 /\ accessing'[u].what = "add" =>
                       logged'[accessing'[u].session][accessing'[u].direction] < MaxTransactions
      <4>1. u # t /\ accessing'[u] = accessing[u]
        BY <1>2, <1>3, <3>1
      <4>2. accessing[u].session \in FollowedSessions /\ accessing[u].direction \in Directions
        BY <3>1, <4>1 DEF MonitorInv, AccessOK, MonitorTypes, Accesses
      <4>3. ASSUME accessing[u].what = "add" PROVE accessing[u].session # s
        <5>1. ~ Excludes(accessing[u], a)
          BY <4>1 DEF MonitorInv, AccessOK
        <5> QED
          BY <1>7, <4>3, <5>1 DEF Excludes, TakesMutexOf, AddsUnder
      <4> QED
        BY <2>6, <4>1, <4>2, <4>3 DEF MonitorInv, AccessOK
    <3> QED
      BY <1>5, <3>1 DEF AccessOK
  <2> QED
    BY <1>4, <2>7, <2>8, <2>9 DEF MonitorInv
<1> QED
  BY <1>6, <1>7

LEMMA MonitorInvStep == MonitorInv /\ [MonitorNext]_monitorVars => MonitorInv'
<1> SUFFICES ASSUME MonitorInv, [MonitorNext]_monitorVars PROVE MonitorInv'
  OBVIOUS
<1>1. CASE UNCHANGED monitorVars
  BY <1>1 DEF monitorVars, MonitorInv, MonitorTypes, SessionTypes, LogTypes, SessionsKept, LogsKept,
              AccessOK
<1> QED
  BY <1>1, SessionStep, BeginsAccessStep, EndsAccessStep DEF MonitorNext

\* Whoever adds or reads received transactions takes the mutex of their history.
LEMMA AccessIsExclusive == MonitorInv => RxLogsExclusive
  BY DEF MonitorInv, AccessOK, RxLogsExclusive, Excludes, TakesMutexOf, AddsUnder

\* The types of the network monitor's state, whoever uses it.
THEOREM MonitorTyped == MonitorSpec => []MonitorTypeOK
<1>1. MonitorInv => MonitorTypeOK
  BY DEF MonitorInv, MonitorTypes, SessionTypes, LogTypes, MonitorTypeOK, Accesses
<1> QED
  BY <1>1, MonitorInvInit, MonitorInvStep, PTL DEF MonitorSpec

\* Through any number of sessions, transactions and clearings, by any number of
\* threads, a history keeps the first and the newest entries within its limit, and
\* the received transactions are never changed while they are copied or changed.
THEOREM HistoriesWhole == MonitorSpec => []HistoriesAreWhole
<1>1. MonitorInv => HistoriesKeepNewest
  BY DEF MonitorInv, SessionsKept, LogsKept, HistoriesKeepNewest, Numbers
<1>2. MonitorInv => HistoriesAreWhole
  BY <1>1, AccessIsExclusive DEF HistoriesAreWhole
<1> QED
  BY <1>2, MonitorInvInit, MonitorInvStep, PTL DEF MonitorSpec

-----------------------------------------------------------------------------
(* Files and streams *)

\* The names that the calls use do not clash.
LEMMA NamesDiffer ==
    /\ Target \in Names
    /\ \A t \in Stamps : Temporary(t) \in Names /\ Kept(t) \in Names
    /\ \A t, u \in Stamps :
          /\ Temporary(t) # Target /\ Kept(t) # Target /\ Temporary(t) # Kept(u)
          /\ Temporary(t) = Temporary(u) => t = u
  BY DEF Target, Temporary, Kept, Names

Mine(s) == Temporary(stamp[s])

\* The hypotheses of AVersionSurvives: once one of them has failed it stays so.
Undisturbed == ~ SameTimeStamp /\ ~ sourceShort /\ ~ renameFailed

\* What a call has in its temporary file, by where it is.
Holds(s) ==
    /\ entry[Mine(s)] \in {NoFile, s} /\ file[s] \in {NoFile, s}
    /\ saver[s] = "idle" =>
          entry[Mine(s)] = NoFile /\ file[s] = NoFile /\ success[s] /\ data[s][1] = "whole"
    /\ saver[s] = "writing" => entry[Mine(s)] = s /\ file[s] = s /\ success[s]
    /\ saver[s] = "testing" => entry[Mine(s)] = s /\ (success[s] => data[s][1] = "whole")
    /\ saver[s] \in {"removing", "replacing"} => entry[Mine(s)] = s /\ data[s][1] = "whole"
    /\ saver[s] = "saved" => data[s][1] = "whole"

\* Only the original and what a call has saved can have the target's name, and the
\* name is without a file only while a call is about to give it one.
TargetOK ==
    /\ entry[Target] \in {NoFile, Original} \cup {s \in Savers : saver[s] = "saved"}
    /\ data[Original][1] = "whole"
    /\ existed /\ entry[Target] = NoFile => \E s \in Savers : saver[s] = "replacing"

FileInv ==
    /\ FileTypeOK
    /\ Undisturbed => TargetOK /\ \A s \in Savers : Holds(s)

LEMMA FileInvInit == FileInit => FileInv
<1> SUFFICES ASSUME FileInit PROVE FileInv
  OBVIOUS
<1> USE DEF FileInit
<1>1. FileTypeOK
  BY FileConstants DEF FileTypeOK, Files
<1>2. TargetOK
  BY FileConstants, NamesDiffer DEF TargetOK, Files
<1>3. ASSUME NEW s \in Savers PROVE Holds(s)
  <2>1. Mine(s) \in Names /\ Mine(s) # Target /\ s \in Files /\ s # NoFile
    BY FileConstants, NamesDiffer DEF Mine, Files
  <2> QED
    BY <2>1 DEF Holds
<1> QED
  BY <1>1, <1>2, <1>3 DEF FileInv

-----------------------------------------------------------------------------
(* The steps *)

\* With different time stamps a call's temporary name is its own.
LEMMA MineIsMine ==
    ASSUME FileTypeOK
    PROVE  /\ \A s \in Savers : /\ Mine(s) \in Names /\ Mine(s) # Target
                                /\ Kept(stamp[s]) # Target /\ Kept(stamp[s]) \in Names
                                /\ s \in Files /\ s # NoFile /\ s # Original
           /\ \A s, t \in Savers : Mine(s) # Kept(stamp[t])
           /\ ~ SameTimeStamp => \A s, t \in Savers : Mine(s) = Mine(t) => s = t
<1>1. \A s \in Savers : stamp[s] \in Stamps
  BY DEF FileTypeOK
<1> QED
  BY <1>1, NamesDiffer, FileConstants DEF Mine, Files, SameTimeStamp

\* A step of the call s that leaves the others what they have keeps the invariant
\* if it keeps the types, the target and what s has.
LEMMA StepOf ==
    ASSUME FileInv, FileTypeOK', NEW s \in Savers, NEW to, saver' = [saver EXCEPT ![s] = to],
           UNCHANGED <<stamp, existed>>, Undisturbed' => Undisturbed,
           Undisturbed => \A t \in Savers \ {s} :
               /\ entry'[Mine(t)] = entry[Mine(t)] /\ data'[t] = data[t]
               /\ file'[t] = file[t] /\ success'[t] = success[t],
           Undisturbed' => TargetOK' /\ Holds(s)'
    PROVE  FileInv'
<1>1. ASSUME Undisturbed', NEW t \in Savers, t # s PROVE Holds(t)'
  <2>1. Holds(t)
    BY <1>1 DEF FileInv
  <2>2. /\ entry'[Mine(t)] = entry[Mine(t)] /\ data'[t] = data[t] /\ stamp' = stamp
        /\ file'[t] = file[t] /\ success'[t] = success[t] /\ saver'[t] = saver[t]
    BY <1>1 DEF FileInv, FileTypeOK
  <2> QED
    BY <2>1, <2>2 DEF Holds, Mine
<1> QED
  BY <1>1 DEF FileInv

LEMMA OpenStep ==
    ASSUME FileInv, NEW s \in Savers, Opens(s) \/ OpenFails(s)
    PROVE  FileInv'
<1>a. FileTypeOK /\ (Undisturbed => TargetOK /\ \A t \in Savers : Holds(t))
  BY DEF FileInv
<1>1. CASE Opens(s)
  <2> DEFINE f == IF entry[Mine(s)] = NoFile THEN s ELSE entry[Mine(s)]
  <2>1. /\ saver[s] = "idle" /\ saver' = [saver EXCEPT ![s] = "writing"]
        /\ entry' = [entry EXCEPT ![Mine(s)] = f]
        /\ data' = [data EXCEPT ![f] = <<"partial", s>>]
        /\ file' = [file EXCEPT ![s] = f]
        /\ UNCHANGED <<stamp, keepOld, success, existed, sourceShort, renameFailed>>
    BY <1>1 DEF Opens, GoesTo, Mine, call, outcomes
  <2>2. f \in Files /\ Mine(s) \in Names /\ s \in Files
    BY <1>a, MineIsMine DEF FileTypeOK
  <2>3. FileTypeOK'
    BY <1>a, <2>1, <2>2 DEF FileTypeOK
  <2>4. Undisturbed' <=> Undisturbed
    BY <2>1 DEF Undisturbed, SameTimeStamp
  <2>5. ASSUME Undisturbed PROVE f = s /\ entry'[Mine(s)] = s /\ file'[s] = s /\ success'[s]
    BY <1>a, <2>1, <2>2, <2>5 DEF Holds, FileTypeOK
  <2>6. ASSUME Undisturbed PROVE TargetOK' /\ Holds(s)'
    <3>1. Holds(s)'
      BY <1>a, <2>1, <2>5, <2>6 DEF Holds, FileTypeOK, Mine
    <3>2. entry'[Target] = entry[Target] /\ data'[Original] = data[Original]
      BY <1>a, <2>1, <2>5, <2>6, MineIsMine, NamesDiffer DEF FileTypeOK
    <3> QED
      BY <1>a, <2>1, <2>6, <3>1, <3>2 DEF TargetOK, FileTypeOK
  <2>7. ASSUME Undisturbed, NEW t \in Savers \ {s}
        PROVE  /\ entry'[Mine(t)] = entry[Mine(t)] /\ data'[t] = data[t]
               /\ file'[t] = file[t] /\ success'[t] = success[t]
    BY <1>a, <2>1, <2>5, <2>7, MineIsMine DEF FileTypeOK, Undisturbed
  <2> QED
    BY <2>1, <2>3, <2>4, <2>6, <2>7, StepOf
<1>2. CASE OpenFails(s)
  <2>1. /\ saver[s] = "idle" /\ saver' = [saver EXCEPT ![s] = "cleaning"]
        /\ success' = [success EXCEPT ![s] = FALSE]
        /\ UNCHANGED <<entry, data, stamp, keepOld, file, existed, sourceShort, renameFailed>>
    BY <1>2 DEF OpenFails, GoesTo, Fails, call, outcomes
  <2>2. FileTypeOK'
    BY <1>a, <2>1 DEF FileTypeOK
  <2>3. Undisturbed' <=> Undisturbed
    BY <2>1 DEF Undisturbed, SameTimeStamp
  <2>4. ASSUME Undisturbed PROVE TargetOK' /\ Holds(s)'
    BY <1>a, <2>1, <2>4 DEF TargetOK, Holds, FileTypeOK, Mine
  <2> QED
    BY <1>a, <2>1, <2>2, <2>3, <2>4, StepOf DEF FileTypeOK
<1> QED
  BY <1>1, <1>2

LEMMA WriteStep ==
    ASSUME FileInv, NEW s \in Savers,
           WriteFails(s) \/ \E how \in {"whole", "short"} : Writes(s, how)
    PROVE  FileInv'
<1>a. FileTypeOK /\ (Undisturbed => TargetOK /\ \A t \in Savers : Holds(t))
  BY DEF FileInv
<1>1. ASSUME NEW how \in {"whole", "short"}, Writes(s, how) PROVE FileInv'
  <2> DEFINE written == IF \E t \in Savers \ {s} : file[t] = file[s] THEN <<"mixed", s>>
                        ELSE <<how, s>>
  <2>1. /\ saver[s] = "writing" /\ saver' = [saver EXCEPT ![s] = "testing"]
        /\ data' = [data EXCEPT ![file[s]] = written]
        /\ sourceShort' = (sourceShort \/ how = "short")
        /\ UNCHANGED <<entry, stamp, keepOld, file, success, existed, renameFailed>>
    BY <1>1 DEF Writes, GoesTo, call
  <2>2. written \in {"whole", "short", "partial", "mixed"} \X Files
    BY <1>a, MineIsMine
  <2>3. FileTypeOK'
    <3>1. data' \in [Files -> {"whole", "short", "partial", "mixed"} \X Files]
      BY <1>a, <2>1, <2>2 DEF FileTypeOK
    <3> QED
      BY <1>a, <2>1, <3>1 DEF FileTypeOK
  <2>4. Undisturbed' => Undisturbed /\ how = "whole"
    BY <2>1 DEF Undisturbed, SameTimeStamp
  <2>5. ASSUME Undisturbed PROVE file[s] = s /\ written = <<how, s>>
    BY <1>a, <2>1, <2>5, MineIsMine DEF Holds
  <2>6. ASSUME Undisturbed' PROVE TargetOK' /\ Holds(s)'
    <3>1. data'[s] = <<"whole", s>> /\ data'[Original] = data[Original]
          /\ saver'[s] = "testing"
      BY <1>a, <2>1, <2>4, <2>5, <2>6, MineIsMine, FileConstants DEF FileTypeOK, Files
    <3>2. Holds(s)'
      BY <1>a, <2>1, <2>4, <2>6, <3>1 DEF Holds, Mine
    <3> QED
      BY <1>a, <2>1, <2>4, <2>6, <3>1, <3>2 DEF TargetOK, FileTypeOK
  <2>7. ASSUME Undisturbed, NEW t \in Savers \ {s}
        PROVE  /\ entry'[Mine(t)] = entry[Mine(t)] /\ data'[t] = data[t]
               /\ file'[t] = file[t] /\ success'[t] = success[t]
    BY <1>a, <2>1, <2>5, <2>7, MineIsMine DEF FileTypeOK
  <2> QED
    BY <2>1, <2>3, <2>4, <2>6, <2>7, StepOf
<1>2. CASE WriteFails(s)
  <2>1. /\ saver[s] = "writing" /\ saver' = [saver EXCEPT ![s] = "testing"]
        /\ success' = [success EXCEPT ![s] = FALSE]
        /\ UNCHANGED <<entry, data, stamp, keepOld, file, existed, sourceShort, renameFailed>>
    BY <1>2 DEF WriteFails, GoesTo, Fails, call, outcomes
  <2>2. FileTypeOK'
    BY <1>a, <2>1 DEF FileTypeOK
  <2>3. Undisturbed' <=> Undisturbed
    BY <2>1 DEF Undisturbed, SameTimeStamp
  <2>4. ASSUME Undisturbed PROVE TargetOK' /\ Holds(s)'
    BY <1>a, <2>1, <2>4 DEF TargetOK, Holds, FileTypeOK, Mine
  <2> QED
    BY <1>a, <2>1, <2>2, <2>3, <2>4, StepOf DEF FileTypeOK
<1> QED
  BY <1>1, <1>2

LEMMA RemoveStep ==
    ASSUME FileInv, NEW s \in Savers, TestsTarget(s) \/ RemovesTarget(s) \/ RemoveFails(s)
    PROVE  FileInv'
<1>a. FileTypeOK /\ (Undisturbed => TargetOK /\ \A t \in Savers : Holds(t))
  BY DEF FileInv
<1>1. CASE TestsTarget(s)
  <2> DEFINE to == IF ~ success[s] THEN "cleaning"
                   ELSE IF entry[Target] = NoFile THEN "replacing" ELSE "removing"
  <2>1. /\ saver[s] = "testing" /\ saver' = [saver EXCEPT ![s] = to]
        /\ UNCHANGED <<entry, data, stamp, keepOld, file, success, existed, sourceShort, renameFailed>>
    BY <1>1 DEF TestsTarget, GoesTo, Proceeds, call, outcomes
  <2>2. FileTypeOK'
    BY <1>a, <2>1 DEF FileTypeOK
  <2>3. Undisturbed' <=> Undisturbed
    BY <2>1 DEF Undisturbed, SameTimeStamp
  <2>4. ASSUME Undisturbed PROVE TargetOK' /\ Holds(s)'
    <3>1. Holds(s)'
      BY <1>a, <2>1, <2>4 DEF Holds, FileTypeOK, Mine
    <3>2. TargetOK'
      BY <1>a, <2>1, <2>4 DEF TargetOK, FileTypeOK
    <3> QED
      BY <3>1, <3>2
  <2> QED
    BY <1>a, <2>1, <2>2, <2>3, <2>4, StepOf DEF FileTypeOK
<1>2. CASE RemovesTarget(s)
  <2>1. /\ saver[s] = "removing" /\ saver' = [saver EXCEPT ![s] = "replacing"]
        /\ entry' = [n \in Names |-> IF n = Target THEN NoFile
                                     ELSE IF n = Kept(stamp[s]) /\ keepOld[s] THEN entry[Target]
                                     ELSE entry[n]]
        /\ UNCHANGED <<data, stamp, keepOld, file, success, existed, sourceShort, renameFailed>>
    BY <1>2 DEF RemovesTarget, GoesTo, call, outcomes
  <2>2. FileTypeOK'
    <3>1. entry' \in [Names -> Files \cup {NoFile}]
      BY <1>a, <2>1, NamesDiffer DEF FileTypeOK
    <3> QED
      BY <1>a, <2>1, <3>1 DEF FileTypeOK
  <2>3. Undisturbed' <=> Undisturbed
    BY <2>1 DEF Undisturbed, SameTimeStamp
  <2>4. \A t \in Savers : entry'[Mine(t)] = entry[Mine(t)]
    BY <1>a, <2>1, MineIsMine
  <2>5. ASSUME Undisturbed PROVE TargetOK' /\ Holds(s)'
    <3>1. Holds(s)'
      <4>1. /\ entry'[Mine(s)'] = entry[Mine(s)] /\ saver'[s] = "replacing"
            /\ file'[s] = file[s] /\ data'[s] = data[s]
        BY <1>a, <2>1, <2>4 DEF FileTypeOK, Mine
      <4>2. Holds(s)
        BY <1>a, <2>5
      <4> QED
        BY <2>1, <4>1, <4>2 DEF Holds
    <3>2. entry'[Target] = NoFile /\ saver'[s] = "replacing"
      BY <1>a, <2>1, NamesDiffer DEF FileTypeOK
    <3> QED
      BY <1>a, <2>1, <2>5, <3>1, <3>2 DEF TargetOK
  <2> QED
    BY <1>a, <2>1, <2>2, <2>3, <2>4, <2>5, StepOf DEF FileTypeOK
<1>3. CASE RemoveFails(s)
  <2>1. /\ saver[s] = "removing" /\ saver' = [saver EXCEPT ![s] = "cleaning"]
        /\ success' = [success EXCEPT ![s] = FALSE]
        /\ UNCHANGED <<entry, data, stamp, keepOld, file, existed, sourceShort, renameFailed>>
    BY <1>3 DEF RemoveFails, GoesTo, Fails, call, outcomes
  <2>2. FileTypeOK'
    BY <1>a, <2>1 DEF FileTypeOK
  <2>3. Undisturbed' <=> Undisturbed
    BY <2>1 DEF Undisturbed, SameTimeStamp
  <2>4. ASSUME Undisturbed PROVE TargetOK' /\ Holds(s)'
    BY <1>a, <2>1, <2>4 DEF TargetOK, Holds, FileTypeOK, Mine
  <2> QED
    BY <1>a, <2>1, <2>2, <2>3, <2>4, StepOf DEF FileTypeOK
<1> QED
  BY <1>1, <1>2, <1>3

LEMMA ReplaceStep ==
    ASSUME FileInv, NEW s \in Savers,
           Replaces(s) \/ ReplaceFails(s) \/ \E removed \in BOOLEAN : Throws(s, removed)
    PROVE  FileInv'
<1>a. FileTypeOK /\ (Undisturbed => TargetOK /\ \A t \in Savers : Holds(t))
  BY DEF FileInv
<1>1. CASE Replaces(s)
  <2>1. /\ saver[s] = "replacing" /\ saver' = [saver EXCEPT ![s] = "saved"]
        /\ entry[Mine(s)] # NoFile
        /\ entry' = [entry EXCEPT ![Target] = entry[Mine(s)], ![Mine(s)] = NoFile]
        /\ UNCHANGED <<data, stamp, keepOld, file, success, existed, sourceShort, renameFailed>>
    BY <1>1 DEF Replaces, GoesTo, call, outcomes, Mine
  <2>2. FileTypeOK'
    <3>1. entry' \in [Names -> Files \cup {NoFile}]
      BY <1>a, <2>1, NamesDiffer, MineIsMine DEF FileTypeOK
    <3> QED
      BY <1>a, <2>1, <3>1 DEF FileTypeOK
  <2>3. Undisturbed' <=> Undisturbed
    BY <2>1 DEF Undisturbed, SameTimeStamp
  <2>4. /\ entry'[Target] = entry[Mine(s)] /\ entry'[Mine(s)] = NoFile
        /\ Undisturbed => \A t \in Savers \ {s} : entry'[Mine(t)] = entry[Mine(t)]
    BY <1>a, <2>1, NamesDiffer, MineIsMine DEF FileTypeOK, Undisturbed
  <2>5. ASSUME Undisturbed PROVE TargetOK' /\ Holds(s)'
    <3>1. Holds(s)'
      BY <1>a, <2>1, <2>4, <2>5 DEF Holds, FileTypeOK, Mine
    <3>2. entry[Mine(s)] = s
      BY <1>a, <2>1, <2>5 DEF Holds
    <3>3. entry'[Target] = s /\ saver'[s] = "saved"
      BY <1>a, <2>1, <2>4, <3>2 DEF FileTypeOK
    <3> QED
      BY <1>a, <2>1, <2>5, <3>1, <3>3, MineIsMine DEF TargetOK
  <2> QED
    BY <1>a, <2>1, <2>2, <2>3, <2>4, <2>5, StepOf DEF FileTypeOK
<1>2. CASE ReplaceFails(s)
  <2>1. /\ saver[s] = "replacing" /\ saver' = [saver EXCEPT ![s] = "cleaning"]
        /\ success' = [success EXCEPT ![s] = FALSE] /\ renameFailed' = TRUE
        /\ UNCHANGED <<entry, data, stamp, keepOld, file, existed, sourceShort>>
    BY <1>2 DEF ReplaceFails, GoesTo, Fails, call
  <2>2. FileTypeOK'
    BY <1>a, <2>1 DEF FileTypeOK
  <2>3. ~ Undisturbed'
    BY <2>1 DEF Undisturbed
  <2> QED
    BY <2>2, <2>3 DEF FileInv
<1>3. ASSUME NEW removed \in BOOLEAN, Throws(s, removed) PROVE FileInv'
  <2>1. /\ saver[s] = "cleaning" /\ saver' = [saver EXCEPT ![s] = "threw"]
        /\ entry' = IF removed THEN [entry EXCEPT ![Mine(s)] = NoFile] ELSE entry
        /\ UNCHANGED <<data, stamp, keepOld, file, success, existed, sourceShort, renameFailed>>
    BY <1>3 DEF Throws, GoesTo, call, outcomes, Mine
  <2>2. FileTypeOK'
    <3>1. entry' \in [Names -> Files \cup {NoFile}]
      BY <1>a, <2>1, MineIsMine DEF FileTypeOK
    <3> QED
      BY <1>a, <2>1, <3>1 DEF FileTypeOK
  <2>3. Undisturbed' <=> Undisturbed
    BY <2>1 DEF Undisturbed, SameTimeStamp
  <2>4. /\ entry'[Target] = entry[Target] /\ entry'[Mine(s)] \in {NoFile, entry[Mine(s)]}
        /\ Undisturbed => \A t \in Savers \ {s} : entry'[Mine(t)] = entry[Mine(t)]
    BY <1>a, <2>1, NamesDiffer, MineIsMine DEF FileTypeOK, Undisturbed
  <2>5. ASSUME Undisturbed PROVE TargetOK' /\ Holds(s)'
    <3>1. Holds(s)'
      BY <1>a, <2>1, <2>4, <2>5 DEF Holds, FileTypeOK, Mine
    <3> QED
      BY <1>a, <2>1, <2>4, <2>5, <3>1 DEF TargetOK, FileTypeOK
  <2> QED
    BY <1>a, <2>1, <2>2, <2>3, <2>4, <2>5, StepOf DEF FileTypeOK
<1> QED
  BY <1>1, <1>2, <1>3

LEMMA FileInvStep == FileInv /\ [FileNext]_fileVars => FileInv'
<1> SUFFICES ASSUME FileInv, [FileNext]_fileVars PROVE FileInv'
  OBVIOUS
<1>1. CASE UNCHANGED fileVars
  BY <1>1 DEF fileVars, call, outcomes, FileInv, FileTypeOK, Undisturbed, SameTimeStamp, TargetOK,
     Holds, Mine
<1>2. CASE FileNext
  BY <1>2, OpenStep, WriteStep, RemoveStep, ReplaceStep DEF FileNext
<1> QED
  BY <1>1, <1>2

-----------------------------------------------------------------------------
\* The directory and the calls keep their types.
THEOREM FileTypeCorrect == FileSpec => []FileTypeOK
<1>1. FileInv => FileTypeOK
  BY DEF FileInv
<1> QED
  BY <1>1, FileInvInit, FileInvStep, PTL DEF FileSpec

\* Wherever safelyOverwriteFile() is interrupted, in any number of calls at once,
\* one complete version of the target is under its own name or in the temporary
\* file that is about to take it, on the conditions that AVersionSurvives names.
THEOREM OverwritingIsSafe == FileSpec => []AVersionSurvives
<1>1. FileInv => AVersionSurvives
  <2> SUFFICES ASSUME FileInv, Undisturbed
               PROVE  /\ entry[Target] # NoFile => HoldsWhole(Target)
                      /\ existed /\ entry[Target] = NoFile => \E s \in Savers :
                            saver[s] = "replacing" /\ HoldsWhole(Temporary(stamp[s]))
    BY DEF AVersionSurvives, Undisturbed
  <2>1. TargetOK /\ \A s \in Savers : Holds(s) /\ s # NoFile
    BY FileConstants DEF FileInv
  <2>2. entry[Target] # NoFile => HoldsWhole(Target)
    BY <2>1 DEF TargetOK, HoldsWhole, Holds
  <2>3. \A s \in Savers : saver[s] = "replacing" => HoldsWhole(Temporary(stamp[s]))
    BY <2>1 DEF HoldsWhole, Holds, Mine
  <2> QED
    BY <2>1, <2>2, <2>3 DEF TargetOK
<1> QED
  BY <1>1, FileInvInit, FileInvStep, PTL DEF FileSpec

-----------------------------------------------------------------------------
(* The memory stream and the write buffer *)

AnyBytes == Bytes \cup {Junk}

\* The first part of a sequence, and when another is this part.
LEMMA FirstBytes ==
    ASSUME NEW S, NEW s \in Seq(S), NEW n \in 0..Len(s)
    PROVE  /\ SubSeq(s, 1, n) \in Seq(S) /\ Len(SubSeq(s, 1, n)) = n
           /\ \A i \in 1..n : SubSeq(s, 1, n)[i] = s[i]
<1>1. n \in Nat /\ Len(s) \in Nat /\ 1 \in Int /\ n \in Int /\ n - 1 + 1 = n
  BY LenProperties
<1>2. \A i \in 1..n : s[i] \in S
  <2>1. \A i \in 1..n : i \in 1..Len(s)
    BY <1>1
  <2> QED
    BY <2>1, ElementOfSeq
<1>3. /\ SubSeq(s, 1, n) \in Seq(S)
      /\ Len(SubSeq(s, 1, n)) = IF 1 <= n THEN n - 1 + 1 ELSE 0
      /\ \A i \in 1..n - 1 + 1 : SubSeq(s, 1, n)[i] = s[1 + i - 1]
  BY ONLY <1>1, <1>2, SubSeqProperties
<1>4. (IF 1 <= n THEN n - 1 + 1 ELSE 0) = n
  BY <1>1
<1>5. \A i \in 1..n : 1 + i - 1 = i
  BY <1>1
<1> QED
  BY <1>1, <1>3, <1>4, <1>5

LEMMA JunkBytesAre ==
    ASSUME NEW n \in Nat
    PROVE  JunkBytes(n) \in Seq(AnyBytes) /\ Len(JunkBytes(n)) = n /\ \A i \in 1..n : JunkBytes(n)[i] = Junk
  BY DEF JunkBytes, AnyBytes

\* What a write over a sequence leaves.
LEMMA OverlaidIs ==
    ASSUME NEW s \in Seq(AnyBytes), NEW bytes \in Seq(AnyBytes), NEW offset \in 0..Len(s)
    PROVE  /\ Overlaid(s, offset, bytes) \in Seq(AnyBytes)
           /\ Len(Overlaid(s, offset, bytes)) = Larger(Len(s), offset + Len(bytes))
           /\ \A i \in 1..Larger(Len(s), offset + Len(bytes)) :
                 Overlaid(s, offset, bytes)[i] =
                    IF i \in offset + 1..offset + Len(bytes) THEN bytes[i - offset] ELSE s[i]
<1> DEFINE length == Larger(Len(s), offset + Len(bytes))
           e(i) == IF i \in offset + 1..offset + Len(bytes) THEN bytes[i - offset] ELSE s[i]
<1>1. Len(s) \in Nat /\ Len(bytes) \in Nat /\ offset \in Nat /\ offset <= Len(s) /\ length \in Nat
      /\ (length = Len(s) \/ length = offset + Len(bytes))
  BY LenProperties DEF Larger
<1>2. Overlaid(s, offset, bytes) = [i \in 1..length |-> e(i)]
  BY DEF Overlaid
<1> HIDE DEF length
<1>3. ASSUME NEW i \in 1..length PROVE e(i) \in AnyBytes
  <2>1. CASE i \in offset + 1..offset + Len(bytes)
    <3>1. i - offset \in 1..Len(bytes)
      BY <2>1, <1>1
    <3>2. bytes[i - offset] \in AnyBytes
      BY <3>1, ElementOfSeq
    <3> QED
      BY <2>1, <3>2
  <2>2. CASE i \notin offset + 1..offset + Len(bytes)
    <3>1. i \in 1..Len(s)
      BY <2>2, <1>1
    <3>2. s[i] \in AnyBytes
      BY <3>1, ElementOfSeq
    <3> QED
      BY <2>2, <3>2
  <2> QED
    BY <2>1, <2>2
<1> HIDE DEF e
<1>4. [i \in 1..length |-> e(i)] \in Seq(AnyBytes) /\ Len([i \in 1..length |-> e(i)]) = length
  BY <1>1, <1>3
<1>5. \A i \in 1..length : Overlaid(s, offset, bytes)[i] = e(i)
  BY <1>2
<1> QED
  BY <1>2, <1>4, <1>5 DEF length, e

\* What the stream and the write buffer keep, byte by byte.
HoldsContents ==
    /\ Len(contents) = eofOffset
    /\ \A i \in 1..eofOffset : contents[i] # Junk => buffer[i] = contents[i]
HoldsFlushed == streamKind = "buffered" /\ ~ flushFailed => Carries(rawBytes, flushed)

StreamKinds == streamKind \in {"memory", "buffered"} /\ ownsBuffer \in BOOLEAN /\ flushFailed \in BOOLEAN
StreamBytes ==
    /\ buffer \in Seq(AnyBytes) /\ contents \in Seq(AnyBytes) /\ rawBytes \in Seq(AnyBytes)
    /\ flushed \in Seq(AnyBytes)
StreamOffsets ==
    /\ ioOffset = fileOffset /\ ioOffset \in Nat /\ eofOffset \in Nat
    /\ ioOffset <= eofOffset /\ eofOffset <= Len(buffer)

StreamInv == StreamKinds /\ StreamBytes /\ StreamOffsets /\ HoldsContents /\ HoldsFlushed

LEMMA StreamInvInit == StreamInit => StreamInv
<1> SUFFICES ASSUME StreamInit PROVE StreamInv
  OBVIOUS
<1>1. StreamKinds
  BY DEF StreamInit, StreamKinds
<1>2. PICK size \in 1..2 : buffer = JunkBytes(size)
  BY DEF StreamInit
<1>3. buffer \in Seq(AnyBytes) /\ Len(buffer) \in Nat
  BY <1>2, JunkBytesAre, LenProperties
<1>4. contents = <<>> /\ rawBytes = <<>> /\ flushed = <<>> /\ ioOffset = 0 /\ fileOffset = 0 /\ eofOffset = 0
  BY DEF StreamInit
<1>5. StreamBytes /\ StreamOffsets
  BY <1>3, <1>4 DEF StreamBytes, StreamOffsets
<1>6. HoldsContents /\ HoldsFlushed
  BY <1>4 DEF HoldsContents, HoldsFlushed, Carries
<1> QED
  BY <1>1, <1>5, <1>6 DEF StreamInv

\* The size a buffer grows to is enough.
LEMMA NewSizesSuffice ==
    ASSUME NEW required \in Nat, NEW size \in NewSizes(required), buffer \in Seq(AnyBytes)
    PROVE  size \in Nat /\ size >= required
<1>1. Len(buffer) \in Nat /\ resizeIncrement \in Nat
  BY LenProperties, MemoryStreamConstants
<1>2. CASE resizeIncrement = 0
  <2> DEFINE base == IF mBufferSize = 0 THEN 1024 ELSE mBufferSize
  <2>1. size \in required..2 * Larger(base, required)
    BY <1>2 DEF NewSizes
  <2> HIDE DEF base
  <2> QED
    BY <2>1
<1>3. CASE resizeIncrement # 0
  <2>1. required % resizeIncrement \in 0..resizeIncrement - 1
    BY <1>1, <1>3
  <2>2. size = IF required % resizeIncrement = 0 THEN required
               ELSE required + (resizeIncrement - (required % resizeIncrement))
    BY <1>3 DEF NewSizes
  <2> QED
    BY <1>1, <2>1, <2>2
<1> QED
  BY <1>2, <1>3

\* A buffer that was made large enough has all the bytes it had.
LEMMA PreparedKeeps ==
    ASSUME StreamInv, NEW required \in Nat, NEW prepared \in Prepared(required)
    PROVE  /\ prepared \in Seq(AnyBytes) /\ Len(prepared) \in Nat
           /\ Len(prepared) >= required /\ Len(prepared) >= eofOffset
           /\ \A i \in 1..eofOffset : prepared[i] = buffer[i]
<1>t. /\ buffer \in Seq(AnyBytes) /\ eofOffset \in 0..Len(buffer) /\ Len(buffer) \in Nat
      /\ eofOffset \in Nat /\ eofOffset <= Len(buffer)
  BY LenProperties DEF StreamInv, StreamBytes, StreamOffsets
<1>1. CASE ~ (required > Len(buffer))
  <2>1. prepared = buffer
    BY <1>1 DEF Prepared, mBufferSize
  <2> QED
    BY <1>1, <1>t, <2>1
<1>2. CASE required > Len(buffer)
  <2>1. PICK size \in NewSizes(required) :
            prepared = SubSeq(buffer, 1, eofOffset) \o JunkBytes(size - eofOffset)
    BY <1>2 DEF Prepared, mBufferSize
  <2>2. size \in Nat /\ size >= required
    BY <1>t, NewSizesSuffice
  <2> DEFINE first == SubSeq(buffer, 1, eofOffset)
             rest == JunkBytes(size - eofOffset)
  <2>3. size - eofOffset \in Nat
    BY <1>2, <1>t, <2>2
  <2>4. rest \in Seq(AnyBytes) /\ Len(rest) = size - eofOffset
    BY <2>3, JunkBytesAre
  <2>5. /\ first \in Seq(AnyBytes) /\ Len(first) = eofOffset
        /\ \A i \in 1..eofOffset : first[i] = buffer[i]
    BY <1>t, FirstBytes
  <2>6. prepared = first \o rest
    BY <2>1
  <2> HIDE DEF first, rest
  <2>7. /\ first \o rest \in Seq(AnyBytes) /\ Len(first \o rest) = Len(first) + Len(rest)
        /\ \A i \in 1..Len(first) + Len(rest) :
              (first \o rest)[i] = IF i <= Len(first) THEN first[i] ELSE rest[i - Len(first)]
    BY <2>4, <2>5, ConcatProperties
  <2>8. Len(first) + Len(rest) = size
    BY <2>2, <2>4, <2>5, <1>t
  <2>9. size >= eofOffset
    BY <2>2, <1>2, <1>t
  <2>10. \A i \in 1..eofOffset : i \in 1..size /\ i <= eofOffset
    BY <2>2, <2>9, <1>t
  <2>11. \A i \in 1..eofOffset : prepared[i] = buffer[i]
    BY <2>5, <2>6, <2>7, <2>8, <2>10
  <2> QED
    BY <2>2, <2>6, <2>7, <2>8, <2>9, <2>11
<1> QED
  BY <1>1, <1>2

\* A write lays the same bytes over the buffer and over what it stands for.
LEMMA WriteBytesStep ==
    ASSUME StreamInv, NEW bytes \in Seq(Bytes), write(bytes)
    PROVE  StreamInv'
<1> DEFINE io == ioOffset + Len(bytes)
           written(i) == i \in ioOffset + 1..ioOffset + Len(bytes)
<1>t. /\ buffer \in Seq(AnyBytes) /\ contents \in Seq(AnyBytes) /\ rawBytes \in Seq(AnyBytes)
      /\ bytes \in Seq(AnyBytes) /\ fileOffset = ioOffset
      /\ ioOffset \in Nat /\ eofOffset \in Nat /\ ioOffset <= eofOffset /\ eofOffset <= Len(buffer)
      /\ Len(bytes) \in Nat /\ Len(contents) = eofOffset
  BY LenProperties, SeqMonotonic DEF StreamInv, StreamBytes, StreamOffsets, HoldsContents, AnyBytes
<1>u. /\ ioOffset' = io /\ eofOffset' = Larger(io, eofOffset) /\ io \in Nat
      /\ contents' = Overlaid(contents, ioOffset, bytes)
      /\ fileOffset' = io
      /\ UNCHANGED <<streamKind, ownsBuffer, rawBytes, flushed, flushFailed>>
  BY <1>t DEF write, EofAfter, rawVars
<1>e. eofOffset' \in Nat /\ eofOffset' >= io /\ eofOffset' >= eofOffset
      /\ (eofOffset' = io \/ eofOffset' = eofOffset) /\ eofOffset' = Larger(eofOffset, io)
  BY <1>t, <1>u DEF Larger
<1>1. PICK prepared \in Prepared(io) : buffer' = Overlaid(prepared, ioOffset, bytes)
  BY DEF write
<1>2. /\ prepared \in Seq(AnyBytes) /\ Len(prepared) \in Nat
      /\ Len(prepared) >= io /\ Len(prepared) >= eofOffset
      /\ \A i \in 1..eofOffset : prepared[i] = buffer[i]
  <2> HIDE DEF io
  <2> QED
    BY <1>u, PreparedKeeps
<1>3. Larger(Len(prepared), io) = Len(prepared) /\ ioOffset \in 0..Len(prepared)
      /\ ioOffset \in 0..Len(contents)
  BY <1>2, <1>t DEF Larger
<1>4. /\ buffer' \in Seq(AnyBytes) /\ Len(buffer') = Len(prepared)
      /\ \A i \in 1..Len(prepared) : buffer'[i] = IF written(i) THEN bytes[i - ioOffset] ELSE prepared[i]
  <2>0. /\ Overlaid(prepared, ioOffset, bytes) \in Seq(AnyBytes)
        /\ Len(Overlaid(prepared, ioOffset, bytes)) = Larger(Len(prepared), ioOffset + Len(bytes))
        /\ \A i \in 1..Larger(Len(prepared), ioOffset + Len(bytes)) :
              Overlaid(prepared, ioOffset, bytes)[i] =
                 IF i \in ioOffset + 1..ioOffset + Len(bytes) THEN bytes[i - ioOffset] ELSE prepared[i]
    <3>1. prepared \in Seq(AnyBytes) /\ bytes \in Seq(AnyBytes) /\ ioOffset \in 0..Len(prepared)
      BY <1>2, <1>3, <1>t
    <3> QED
      BY ONLY <3>1, OverlaidIs
  <2>1. /\ Overlaid(prepared, ioOffset, bytes) \in Seq(AnyBytes)
        /\ Len(Overlaid(prepared, ioOffset, bytes)) = Larger(Len(prepared), io)
        /\ \A i \in 1..Larger(Len(prepared), io) :
              Overlaid(prepared, ioOffset, bytes)[i] = IF written(i) THEN bytes[i - ioOffset] ELSE prepared[i]
    BY ONLY <2>0, Zenon DEF written
  <2> HIDE DEF io, written
  <2> QED
    BY ONLY <1>1, <1>3, <2>1
<1>5. /\ contents' \in Seq(AnyBytes) /\ Len(contents') = eofOffset'
      /\ \A i \in 1..eofOffset' : contents'[i] = IF written(i) THEN bytes[i - ioOffset] ELSE contents[i]
  <2>0. /\ Overlaid(contents, ioOffset, bytes) \in Seq(AnyBytes)
        /\ Len(Overlaid(contents, ioOffset, bytes)) = Larger(Len(contents), ioOffset + Len(bytes))
        /\ \A i \in 1..Larger(Len(contents), ioOffset + Len(bytes)) :
              Overlaid(contents, ioOffset, bytes)[i] =
                 IF i \in ioOffset + 1..ioOffset + Len(bytes) THEN bytes[i - ioOffset] ELSE contents[i]
    <3>1. contents \in Seq(AnyBytes) /\ bytes \in Seq(AnyBytes) /\ ioOffset \in 0..Len(contents)
      BY <1>2, <1>3, <1>t
    <3> QED
      BY ONLY <3>1, OverlaidIs
  <2>1. /\ Overlaid(contents, ioOffset, bytes) \in Seq(AnyBytes)
        /\ Len(Overlaid(contents, ioOffset, bytes)) = Larger(Len(contents), io)
        /\ \A i \in 1..Larger(Len(contents), io) :
              Overlaid(contents, ioOffset, bytes)[i] = IF written(i) THEN bytes[i - ioOffset] ELSE contents[i]
    BY ONLY <2>0, Zenon DEF written
  <2>2. Larger(Len(contents), io) = eofOffset'
    BY <1>e, <1>t
  <2> HIDE DEF io, written
  <2> QED
    BY ONLY <1>u, <2>1, <2>2
<1>6. ASSUME NEW i \in 1..eofOffset'
      PROVE  /\ i \in 1..Len(prepared)
             /\ ~ written(i) => i \in 1..eofOffset
  BY <1>2, <1>e, <1>t
<1> HIDE DEF written
<1>7. ASSUME NEW i \in 1..eofOffset'
      PROVE  /\ written(i) => buffer'[i] = bytes[i - ioOffset]
             /\ ~ written(i) => i \in 1..eofOffset /\ buffer'[i] = buffer[i]
  BY <1>2, <1>4, <1>6
<1>8. StreamKinds'
  BY <1>u DEF StreamInv, StreamKinds
<1>9. StreamOffsets'
  BY <1>e, <1>t, <1>u, <1>2, <1>4 DEF StreamOffsets
<1>10. HoldsContents'
  <2>1. ASSUME NEW i \in 1..eofOffset', contents'[i] # Junk PROVE buffer'[i] = contents'[i]
    <3>1. CASE written(i)
      BY <3>1, <1>5, <1>7
    <3>2. CASE ~ written(i)
      <4>1. contents'[i] = contents[i] /\ buffer'[i] = buffer[i] /\ i \in 1..eofOffset
        BY <3>2, <1>5, <1>7
      <4> QED
        BY <2>1, <4>1 DEF StreamInv, HoldsContents
    <3> QED
      BY <3>1, <3>2
  <2> QED
    BY <2>1, <1>5 DEF HoldsContents
<1>11. HoldsFlushed'
  BY <1>u DEF StreamInv, HoldsFlushed, Carries
<1>12. StreamBytes'
  BY <1>4, <1>5, <1>u, <1>t DEF StreamInv, StreamBytes
<1> QED
  BY <1>8, <1>9, <1>10, <1>11, <1>12 DEF StreamInv

\* Moving in the stream, and extending it: to where Unix goes, but where the code departs.
LEMMA SeekStep ==
    ASSUME StreamInv, NEW offset \in Int, NEW whence \in {"SEEK_SET", "SEEK_CUR", "SEEK_END"},
           seek(offset, whence)
    PROVE  StreamInv'
<1> DEFINE requested == requestedOffset(offset, whence)
           unix == UnixOffset(offset, whence)
           departs == DepartsFromUnix(offset, whence)
<1>t. /\ buffer \in Seq(AnyBytes) /\ contents \in Seq(AnyBytes) /\ rawBytes \in Seq(AnyBytes)
      /\ flushed \in Seq(AnyBytes) /\ StreamKinds
      /\ ioOffset \in Nat /\ eofOffset \in Nat /\ ioOffset <= eofOffset /\ eofOffset <= Len(buffer)
      /\ Len(contents) = eofOffset /\ fileOffset = ioOffset
  BY DEF StreamInv, StreamBytes, StreamOffsets, HoldsContents
<1>u. UNCHANGED <<streamKind, ownsBuffer, rawBytes, flushed, flushFailed>>
  BY DEF seek, rawVars
<1>k. StreamKinds'
  BY <1>t, <1>u DEF StreamKinds
<1>r. requested \in Int /\ unix \in Int /\ (departs \/ (unix = requested /\ requested >= 0))
  <2>1. CASE whence = "SEEK_SET"
    BY <2>1, <1>t DEF requestedOffset, UnixOffset, DepartsFromUnix
  <2>2. CASE whence = "SEEK_CUR"
    BY <2>2, <1>t DEF requestedOffset, UnixOffset, DepartsFromUnix
  <2>3. CASE whence = "SEEK_END"
    BY <2>3, <1>t DEF requestedOffset, UnixOffset, DepartsFromUnix
  <2> QED
    BY <2>1, <2>2, <2>3
<1>d. departs \/ ~ (unix > eofOffset /\ ~ MayPrepare(unix))
  BY <1>t DEF DepartsFromUnix
<1>s. /\ IF requested <= eofOffset
         THEN ioOffset' = Larger(0, requested) /\ UNCHANGED <<buffer, eofOffset, contents>>
         ELSE IF MayPrepare(requested)
         THEN /\ buffer' \in Prepared(requested)
              /\ ioOffset' = Larger(0, requested) /\ eofOffset' = requested
              /\ contents' = contents \o JunkBytes(requested - eofOffset)
         ELSE ioOffset' = eofOffset /\ UNCHANGED <<buffer, eofOffset, contents>>
      /\ fileOffset' = IF departs THEN ioOffset' ELSE unix
  BY DEF seek
<1> HIDE DEF requested, unix, departs
<1>f. fileOffset' = ioOffset'
  <2>1. CASE departs
    BY <2>1, <1>s
  <2>2. CASE ~ departs
    <3>1. unix = requested /\ requested >= 0 /\ fileOffset' = requested
      BY <2>2, <1>r, <1>s
    <3>2. Larger(0, requested) = requested
      BY <3>1, <1>r DEF Larger
    <3>3. requested <= eofOffset \/ MayPrepare(requested)
      BY <2>2, <3>1, <1>d, <1>r, <1>t
    <3> QED
      BY <3>1, <3>2, <3>3, <1>s
  <2> QED
    BY <2>1, <2>2
<1>1. CASE ioOffset' \in 0..eofOffset /\ UNCHANGED <<buffer, eofOffset, contents>>
  <2>1. StreamBytes' /\ StreamOffsets'
    BY <1>1, <1>f, <1>t, <1>u DEF StreamBytes, StreamOffsets
  <2>2. HoldsContents' /\ HoldsFlushed'
    BY <1>1, <1>u DEF StreamInv, HoldsContents, HoldsFlushed, Carries
  <2> QED
    BY <2>1, <2>2, <1>k DEF StreamInv
<1>2. CASE requested > eofOffset /\ MayPrepare(requested)
  <2>0. requested \in Nat /\ Larger(0, requested) = requested /\ ~ (requested <= eofOffset)
    BY <1>2, <1>r, <1>t DEF Larger
  <2>1. /\ buffer' \in Prepared(requested) /\ ioOffset' = requested /\ eofOffset' = requested
        /\ contents' = contents \o JunkBytes(requested - eofOffset)
    BY <1>2, <2>0, <1>s
  <2>2. /\ buffer' \in Seq(AnyBytes) /\ Len(buffer') >= requested
        /\ \A i \in 1..eofOffset : buffer'[i] = buffer[i]
    BY <2>0, <2>1, PreparedKeeps
  <2> DEFINE more == JunkBytes(requested - eofOffset)
  <2>3. /\ more \in Seq(AnyBytes) /\ Len(more) = requested - eofOffset
        /\ \A i \in 1..requested - eofOffset : more[i] = Junk
    <3>1. requested - eofOffset \in Nat
      BY <1>2, <2>0, <1>t
    <3> QED
      BY <3>1, JunkBytesAre
  <2>4. contents' = contents \o more
    BY <2>1
  <2> HIDE DEF more
  <2>5. /\ contents \o more \in Seq(AnyBytes) /\ Len(contents \o more) = Len(contents) + Len(more)
        /\ \A i \in 1..Len(contents) + Len(more) :
              (contents \o more)[i] = IF i <= Len(contents) THEN contents[i] ELSE more[i - Len(contents)]
    BY <2>3, <1>t, ConcatProperties
  <2>6. Len(contents) + Len(more) = requested
    BY <2>0, <2>3, <1>2, <1>t
  <2>7. ASSUME NEW i \in 1..requested, contents'[i] # Junk PROVE buffer'[i] = contents'[i]
    <3>1. contents'[i] = IF i <= eofOffset THEN contents[i] ELSE more[i - eofOffset]
      BY <2>4, <2>5, <2>6, <1>t
    <3>2. CASE i <= eofOffset
      <4>1. i \in 1..eofOffset /\ contents'[i] = contents[i]
        BY <3>1, <3>2, <2>0, <1>t
      <4> QED
        BY <4>1, <2>2, <2>7 DEF StreamInv, HoldsContents
    <3>3. CASE ~ (i <= eofOffset)
      <4>1. i - eofOffset \in 1..requested - eofOffset
        BY <3>3, <2>0, <1>t
      <4> QED
        BY <4>1, <3>1, <3>3, <2>3, <2>7
    <3> QED
      BY <3>2, <3>3
  <2>8. HoldsContents'
    BY <2>1, <2>4, <2>5, <2>6, <2>7 DEF HoldsContents
  <2>9. HoldsFlushed'
    BY <1>u DEF StreamInv, HoldsFlushed, Carries
  <2>10. StreamBytes'
    BY <2>2, <2>4, <2>5, <1>t, <1>u DEF StreamBytes
  <2>11. StreamOffsets'
    BY <2>0, <2>1, <2>2, <1>f DEF StreamOffsets
  <2> QED
    BY <2>8, <2>9, <2>10, <2>11, <1>k DEF StreamInv
<1>3. \/ ioOffset' \in 0..eofOffset /\ UNCHANGED <<buffer, eofOffset, contents>>
      \/ requested > eofOffset /\ MayPrepare(requested)
  <2>1. requested <= eofOffset => Larger(0, requested) \in 0..eofOffset
    BY <1>r, <1>t DEF Larger
  <2>2. requested <= eofOffset \/ requested > eofOffset
    BY <1>r, <1>t
  <2>3. eofOffset \in 0..eofOffset
    BY <1>t
  <2> QED
    BY <2>1, <2>2, <2>3, <1>s
<1> QED
  BY <1>1, <1>2, <1>3

\* The end may be moved anywhere within the buffer.
LEMMA SetEOFStep ==
    ASSUME StreamInv, NEW eof \in Nat, setEOF(eof)
    PROVE  StreamInv'
<1>t. /\ buffer \in Seq(AnyBytes) /\ contents \in Seq(AnyBytes) /\ rawBytes \in Seq(AnyBytes)
      /\ flushed \in Seq(AnyBytes) /\ StreamKinds /\ Len(buffer) \in Nat
      /\ ioOffset \in Nat /\ eofOffset \in Nat /\ ioOffset <= eofOffset /\ eofOffset <= Len(buffer)
      /\ Len(contents) = eofOffset /\ fileOffset = ioOffset
  BY LenProperties DEF StreamInv, StreamBytes, StreamOffsets, HoldsContents
<1>u. /\ streamKind = "memory" /\ eofOffset' = Smaller(Len(buffer), eof)
      /\ ioOffset' = Smaller(eofOffset', ioOffset) /\ fileOffset' = Smaller(eofOffset', fileOffset)
      /\ contents' = [i \in 1..eofOffset' |-> IF i <= Len(contents) THEN contents[i] ELSE Junk]
      /\ UNCHANGED <<streamKind, ownsBuffer, buffer, rawBytes, flushed, flushFailed>>
  BY DEF setEOF, rawVars, mBufferSize
<1>1. eofOffset' \in Nat /\ eofOffset' <= Len(buffer) /\ ioOffset' \in Nat /\ ioOffset' <= eofOffset'
  BY <1>t, <1>u DEF Smaller
<1>2. ASSUME NEW i \in 1..eofOffset'
      PROVE  /\ i <= eofOffset => i \in 1..eofOffset
             /\ (IF i <= Len(contents) THEN contents[i] ELSE Junk) \in AnyBytes
  <2>1. i <= eofOffset => i \in 1..eofOffset
    BY <1>t
  <2>2. CASE i <= Len(contents)
    <3>1. contents[i] \in AnyBytes
      BY <2>1, <2>2, <1>t, ElementOfSeq
    <3> QED
      BY <2>1, <2>2, <3>1
  <2>3. CASE ~ (i <= Len(contents))
    BY <2>1, <2>3 DEF AnyBytes
  <2> QED
    BY <2>2, <2>3
<1>3. contents' \in Seq(AnyBytes) /\ Len(contents') = eofOffset'
  BY <1>1, <1>2, <1>u
<1>4. ASSUME NEW i \in 1..eofOffset', contents'[i] # Junk PROVE buffer'[i] = contents'[i]
  <2>1. contents'[i] = IF i <= Len(contents) THEN contents[i] ELSE Junk
    BY <1>u
  <2>2. i \in 1..eofOffset /\ contents'[i] = contents[i]
    BY <2>1, <1>2, <1>4, <1>t
  <2> QED
    BY <2>2, <1>4, <1>u DEF StreamInv, HoldsContents
<1>5. StreamBytes' /\ StreamKinds'
  BY <1>3, <1>t, <1>u DEF StreamBytes, StreamKinds
<1>6. StreamOffsets'
  BY <1>1, <1>t, <1>u DEF StreamOffsets
<1>7. HoldsContents' /\ HoldsFlushed'
  BY <1>3, <1>4, <1>u DEF HoldsContents, HoldsFlushed
<1> QED
  BY <1>5, <1>6, <1>7 DEF StreamInv

\* Another buffer: one of the caller's, or a copy of this one.
LEMMA OtherBufferStep ==
    ASSUME StreamInv, copyStream \/ \E b \in Bytes, size \in 1..2, adopts \in BOOLEAN :
                                       adoptBuffer(<<b>>, size, adopts)
    PROVE  StreamInv'
<1>t. /\ buffer \in Seq(AnyBytes) /\ contents \in Seq(AnyBytes) /\ rawBytes \in Seq(AnyBytes)
      /\ flushed \in Seq(AnyBytes) /\ StreamKinds /\ Len(buffer) \in Nat
      /\ fileOffset = ioOffset /\ ioOffset \in Nat /\ eofOffset \in Nat /\ ioOffset <= eofOffset /\ eofOffset <= Len(buffer)
  BY LenProperties DEF StreamInv, StreamBytes, StreamOffsets
<1>p. ASSUME NEW first \in Seq(AnyBytes), NEW n \in Nat
      PROVE  /\ first \o JunkBytes(n) \in Seq(AnyBytes) /\ Len(first \o JunkBytes(n)) = Len(first) + n
             /\ \A i \in 1..Len(first) : (first \o JunkBytes(n))[i] = first[i]
  <2>1. JunkBytes(n) \in Seq(AnyBytes) /\ Len(JunkBytes(n)) = n
    BY JunkBytesAre
  <2> DEFINE rest == JunkBytes(n)
  <2> HIDE DEF rest
  <2>2. /\ first \o rest \in Seq(AnyBytes) /\ Len(first \o rest) = Len(first) + Len(rest)
        /\ \A i \in 1..Len(first) + Len(rest) :
              (first \o rest)[i] = IF i <= Len(first) THEN first[i] ELSE rest[i - Len(first)]
    BY <2>1, ConcatProperties DEF rest
  <2>3. Len(rest) = n
    BY <2>1 DEF rest
  <2>4. \A i \in 1..Len(first) : i \in 1..Len(first) + n /\ i <= Len(first)
    BY LenProperties
  <2> QED
    BY <2>2, <2>3, <2>4 DEF rest
<1>1. CASE copyStream
  <2>1. /\ streamKind = "memory" /\ buffer' = SubSeq(buffer, 1, eofOffset) \o JunkBytes(Len(buffer) - eofOffset)
        /\ UNCHANGED <<streamKind, ownsBuffer, ioOffset, eofOffset, contents, fileOffset, rawBytes, flushed, flushFailed>>
    BY <1>1 DEF copyStream, offsets, fileHistory, rawVars, mBufferSize
  <2>2. /\ SubSeq(buffer, 1, eofOffset) \in Seq(AnyBytes) /\ Len(SubSeq(buffer, 1, eofOffset)) = eofOffset
        /\ \A i \in 1..eofOffset : SubSeq(buffer, 1, eofOffset)[i] = buffer[i]
    BY <1>t, FirstBytes
  <2>3. Len(buffer) - eofOffset \in Nat /\ eofOffset + (Len(buffer) - eofOffset) = Len(buffer)
    BY <1>t
  <2>4. /\ buffer' \in Seq(AnyBytes) /\ Len(buffer') = Len(buffer)
        /\ \A i \in 1..eofOffset : buffer'[i] = buffer[i]
    BY <2>1, <2>2, <2>3, <1>p
  <2>5. StreamKinds' /\ StreamBytes'
    BY <2>1, <2>4, <1>t DEF StreamKinds, StreamBytes
  <2>6. StreamOffsets'
    BY <2>1, <2>4, <1>t DEF StreamOffsets
  <2>7. HoldsContents' /\ HoldsFlushed'
    BY <2>1, <2>4 DEF StreamInv, HoldsContents, HoldsFlushed, Carries
  <2> QED
    BY <2>5, <2>6, <2>7 DEF StreamInv
<1>2. ASSUME NEW b \in Bytes, NEW size \in 1..2, NEW adopts \in BOOLEAN, adoptBuffer(<<b>>, size, adopts)
      PROVE  StreamInv'
  <2>1. /\ streamKind = "memory" /\ buffer' = <<b>> \o JunkBytes(size - Len(<<b>>))
        /\ ownsBuffer' = adopts /\ ioOffset' = 0 /\ eofOffset' = Len(<<b>>) /\ contents' = <<b>> /\ fileOffset' = 0
        /\ UNCHANGED <<streamKind, rawBytes, flushed, flushFailed>>
    BY <1>2 DEF adoptBuffer, rawVars
  <2>2. <<b>> \in Seq(AnyBytes) /\ Len(<<b>>) = 1 /\ size - 1 \in Nat
    BY DEF AnyBytes
  <2>3. /\ buffer' \in Seq(AnyBytes) /\ Len(buffer') = 1 + (size - 1)
        /\ \A i \in 1..1 : buffer'[i] = <<b>>[i]
    BY <2>1, <2>2, <1>p
  <2>4. StreamKinds'
    BY <2>1, <1>t DEF StreamKinds
  <2>5. StreamBytes'
    BY <2>1, <2>2, <2>3, <1>t DEF StreamBytes
  <2>6. StreamOffsets'
    BY <2>1, <2>2, <2>3 DEF StreamOffsets
  <2>7. HoldsContents' /\ HoldsFlushed'
    BY <2>1, <2>2, <2>3 DEF HoldsContents, HoldsFlushed
  <2> QED
    BY <2>4, <2>5, <2>6, <2>7 DEF StreamInv
<1> QED
  BY <1>1, <1>2

\* What is sent by flush after flush, byte by byte.
LEMMA CarriesOn ==
    ASSUME NEW r \in Seq(AnyBytes), NEW f \in Seq(AnyBytes), Carries(r, f),
           NEW s \in Seq(AnyBytes), NEW c \in Seq(AnyBytes), Carries(s, c)
    PROVE  Carries(r \o s, f \o c)
<1>1. /\ Len(f) = Len(r) /\ Len(c) = Len(s) /\ Len(r) \in Nat /\ Len(s) \in Nat
      /\ \A i \in 1..Len(f) : f[i] # Junk => r[i] = f[i]
      /\ \A i \in 1..Len(c) : c[i] # Junk => s[i] = c[i]
  BY LenProperties DEF Carries
<1>2. /\ Len(r \o s) = Len(r) + Len(s) /\ Len(f \o c) = Len(r) + Len(s)
      /\ \A i \in 1..Len(r) + Len(s) : (r \o s)[i] = IF i <= Len(r) THEN r[i] ELSE s[i - Len(r)]
      /\ \A i \in 1..Len(r) + Len(s) : (f \o c)[i] = IF i <= Len(r) THEN f[i] ELSE c[i - Len(r)]
  <2>1. /\ Len(r \o s) = Len(r) + Len(s)
        /\ \A i \in 1..Len(r) + Len(s) : (r \o s)[i] = IF i <= Len(r) THEN r[i] ELSE s[i - Len(r)]
    BY ConcatProperties
  <2>2. /\ Len(f \o c) = Len(f) + Len(c)
        /\ \A i \in 1..Len(f) + Len(c) : (f \o c)[i] = IF i <= Len(f) THEN f[i] ELSE c[i - Len(f)]
    BY ConcatProperties
  <2>3. Len(f) = Len(r) /\ Len(c) = Len(s)
    BY <1>1
  <2> QED
    BY ONLY <2>1, <2>2, <2>3
<1>3. ASSUME NEW i \in 1..Len(r) + Len(s), (f \o c)[i] # Junk PROVE (r \o s)[i] = (f \o c)[i]
  <2>1. CASE i <= Len(r)
    <3>1. i \in 1..Len(f)
      BY <2>1, <1>1
    <3>2. (f \o c)[i] = f[i] /\ (r \o s)[i] = r[i]
      BY <2>1, <1>2
    <3> QED
      BY <3>1, <3>2, <1>1, <1>3
  <2>2. CASE ~ (i <= Len(r))
    <3>1. i - Len(r) \in 1..Len(c)
      BY <2>2, <1>1
    <3>2. (f \o c)[i] = c[i - Len(r)] /\ (r \o s)[i] = s[i - Len(r)]
      BY <2>2, <1>2
    <3> QED
      BY <3>1, <3>2, <1>1, <1>3
  <2> QED
    BY <2>1, <2>2
<1> QED
  BY <1>2, <1>3 DEF Carries

\* A flush, whole or not, leaves the stream empty or as it was.
LEMMA FlushStep ==
    ASSUME StreamInv, NEW taken \in 0..eofOffset, flush(taken) \/ flushThrows(taken)
    PROVE  StreamInv'
<1> DEFINE portion == SubSeq(buffer, 1, taken)
<1>t. /\ buffer \in Seq(AnyBytes) /\ contents \in Seq(AnyBytes) /\ rawBytes \in Seq(AnyBytes)
      /\ flushed \in Seq(AnyBytes) /\ StreamKinds /\ Len(buffer) \in Nat
      /\ ioOffset \in Nat /\ eofOffset \in Nat /\ ioOffset <= eofOffset /\ eofOffset <= Len(buffer)
      /\ Len(contents) = eofOffset
  BY LenProperties DEF StreamInv, StreamBytes, StreamOffsets, HoldsContents
<1>1. /\ rawBytes' = rawBytes \o portion /\ ioOffset' = 0 /\ fileOffset' = 0
      /\ UNCHANGED <<streamKind, ownsBuffer, buffer>>
  BY DEF flush, flushThrows
<1>2. /\ portion \in Seq(AnyBytes) /\ Len(portion) = taken
      /\ \A i \in 1..taken : portion[i] = buffer[i]
  <2>1. taken \in 0..Len(buffer)
    BY <1>t
  <2> QED
    BY <2>1, <1>t, FirstBytes
<1> HIDE DEF portion
<1>3. rawBytes' \in Seq(AnyBytes)
  BY <1>1, <1>2, <1>t, ConcatProperties
<1>4. CASE flush(taken)
  <2>1. /\ eofOffset' = 0 /\ contents' = SubSeq(contents, 1, 0)
        /\ flushFailed' = (flushFailed \/ taken < eofOffset) /\ flushFailed' \in BOOLEAN
        /\ flushed' = IF flushFailed' THEN <<>> ELSE flushed \o contents
    BY <1>4, <1>t DEF flush, EofOnceFlushed, StreamKinds
  <2>2. contents' = <<>>
    BY <2>1, SubSeqEmpty
  <2>3. StreamKinds'
    BY <2>1, <1>1, <1>t DEF StreamKinds
  <2>4. flushed' \in Seq(AnyBytes)
    BY <2>1, <1>t, ConcatProperties, EmptySeq
  <2>5. StreamBytes' /\ StreamOffsets'
    BY <2>1, <2>2, <2>4, <1>1, <1>3, <1>t, EmptySeq DEF StreamBytes, StreamOffsets
  <2>6. HoldsContents'
    BY <2>1, <2>2 DEF HoldsContents
  <2>7. ASSUME streamKind = "buffered", ~ flushFailed' PROVE Carries(rawBytes', flushed')
    <3>1. ~ flushFailed /\ taken = eofOffset /\ flushed' = flushed \o contents
      <4>1. ~ flushFailed /\ ~ (taken < eofOffset) /\ flushed' = flushed \o contents
        BY ONLY <2>1, <2>7, Zenon
      <4>2. taken \in 0..eofOffset /\ eofOffset \in Nat
        BY <1>t
      <4>3. taken = eofOffset
        BY ONLY <4>1, <4>2
      <4> QED
        BY <4>1, <4>3
    <3>2. Carries(rawBytes, flushed)
      BY <2>7, <3>1 DEF StreamInv, HoldsFlushed
    <3>3. Carries(portion, contents)
      BY <3>1, <1>2, <1>t DEF StreamInv, HoldsContents, Carries
    <3> QED
      BY <3>1, <3>2, <3>3, <1>1, <1>2, <1>t, CarriesOn
  <2>8. HoldsFlushed'
    <3>1. UNCHANGED streamKind
      BY <1>1
    <3> QED
      BY <2>7, <3>1 DEF HoldsFlushed, Carries
  <2> QED
    BY <2>3, <2>5, <2>6, <2>8 DEF StreamInv
<1>5. CASE flushThrows(taken)
  <2>1. UNCHANGED <<eofOffset, contents>> /\ flushFailed' /\ flushFailed' \in BOOLEAN /\ flushed' = <<>>
    BY <1>5 DEF flushThrows
  <2>2. StreamKinds'
    BY <2>1, <1>1, <1>t DEF StreamKinds
  <2>3. StreamBytes' /\ StreamOffsets'
    BY <2>1, <1>1, <1>3, <1>t, EmptySeq DEF StreamBytes, StreamOffsets
  <2>4. HoldsContents' /\ HoldsFlushed'
    BY <2>1, <1>1 DEF StreamInv, HoldsContents, HoldsFlushed
  <2> QED
    BY <2>2, <2>3, <2>4 DEF StreamInv
<1> QED
  BY <1>4, <1>5

LEMMA StreamInvHolds == StreamSpec => []StreamInv
<1>1. StreamInv /\ [StreamNext]_streamVars => StreamInv'
  <2> SUFFICES ASSUME StreamInv, [StreamNext]_streamVars PROVE StreamInv'
    OBVIOUS
  <2>1. CASE UNCHANGED streamVars
    BY <2>1 DEF streamVars, offsets, fileHistory, rawVars, StreamInv, StreamKinds, StreamBytes,
                StreamOffsets, HoldsContents, HoldsFlushed, Carries
  <2>2. ASSUME NEW b \in Bytes, write(<<b>>) PROVE StreamInv'
    <3>1. <<b>> \in Seq(Bytes)
      OBVIOUS
    <3> QED
      BY ONLY StreamInv, <3>1, <2>2, WriteBytesStep
  <2>3. ASSUME NEW b \in Bytes, NEW c \in Bytes, write(<<b, c>>) PROVE StreamInv'
    <3>1. <<b, c>> \in Seq(Bytes)
      OBVIOUS
    <3> QED
      BY ONLY StreamInv, <3>1, <2>3, WriteBytesStep
  <2>4. CASE readOrSkip(1)
    <3>1. /\ ioOffset \in Nat /\ eofOffset \in Nat /\ ioOffset <= eofOffset
          /\ ioOffset' = ioOffset + (IF 1 < eofOffset - ioOffset THEN 1 ELSE eofOffset - ioOffset)
          /\ fileOffset' = IF ioOffset + 1 < eofOffset THEN ioOffset + 1 ELSE eofOffset
      BY <2>4 DEF readOrSkip, AtMostToEnd, Smaller, StreamInv, StreamOffsets, HoldsContents
    <3>2. ioOffset' \in Nat /\ ioOffset' <= eofOffset /\ ioOffset' = fileOffset'
      BY <3>1
    <3>3. UNCHANGED <<streamKind, ownsBuffer, buffer, eofOffset, contents, rawBytes, flushed, flushFailed>>
      BY <2>4 DEF readOrSkip, rawVars
    <3> QED
      BY <3>2, <3>3 DEF StreamInv, StreamKinds, StreamBytes, StreamOffsets, HoldsContents, HoldsFlushed, Carries
  <2>5. CASE orphanBuffer
    BY <2>5 DEF orphanBuffer, offsets, fileHistory, rawVars, StreamInv, StreamKinds, StreamBytes,
                StreamOffsets, HoldsContents, HoldsFlushed, Carries
  <2>6. ASSUME NEW offset \in (-MaxBufferSize)..MaxBufferSize,
               NEW whence \in {"SEEK_SET", "SEEK_CUR", "SEEK_END"}, seek(offset, whence)
        PROVE  StreamInv'
    BY <2>6, SeekStep
  <2>7. ASSUME NEW eof \in 0..MaxBufferSize, setEOF(eof) PROVE StreamInv'
    BY <2>7, SetEOFStep
  <2> QED
    BY <2>1, <2>2, <2>3, <2>4, <2>5, <2>6, <2>7, OtherBufferStep, FlushStep DEF StreamNext
<1> QED
  BY <1>1, StreamInvInit, PTL DEF StreamSpec

\* The stream's state has its types, and its offsets keep the order that the code
\* asserts (vmemorystream.cpp 443-450).
THEOREM StreamTypeCorrect == StreamSpec => []StreamTypeOK
<1>1. StreamInv => StreamTypeOK
  BY DEF StreamInv, StreamKinds, StreamBytes, StreamOffsets, StreamTypeOK, AnyBytes
<1> QED
  BY <1>1, StreamInvHolds, PTL

\* Whatever was written, read, sought, cut off and reallocated, the stream is where a file
\* would be and holds what that file would, and the raw stream of a write buffer has got what
\* was in it at each flush; but for seeks that depart from Unix and what they extend
\* (vmemorystream.cpp 145-157, 176-227 and 270-345, vwritebufferedstream.cpp 23-32).
THEOREM StreamsAreFiles == StreamSpec => []StreamIsAFile
<1>1. StreamInv => StreamIsAFile
  BY DEF StreamInv, StreamOffsets, HoldsContents, HoldsFlushed, StreamIsAFile
<1> QED
  BY <1>1, StreamInvHolds, PTL

-----------------------------------------------------------------------------
(* The threaded connection strategy *)

Busy(a) == worker[a] \in {"connecting", "succeeding", "failing"}
BeforeBatch == runner \in {"starting", "resolving"} \/ ~ resolved

\* Who still needs the runner: its list has exactly the workers yet to report,
\* and it waits for the list to empty and for the strategy.
Callers ==
    /\ \A a \in Addresses : a \in mWorkers <=> Busy(a)
    /\ BeforeBatch => \A a \in Addresses : worker[a] = "unborn"
    /\ ~ resolved => runner \in {"ending", "gone"}
    /\ runner \in {"waiting", "ending", "gone"} => mWorkers = {}
    /\ runner \in {"ending", "gone"} /\ resolved => mDetachedFromStrategy
    /\ mDetachedFromStrategy => strategy = "done"

\* The addresses left over are the ones that have no worker yet.
Leftovers ==
    /\ BeforeBatch => mIPAddressesYetToTry = <<>>
    /\ \A i \in 1..Len(mIPAddressesYetToTry) : worker[mIPAddressesYetToTry[i]] = "unborn"
    /\ \A i, j \in 1..Len(mIPAddressesYetToTry) :
          mIPAddressesYetToTry[i] = mIPAddressesYetToTry[j] => i = j
    /\ (~ BeforeBatch /\ ~ mConnectionCompleted /\ ~ expired) =>
          \A a \in Addresses : worker[a] = "unborn" =>
             \E i \in 1..Len(mIPAddressesYetToTry) : mIPAddressesYetToTry[i] = a

\* Which VSocket holds which socket, by control point.
Sockets ==
    /\ \A a \in Addresses :
          /\ tempSocket[a] \in {a, None}
          /\ tempSocket[a] = a => worker[a] \in {"succeeding", "ending"}
          /\ worker[a] = "succeeding" /\ tempSocket[a] = None => a \in socketless
          /\ mConnectedSocketID = a => worker[a] \in {"ending", "gone"} /\ tempSocket[a] = None
          /\ a \in open <=> (tempSocket[a] = a \/ mConnectedSocketID = a)
    /\ ~ mConnectionCompleted => mConnectedSocketID = None
    /\ mConnectionCompleted /\ mConnectedSocketID = None => socketless # {}
    /\ strategy \in {"detaching", "done"} =>
          mConnectedSocketID # None /\ socketToConnect = mConnectedSocketID

\* What a failed worker, and the answer of the last one, stand for.
Failures ==
    /\ \A a \in Addresses :
          /\ worker[a] = "failing" => a \in failed
          /\ worker[a] \in {"ending", "gone"} => a \in failed \/ mConnectionCompleted
    /\ mAllWorkersFailed /\ ~ expired /\ ~ mConnectionCompleted => failed = Addresses
    /\ strategy = "asking" => HasAnswer
    /\ ThrowsWhenAllFailed

ConnectInv == TypeOK /\ Callers /\ Leftovers /\ Sockets /\ Failures

-----------------------------------------------------------------------------
\* The first batch is an initial segment of the addresses, within the limit.
LEMMA FirstBatchFacts ==
    /\ FirstBatch \subseteq Addresses
    /\ \E k \in 0..NumAddresses :
          FirstBatch = 1..k /\ IsFiniteSet(FirstBatch) /\ Cardinality(FirstBatch) = k
          /\ (MaxNumThreads >= 0 => k <= MaxNumThreads)
<1> USE ConstantsAssumption DEF FirstBatch, Addresses
<1>1. CASE MaxNumThreads \in 0..NumAddresses
    <2>1. IsFiniteSet(1..MaxNumThreads) /\ Cardinality(1..MaxNumThreads) = MaxNumThreads
        BY <1>1, FS_Interval
    <2> QED
        BY <1>1, <2>1
<1>2. CASE MaxNumThreads \notin 0..NumAddresses
    <2>1. IsFiniteSet(1..NumAddresses) /\ Cardinality(1..NumAddresses) = NumAddresses
        BY FS_Interval
    <2> QED
        BY <1>2, <2>1
<1> QED
    BY <1>1, <1>2

\* The rest of the addresses, in order, are left over.
Rest(k) == [i \in 1..(NumAddresses - k) |-> k + i]

LEMMA RestFacts ==
    ASSUME NEW k \in 0..NumAddresses
    PROVE  /\ Rest(k) \in Seq(Addresses) /\ Len(Rest(k)) = NumAddresses - k
           /\ \A i \in 1..(NumAddresses - k) : Rest(k)[i] = k + i
           /\ \A a \in Addresses :
                 a \notin 1..k => \E i \in 1..(NumAddresses - k) : Rest(k)[i] = a
<1> USE ConstantsAssumption DEF Addresses, Rest
<1>1. Rest(k) \in Seq(Addresses) /\ Len(Rest(k)) = NumAddresses - k
    OBVIOUS
<1>2. \A i \in 1..(NumAddresses - k) : Rest(k)[i] = k + i
    BY <1>1
<1>3. ASSUME NEW a \in Addresses, a \notin 1..k
      PROVE  \E i \in 1..(NumAddresses - k) : Rest(k)[i] = a
    <2>1. a - k \in 1..(NumAddresses - k) /\ Rest(k)[a - k] = a
        BY <1>1, <1>2, <1>3
    <2> QED
        BY <2>1
<1> QED
    BY <1>1, <1>2, <1>3

\* What the runner leaves behind when it has started its first batch.
LEMMA StartFacts ==
    ASSUME StartWorkers, \A a \in Addresses : worker[a] = "unborn"
    PROVE  /\ mWorkers' \subseteq Addresses
           /\ worker' = [a \in Addresses |-> IF a \in mWorkers' THEN "connecting" ELSE worker[a]]
           /\ mIPAddressesYetToTry' \in Seq(Addresses)
           /\ \A i \in 1..Len(mIPAddressesYetToTry') : mIPAddressesYetToTry'[i] \notin mWorkers'
           /\ \A i, j \in 1..Len(mIPAddressesYetToTry') :
                 mIPAddressesYetToTry'[i] = mIPAddressesYetToTry'[j] => i = j
           /\ \A a \in Addresses : a \notin mWorkers' =>
                 \E i \in 1..Len(mIPAddressesYetToTry') : mIPAddressesYetToTry'[i] = a
<1>1. PICK k \in 0..NumAddresses : FirstBatch = 1..k /\ Cardinality(FirstBatch) = k
    BY FirstBatchFacts
<1>2. mWorkers' = 1..k /\ mIPAddressesYetToTry' = Rest(k)
    BY <1>1 DEF StartWorkers, Rest
<1>3. mWorkers' \subseteq Addresses
    BY <1>1, <1>2, FirstBatchFacts
<1>4. worker' = [a \in Addresses |-> IF a \in mWorkers' THEN "connecting" ELSE worker[a]]
    BY DEF StartWorkers
<1>5. Rest(k) \in Seq(Addresses) /\ Len(Rest(k)) = NumAddresses - k
    BY RestFacts
<1>6. \A i \in 1..(NumAddresses - k) : Rest(k)[i] = k + i
    BY RestFacts
<1>7. \A i \in 1..(NumAddresses - k) : Rest(k)[i] \notin 1..k
    BY <1>6, ConstantsAssumption
<1>8. \A i, j \in 1..(NumAddresses - k) : Rest(k)[i] = Rest(k)[j] => i = j
    BY <1>6, ConstantsAssumption
<1>9. \A a \in Addresses : a \notin 1..k => \E i \in 1..(NumAddresses - k) : Rest(k)[i] = a
    BY RestFacts
<1> QED
    BY <1>2, <1>3, <1>4, <1>5, <1>7, <1>8, <1>9

\* What a failed worker leaves behind: either the next address has its worker, or
\* no worker is started, because there is none to start or no time for it.
LEMMA FailureFacts ==
    ASSUME NEW a \in Addresses, WorkerFailed(a), TypeOK, Callers, Leftovers
    PROVE  \/ \E next \in Addresses :
                /\ next = Head(mIPAddressesYetToTry) /\ mIPAddressesYetToTry # <<>>
                /\ next # a /\ worker[next] = "unborn" /\ ~ mConnectionCompleted /\ ~ expired
                /\ mWorkers' = (mWorkers \ {a}) \cup {next}
                /\ worker' = [worker EXCEPT ![a] = "ending", ![next] = "connecting"]
                /\ mIPAddressesYetToTry' = Tail(mIPAddressesYetToTry)
                /\ mIPAddressesYetToTry' \in Seq(Addresses)
                /\ mAllWorkersFailed' = mAllWorkersFailed
           \/ /\ mConnectionCompleted \/ expired \/ mIPAddressesYetToTry = <<>>
              /\ mWorkers' = mWorkers \ {a}
              /\ worker' = [worker EXCEPT ![a] = "ending"]
              /\ mIPAddressesYetToTry' \in {mIPAddressesYetToTry, <<>>}
              /\ mIPAddressesYetToTry' \in Seq(Addresses)
              /\ mAllWorkersFailed' \in BOOLEAN
              /\ mAllWorkersFailed => mAllWorkersFailed'
              /\ mAllWorkersFailed' => mAllWorkersFailed \/ expired \/ mWorkers' = {}
<1> USE ConstantsAssumption DEF WorkerFailed, NextWorker, LastWorkerFailed
<1> DEFINE next == Head(mIPAddressesYetToTry)
<1>1. CASE ~ mConnectionCompleted /\ mIPAddressesYetToTry # <<>> /\ ~ expired
    <2>1. 1 \in 1..Len(mIPAddressesYetToTry) /\ next = mIPAddressesYetToTry[1] /\ next \in Addresses
        BY <1>1 DEF TypeOK
    <2>2. worker[next] = "unborn" /\ next # a
        BY <2>1 DEF Leftovers
    <2>3. mWorkers' = (mWorkers \ {a}) \cup {next} /\ mIPAddressesYetToTry' = Tail(mIPAddressesYetToTry)
        BY <1>1
    <2>4. worker' = [worker EXCEPT ![a] = "ending", ![next] = "connecting"]
        BY <1>1, <2>1, <2>2 DEF TypeOK
    <2>5. mAllWorkersFailed' = mAllWorkersFailed
        BY <1>1, <2>3 DEF TypeOK
    <2>6. mIPAddressesYetToTry' \in Seq(Addresses)
        BY <1>1, <2>3 DEF TypeOK
    <2> QED
        BY <1>1, <2>1, <2>2, <2>3, <2>4, <2>5, <2>6
<1>2. CASE ~ (~ mConnectionCompleted /\ mIPAddressesYetToTry # <<>> /\ ~ expired)
    <2>1. mWorkers' = mWorkers \ {a} /\ mIPAddressesYetToTry' \in {mIPAddressesYetToTry, <<>>}
        BY <1>2 DEF TypeOK
    <2>2. worker' = [worker EXCEPT ![a] = "ending"]
        BY <1>2 DEF TypeOK
    <2>3. mAllWorkersFailed' \in BOOLEAN /\ (mAllWorkersFailed => mAllWorkersFailed')
        OBVIOUS
    <2>4. mAllWorkersFailed' => mAllWorkersFailed \/ expired \/ mWorkers' = {}
        OBVIOUS
    <2>5. mIPAddressesYetToTry' \in Seq(Addresses)
        BY <2>1 DEF TypeOK
    <2> QED
        BY <1>2, <2>1, <2>2, <2>3, <2>4, <2>5
<1> QED
    BY <1>1, <1>2

\* Every step keeps the types.
LEMMA TypeStep == ConnectInv /\ [Next]_vars => TypeOK'
<1> SUFFICES ASSUME ConnectInv, [Next]_vars PROVE TypeOK'
    OBVIOUS
<1> USE ConstantsAssumption DEF ConnectInv, TypeOK
<1>1. CASE Poll
    BY <1>1 DEF Poll, strategyVars, runnerVars, answerVars, workerVars, WorkerFrame
<1>2. CASE TakeSocket
    BY <1>2 DEF TakeSocket, strategyVars, runnerVars, answerVars, workerVars, WorkerFrame
<1>3. CASE Detach
    BY <1>3 DEF Detach, strategyVars, runnerVars, answerVars, workerVars, WorkerFrame
<1>4. CASE RunnerLock
    BY <1>4 DEF RunnerLock, strategyVars, runnerVars, answerVars, workerVars, WorkerFrame
<1>5. CASE StartWorkers
    <2>1. \A a \in Addresses : worker[a] = "unborn"
        BY <1>5 DEF StartWorkers, ConnectInv, Callers, BeforeBatch
    <2> QED
        BY <1>5, <2>1, StartFacts DEF StartWorkers, strategyVars, runnerVars, answerVars, workerVars, WorkerFrame
<1>6. CASE ResolveFails
    BY <1>6 DEF ResolveFails, strategyVars, runnerVars, answerVars, workerVars, WorkerFrame
<1>7. CASE SeeDone
    BY <1>7 DEF SeeDone, strategyVars, runnerVars, answerVars, workerVars, WorkerFrame
<1>8. CASE SeeDetached
    BY <1>8 DEF SeeDetached, strategyVars, runnerVars, answerVars, workerVars, WorkerFrame
<1>9. CASE DeleteRunner
    BY <1>9 DEF DeleteRunner, strategyVars, runnerVars, answerVars, workerVars, WorkerFrame
<1>10. CASE Expire
    BY <1>10 DEF Expire, strategyVars, runnerVars, answerVars, workerVars, WorkerFrame
<1>11. ASSUME NEW a \in Addresses, Connects(a) PROVE TypeOK'
    BY <1>11 DEF Connects, CanLock, strategyVars, runnerVars, answerVars, workerVars, WorkerFrame
<1>12. ASSUME NEW a \in Addresses, ConnectFails(a) PROVE TypeOK'
    BY <1>12 DEF ConnectFails, CanLock, strategyVars, runnerVars, answerVars, workerVars, WorkerFrame
<1>13. ASSUME NEW a \in Addresses, GetsNoSocket(a) PROVE TypeOK'
    BY <1>13 DEF GetsNoSocket, CanLock, strategyVars, runnerVars, answerVars, workerVars, WorkerFrame
<1>14. ASSUME NEW a \in Addresses, WorkerSucceeded(a) PROVE TypeOK'
    <2>1. UNCHANGED <<strategy, socketToConnect, runner, resolved, expired,
                     mDetachedFromStrategy, mIPAddressesYetToTry, mAllWorkersFailed, open,
                     failed, socketless>>
        BY <1>14 DEF WorkerSucceeded, strategyVars, runnerVars
    <2>2. mWorkers' = mWorkers \ {a} /\ worker' = [worker EXCEPT ![a] = "ending"]
        BY <1>14 DEF WorkerSucceeded
    <2>3. /\ mConnectedSocketID' \in {mConnectedSocketID, tempSocket[a]}
          /\ mConnectionCompleted' \in BOOLEAN
          /\ tempSocket' \in {tempSocket, [tempSocket EXCEPT ![a] = None]}
        BY <1>14 DEF WorkerSucceeded, ReleaseTempSocket, answerVars
    <2>4. /\ mConnectedSocketID' \in Addresses \cup {None}
          /\ tempSocket' \in [Addresses -> Addresses \cup {None}]
        <3>1. /\ tempSocket \in [Addresses -> Addresses \cup {None}]
              /\ mConnectedSocketID \in Addresses \cup {None}
            OBVIOUS
        <3>2. tempSocket[a] \in Addresses \cup {None}
            BY ONLY <3>1, a \in Addresses
        <3> QED
            BY ONLY <2>3, <3>1, <3>2
    <2>5. /\ worker' \in [Addresses -> {"unborn", "connecting", "succeeding", "failing",
                                       "ending", "gone"}]
          /\ mWorkers' \subseteq Addresses
        BY <2>2
    <2>6. /\ strategy' = strategy /\ socketToConnect' = socketToConnect /\ runner' = runner
          /\ resolved' = resolved /\ expired' = expired
          /\ mDetachedFromStrategy' = mDetachedFromStrategy
          /\ mIPAddressesYetToTry' = mIPAddressesYetToTry
          /\ mAllWorkersFailed' = mAllWorkersFailed
          /\ open' = open /\ failed' = failed /\ socketless' = socketless
        BY <2>1
    <2> QED
        BY <2>3, <2>4, <2>5, <2>6
<1>15. ASSUME NEW a \in Addresses, WorkerFailed(a) PROVE TypeOK'
    <2>1. UNCHANGED <<strategyVars, runnerVars, expired, mDetachedFromStrategy, answerVars,
                     tempSocket, open, failed, socketless>>
        BY <1>15 DEF WorkerFailed
    <2>2. UNCHANGED <<strategy, socketToConnect, runner, resolved, mConnectionCompleted,
                     mConnectedSocketID>>
        BY <2>1 DEF strategyVars, runnerVars, answerVars
    <2>3. mIPAddressesYetToTry' \in Seq(Addresses) /\ mAllWorkersFailed' \in BOOLEAN
        BY <1>15, FailureFacts
    <2>4. mWorkers' \subseteq Addresses
        BY <1>15, FailureFacts
    <2>5. worker' \in [Addresses -> {"unborn", "connecting", "succeeding", "failing",
                                    "ending", "gone"}]
        BY <1>15, FailureFacts
    <2> QED
        BY <2>1, <2>2, <2>3, <2>4, <2>5
<1>16. ASSUME NEW a \in Addresses, WorkerEnds(a) PROVE TypeOK'
    BY <1>16 DEF WorkerEnds, CanLock, strategyVars, runnerVars, answerVars, workerVars, WorkerFrame
<1>17. CASE UNCHANGED vars
    BY <1>17 DEF vars
<1> QED
    BY <1>1, <1>2, <1>3, <1>4, <1>5, <1>6, <1>7, <1>8, <1>9, <1>10, <1>11, <1>12, <1>13, <1>14, <1>15, <1>16, <1>17
       DEF Next, StrategyStep, RunnerStep, WorkerStep

\* Nobody is forgotten who still has to call the runner.
LEMMA CallersStep == ConnectInv /\ [Next]_vars => Callers'
<1> SUFFICES ASSUME ConnectInv, [Next]_vars PROVE Callers'
    OBVIOUS
<1> USE ConstantsAssumption DEF ConnectInv, TypeOK, Callers, Busy, BeforeBatch
<1>1. CASE Poll
    BY <1>1 DEF Poll, strategyVars, runnerVars, answerVars, workerVars, WorkerFrame
<1>2. CASE TakeSocket
    BY <1>2 DEF TakeSocket, strategyVars, runnerVars, answerVars, workerVars, WorkerFrame
<1>3. CASE Detach
    BY <1>3 DEF Detach, strategyVars, runnerVars, answerVars, workerVars, WorkerFrame
<1>4. CASE RunnerLock
    BY <1>4 DEF RunnerLock, strategyVars, runnerVars, answerVars, workerVars, WorkerFrame
<1>5. CASE StartWorkers
    <2>1. \A a \in Addresses : worker[a] = "unborn"
        BY <1>5 DEF StartWorkers, ConnectInv, Callers, BeforeBatch
    <2> QED
        BY <1>5, <2>1, StartFacts DEF StartWorkers, strategyVars, runnerVars, answerVars, workerVars, WorkerFrame
<1>6. CASE ResolveFails
    BY <1>6 DEF ResolveFails, strategyVars, runnerVars, answerVars, workerVars, WorkerFrame
<1>7. CASE SeeDone
    BY <1>7 DEF SeeDone, strategyVars, runnerVars, answerVars, workerVars, WorkerFrame
<1>8. CASE SeeDetached
    BY <1>8 DEF SeeDetached, strategyVars, runnerVars, answerVars, workerVars, WorkerFrame
<1>9. CASE DeleteRunner
    BY <1>9 DEF DeleteRunner, strategyVars, runnerVars, answerVars, workerVars, WorkerFrame
<1>10. CASE Expire
    BY <1>10 DEF Expire, strategyVars, runnerVars, answerVars, workerVars, WorkerFrame
<1>11. ASSUME NEW a \in Addresses, Connects(a) PROVE Callers'
    BY <1>11 DEF Connects, CanLock, strategyVars, runnerVars, answerVars, workerVars, WorkerFrame
<1>12. ASSUME NEW a \in Addresses, ConnectFails(a) PROVE Callers'
    BY <1>12 DEF ConnectFails, CanLock, strategyVars, runnerVars, answerVars, workerVars, WorkerFrame
<1>13. ASSUME NEW a \in Addresses, GetsNoSocket(a) PROVE Callers'
    BY <1>13 DEF GetsNoSocket, CanLock, strategyVars, runnerVars, answerVars, workerVars, WorkerFrame
<1>14. ASSUME NEW a \in Addresses, WorkerSucceeded(a) PROVE Callers'
    BY <1>14 DEF WorkerSucceeded, ReleaseTempSocket, CanLock, strategyVars, runnerVars, answerVars, workerVars, WorkerFrame
<1>15. ASSUME NEW a \in Addresses, WorkerFailed(a) PROVE Callers'
    BY <1>15, FailureFacts DEF WorkerFailed, CanLock, strategyVars, runnerVars, answerVars, workerVars, WorkerFrame
<1>16. ASSUME NEW a \in Addresses, WorkerEnds(a) PROVE Callers'
    BY <1>16 DEF WorkerEnds, CanLock, strategyVars, runnerVars, answerVars, workerVars, WorkerFrame
<1>17. CASE UNCHANGED vars
    BY <1>17 DEF vars
<1> QED
    BY <1>1, <1>2, <1>3, <1>4, <1>5, <1>6, <1>7, <1>8, <1>9, <1>10, <1>11, <1>12, <1>13, <1>14, <1>15, <1>16, <1>17
       DEF Next, StrategyStep, RunnerStep, WorkerStep

\* An address is either left over or has had its worker.
LEMMA LeftoversStep == ConnectInv /\ [Next]_vars => Leftovers'
<1> SUFFICES ASSUME ConnectInv, [Next]_vars PROVE Leftovers'
    OBVIOUS
<1> USE ConstantsAssumption DEF ConnectInv, TypeOK, Callers, Leftovers, Busy, BeforeBatch
<1>1. CASE Poll
    BY <1>1 DEF Poll, strategyVars, runnerVars, answerVars, workerVars, WorkerFrame
<1>2. CASE TakeSocket
    BY <1>2 DEF TakeSocket, strategyVars, runnerVars, answerVars, workerVars, WorkerFrame
<1>3. CASE Detach
    BY <1>3 DEF Detach, strategyVars, runnerVars, answerVars, workerVars, WorkerFrame
<1>4. CASE RunnerLock
    BY <1>4 DEF RunnerLock, strategyVars, runnerVars, answerVars, workerVars, WorkerFrame
<1>5. CASE StartWorkers
    <2>1. \A a \in Addresses : worker[a] = "unborn"
        BY <1>5 DEF StartWorkers, ConnectInv, Callers, BeforeBatch
    <2>2. resolved' /\ runner' = "working"
        BY <1>5 DEF StartWorkers
    <2>3. worker' = [a \in Addresses |-> IF a \in mWorkers' THEN "connecting" ELSE worker[a]]
        BY <1>5, <2>1, StartFacts
    <2>4. \A i \in 1..Len(mIPAddressesYetToTry') :
             mIPAddressesYetToTry'[i] \in Addresses \ mWorkers'
        BY <1>5, <2>1, StartFacts
    <2>5. \A i \in 1..Len(mIPAddressesYetToTry') : worker'[mIPAddressesYetToTry'[i]] = "unborn"
        BY <2>1, <2>3, <2>4
    <2>6. \A i, j \in 1..Len(mIPAddressesYetToTry') :
             mIPAddressesYetToTry'[i] = mIPAddressesYetToTry'[j] => i = j
        BY <1>5, <2>1, StartFacts
    <2>7. \A a \in Addresses : worker'[a] = "unborn" =>
             \E i \in 1..Len(mIPAddressesYetToTry') : mIPAddressesYetToTry'[i] = a
        BY <1>5, <2>1, <2>3, StartFacts
    <2> QED
        BY <2>2, <2>5, <2>6, <2>7
<1>6. CASE ResolveFails
    BY <1>6 DEF ResolveFails, strategyVars, runnerVars, answerVars, workerVars, WorkerFrame
<1>7. CASE SeeDone
    BY <1>7 DEF SeeDone, strategyVars, runnerVars, answerVars, workerVars, WorkerFrame
<1>8. CASE SeeDetached
    BY <1>8 DEF SeeDetached, strategyVars, runnerVars, answerVars, workerVars, WorkerFrame
<1>9. CASE DeleteRunner
    BY <1>9 DEF DeleteRunner, strategyVars, runnerVars, answerVars, workerVars, WorkerFrame
<1>10. CASE Expire
    BY <1>10 DEF Expire, strategyVars, runnerVars, answerVars, workerVars, WorkerFrame
<1>11. ASSUME NEW a \in Addresses, Connects(a) PROVE Leftovers'
    BY <1>11 DEF Connects, CanLock, strategyVars, runnerVars, answerVars, workerVars, WorkerFrame
<1>12. ASSUME NEW a \in Addresses, ConnectFails(a) PROVE Leftovers'
    BY <1>12 DEF ConnectFails, CanLock, strategyVars, runnerVars, answerVars, workerVars, WorkerFrame
<1>13. ASSUME NEW a \in Addresses, GetsNoSocket(a) PROVE Leftovers'
    BY <1>13 DEF GetsNoSocket, CanLock, strategyVars, runnerVars, answerVars, workerVars, WorkerFrame
<1>14. ASSUME NEW a \in Addresses, WorkerSucceeded(a) PROVE Leftovers'
    BY <1>14 DEF WorkerSucceeded, ReleaseTempSocket, CanLock, strategyVars, runnerVars, answerVars, workerVars, WorkerFrame
<1>15. ASSUME NEW a \in Addresses, WorkerFailed(a) PROVE Leftovers'
    <2> DEFINE q == mIPAddressesYetToTry
    <2>1. CASE q' = q /\ (mConnectionCompleted \/ expired \/ q = <<>>) /\ worker' = [worker EXCEPT ![a] = "ending"]
        BY <1>15, <2>1 DEF WorkerFailed, CanLock, strategyVars, runnerVars, answerVars, workerVars, WorkerFrame
    <2>2. CASE q' = <<>> /\ (mConnectionCompleted \/ expired \/ q = <<>>) /\ worker' = [worker EXCEPT ![a] = "ending"]
        BY <1>15, <2>2 DEF WorkerFailed, CanLock, strategyVars, runnerVars, answerVars, workerVars, WorkerFrame
    <2>3. ASSUME NEW next \in Addresses, next = Head(q), q # <<>>, q' = Tail(q), ~ expired, ~ mConnectionCompleted,
                 worker' = [worker EXCEPT ![a] = "ending", ![next] = "connecting"]
          PROVE  Leftovers'
        <3>1. /\ q \in Seq(Addresses) /\ next = q[1]
              /\ q' \in Seq(Addresses) /\ Len(q) = Len(q') + 1 /\ Len(q') \in Nat
              /\ \A i \in 1..Len(q') : q'[i] = q[i + 1]
            BY <2>3
        <3>2. \A i \in 1..Len(q') : i + 1 \in 1..Len(q) /\ 1 \in 1..Len(q) /\ i + 1 # 1
            BY <3>1
        <3>3. \A i \in 1..Len(q') : q'[i] # next /\ q'[i] # a /\ worker'[q'[i]] = "unborn"
            BY <1>15, <2>3, <3>1, <3>2 DEF WorkerFailed
        <3>4. \A i, j \in 1..Len(q') : q'[i] = q'[j] => i = j
            <4> TAKE i, j \in 1..Len(q')
            <4>1. q[i + 1] = q[j + 1] => i + 1 = j + 1
                BY <3>2
            <4> QED
                BY <3>1, <4>1
        <3>5. ASSUME NEW b \in Addresses, worker'[b] = "unborn", ~ BeforeBatch
              PROVE  \E i \in 1..Len(q') : q'[i] = b
            <4>1. worker[b] = "unborn" /\ b # next
                BY <2>3, <3>5
            <4>2. PICK j \in 1..Len(q) : q[j] = b
                BY <2>3, <3>5, <4>1
            <4>3. j # 1
                BY <3>1, <4>1, <4>2
            <4>4. j - 1 \in 1..Len(q') /\ (j - 1) + 1 = j
                BY <3>1, <4>2, <4>3
            <4>5. q'[j - 1] = q[(j - 1) + 1]
                BY <3>1, <4>4
            <4> QED
                BY <4>2, <4>4, <4>5
        <3>6. ~ BeforeBatch /\ runner' = runner /\ resolved' = resolved
            BY <1>15, <2>3 DEF WorkerFailed, runnerVars
        <3> QED
            BY <3>3, <3>4, <3>5, <3>6
    <2> QED
        BY <1>15, <2>1, <2>2, <2>3, FailureFacts
<1>16. ASSUME NEW a \in Addresses, WorkerEnds(a) PROVE Leftovers'
    BY <1>16 DEF WorkerEnds, CanLock, strategyVars, runnerVars, answerVars, workerVars, WorkerFrame
<1>17. CASE UNCHANGED vars
    BY <1>17 DEF vars
<1> QED
    BY <1>1, <1>2, <1>3, <1>4, <1>5, <1>6, <1>7, <1>8, <1>9, <1>10, <1>11, <1>12, <1>13, <1>14, <1>15, <1>16, <1>17
       DEF Next, StrategyStep, RunnerStep, WorkerStep

\* No socket changes hands but from a worker to the runner.
LEMMA SocketsStep == ConnectInv /\ [Next]_vars => Sockets'
<1> SUFFICES ASSUME ConnectInv, [Next]_vars PROVE Sockets'
    OBVIOUS
<1> USE ConstantsAssumption DEF ConnectInv, TypeOK, Callers, Sockets, Busy, BeforeBatch
<1>1. CASE Poll
    BY <1>1 DEF Poll, strategyVars, runnerVars, answerVars, workerVars, WorkerFrame
<1>2. CASE TakeSocket
    BY <1>2 DEF TakeSocket, strategyVars, runnerVars, answerVars, workerVars, WorkerFrame
<1>3. CASE Detach
    BY <1>3 DEF Detach, strategyVars, runnerVars, answerVars, workerVars, WorkerFrame
<1>4. CASE RunnerLock
    BY <1>4 DEF RunnerLock, strategyVars, runnerVars, answerVars, workerVars, WorkerFrame
<1>5. CASE StartWorkers
    <2>1. \A a \in Addresses : worker[a] = "unborn"
        BY <1>5 DEF StartWorkers, ConnectInv, Callers, BeforeBatch
    <2> QED
        BY <1>5, <2>1, StartFacts DEF StartWorkers, strategyVars, runnerVars, answerVars, workerVars, WorkerFrame
<1>6. CASE ResolveFails
    BY <1>6 DEF ResolveFails, strategyVars, runnerVars, answerVars, workerVars, WorkerFrame
<1>7. CASE SeeDone
    BY <1>7 DEF SeeDone, strategyVars, runnerVars, answerVars, workerVars, WorkerFrame
<1>8. CASE SeeDetached
    BY <1>8 DEF SeeDetached, strategyVars, runnerVars, answerVars, workerVars, WorkerFrame
<1>9. CASE DeleteRunner
    BY <1>9 DEF DeleteRunner, strategyVars, runnerVars, answerVars, workerVars, WorkerFrame
<1>10. CASE Expire
    BY <1>10 DEF Expire, strategyVars, runnerVars, answerVars, workerVars, WorkerFrame
<1>11. ASSUME NEW a \in Addresses, Connects(a) PROVE Sockets'
    BY <1>11 DEF Connects, CanLock, strategyVars, runnerVars, answerVars, workerVars, WorkerFrame
<1>12. ASSUME NEW a \in Addresses, ConnectFails(a) PROVE Sockets'
    BY <1>12 DEF ConnectFails, CanLock, strategyVars, runnerVars, answerVars, workerVars, WorkerFrame
<1>13. ASSUME NEW a \in Addresses, GetsNoSocket(a) PROVE Sockets'
    BY <1>13 DEF GetsNoSocket, CanLock, strategyVars, runnerVars, answerVars, workerVars, WorkerFrame
<1>14. ASSUME NEW a \in Addresses, WorkerSucceeded(a) PROVE Sockets'
    BY <1>14 DEF WorkerSucceeded, ReleaseTempSocket, CanLock, strategyVars, runnerVars, answerVars, workerVars, WorkerFrame
<1>15. ASSUME NEW a \in Addresses, WorkerFailed(a) PROVE Sockets'
    BY <1>15, FailureFacts DEF WorkerFailed, CanLock, strategyVars, runnerVars, answerVars, workerVars, WorkerFrame
<1>16. ASSUME NEW a \in Addresses, WorkerEnds(a) PROVE Sockets'
    BY <1>16 DEF WorkerEnds, CanLock, strategyVars, runnerVars, answerVars, workerVars, WorkerFrame
<1>17. CASE UNCHANGED vars
    BY <1>17 DEF vars
<1> QED
    BY <1>1, <1>2, <1>3, <1>4, <1>5, <1>6, <1>7, <1>8, <1>9, <1>10, <1>11, <1>12, <1>13, <1>14, <1>15, <1>16, <1>17
       DEF Next, StrategyStep, RunnerStep, WorkerStep

\* A failure is reported as the last one only when it is.
LEMMA FailuresStep == ConnectInv /\ [Next]_vars => Failures'
<1> SUFFICES ASSUME ConnectInv, [Next]_vars PROVE Failures'
    OBVIOUS
<1> USE ConstantsAssumption DEF ConnectInv, TypeOK, Callers, Leftovers, Sockets, Failures, Busy, BeforeBatch, HasAnswer, ThrowsWhenAllFailed
<1>1. CASE Poll
    BY <1>1 DEF Poll, strategyVars, runnerVars, answerVars, workerVars, WorkerFrame
<1>2. CASE TakeSocket
    BY <1>2 DEF TakeSocket, strategyVars, runnerVars, answerVars, workerVars, WorkerFrame
<1>3. CASE Detach
    BY <1>3 DEF Detach, strategyVars, runnerVars, answerVars, workerVars, WorkerFrame
<1>4. CASE RunnerLock
    BY <1>4 DEF RunnerLock, strategyVars, runnerVars, answerVars, workerVars, WorkerFrame
<1>5. CASE StartWorkers
    <2>1. \A a \in Addresses : worker[a] = "unborn"
        BY <1>5 DEF StartWorkers, ConnectInv, Callers, BeforeBatch
    <2> QED
        BY <1>5, <2>1, StartFacts DEF StartWorkers, strategyVars, runnerVars, answerVars, workerVars, WorkerFrame
<1>6. CASE ResolveFails
    BY <1>6 DEF ResolveFails, strategyVars, runnerVars, answerVars, workerVars, WorkerFrame
<1>7. CASE SeeDone
    BY <1>7 DEF SeeDone, strategyVars, runnerVars, answerVars, workerVars, WorkerFrame
<1>8. CASE SeeDetached
    BY <1>8 DEF SeeDetached, strategyVars, runnerVars, answerVars, workerVars, WorkerFrame
<1>9. CASE DeleteRunner
    BY <1>9 DEF DeleteRunner, strategyVars, runnerVars, answerVars, workerVars, WorkerFrame
<1>10. CASE Expire
    BY <1>10 DEF Expire, strategyVars, runnerVars, answerVars, workerVars, WorkerFrame
<1>11. ASSUME NEW a \in Addresses, Connects(a) PROVE Failures'
    BY <1>11 DEF Connects, CanLock, strategyVars, runnerVars, answerVars, workerVars, WorkerFrame
<1>12. ASSUME NEW a \in Addresses, ConnectFails(a) PROVE Failures'
    BY <1>12 DEF ConnectFails, CanLock, strategyVars, runnerVars, answerVars, workerVars, WorkerFrame
<1>13. ASSUME NEW a \in Addresses, GetsNoSocket(a) PROVE Failures'
    BY <1>13 DEF GetsNoSocket, CanLock, strategyVars, runnerVars, answerVars, workerVars, WorkerFrame
<1>14. ASSUME NEW a \in Addresses, WorkerSucceeded(a) PROVE Failures'
    BY <1>14 DEF WorkerSucceeded, ReleaseTempSocket, CanLock, strategyVars, runnerVars, answerVars, workerVars, WorkerFrame
<1>15. ASSUME NEW a \in Addresses, WorkerFailed(a) PROVE Failures'
    <2>1. worker[a] = "failing" /\ worker'[a] = "ending" /\ a \in failed
        BY <1>15, FailureFacts DEF WorkerFailed
    <2>2. \A b \in Addresses : b # a => worker'[b] = worker[b] \/ worker'[b] = "connecting"
        BY <1>15, FailureFacts
    <2>3. mAllWorkersFailed => mAllWorkersFailed'
        BY <1>15, FailureFacts
    <2>4. UNCHANGED <<strategy, expired, mConnectionCompleted, failed, socketless>>
        BY <1>15 DEF WorkerFailed, strategyVars, answerVars
    <2>5. ASSUME mAllWorkersFailed', ~ mAllWorkersFailed, ~ expired, ~ mConnectionCompleted
          PROVE  failed = Addresses
        <3>1. mIPAddressesYetToTry = <<>> /\ mWorkers' = mWorkers \ {a} /\ mWorkers' = {}
            BY <1>15, <2>5, FailureFacts
        <3>2. ~ BeforeBatch
            BY <2>1
        <3>3. \A b \in Addresses : worker[b] # "unborn"
            BY <2>5, <3>1, <3>2
        <3>4. \A b \in Addresses : b # a => ~ Busy(b)
            BY <3>1
        <3>5. \A b \in Addresses : b # a => worker[b] \in {"ending", "gone"}
            BY <3>3, <3>4
        <3>6. \A b \in Addresses : b \in failed
            BY <2>1, <2>5, <3>5
        <3>7. failed \subseteq Addresses
            BY DEF ConnectInv, TypeOK
        <3> HIDE DEF ConnectInv, TypeOK, Callers, Leftovers, Sockets, Failures
        <3> QED
            BY <3>6, <3>7
    <2>6. \A b \in Addresses :
            /\ worker'[b] = "failing" => b \in failed'
            /\ worker'[b] \in {"ending", "gone"} => b \in failed' \/ mConnectionCompleted'
        BY <2>1, <2>2, <2>4
    <2>7. mAllWorkersFailed' /\ ~ expired' /\ ~ mConnectionCompleted' => failed' = Addresses
        BY <2>4, <2>5
    <2> QED
        BY <2>3, <2>4, <2>6, <2>7
<1>16. ASSUME NEW a \in Addresses, WorkerEnds(a) PROVE Failures'
    BY <1>16 DEF WorkerEnds, CanLock, strategyVars, runnerVars, answerVars, workerVars, WorkerFrame
<1>17. CASE UNCHANGED vars
    BY <1>17 DEF vars
<1> QED
    BY <1>1, <1>2, <1>3, <1>4, <1>5, <1>6, <1>7, <1>8, <1>9, <1>10, <1>11, <1>12, <1>13, <1>14, <1>15, <1>16, <1>17
       DEF Next, StrategyStep, RunnerStep, WorkerStep

\* The limit holds with the invariant that a worker is on the list exactly while
\* it has yet to report: the one that failed leaves it, the next was not on it.
Batches == IsFiniteSet(mWorkers) /\ BatchesAreLimited

LEMMA BatchesStep == ConnectInv /\ Batches /\ [Next]_vars => Batches'
<1> SUFFICES ASSUME ConnectInv, Batches, [Next]_vars PROVE Batches'
    OBVIOUS
<1> USE ConstantsAssumption
<1>1. ASSUME UNCHANGED mWorkers PROVE Batches'
    BY <1>1 DEF Batches, BatchesAreLimited
<1>2. ASSUME NEW a \in Addresses, mWorkers' = mWorkers \ {a} PROVE Batches'
    <2>1. /\ IsFiniteSet(mWorkers')
          /\ Cardinality(mWorkers') \in {Cardinality(mWorkers) - 1, Cardinality(mWorkers)}
        BY <1>2, FS_RemoveElement DEF Batches
    <2>2. Cardinality(mWorkers) \in Nat
        BY FS_CardinalityType DEF Batches
    <2> QED
        BY <2>1, <2>2 DEF Batches, BatchesAreLimited
<1>3. CASE StartWorkers
    <2>1. mWorkers' = FirstBatch
        BY <1>3 DEF StartWorkers
    <2> QED
        BY <2>1, FirstBatchFacts DEF Batches, BatchesAreLimited
<1>4. ASSUME NEW a \in Addresses, WorkerFailed(a) PROVE Batches'
    <2>1. CASE mWorkers' = mWorkers \ {a}
        BY <1>2, <2>1
    <2>2. ASSUME NEW next \in Addresses, mWorkers' = (mWorkers \ {a}) \cup {next},
                 worker[next] = "unborn"
          PROVE  Batches'
        <3>1. a \in mWorkers /\ next \notin mWorkers
            BY <1>4, <2>2 DEF WorkerFailed, ConnectInv, Callers, Busy
        <3>2. IsFiniteSet(mWorkers \ {a}) /\ Cardinality(mWorkers \ {a}) = Cardinality(mWorkers) - 1
            BY <3>1, FS_RemoveElement DEF Batches
        <3>3. IsFiniteSet(mWorkers') /\ Cardinality(mWorkers') = Cardinality(mWorkers \ {a}) + 1
            BY <2>2, <3>1, <3>2, FS_AddElement
        <3>4. Cardinality(mWorkers') = Cardinality(mWorkers)
            BY <3>2, <3>3, FS_CardinalityType DEF Batches
        <3> QED
            BY <3>3, <3>4 DEF Batches, BatchesAreLimited
    <2> QED
        BY <1>4, <2>1, <2>2, FailureFacts DEF ConnectInv
<1>5. CASE StrategyStep
    BY <1>1, <1>5 DEF StrategyStep, Poll, TakeSocket, Detach
<1>6. CASE RunnerStep
    BY <1>1, <1>3, <1>6 DEF RunnerStep, RunnerLock, ResolveFails, SeeDone, SeeDetached, DeleteRunner
<1>7. ASSUME NEW a \in Addresses, WorkerStep(a) PROVE Batches'
    BY <1>1, <1>2, <1>4, <1>7
       DEF WorkerStep, Connects, ConnectFails, GetsNoSocket, WorkerSucceeded, WorkerEnds, WorkerFrame
<1> QED
    BY <1>1, <1>5, <1>6, <1>7 DEF Next, Expire, vars

-----------------------------------------------------------------------------
\* The inductive invariant: who still calls the runner, which addresses have had
\* no worker, who holds which socket, and what the failures add up to.
THEOREM ConnectInvariant == Spec => []ConnectInv
<1>1. Init => ConnectInv
    <2> SUFFICES ASSUME Init PROVE ConnectInv
        OBVIOUS
    <2> USE ConstantsAssumption DEF Init
    <2>1. TypeOK
        <3>1. <<>> \in Seq(Addresses) /\ {} \in SUBSET Addresses
            OBVIOUS
        <3>2. /\ worker \in [Addresses -> {"unborn"}]
              /\ tempSocket \in [Addresses -> {None}]
            OBVIOUS
        <3> QED
            BY <3>1, <3>2 DEF TypeOK
    <2>2. Callers
        BY DEF Callers, Busy, BeforeBatch
    <2>3. Leftovers
        BY DEF Leftovers, BeforeBatch
    <2>4. Sockets
        BY DEF Sockets, Addresses
    <2>5. Failures
        BY DEF Failures, ThrowsWhenAllFailed
    <2> QED
        BY <2>1, <2>2, <2>3, <2>4, <2>5 DEF ConnectInv
<1>2. ConnectInv /\ [Next]_vars => ConnectInv'
    BY TypeStep, CallersStep, LeftoversStep, SocketsStep, FailuresStep DEF ConnectInv
<1> QED
    BY <1>1, <1>2, PTL DEF Spec

\* Every variable of connect(), the runner and the workers keeps its type.
THEOREM TypeCorrect == Spec => []TypeOK
<1>1. ConnectInv => TypeOK
    BY DEF ConnectInv
<1> QED
    BY <1>1, ConnectInvariant, PTL

\* The runner object is not deleted while a worker has yet to report to it, nor,
\* unless the host name could not be resolved, while connect() still polls it.
THEOREM RunnerIsSafe == Spec => []RunnerOutlivesCallers
<1>1. ConnectInv => RunnerOutlivesCallers
    <2> SUFFICES ASSUME ConnectInv, runner = "gone"
                 PROVE  /\ \A a \in Addresses : worker[a] \in {"unborn", "ending", "gone"}
                        /\ resolved => strategy = "done"
        BY DEF RunnerOutlivesCallers
    <2>1. \A a \in Addresses : ~ Busy(a)
        BY DEF ConnectInv, Callers
    <2>2. \A a \in Addresses : worker[a] \in {"unborn", "ending", "gone"}
        BY <2>1 DEF ConnectInv, TypeOK, Busy
    <2>3. resolved => strategy = "done"
        BY DEF ConnectInv, Callers
    <2> QED
        BY <2>2, <2>3
<1> QED
    BY <1>1, ConnectInvariant, PTL

\* Every connected socket has one owner, and connect() returns one that is open:
\* _workerSucceeded() takes the winner's away from its temporary VSocket.
THEOREM OneOwnerPerSocket == Spec => []SocketsAreOwned
<1>1. ConnectInv => SocketsAreOwned
    BY ConstantsAssumption DEF ConnectInv, TypeOK, Sockets, SocketsAreOwned
<1> QED
    BY <1>1, ConnectInvariant, PTL

\* connect() gives up before its time only when every address has refused.
THEOREM NoEarlyFailure == Spec => []ThrowsWhenAllFailed
<1>1. ConnectInv => ThrowsWhenAllFailed
    BY DEF ConnectInv, Failures
<1> QED
    BY <1>1, ConnectInvariant, PTL

\* The runner never has more than mMaxNumThreads workers on its list.
THEOREM LimitedBatches == Spec => []BatchesAreLimited
<1>1. Init => Batches
    BY FS_EmptySet DEF Init, Batches, BatchesAreLimited
<1>2. Batches => BatchesAreLimited
    BY DEF Batches
<1> QED
    BY <1>1, <1>2, BatchesStep, ConnectInvariant, PTL DEF Spec
=============================================================================
