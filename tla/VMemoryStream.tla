---------------------------- MODULE VMemoryStream ----------------------------
(***************************************************************************)
(* The memory stream (source/streams/vmemorystream.cpp) and the write      *)
(* buffer built on it (vwritebufferedstream.cpp), which flushes into a raw *)
(* stream by VStream::streamCopy (vstream.cpp): a buffer with an i/o       *)
(* offset and an end, reallocated as it grows.  A byte nobody wrote is     *)
(* Junk: what the allocator, or an earlier use of the buffer, left there.  *)
(***************************************************************************)
EXTENDS Integers, Sequences

CONSTANTS
    Bytes,              \* the bytes written
    Junk,               \* a byte of the buffer that was never written
    resizeIncrement,    \* mResizeIncrement; 0 is kIncrement2x
    MaxBufferSize,      \* bound: the buffer
    MaxBytesSent        \* bound: the raw stream

ASSUME MemoryStreamConstants ==
    Junk \notin Bytes /\ resizeIncrement \in Nat /\ MaxBufferSize \in Nat /\ MaxBytesSent \in Nat

VARIABLES
    streamKind,         \* "memory", or "buffered": a VWriteBufferedStream
    ownsBuffer,         \* mOwnsBuffer
    buffer,             \* mBuffer, of mBufferSize bytes
    ioOffset, eofOffset,
    contents,           \* history: the file a reader should see
    fileOffset,         \* history: where the offset of such a file would be
    rawBytes,           \* what the raw stream has received
    flushed,            \* history: what each flush found to send, until one fails
    flushFailed         \* history: the raw stream has failed a flush

offsets == <<ioOffset, eofOffset>>
fileHistory == <<contents, fileOffset>>
rawVars == <<rawBytes, flushed, flushFailed>>
streamVars == <<streamKind, ownsBuffer, buffer, offsets, fileHistory, rawVars>>

mBufferSize == Len(buffer)
JunkBytes(n) == [i \in 1..n |-> Junk]
Smaller(a, b) == IF a < b THEN a ELSE b
Larger(a, b) == IF a > b THEN a ELSE b

\* s with data from offset on.
Overlaid(s, offset, data) ==
    [i \in 1..Larger(Len(s), offset + Len(data)) |->
        IF i \in offset + 1..offset + Len(data) THEN data[i - offset] ELSE s[i]]

StreamInit ==
    /\ streamKind \in {"memory", "buffered"}
    /\ ownsBuffer = TRUE
    /\ \E size \in 1..2 : buffer = JunkBytes(size)
    /\ ioOffset = 0 /\ eofOffset = 0
    /\ contents = <<>> /\ fileOffset = 0
    /\ rawBytes = <<>> /\ flushed = <<>> /\ flushFailed = FALSE

-----------------------------------------------------------------------------
(* Growth *)

\* The size to reallocate to, the only one there: doubled until it fits, or rounded up.
NewSizes(required) ==
    IF resizeIncrement = 0
    THEN LET base == IF mBufferSize = 0 THEN 1024 ELSE mBufferSize IN
         {size \in required..2 * Larger(base, required) :
            /\ \E k \in 1..required : size = base * 2^k
            /\ size = 2 * base \/ size < 2 * required}
    ELSE LET misalignment == required % resizeIncrement IN
         {IF misalignment = 0 THEN required ELSE required + (resizeIncrement - misalignment)}

\* The buffer _prepareToWrite() leaves, within the bound: the bytes before the end are copied.
Prepared(required) ==
    IF required > mBufferSize
    THEN {SubSeq(buffer, 1, eofOffset) \o JunkBytes(size - eofOffset) :
            size \in {n \in NewSizes(required) : n <= MaxBufferSize}}
    ELSE {buffer}

\* It throws rather than reallocate a buffer the stream does not own.
MayPrepare(required) == ownsBuffer \/ required <= mBufferSize

-----------------------------------------------------------------------------
(* The operations *)

\* variant: the end always follows the i/o offset
EndFollows(io) == io

\* _finishWrite(): the end moves if the offset has passed it.
EofAfter(io) == Larger(io, eofOffset)

write(data) ==
    LET io == ioOffset + Len(data) IN
    /\ MayPrepare(io)
    /\ \E prepared \in Prepared(io) : buffer' = Overlaid(prepared, ioOffset, data)
    /\ ioOffset' = io /\ eofOffset' = EofAfter(io)
    /\ contents' = Overlaid(contents, fileOffset, data)
    /\ fileOffset' = fileOffset + Len(data)
    /\ UNCHANGED <<streamKind, ownsBuffer, rawVars>>

\* variant: the end does not limit what is read
AllOf(n) == n
AtMostToEnd(n) == Smaller(n, eofOffset - ioOffset)

\* read() and skip() stop at the end.
readOrSkip(n) ==
    /\ streamKind = "memory"
    /\ ioOffset' = ioOffset + AtMostToEnd(n)
    /\ fileOffset' = Smaller(fileOffset + n, Len(contents))
    /\ UNCHANGED <<streamKind, ownsBuffer, buffer, eofOffset, contents, rawVars>>

\* requestedOffset: from the end, whatever the offset; and 0 for any other whence.
requestedOffset(offset, whence) ==
    CASE whence = "SEEK_SET" -> offset
      [] whence = "SEEK_CUR" -> ioOffset + offset
      [] whence = "SEEK_END" -> eofOffset
      [] OTHER -> 0

\* Where the seek() of Unix goes.
UnixOffset(offset, whence) ==
    offset + CASE whence = "SEEK_SET" -> 0
               [] whence = "SEEK_CUR" -> fileOffset
               [] whence = "SEEK_END" -> Len(contents)

\* Where the code departs from it: an offset from the end counts for nothing, one before
\* the start means the start, and a seek that throws has moved to the end.
DepartsFromUnix(offset, whence) ==
    \/ whence = "SEEK_END" /\ offset # 0
    \/ UnixOffset(offset, whence) < 0
    \/ UnixOffset(offset, whence) > Len(contents) /\ ~ MayPrepare(UnixOffset(offset, whence))

\* seek(): beyond the end the stream is extended at once.  The loop that should write
\* zeroes compares two equal offsets.
seek(offset, whence) ==
    LET requested == requestedOffset(offset, whence)
        constrained == Larger(0, requested) IN
    /\ IF requested <= eofOffset
       THEN ioOffset' = constrained /\ UNCHANGED <<buffer, eofOffset, contents>>
       ELSE IF MayPrepare(requested)
       THEN /\ buffer' \in Prepared(requested)
            /\ ioOffset' = constrained /\ eofOffset' = requested
            /\ contents' = contents \o JunkBytes(requested - eofOffset)
       ELSE ioOffset' = eofOffset /\ UNCHANGED <<buffer, eofOffset, contents>>
    /\ fileOffset' = IF DepartsFromUnix(offset, whence) THEN ioOffset' ELSE UnixOffset(offset, whence)
    /\ UNCHANGED <<streamKind, ownsBuffer, rawVars>>

\* The end may move forward too, over whatever the buffer holds.
setEOF(eof) ==
    /\ streamKind = "memory"
    /\ eofOffset' = Smaller(mBufferSize, eof)
    /\ ioOffset' = Smaller(eofOffset', ioOffset)
    /\ contents' = [i \in 1..eofOffset' |-> IF i <= Len(contents) THEN contents[i] ELSE Junk]
    /\ fileOffset' = Smaller(eofOffset', fileOffset)
    /\ UNCHANGED <<streamKind, ownsBuffer, buffer, rawVars>>

orphanBuffer ==
    /\ streamKind = "memory"
    /\ ownsBuffer' = FALSE
    /\ UNCHANGED <<streamKind, buffer, offsets, fileHistory, rawVars>>

\* adoptBuffer(): another buffer, of which the first eof bytes are data.
adoptBuffer(data, size, adopts) ==
    /\ streamKind = "memory"
    /\ buffer' = data \o JunkBytes(size - Len(data))
    /\ ownsBuffer' = adopts
    /\ ioOffset' = 0 /\ eofOffset' = Len(data)
    /\ contents' = data /\ fileOffset' = 0
    /\ UNCHANGED <<streamKind, rawVars>>

\* Assignment from, or construction by, a copy of a stream like this one: a new
\* buffer of the same size, with the bytes before the end.
copyStream ==
    /\ streamKind = "memory" /\ ownsBuffer
    /\ buffer' = SubSeq(buffer, 1, eofOffset) \o JunkBytes(mBufferSize - eofOffset)
    /\ UNCHANGED <<streamKind, ownsBuffer, offsets, fileHistory, rawVars>>

EofOnceFlushed == 0

\* VWriteBufferedStream::flush(): to the start, one copy of everything, and
\* empty.  A raw stream that takes less without an exception loses the rest.
flush(taken) ==
    /\ streamKind = "buffered"
    /\ Len(rawBytes) + taken <= MaxBytesSent
    /\ rawBytes' = rawBytes \o SubSeq(buffer, 1, taken)
    /\ ioOffset' = 0 /\ eofOffset' = EofOnceFlushed
    /\ contents' = SubSeq(contents, 1, EofOnceFlushed) /\ fileOffset' = 0
    /\ flushFailed' = (flushFailed \/ taken < eofOffset)
    /\ flushed' = IF flushFailed' THEN <<>> ELSE flushed \o contents
    /\ UNCHANGED <<streamKind, ownsBuffer, buffer>>

\* The raw stream throws after it took some: the offset stays at the start.
flushThrows(taken) ==
    /\ streamKind = "buffered"
    /\ Len(rawBytes) + taken <= MaxBytesSent
    /\ rawBytes' = rawBytes \o SubSeq(buffer, 1, taken)
    /\ ioOffset' = 0 /\ fileOffset' = 0
    /\ flushFailed' = TRUE /\ flushed' = <<>>
    /\ UNCHANGED <<streamKind, ownsBuffer, buffer, eofOffset, contents>>

StreamNext ==
    \/ \E b \in Bytes : write(<<b>>)
    \/ \E b, c \in Bytes : write(<<b, c>>)
    \/ readOrSkip(1) \/ orphanBuffer \/ copyStream
    \/ \E offset \in (-MaxBufferSize)..MaxBufferSize, whence \in {"SEEK_SET", "SEEK_CUR", "SEEK_END"} :
          seek(offset, whence)
    \/ \E eof \in 0..MaxBufferSize : setEOF(eof)
    \/ \E b \in Bytes, size \in 1..2, adopts \in BOOLEAN : adoptBuffer(<<b>>, size, adopts)
    \/ \E taken \in 0..eofOffset : flush(taken) \/ flushThrows(taken)

StreamSpec == StreamInit /\ [][StreamNext]_streamVars

-----------------------------------------------------------------------------
(* Properties *)

\* The stream's state has its types, and the order the code asserts of the two
\* offsets and the size (443-450).
StreamTypeOK ==
    /\ streamKind \in {"memory", "buffered"}
    /\ ownsBuffer \in BOOLEAN /\ flushFailed \in BOOLEAN
    /\ buffer \in Seq(Bytes \cup {Junk})
    /\ ioOffset \in Nat /\ eofOffset \in Nat
    /\ ioOffset <= eofOffset /\ eofOffset <= Len(buffer)
    /\ contents \in Seq(Bytes \cup {Junk}) /\ fileOffset \in Nat
    /\ rawBytes \in Seq(Bytes \cup {Junk}) /\ flushed \in Seq(Bytes \cup {Junk})

\* bytes is what was intended; a byte a stream was extended by has any value.
Carries(bytes, intended) ==
    /\ Len(intended) = Len(bytes)
    /\ \A i \in 1..Len(intended) : intended[i] # Junk => bytes[i] = intended[i]

\* Whatever was written, read, sought, cut off and reallocated, the stream is where a file
\* would be (vmemorystream.h 122-127), and holds what that file would, byte for byte up to
\* its end (145-157, 270-345).  What a write buffer's raw stream has got is, until a flush
\* fails, what the buffer held at each flush (vwritebufferedstream.cpp 23-32).  Excepted by
\* name: DepartsFromUnix, and what a stream is extended by.
StreamIsAFile ==
    /\ ioOffset = fileOffset
    /\ Len(contents) = eofOffset
    /\ \A i \in 1..eofOffset : contents[i] # Junk => buffer[i] = contents[i]
    /\ streamKind = "buffered" /\ ~ flushFailed => Carries(rawBytes, flushed)
=============================================================================
