--------------------------- MODULE VTextIOStream ---------------------------
(***************************************************************************)
(* Reading a text stream line by line while another party still writes it  *)
(* (source/streams/vtextiostream.cpp, source/containers/vcodepoint.cpp).   *)
(* Text is a sequence of bytes.  A byte is a name: "cr", "lf" and "nul"    *)
(* are themselves, "C2", "E2" and "F7" start code points of two, three and *)
(* four bytes, the last with a value past the end of Unicode, "80" and     *)
(* "81" continue one, and every other byte is a character.                 *)
(***************************************************************************)
EXTENDS Integers, Sequences, SequencesExt

CONSTANTS
    Texts,              \* what the raw stream comes to hold
    ByteOrders          \* how the build may order a call's arguments

VARIABLES
    text, written,      \* the raw stream: its bytes, and how many are there by now
    textOffset,         \* how many of them have been read
    argumentOrder,      \* "left" or "right": see CodePoint
    mPendingCharacter,  \* the code point after a "\r", or <<>>
    mReadState,         \* "Ready" or "Got0x0D"
    mLineEndingsReadKind,
    mLineBuffer,
    includeLineEnding,
    reading,            \* "no", or where readLine() is: "line", "codePoint"
    readFirstByteOfLine,
    source,             \* the bytes of a code point read so far
    lines,              \* history: what readLine() returned
    early,              \* history: a line was returned before its end
    dropped             \* history: a character was lost

rawTextVars == <<text, written, argumentOrder>>
lineVars == <<textOffset, mPendingCharacter, mReadState, mLineEndingsReadKind, mLineBuffer,
              reading, readFirstByteOfLine, source, lines, early, dropped>>
lineReaderVars == <<rawTextVars, lineVars, includeLineEnding>>

TextBytes == {"a", "b", "nul", "cr", "lf", "C2", "E2", "F7", "80", "81"}
Continuations == {"80", "81"}

ASSUME TextsAreBytes == Texts \subseteq Seq(TextBytes)

UTF8Length(startByte) ==
    CASE startByte = "C2" -> 2 [] startByte = "E2" -> 3 [] startByte = "F7" -> 4 [] OTHER -> 1

\* The bytes after the first are arguments of one call, each of which reads the
\* stream: a compiler may evaluate the last one first.
CodePoint(bytes) ==
    IF argumentOrder = "right" THEN <<Head(bytes)>> \o Reverse(Tail(bytes)) ELSE bytes

\* A lone continuation byte is a character of its own, which takes two bytes.
InLine(c) == IF Len(c) = 1 /\ c[1] \in Continuations THEN <<"C2">> \o c ELSE c
IsInvalid(c) == c[1] = "F7"

available == written - textOffset

TextInit ==
    /\ text \in Texts /\ written = 0 /\ textOffset = 0
    /\ argumentOrder \in ByteOrders
    /\ mPendingCharacter = <<>> /\ mReadState = "Ready"
    /\ mLineEndingsReadKind = "Unknown"
    /\ mLineBuffer = <<>>
    /\ includeLineEnding \in BOOLEAN
    /\ reading = "no" /\ readFirstByteOfLine = FALSE /\ source = <<>>
    /\ lines = <<>> /\ early = FALSE /\ dropped = FALSE

-----------------------------------------------------------------------------
(* Writing *)

LineEndings == [Unix |-> <<"lf">>, DOS |-> <<"cr", "lf">>, Mac |-> <<"cr">>, Supplied |-> <<>>]

writeLine(s, kind) == s \o LineEndings[kind]

\* The party that writes has got one byte further.
Appends ==
    /\ written < Len(text)
    /\ written' = written + 1
    /\ UNCHANGED <<text, argumentOrder, includeLineEnding, lineVars>>

-----------------------------------------------------------------------------
(* Reading *)

_updateLineEndingsReadKind(kind) ==
    mLineEndingsReadKind' =
        IF mLineEndingsReadKind \in {"Unknown", kind} THEN kind ELSE "Mixed"

CallsReadLine ==
    /\ reading = "no"
    /\ reading' = "line" /\ mLineBuffer' = <<>> /\ readFirstByteOfLine' = FALSE
    /\ UNCHANGED <<textOffset, mPendingCharacter, mReadState, mLineEndingsReadKind, source, lines,
                   early, dropped>>

ReturnsLine(line) ==
    /\ reading' = "no"
    /\ lines' = Append(lines, line)

\* variant: the character after a "\r" is not kept
PendingForgotten(got0x0D, c) == <<>>
PendingAfter(got0x0D, c) == IF got0x0D /\ c \notin {<<"lf">>, <<"nul">>} THEN c ELSE <<>>

\* One character through the switch: "\n" ends a line, "\r" waits for the next
\* character, which if it is not "\n" is kept for the next line.  "numBytesRead"
\* other than 1 ends the loop as the end of the stream would.
Takes(c, numBytesRead) ==
    LET got0x0D == mReadState = "Got0x0D"
        isEnd == c = <<"lf">>
        done == isEnd \/ got0x0D
        ending == IF got0x0D THEN (IF isEnd THEN <<"cr", "lf">> ELSE <<"cr">>) ELSE c
        waits == ~ got0x0D /\ c = <<"cr">>
        line == mLineBuffer \o (IF waits THEN <<>>
                                ELSE IF ~ done THEN InLine(c)
                                ELSE IF includeLineEnding THEN ending ELSE <<>>)
    IN  /\ mLineBuffer' = line
        /\ mReadState' = IF waits THEN "Got0x0D" ELSE "Ready"
        /\ mPendingCharacter' = PendingAfter(got0x0D, c)
        /\ IF done
           THEN _updateLineEndingsReadKind(IF ~ got0x0D THEN "Unix" ELSE IF isEnd THEN "DOS" ELSE "Mac")
           ELSE UNCHANGED mLineEndingsReadKind
        /\ IF done \/ numBytesRead # 1
           THEN ReturnsLine(line) /\ early' = (early \/ ~ done)
           ELSE reading' = "line" /\ UNCHANGED <<lines, early>>
        /\ dropped' = (dropped \/ (got0x0D /\ c = <<"nul">>))

TakesPending ==
    /\ reading = "line" /\ mPendingCharacter # <<>>
    /\ ~ IsInvalid(mPendingCharacter)
    /\ Takes(mPendingCharacter, 1)
    /\ UNCHANGED <<textOffset, readFirstByteOfLine, source>>

StartsCodePoint ==
    /\ reading = "line" /\ mPendingCharacter = <<>> /\ available # 0
    /\ reading' = "codePoint"
    /\ UNCHANGED <<textOffset, mPendingCharacter, mReadState, mLineEndingsReadKind, mLineBuffer,
                   readFirstByteOfLine, source, lines, early, dropped>>

\* readGuaranteedByte(); the last byte makes a code point of them.
NextBytes == Append(source, text[textOffset + 1])
IsComplete(bytes) == Len(bytes) = UTF8Length(bytes[1])
ReadsByte ==
    /\ reading = "codePoint" /\ available # 0
    /\ textOffset' = textOffset + 1
    /\ IF ~ IsComplete(NextBytes)
       THEN /\ source' = NextBytes
            /\ UNCHANGED <<mPendingCharacter, mReadState, mLineEndingsReadKind, mLineBuffer,
                           reading, readFirstByteOfLine, lines, early, dropped>>
       ELSE /\ ~ (IsInvalid(NextBytes) /\ mReadState = "Ready")
            /\ source' = <<>> /\ readFirstByteOfLine' = TRUE
            /\ Takes(CodePoint(NextBytes), Len(NextBytes))

\* The stream has come to its end for now: what was read is the line.
ReturnsAtEnd ==
    /\ reading = "line" /\ mPendingCharacter = <<>> /\ available = 0 /\ readFirstByteOfLine
    /\ ReturnsLine(mLineBuffer)
    /\ early' = TRUE
    /\ UNCHANGED <<textOffset, mPendingCharacter, mReadState, mLineEndingsReadKind, mLineBuffer,
                   readFirstByteOfLine, source, dropped>>

\* An exception leaves readLine(), and what it had taken from the stream is lost.
LeavesReadLine ==
    /\ reading' = "no" /\ source' = <<>> /\ mPendingCharacter' = <<>>
    /\ dropped' = (dropped \/ mLineBuffer # <<>> \/ (reading = "codePoint" /\ source # <<>>)
                           \/ mPendingCharacter # <<>>)
    /\ UNCHANGED <<mReadState, mLineEndingsReadKind, mLineBuffer, readFirstByteOfLine, lines, early>>

\* Nothing was read for this line, unless a character was pending.
ThrowsAtEnd ==
    /\ reading = "line" /\ mPendingCharacter = <<>> /\ available = 0 /\ ~ readFirstByteOfLine
    /\ LeavesReadLine
    /\ UNCHANGED textOffset

\* The rest of a code point is not there yet.
ThrowsInCodePoint ==
    /\ reading = "codePoint" /\ available = 0
    /\ LeavesReadLine
    /\ UNCHANGED textOffset

\* toString() of a code point past the end of Unicode, when it is put in the line.
ThrowsOutOfRange ==
    \/ /\ reading = "line" /\ mPendingCharacter # <<>> /\ IsInvalid(mPendingCharacter)
       /\ LeavesReadLine
       /\ UNCHANGED textOffset
    \/ /\ reading = "codePoint" /\ available # 0 /\ mReadState = "Ready"
       /\ IsComplete(NextBytes) /\ IsInvalid(NextBytes)
       /\ LeavesReadLine
       /\ textOffset' = textOffset + 1

TextNext ==
    \/ Appends
    \/ /\ \/ CallsReadLine \/ TakesPending \/ StartsCodePoint \/ ReadsByte
          \/ ReturnsAtEnd \/ ThrowsAtEnd \/ ThrowsInCodePoint \/ ThrowsOutOfRange
       /\ UNCHANGED <<rawTextVars, includeLineEnding>>

TextSpec == TextInit /\ [][TextNext]_lineReaderVars

-----------------------------------------------------------------------------
TextTypeOK ==
    /\ text \in Texts /\ written \in 0..Len(text) /\ textOffset \in 0..written
    /\ argumentOrder \in ByteOrders
    /\ mPendingCharacter \in Seq(TextBytes) /\ mReadState \in {"Ready", "Got0x0D"}
    /\ mLineEndingsReadKind \in {"Unknown", "Unix", "DOS", "Mac", "Mixed"}
    /\ mLineBuffer \in Seq(TextBytes) /\ lines \in Seq(Seq(TextBytes)) /\ source \in Seq(TextBytes)
    /\ reading \in {"no", "line", "codePoint"}
    /\ {includeLineEnding, readFirstByteOfLine, early, dropped} \subseteq BOOLEAN

\* A continuation byte is where a code point has one, and nowhere else; the last
\* code point may be cut off.
IsUTF8(bytes) ==
    \A i \in DOMAIN bytes :
        bytes[i] \in Continuations <=> \E j \in 1..i - 1 : i < j + UTF8Length(bytes[j])

\* What is shown of a text: all of it, or all but its line endings.
IsEnding(byte) == byte \in {"cr", "lf"}
ShownByte(byte) == IF IsEnding(byte) /\ ~ includeLineEnding THEN <<>> ELSE <<byte>>
Shown(bytes) == FlattenSeq([i \in DOMAIN bytes |-> ShownByte(bytes[i])])

\* What the lines of a text are: each ends with "\r\n", with "\r" before another
\* character, or with "\n".
LineEndsAt(bytes) ==
    {i \in 1..Len(bytes) : \/ bytes[i] = "lf"
                           \/ bytes[i] = "cr" /\ i < Len(bytes) /\ bytes[i + 1] # "lf"}
AreLinesOf(shown, bytes) ==
    \E ends \in [0..Len(shown) -> 0..Len(bytes)] :
        /\ ends[0] = 0
        /\ \A k \in 1..Len(shown) :
              ends[k - 1] < ends[k] /\ shown[k] = Shown(SubSeq(bytes, ends[k - 1] + 1, ends[k]))
        /\ LineEndsAt(bytes) = {ends[k] : k \in 1..Len(shown)}
EndingAt(bytes, i) == IF bytes[i] = "cr" THEN "Mac"
                      ELSE IF i > 1 /\ bytes[i - 1] = "cr" THEN "DOS" ELSE "Unix"
KindOf(bytes) ==
    LET kinds == {EndingAt(bytes, i) : i \in LineEndsAt(bytes)}
    IN  IF kinds = {} THEN "Unknown"
        ELSE IF \E kind \in kinds : kinds = {kind} THEN CHOOSE kind \in kinds : TRUE
        ELSE "Mixed"

\* The lines returned and the one in work make up the text that was read, and the
\* kind of its endings is known; unless one came out early, they are its lines.
\* Excepted are characters readLine() loses (119: pending at the end, or a NUL),
\* text that is not UTF-8, and code points of more than two bytes if they may be
\* read in the wrong order.
Consumed == SubSeq(text, 1, textOffset - Len(source))
IsReadInOrder == argumentOrder = "right" => "E2" \notin ToSet(text) /\ "F7" \notin ToSet(text)
LinesMakeTheText ==
    ~ dropped /\ IsUTF8(text) /\ IsReadInOrder =>
        /\ FlattenSeq(lines) \o (IF reading = "no" THEN <<>> ELSE mLineBuffer)
              \o (IF includeLineEnding /\ mReadState = "Got0x0D" THEN <<"cr">> ELSE <<>>)
              \o Shown(mPendingCharacter)
           = Shown(Consumed)
        /\ mLineEndingsReadKind = KindOf(Consumed)
        /\ ~ early => AreLinesOf(lines, Consumed)
=============================================================================
