------------------------------ MODULE VString ------------------------------
(***************************************************************************)
(* One string (source/containers/vstring.cpp, vstring.h): its bytes in a   *)
(* small buffer inside the object or in one on the heap, their number, and *)
(* the number of code points, counted when it is first asked for.  Offsets *)
(* are those of the code, from 0.  A byte is a name: "sp" is white space,  *)
(* "C2" starts a code point of two bytes and "80" continues one.  A buffer *)
(* that cannot be allocated leaves the string as it was, but in replace(). *)
(***************************************************************************)
EXTENDS Integers, FiniteSets, Sequences, SequencesExt, FiniteSetsExt

CONSTANTS
    Pieces,             \* the strings that are arguments
    InternalSize,       \* VSTRING_INTERNAL_BUFFER_SIZE
    ExpansionChunk,     \* HEAP_BUFFER_EXPANSION_CHUNK_SIZE
    MaxText             \* bound: the length of the string

VARIABLES
    string,             \* [mUsingInternalBuffer, buffer, mStringLength, mNumCodePoints]
    intended,           \* history: the text it should hold
    stale,              \* history: a change in place has changed the number of code points
    damage,             \* history: none, or the call that has spoilt the text
    fault               \* history: a call wrote past the buffer, or was refused

stringVars == <<string, intended, stale, damage, fault>>

StringBytes == {"a", "A", "sp", "C2", "80"}
ASSUME StringConstants ==
    /\ Pieces \subseteq Seq(StringBytes)
    /\ InternalSize \in Nat \ {0} /\ ExpansionChunk \in Nat \ {0} /\ MaxText \in Nat

Terminator == "nul"
Unwritten == "unwritten"

EmptyBuffer == [i \in 1..InternalSize |-> IF i = 1 THEN Terminator ELSE Unwritten]

StringInit ==
    /\ string = [mUsingInternalBuffer |-> TRUE, buffer |-> EmptyBuffer, mStringLength |-> 0,
                 mNumCodePoints |-> 0]
    /\ intended = <<>>
    /\ stale = FALSE /\ damage = "none" /\ fault = FALSE

TextOf(st) == SubSeq(st.buffer, 1, st.mStringLength)
Clamped(low, n, high) == IF n < low THEN low ELSE IF n > high THEN high ELSE n

-----------------------------------------------------------------------------
(* Code points *)

CodePointLength(byte) == IF byte = "C2" THEN 2 ELSE 1

\* Where the code points start, one after the other, and where the last one ends:
\* beyond the end if it is cut off.
CodePointOffsets(bytes) ==
    LET offset[k \in 0..Len(bytes)] ==
            IF k = 0 THEN 0
            ELSE IF offset[k - 1] >= Len(bytes) THEN offset[k - 1]
            ELSE offset[k - 1] + CodePointLength(bytes[offset[k - 1] + 1])
    IN  offset
countUTF8CodePoints(bytes) ==
    CHOOSE n \in 0..Len(bytes) :
        /\ CodePointOffsets(bytes)[n] >= Len(bytes)
        /\ \A k \in 0..n - 1 : CodePointOffsets(bytes)[k] < Len(bytes)
IsWellFormed(bytes) == CodePointOffsets(bytes)[Len(bytes)] = Len(bytes)
CodePointsOf(bytes) ==
    LET offset == CodePointOffsets(bytes)
    IN  [k \in 1..countUTF8CodePoints(bytes) |->
            SubSeq(bytes, offset[k - 1] + 1, IF offset[k] > Len(bytes) THEN Len(bytes) ELSE offset[k])]

-----------------------------------------------------------------------------
(* The buffer *)

preflight(st, length) ==
    LET required == length + 1
        newBufferLength == required + ExpansionChunk - (required % ExpansionChunk)
    IN  IF length < Len(st.buffer) THEN st
        ELSE [st EXCEPT !.mUsingInternalBuffer = FALSE,
                        !.buffer = [i \in 1..newBufferLength |->
                            IF i <= st.mStringLength + 1 THEN st.buffer[i] ELSE Unwritten]]

Part(offset, bytes) == [at |-> offset, bytes |-> bytes]

\* The buffer after memcpy() or memmove() of each of the parts to its offset.
Written(buffer, parts) ==
    [i \in DOMAIN buffer |->
        LET over == {k \in DOMAIN parts : i \in parts[k].at + 1..parts[k].at + Len(parts[k].bytes)}
        IN  IF over = {} THEN buffer[i] ELSE parts[Max(over)].bytes[i - parts[Max(over)].at]]
WriteAt(st, offset, bytes) == [st EXCEPT !.buffer = Written(@, <<Part(offset, bytes)>>)]

\* An empty string gives its heap buffer back.
_setLength(st, length) ==
    [st EXCEPT
        !.mUsingInternalBuffer = st.mUsingInternalBuffer \/ length = 0,
        !.buffer = IF length = 0 /\ ~ st.mUsingInternalBuffer THEN EmptyBuffer
                   ELSE [st.buffer EXCEPT ![length + 1] = Terminator],
        !.mStringLength = length,
        !.mNumCodePoints = -1]

\* The string becomes grown with the parts written over it, each at its offset, and
\* with the new length; value is what it should hold then.
Becomes(grown, parts, length, value) ==
    LET past == \/ \E k \in DOMAIN parts : parts[k].at + Len(parts[k].bytes) > Len(grown.buffer)
                \/ length >= Len(grown.buffer)
    IN  /\ Len(value) <= MaxText
        /\ fault' = past
        /\ string' = IF past THEN string ELSE _setLength([grown EXCEPT !.buffer = Written(@, parts)], length)
        /\ intended' = value
        /\ stale' = FALSE

-----------------------------------------------------------------------------
(* Operations *)

AssignsString(s) ==
    LET grown == IF s = <<>> THEN string ELSE preflight(string, Len(s)) IN
    Becomes(grown, IF s = <<>> THEN <<>> ELSE <<Part(0, Append(s, Terminator))>>, Len(s), s)

AppendsString(s) ==
    LET length == string.mStringLength + Len(s) IN
    Becomes(preflight(string, length), <<Part(string.mStringLength, s)>>, length, intended \o s)

\* Its own bytes are looked up after the buffer was replaced.
AppendsItself ==
    LET length == 2 * string.mStringLength
        grown == preflight(string, length)
    IN  Becomes(grown, <<Part(string.mStringLength, TextOf(grown))>>, length, intended \o intended)

\* variant: the string itself is inserted without a copy
MovedOver(text, at, added) == SubSeq(SubSeq(text, 1, at) \o text \o text, 1, added)
CopyFirst(text, at, added) == text

\* The bytes past the offset are moved, then s is copied to the gap from where it is.
\* insert() of the string itself takes a copy of it first.
Inserts(s, source, offset) ==
    LET length == string.mStringLength + Len(source)
        at == Clamped(0, offset, string.mStringLength)
        grown == preflight(string, length)
        rest == SubSeq(grown.buffer, at + 1, string.mStringLength)
    IN  Becomes(grown, <<Part(at + Len(source), rest), Part(at, source)>>, length,
                SubSeq(intended, 1, at) \o s \o SubSeq(intended, at + 1, Len(intended)))

InsertsString(s, offset) == s # <<>> /\ Inserts(s, s, offset)
InsertsItself(offset) ==
    /\ intended # <<>>
    /\ LET at == Clamped(0, offset, string.mStringLength)
       IN  Inserts(intended, CopyFirst(TextOf(string), at, string.mStringLength), offset)

SubstringInPlace(startIndex, endIndex) ==
    LET length == string.mStringLength
        start == Clamped(0, startIndex, length)
        end == Clamped(start, IF endIndex = -1 THEN length ELSE endIndex, length)
    IN  /\ end - start # length
        /\ Becomes(string, <<Part(0, SubSeq(string.buffer, start + 1, end))>>, end - start,
                   LET last == IF endIndex = -1 THEN length ELSE endIndex
                       inRange(i) == startIndex < i /\ i <= last
                   IN  SubSeq(intended, 1 + Cardinality({i \in DOMAIN intended : i <= startIndex}),
                              Cardinality({i \in DOMAIN intended : i <= startIndex \/ inRange(i)})))

Truncates(maxLength) ==
    /\ string.mStringLength > maxLength
    /\ Becomes(string, <<>>, maxLength, SubSeq(intended, 1, maxLength))

numCodePoints == IF string.mNumCodePoints = -1 THEN countUTF8CodePoints(TextOf(string))
                 ELSE string.mNumCodePoints

\* Not followed with a number of code points that is no longer true.
TruncatesCodePoints(maxNumCodePoints) ==
    /\ ~ stale /\ numCodePoints > maxNumCodePoints
    /\ LET offset == CodePointOffsets(TextOf(string))[maxNumCodePoints]
       IN  Becomes(string, <<>>, offset, FlattenSeq(SubSeq(CodePointsOf(intended), 1, maxNumCodePoints)))

CountsCodePoints ==
    /\ string.mNumCodePoints = -1
    /\ string' = [string EXCEPT !.mNumCodePoints = numCodePoints]
    /\ UNCHANGED <<intended, stale, fault>>

\* What is left of white space at both ends.
WithoutSpaces(text) ==
    LET letters == {i \in DOMAIN text : text[i] # "sp"}
    IN  IF letters = {} THEN <<>> ELSE SubSeq(text, Min(letters), Max(letters))

\* A byte of a code point that is not ASCII is negative in a signed char, and no
\* greater than 0x20.
IsSolid(byte) == byte \in {"a", "A"}

Trims ==
    LET buf == TextOf(string)
        solid == {i \in DOMAIN buf : IsSolid(buf[i])}
        first == Min(solid)
        last == Max(solid)
        length == IF solid = {} THEN 0 ELSE last - first + 1
    IN  /\ length # string.mStringLength
        /\ Becomes(string, IF solid = {} THEN <<>> ELSE <<Part(0, SubSeq(buf, first, last))>>, length,
                   WithoutSpaces(intended))
        /\ damage' = IF length = Len(WithoutSpaces(intended)) THEN damage ELSE "trim"

\* set(), operator[] and the case folding change bytes where they are.
ChangesInPlace(bytes) ==
    /\ string' = WriteAt(string, 0, bytes)
    /\ intended' = bytes
    /\ stale' = (stale \/ (/\ string.mNumCodePoints # -1
                           /\ countUTF8CodePoints(bytes) # countUTF8CodePoints(intended)))
    /\ UNCHANGED fault

SetsByte(i, c) == i < string.mStringLength /\ ChangesInPlace([TextOf(string) EXCEPT ![i + 1] = c])
FoldsToUpper == ChangesInPlace([i \in 1..string.mStringLength |->
                                   IF string.buffer[i] = "a" THEN "A" ELSE string.buffer[i]])

Orphans ==
    /\ string' = [mUsingInternalBuffer |-> TRUE,
                  buffer |-> IF string.mUsingInternalBuffer
                             THEN [string.buffer EXCEPT ![1] = Terminator] ELSE EmptyBuffer,
                  mStringLength |-> 0, mNumCodePoints |-> 0]
    /\ intended' = <<>> /\ stale' = FALSE
    /\ UNCHANGED fault

-----------------------------------------------------------------------------
(* replace() *)

regionMatches(text, offset, s) ==
    /\ offset < Len(text) /\ offset + Len(s) <= Len(text) /\ s # <<>>
    /\ SubSeq(text, offset + 1, offset + Len(s)) = s

indexOf(text, s, fromIndex) ==
    LET found == {i \in fromIndex..Len(text) - 1 : regionMatches(text, i, s)}
    IN  IF found = {} THEN -1 ELSE CHOOSE i \in found : \A j \in found : i <= j

\* From one found place to the next, in the text as it has been altered so far.
Altered(text, s, r) ==
    LET walk[n \in 0..Len(text)] ==
            IF n = 0 THEN [text |-> text, found |-> indexOf(text, s, 0)]
            ELSE LET x == walk[n - 1]
                     t == SubSeq(x.text, 1, x.found) \o r
                              \o SubSeq(x.text, x.found + Len(s) + 1, Len(x.text))
                 IN  IF x.found = -1 THEN x
                     ELSE [text |-> t, found |-> IF t = <<>> THEN -1 ELSE indexOf(t, s, x.found + Len(r))]
    IN  walk[Len(text)].text

\* What it should be: each s from the left on, none overlapping another, is an r.
\* The first i bytes make the text so far, and some after them may be used up.
WithReplacements(text, s, r) ==
    LET scan[i \in 0..Len(text)] ==
            IF i = 0 THEN [made |-> <<>>, used |-> 0]
            ELSE LET x == scan[i - 1]
                 IN  IF i <= x.used THEN x
                     ELSE IF i + Len(s) - 1 <= Len(text) /\ SubSeq(text, i, i + Len(s) - 1) = s
                     THEN [made |-> x.made \o r, used |-> i + Len(s) - 1]
                     ELSE [made |-> Append(x.made, text[i]), used |-> i]
    IN  scan[Len(text)].made

ReplacesString(s, r) ==
    /\ s # <<>> /\ indexOf(TextOf(string), s, 0) # -1
    /\ LET t == Altered(TextOf(string), s, r)
           grown == IF t = <<>> THEN string ELSE preflight(string, Len(t))
       IN  Becomes(grown, IF t = <<>> THEN <<>> ELSE <<Part(0, Append(t, Terminator))>>, Len(t),
                   WithReplacements(intended, s, r))

\* The text was cut at the found place when there is no memory for the altered one.
ReplaceTears(s) ==
    /\ s # <<>> /\ indexOf(TextOf(string), s, 0) # -1
    /\ string' = WriteAt(string, indexOf(TextOf(string), s, 0), <<Terminator>>)
    /\ damage' = "replace"
    /\ UNCHANGED <<intended, stale, fault>>

StringNext ==
    /\ damage = "none" /\ ~ fault
    /\ \/ Trims
       \/ \E s \in Pieces : ReplaceTears(s)
       \/ /\ \/ \E s \in Pieces : AssignsString(s) \/ AppendsString(s)
             \/ \E s \in Pieces, offset \in -1..MaxText : InsertsString(s, offset)
             \/ \E offset \in 0..MaxText : InsertsItself(offset)
             \/ \E startIndex, endIndex \in -1..MaxText : SubstringInPlace(startIndex, endIndex)
             \/ \E n \in 0..MaxText : Truncates(n) \/ TruncatesCodePoints(n)
             \/ \E i \in 0..MaxText - 1, c \in {"a", "C2"} : SetsByte(i, c)
             \/ \E s, r \in Pieces : ReplacesString(s, r)
             \/ AppendsItself \/ CountsCodePoints \/ FoldsToUpper \/ Orphans
          /\ UNCHANGED damage

StringSpec == StringInit /\ [][StringNext]_stringVars

-----------------------------------------------------------------------------
(* split() *)

\* The items, and whether the stripping of empty ones looked before the first.
Split(text, delimiter, limit, stripTrailingEmpties) ==
    LET points == CodePointsOf(text)
        last(items) == limit >= 2 /\ Len(items) = limit - 1
        walk[k \in 0..Len(points)] ==
            IF k = 0 THEN [items |-> <<>>, item |-> <<>>]
            ELSE LET x == walk[k - 1]
                 IN  IF points[k] # delimiter \/ last(x.items)
                     THEN [items |-> x.items, item |-> x.item \o points[k]]
                     ELSE [items |-> Append(x.items, x.item), item |-> <<>>]
        all == walk[Len(points)]
        items == IF all.item = <<>> /\ ~ last(all.items) THEN all.items ELSE Append(all.items, all.item)
        kept == Max({0} \cup {i \in DOMAIN items : items[i] # <<>>})
    IN  IF stripTrailingEmpties THEN [items |-> SubSeq(items, 1, kept), before |-> kept = 0]
        ELSE [items |-> items, before |-> FALSE]

Joined(items, delimiter) ==
    FlattenSeq([i \in DOMAIN items |-> IF i = 1 THEN items[i] ELSE delimiter \o items[i]])

-----------------------------------------------------------------------------
StringTypeOK ==
    /\ string.mUsingInternalBuffer \in BOOLEAN
    /\ string.buffer \in Seq(StringBytes \cup {Terminator, Unwritten})
    /\ string.mStringLength \in 0..MaxText /\ string.mNumCodePoints \in -1..MaxText
    /\ intended \in Seq(StringBytes) /\ {stale, fault} \subseteq BOOLEAN
    /\ damage \in {"none", "replace", "trim"}

\* Delimiters and items make the text again, whatever the limit; and what is left
\* out is empty items at its end, or one if stripping is off.
SplitsAreParts ==
    IsWellFormed(intended) =>
        \A delimiter \in {<<"a">>, <<"C2", "80">>}, limit \in 0..3, strip \in BOOLEAN :
            LET parts == Split(intended, delimiter, limit, strip)
                joined == Joined(parts.items, delimiter)
            IN  /\ limit >= 2 => Len(parts.items) <= limit
                /\ \/ parts.before
                   \/ \E n \in 0..Len(intended) :
                         /\ ~ strip => n <= 1
                         /\ joined \o FlattenSeq([k \in 1..n |-> delimiter]) = intended

\* After any calls the string holds the text that these say, whatever the buffer is,
\* with its terminator and in its buffer; it knows the number of code points, unless
\* bytes were changed in place (994, 1542); and it is split into its parts.  When
\* memory runs out in replace() the text is lost (1437), and trim() takes bytes of
\* code points that are not ASCII (1661).
StringKeepsText ==
    /\ ~ fault
    /\ damage = "none" =>
        /\ TextOf(string) = intended
        /\ string.buffer[string.mStringLength + 1] = Terminator
        /\ string.mUsingInternalBuffer => Len(string.buffer) = InternalSize
        /\ ~ stale => string.mNumCodePoints \in {-1, countUTF8CodePoints(intended)}
        /\ SplitsAreParts
=============================================================================
