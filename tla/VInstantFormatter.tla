------------------------- MODULE VInstantFormatter -------------------------
(***************************************************************************)
(* VInstantFormatter::_format() (source/containers/vinstant.cpp): a format *)
(* is read character by character into fields, which are runs of one       *)
(* letter, and text.  The result is a sequence of what is appended, each   *)
(* field with its letters; what a field looks like is left out.            *)
(***************************************************************************)
EXTENDS Integers, Sequences

CONSTANTS
    FieldLetters,           \* letters of fields,
    UnusedLetters,          \*   and those that are not implemented
    PlainCharacters,        \* characters that stand for themselves
    NonASCII,               \*   and others that should, but are not ASCII
    MaxFormat               \* bound: the length of a format

SingleQuote == "'"

ASSUME FormatConstants ==
    /\ MaxFormat \in Nat
    /\ SingleQuote \notin FieldLetters \cup UnusedLetters \cup PlainCharacters \cup NonASCII
    /\ FieldLetters \cap (UnusedLetters \cup PlainCharacters \cup NonASCII) = {}
    /\ UnusedLetters \cap (PlainCharacters \cup NonASCII) = {}
    /\ PlainCharacters \cap NonASCII = {}

Characters == FieldLetters \cup UnusedLetters \cup PlainCharacters \cup NonASCII \cup {SingleQuote}
Formats == UNION {[1..n -> Characters] : n \in 0..MaxFormat}

VARIABLES
    mFormatSpecifier,
    position,               \* of the iterator
    pendingFieldSpecifier,
    isEscaped, isUnescapePending, gotEscapedChars,
    result,
    passedOver              \* history: whether a character has been passed over

formatVars == <<mFormatSpecifier, position, pendingFieldSpecifier, isEscaped,
                isUnescapePending, gotEscapedChars, result, passedOver>>

FieldOf(letters) == [field |-> letters]
PlainText(c) == [text |-> c]

FormatInit ==
    /\ mFormatSpecifier \in Formats /\ position = 1
    /\ pendingFieldSpecifier = <<>> /\ result = <<>>
    /\ isEscaped = FALSE /\ isUnescapePending = FALSE /\ gotEscapedChars = FALSE
    /\ passedOver = FALSE

\* _flushPendingFieldSpecifier()
WithPending(output) ==
    IF pendingFieldSpecifier = <<>> THEN output ELSE Append(output, FieldOf(pendingFieldSpecifier))

Escapes(c) ==
    /\ isEscaped
    /\ \/ /\ c = SingleQuote /\ isUnescapePending
          /\ result' = Append(result, PlainText(SingleQuote)) /\ isUnescapePending' = FALSE
          /\ UNCHANGED gotEscapedChars
       \/ /\ c = SingleQuote /\ ~ isUnescapePending
          /\ isUnescapePending' = TRUE /\ UNCHANGED <<result, gotEscapedChars>>
       \/ /\ c # SingleQuote /\ ~ isUnescapePending
          /\ gotEscapedChars' = TRUE /\ result' = Append(result, PlainText(c))
          /\ UNCHANGED isUnescapePending
    /\ UNCHANGED <<pendingFieldSpecifier, isEscaped, passedOver>>

\* variant: a pair of quotes always ends a text
EndsEscapeOnly(output) == output

\* Two quotes with nothing between them are one quote.
EndsEscape(output) == IF gotEscapedChars THEN output ELSE Append(output, PlainText(SingleQuote))

\* The character after the closing quote, or one that is not escaped, with what has
\* been appended before it.  One that is not ASCII leaves the field before it pending.
Interprets(c, before) ==
    /\ gotEscapedChars' = FALSE /\ isUnescapePending' = FALSE
    /\ isEscaped' = (c = SingleQuote) /\ passedOver' = (passedOver \/ c \in NonASCII)
    /\ \/ /\ c \in FieldLetters
          /\ IF pendingFieldSpecifier # <<>> /\ c # Head(pendingFieldSpecifier)
             THEN result' = WithPending(before) /\ pendingFieldSpecifier' = <<c>>
             ELSE result' = before /\ pendingFieldSpecifier' = Append(pendingFieldSpecifier, c)
       \/ /\ c \in {SingleQuote} \cup UnusedLetters
          /\ result' = WithPending(before) /\ pendingFieldSpecifier' = <<>>
       \/ /\ c \in PlainCharacters
          /\ result' = Append(WithPending(before), PlainText(c)) /\ pendingFieldSpecifier' = <<>>
       \/ /\ c \in NonASCII
          /\ result' = before /\ UNCHANGED pendingFieldSpecifier

TakesCharacter ==
    /\ position <= Len(mFormatSpecifier)
    /\ LET c == mFormatSpecifier[position] IN
           \/ Escapes(c)
           \/ isEscaped /\ isUnescapePending /\ c # SingleQuote /\ Interprets(c, EndsEscape(result))
           \/ ~ isEscaped /\ Interprets(c, result)
    /\ position' = position + 1
    /\ UNCHANGED mFormatSpecifier

Finishes ==
    /\ position = Len(mFormatSpecifier) + 1 /\ position' = position + 1
    /\ result' = WithPending(result) /\ pendingFieldSpecifier' = <<>>
    /\ UNCHANGED <<mFormatSpecifier, isEscaped, isUnescapePending, gotEscapedChars, passedOver>>

FormatNext == TakesCharacter \/ Finishes

FormatSpec == FormatInit /\ [][FormatNext]_formatVars

-----------------------------------------------------------------------------
\* The iterator and what it has read have their types.
FormatTypeOK ==
    /\ mFormatSpecifier \in Formats /\ position \in 1..(Len(mFormatSpecifier) + 2)
    /\ \A i \in DOMAIN pendingFieldSpecifier : pendingFieldSpecifier[i] \in FieldLetters
    /\ isEscaped \in BOOLEAN /\ isUnescapePending \in BOOLEAN /\ gotEscapedChars \in BOOLEAN
    /\ passedOver \in BOOLEAN
    /\ result \in Seq([field : Seq(FieldLetters)] \cup [text : Characters])

\* What Java's SimpleDateFormat makes of a format: two quotes are one wherever they
\* are, single ones begin and end a text, and a run of one letter is a field.  From
\* each place on it is what is there, and what rest has of the places after it.
RunFrom(format, i) ==
    CHOOSE m \in i..Len(format) : /\ \A k \in i..m : format[k] = format[i]
                                  /\ m = Len(format) \/ format[m + 1] # format[i]
SpecifiedAt(format, rest, i, inText) ==
    LET n == Len(format)
    IN  IF i > n THEN <<>>
        ELSE IF format[i] = SingleQuote /\ i < n /\ format[i + 1] = SingleQuote
        THEN <<PlainText(SingleQuote)>> \o rest[i + 2][inText]
        ELSE IF format[i] = SingleQuote THEN rest[i + 1][~ inText]
        ELSE IF inText \/ format[i] \in PlainCharacters \cup NonASCII
        THEN <<PlainText(format[i])>> \o rest[i + 1][inText]
        ELSE IF format[i] \in UnusedLetters THEN rest[i + 1][inText]
        ELSE <<FieldOf(SubSeq(format, i, RunFrom(format, i)))>> \o rest[RunFrom(format, i) + 1][inText]
SpecifiedFrom(format) ==
    LET rest[i \in 1..Len(format) + 1] ==
            [inText \in BOOLEAN |-> SpecifiedAt(format, rest, i, inText)]
    IN  rest[1][FALSE]

\* Quotes, text and fields come out as in SimpleDateFormat (vinstant.cpp 1470-1580),
\* except that two quotes that are nothing but a quote are lost at the end of a format,
\* and a character outside of quotes that is not ASCII anywhere (1517).
FormatsAsSpecified ==
    position = Len(mFormatSpecifier) + 2 =>
        result = SpecifiedFrom(mFormatSpecifier)
        \/ (isUnescapePending /\ ~ gotEscapedChars)
        \/ passedOver
=============================================================================
