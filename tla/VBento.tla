------------------------------- MODULE VBento -------------------------------
(***************************************************************************)
(* Bento hierarchies (source/containers/vbento.cpp, vbento.h) written as   *)
(* text or as a binary stream, and read back: the text by the character    *)
(* automaton of VBentoTextNodeParser, the stream by nested constructors.   *)
(*                                                                         *)
(* A hierarchy is a sequence of nodes in the order of writing, each with   *)
(* the index of its parent.  A string is a sequence of characters; in a    *)
(* stream the fields keep their width, and the limits of the dynamic       *)
(* counts (vbinaryiostream.cpp) are constants, small enough that names of  *)
(* a few bytes cross them.                                                 *)
(***************************************************************************)
EXTENDS Integers, Sequences, SequencesExt

CONSTANTS
    Hierarchies,            \* the hierarchies to write
    MAX_ONE_BYTE_LENGTH, V_MAX_U16, V_MAX_U32

ASSUME BentoConstants ==
    /\ MAX_ONE_BYTE_LENGTH \in Nat /\ V_MAX_U16 \in Nat /\ V_MAX_U32 \in Nat
    /\ MAX_ONE_BYTE_LENGTH < V_MAX_U16 /\ V_MAX_U16 < V_MAX_U32

VARIABLES
    hierarchy,              \* what was written
    format,                 \* "text" or "binary"
    input,                  \* what is left to read: characters, or fields
    nodes,                  \* the nodes read
    parseStack,             \* mParseNodeStack, or the nested constructors: indices of nodes
    mTokenState,
    mPendingToken, mTokenEscapePending,
    pending,                \* mPendingAttributeName, -Type, -Qualifier and -Value
    toRead,                 \* of each node read from a stream, the attributes and children to come
    failed                  \* an exception, or data taken from the wrong place

textVars == <<mTokenState, mPendingToken, mTokenEscapePending, pending>>
bentoVars == <<hierarchy, format, input, nodes, parseStack, textVars, toRead, failed>>

NoAttribute == [name |-> <<>>, type |-> "", qualifier |-> <<>>, value |-> <<>>]
Newborn(parent) == [name |-> <<>>, parent |-> parent, attributes |-> <<>>]
Concat(parts) == FoldLeft(LAMBDA done, part : done \o part, <<>>, parts)
ChildrenOf(tree, i) == SelectSeq([j \in 1..Len(tree) |-> j], LAMBDA j : tree[j].parent = i)

-----------------------------------------------------------------------------
(* Writing text *)

\* variant: a quote is not escaped
SpecialButQuote(c) == c \in {"\\", "{", "}", "'"}
Special(c) == c \in {"\\", "{", "}", "\"", "'"}

escapeString(s) == Concat([i \in 1..Len(s) |-> IF Special(s[i]) THEN <<"\\", s[i]>> ELSE <<s[i]>>])

Quoted(q, s) == <<q>> \o s \o <<q>>

\* The elements of a string array: quoted, with two backslashes before a quote.
ElementText(s) ==
    Quoted("\"", Concat([i \in 1..Len(s) |-> IF s[i] = "\"" THEN <<"\\", "\\", "\"">> ELSE <<s[i]>>]))
ArrayText(values) ==
    Concat([i \in 1..Len(values) |-> (IF i > 1 THEN <<",">> ELSE <<>>) \o ElementText(values[i])])

\* The type is inferred from the quotes, or stands before the value; the text of
\* a type is one character here.
ValueText(a) ==
    CASE a.type = "vstr" ->
            (IF a.qualifier = <<>> THEN <<"=">> ELSE <<"=", "(">> \o a.qualifier \o <<")">>)
            \o Quoted("\"", escapeString(a.value))
      [] a.type = "u8ch" -> <<"=">> \o Quoted("'", escapeString(a.value))
      [] a.type = "vs32" -> <<"=">> \o a.value
      [] a.type = "vsta" -> <<"(", a.type, ")", "=">> \o Quoted("'", ArrayText(a.value))
      [] OTHER -> <<"(", a.type, ")", "=">> \o Quoted("\"", escapeString(a.value))

AttributeText(a) == <<"[">> \o Quoted("\"", escapeString(a.name)) \o ValueText(a) \o <<"]">>

NodeTexts(tree) ==
    LET text[i \in 1..Len(tree)] ==
          LET own == tree[i].attributes  children == ChildrenOf(tree, i) IN
          <<"{", " ">> \o Quoted("\"", escapeString(tree[i].name)) \o <<" ">>
          \o Concat([j \in 1..Len(own) |-> AttributeText(own[j]) \o <<" ">>])
          \o Concat([j \in 1..Len(children) |-> text[children[j]] \o <<" ">>])
          \o <<"}">>
    IN text[1]

-----------------------------------------------------------------------------
(* Reading text *)

\* VString::replace() of a backslash and the character q by q.
Replaced(s, q) ==
    FoldLeft(LAMBDA done, c :
        IF done.open /\ c = q
        THEN [open |-> FALSE, s |-> Append(Front(done.s), c)]
        ELSE [open |-> c = "\\", s |-> Append(done.s, c)],
        [open |-> FALSE, s |-> <<>>], s).s

unescapeString(s) ==
    Replaced(Replaced(Replaced(Replaced(Replaced(s, "'"), "\""), "}"), "{"), "\\")

Unquoted(s) == SubSeq(s, 2, Len(s) - 1)

\* VBentoStringArray::newFromBentoTextString().
ArrayOf(s) ==
    FoldLeft(LAMBDA a, c :
        CASE a.state = "InArray" -> [a EXCEPT !.state = IF c = "\"" THEN "InElement" ELSE "Error"]
          [] a.state = "InElement" /\ c = "\"" ->
                [state |-> "ElementEnded", values |-> Append(a.values, a.element), element |-> <<>>]
          [] a.state = "InElement" /\ c = "\\" -> [a EXCEPT !.state = "EscapePending"]
          [] a.state = "InElement" \/ a.state = "EscapePending" ->
                [a EXCEPT !.state = "InElement", !.element = Append(@, c)]
          [] a.state = "ElementEnded" ->
                [a EXCEPT !.state = CASE c = "," -> "InArray" [] c = "\"" -> "Done" [] c = " " -> @
                                      [] OTHER -> "Error"]
          [] OTHER -> IF a.state = "Done" /\ c = " " THEN a ELSE [a EXCEPT !.state = "Error"],
        [state |-> "InArray", values |-> <<>>, element |-> <<>>], s)

QuoteOf(s) == IF s = <<>> THEN "" ELSE s[1]

\* newObjectFromBentoTextValues(): the attribute, its type inferred or given.
Inferred(p) ==
    CASE QuoteOf(p.value) = "\"" ->
            [p EXCEPT !.type = "vstr", !.value = unescapeString(Unquoted(@))]
      [] QuoteOf(p.value) = "'" ->
            [p EXCEPT !.type = "u8ch", !.value = SubSeq(unescapeString(Unquoted(@)), 1, 1)]
      [] OTHER -> [p EXCEPT !.type = "vs32"]
Given(p) ==
    LET bare == IF QuoteOf(p.value) \in {"\"", "'"} THEN Unquoted(p.value) ELSE p.value IN
    IF p.type = "vsta" THEN [p EXCEPT !.value = ArrayOf(bare).values]
    ELSE [p EXCEPT !.value = unescapeString(bare)]
NewAttribute(p) == IF p.type = "" THEN Inferred(p) ELSE Given(p)
\* An unknown type, or an array that is not one, throws.
Unreadable(p) ==
    p.type = "unkn" \/ (p.type = "vsta" /\ ArrayOf(Unquoted(p.value)).state = "Error")

Pending == nodes[Last(parseStack)]
SetPending(node) == nodes' = [nodes EXCEPT ![Last(parseStack)] = node]
Skippable(c) == c = " "
Goto(state) == mTokenState' = state

\* The character c joins the token; a backslash does so if one came before it.
Absorbs(c) ==
    /\ IF c = "\\" /\ ~ mTokenEscapePending
       THEN mTokenEscapePending' = TRUE /\ UNCHANGED mPendingToken
       ELSE mTokenEscapePending' = FALSE /\ mPendingToken' = Append(mPendingToken, c)
    /\ UNCHANGED <<mTokenState, pending, nodes, parseStack, failed>>

Ends(c, terminators) == c \in terminators /\ ~ mTokenEscapePending
TokenDone == mPendingToken' = <<>> /\ UNCHANGED mTokenEscapePending

ParseThrows == failed' = TRUE /\ UNCHANGED <<textVars, nodes, parseStack>>

PushesNode(node) ==
    /\ Goto("IN_NODE")
    /\ nodes' = Append(nodes, node) /\ parseStack' = Append(parseStack, Len(nodes) + 1)
    /\ UNCHANGED <<mPendingToken, mTokenEscapePending, pending, failed>>

AddsAttribute ==
    IF Unreadable(pending') THEN failed' = TRUE /\ UNCHANGED nodes
    ELSE /\ SetPending([Pending EXCEPT !.attributes = Append(@, NewAttribute(pending'))])
         /\ UNCHANGED failed

ParsesInStart(c) ==
    /\ mTokenState = "START"
    /\ \/ Skippable(c) /\ UNCHANGED <<textVars, nodes, parseStack, failed>>
       \/ c = "{" /\ PushesNode(Newborn(0))
       \/ ~ Skippable(c) /\ c # "{" /\ ParseThrows

ParsesInNode(c) ==
    /\ mTokenState = "IN_NODE" /\ (parseStack # <<>> \/ Skippable(c))
    /\ \/ Skippable(c) /\ UNCHANGED <<textVars, nodes, parseStack, failed>>
       \/ /\ c = "\"" /\ Goto("IN_NODE_NAME")
          /\ UNCHANGED <<mPendingToken, mTokenEscapePending, pending, nodes, parseStack, failed>>
       \/ /\ c = "[" /\ Goto("IN_ATTRIBUTE") /\ pending' = NoAttribute
          /\ UNCHANGED <<mPendingToken, mTokenEscapePending, nodes, parseStack, failed>>
       \/ c = "{" /\ PushesNode(Newborn(Last(parseStack)))
       \/ c = "}" /\ parseStack' = Front(parseStack) /\ UNCHANGED <<textVars, nodes, failed>>
       \/ ~ Skippable(c) /\ c \notin {"\"", "[", "{", "}"} /\ ParseThrows

ParsesInNodeName(c) ==
    /\ mTokenState = "IN_NODE_NAME"
    /\ IF Ends(c, {"\""})
       THEN /\ SetPending([Pending EXCEPT !.name = mPendingToken]) /\ TokenDone /\ Goto("IN_NODE")
            /\ UNCHANGED <<pending, parseStack, failed>>
       ELSE Absorbs(c)

ParsesInAttribute(c) ==
    /\ mTokenState = "IN_ATTRIBUTE"
    /\ UNCHANGED <<mPendingToken, mTokenEscapePending, parseStack>>
    /\ \/ Skippable(c) /\ UNCHANGED <<mTokenState, pending, nodes, failed>>
       \/ c = "\"" /\ Goto("IN_ATTRIBUTE_NAME") /\ UNCHANGED <<pending, nodes, failed>>
       \/ c = "(" /\ Goto("IN_ATTRIBUTE_TYPE") /\ UNCHANGED <<pending, nodes, failed>>
       \/ c = "=" /\ Goto("IN_ATTRIBUTE_PRE_VALUE") /\ UNCHANGED <<pending, nodes, failed>>
       \/ c = "]" /\ Goto("IN_NODE") /\ UNCHANGED pending /\ AddsAttribute
       \/ ~ Skippable(c) /\ c \notin {"\"", "(", "=", "]"} /\ ParseThrows

ParsesInAttributeName(c) ==
    /\ mTokenState = "IN_ATTRIBUTE_NAME"
    /\ IF Ends(c, {"\""})
       THEN /\ pending' = [pending EXCEPT !.name = mPendingToken] /\ TokenDone /\ Goto("IN_ATTRIBUTE")
            /\ UNCHANGED <<nodes, parseStack, failed>>
       ELSE Absorbs(c)

\* Between parentheses: the type, before the equal sign, or the encoding, after it.
ParsesInParentheses(c, state, next, done) ==
    /\ mTokenState = state
    /\ IF c = ")"
       THEN pending' = done /\ mPendingToken' = <<>> /\ Goto(next)
       ELSE mPendingToken' = Append(mPendingToken, c) /\ UNCHANGED <<mTokenState, pending>>
    /\ UNCHANGED <<mTokenEscapePending, nodes, parseStack, failed>>

ParsesBeforeValue(c) ==
    /\ mTokenState = "IN_ATTRIBUTE_PRE_VALUE"
    /\ CASE c = "(" -> Goto("IN_ATTRIBUTE_PRE_VALUE_QUALIFIER") /\ UNCHANGED <<mPendingToken, mTokenEscapePending>>
         [] c = "\\" -> /\ Goto("IN_ATTRIBUTE_VALUE_UNQUOTED") /\ mTokenEscapePending' = TRUE
                        /\ UNCHANGED mPendingToken
         [] OTHER -> /\ mPendingToken' = Append(mPendingToken, c) /\ mTokenEscapePending' = FALSE
                     /\ Goto(CASE c = "\"" -> "IN_ATTRIBUTE_VALUE_DOUBLE_QUOTED"
                               [] c = "'" -> "IN_ATTRIBUTE_VALUE_SINGLE_QUOTED"
                               [] OTHER -> "IN_ATTRIBUTE_VALUE_UNQUOTED")
    /\ UNCHANGED <<pending, nodes, parseStack, failed>>

\* The token keeps its quotes, and has already lost the backslashes.
ParsesQuoted(c, state, quote) ==
    /\ mTokenState = state
    /\ IF Ends(c, {quote})
       THEN /\ pending' = [pending EXCEPT !.value = Append(mPendingToken, c)]
            /\ TokenDone /\ Goto("IN_ATTRIBUTE")
            /\ UNCHANGED <<nodes, parseStack, failed>>
       ELSE Absorbs(c)

ParsesUnquoted(c) ==
    /\ mTokenState = "IN_ATTRIBUTE_VALUE_UNQUOTED"
    /\ IF Ends(c, {" ", "]"})
       THEN /\ pending' = [pending EXCEPT !.value = mPendingToken] /\ TokenDone
            /\ UNCHANGED parseStack
            /\ IF c = "]" THEN Goto("IN_NODE") /\ AddsAttribute
               ELSE Goto("IN_ATTRIBUTE") /\ UNCHANGED <<nodes, failed>>
       ELSE Absorbs(c)

\* One call of _parseCharacter().
ParsesCharacter ==
    /\ format = "text" /\ input # <<>> /\ ~ failed
    /\ LET c == Head(input) IN
        \/ ParsesInStart(c) \/ ParsesInNode(c) \/ ParsesInNodeName(c)
        \/ ParsesInAttribute(c) \/ ParsesInAttributeName(c)
        \/ ParsesInParentheses(c, "IN_ATTRIBUTE_TYPE", "IN_ATTRIBUTE",
                               [pending EXCEPT !.type = Last(<<"">> \o mPendingToken)])
        \/ ParsesBeforeValue(c)
        \/ ParsesInParentheses(c, "IN_ATTRIBUTE_PRE_VALUE_QUALIFIER", "IN_ATTRIBUTE_PRE_VALUE",
                               [pending EXCEPT !.qualifier = mPendingToken])
        \/ ParsesQuoted(c, "IN_ATTRIBUTE_VALUE_DOUBLE_QUOTED", "\"")
        \/ ParsesQuoted(c, "IN_ATTRIBUTE_VALUE_SINGLE_QUOTED", "'")
        \/ ParsesUnquoted(c)
    /\ input' = Tail(input)
    /\ UNCHANGED <<hierarchy, format, toRead>>

-----------------------------------------------------------------------------
(* The binary stream *)

Field(width, content) == [width |-> width, is |-> content]

\* getDynamicCountLength(), and writeDynamicCount(): the first byte holds the
\* count, or says how many bytes follow with it; here by their negative number.
getDynamicCountLength(n) ==
    CASE n <= MAX_ONE_BYTE_LENGTH -> 1 [] n <= V_MAX_U16 -> 3 [] n <= V_MAX_U32 -> 5 [] OTHER -> 9
CountFields(n) ==
    IF n <= MAX_ONE_BYTE_LENGTH THEN <<Field(1, n)>>
    ELSE LET bytes == IF n <= V_MAX_U16 THEN 2 ELSE IF n <= V_MAX_U32 THEN 4 ELSE 8
         IN <<Field(1, -bytes), Field(bytes, n)>>
StringFields(s) == CountFields(Len(s)) \o (IF s = <<>> THEN <<>> ELSE <<Field(Len(s), s)>>)
StringLength(s) == getDynamicCountLength(Len(s)) + Len(s)
Total(numbers) == FoldLeft(LAMBDA sum, n : sum + n, 0, numbers)

\* getDataLength() and writeDataToBinaryStream() of each type.
DataLength(a) ==
    CASE a.type = "vstr" -> StringLength(a.qualifier) + StringLength(a.value)
      [] a.type = "vsta" -> 4 + Total([i \in 1..Len(a.value) |-> StringLength(a.value[i])])
      [] a.type = "u8ch" -> 1
      [] a.type = "vs32" -> 4
      [] a.type = "unkn" -> Len(a.value)
      [] OTHER -> 8
DataFields(a) ==
    CASE a.type = "vstr" -> StringFields(a.qualifier) \o StringFields(a.value)
      [] a.type = "vsta" ->
            <<Field(4, Len(a.value))>> \o Concat([i \in 1..Len(a.value) |-> StringFields(a.value[i])])
      [] a.type = "u8ch" -> <<Field(1, a.value)>>
      [] a.type = "vs32" -> <<Field(4, a.value)>>
      [] a.type = "unkn" -> <<Field(Len(a.value), a.value)>>
      [] OTHER -> <<Field(8, a.value)>>

calculateContentSize(a) == 4 + StringLength(a.name) + DataLength(a)
WithLength(size) == getDynamicCountLength(size) + size
AttributeFields(a) ==
    CountFields(calculateContentSize(a)) \o <<Field(4, a.type)>> \o StringFields(a.name) \o DataFields(a)

ContentSizes(tree) ==
    LET size[i \in 1..Len(tree)] ==
          LET own == tree[i].attributes  children == ChildrenOf(tree, i) IN
          8 + StringLength(tree[i].name)
          + Total([j \in 1..Len(own) |-> WithLength(calculateContentSize(own[j]))])
          + Total([j \in 1..Len(children) |-> WithLength(size[children[j]])])
    IN size

NodeFields(tree) ==
    LET fields[i \in 1..Len(tree)] ==
          LET own == tree[i].attributes  children == ChildrenOf(tree, i) IN
          CountFields(ContentSizes(tree)[i]) \o <<Field(4, Len(own)), Field(4, Len(children))>>
          \o StringFields(tree[i].name)
          \o Concat([j \in 1..Len(own) |-> AttributeFields(own[j])])
          \o Concat([j \in 1..Len(children) |-> fields[children[j]]])
    IN fields[1]

\* What is read first, and the rest: a dynamic count, a string, several strings.
TakeCount(in) ==
    IF Head(in).is >= 0 THEN [is |-> Head(in).is, rest |-> Tail(in)]
    ELSE [is |-> in[2].is, rest |-> Tail(Tail(in))]
TakeString(in) ==
    LET count == TakeCount(in) IN
    IF count.is = 0 THEN [is |-> <<>>, rest |-> count.rest]
    ELSE [is |-> Head(count.rest).is, rest |-> Tail(count.rest)]
TakeStrings(in, n) ==
    FoldLeft(LAMBDA done, i : LET s == TakeString(done.rest) IN
                              [is |-> Append(done.is, s.is), rest |-> s.rest],
             [is |-> <<>>, rest |-> in], [i \in 1..n |-> i])

\* newObjectFromStream(): the type decides what is read.
TakeData(type, in) ==
    CASE type = "vstr" -> TakeStrings(in, 2)
      [] type = "vsta" -> TakeStrings(Tail(in), Head(in).is)
      [] OTHER -> [is |-> Head(in).is, rest |-> Tail(in)]

Top == Last(parseStack)

\* The VBentoNode constructor up to the attributes.
ReadsNode ==
    /\ format = "binary" /\ ~ failed
    /\ nodes = <<>> \/ (parseStack # <<>> /\ toRead[Top].attributes = 0 /\ toRead[Top].children > 0)
    /\ LET header == TakeCount(input).rest
           name == TakeString(Tail(Tail(header)))
           started == IF nodes = <<>> THEN toRead ELSE [toRead EXCEPT ![Top].children = @ - 1]
       IN
       /\ nodes' = Append(nodes, [Newborn(IF nodes = <<>> THEN 0 ELSE Top) EXCEPT !.name = name.is])
       /\ toRead' = Append(started, [attributes |-> header[1].is, children |-> header[2].is])
       /\ input' = name.rest
    /\ parseStack' = Append(parseStack, Len(nodes) + 1)
    /\ UNCHANGED <<hierarchy, format, textVars, failed>>

\* The length is only used for an unknown type: it counts the type and the name
\* too, so that the value takes bytes of what follows it, if anything does.
ReadsAttribute ==
    /\ format = "binary" /\ ~ failed
    /\ parseStack # <<>> /\ toRead[Top].attributes > 0
    /\ LET header == TakeCount(input).rest
           type == Head(header).is
           name == TakeString(Tail(header))
           data == TakeData(type, name.rest)
       IN
       /\ SetPending([Pending EXCEPT !.attributes = Append(@,
             [name |-> name.is, type |-> type,
              qualifier |-> IF type = "vstr" THEN data.is[1] ELSE <<>>,
              value |-> IF type = "vstr" THEN data.is[2] ELSE data.is])])
       /\ failed' = (type = "unkn" /\ data.rest # <<>>)
       /\ input' = data.rest
    /\ toRead' = [toRead EXCEPT ![Top].attributes = @ - 1]
    /\ UNCHANGED <<hierarchy, format, parseStack, textVars>>

ReturnsNode ==
    /\ format = "binary" /\ ~ failed
    /\ parseStack # <<>> /\ toRead[Top] = [attributes |-> 0, children |-> 0]
    /\ parseStack' = Front(parseStack)
    /\ UNCHANGED <<hierarchy, format, input, nodes, textVars, toRead, failed>>

-----------------------------------------------------------------------------
BentoInit ==
    /\ hierarchy \in Hierarchies /\ format \in {"text", "binary"}
    /\ input = IF format = "text" THEN NodeTexts(hierarchy) ELSE NodeFields(hierarchy)
    /\ nodes = <<>> /\ parseStack = <<>>
    /\ mTokenState = "START" /\ mPendingToken = <<>> /\ mTokenEscapePending = FALSE
    /\ pending = NoAttribute
    /\ toRead = <<>> /\ failed = FALSE

BentoNext == ParsesCharacter \/ ReadsNode \/ ReadsAttribute \/ ReturnsNode

BentoSpec == BentoInit /\ [][BentoNext]_bentoVars

-----------------------------------------------------------------------------
(* Properties *)

\* The state of a reading has its types.
BentoTypeOK ==
    /\ format \in {"text", "binary"}
    /\ Len(nodes) <= Len(hierarchy) \/ format = "text"
    /\ \A i \in DOMAIN parseStack : parseStack[i] \in DOMAIN nodes
    /\ mTokenEscapePending \in BOOLEAN /\ failed \in BOOLEAN

Has(s, c) == \E i \in DOMAIN s : s[i] = c
Attributes(tree) == UNION {{tree[i].attributes[j] : j \in DOMAIN tree[i].attributes} : i \in DOMAIN tree}

\* What the text form loses: the parser takes the backslashes of a string away,
\* and unescaping takes them away again; an array's apostrophes end it, and a
\* value of unknown type throws. A stream only misreads the unknown type.
WithoutBackslashes(s) == SelectSeq(s, LAMBDA c : c # "\\")
Breaks(a) ==
    \/ a.type = "unkn"
    \/ format = "text" /\ a.type = "vsta" /\ \E i \in DOMAIN a.value : Has(a.value[i], "\\") \/ Has(a.value[i], "'")

\* An attribute read for a written one: the same, or as text a string without
\* some of its backslashes.
Matches(read, written) ==
    \/ read = written
    \/ /\ format = "text" /\ written.type = "vstr"
       /\ [read EXCEPT !.value = WithoutBackslashes(@)] = [written EXCEPT !.value = WithoutBackslashes(@)]

Broken == \E a \in Attributes(hierarchy) : Breaks(a)

\* A hierarchy reads back as it was written, in both formats, whatever
\* characters are in its names and values and whatever form the lengths take
\* (vbento.cpp 73-260, 385-470, 1626-1700, 2549-2640; vbinaryiostream.cpp
\* 193-348): nothing that was read is wrong before the end, nothing is missing
\* at the end, and the calculated sizes are those of the stream.
BentoReadsBack ==
    ~ Broken =>
        /\ ~ failed
        /\ Len(nodes) <= Len(hierarchy)
        /\ \A i \in DOMAIN nodes : LET n == nodes[i]  w == hierarchy[i] IN
              /\ n.parent = w.parent /\ n.name \in {<<>>, w.name}
              /\ Len(n.attributes) <= Len(w.attributes)
              /\ \A j \in DOMAIN n.attributes : Matches(n.attributes[j], w.attributes[j])
        /\ input = <<>> =>
              /\ Len(nodes) = Len(hierarchy)
              /\ \A i \in DOMAIN nodes : /\ nodes[i].name = hierarchy[i].name
                                        /\ Len(nodes[i].attributes) = Len(hierarchy[i].attributes)
        /\ format = "binary" /\ nodes = <<>> =>
              Total([i \in DOMAIN input |-> input[i].width]) = WithLength(ContentSizes(hierarchy)[1])
=============================================================================
