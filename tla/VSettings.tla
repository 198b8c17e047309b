----------------------------- MODULE VSettings -----------------------------
(***************************************************************************)
(* A tree of settings (toolbox/vsettings.cpp, vsettings.h), kept as an     *)
(* outline: the nodes in the order writeToStream() meets them, each with   *)
(* its depth; 0 is the VSettings object.  Names and values are sequences   *)
(* of tokens, of which only the characters that mean something to the      *)
(* parser are told apart; indentation is left out.                         *)
(***************************************************************************)
EXTENDS Integers, FiniteSets, Sequences, SequencesExt, FiniteSetsExt

CONSTANTS
    SettingPaths,       \* paths: sequences of names
    SettingValues,      \* values: sequences of tokens
    SettingTexts,       \* texts that are read: sequences of tokens
    Indexed,            \* the name and the index of each name that ends with "[n]"
    MaxNodes            \* bound: the nodes of the tree

ASSUME SettingsConstants ==
    /\ MaxNodes \in Nat
    /\ \A path \in SettingPaths : path # <<>> /\ path \in Seq(ToSet(path))
    /\ \A text \in SettingTexts : text \in Seq(ToSet(text))

VARIABLES
    settings,           \* the outline
    callEnds            \* how the last call ended: "returns", "throws" or "undefined"

settingsVars == <<settings, callEnds>>

AttributeKinds == {"attribute", "item"}     \* with and without mHasValue
ChildKinds == {"tag", "cdata"}
CDATAName == "<cdata>"
EmptyName == ""
Node(depth, kind, name, value) == [depth |-> depth, kind |-> kind, name |-> name, value |-> value]

SettingsInit == settings = <<>> /\ callEnds = "returns"

-----------------------------------------------------------------------------
(* The tree *)

NoNode == -1

DepthOf(t, i) == IF i = 0 THEN 0 ELSE t[i].depth
EndOf(t, i) == Min({k \in i + 1..Len(t) : t[k].depth <= DepthOf(t, i)} \cup {Len(t) + 1}) - 1
Below(t, i, kinds) ==
    {j \in i + 1..EndOf(t, i) : t[j].depth = DepthOf(t, i) + 1 /\ t[j].kind \in kinds}
Named(t, nodes, name) == {j \in nodes : t[j].name = name}
FirstOf(nodes) == IF nodes = {} THEN NoNode ELSE Min(nodes)

NameOnly(name) == IF name \in DOMAIN Indexed THEN Indexed[name][1] ELSE name

\* Attributes are counted before child nodes.
getNamedChild(t, i, name, index) ==
    LET named == Named(t, Below(t, i, AttributeKinds \cup ChildKinds), name)
    IN  FirstOf({j \in named : Cardinality({k \in named : k < j}) = index})

_findAttribute(t, i, name) == FirstOf(Named(t, Below(t, i, AttributeKinds), name))

\* An index is only looked at below the top level.
_findChildTag(t, i, name) ==
    IF i # 0 /\ name \in DOMAIN Indexed
    THEN getNamedChild(t, i, Indexed[name][1], Indexed[name][2])
    ELSE FirstOf(Named(t, Below(t, i, ChildKinds), name))

\* From one node down to the next; the last name may be that of an attribute.
findNode(t, path) ==
    LET next(i, k) ==
            IF i = NoNode THEN NoNode
            ELSE IF i # 0 /\ k = Len(path) /\ _findAttribute(t, i, path[k]) # NoNode
                 THEN _findAttribute(t, i, path[k])
                 ELSE _findChildTag(t, i, path[k])
        found[k \in 0..Len(path)] == IF k = 0 THEN 0 ELSE next(found[k - 1], k)
    IN  IF path = <<>> THEN NoNode ELSE found[Len(path)]

countNodes(t, path) ==
    LET parent == findNode(t, Front(path))
    IN  IF parent = NoNode THEN 0
        ELSE Cardinality(Named(t, Below(t, parent, AttributeKinds \cup ChildKinds), Last(path)))

\* The node that has the text: an attribute, or the first CDATA of a tag.
ValueNode(t, i) ==
    IF i = NoNode \/ t[i].kind # "tag" THEN i ELSE FirstOf(Named(t, Below(t, i, ChildKinds), CDATAName))

NotFound == <<"not found">>

\* getString(); a tag without CDATA has the empty string.
StringAt(t, path) ==
    LET i == findNode(t, path)
    IN  IF i = NoNode THEN NotFound
        ELSE IF ValueNode(t, i) = NoNode THEN <<>> ELSE t[ValueNode(t, i)].value

InsertAfter(t, i, nodes) == SubSeq(t, 1, i) \o nodes \o SubSeq(t, i + 1, Len(t))
LastAttribute(t, i) == i + Cardinality(Below(t, i, AttributeKinds))
Without(t, nodes) ==
    LET gone == UNION {j..EndOf(t, j) : j \in nodes}
        kept[k \in 0..Len(t)] ==
            IF k = 0 THEN <<>> ELSE IF k \in gone THEN kept[k - 1] ELSE Append(kept[k - 1], t[k])
    IN  kept[Len(t)]

-----------------------------------------------------------------------------
(* Changes *)

\* _addLeafValue(): a tag at the top level, an attribute below.
AddLeaf(t, i, name, kind, value) ==
    IF i = 0 THEN t \o <<Node(1, "tag", NameOnly(name), <<>>), Node(2, "cdata", CDATAName, value)>>
    ELSE InsertAfter(t, LastAttribute(t, i), <<Node(t[i].depth + 1, kind, name, value)>>)

\* variant: an attribute that becomes a tag loses its value
EmptyTag(name, value, depth) == <<Node(depth, "tag", name, <<>>)>>
TagOf(name, value, depth) ==
    <<Node(depth, "tag", name, <<>>), Node(depth + 1, "cdata", CDATAName, value)>>

\* An attribute that gets a node below it becomes a tag.
Promoted(t, i, attribute) ==
    LET end == EndOf(t, i)
        grown == InsertAfter(t, end, TagOf(t[attribute].name, t[attribute].value, t[attribute].depth))
    IN  [tree |-> Without(grown, {attribute}), at |-> end]

Grown(t, i, name) ==
    [tree |-> InsertAfter(t, EndOf(t, i), <<Node(DepthOf(t, i) + 1, "tag", NameOnly(name), <<>>)>>),
     at |-> EndOf(t, i) + 1]

\* add(): the tree and how the call ends.  Nothing can be added to an attribute.
Added(t, path, kind, value) ==
    LET descend(x, k) ==
            LET child == _findChildTag(x.tree, x.at, path[k])
                attribute == _findAttribute(x.tree, x.at, path[k])
            IN  IF x.at = NoNode \/ (x.at # 0 /\ x.tree[x.at].kind # "tag") THEN [x EXCEPT !.at = NoNode]
                ELSE IF child # NoNode THEN [x EXCEPT !.at = child]
                ELSE IF attribute # NoNode /\ x.at # 0 THEN Promoted(x.tree, x.at, attribute)
                ELSE Grown(x.tree, x.at, path[k])
        reached[k \in 0..Len(path) - 1] ==
            IF k = 0 THEN [tree |-> t, at |-> 0] ELSE descend(reached[k - 1], k)
        parent == reached[Len(path) - 1]
    IN  IF parent.at = NoNode \/ (parent.at # 0 /\ parent.tree[parent.at].kind # "tag")
        THEN [tree |-> parent.tree, ends |-> "throws"]
        ELSE [tree |-> AddLeaf(parent.tree, parent.at, Last(path), kind, value), ends |-> "returns"]

\* deleteNamedChildren() of the node the path leads to.
Deleted(t, path) ==
    LET parent == IF Len(path) = 1 THEN 0 ELSE findNode(t, Front(path))
    IN  IF parent = NoNode THEN t
        ELSE Without(t, Named(t, Below(t, parent, AttributeKinds \cup ChildKinds), Last(path)))

\* setLiteral(): a tag must have CDATA.
Set(t, path, value) ==
    LET i == findNode(t, path)
        at == ValueNode(t, i)
    IN  IF i = NoNode THEN Added(t, path, "attribute", value)
        ELSE IF at = NoNode THEN [tree |-> t, ends |-> "throws"]
        ELSE [tree |-> [t EXCEPT ![at].value = value,
                                 ![at].kind = IF @ = "item" THEN "attribute" ELSE @],
              ends |-> "returns"]

Result(x) == Len(x.tree) <= MaxNodes /\ settings' = x.tree /\ callEnds' = x.ends

AddsStringValue(path, value) == Result(Added(settings, path, "attribute", value))
AddsItem(path) == Result(Added(settings, path, "item", <<>>))
SetsStringValue(path, value) == Result(Set(settings, path, value))
DeletesNode(path) == Result([tree |-> Deleted(settings, path), ends |-> "returns"])

\* setPointValue(): what was there is deleted, then its parts are added; the second
\* is not when the first throws.
SetsPointValue(path, x, y) ==
    LET first == Added(Deleted(settings, path), Append(path, "x"), "attribute", x)
    IN  Result(IF first.ends = "throws" THEN first
               ELSE Added(first.tree, Append(path, "y"), "attribute", y))

-----------------------------------------------------------------------------
(* Writing *)

Quote == "quote"
Space == " "
EndOfLine == "nl"

\* Each node's text, what ends a start tag after its last attribute, and the end tags
\* of those that end with this node, from the innermost out.
NodeText(t, i) ==
    LET n == t[i] IN
    CASE n.kind = "tag" -> <<"<", n.name>>
      [] n.kind = "attribute" -> <<Space, n.name, "=", Quote>> \o n.value \o <<Quote>>
      [] n.kind = "item" -> <<Space, n.name>>
      [] n.kind = "cdata" -> Append(n.value, EndOfLine)

StartTagEnd(t, i) ==
    LET opened == {o \in 1..i : t[o].kind = "tag" /\ LastAttribute(t, o) = i}
    IN  IF opened = {} THEN <<>>
        ELSE IF EndOf(t, Max(opened)) = i THEN <<Space, "/", ">", EndOfLine>> ELSE <<">", EndOfLine>>

EndTags(t, i) ==
    LET closed == {o \in 1..i : t[o].kind = "tag" /\ EndOf(t, o) = i /\ LastAttribute(t, o) < i}
    IN  FoldLeft(LAMBDA tags, o :
                     IF o \in closed THEN <<"<", "/", t[o].name, ">", EndOfLine>> \o tags ELSE tags,
                 <<>>, [o \in 1..i |-> o])

writeToStream(t) ==
    FlattenSeq([i \in DOMAIN t |-> NodeText(t, i) \o StartTagEnd(t, i) \o EndTags(t, i)])

-----------------------------------------------------------------------------
(* Reading: VSettingsXMLParser *)

Punctuation == {"<", ">", "/", "=", "!", "-", Space, Quote}
ClassOf(token) == IF token \in Punctuation THEN token ELSE "word"
NameClasses == {"word", "!", "-", Quote}
AllClasses == Punctuation \cup {"word"}

\* In a state, these tokens lead to that state; what is emitted, and whether the token
\* is accumulated, before or after.  A change of state resets the element.  What is
\* not here is a syntax error.
Step(from, tokens, to, emits, keeps) ==
    [from |-> from, tokens |-> tokens, to |-> to, emits |-> emits, keeps |-> keeps]

CommentSteps ==
    {Step("kComment1_bang", {"-"}, "kComment2_bang_dash", "nothing", FALSE),
     Step("kComment2_bang_dash", {"-"}, "kComment3_in_comment", "nothing", FALSE),
     Step("kComment3_in_comment", {"-"}, "kComment4_traildash", "nothing", FALSE),
     Step("kComment3_in_comment", AllClasses \ {"-"}, "kComment3_in_comment", "nothing", FALSE),
     Step("kComment4_traildash", {"-"}, "kComment5_traildash_dash", "nothing", FALSE),
     Step("kComment4_traildash", AllClasses \ {"-"}, "kComment3_in_comment", "nothing", FALSE),
     Step("kComment5_traildash_dash", {"-"}, "kComment5_traildash_dash", "nothing", FALSE),
     Step("kComment5_traildash_dash", {">"}, "kReady", "nothing", FALSE),
     Step("kComment5_traildash_dash", AllClasses \ {"-", ">"}, "kComment3_in_comment", "nothing", FALSE)}

TagSteps ==
    {Step("kReady", {"<"}, "kTag1_open", "CDATA", FALSE),
     Step("kReady", AllClasses \ {"<"}, "kReady", "nothing", TRUE),
     Step("kTag1_open", {"!"}, "kComment1_bang", "nothing", FALSE),
     Step("kTag1_open", {"/"}, "kCloseTag1_open_slash", "nothing", FALSE),
     Step("kTag1_open", {"word"}, "kTag2_in_name", "nothing", TRUE),
     Step("kTag1_open", {Space}, "kTag1_open", "nothing", FALSE),
     Step("kTag2_in_name", NameClasses, "kTag2_in_name", "nothing", TRUE),
     Step("kTag2_in_name", {Space}, "kTag3_post_name", "OpenTagName", FALSE),
     Step("kTag2_in_name", {"/"}, "kTag8_solo_close_slash", "OpenTagName", FALSE),
     Step("kTag2_in_name", {">"}, "kReady", "OpenTagName", FALSE),
     Step("kTag3_post_name", {Space}, "kTag3_post_name", "nothing", FALSE),
     Step("kTag3_post_name", {">"}, "kReady", "nothing", FALSE),
     Step("kTag3_post_name", {"/"}, "kTag8_solo_close_slash", "nothing", FALSE),
     Step("kTag3_post_name", {"word"}, "kTag4_in_attribute_name", "nothing", TRUE),
     Step("kTag8_solo_close_slash", {">"}, "kReady", "EndSoloTag", FALSE),
     Step("kCloseTag1_open_slash", {Space}, "kCloseTag1_open_slash", "nothing", FALSE),
     Step("kCloseTag1_open_slash", NameClasses, "kCloseTag2_in_name", "nothing", TRUE),
     Step("kCloseTag2_in_name", {">"}, "kReady", "CloseTagName", FALSE),
     Step("kCloseTag2_in_name", {Space}, "kCloseTag3_trailing_whitespace", "CloseTagName", FALSE),
     Step("kCloseTag2_in_name", NameClasses, "kCloseTag2_in_name", "nothing", TRUE),
     Step("kCloseTag3_trailing_whitespace", {Space}, "kCloseTag3_trailing_whitespace", "nothing", FALSE),
     Step("kCloseTag3_trailing_whitespace", {">"}, "kReady", "nothing", FALSE)}

AttributeSteps ==
    {Step("kTag4_in_attribute_name", NameClasses, "kTag4_in_attribute_name", "nothing", TRUE),
     Step("kTag4_in_attribute_name", {"="}, "kTag5_attribute_equals", "AttributeName", FALSE),
     Step("kTag4_in_attribute_name", {Space}, "kTag3_post_name", "AttributeNameOnly", FALSE),
     Step("kTag4_in_attribute_name", {"/"}, "kTag8_solo_close_slash", "AttributeNameOnly", FALSE),
     Step("kTag5_attribute_equals", {Quote}, "kTag6_attribute_quoted", "nothing", FALSE),
     Step("kTag5_attribute_equals", {"/"}, "kTag8_solo_close_slash", "AttributeValue", FALSE),
     Step("kTag5_attribute_equals", {"word"}, "kTag7_attribute_unquoted", "nothing", TRUE),
     Step("kTag5_attribute_equals", {"<", ">", "=", "!", "-", Space}, "kTag5_attribute_equals", "nothing", FALSE),
     Step("kTag6_attribute_quoted", {Quote}, "kTag3_post_name", "AttributeValue", FALSE),
     Step("kTag6_attribute_quoted", AllClasses \ {Quote}, "kTag6_attribute_quoted", "nothing", TRUE),
     Step("kTag7_attribute_unquoted", NameClasses, "kTag7_attribute_unquoted", "nothing", TRUE),
     Step("kTag7_attribute_unquoted", {Space}, "kTag3_post_name", "AttributeValue", FALSE),
     Step("kTag7_attribute_unquoted", {">"}, "kReady", "AttributeValue", FALSE),
     Step("kTag7_attribute_unquoted", {"/"}, "kTag8_solo_close_slash", "AttributeValue", FALSE)}

ParserSteps == CommentSteps \cup TagSteps \cup AttributeSteps

ParentOf(t, i) == Max({0} \cup {o \in 1..i - 1 : t[o].kind = "tag" /\ t[o].depth < t[i].depth})
Trimmed(value) ==
    LET solid == {k \in DOMAIN value : value[k] # Space}
    IN  IF solid = {} THEN <<>> ELSE SubSeq(value, Min(solid), Max(solid))

emitCDATA(p) ==
    IF Trimmed(p.mElement) = <<>> THEN p
    ELSE [p EXCEPT !.tree = Append(@, Node(DepthOf(p.tree, p.mCurrentTag) + 1, "cdata", CDATAName,
                                           Trimmed(p.mElement)))]
emitOpenTagName(p) ==
    [p EXCEPT !.tree = Append(@, Node(DepthOf(p.tree, p.mCurrentTag) + 1, "tag", Head(p.mElement), <<>>)),
              !.mCurrentTag = Len(p.tree) + 1]
emitAttribute(p, kind, name, value) ==
    [p EXCEPT !.tree = Append(@, Node(p.tree[p.mCurrentTag].depth + 1, kind, name, value))]

emitEndSoloTag(p) == [p EXCEPT !.mCurrentTag = ParentOf(p.tree, @)]

\* There is no current tag at the top level.
emitCloseTagName(p) ==
    IF p.mCurrentTag = 0 THEN [p EXCEPT !.ends = "undefined"]
    ELSE IF p.tree[p.mCurrentTag].name # Head(p.mElement) THEN [p EXCEPT !.ends = "throws"]
    ELSE [p EXCEPT !.mCurrentTag = ParentOf(p.tree, @)]

Emitted(p, emits) ==
    CASE emits = "CDATA" -> emitCDATA(p)
      [] emits = "OpenTagName" -> emitOpenTagName(p)
      [] emits = "AttributeName" -> [p EXCEPT !.mPendingAttributeName = Head(p.mElement)]
      [] emits = "AttributeNameOnly" -> emitAttribute(p, "item", Head(p.mElement), <<>>)
      [] emits = "AttributeValue" -> emitAttribute(p, "attribute", p.mPendingAttributeName, p.mElement)
      [] emits = "CloseTagName" -> emitCloseTagName(p)
      [] emits = "EndSoloTag" -> emitEndSoloTag(p)
      [] emits = "nothing" -> p

parseLine(p, token) ==
    LET steps == {s \in ParserSteps : s.from = p.mParserState /\ ClassOf(token) \in s.tokens}
        step == CHOOSE s \in steps : TRUE
        element == (IF step.to = step.from THEN p.mElement ELSE <<>>)
                       \o (IF step.keeps THEN <<token>> ELSE <<>>)
    IN  IF p.ends # "returns" \/ token = EndOfLine THEN p
        ELSE IF steps = {} THEN [p EXCEPT !.ends = "throws"]
        ELSE [Emitted(p, step.emits) EXCEPT !.mParserState = step.to, !.mElement = element]

\* The first line may be a declaration.  What is not complete at the end is left out.
parse(text) ==
    LET lines == IF text # <<>> /\ Head(text) = "<?xml?>" THEN Tail(text) ELSE text
        parsed[k \in 0..Len(lines)] ==
            IF k = 0
            THEN [tree |-> <<>>, ends |-> "returns", mParserState |-> "kReady", mElement |-> <<>>,
                  mCurrentTag |-> 0, mPendingAttributeName |-> EmptyName]
            ELSE parseLine(parsed[k - 1], lines[k])
    IN  parsed[Len(lines)]

\* The nodes there were are deleted first.
ReadsFromStream(text) == Result(parse(text))

-----------------------------------------------------------------------------
SettingsNext ==
    /\ callEnds # "undefined"
    /\ \/ \E path \in SettingPaths, value \in SettingValues :
              AddsStringValue(path, value) \/ SetsStringValue(path, value)
       \/ \E path \in SettingPaths : AddsItem(path) \/ DeletesNode(path)
       \/ \E path \in SettingPaths : SetsPointValue(path, <<"v">>, <<"w">>)
       \/ \E text \in SettingTexts : ReadsFromStream(text)

SettingsSpec == SettingsInit /\ [][SettingsNext]_settingsVars

-----------------------------------------------------------------------------
SettingsTypeOK ==
    /\ callEnds \in {"returns", "throws", "undefined"}
    /\ Len(settings) <= MaxNodes
    /\ \A i \in DOMAIN settings :
           /\ settings[i].depth \in 1..DepthOf(settings, i - 1) + 1
           /\ settings[i].kind \in AttributeKinds \cup ChildKinds

\* What cannot be written so that it is read again: a quote in an attribute's value, a
\* "<" in CDATA, CDATA that follows CDATA, and an item that is the last attribute of a
\* tag with child nodes.
CannotBeRead(t) ==
    \E i \in DOMAIN t :
        \/ t[i].kind = "attribute" /\ Quote \in ToSet(t[i].value)
        \/ t[i].kind = "cdata" /\ "<" \in ToSet(t[i].value)
        \/ t[i].kind = "cdata" /\ i < Len(t) /\ t[i + 1].kind = "cdata" /\ t[i + 1].depth = t[i].depth
        \/ t[i].kind = "item" /\ StartTagEnd(t, i) = <<">", EndOfLine>>

\* CDATA comes back trimmed, or not at all.
AsRead(t) ==
    LET trimmed == [i \in DOMAIN t |->
                       IF t[i].kind = "cdata" THEN [t[i] EXCEPT !.value = Trimmed(@)] ELSE t[i]]
    IN  SelectSeq(trimmed, LAMBDA n : n.kind = "cdata" => n.value # <<>>)

\* Settings that are written and read again are the same: every tag, attribute and text
\* in its place, but for blank or empty text, unless they cannot be read.
SettingsReadBack ==
    LET again == parse(writeToStream(settings))
    IN  ~ CannotBeRead(settings) => again.ends = "returns" /\ again.tree = AsRead(settings)

\* No name but an attribute's own hides another node: no attribute has an index in its
\* name, or the name of another attribute or a child node of its tag.
NothingHidden(t) ==
    \A i \in DOMAIN t : t[i].kind \in AttributeKinds =>
        /\ t[i].name \notin DOMAIN Indexed
        /\ Cardinality(Named(t, Below(t, ParentOf(t, i), AttributeKinds \cup ChildKinds), t[i].name)) = 1

\* An index names a node that is there, below the top level.
Existing(t, path) == \A k \in DOMAIN path : path[k] \in DOMAIN Indexed => findNode(t, SubSeq(path, 1, k)) # NoNode

\* The paths that name another node.
Others(path) ==
    {other \in SettingPaths : findNode(settings, other) \notin {NoNode, findNode(settings, path)}}

\* Whatever was called before, unless nodes hide each other: a value that is set is the
\* one that is read, and a node that is deleted is not found or counted; what other paths name does
\* not change, nor does anything if the call throws.  Not so for an index that is not
\* there, or at the top level.
SetsOnlyWhatIsNamed ==
    NothingHidden(settings) =>
        \A path \in SettingPaths :
            /\ LET others == Others(path)
                   existing == Existing(settings, path)
               IN  \A value \in SettingValues :
                       LET set == Set(settings, path, value) IN
                       IF set.ends = "throws" THEN set.tree = settings
                       ELSE /\ \A other \in others : StringAt(set.tree, other) = StringAt(settings, other)
                            /\ existing => StringAt(set.tree, path) = value
            /\ LET deleted == Deleted(settings, path)
               IN  /\ Last(path) \notin DOMAIN Indexed => findNode(deleted, path) = NoNode
                   /\ countNodes(deleted, path) = 0
=============================================================================
