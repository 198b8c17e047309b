---------------------------- MODULE MCComponents ----------------------------
(***************************************************************************)
(* The components of the toolbox and of the socket layer that share no     *)
(* state with each other, in one instance: a behaviour picks one of them   *)
(* at first and runs it, the others stay as they are.                      *)
(***************************************************************************)
EXTENDS VEventProducer, VCommSessionEventProducer, VWSAEventProducer, VSingleton,
        NetworkMonitor, VMemoryStream, VFSNode, VLogger, VLoggerRepetitionFilter, VBento,
        VTextStreamTailer, VSocket, VString, VSettings, TLC

CONSTANTS e1, e2, e3, d1, d2, s1, l1, auto, u1, u2

MCDescriptorOf == e1 :> d1 @@ e2 :> d2 @@ e3 :> d1
MCLoggerNames == {<<1>>, <<1, 1>>}
MCNameOf == l1 :> <<1>> @@ auto :> <<1, 1>>

\* Strings over the characters that mean something to the parser.
MCStrings(n) == UNION {[1..m -> {"a", "\\", "\"", "'", "{", "]"}] : m \in 0..n}
MCAttribute(name, type, qualifier, value) ==
    [name |-> name, type |-> type, qualifier |-> qualifier, value |-> value]
MCNode(name, parent, attributes) == [name |-> name, parent |-> parent, attributes |-> attributes]

\* Names, values and encodings; characters; arrays; an unknown type; and trees of
\* four nodes, with attributes or without.
MCHierarchies ==
    LET b == <<"b">>  Root(attribute) == <<MCNode(b, 0, <<attribute>>)>>
        seven == MCAttribute(b, "vs32", <<>>, <<"7">>)
        someAttributes == {<<>>, <<seven>>, <<MCAttribute(b, "vsta", <<>>, <<>>), MCAttribute(<<>>, "vstr", <<>>, <<>>)>>}
    IN  {<<MCNode(s, 0, <<>>)>> : s \in MCStrings(2)}
        \cup {Root(MCAttribute(b, "vstr", q, s)) : s \in MCStrings(2), q \in {<<>>, b}}
        \cup {Root(MCAttribute(<<"\\", "\"">>, "u8ch", <<>>, s)) : s \in MCStrings(1) \ {<<>>}}
        \cup {Root(MCAttribute(b, "vsta", <<>>, <<s, t>>)) : s, t \in MCStrings(1)}
        \cup {<<MCNode(b, 0, <<seven, MCAttribute(b, "vs64", <<>>, <<"7">>)>> \o u)>> :
                 u \in {<<>>, <<MCAttribute(b, "unkn", <<>>, b)>>}}
        \cup {<<MCNode(b, 0, a), MCNode(s, 1, a), MCNode(s, p, <<>>), MCNode(<<>>, 1, a)>> :
                 a \in someAttributes, s \in {b, <<"\\">>}, p \in {1, 2}}

\* The kinds of line ending one after the other, a line that ends with another, each
\* code point after a "\r" and at a start.
MCCodePoints == {<<"b">>, <<"80">>, <<"C2", "80">>, <<"E2", "80", "81">>, <<"F7", "80", "80", "80">>}
MCTexts ==
    {<<>>}
    \cup {writeLine(<<"a">>, kind) \o writeLine(<<>>, kind) : kind \in DOMAIN LineEndings}
    \cup {<<"a">> \o e \o f \o <<"b">> : e, f \in {<<"cr">>, <<"lf">>, <<"nul">>}}
    \cup {<<"cr">> \o c : c \in MCCodePoints} \cup {c \o <<"lf">> : c \in MCCodePoints}
MCTailed == {<<"a", "cr", "lf", "b">>} \cup {<<"cr">> \o c : c \in MCCodePoints}

\* No bytes, one, and more than the internal buffer holds, with it.
MCPieces == {<<>>, <<"sp">>, <<"sp", "C2", "80">>}

\* Values and tags, below each other and with an index; a value that is trimmed and
\* ends a text.
MCIndexed == "a[1]" :> <<"a", 1>>
MCSettingPaths ==
    {<<"a">>, <<"a[1]", "b">>, <<"b", "a">>, <<"b", "a", "b">>, <<"b", "a[1]">>, <<"b", "a[1]", "b">>}
MCSettingValues == {<<"v">>, <<" ", "<">>}

\* A declaration, text, kinds of attributes and of end tags; a comment and an end in a
\* text; an item before a ">"; and end tags of no tag or of another.
MCSettingTexts ==
    LET b == <<"<", "b">>  endB == <<"<", "/", "b", " ", ">">> IN
    {<<"<?xml?>">> \o b \o <<" ", "a", "=", "v", ">", EndOfLine, " ", "v", "<", "a", "/", ">", "w">> \o endB,
     <<"<", "!", "-", "-", "<", "-", "a", "-", "-", "-", ">">> \o b
         \o <<" ", "a", "/", ">", "<", "a", ">", " ", "w", " ">>,
     <<"v">> \o b \o <<" ", "a", " ", "b", "=", "/", ">", "<", "a", ">", "<", "/", " ", "a", " ", " ", ">">>,
     b \o <<" ", "a", ">">> \o endB, b \o <<"/", ">", "<", "a", ">">> \o endB, endB}

VARIABLE component      \* the one that runs

Components == {"producer", "handlers", "polling", "singleton", "monitor", "stream", "file",
               "logger", "filter", "bento", "text", "tail", "socket", "string", "settings"}

\* A component that does not run has one initial state.
Init ==
    /\ component \in Components
    /\ ProducerInit /\ HandlersInit /\ WSAInit /\ SingletonInit /\ MonitorInit /\ FilterInit
    /\ StreamInit
    /\ component # "stream" => streamKind = "memory" /\ Len(buffer) = 1
    /\ FileInit
    /\ stamp[s1] = 1
    /\ component # "file" => existed /\ \A s \in Savers : stamp[s] = 1 /\ ~ keepOld[s]
    /\ LoggerInit
    /\ component # "logger" => \A l \in Loggers : level[l] = 0
    /\ BentoInit
    /\ component # "bento" => format = "text" /\ hierarchy = <<MCNode(<<>>, 0, <<>>)>>
    /\ SocketInit
    /\ component # "socket" =>
           mode = [direction |-> "read", selectWritesBack |-> FALSE, mRequireReadAll |-> FALSE,
                   mTimeOutActive |-> FALSE]
    /\ TextInit /\ RunnerInit
    /\ component # "text" => ~ includeLineEnding /\ argumentOrder = "left"
    /\ component = "tail" => text \in MCTailed
    /\ component \notin {"text", "tail"} => text = <<>>
    /\ StringInit /\ SettingsInit

eventVars == <<producerVars, handlerVars, wsaVars>>
toolboxVars == <<singletonVars, streamVars, fileVars, loggerVars, filterVars, bentoVars>>
ioVars == <<tailVars, socketVars>>
dataVars == <<stringVars, settingsVars>>
componentVars == <<component, eventVars, monitorVars, toolboxVars, ioVars, dataVars>>

Next ==
    \/ /\ component = "producer" /\ ProducerNext
       /\ UNCHANGED <<component, handlerVars, wsaVars, monitorVars, toolboxVars, ioVars, dataVars>>
    \/ /\ component = "handlers" /\ HandlersNext
       /\ UNCHANGED <<component, producerVars, wsaVars, monitorVars, toolboxVars, ioVars, dataVars>>
    \/ /\ component = "polling" /\ WSANext
       /\ UNCHANGED <<component, producerVars, handlerVars, monitorVars, toolboxVars, ioVars, dataVars>>
    \/ /\ component = "monitor" /\ MonitorNext
       /\ UNCHANGED <<component, eventVars, toolboxVars, ioVars, dataVars>>
    \/ /\ component = "singleton" /\ SingletonNext
       /\ UNCHANGED <<component, eventVars, monitorVars, streamVars, fileVars, loggerVars, filterVars, bentoVars, ioVars, dataVars>>
    \/ /\ component = "stream" /\ StreamNext
       /\ UNCHANGED <<component, eventVars, monitorVars, singletonVars, fileVars, loggerVars, filterVars, bentoVars, ioVars, dataVars>>
    \/ /\ component = "file" /\ FileNext
       /\ UNCHANGED <<component, eventVars, monitorVars, singletonVars, streamVars, loggerVars, filterVars, bentoVars, ioVars, dataVars>>
    \/ /\ component = "logger" /\ LoggerNext
       /\ UNCHANGED <<component, eventVars, monitorVars, singletonVars, streamVars, fileVars, filterVars, bentoVars, ioVars, dataVars>>
    \/ /\ component = "filter" /\ FilterNext
       /\ UNCHANGED <<component, eventVars, monitorVars, singletonVars, streamVars, fileVars, loggerVars, bentoVars, ioVars, dataVars>>
    \/ /\ component = "bento" /\ BentoNext
       /\ UNCHANGED <<component, eventVars, monitorVars, singletonVars, streamVars, fileVars, loggerVars, filterVars, ioVars, dataVars>>
    \/ /\ component = "text" /\ TextNext
       /\ UNCHANGED <<component, eventVars, monitorVars, toolboxVars, runnerVars, socketVars, dataVars>>
    \/ /\ component = "tail" /\ TailNext
       /\ UNCHANGED <<component, eventVars, monitorVars, toolboxVars, socketVars, dataVars>>
    \/ /\ component = "socket" /\ SocketNext
       /\ UNCHANGED <<component, eventVars, monitorVars, toolboxVars, tailVars, dataVars>>
    \/ /\ component = "string" /\ StringNext
       /\ UNCHANGED <<component, eventVars, monitorVars, toolboxVars, ioVars, settingsVars>>
    \/ /\ component = "settings" /\ SettingsNext
       /\ UNCHANGED <<component, eventVars, monitorVars, toolboxVars, ioVars, stringVars>>

\* Each component's own fairness; a component that does not run owes no step.  Only
\* one component takes steps in a behaviour, and a step that is owed strong fairness
\* is not possible in its component's initial state: strong fairness of a step of
\* one, or of another component, is therefore that of both.
StrongFairness(d, t) ==
    SF_<<producerVars, handlerVars, singletonVars>>(
        \/ Reports(d) /\ UNCHANGED <<handlerVars, singletonVars>>
        \/ Returns /\ UNCHANGED <<producerVars, singletonVars>>
        \/ Runs(t) /\ UNCHANGED <<producerVars, handlerVars>>)

Spec ==
    /\ Init /\ [][Next]_componentVars
    /\ ProducerRuns /\ WF_handlerVars(Raise) /\ WSAFairness /\ TailFairness
    /\ StrongFairness(d1, u1) /\ StrongFairness(d2, u2)

-----------------------------------------------------------------------------
\* The state of every component has its types.
ComponentsTypeOK ==
    /\ ProducerTypeOK /\ HandlersTypeOK /\ WSATypeOK /\ SingletonTypeOK /\ MonitorTypeOK
    /\ StreamTypeOK /\ FileTypeOK /\ LoggerTypeOK /\ FilterTypeOK
    /\ BentoTypeOK /\ TextTypeOK /\ TailTypeOK /\ SocketTypeOK /\ StringTypeOK /\ SettingsTypeOK

\* What is written is read again: a hierarchy of Bento nodes, in text and in binary
\* form; and settings, which hold what is set in memory as well.  Settings are looked
\* at only where they are in use.
WrittenIsReadBack ==
    /\ BentoReadsBack
    /\ component = "settings" => SettingsReadBack /\ SetsOnlyWhatIsNamed
=============================================================================
