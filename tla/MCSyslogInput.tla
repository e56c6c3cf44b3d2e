--------------------------- MODULE MCSyslogInput ---------------------------
(***************************************************************************)
(* The syslog input for TLC: the listeners, the bytes of one connection,   *)
(* and the parsing of one message with its structured data and its time    *)
(* stamp.  A behaviour follows one of them, its path; the others rest in   *)
(* their first or last state.                                              *)
(***************************************************************************)
EXTENDS SyslogInput, SequencesExt

CONSTANTS Data, Texts, \* StructuredData
          Paths        \* components to follow

VARIABLES data, text, joined, i, state, sdID, name, value, fields, rest

structuredVars == <<data, text, joined, i, state, sdID, name, value, fields, rest>>

Structured == INSTANCE StructuredData WITH Messages <- Texts, message <- text

\* Connections are interchangeable; used where only invariants are checked.
ConnSymmetry == Permutations(Conns)
-----------------------------------------------------------------------------
(* The inputs *)

\* Messages over '1', space and 'X', some with a line end, a count or too many
\* digits or bytes.
ByteMessages ==
    BoundedSeq({49, 32, 88}, 2)
        \cup {<<10>>, <<13>>, <<88, 13>>, <<50, 32, 49>>, <<49, 49, 49>>,
              <<49, 49, 88>>, <<88, 88, 88>>, <<88, 88, 88, 88>>,
              <<88, 88, 88, 88, 88>>}

\* Digits enough for the longest of them.
SomeCounts == {<<d>> : d \in 48..53}

\* Structured data of up to two elements with up to two parameters each; values
\* have every character that is special inside or outside of a value, and names have
\* dots, so that [a x.y="..."] and [a.x y="..."] meet in one field.
Values == BoundedSeq({"a", "q", "b", "]", " "}, 2)

SomeParams ==
    {<<>>} \cup {<< <<<<"x">>, v>> >> : v \in Values}
           \cup {<< <<<<"x">>, v>>, <<n, <<"=", "[">>>> >> : v \in Values, n \in {<<"x">>, <<"x", ".", "y">>}}

Elements == [id : {<<"a">>, <<"-">>}, params : SomeParams]

SomeData == {<<>>} \cup {<<e>> : e \in Elements}
    \cup {<<e, [id |-> <<"a", ".", "x">>, params |-> << <<<<"y">>, <<"b">>>> >>]>> : e \in Elements}

SomeTexts == {<<>>, <<"a">>, <<"[">>}

\* Priorities around the limits of the bracket's length and of the value.
NoBrackets == -3
NoNumber == -2
SomePriorities == {NoBrackets, NoNumber, -1, 0, 7, 8, 99, 100, 191, 192, 999, 1000}

\* A leap year in the middle, and a few days off both ends of a month.
SomeYears == 2021..2027
YearsOfReceipt == 2023..2025
SomeDays == {0, 1, 2, 15, 28, 29, 31}
-----------------------------------------------------------------------------
ListenersRest ==
    /\ main = "returned" /\ toClose = {} /\ closeErr = FALSE
    /\ socket = [s \in Sources |-> "none"] /\ loop = [s \in Sources |-> "none"]
    /\ hand = [s \in Sources |-> NoConn] /\ sem = [s \in TCP |-> 0]
    /\ conn = [c \in Conns |-> "none"] /\ owner = [c \in Conns |-> NoConn]
    /\ handler = [c \in Conns |-> "none"] /\ buffered = [c \in Conns |-> 0] /\ conns = {}

FramingRests ==
    /\ framing = "newline" /\ peer = "open" /\ wire = <<>> /\ reader = "read"
    /\ payload = <<>> /\ frames = <<>> /\ sent = <<>> /\ cut = Nothing

ParserRests ==
    /\ parser = "auto" /\ message = CHOOSE m \in Parser!Message : m.pri = 0
    /\ worker = "parse" /\ event = Parser!None /\ entry = Parser!None

StructuredRests ==
    /\ data = <<>> /\ text = <<>> /\ joined = <<"-">> /\ i = 1 /\ state = "done"
    /\ sdID = <<>> /\ name = <<>> /\ value = <<>> /\ fields = <<>> /\ rest = <<>>

YearRests ==
    /\ stamp = [month |-> 1, day |-> 1, clock |-> 0] /\ year = 2023 /\ base = 0
    /\ tried = 0 /\ best = -1 /\ result = "none"

InputInit ==
    /\ path \in Paths
    /\ IF path = "listeners" THEN Init ELSE ListenersRest
    /\ IF path = "framing" THEN FramingInit ELSE FramingRests
    /\ IF path = "parser" THEN Parser!Init ELSE ParserRests
    /\ IF path = "structured" THEN Structured!Init ELSE StructuredRests
    /\ IF path = "year" THEN Year!Init ELSE YearRests

inputVars == <<path, vars, framingVars, parserVars, structuredVars, yearVars>>

StreamsNext ==
    \/ InputNext /\ UNCHANGED structuredVars
    \/ /\ path = "structured" /\ Structured!Next
       /\ UNCHANGED <<path, vars, framingVars, parserVars, yearVars>>

InputSpec == InputInit /\ [][StreamsNext]_inputVars

InputFairSpec == InputSpec /\ Fairness /\ FramingFairness
-----------------------------------------------------------------------------
(* Structured data *)

\* parseStructuredData inverts the encoding of RFC 5424 and refuses what was cut off.
StructuredDataIsFaithful == Structured!StructuredDataIsFaithful
=============================================================================
