---------------------------- MODULE SyslogInput ----------------------------
(***************************************************************************)
(* The syslog input, from sockets to entries: the listeners, the bytes of  *)
(* one connection, the parsing of a message and the year of its time stamp.*)
(* StructuredData joins them in MCSyslogInput.                             *)
(***************************************************************************)
EXTENDS SyslogManager, TcpFraming

CONSTANTS Priorities, NoPri, NotNumber, \* SyslogParser
          Years, Received, Days         \* Rfc3164Time

\* A number in brackets is any integer; the two marks are none that a priority has.
ASSUME ParserAssumption ==
    /\ Priorities \subseteq Int
    /\ NoPri \in Int /\ NoPri < 0
    /\ NotNumber \in Int /\ NotNumber < 0

\* The days of a time stamp are one or two digits; the years are of our era.
ASSUME YearAssumption ==
    /\ Years \subseteq Nat \ {0}
    /\ Received \subseteq Nat \ {0, 1}
    /\ Days \subseteq 0..99

VARIABLES path, \* the component that a behaviour follows
          parser, message, worker, event, entry,
          stamp, year, base, tried, best, result

parserVars == <<parser, message, worker, event, entry>>
yearVars == <<stamp, year, base, tried, best, result>>

Parser == INSTANCE SyslogParser
Year == INSTANCE Rfc3164Time

InputNext ==
    \/ path = "listeners" /\ Next /\ UNCHANGED <<path, framingVars, parserVars, yearVars>>
    \/ path = "framing" /\ FramingNext /\ UNCHANGED <<path, vars, parserVars, yearVars>>
    \/ path = "parser" /\ Parser!Next /\ UNCHANGED <<path, vars, framingVars, yearVars>>
    \/ path = "year" /\ Year!Next /\ UNCHANGED <<path, vars, framingVars, parserVars>>
-----------------------------------------------------------------------------
(* Properties of the parsers *)

\* Detection, both parsers and Normalize agree on a message.
ParsingIsFaithful == Parser!ParsingIsFaithful

\* nearestRFC3164Time finds the nearest of all years.
NearestOfAllYears == Year!NearestOfAllYears
=============================================================================
