---------------------------- MODULE SyslogParser ----------------------------
(***************************************************************************)
(* From a frame to an entry: Registry.Parse, Detect, RFC3164.Parse,        *)
(* RFC5424.Parse and priority of backend/internal/parser/parser.go, and    *)
(* Normalize of backend/internal/normalization/normalizer.go, as           *)
(* parseWorker calls them.                                                 *)
(*                                                                         *)
(* A message is described by what the code tells apart: the number between *)
(* "<" and ">" (NoPri: there are no brackets, NotNumber: it is not one),   *)
(* what follows, and for each part whether it is well formed.  The parts   *)
(* themselves are the subject of StructuredData and Rfc3164Time.           *)
(***************************************************************************)
EXTENDS Integers

CONSTANTS Priorities,    \* numbers in brackets, NoPri and NotNumber among them
          NoPri, NotNumber

Message ==
    [pri     : Priorities,
     body    : {"1 ", "2 ", "date", "text"}, \* a version, an RFC 3164 header or other
     header  : BOOLEAN,                      \* six tokens, each followed by a space
     stamp   : {"nil", "time", "bad"},       \* "bad": not a time, or not in each year
     sd      : {"good", "bad"},              \* parseStructuredData succeeds
     newline : BOOLEAN]                      \* the text ends in a line break

VARIABLES parser,  \* the source's parser: "auto", "rfc3164" or "rfc5424"
          message, \* the payload
          worker,  \* "parse", "normalize", "done" or "dropped"
          event,   \* result of Registry.Parse
          entry    \* result of Normalize

vars == <<parser, message, worker, event, entry>>

None == [format |-> "none"]

Init ==
    /\ parser \in {"auto", "rfc3164", "rfc5424"}
    /\ message \in Message
    /\ worker = "parse" /\ event = None /\ entry = None
-----------------------------------------------------------------------------
\* Characters between the brackets.
Digits(n) ==
    CASE n = NotNumber -> 1
      [] n < 0 /\ n # NotNumber -> 2
      [] n \in 0..9 -> 1 [] n \in 10..99 -> 2 [] n \in 100..999 -> 3 [] n > 999 -> 4

HasPri(m) == m.pri # NoPri /\ Digits(m.pri) <= 3

\* rfc3164Pattern: one to three digits, and "." does not match a line break.
MatchesPattern(m) == HasPri(m) /\ m.pri >= 0 /\ m.body = "date" /\ ~m.newline

DetectShortPri(m) ==
    CASE ~HasPri(m) \/ m.pri = NotNumber \/ Digits(m.pri) > 2 -> "unknown"
      [] m.body \in {"1 ", "2 "}                              -> "rfc5424"
      [] MatchesPattern(m)                                    -> "rfc3164"
      [] OTHER                                                -> "unknown"

Detect(m) ==
    CASE ~HasPri(m) \/ m.pri = NotNumber                      -> "unknown"
      [] HasPri(m) /\ m.pri # NotNumber /\ m.body \in {"1 ", "2 "} -> "rfc5424"
      [] MatchesPattern(m)                                    -> "rfc3164"
      [] OTHER                                                -> "unknown"

priorityUpTo192(n) == IF n \in 0..192 THEN {[p |-> n, facility |-> n \div 8, severity |-> n % 8]}
                                      ELSE {}

\* The priority's parts, if it is one.
priority(n) == IF n \in 0..191 THEN {[p |-> n, facility |-> n \div 8, severity |-> n % 8]}
                               ELSE {}

Event(format, pri, time, inferred) ==
    [format |-> format, pri |-> pri, time |-> time, inferred |-> inferred]

\* The parsers: a set with the event, or the empty set for an error.
RFC3164(m) ==
    {Event("rfc3164", {p}, "stamp", TRUE) :
        p \in {q \in priority(m.pri) : /\ MatchesPattern([m EXCEPT !.newline = FALSE])
                                       /\ m.stamp = "time"}}

RFC5424NilNotInferred(m) ==
    {Event("rfc5424", {p}, IF m.stamp = "nil" THEN "received" ELSE "stamp", FALSE) :
        p \in {q \in priority(m.pri) : /\ HasPri(m) /\ m.body = "1 " /\ m.header
                                       /\ m.stamp # "bad" /\ m.sd = "good"}}

RFC5424(m) ==
    {Event("rfc5424", {p}, IF m.stamp = "nil" THEN "received" ELSE "stamp", m.stamp = "nil") :
        p \in {q \in priority(m.pri) : /\ HasPri(m) /\ m.body = "1 " /\ m.header
                                       /\ m.stamp # "bad" /\ m.sd = "good"}}

ParseAs(name, m) ==
    CASE name = "rfc3164" -> RFC3164(m)
      [] name = "rfc5424" -> RFC5424(m)
      [] name = "unknown" -> {Event("unknown", {}, "received", TRUE)}

\* Registry.Parse
Parse ==
    /\ worker = "parse"
    /\ LET name == IF parser = "auto" THEN Detect(message) ELSE parser IN
         \/ \E e \in ParseAs(name, message) : event' = e /\ worker' = "normalize"
         \/ ParseAs(name, message) = {} /\ worker' = "dropped" /\ UNCHANGED event
    /\ UNCHANGED <<parser, message, entry>>

FacilityNames == 0..23
SeverityNames == 0..7

\* A name is left out when the code is not in the table.
Names(e) == {p \in e.pri : p.facility \in FacilityNames /\ p.severity \in SeverityNames}

Normalize ==
    /\ worker = "normalize"
    /\ \/ /\ entry' = [format |-> event.format, time |-> event.time,
                       inferred |-> event.inferred, pri |-> event.pri, named |-> Names(event),
                       status |-> IF event.format = "unknown" THEN "unknown" ELSE "parsed"]
          /\ worker' = "done"
       \/ worker' = "dropped" /\ UNCHANGED entry   \* no random bytes for the id
    /\ UNCHANGED <<parser, message, event>>

Rest == worker \in {"done", "dropped"} /\ UNCHANGED vars

Next == Parse \/ Normalize \/ Rest

Spec == Init /\ [][Next]_vars
-----------------------------------------------------------------------------
(* Properties *)

\* An auto source takes every message that a source with a fixed parser would take,
\* and in the same format, if no line break ends it.
AutoTakesWhatParsersTake ==
    worker = "dropped" \/ worker = "done" =>
        (parser = "auto" /\ ~message.newline =>
            \A f \in {"rfc3164", "rfc5424"} : ParseAs(f, message) # {} => event.format = f)

\* An entry never passes the time of receipt off as the sender's, and only a full
\* RFC 5424 time stamp as not inferred.
TimeIsHonest ==
    worker = "done" =>
        /\ entry.time = "received" => entry.inferred
        /\ ~entry.inferred => message.stamp = "time" /\ entry.format = "rfc5424"

\* Every parsed entry has a priority whose facility and severity have names; an
\* entry of unknown format has none of the three and is marked.
PriorityIsNamed ==
    worker = "done" =>
        /\ entry.named = entry.pri
        /\ entry.status = "parsed" <=> entry.pri # {}

\* Detect, Parse and Normalize agree on what a message is, when it was sent and what
\* its priority means.
ParsingIsFaithful == AutoTakesWhatParsersTake /\ TimeIsHonest /\ PriorityIsNamed
=============================================================================
