--------------------------- MODULE StructuredData ---------------------------
(***************************************************************************)
(* The structured data of an RFC 5424 message: parseStructuredData of      *)
(* backend/internal/parser/parser.go.  The text is a sequence of           *)
(* characters: "[", "]", "=", " ", "-", ".", "q" for the quote, "b" for    *)
(* the backslash, and letters.  A field is named by its element, a dot and *)
(* its parameter; the prefix that all of them have is left out.            *)
(*                                                                         *)
(* The input is the encoding of some data and a message, as a sender       *)
(* writes it, whole or cut off anywhere.                                   *)
(***************************************************************************)
EXTENDS Naturals, Sequences, SequencesExt, FiniteSetsExt, Functions, TLC

CONSTANTS Data,     \* structured data: sequences of [id, params], a parameter
                    \* being <<name, value>>
          Messages  \* texts that follow it

\* RFC 5424, section 6.3.3: three characters are escaped in a value.
EscapeChar(c) == IF c \in {"q", "b", "]"} THEN <<"b", c>> ELSE <<c>>

EncodeParam(p) ==
    <<" ">> \o p[1] \o <<"=", "q">>
      \o FlattenSeq([i \in DOMAIN p[2] |-> EscapeChar(p[2][i])]) \o <<"q">>

EncodeElement(e) ==
    <<"[">> \o e.id \o FlattenSeq([i \in DOMAIN e.params |-> EncodeParam(e.params[i])])
      \o <<"]">>

Encode(d) ==
    IF d = <<>> THEN <<"-">> ELSE FlattenSeq([i \in DOMAIN d |-> EncodeElement(d[i])])

Text(d, m) == Encode(d) \o (IF m = <<>> THEN <<>> ELSE <<" ">> \o m)
-----------------------------------------------------------------------------
VARIABLES data, message, \* what the sender means
          joined,        \* the text
          i,             \* index of the next character
          state,         \* "start", "elements", "params", "value", "done", "error"
          sdID, name, value,
          fields,        \* value of each field, by its name
          rest           \* text after the structured data

sent == <<data, message, joined>>
vars == <<sent, i, state, sdID, name, value, fields, rest>>

Init ==
    /\ data \in Data /\ message \in Messages
    /\ \E n \in 0..Len(Text(data, message)) : joined = SubSeq(Text(data, message), 1, n)
    /\ i = 1 /\ state = "start"
    /\ sdID = <<>> /\ name = <<>> /\ value = <<>> /\ fields = <<>> /\ rest = <<>>

AtEnd(k) == k > Len(joined)

\* The first index from k on that has one of the characters, or the end.
UpTo(k, chars) ==
    Min({j \in k..Len(joined) : joined[j] \in chars} \cup {Max({k, Len(joined) + 1})})

\* The first index from k on that has no space, or the end.
AfterSpaces(k) ==
    Min({j \in k..Len(joined) : joined[j] # " "} \cup {Max({k, Len(joined) + 1})})

Done(k) ==
    /\ state' = "done" /\ rest' = SubSeq(joined, k, Len(joined))
    /\ UNCHANGED <<i, sdID, name, value, fields>>

Tolerate == Done(i)

Fail == state' = "error" /\ UNCHANGED <<i, sdID, name, value, fields, rest>>

Begin ==
    /\ state = "start"
    /\ CASE joined = <<"-">>                          -> Done(2)
         [] IsPrefix(<<"-", " ">>, joined)            -> Done(3)
         [] joined # <<>> /\ joined[1] = "["          ->
              state' = "elements" /\ UNCHANGED <<i, sdID, name, value, fields, rest>>
         [] OTHER                                     -> Fail
    /\ UNCHANGED sent

\* The outer loop: "[" and the element's id.
Element ==
    /\ state = "elements"
    /\ IF AtEnd(i) \/ joined[i] # "[" THEN Done(i)
       ELSE LET j == UpTo(i + 1, {" ", "]"})
            IN  IF j = i + 1 THEN Fail
                ELSE /\ sdID' = SubSeq(joined, i + 1, j - 1) /\ i' = j
                     /\ state' = "params"
                     /\ UNCHANGED <<name, value, fields, rest>>
    /\ UNCHANGED sent

\* The loop over parameters: its end, or a name and =".
Param ==
    /\ state = "params"
    /\ IF AtEnd(i) THEN Fail
       ELSE IF joined[i] = "]"
       THEN state' = "elements" /\ i' = i + 1 /\ UNCHANGED <<sdID, name, value, fields, rest>>
       ELSE LET k == AfterSpaces(i)
                j == UpTo(k, {"=", "]", " "})
            IN  IF j = k \/ AtEnd(j) \/ joined[j] # "=" \/ AtEnd(j + 1) \/ joined[j + 1] # "q"
                THEN Fail
                ELSE /\ name' = SubSeq(joined, k, j - 1) /\ value' = <<>> /\ i' = j + 2
                     /\ state' = "value"
                     /\ UNCHANGED <<sdID, fields, rest>>
    /\ UNCHANGED sent

\* The parts are joined as they are, so that different ones can make one name.
FieldName(id, param) == id \o <<".">> \o param

KeepBackslash(c) == <<"b", c>>

\* A backslash stands for the character after it if that needs one.
Unescape(c) == IF c \in {"q", "b", "]"} THEN <<c>> ELSE <<"b", c>>

\* The inner loop: one character, or a backslash and the one after it.
ValueChar ==
    /\ state = "value"
    /\ CASE AtEnd(i) \/ (joined[i] = "b" /\ AtEnd(i + 1)) -> Fail
         [] ~AtEnd(i) /\ joined[i] = "q" ->
              /\ fields' = (FieldName(sdID, name) :> value) @@ fields
              /\ i' = i + 1 /\ state' = "params"
              /\ UNCHANGED <<sdID, name, value, rest>>
         [] ~AtEnd(i + 1) /\ joined[i] = "b" ->
              /\ value' = value \o Unescape(joined[i + 1]) /\ i' = i + 2
              /\ UNCHANGED <<state, sdID, name, fields, rest>>
         [] OTHER ->
              /\ value' = Append(value, joined[i]) /\ i' = i + 1
              /\ UNCHANGED <<state, sdID, name, fields, rest>>
    /\ UNCHANGED sent

Rest == state \in {"done", "error"} /\ UNCHANGED vars

Next == Begin \/ Element \/ Param \/ ValueChar \/ Rest

Spec == Init /\ [][Next]_vars
-----------------------------------------------------------------------------
(* Properties *)

\* The parameters of the data, by element and position.
Params == UNION {{e} \X DOMAIN data[e].params : e \in DOMAIN data}

Key(ep) == FieldName(data[ep[1]].id, data[ep[1]].params[ep[2]][1])
Value(ep) == data[ep[1]].params[ep[2]][2]

Precedes(ep, eq) == ep[1] < eq[1] \/ (ep[1] = eq[1] /\ ep[2] < eq[2])

Whole == joined = Text(data, message)

\* What a sender encodes is what the parser finds: the text parses, there is a field
\* for every name and for nothing else, it has the value that the sender gave, whatever
\* had to be escaped in it, and the message follows.  A value is lost only to a later
\* one of the same field name: a parameter that is repeated, or one whose element and
\* name make the same text around another dot.
RoundTrip ==
    Whole => /\ state # "error"
             /\ state = "done" =>
                  /\ DOMAIN fields = {Key(ep) : ep \in Params}
                  /\ \A ep \in Params :
                       \/ fields[Key(ep)] = Value(ep)
                       \/ \E eq \in Params : Precedes(ep, eq) /\ Key(eq) = Key(ep)
                  /\ (IF rest # <<>> /\ rest[1] = " " THEN Tail(rest) ELSE rest) = message

\* Structured data that was cut off is refused, never taken for shorter data, except
\* between two elements, where the text is that of shorter data.
TruncationIsRefused ==
    state = "done" /\ Len(joined) < Len(Encode(data)) =>
        \E n \in 1..(Len(data) - 1) : joined = Encode(SubSeq(data, 1, n))

\* parseStructuredData inverts the sender's encoding and takes nothing else for it.
StructuredDataIsFaithful == RoundTrip /\ TruncationIsRefused
=============================================================================
