------------------------------ MODULE LogExport ------------------------------
(***************************************************************************)
(* POST /api/v1/logs/export: exportLogs of backend/internal/api/server.go  *)
(* and Export of backend/internal/storage/victorialogs/client.go.  Rows    *)
(* are copied from the backend's response into a buffered writer; the      *)
(* buffer reaches the client when it is full, and at the end only if       *)
(* nothing failed.                                                         *)
(*                                                                         *)
(* The text is a sequence of tokens: "[", "header", ",", "]", "row" with   *)
(* its number, or "part" for a line that the broken connection cut off,    *)
(* which bufio.Scanner still returns.  A token counts as received when its *)
(* last byte is.                                                           *)
(***************************************************************************)
EXTENDS Naturals, Sequences

CONSTANTS Sizes,    \* byte lengths of rows
          MaxHits,  \* bound: rows that match
          MaxRows,  \* 10,000
          MaxBytes  \* 100 MiB

Token(t) == <<<<t, 0>>>>
Row(n) == <<<<"row", n>>>>

VARIABLES format,    \* "ndjson", "json" or "csv"
          valid,     \* the query passes Validate
          hits,      \* sizes of the rows of the backend's result
          next,      \* rows
          bytes,     \* bytesRead
          export,    \* "start", "rows", "broken", "end", "ok" or "failed"
          buffer,    \* written and not flushed
          out        \* what the client has received

vars == <<format, valid, hits, next, bytes, export, buffer, out>>
request == <<format, valid, hits>>

\* exportLogs has refused undecodable queries and unknown formats with 400.
Init ==
    /\ format \in {"ndjson", "json", "csv"}
    /\ valid \in BOOLEAN
    /\ hits \in UNION {[1..n -> Sizes] : n \in 0..MaxHits}
    /\ next = 0 /\ bytes = 0 /\ export = "start" /\ buffer = <<>> /\ out = <<>>
-----------------------------------------------------------------------------
FailAfterClosing ==
    /\ export' = "failed"
    /\ out' = out \o buffer \o (IF format = "json" THEN Token("]") ELSE <<>>)
    /\ UNCHANGED <<request, next, bytes, buffer>>

\* exportLogs only logs an error of Export and returns.
Fail ==
    /\ export' = "failed"
    /\ UNCHANGED <<request, next, bytes, buffer, out>>

Preamble == CASE format = "json" -> Token("[") [] format = "csv" -> Token("header")
              [] format = "ndjson" -> <<>>

\* LogsQL and queryStream; the backend may refuse or be unavailable.
Begin ==
    /\ export = "start"
    /\ \/ /\ valid
          /\ export' = "rows" /\ buffer' = Preamble
          /\ UNCHANGED <<request, next, bytes, out>>
       \/ Fail

WithinBytesBeforeRow == bytes <= MaxBytes

WithinBytes == bytes + hits[next + 1] <= MaxBytes

SeparatorAlways == IF format = "json" THEN Token(",") ELSE <<>>

Separator == IF format = "json" /\ next > 0 THEN Token(",") ELSE <<>>

HasRow == next < MaxRows /\ next < Len(hits)

CopyRow ==
    /\ export = "rows" /\ HasRow /\ WithinBytes
    /\ buffer' = buffer \o Separator \o Row(next + 1)
    /\ next' = next + 1 /\ bytes' = bytes + hits[next + 1]
    /\ UNCHANGED <<request, export, out>>

ByteLimit ==
    /\ export = "rows" /\ HasRow /\ ~WithinBytes
    /\ Fail

\* The backend's connection breaks inside a line: what there is of it is copied,
\* except for CSV, which cannot parse it.
CopyPart ==
    /\ export = "rows" /\ HasRow /\ format # "csv"
    /\ buffer' = buffer \o Separator \o Token("part")
    /\ export' = "broken"
    /\ UNCHANGED <<request, next, bytes, out>>

\* The error of the scanner.
StreamBreaks ==
    /\ export \in {"rows", "broken"}
    /\ Fail

\* The 64 KiB are full: a write sends them, which may end anywhere in the text.
Spill ==
    /\ export \in {"rows", "broken", "end"}
    /\ \E k \in 1..Len(buffer) : /\ out' = out \o SubSeq(buffer, 1, k)
                                 /\ buffer' = SubSeq(buffer, k + 1, Len(buffer))
    /\ UNCHANGED <<request, next, bytes, export>>

\* Any write fails once the client is gone.
ClientLeaves ==
    /\ export \in {"rows", "broken", "end"}
    /\ Fail

EndOfRows ==
    /\ export = "rows" /\ ~HasRow
    /\ buffer' = buffer \o (IF format = "json" THEN Token("]") ELSE <<>>)
    /\ export' = "end"
    /\ UNCHANGED <<request, next, bytes, out>>

Finish ==
    /\ export = "end"
    /\ out' = out \o buffer /\ buffer' = <<>>
    /\ export' = "ok"
    /\ UNCHANGED <<request, next, bytes>>

Rest == export \in {"ok", "failed"} /\ UNCHANGED vars

Next == Begin \/ CopyRow \/ ByteLimit \/ CopyPart \/ StreamBreaks \/ Spill
            \/ ClientLeaves \/ EndOfRows \/ Finish \/ Rest

Spec == Init /\ [][Next]_vars
-----------------------------------------------------------------------------
(* Properties *)

\* The document that an export of the first n rows should be: its p-th token before
\* the end, how many there are up to the n-th row, and the end.
TokenAt(p) ==
    CASE format = "json"   -> IF p = 1 THEN <<"[", 0>>
                              ELSE IF p % 2 = 0 THEN <<"row", p \div 2>> ELSE <<",", 0>>
      [] format = "csv"    -> IF p = 1 THEN <<"header", 0>> ELSE <<"row", p - 1>>
      [] format = "ndjson" -> <<"row", p>>

Length(n) ==
    CASE format = "json"   -> IF n = 0 THEN 1 ELSE 2 * n
      [] format = "csv"    -> n + 1
      [] format = "ndjson" -> n

Document(n) ==
    [p \in 1..Length(n) |-> TokenAt(p)] \o (IF format = "json" THEN Token("]") ELSE <<>>)

\* The backend's rows that the limit allows.
Wanted == IF Len(hits) <= MaxRows THEN Len(hits) ELSE MaxRows

\* What the client receives is a beginning of the right document: rows in order,
\* none missing or doubled, up to a cut-off line at the very end.
OutIsPrefix ==
    \A i \in DOMAIN out :
        \/ i \in DOMAIN Document(Wanted) /\ out[i] = Document(Wanted)[i]
        \/ i = Len(out) /\ out[i][1] = "part"

\* The first n rows are within the byte limit: their running total is.
FitsBytes(n) ==
    \E sum \in [0..n -> 0..MaxBytes] :
        sum[0] = 0 /\ \A i \in 1..n : sum[i] = sum[i - 1] + hits[i]

\* An export that succeeds is complete: it has every row up to the row limit, and
\* these are within the byte limit.
SuccessIsComplete == export = "ok" => out = Document(Wanted) /\ FitsBytes(Wanted)

\* The client of a JSON export can tell an incomplete one: however it failed, an
\* array that arrives closed has all its rows.
JsonEndIsVisible ==
    format = "json" /\ (\E i \in DOMAIN out : out[i][1] = "]") =>
        out = Document(Wanted) /\ FitsBytes(Wanted)

\* What Export sends is the right document as far as it goes, and a client that
\* asked for JSON, or sees the export succeed, knows how far that is.
ExportIsHonest == JsonEndIsVisible /\ OutIsPrefix /\ SuccessIsComplete
=============================================================================
