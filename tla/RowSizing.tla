----------------------------- MODULE RowSizing ------------------------------
(***************************************************************************)
(* From an event to a row that fits into a statement: the pipeline of      *)
(* handleIngest (internal/store/row.go, truncate.go) and, when the flusher *)
(* splits a batch for Trino, the loop of clampRow (trino.go).              *)
(*                                                                         *)
(* A string is a sequence of bytes, told apart only where the code does:   *)
(*   "b" an ordinary character    "q" a single quote   "s" white space     *)
(*   "m" first byte of a two-byte rune     "c" its second byte             *)
(* A row has one string of each kind: plan (a payload that the plan policy *)
(* may drop), text (a payload) and preview (a small field); and what the   *)
(* policy looks at: wallMS, and failed for an error code that is not "".   *)
(***************************************************************************)
EXTENDS Integers, Sequences, FiniteSets, Durations

CONSTANTS Events,             \* what may be received: plan, text, wall and failed
          Capture,            \* PLAN_CAPTURE
          MinWall,            \* PLAN_CAPTURE_MIN_WALL, in ticks
          MaxField,           \* MAX_FIELD_BYTES
          SmallField,         \* maxSmallFieldBytes
          PreviewBytes,       \* QUERY_PREVIEW_BYTES
          Radix,              \* base in which the truncation marker counts bytes
          Framing,            \* estimate of a row whose strings are empty
          Budget,             \* statement budget
          ClampMaxIterations

ASSUME CaptureAssumption == Capture \in {"all", "slow_or_failed", "none"}
ASSUME MinWallAssumption == MinWall \in Nat
\* validate asks for at least 1024, at least 1 and a budget of at least 4096, against
\* a framing of some 900 bytes.
ASSUME CapsAssumption == MaxField \in Nat \ {0} /\ SmallField \in Nat \ {0}
ASSUME PreviewAssumption == PreviewBytes \in Nat \ {0}
ASSUME RadixAssumption == Radix \in Nat /\ Radix > 1
ASSUME BudgetAssumption == Framing \in Nat /\ Budget \in Nat /\ Framing <= Budget

Smaller(a, b) == IF a < b THEN a ELSE b
Larger(a, b) == IF a > b THEN a ELSE b

Prefix(s, n) == SubSeq(s, 1, n)

\* No rune is cut in two.
ValidUTF8(s) == \A i \in DOMAIN s : /\ s[i] = "m" => i < Len(s) /\ s[i + 1] = "c"
                                    /\ s[i] = "c" => i > 1 /\ s[i - 1] = "m"

Text == {s \in Seq({"b", "q", "s", "m", "c"}) : ValidUTF8(s)}

\* Digits of n in base b.
Digits(b, n) ==
    LET d[m \in Nat] == IF m < b THEN 1 ELSE 1 + d[m \div b] IN d[n]

\* encoding/json makes valid UTF-8 of whatever it reads.
ASSUME EventsAssumption == \A e \in Events : e.plan \in Text /\ e.text \in Text
\* 1000 rounds, against 21 fields that are empty when they were halved 26 times: a
\* body has at most 32 MB.
ASSUME IterationsAssumption ==
    ClampMaxIterations \in Nat /\ 3 * Digits(2, MaxField) <= ClampMaxIterations

-----------------------------------------------------------------------------
(* truncate.go.                                                            *)

\* The marker that says n bytes were removed; it has a multi-byte rune in it.
Marker(n) == <<"m", "c">> \o [i \in 1..Digits(Radix, n) |-> "b"]

\* Mutant: the string is cut anywhere.
runeSafeCut_Anywhere(s, cut) == cut

\* cut, or the start of the rune it falls into.
runeSafeCut(s, cut) ==
    CHOOSE k \in 0..cut : /\ k = 0 \/ s[k + 1] # "c"
                          /\ \A l \in k + 1..cut : s[l + 1] = "c"

\* s itself, nothing, a bare prefix, or a prefix and the marker.  The marker is sized
\* for Len(s), which has at least the digits of the number of bytes removed.
truncate(s, max) ==
    LET room == max - Len(Marker(Len(s)))
        cut  == runeSafeCut(s, room)
    IN  CASE Len(s) <= max -> s
          [] Len(s) > max /\ max <= 0 -> <<>>
          [] Len(s) > max /\ max > 0 /\ room <= 0 -> Prefix(s, runeSafeCut(s, max))
          [] OTHER -> Prefix(s, cut) \o Marker(Len(s) - cut)

-----------------------------------------------------------------------------
(* row.go: the pipeline of handleIngest.                                   *)

\* strings.Join(strings.Fields(s), " "): white space at the ends is dropped, and of
\* each run between two words one space is left.
Squeeze(s) ==
    LET Word(i) == s[i] # "s"
        kept == {k \in DOMAIN s :
                    \/ Word(k)
                    \/ /\ k < Len(s) /\ Word(k + 1)
                       /\ \E i \in 1..k : Word(i)}
    IN  [n \in 1..Cardinality(kept) |->
            s[CHOOSE k \in kept : Cardinality({j \in kept : j <= k}) = n]]

\* RowFromEvent, for the columns that matter here.
RowFromEvent(e) == [plan |-> e.plan, text |-> e.text, preview |-> <<>>,
                    wallMS |-> Millis(UnmarshalJSON(e.wall)), failed |-> e.failed]

\* Mutant: only what is over the threshold is slow.
keepsPlans_Over(r) ==
    \/ Capture = "all"
    \/ Capture = "slow_or_failed" /\ (r.failed \/ r.wallMS > Millis(MinWall))

keepsPlans(r) ==
    \/ Capture = "all"
    \/ Capture = "slow_or_failed" /\ (r.failed \/ r.wallMS >= Millis(MinWall))

ApplyPlanPolicy(r) == IF keepsPlans(r) THEN r ELSE [r EXCEPT !.plan = <<>>]

WithPreview(r) ==
    LET preview == Squeeze(r.text) IN
    [r EXCEPT !.preview = IF Len(preview) > PreviewBytes
                          THEN Prefix(preview, runeSafeCut(preview, PreviewBytes))
                          ELSE preview]

TruncateFields(r) ==
    [r EXCEPT !.plan = truncate(@, MaxField), !.text = truncate(@, MaxField),
              !.preview = truncate(@, Smaller(MaxField, SmallField))]

\* Mutant: the preview is taken of a text that was truncated.
Ingested_PreviewLast(e) == WithPreview(TruncateFields(ApplyPlanPolicy(RowFromEvent(e))))

\* The row handleIngest adds to the buffer.
Ingested(e) == TruncateFields(WithPreview(ApplyPlanPolicy(RowFromEvent(e))))

-----------------------------------------------------------------------------
(* trino.go: clampRow.                                                     *)

stringFields == <<"plan", "text", "preview">>

Quotes(s) == Cardinality({i \in DOMAIN s : s[i] = "q"})

\* Mutant: quotes are not counted twice.
estimateArgBytes_NoQuotes(s) == Len(s)

\* A quote is doubled; what a string adds apart from its bytes is in Framing.
estimateArgBytes(s) == Len(s) + Quotes(s)

estimateRowBytes(r) == Framing + estimateArgBytes(r.plan) + estimateArgBytes(r.text)
                               + estimateArgBytes(r.preview)

\* Mutant: the last of the longest fields.
Largest_Last(r, i) ==
    /\ i \in 1..3
    /\ \A j \in 1..i : Len(r[stringFields[j]]) <= Len(r[stringFields[i]])
    /\ \A j \in i + 1..3 : Len(r[stringFields[j]]) < Len(r[stringFields[i]])

\* Field i is the first of the longest ones.
Largest(r, i) ==
    /\ i \in 1..3
    /\ \A j \in 1..i - 1 : Len(r[stringFields[j]]) < Len(r[stringFields[i]])
    /\ \A j \in i..3 : Len(r[stringFields[j]]) <= Len(r[stringFields[i]])

-----------------------------------------------------------------------------
VARIABLES event,      \* the event of the request
          pc,         \* "received", "buffered", "clamping" or "clamped"
          row,        \* the row made of it
          est,        \* clampRow: estimate of row
          iter        \* clampRow: rounds made

vars == <<event, pc, row, est, iter>>

Init == /\ event \in Events
        /\ pc = "received"
        /\ row = [plan |-> <<>>, text |-> <<>>, preview |-> <<>>, wallMS |-> 0, failed |-> FALSE]
        /\ est = 0 /\ iter = 0

Ingest == /\ pc = "received"
          /\ row' = Ingested(event)
          /\ pc' = "buffered"
          /\ UNCHANGED <<event, est, iter>>

\* SplitBatch passes the row to clampRow.
SplitBatch == /\ pc = "buffered"
              /\ est' = estimateRowBytes(row) /\ iter' = 0
              /\ pc' = "clamping"
              /\ UNCHANGED <<event, row>>

\* The longest field is shortened by the excess, but not below half its length.  The
\* loop goes on only while the estimate decreases.
clampRow(i) ==
    LET field  == stringFields[i]
        target == Larger(Len(row[field]) - (est - Budget), Len(row[field]) \div 2)
    IN  /\ pc = "clamping" /\ est > Budget /\ iter < ClampMaxIterations
        /\ Largest(row, i) /\ row[field] # <<>>
        /\ row' = [row EXCEPT ![field] = truncate(@, target)]
        /\ est' = estimateRowBytes(row') /\ iter' = iter + 1
        /\ pc' = IF est' < est THEN "clamping" ELSE "clamped"
        /\ UNCHANGED event

ClampEnds == /\ pc = "clamping"
             /\ est > Budget /\ iter < ClampMaxIterations =>
                    \A i \in 1..3 : row[stringFields[i]] = <<>>
             /\ pc' = "clamped"
             /\ UNCHANGED <<event, row, est, iter>>

Clamped == pc = "clamped" /\ UNCHANGED vars

Next == \/ Ingest \/ SplitBatch \/ ClampEnds \/ Clamped
        \/ \E i \in 1..3 : clampRow(i)

Spec == Init /\ [][Next]_vars

-----------------------------------------------------------------------------
(* Properties.                                                             *)

\* Whatever is cut, once or again and again, the fields of a row stay valid UTF-8 and
\* within the caps of MAX_FIELD_BYTES and maxSmallFieldBytes, marker included.
FieldsValidAndCapped ==
    /\ \A i \in 1..3 : ValidUTF8(row[stringFields[i]])
    /\ Len(row.plan) <= MaxField /\ Len(row.text) <= MaxField
    /\ Len(row.preview) <= Smaller(MaxField, SmallField)

\* The wall time of the event, in ticks: the exact length of a duration that is well
\* formed, and 0 for a value that no duration can be read from.
WallTicks(v) == CASE v.json = "string" /\ WellFormed(v.text) -> Exact(v.text)
                  [] v.json = "number" -> v.n
                  [] OTHER -> 0

\* The exact length of every duration is a whole number of ticks.
ASSUME WallAssumption == \A e \in Events : WallTicks(e.wall) \in Int

\* wall_ms is the wall time in milliseconds, or, as the floats round down, one less;
\* it is never further from 0 than the wall time is.  A text that breaks off or has
\* something in it that is no duration counts as 0, not as what was read up to there
\* (duration_test.go: "unmarshal garbage should be tolerant").
WallTimeToTheMillisecond ==
    pc = "buffered" =>
        LET ms == Millis(WallTicks(event.wall)) IN
        /\ ms >= 0 => row.wallMS \in {ms, ms - 1} \cap Nat
        /\ ms < 0 => row.wallMS \in {ms, ms + 1}

\* README: slow_or_failed keeps the plans of what "failed, or wall time >=
\* PLAN_CAPTURE_MIN_WALL".  With the rounding of the parser and two divisions in
\* between, a query that ran a millisecond longer than the threshold keeps its plan,
\* one that ran shorter than the threshold's whole milliseconds loses it.
SlowPlansKept ==
    pc = "buffered" /\ Capture = "slow_or_failed" =>
        /\ event.failed \/ WallTicks(event.wall) >= MinWall + Millisecond =>
                row.plan = truncate(event.plan, MaxField)
        /\ ~event.failed /\ Millis(WallTicks(event.wall)) < Millis(MinWall) =>
                row.plan = <<>>

\* The same line of the README taken at its word: every query that ran for the
\* threshold or longer keeps its plan.  It is not so: a wall time whose float is a
\* little less than what was written loses a millisecond and falls below a threshold
\* that it reaches.  PT1.001S is 1000 ms, and not slow for a threshold of 1.001s.
PlansKeptFromThreshold ==
    pc = "buffered" /\ Capture = "slow_or_failed" /\ WallTicks(event.wall) >= MinWall =>
        row.plan = truncate(event.plan, MaxField)

\* The preview of a buffered row is the beginning of what the user wrote, words
\* separated by single spaces, even when the text itself was truncated: no marker
\* gets into it unless it is itself over the caps.
PreviewOfWholeText ==
    pc = "buffered" /\ PreviewBytes <= Smaller(MaxField, SmallField) =>
        LET whole == Squeeze(event.text) IN
        /\ Len(row.preview) <= Smaller(PreviewBytes, Len(whole))
        /\ row.preview = Prefix(whole, Len(row.preview))
        /\ Len(whole) > PreviewBytes => Len(row.preview) >= PreviewBytes - 1

\* The bytes a row really takes in the statement: each quote is written twice.
Serialized(r) ==
    LET Bytes == {b \in {"plan", "text", "preview"} \X (1..MaxField) : b[2] <= Len(r[b[1]])}
    IN  Framing + Cardinality(Bytes) + Cardinality({b \in Bytes : r[b[1]][b[2]] = "q"})

\* clampRow "guarantees a single row's estimated statement contribution fits the
\* budget": the loop ends with a row that fits, never because it is stuck or out of
\* rounds, whatever quotes and runes the fields hold and however often they are cut.
ClampFits == pc = "clamped" => Serialized(row) <= Budget

\* largeFields: "on equal lengths, clampRow shrinks earlier entries first".  A field
\* that clampRow cut was longer than anything that is left of the fields before it.
EarlierFieldsFirst ==
    pc \in {"clamping", "clamped"} =>
        \A i, j \in 1..3 :
            i < j /\ row[stringFields[j]] # Ingested(event)[stringFields[j]] =>
                Len(row[stringFields[i]]) < Len(Ingested(event)[stringFields[j]])
=============================================================================
