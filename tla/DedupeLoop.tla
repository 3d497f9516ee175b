----------------------------- MODULE DedupeLoop -----------------------------
(***************************************************************************)
(* The loop of dedupe (internal/ingest/buffer.go), one row per step.       *)
(***************************************************************************)
EXTENDS Dedupe

CONSTANTS Rows,     \* the rows a batch may hold, records with the field qid
          Batches   \* the batches to consider

ASSUME BatchesAssumption == Batches \subseteq Seq(Rows)

VARIABLES rows,   \* the input
          next,   \* the row the loop looks at
          out,    \* the rows kept
          seen    \* the place in out of each query met so far

vars == <<rows, next, out, seen>>

Init == /\ rows \in Batches
        /\ next = 1 /\ out = <<>> /\ seen = {}

Row == rows[next]

\* Mutant: a query met before is left as it is.
Overwrite_Not == /\ next <= Len(rows)
                 /\ \E e \in seen : e.qid = Row.qid
                 /\ next' = next + 1
                 /\ UNCHANGED <<rows, out, seen>>

\* seen has the query: its row is replaced.
Overwrite == /\ next <= Len(rows)
             /\ \E e \in seen : e.qid = Row.qid /\ out' = [out EXCEPT ![e.at] = Row]
             /\ next' = next + 1
             /\ UNCHANGED <<rows, seen>>

Keep == /\ next <= Len(rows)
        /\ \A e \in seen : e.qid # Row.qid
        /\ out' = Append(out, Row)
        /\ seen' = seen \cup {[qid |-> Row.qid, at |-> Len(out) + 1]}
        /\ next' = next + 1
        /\ UNCHANGED rows

Return == next > Len(rows) /\ UNCHANGED vars

Next == Overwrite \/ Keep \/ Return

Spec == Init /\ [][Next]_vars

-----------------------------------------------------------------------------
\* The loop computes dedupe: after every row, out is what dedupe makes of the rows
\* up to it, and nothing else would be.
LoopIsDedupe == dedupe(SubSeq(rows, 1, next - 1)) = {out}
=============================================================================
