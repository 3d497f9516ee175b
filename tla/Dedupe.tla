------------------------------- MODULE Dedupe -------------------------------
(***************************************************************************)
(* What dedupe (internal/ingest/buffer.go) makes of a batch: of each query *)
(* the last row wins, in the place of its first one.  Rows are records     *)
(* with the field qid.                                                     *)
(***************************************************************************)
EXTENDS Integers, Sequences, Functions

\* Mutant: the first row of a query wins.
LastOfQuery_FirstWins(s, k) == \A j \in 1..k - 1 : s[j].qid # s[k].qid

\* The row at position k of s is the last one of its query.
LastOfQuery(s, k) == \A j \in k + 1..Len(s) : s[j].qid # s[k].qid

\* out is s with each query reduced to one row.
IsDedupe(out, s) ==
    /\ \A i \in DOMAIN out : \E k \in DOMAIN s : out[i] = s[k] /\ LastOfQuery(s, k)
    /\ \A k \in DOMAIN s : \E i \in DOMAIN out : out[i].qid = s[k].qid
    /\ \A i, j \in DOMAIN out : i < j =>
          \E k \in DOMAIN s : /\ s[k].qid = out[i].qid
                              /\ \A l \in 1..k : s[l].qid # out[j].qid

\* The results dedupe may return for s: there is exactly one.
dedupe(s) == {out \in UNION {[1..n -> Range(s)] : n \in 0..Len(s)} : IsDedupe(out, s)}
=============================================================================
