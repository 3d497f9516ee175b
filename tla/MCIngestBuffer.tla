--------------------------- MODULE MCIngestBuffer ---------------------------
(* Instances of IngestBuffer for TLC.                                      *)
EXTENDS IngestBuffer

Delivery(q, v) == [qid |-> q, ver |-> v]

\* One query delivered twice and another once.
ThreeRows == {Delivery("q1", 1), Delivery("q1", 2), Delivery("q2", 1)}

OneRow == {Delivery("q1", 1)}
=============================================================================
