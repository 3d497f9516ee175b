---------------------------- MODULE MCDedupeLoop ----------------------------
(* Instances of DedupeLoop for TLC: every short batch of numbered rows.    *)
EXTENDS DedupeLoop

CONSTANTS QueryIds, MaxLength

NumberedRows == [qid : QueryIds, ver : 1..MaxLength]

\* The rows of a batch are numbered in the order of arrival.
AllBatches ==
    UNION {{[i \in 1..n |-> [qid |-> q[i], ver |-> i]] : q \in [1..n -> QueryIds]} : n \in 0..MaxLength}
=============================================================================
