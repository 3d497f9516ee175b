------------------------- MODULE MCClickHouseInsert -------------------------
(* Instances of ClickHouseInsert for TLC: every sequence of small rows.    *)
EXTENDS ClickHouseInsert

CONSTANT MaxSize    \* largest estimate of a row

\* The cumulative estimates of rows of the given sizes.
Cumulative(sizes) ==
    LET c[i \in 0..Rows] == IF i = 0 THEN 0 ELSE c[i - 1] + sizes[i] IN c

AllInputs == {Cumulative(sizes) : sizes \in [1..Rows -> 1..MaxSize]}
=============================================================================
