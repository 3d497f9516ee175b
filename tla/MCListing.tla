----------------------------- MODULE MCListing ------------------------------
(* Instances of Listing for TLC.                                           *)
EXTENDS Listing

\* The second query has a copy, as on Trino: the third row.
Copies == [n \in Ids |-> IF n = 3 THEN 2 ELSE n]

\* Every query has one row, as on ClickHouse.
NoCopies == [n \in Ids |-> n]

\* The ids of the queries are a day off, one each way.
AllSkews == [n \in Ids |-> IF Query[n] = 1 THEN 1 ELSE -1]

\* The first query took longest.
AllWalls == [n \in Ids |-> IF Query[n] = 1 THEN 2 ELSE 1]

View(sort, desc, failed) == [sort |-> sort, desc |-> desc, failed |-> failed]

\* The list as it is shown first.
DefaultView == {View("start", TRUE, FALSE)}

\* The ones its links lead to.
AllViews == DefaultView \cup {View("start", FALSE, FALSE), View("wall", TRUE, FALSE),
                              View("start", TRUE, TRUE)}
=============================================================================
