---------------------------- MODULE RowLifecycle ----------------------------
(***************************************************************************)
(* What the write path promises about one row of the query log, whatever   *)
(* the buffer, the flusher and the retries do in between.                  *)
(*                                                                         *)
(* A row is one delivered query-completed event.  It is refused or         *)
(* accepted when it is offered, and an accepted row is settled once:       *)
(*   stored      the store acknowledged it;                                *)
(*   superseded  a later delivery of the same query went out in its place; *)
(*   lost        the batch it was in was given up.                         *)
(* The table only grows, and only by rows that were accepted.  A row whose *)
(* INSERT was never acknowledged may still appear in it, even after it was *)
(* given up, but a refused or superseded row never does.                   *)
(***************************************************************************)
EXTENDS Integers

\* The rows that may be offered: records with the query id qid and with ver, which
\* numbers the deliveries of a query in the order of arrival.
CONSTANT Row

Statuses == {"new", "accepted", "refused", "stored", "superseded", "lost"}

VARIABLES status,   \* what became of each row so far
          table     \* the rows the store holds

vars == <<status, table>>

Newer(n, r) == n.qid = r.qid /\ n.ver > r.ver

Init == /\ status = [r \in Row |-> "new"]
        /\ table = {}

Accept(r) == /\ status[r] = "new"
             /\ status' = [status EXCEPT ![r] = "accepted"]
             /\ UNCHANGED table

Refuse(r) == /\ status[r] = "new"
             /\ status' = [status EXCEPT ![r] = "refused"]
             /\ UNCHANGED table

\* The ways the status of r may change when the flusher moves on.
Settles(r) ==
    \/ status'[r] = status[r]
    \/ /\ status[r] = "accepted"
       /\ \/ status'[r] = "stored" /\ r \in table'
          \/ status'[r] = "lost"
          \/ /\ status'[r] = "superseded"
             /\ r \notin table'
             /\ \E n \in Row : Newer(n, r) /\ status'[n] = "accepted"

\* Rows a statement may carry, or may have carried.
Writable == {r \in Row : status[r] \in {"accepted", "stored", "lost"}}

Progress == /\ table \subseteq table'
            /\ table' \ table \subseteq Writable
            /\ \A r \in Row : Settles(r)
            /\ status' \in [Row -> Statuses]

Next == \/ \E r \in Row : Accept(r) \/ Refuse(r)
        \/ Progress

Spec == Init /\ [][Next]_vars
=============================================================================
