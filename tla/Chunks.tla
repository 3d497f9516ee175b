------------------------------- MODULE Chunks -------------------------------
(***************************************************************************)
(* How a batch is cut into statements (internal/store/chunk.go).  Rows are *)
(* numbered 1..n and given by their cumulative estimates: cum[i] is the    *)
(* estimated size of the rows 1..i, so that row i adds cum[i] - cum[i-1].  *)
(* A chunk is the interval of rows from..to.                               *)
(***************************************************************************)
EXTENDS Integers

CONSTANTS Rows,     \* how many rows a flush has, after dedupe
          Inputs,   \* the cumulative estimates to consider
          Budget    \* maxBatchBytes, or the statement budget of TrinoStore

\* No row is estimated at zero: every argument of its statement takes some bytes.
IsCumulative(cum, n) ==
    /\ cum \in [0..n -> Nat]
    /\ \A i, j \in 0..n : i < j => cum[i] < cum[j]

\* A batch is flushed only if it has rows.
ASSUME RowsAssumption == Rows \in Nat \ {0}
ASSUME InputsAssumption == \A c \in Inputs : IsCumulative(c, Rows)
ASSUME BudgetAssumption == Budget \in Nat

\* Estimated size of the rows from..to.
SizeOf(cum, from, to) == cum[to] - cum[from - 1]

\* What chunkRows promises of a chunk: it fits the budget, or it is a single row.
Fits(cum, budget, from, to) == from = to \/ SizeOf(cum, from, to) <= budget

\* The chunk that starts at row from when rows up to last are to be sent: it takes
\* every row that still fits.
IsGreedyChunk(cum, budget, last, from, to) ==
    /\ from <= to /\ to <= last
    /\ Fits(cum, budget, from, to)
    /\ to < last => ~Fits(cum, budget, from, to + 1)
=============================================================================
