----------------------------- MODULE ChunkRows ------------------------------
(***************************************************************************)
(* The loop of chunkRows (internal/store/chunk.go), one row per step, for  *)
(* a call with the rows first..last of a flush: the whole batch, what a    *)
(* retry replays of it, or one chunk that InsertBatch splits again.        *)
(***************************************************************************)
EXTENDS Chunks, Sequences

VARIABLES sums, first, last,  \* the input
          next,               \* the row the loop looks at
          from,               \* first row of cur; cur is from..next-1
          size,               \* estimated size of cur
          chunks,             \* the chunks appended so far, as the rows from..to
          done                \* chunkRows has returned

call == <<sums, first, last>>
loopVars == <<call, next, from, size, chunks, done>>

LoopInit == /\ sums \in Inputs
            /\ first \in 1..Rows + 1 /\ last \in first - 1..Rows
            /\ next = first /\ from = first /\ size = 0
            /\ chunks = <<>> /\ done = FALSE

\* size+n > budget
Overflows == size + SizeOf(sums, next, next) > Budget

\* Mutant: size is not reset when a chunk is closed.
CloseChunk_KeepSize == /\ next <= last /\ from < next /\ Overflows
                       /\ chunks' = Append(chunks, [from |-> from, to |-> next - 1])
                       /\ from' = next
                       /\ size' = size + SizeOf(sums, next, next) /\ next' = next + 1
                       /\ UNCHANGED <<call, done>>

\* The next row does not fit into a chunk that has rows: close it and start anew.
CloseChunk == /\ next <= last /\ from < next /\ Overflows
              /\ chunks' = Append(chunks, [from |-> from, to |-> next - 1])
              /\ from' = next
              /\ size' = SizeOf(sums, next, next) /\ next' = next + 1
              /\ UNCHANGED <<call, done>>

Pack == /\ next <= last /\ (from = next \/ ~Overflows)
        /\ size' = size + SizeOf(sums, next, next) /\ next' = next + 1
        /\ UNCHANGED <<call, from, chunks, done>>

\* Mutant: the rows left over at the end are forgotten.
Return_DropsRest == /\ next > last /\ ~done
                    /\ done' = TRUE
                    /\ UNCHANGED <<call, next, from, size, chunks>>

\* The loop is over; what is left of cur is the last chunk.
Return == /\ next > last /\ ~done
          /\ chunks' = IF from < next THEN Append(chunks, [from |-> from, to |-> next - 1]) ELSE chunks
          /\ done' = TRUE
          /\ UNCHANGED <<call, next, from, size>>

Returned == done /\ UNCHANGED loopVars

LoopNext == CloseChunk \/ Pack \/ Return \/ Returned

LoopSpec == LoopInit /\ [][LoopNext]_loopVars

-----------------------------------------------------------------------------
RowRange == [from : Nat, to : Nat]

LoopTypeOK == /\ first \in 1..Rows + 1 /\ last \in first - 1..Rows
              /\ IsCumulative(sums, Rows)
              /\ next \in first..last + 1 /\ from \in first..next
              /\ size \in Nat
              /\ chunks \in Seq(RowRange)
              /\ done \in BOOLEAN

\* chunkRows loses, repeats and reorders nothing: the chunks follow one another
\* without a gap, from the first row to the last.
Contiguous ==
    /\ chunks # <<>> => chunks[1].from = first
    /\ \A k \in 1..Len(chunks) - 1 : chunks[k + 1].from = chunks[k].to + 1
    /\ done => IF first > last THEN chunks = <<>>
               ELSE chunks # <<>> /\ chunks[Len(chunks)].to = last

\* Every chunk is the greedy one of its first row: not empty, within the budget
\* unless it is a single row, and with no room for the next row.  Where a chunk
\* ends therefore depends on where it starts and on nothing before it, which is
\* what makes a replay of rows[committed:] send the same statements again.
ChunksAreGreedy ==
    \A k \in 1..Len(chunks) : IsGreedyChunk(sums, Budget, last, chunks[k].from, chunks[k].to)
=============================================================================
