-------------------------- MODULE ClickHouseInsert --------------------------
(***************************************************************************)
(* Flushes written to ClickHouse one after another                         *)
(* (internal/store/clickhouse.go): every chunk is one INSERT that carries  *)
(* a token derived from its rows, and the server drops an INSERT whose     *)
(* token it has seen among the last Window.  flush replays rows[committed:]*)
(* after an error, although the server may have run the failed INSERT, or  *)
(* may yet run it, also while later flushes are written.                   *)
(*                                                                         *)
(* Every flush delivers the same queries, again or in another version: the *)
(* events were redelivered, or the service was restarted with other caps   *)
(* in between.  The table is a ReplacingMergeTree by ingested_at, which    *)
(* the server sets when it runs an INSERT, and reads use FINAL: of each    *)
(* query the row that was written last is shown.                           *)
(*                                                                         *)
(* ChunkRows shows how a batch is cut; here the cut is taken from it.      *)
(***************************************************************************)
EXTENDS Chunks, Sequences, FiniteSets

CONSTANTS Flushes,      \* how many flushes
          MaxRetries,   \* Config.MaxRetries
          Window        \* non_replicated_deduplication_window

ASSUME FlushesAssumption == Flushes \in Nat \ {0}
ASSUME MaxRetriesAssumption == MaxRetries \in Nat
\* 1000 tokens, against at most one statement per row of a flush (100 by default); an
\* INSERT in doubt ends, by max_execution_time, before as many others were written.
ASSUME WindowAssumption == Window \in Nat /\ Window >= Rows * Flushes

VARIABLES cum,          \* the input: the estimates of each flush
          version,      \* the input: the version of the rows of each flush
          flush,        \* the flush under way
          committed,    \* rows of it acknowledged so far, in all attempts
          attempt,      \* retries made
          pc,           \* where flush is
          stmt,         \* the chunk of the INSERT under way
          inDoubt,      \* server: INSERTs that failed here and may still run
          tokens,       \* server: the tokens it remembers, oldest first
          copies,       \* server: how often each flush wrote each row
          shown,        \* server: the version of each row a read shows, 0 for none
          acked,        \* history: the newest version of each row that was acknowledged
          late          \* history: rows that an INSERT in doubt wrote after its flush had ended

input == <<cum, version>>
server == <<tokens, copies, shown, late>>
vars == <<input, flush, committed, attempt, pc, stmt, inDoubt, server, acked>>

\* A delivery repeats the last version of the rows, or has a newer one.
Versions == {v \in [1..Flushes -> 1..Flushes] :
                v[1] = 1 /\ \A k \in 2..Flushes : v[k] \in {v[k - 1], v[k - 1] + 1}}

\* Rows of the same version have the same estimates.
Init == /\ cum \in [1..Flushes -> Inputs] /\ version \in Versions
        /\ \A k, l \in 1..Flushes : version[k] = version[l] => cum[k] = cum[l]
        /\ flush = 1 /\ committed = 0 /\ attempt = 0 /\ pc = "insert"
        /\ stmt = [flush |-> 1, from |-> 1, to |-> 1]
        /\ inDoubt = {} /\ tokens = <<>>
        /\ copies = [k \in 1..Flushes |-> [r \in 1..Rows |-> 0]]
        /\ shown = [r \in 1..Rows |-> 0] /\ acked = shown
        /\ late = {}

\* Mutant: a chunk may end anywhere within the budget, so that a replay is cut
\* differently.
SplitBatch_AnyCut(from, to) == from <= to /\ to <= Rows /\ Fits(cum[flush], Budget, from, to)

\* The first chunk of rows[committed:]; InsertBatch does not cut it again.
SplitBatch(from, to) == IsGreedyChunk(cum[flush], Budget, Rows, from, to)

InsertChunk == /\ pc = "insert"
               /\ \E to \in 1..Rows :
                     /\ SplitBatch(committed + 1, to)
                     /\ stmt' = [flush |-> flush, from |-> committed + 1, to |-> to]
               /\ pc' = "sent"
               /\ UNCHANGED <<input, flush, committed, attempt, inDoubt, server, acked>>

\* Mutant: only the query ids are hashed.
batchToken_IdsOnly(c) == [from |-> c.from, to |-> c.to, version |-> 1]

\* The hash of all columns of the rows: equal tokens are equal rows.
batchToken(c) == [from |-> c.from, to |-> c.to, version |-> version[c.flush]]

\* The server has written rows with this token.
Seen(c) == \E i \in 1..Len(tokens) : tokens[i] = batchToken(c)

\* The tokens after c was written: the oldest falls out of a full window.
Remember(c) ==
    LET all == Append(tokens, batchToken(c)) IN
    IF Len(all) > Window THEN Tail(all) ELSE all

\* External: ClickHouse runs an INSERT.
Execute(c) ==
    \/ Seen(c) /\ UNCHANGED <<tokens, copies, shown>>
    \/ /\ ~Seen(c)
       /\ tokens' = Remember(c)
       /\ copies' = [copies EXCEPT ![c.flush] =
                        [r \in 1..Rows |-> IF r \in c.from..c.to THEN @[r] + 1 ELSE @[r]]]
       /\ shown' = [r \in 1..Rows |-> IF r \in c.from..c.to THEN version[c.flush] ELSE shown[r]]

\* Mutant: the first chunk counts for the whole batch.
Send_Ok_WholeBatch == /\ pc = "sent"
                      /\ Execute(stmt)
                      /\ committed' = Rows /\ pc' = "ok"
                      /\ acked' = [r \in 1..Rows |-> version[flush]]
                      /\ UNCHANGED <<input, flush, attempt, stmt, inDoubt, late>>

Send_Ok == /\ pc = "sent"
           /\ Execute(stmt)
           /\ committed' = stmt.to
           /\ pc' = IF stmt.to = Rows THEN "ok" ELSE "insert"
           /\ acked' = [r \in 1..Rows |-> IF r \in stmt.from..stmt.to THEN version[flush] ELSE acked[r]]
           /\ UNCHANGED <<input, flush, attempt, stmt, inDoubt, late>>

\* PrepareBatch, Append or Send fails: give up, or retry what is not committed.  Close
\* may have cancelled the flush, so that it gives up before its retries are exhausted.
\* has says whether the server has the INSERT; a non-retryable code means that it
\* refused it.
Send_Fails(nonRetryable, has) ==
    /\ pc = "sent"
    /\ ~(nonRetryable /\ has)
    /\ inDoubt' = IF has THEN inDoubt \cup {stmt} ELSE inDoubt
    /\ \/ pc' = "failed"
       \/ ~nonRetryable /\ attempt < MaxRetries /\ pc' = "backoff"
    /\ UNCHANGED <<input, flush, committed, attempt, stmt, server, acked>>

Retry == /\ pc = "backoff"
         /\ attempt' = attempt + 1 /\ pc' = "insert"
         /\ UNCHANGED <<input, flush, committed, stmt, inDoubt, server, acked>>

\* The flusher turns to the next batch.
NextFlush == /\ pc \in {"ok", "failed"} /\ flush < Flushes
             /\ flush' = flush + 1
             /\ committed' = 0 /\ attempt' = 0 /\ pc' = "insert"
             /\ UNCHANGED <<input, stmt, inDoubt, server, acked>>

\* External: the server runs an INSERT whose client has gone.
LateExecute(c) == /\ Execute(c)
                  /\ inDoubt' = inDoubt \ {c}
                  /\ late' = IF c.flush < flush /\ ~Seen(c) THEN late \cup c.from..c.to ELSE late
                  /\ UNCHANGED <<input, flush, committed, attempt, pc, stmt, acked>>

Finished == /\ flush = Flushes /\ pc \in {"ok", "failed"} /\ inDoubt = {}
            /\ UNCHANGED vars

Next == \/ InsertChunk \/ Send_Ok \/ Retry \/ NextFlush \/ Finished
        \/ \E nonRetryable, has \in BOOLEAN : Send_Fails(nonRetryable, has)
        \/ \E c \in inDoubt : LateExecute(c)

Spec == Init /\ [][Next]_vars

-----------------------------------------------------------------------------
\* The README says of the token that "an identical retry is dropped by the server".
\* For that a replay has to be identical: whatever is lost, replayed or run late,
\* no row of a flush is written twice.
ReplaysAreDropped == \A k \in 1..Flushes, r \in 1..Rows : copies[k][r] <= 1

\* What flush reports as committed is in the table, written by this flush or, if the
\* same rows were delivered before, by an earlier one; a flush that returns without an
\* error has written every row: no chunk is skipped by a retry.
CommittedIsWritten ==
    /\ \A r \in 1..committed :
          \E k \in 1..flush : version[k] = version[flush] /\ copies[k][r] >= 1
    /\ pc = "ok" => committed = Rows

\* "The latest write for a (create_time, query_id) pair" wins: a read never shows
\* an older version of a row than one that was acknowledged, unless an INSERT of an
\* earlier flush was in doubt and the server ran it after that flush had been given up.
\* In particular, the token of a newer version is never taken for that of an older one.
NewestIsShown == \A r \in 1..Rows : shown[r] < acked[r] => r \in late
=============================================================================
