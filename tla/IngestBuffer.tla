---------------------------- MODULE IngestBuffer ----------------------------
(***************************************************************************)
(* The ingest buffer (internal/ingest/buffer.go): HTTP handlers Add rows   *)
(* to a bounded channel, one flusher goroutine collects them into batches, *)
(* dedupes a batch and writes it to the store in chunks, with retries, and *)
(* Close drains what is left.                                              *)
(*                                                                         *)
(* The length of a chunk is chosen freely: how the stores split a batch by *)
(* size is the subject of another module.  Time is abstract: the flush     *)
(* ticker, the retry backoff and the deadlines may fire at any step.       *)
(* Counters are bumped in the step they belong to (the code does so with   *)
(* atomics right after it).                                                *)
(***************************************************************************)
EXTENDS Integers, Sequences, FiniteSets, Functions, Dedupe

CONSTANTS Row,              \* the rows Trino may deliver: records with the query id qid
                            \* and with ver, which numbers the deliveries of a query
          BufferCapacity,   \* Config.BufferCapacity: capacity of the channel
          BatchSize,        \* Config.BatchSize
          MaxRetries        \* Config.MaxRetries

ASSUME RowAssumption ==
    /\ \A r \in Row : r.ver \in Nat
    /\ \A n, r \in Row : n.qid = r.qid /\ n.ver = r.ver => n = r
\* New raises a smaller capacity to 1.
ASSUME CapacityAssumption == BufferCapacity \in Nat \ {0}
\* config.validate rejects a batch size below 1 and a negative retry count.
ASSUME BatchSizeAssumption == BatchSize \in Nat \ {0}
ASSUME MaxRetriesAssumption == MaxRetries \in Nat

VARIABLES
    ch,         \* the channel of accepted rows
    stop,       \* stop has been closed
    cancelled,  \* flushBase has been cancelled
    closer,     \* where the caller of Close is
    pc,         \* where the flusher goroutine is
    resume,     \* where it goes when the current flush returns
    batch,      \* rows collected since the last flush
    rows,       \* rows of the current flush not yet reported committed
    attempt,    \* retries made in the current flush
    committed,  \* rows acknowledged by the chunks of the current attempt
    chunk,      \* length of the chunk whose InsertBatch is running
    metrics,    \* the counters of observability.Metrics the buffer bumps
    copies,     \* store: how many copies of each row it holds
    inDoubt,    \* store: unacknowledged statements that may still commit a row
    fate,       \* history: how each row was settled, "none" until then
    late,       \* history: rows that entered the channel after stop was closed
    unacked     \* history: rows that were ever in doubt

shared  == <<ch, stop, cancelled>>
flusher == <<pc, resume, batch, rows, attempt, committed, chunk>>
store   == <<copies, inDoubt>>
history == <<fate, late, unacked>>
vars == <<shared, closer, flusher, metrics, store, history>>

Newer(n, r) == n.qid = r.qid /\ n.ver > r.ver

Fates == {"none", "refused", "stored", "superseded", "lost"}

\* What became of r.  A row the buffer would lose track of counts as new again.
Status(r) == IF fate[r] # "none" THEN fate[r]
             ELSE IF r \in Range(ch) \cup Range(batch) \cup Range(rows)
             THEN "accepted" ELSE "new"

Settle(f, S, outcome) == [r \in Row |-> IF r \in S THEN outcome ELSE f[r]]

\* Adds one to the count of every row of S.
Bump(f, S) == [r \in Row |-> IF r \in S THEN f[r] + 1 ELSE f[r]]

\* The rows of s from position i up to position j.
Part(s, i, j) == {s[k] : k \in i..j}

Init == /\ ch = <<>> /\ stop = FALSE /\ cancelled = FALSE /\ closer = "idle"
        /\ pc = "select" /\ resume = "select"
        /\ batch = <<>> /\ rows = <<>>
        /\ attempt = 0 /\ committed = 0 /\ chunk = 0
        /\ metrics = [enqueued |-> 0, dropped |-> 0, flushed |-> 0,
                      batches |-> 0, failed |-> 0, nonRetry |-> 0]
        /\ copies = [r \in Row |-> 0] /\ inDoubt = [r \in Row |-> 0]
        /\ fate = [r \in Row |-> "none"]
        /\ late = {} /\ unacked = {}

-----------------------------------------------------------------------------
(* Add: a select with a default, so the default is taken only when neither *)
(* other case is ready, and a ready case is taken at random.               *)

\* r is the next delivery of its query.
Arrives(r) == /\ Status(r) = "new"
              /\ \A o \in Row : Newer(r, o) => Status(o) # "new"

AddEnqueue(r) == /\ Len(ch) < BufferCapacity
                 /\ ch' = Append(ch, r)
                 /\ metrics' = [metrics EXCEPT !.enqueued = @ + 1]
                 /\ late' = IF stop THEN late \cup {r} ELSE late
                 /\ UNCHANGED fate

AddRefuse(r) == /\ stop \/ Len(ch) >= BufferCapacity
                /\ metrics' = [metrics EXCEPT !.dropped = @ + 1]
                /\ fate' = Settle(fate, {r}, "refused")
                /\ UNCHANGED <<ch, late>>

Add(r) == /\ Arrives(r)
          /\ AddEnqueue(r) \/ AddRefuse(r)
          /\ UNCHANGED <<stop, cancelled, closer, flusher, store, unacked>>

-----------------------------------------------------------------------------
(* flush, up to its first insert.  The batch is handed over as a whole.    *)
FlushBegin(b, back) ==
    /\ rows' \in dedupe(b)
    /\ fate' = Settle(fate, Range(b) \ Range(rows'), "superseded")
    /\ batch' = <<>> /\ attempt' = 0 /\ committed' = 0 /\ chunk' = 0
    /\ pc' = "insert" /\ resume' = back
    /\ UNCHANGED <<metrics, store, late, unacked>>

\* Mutant: a batch is flushed only once it is larger than BatchSize.
Collect_OffByOne(b, here) ==
    \/ Len(b) > BatchSize /\ FlushBegin(b, here)
    \/ /\ Len(b) <= BatchSize
       /\ batch' = b
       /\ UNCHANGED <<pc, resume, rows, attempt, committed, chunk, metrics, store, history>>

\* Mutant: a full batch is flushed without the row that filled it.
Collect_ForgetsRow(b, here) ==
    \/ Len(b) >= BatchSize /\ FlushBegin(SubSeq(b, 1, Len(b) - 1), here)
    \/ /\ Len(b) < BatchSize
       /\ batch' = b
       /\ UNCHANGED <<pc, resume, rows, attempt, committed, chunk, metrics, store, history>>

\* What run and drain do with the batch b after a row was appended to it.
Collect(b, here) ==
    \/ Len(b) >= BatchSize /\ FlushBegin(b, here)
    \/ /\ Len(b) < BatchSize
       /\ batch' = b
       /\ UNCHANGED <<pc, resume, rows, attempt, committed, chunk, metrics, store, history>>

(* run: the select loop of the flusher goroutine.                          *)
ReceiveAt(here) == /\ pc = here /\ ch # <<>>
                   /\ ch' = Tail(ch)
                   /\ Collect(Append(batch, Head(ch)), here)
                   /\ UNCHANGED <<stop, cancelled, closer>>

Receive == ReceiveAt("select")

\* Mutant: a tick flushes full batches only.
Tick_FullOnly == /\ pc = "select" /\ batch # <<>> /\ Len(batch) >= BatchSize
                 /\ FlushBegin(batch, "select")
                 /\ UNCHANGED <<shared, closer>>

\* A tick with nothing collected does nothing.
Tick == /\ pc = "select" /\ batch # <<>>
        /\ FlushBegin(batch, "select")
        /\ UNCHANGED <<shared, closer>>

\* Mutant: run returns on stop without draining the channel.
SeeStop_NoDrain == /\ pc = "select" /\ stop
                   /\ pc' = "exit"
                   /\ UNCHANGED <<shared, closer, resume, batch, rows, attempt, committed,
                                  chunk, metrics, store, history>>

SeeStop == /\ pc = "select" /\ stop
           /\ pc' = "drain"
           /\ UNCHANGED <<shared, closer, resume, batch, rows, attempt, committed,
                          chunk, metrics, store, history>>

(* drain, and the flush that run makes after it.                           *)
DrainReceive == ReceiveAt("drain")

DrainDone == /\ pc = "drain" /\ ch = <<>>
             /\ \/ batch # <<>> /\ FlushBegin(batch, "exit")
                \/ /\ batch = <<>> /\ pc' = "exit"
                   /\ UNCHANGED <<resume, batch, rows, attempt, committed, chunk,
                                  metrics, store, history>>
             /\ UNCHANGED <<shared, closer>>

\* The deferred calls of run: flushCancel, then close(done).
Exit == /\ pc = "exit"
        /\ pc' = "done" /\ cancelled' = TRUE
        /\ UNCHANGED <<ch, stop, closer, resume, batch, rows, attempt, committed,
                       chunk, metrics, store, history>>

-----------------------------------------------------------------------------
(* flush and insert: the chunks of the remaining rows, one InsertBatch     *)
(* each; an error ends the attempt.                                        *)

\* insert calls InsertBatch for the next chunk split gave it.
StartChunk == /\ pc = "insert"
              /\ chunk' \in 1..(Len(rows) - committed)
              /\ pc' = "inflight"
              /\ UNCHANGED <<shared, closer, resume, batch, rows, attempt, committed,
                             metrics, store, history>>

\* Mutant: a retry replays the whole batch.
Remainder_All(c) == rows

\* rows[committed:]
Remainder(c) == SubSeq(rows, c + 1, Len(rows))

\* Mutant: only the last chunk of an attempt is counted.
Flushed_LastChunk(c) ==
    IF c > 0 THEN [metrics EXCEPT !.flushed = @ + chunk, !.batches = @ + 1] ELSE metrics

\* metrics once an attempt of flush reported c rows.
Flushed(c) == IF c > 0 THEN [metrics EXCEPT !.flushed = @ + c, !.batches = @ + 1]
              ELSE metrics

\* flush returns to where it was called.
FlushReturn == pc' = resume /\ rows' = <<>> /\ committed' = 0 /\ chunk' = 0

\* InsertBatch returns nil: the next chunk, or the end of the flush.
InsertOk ==
    /\ pc = "inflight"
    /\ copies' = Bump(copies, Part(rows, committed + 1, committed + chunk))
    /\ LET c == committed + chunk IN
       \/ /\ c < Len(rows)
          /\ committed' = c /\ chunk' = 0 /\ pc' = "insert"
          /\ UNCHANGED <<rows, metrics, fate>>
       \/ /\ c = Len(rows)
          /\ metrics' = Flushed(c)
          /\ fate' = Settle(fate, Range(rows), "stored")
          /\ FlushReturn
    /\ UNCHANGED <<shared, closer, resume, batch, attempt, inDoubt, late, unacked>>

\* Mutant: one retry too many.
LeavesLoop_Late(err) == err = "nonretryable" \/ cancelled \/ attempt > MaxRetries

\* Whether flush leaves its loop after the error err.
LeavesLoop(err) == err = "nonretryable" \/ cancelled \/ attempt >= MaxRetries

\* InsertBatch returns err and reports k rows of the chunk committed.  The
\* statement after them was not acknowledged and may yet commit: m of its rows
\* are in doubt.  A non-retryable error means that it was rejected.
InsertFails(err, k, m) ==
    /\ pc = "inflight"
    /\ k < chunk /\ k + m <= chunk
    /\ err = "nonretryable" => m = 0
    /\ LET c     == committed + k
           doubt == Part(rows, c + 1, c + m)
           rest  == Range(Remainder(c))
           done  == Settle(fate, Part(rows, 1, c), "stored")
       IN  /\ copies' = Bump(copies, Part(rows, committed + 1, c))
           /\ inDoubt' = Bump(inDoubt, doubt)
           /\ unacked' = unacked \cup doubt
           /\ \/ /\ LeavesLoop(err)
                 /\ metrics' = [Flushed(c) EXCEPT
                      !.nonRetry = IF err = "nonretryable" THEN @ + 1 ELSE @,
                      !.failed = @ + 1,
                      !.dropped = @ + Len(Remainder(c))]
                 /\ fate' = Settle(done, rest, "lost")
                 /\ FlushReturn
              \/ /\ ~LeavesLoop(err)
                 /\ metrics' = Flushed(c)
                 /\ fate' = done
                 /\ rows' = Remainder(c)
                 /\ pc' = "backoff" /\ committed' = 0 /\ chunk' = 0
    /\ UNCHANGED <<shared, closer, resume, batch, attempt, late>>

\* Mutant: the attempts are not counted.
Retry_NoCount == /\ pc = "backoff"
                 /\ pc' = "insert"
                 /\ UNCHANGED <<shared, closer, resume, batch, rows, attempt, committed, chunk,
                                metrics, store, history>>

\* The backoff timer fires, or stop is closed, which cuts the wait short.
Retry == /\ pc = "backoff"
         /\ attempt' = attempt + 1
         /\ pc' = "insert"
         /\ UNCHANGED <<shared, closer, resume, batch, rows, committed, chunk,
                        metrics, store, history>>

\* External: the store finishes a statement nobody waits for any more.
LateCommit(r) == /\ inDoubt[r] > 0
                 /\ inDoubt' = [inDoubt EXCEPT ![r] = @ - 1]
                 /\ copies' = [copies EXCEPT ![r] = @ + 1]
                 /\ UNCHANGED <<shared, closer, flusher, metrics, history>>

-----------------------------------------------------------------------------
(* Close: close stop, wait for done; on a timeout cancel the flushes and   *)
(* wait again.                                                             *)

CloseCall == /\ closer = "idle"
             /\ stop' = TRUE /\ closer' = "waiting"
             /\ UNCHANGED <<ch, cancelled, flusher, metrics, store, history>>

CloseTimeout == /\ closer = "waiting"
                /\ cancelled' = TRUE /\ closer' = "cancelling"
                /\ UNCHANGED <<ch, stop, flusher, metrics, store, history>>

CloseReturn == /\ pc = "done" /\ closer \in {"waiting", "cancelling"}
               /\ closer' = IF closer = "waiting" THEN "ok" ELSE "err"
               /\ UNCHANGED <<shared, flusher, metrics, store, history>>

\* Nothing is left to happen; a stuttering step, so that deadlock means deadlock.
Terminated == /\ pc = "done" /\ closer \in {"ok", "err"}
              /\ \A r \in Row : Status(r) # "new" /\ inDoubt[r] = 0
              /\ UNCHANGED vars

-----------------------------------------------------------------------------
InsertReturn == \/ InsertOk
                \/ \E err \in {"retryable", "nonretryable"}, k, m \in 0..BatchSize :
                      InsertFails(err, k, m)

Flusher == \/ Receive \/ Tick \/ SeeStop \/ DrainReceive \/ DrainDone \/ Exit
           \/ StartChunk \/ InsertReturn \/ Retry

Next == \/ \E r \in Row : Add(r) \/ LateCommit(r)
        \/ Flusher
        \/ CloseCall \/ CloseTimeout \/ CloseReturn
        \/ Terminated

Spec == Init /\ [][Next]_vars

\* The goroutines run: a flusher that can move does (its ticker, its backoff and
\* the timeout of an InsertBatch all fire in the end), and so does a Close whose
\* wait is over.  Nobody has to send events or to call Close, and the store need
\* not finish a statement in doubt.
FairSpec == Spec /\ WF_vars(Flusher) /\ WF_vars(CloseReturn)

-----------------------------------------------------------------------------
(* Properties.                                                             *)

SharedType ==
    /\ ch \in Seq(Row) /\ Len(ch) <= BufferCapacity
    /\ stop \in BOOLEAN /\ cancelled \in BOOLEAN
    /\ closer \in {"idle", "waiting", "cancelling", "ok", "err"}

FlusherType ==
    /\ pc \in {"select", "drain", "insert", "inflight", "backoff", "exit", "done"}
    /\ resume \in {"select", "drain", "exit"}
    /\ batch \in Seq(Row) /\ Len(batch) < BatchSize
    /\ rows \in Seq(Row) /\ Len(rows) <= BatchSize
    /\ attempt \in 0..MaxRetries
    /\ committed \in Nat /\ chunk \in Nat /\ committed + chunk <= Len(rows)

Counters == [enqueued : Nat, dropped : Nat, flushed : Nat,
             batches : Nat, failed : Nat, nonRetry : Nat]

RecordType ==
    /\ metrics \in Counters
    /\ copies \in [Row -> Nat] /\ inDoubt \in [Row -> Nat]
    /\ fate \in [Row -> Fates]
    /\ late \subseteq Row /\ unacked \subseteq Row

\* The types, and the bounds the code relies on: a channel within its capacity, a
\* batch below BatchSize between two steps, a flush of at most BatchSize rows, and
\* a chunk inside the rows that remain.
TypeOK == SharedType /\ FlusherType /\ RecordType

\* Close loses nothing it was given: when the flusher is done, a row that is
\* neither stored, superseded nor dropped entered the channel after stop was
\* closed.  The drain loop, the flush after it and the exit race with Add.
NothingLeftBehind == pc = "done" => \A r \in Row : Status(r) = "accepted" => r \in late

\* A row reaches the store twice only after an InsertBatch that carried it went
\* unacknowledged: a retry replays rows[committed:] and nothing before it.
DuplicatesOnlyAfterLostAck == \A r \in Row : copies[r] > 1 => r \in unacked

\* However many acknowledgements are lost, the store never gets more copies of a
\* row than flush makes attempts.
AtMostOneCopyPerAttempt == \A r \in Row : copies[r] + inDoubt[r] <= MaxRetries + 1

\* dedupe gives up a row only for a later delivery of the same query that was
\* accepted too, and before any statement carried it.
SupersededByNewer ==
    \A r \in Row : fate[r] = "superseded" =>
        /\ copies[r] = 0 /\ inDoubt[r] = 0
        /\ \E n \in Row : Newer(n, r) /\ Status(n) \notin {"new", "refused"}

WithFate(o) == Cardinality({r \in Row : fate[r] = o})

\* The counters account for every row: what was enqueued was flushed, replaced by
\* a later delivery, given up, or is still on its way; what was dropped was
\* refused by Add or given up by flush.
CountersBalance ==
    /\ metrics.enqueued = metrics.flushed + WithFate("superseded") + WithFate("lost")
                          + Len(ch) + Len(batch) + Len(rows)
    /\ metrics.dropped = WithFate("refused") + WithFate("lost")
    /\ metrics.nonRetry <= metrics.failed

\* A settled row stays settled, and is written again only by a statement whose
\* acknowledgement was lost: no step after the decision resubmits it.
SettledIsFinal ==
    [][\A r \in Row : fate[r] # "none" =>
          fate'[r] = fate[r] /\ (copies'[r] > copies[r] => r \in unacked)]_vars

\* The buffer keeps the promise of RowLifecycle: no accepted row is forgotten,
\* and none reaches the table that was not accepted or was superseded.
Lifecycle == INSTANCE RowLifecycle WITH
                status <- [r \in Row |-> Status(r)],
                table <- {r \in Row : copies[r] > 0}

RefinesLifecycle == Lifecycle!Spec

\* Close returns, whatever the store does: every InsertBatch ends by its timeout
\* and the retries are bounded.
CloseReturns == (closer = "waiting") ~> (closer \in {"ok", "err"})

\* An accepted row does not wait for ever: it is settled by a full batch, by the
\* ticker or by the drain, unless it came after stop was closed.
AcceptedRowsSettle ==
    \A r \in Row : (Status(r) = "accepted" /\ r \notin late) ~> (fate[r] # "none")

\* metrics.go says that events_dropped_total counts the rows dropped because the
\* buffer is "full or closing".  A row that Add offers while Close runs should
\* then be counted as dropped or be written; none should remain in the channel.
ClosingRowsAreCounted == pc = "done" => \A r \in Row : Status(r) # "accepted"
=============================================================================
