# A TLA+ verification of trino-query-log-sink

The service receives a *query completed* event from Trino for every query, makes a
row of it and writes rows in batches to a table in Trino (Iceberg) or ClickHouse. A
UI, a JSON API and a CLI read the table back, through an optional Redis cache, and
separate jobs delete old rows and compact the table. This directory holds TLA+
models of the parts of the program that have state and concurrency, TLC instances of
them, and TLAPS proofs.

To check a run: `tlc -workers 2 -config buffer.cfg MCIngestBuffer`. To check
the proofs of a module: `tlapm IngestBuffer_proofs.tla`. `PROJECT.json` lists the
runs, the mutants that show each property can fail, the source lines of every
definition, the hazards and the theorems.

## 1. Inventory

| component | state | operations | hard behaviour |
|---|---|---|---|
| ingest buffer (`internal/ingest/buffer.go`) | a bounded channel, `stop`, `done`, a cancellable context, the flusher's batch | `Add` (handlers), `run`, `drain`, `flush`, `insert`, `dedupe` (flusher goroutine), `Close` | `Add` races with `Close`; chunks commit one by one; a failed insert may have been committed; bounded retries |
| chunking (`store/chunk.go`) | none | `chunkRows` | rows at and above the budget; a replay has to be cut like the first attempt |
| ClickHouse store (`store/clickhouse.go`) | the server's table, versions of a row, its window of tokens | `SplitBatch`, `InsertBatch`, `ListQueries`, `GetQuery`, `Prune` | a replayed INSERT is dropped only if its token is the same; a late INSERT gets a later version; prune is not atomic |
| Trino store (`store/trino.go`) | the table | `SplitBatch` with `clampRow`, `InsertBatch`, reads, `Prune`, `Optimize`, `Maintain` | rows have to be cut until a statement fits, without hanging the flusher; maintain goes on after an error |
| events and rows (`event/*.go`, `store/row.go`, `truncate.go`) | none | parsing of durations, plan policy, preview, truncation | rounding of floats, rune boundaries, markers, the order of the steps |
| process (`main.go`, `server/server.go`, `ingest.go`) | `ready`, counters, requests under way, open store | `run`, `runServer`, `handleIngest`, `RunReadiness`, `initDDL` | signal, server failure, shutdown, drain and probes interleave; two deadlines; init beside a running service |
| configuration (`config/config.go`) | none | `Load`, `validate` | values that a component would silently replace |
| read cache (`store/cache.go`, `cache/redis.go`) | entries with a TTL | cached `ListQueries` and `GetQuery` | a slow reader overwrites a fresher entry; absence; shared list keys |
| listing (`store/query.go`, `server/api.go`, `ui.go`, `querycli/list.go`) | none on the server; an offset or page held by the user | list, detail, the links between lists | offset paging over data that changes and is cached; clamps on both sides; a moving time range |
| jobs (`prune/prune.go`, `main.go`) | none; each run is a process | `prune`, `optimize`, `maintain` | overlap, failure between statements, midnight |
| query client (`querycli/*.go`) | none | one request, an exit code | scripts branch on the exit code |
| DDL, formatting, hotspots of a plan | none | pure | see *not modelled* |

How they interact: a handler calls `Buffer.Add`, which never blocks; the flusher calls
`SplitBatch` and `InsertBatch` of the store; `runServer` starts the readiness loop and
the HTTP server, and on a signal marks the service not ready, shuts the server down
and closes the buffer; readers go through the cache to the same store; the jobs talk
to the store only. All coordination in the process is by channels, atomics and
contexts.

What makes each part correct: an accepted row is settled exactly once and its fate is
counted; the store never gets a row twice unless an acknowledgement was lost, and on
ClickHouse not even then; chunks are complete and reproducible; a row fits its
statement and stays valid UTF-8; the process runs with what was set or not at all,
ends after a signal, and accounts for every row it does not write, in its exit code,
its counters or its log; cached answers are bounded in age, and the client's exit code tells what was there; paging passes over
nothing; the jobs delete what is too old and nothing else. Section 4 names the properties.

## 2. Modules

| module | models | kind |
|---|---|---|
| `RowLifecycle` | what the write path promises of one row | abstract specification |
| `Dedupe` | the result of `dedupe`, as a condition | operators |
| `DedupeLoop` | the loop of `dedupe` | algorithm |
| `IngestBuffer` | the buffer; refines `RowLifecycle`, uses `Dedupe` | component |
| `Chunks` | what a chunk is | operators |
| `ChunkRows` | the loop of `chunkRows`, uses `Chunks` | algorithm |
| `ClickHouseInsert` | flushes to ClickHouse with replays, tokens and versions, uses `Chunks` | composition |
| `Durations` | the parser of durations and its floats | operators |
| `RowSizing` | event to row, truncation and `clampRow`, uses `Durations` | algorithm |
| `Config` | from the environment to what the components run with | operators |
| `Serve` | the process from start to exit code, ingest handler, readiness loop, init job, uses `Config` | composition |
| `ReadCache` | a read: client, handler, read-through cache, store | composition |
| `Listing` | walks through the list, over the cache, and lookups | composition |
| `Retention` | prune, optimize and maintain | component |
| `MC...` | instances for TLC: rows, symmetry, input sets, environments, ids off their day | |
| `..._proofs` | theorems and proofs | |

Definitions whose name is that of another one with a suffix (`SeeStop_NoDrain`) are
*mutants*: plausible bugs of the definition after them. No specification uses them;
they exist to show that a property is able to fail.

### How state and actions correspond to the code

**IngestBuffer.** `ch`, `stop` and `cancelled` are the channel, the closed `stop`
and the cancelled `flushBase`; `batch` is the local of `run`, `rows`, `attempt` and
`committed` are those of `flush` and `insert`; `pc` and `resume` are the flusher's
position. `Add` is atomic, as a `select` is: it enqueues if there is room, may refuse
once `stop` is closed, and refuses when nothing else is ready. `Receive`, `Tick`,
`SeeStop` are the cases of `run`; `DrainReceive`, `DrainDone`, `Exit` are `drain` and
what follows. A flush is `FlushBegin` (with `dedupe`), then for each chunk
`StartChunk` and `InsertOk` or `InsertFails(err, k, m)`, where `InsertBatch` reports
`k` rows and leaves `m` rows in doubt; `LateCommit` is the store finishing such a
statement. `Retry` is the end of the backoff. Time is abstract. The length of a chunk
is free, so the results hold for both stores. `fate`, `late` and `unacked` are history.

**DedupeLoop** and **ChunkRows** take one row per step. Rows of `ChunkRows` are given
by cumulative estimates, which keeps sizes free of recursion.

**ClickHouseInsert.** `InsertChunk` cuts the next chunk as `ChunkRows` does (theorem
`LoopMakesTheChunks`), `Send_Ok` and `Send_Fails` are the outcomes of `batch.Send`, and
`Execute` is the server, with its window of tokens. A token stands for the rows of its
chunk and their version: `batchToken` hashes all columns. Every flush (`NextFlush`)
delivers the same queries, in the same version or a newer one; `shown` is the version
that a read with `FINAL` finds, which is the one written last, because the server sets
`ingested_at` when it runs an INSERT. `LateExecute` may run an INSERT in doubt during a
later flush. A flush may give up early, when `Close` cancels it. One process writes:
the window of tokens is shared by all replicas, and what other writers push out of it
is not modelled.

**Durations.** A text is a sequence of tokens; `Scan` is one round of the parser's loop.
Floats keep their rounding at a smaller scale: 12 binary digits and 100 ticks to a
second instead of 53 and 10^9, so that TLC meets every way a product can round.

**RowSizing.** Strings are sequences of byte classes, so that rune boundaries, quotes
and white space are real. A row has one large field the plan policy may drop, one
large field and one small field. The marker counts in base `Radix` so that the number
of digits changes within short strings. `clampRow` takes one round per step.

**Config.** The environment gives each variable nothing, something that does not
parse, or a value. `LoadOk` is `Load` with `validate`; `New`, `NewTrino` and `NewClickHouse` are the
values the components use after their own defaults.

**Serve.** `main`, `probe` and `request` are the positions of `run` and `runServer`, of
the readiness loop and of each handler. The buffer is reduced to its phase and the
number of rows in it. `Flush(n)` writes rows and `GiveUp(n)` drops them, for any of the
reasons `flush` has; `DrainDone` is the moment from which nobody receives from the
channel, so that a row that `Add` still enqueues is `left` there, and `Drained` is the
exit of the flusher; that it happens is `CloseReturns` of `IngestBuffer`. `DrainTimesOut`
is the deadline of `Close`, which cancels the flush under way; `CloseReturns` then logs
an error and the exit code stays 0. `CloseStore` is the deferred `st.Close`, after which
the flusher may still run until `Exit`. The requests are for different queries, so that
no row replaces another. The init job creates the schema and then the table, and may fail anywhere.
Deadlines may expire at any step.

**ReadCache.** A reader asks the cache (`Hit`, `Miss`), then the store (`Query`,
`QueryFails`), then writes the cache (`Set`). `Miss` is possible at any time: a cache
error is a miss. `Key` truncates to the TTL and then to whole seconds, as `listKey`
does. `GetQuery` says what either store returns if the query, the stream of
rows or the scan fails, `Status` what the handler makes of it, `getJSON` and `Main`
what the client does. The clock cannot pass a reader that has held an answer for
`Latency`.

**Listing.** `RunList` is a call of `query list` with the offset that the previous
one printed; `Dashboard` is a page of the UI reached by its next link; `SortLink`, `TopHref`
and `FailedHref` lead to another list. Each page comes from the store or from an entry
of the cache, which `OtherReader` and the walk itself fill. Rows are stored (`Store`),
pruned (`Prune`) and leave the range (`Tick`) in between. `Query` gives the query of each
row: on Trino several rows may be copies of one, which a lost acknowledgement or a second
delivery leaves behind (`IngestBuffer` shows when), and `ListQueries` lists them all; on
ClickHouse a read with `FINAL` shows one, and `Query` is injective. Copies have equal
columns, so that their order among themselves cannot be seen. The histories `gone` and
`forth` say why a row may have moved to a page that was read already.

**Retention.** Each run of prune is a process with its own cutoff; on ClickHouse it
lists partitions and drops them one by one. `PruneFails` covers errors, kills and
deadlines, with the last statement run or not. `Store` puts rows into any day.
`maintain` is two statements; of the snapshots and files it is there for the model
follows one at a time, any one (`relic`), so that what holds of it holds of all.

## 3. Runs

| run | module | instance | states | shows |
|---|---|---|---|---|
| `buffer` | `MCIngestBuffer` | a query delivered twice, another once; capacity 1, batches of 2, 1 retry | 575,255 | nothing is lost, resubmitted or miscounted; superseded rows; `RowLifecycle` is implemented; `Close` returns and accepted rows settle |
| `buffer_closing` | `MCIngestBuffer` | 1 query, no retry | *violation* | finding 1 |
| `dedupe_loop` | `MCDedupeLoop` | all batches of up to 5 rows of 3 queries | 2,005 | the loop computes `dedupe`, which is unique |
| `chunk_rows` | `MCChunkRows` | all parts of 5 rows of sizes 1 to 4, budget 3 | 78,848 | chunks are contiguous and greedy |
| `clickhouse_insert` | `MCClickHouseInsert` | 2 flushes of 3 rows of sizes 1 to 3, in 1 or 2 versions; budget 3, 2 retries, window 6 | 3,687,953 | no row twice, none skipped, the newest shown |
| `serve` | `MCServe` | 1,945 environments; 2 requests; both readiness modes, with and without ingest | 311,610 | configuration, shutdown, readiness; safety and liveness |
| `cache` | `MCReadCache` | 2 readers, of a list or of a query; TTL 3, a second of 2, latency 1, 5 ticks | 857,360 | answers bounded in age; exit codes |
| `row_sizing` | `MCRowSizing` | texts of up to 6 and plans of up to 7 bytes; durations of up to 3 parts or 1000 ticks | 611,897 | fields are cut where they may be; rows fit; slow queries keep their plans |
| `row_sizing_plans` | `MCRowSizing` | a threshold of 210 ticks | *violation* | finding 3 |
| `listing` | `MCListing` | 2 queries with ids a day off `create_time`, one of them with a copy; 4 lists; pages of 1 and 2, walks of 3 pages | 1,031,080 | paging passes over nothing; the detail of a row shown is found |
| `listing_offsets` | `MCListing` | 3 queries, a maximal offset of 1 | *violation* | finding 2 |
| `retention` | `MCRetention` | either backend; 2 rows, 4 days of 2 ticks, 2 pruners | 918,304 | the jobs delete what is too old and nothing else, and maintain leaves nothing behind |

*Why the bounds are enough.* A row interacts with at most its chunk, the chunk before
it and another delivery of its query: three rows, two of them of one query, in batches
of two give full and partial batches, batches that shrink in `dedupe`, one and two
chunks, partial commits and a row left in the channel; one retry separates the first,
the last and no further attempt; capacity 1 makes the channel full at once. Three rows
against a budget of three give chunks of one to three rows; `chunk_rows` has rows above
the budget too. Two retries replay a replay, and two flushes are an older and a newer
delivery. The environments of `serve` set, on both backends, each variable to a value
on either side of every bound, and each pair of variables whose rules name one another.
Two requests are one that is answered and one that stalls; two readers are a slow one
and a fresh one; a TTL of one and a half seconds makes buckets that do not begin with a
second. The limits of `listing` are lower than one walk goes, so that the clamps of the
page size and of the page number are reached, and that of the CLI's offset in
`listing_offsets`; three rows are one that is shown, one that goes away and one that
moves up, and as long as the copy is not stored they are rows of different queries. Days of two ticks with jobs of one tick put a midnight inside a job. Symmetry is used only in
`cache` and `retention`, where readers, runs of prune and rows are compared for
equality only, and the runs check no liveness.

*Fairness.* `IngestBuffer` assumes weak fairness of the flusher, whose ticker, backoff
and insert timeouts fire in the end (`InsertBatch` gets a context with a timeout, and
the drivers honour it), and of a `Close` whose wait is over. `Serve` assumes it of
`runServer`, of the flusher and of the readiness loop, for the same reasons. Clients, signals, the init job
and the store are never assumed to do anything.

*Deadlock* is checked except in the two runs of `Listing`, where a walk really ends
when there is no next page.

## 4. Properties

- `NothingLeftBehind`: when the flusher is done, only rows that came after `stop` was
  closed are unsettled. `DuplicatesOnlyAfterLostAck`, `AtMostOneCopyPerAttempt`,
  `SettledIsFinal`: what a retry may write again. `SupersededByNewer`: what dedupe may
  give up. `CountersBalance`: the counters add up. `RefinesLifecycle`: the buffer
  implements the abstract specification. `CloseReturns`, `AcceptedRowsSettle`: liveness.
- `LoopIsDedupe`, `Contiguous`, `ChunksAreGreedy`: the algorithms against their
  definitions. `ReplaysAreDropped`, `CommittedIsWritten`: a ClickHouse flush writes
  every committed row once. `NewestIsShown`: a read never shows an older version than
  one that was acknowledged, unless an INSERT in doubt of an earlier flush came late.
- `WhatIsSetRuns`: the serving process refuses its environment or runs with what was set;
  `ingest.New` and the constructors of the stores replace no value, except an unlimited
  `TRINO_QUERY_TIMEOUT`.
- `LossIsReported`: what exit code 0 says. It does not say that every row was written: a
  batch that was given up, and a drain that ran out of time, end with 0. But every row
  that was not written is counted as dropped, or was brought by a request that
  `Shutdown` gave up on; none was left to a store that was already closed; and what the
  deadline of `Close` cut short comes with its line in the log.
  `EventsAccounted`, `NoRowAfterDrain`, `AtMostOneRevival`, `SignalEndsProcess`: requests,
  drain and signal. `ReadyFollowsStore`: readiness beside the init job.
- `BoundedStaleness`, `ListFromItsBucket`: the age of an answer from the cache. A list is
  less than `CACHE_LIST_TTL` old, unless that is below a second: then less than a second
  more, because the key has whole seconds. `ExitCodeTells`: exit code 4 means
  that the query was not there when the client asked, and 0 comes with its row.
- `FieldsValidAndCapped`, `PreviewOfWholeText`, `ClampFits`, `EarlierFieldsFirst`: rows.
  `WallTimeToTheMillisecond`, `SlowPlansKept`: how far the rounding of durations goes,
  and what it may do to the plan policy.
- `NoRowPassedOver`: a row that was there all along is passed over only if a row in
  front of it went away, which in the default order takes a page from the cache that
  is older than the one before. `LastPageIsLast`, `NextLeadsOn`, `EveryRowOpens`: the
  ends of a walk, its links, and the detail of every row. A next page shows a row not
  shown before; on Trino, a small page may have nothing but a copy of one that was.
- `SuccessIsComplete`, `RetainedRowsSurvive`, `JobsAreDisjoint`, `MaintainedIsClean`: the
  jobs.

### Findings

1. *A row accepted while closing can vanish* (`buffer_closing`). `Add` may choose the
   channel although `stop` is closed, even after the drain; the row is counted as
   enqueued, but neither written nor counted as dropped, which the help text of
   `events_dropped_total` promises. It needs a handler that outlives the 25 seconds of
   `Shutdown` (`NoRowAfterDrain` shows that nothing else reaches it).
2. *The offset hint of `query list` ends in a loop* (`listing_offsets`): beyond
   `apiMaxOffset` the server clamps the offset silently, and every call shows the same
   page and prints the same hint.
3. *A query at the threshold may lose its plan* (`row_sizing_plans`). The README of the
   repository says that `slow_or_failed` keeps plans from "wall time ≥
   `PLAN_CAPTURE_MIN_WALL`" on. `PT1.001S` is parsed as 1000 ms, and is not slow for a
   threshold of `1.001s`. `SlowPlansKept` states what does hold: from a millisecond
   above the threshold on.

Seen while modelling, with no run of its own:

- A drain that runs into the 20 seconds of `Close` is logged ("buffer drain incomplete;
  some events may be lost") and the process still exits with 0, so a supervisor cannot
  tell it from a complete one.
- `optimizeWindowStart` takes `OPTIMIZE_DAYS=0` for 1, which `validate` lets through; it
  is in `Retention`, outside of `WhatIsSetRuns`.
- `batches_flushed_total` is also incremented for a batch of which only some chunks were
  committed before it was given up, so it is no count of complete batches.
- `validate` does not look at `TRINO_QUERY_TIMEOUT`; with 0 or less a query to Trino has
  no limit of its own, and a flush has one of 30 seconds (`WhatIsSetRuns` names it).
- An instance without the UI role answers 404 to the API, which the client reports as
  *query not found*, exit code 4; `ExitCodeTells` is about instances that serve the API.
- In orders other than newest first a row that is stored, pruned or leaves the range can
  make a walk pass over another one, without any cache; offset paging cannot do better.

## 5. Proofs

The proofs hold for every value of the constants that satisfies their assumptions.
Those are named in the module that declares the constants, and are what `New`,
`config.validate`, the constants of the code and the deadlines of its contexts enforce;
TLC evaluates them on every run.

**IngestBuffer_proofs.** `TypeCorrect` proves `Spec => []TypeOK`, including the bounds
on the channel, the batch and the flush. The invariant is split by variable group, and
strengthened by what ties the position of the flusher to its locals: a chunk is
under way only at `inflight`, there are rows at `insert` and `backoff`, and a result
of `dedupe` is no longer than its argument. `CloseDrains` proves `NothingLeftBehind`.
It is not inductive: that the channel is empty when the flusher exits holds only up to
the rows in `late`. The strengthening says that from the moment the drain has seen an
empty channel every row in it came after `stop`, that `batch` and `rows` are empty at
`exit` and `done`, and that `stop` is closed from `drain` on.

`RetryIsExact`, `CopiesBounded` and `SettledForGood` prove
`DuplicatesOnlyAfterLostAck`, `AtMostOneCopyPerAttempt` and `SettledIsFinal`. None is
inductive: whether writing a row again makes a second copy depends on where the row is.
`HeldOnce` says that a row is in the buffer at most once (channel, batch and flush have
no repetitions and share no row) and that nothing is decided about it while it is
there; it rests on `dedupe` returning distinct rows. `CopiesInv` then bounds the copies
of a row, written or in doubt, by its place: none before its flush, at most `attempt`
for a row that the attempt has still to write, one more once it was written or failed.

`CountersAccount` proves `CountersBalance`. The counters are compared with the
cardinalities of sets of rows; `HeldOnce` makes the length of a sequence the number of
its rows, and every step moves a set of rows, disjoint from the rest, from one
counter to another. That these sets are finite is part of the invariant: `Row` itself
may be infinite.

`BufferImplementsLifecycle` proves `RefinesLifecycle`
and `SupersededIsReplaced` proves `SupersededByNewer`. The invariant adds the order of
the deliveries of a query in the channel and the batch, so that the row `dedupe` keeps
is the newer one, that deliveries are offered in order, and that what an attempt
reported is in the table. `StepEffect` sorts the steps into `Add`, which maps to `Accept`
or `Refuse`, and all others, which map to `Progress` or to a stuttering step.
The assumption used is that `ver` numbers the deliveries of a query.

**DedupeLoop_proofs.** `LoopDedupes` proves `LoopIsDedupe`: after every row the result
of the loop is one that `Dedupe` allows, and the only one. The invariant says that
`seen` is an index of `out`, that each row of `out` is the last of its query, and that
the queries are in the order in which they were first met. `DedupeUnique` counts: the
place of a query in any allowed result is the number of queries first met no later.

**ClickHouseInsert_proofs.** `NothingWrittenTwice`, `AcknowledgedIsWritten` and
`ReadsShowNewest` prove `ReplaysAreDropped`, `CommittedIsWritten` and `NewestIsShown`.
The heart is that a retry cuts a batch where the first attempt did.
`GreedyChunkUnique` (a first row has one greedy chunk) and `ChunkNotCutAgain` (a chunk
that is split again is one chunk) give it: every attempt resumes at a cut of the whole
batch (`SendInv`), so two chunks of one version that share a row are equal, and so are
their tokens. `TokenInv` and `CopiesInv` then say that tokens and rows of the table stand
for each other, and `ShownInv` ties both to what was acknowledged and what a read shows.
The assumption that carries weight is `WindowAssumption`: the server has not forgotten a
token while its INSERT can still be replayed.

The last section is about the loop, `ChunkRows`. `ChunksContiguous` and
`ChunksGreedy` prove `Contiguous` and `ChunksAreGreedy`; the invariant says that `size`
is the size of the rows `from..next-1`, which fit, and that the last chunk ends where the
current one begins. `LoopMakesTheChunks` joins the two models: each chunk the loop has
made is the one that `InsertChunk` sends from its first row on.

**Serve_proofs.** `DrainIsLast`, `LossesAreReported` and `ReadyDoesNotFlap` prove
`NoRowAfterDrain`, `LossIsReported` and `AtMostOneRevival` from one invariant: the order
in which handlers, buffer and store end (`OrderInv`) and, at each point of it, who may
still bring rows and what became of those that came (`RowsInv`). `LossesAreReported` adds
`RowsCounted`: the rows offered are those written, dropped, held and left in the channel. `EventsAreAccounted` proves `EventsAccounted`; each step of a
handler moves its request into or out of the finite set that is being handled.
`WhatIsSetIsRun` proves `WhatIsSetRuns` for every environment, that is, for every value of
each variable, parsable or not (`IsEnvironment`), by following each through `Load`,
`validate`, `New` and the constructors.

**ReadCache_proofs.** `StalenessBounded`, `ListsAreOfTheirBucket` and `ExitCodeIsTrue` prove
`BoundedStaleness`, `ListFromItsBucket` and `ExitCodeTells`. The invariant bounds the
age of an entry by its expiry rather than by the clock, since a late `Set` starts the
TTL anew, and says of every reader how old what it holds may be at each of its steps.
For lists it says that an entry is less than `KeySpan` older than any request with its
key (`SameKey`): equal keys are equal seconds of multiples of the TTL, and such multiples
are equal when the TTL is at least a second.

**Retention_proofs.** `PruneIsComplete`, `MaintainIsComplete`, `OptimizeAndPruneApart` and
`PruneKeepsRetained` prove `SuccessIsComplete`, `MaintainedIsClean`, `JobsAreDisjoint` and
`RetainedRowsSurvive`. The invariant keeps, of a run under way, that it
began less than a day ago, that its cutoff is the one of the time it began, and what of
the rows it found it has still to delete. With `JobAssumption` (the deadlines of 10 and
30 minutes are less than a day) at most one midnight passes during a run, which is what
separates the jobs. The lemmas relate days, midnights and cutoffs.

**Listing_proofs.** `RowsOpen`, `PagingPassesOverNothing` and `LastPageEndsTheList` prove
`EveryRowOpens`, `NoRowPassedOver` and `LastPageIsLast`, for tables with any number of
copies. A list is reasoned about by
*rank*, the number of its rows that come before a row: `orderBy` is a strict total order
on distinct rows, copies included, so ranks number a finite list without gaps, the sorted
sequence exists, and a page is the rows of a range of ranks. The invariant
(`ListingInv`) relates the lists that cache entries and pages were made from: of two,
the later one has all of the earlier one that is at least as new as what they share
(`MadeInv`), which holds because rows are only appended at the present and leave at the
old end. So in the default order ranks only grow from page to page, unless the cache
goes back. `ShownInv` says of a row that was there all along,
undisturbed and unseen, that it is behind all that was shown and not in front of the
offset that is asked for next.

`NextLeadsOn` is not an invariant (finding 2). `NextPageLeadsOn` proves
`NextLeadsOn \/ AtLastOffset`: the loop that `listing_offsets` shows is the only way in
which it fails.

**RowSizing_proofs.** `FieldsStayValid`, `PreviewIsOfWholeText`, `ClampedRowFits` and
`EarlierFieldsCutFirst` prove `FieldsValidAndCapped`, `PreviewOfWholeText`, `ClampFits`
and `EarlierFieldsFirst` for strings of any length.

- `Digits` is a recursive function, and nothing is known of it until it is shown that its
  recursion has a solution (`UptoExists`, `UptoAgree`, `DigitsStep`). In place of an
  induction rule, which the provers cannot instantiate, each such lemma takes the least
  counterexample (`Least`, from `WFMin`). `DigitsGrow` is why a marker sized for the whole
  string never exceeds the limit when it is written with the smaller count.
- `SafeCut` says that `runeSafeCut` goes back by at most one byte and `Truncated` what
  `truncate` returns: valid UTF-8, within the limit, no longer than the string, with no
  further quotes. `Squeezed` says that joining words with single spaces tears no rune: the
  places of the bytes kept are counted as the ranks in `Listing_proofs`.
- `ClampInv` is the argument for `clampRow`. A cut adds no quotes, so a round either brings the
  row within the budget or at least halves its longest field.
  While the row is too large there are therefore still as many rounds left as its fields
  can be halved (`RowRounds`); `IterationsAssumption` gives that at the start. So the loop
  ends neither stuck nor out of rounds. `EstimateIsExact` shows that what it measures are
  the bytes that are written.
- `PlansKeptIfTimeIsExact` proves `SlowPlansKept` from `WallTimeToTheMillisecond`, for a
  threshold of at least a millisecond.

The assumptions used: texts are valid UTF-8 (`EventsAssumption`), and the rounds suffice
to halve each field to nothing (`IterationsAssumption`; the code has 1000 rounds for 21
fields of at most 32 MB, which takes 546).

*Only model-checked:*

- the liveness properties (`CloseReturns`, `AcceptedRowsSettle`, `SignalEndsProcess`,
  `ReadyFollowsStore`), since TLAPS has no rule for fairness and ENABLED here;
- `WallTimeToTheMillisecond` of `RowSizing`, and with it the premise of
  `PlansKeptIfTimeIsExact`: it depends on how many digits a float has for the durations
  there are, and holds for the values of the code, not for all; the parser is a fold
  over a text and the floats are powers, of which the provers know nothing.

## 6. Not modelled

- SQL text and the lists of columns, logging, the text of `/metrics`, templates, number
  formats, flags, and `parseHotspots` of `query plan`: pure functions from data to
  text, with no state, no concurrency and no failure of their own.
- The names, addresses and passwords among the settings, which are passed on as they
  are; `Config` has the others.
- The counters of the cache, and the gauges of the buffer.
- The columns of a row that are copied. `RowSizing` keeps one string column of each kind.
- Several writing replicas: they share the tokens and the table of ClickHouse. The
  results of `ClickHouseInsert` are about one.
- The sort keys other than `start` and `wall` and the filters other than the state; the
  code treats them alike. The link back to the previous page.
- Copies of a row that differ: a redelivered event has the columns it had. After a restart
  with other settings a copy on Trino may be cut elsewhere.
- Lookups of ids without a date in front, which `GetQuery` answers with nothing; the ids
  of Trino have one. A prune between the question of a reader and the answer.
- The overflow of an int64 by durations of centuries.
- Walks over a cache with a `CACHE_LIST_TTL` below a second, whose buckets may share keys:
  `ReadCache` has them, `Listing` does not.
- A Trino without `TRINO_QUERY_TIMEOUT`: `Latency` in `ReadCache` supposes that one is set.
- Time inside a flush (backoff and timeouts fire, but have no length).

## 7. Plan

1. Done: the write path (`RowLifecycle`, `Dedupe`, `IngestBuffer`, `Chunks`,
   `ChunkRows`, `ClickHouseInsert`, `Durations`, `RowSizing`), the process (`Config`,
   `Serve`), the read path (`ReadCache`, `Listing`), the jobs (`Retention`); versions of
   a row in ClickHouse, walks over the cache, the client's exit codes, maintain.
2. Done: every safety property that a run checks is proved, except
   `WallTimeToTheMillisecond`; `NextLeadsOn` up to the largest offset.
3. Left to model, of less weight: two writers that share ClickHouse's window of tokens;
   `Serve` over `IngestBuffer` itself in place of the abstract buffer.
