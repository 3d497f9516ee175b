------------------------------- MODULE Serve --------------------------------
(***************************************************************************)
(* The serving process from its start to its exit: run and runServer       *)
(* (cmd/trino-query-log-sink/main.go), the ingest handler and the          *)
(* readiness loop (internal/server), beside the init job that creates the  *)
(* table it writes to.  The buffer is taken as IngestBuffer describes it:  *)
(* it is open until Close has drained it, Close returns, and the flusher   *)
(* takes the rows out, writes them or gives them up.  Deadlines may expire *)
(* at any step.                                                            *)
(***************************************************************************)
EXTENDS Integers, FiniteSets, Config

CONSTANTS Requests,    \* POST /ingest requests, for different queries
          Envs         \* environments the process may be started in

ASSUME RequestsAssumption == IsFiniteSet(Requests)
ASSUME EnvsAssumption == \A e \in Envs : IsEnvironment(e)

VARIABLES
    env,        \* the environment, until it is read
    ingest,     \* server.Options.Ingest: serve and ingest; FALSE for ui
    mode,       \* READINESS_MODE
    main,       \* where run and runServer are
    exit,       \* its exit code
    signalled,  \* SIGTERM was received: ctx is done
    timedOut,   \* httpSrv.Shutdown gave up on requests under way
    store,      \* the connections of the store: "none", "open" or "closed"
    logged,     \* "buffer drain incomplete; some events may be lost" was logged
    buffer,     \* "none", "open", "closing" (stop is closed), "emptied" (the drain has
                \* found the channel empty) or "drained" (the flusher has exited)
    cancelled,  \* Close has cancelled flushBase
    pending,    \* rows in the buffer that the flusher has or will receive
    left,       \* rows in the channel that nobody receives any more
    spoiled,    \* history: rows given up when the store was already closed
    cutShort,   \* history: rows given up after flushBase was cancelled
    request,    \* where each request is
    count,      \* the counters of observability.Metrics
    afterDrain, \* history: rows offered to a buffer that was already emptied
    ready,      \* Server.ready
    probe,      \* where the readiness loop is
    reachable,  \* environment: the backend answers
    ddl,        \* environment: what init has created: "none", "schema" or "table"
    initJob     \* where the init job is

settings == <<env, ingest, mode>>
procVars == <<settings, main, exit, signalled, timedOut, store, logged>>
rowVars == <<pending, left, spoiled, cutShort>>
bufVars == <<buffer, cancelled, rowVars>>
httpVars == <<request, count, afterDrain>>
probeVars == <<ready, probe>>
backend == <<reachable, ddl, initJob>>
vars == <<procVars, bufVars, httpVars, probeVars, backend>>

Init == /\ env \in Envs /\ ingest \in BOOLEAN /\ mode = "connection"
        /\ main = "loading" /\ exit = 0 /\ signalled = FALSE /\ timedOut = FALSE
        /\ store = "none" /\ logged = FALSE /\ buffer = "none" /\ cancelled = FALSE
        /\ pending = 0 /\ left = 0 /\ spoiled = 0 /\ cutShort = 0
        /\ request = [q \in Requests |-> "none"]
        /\ count = [received |-> 0, invalid |-> 0, suppressed |-> 0, offered |-> 0,
                    flushed |-> 0, dropped |-> 0]
        /\ afterDrain = 0
        /\ ready = FALSE /\ probe = "none"
        /\ reachable \in BOOLEAN /\ ddl \in {"none", "table"} /\ initJob = "idle"

Running == main \notin {"loading", "opening", "returned"}

\* A request the server has to answer.
Active(q) == request[q] \in {"decoding", "adding"}

-----------------------------------------------------------------------------
(* handleIngest.                                                           *)

\* net/http accepts connections until Shutdown closes the listener; without the
\* ingest role there is no such route.
Accept(q) == /\ main \in {"serving", "marking"} /\ ingest
             /\ request[q] = "none"
             /\ request' = [request EXCEPT ![q] = "decoding"]
             /\ count' = [count EXCEPT !.received = @ + 1]
             /\ UNCHANGED <<procVars, bufVars, afterDrain, probeVars, backend>>

\* What a body may hold: JSON or not, with or without a query id and a create time,
\* caused by this service ("own"), by another or by nobody it names.
Body == [json : BOOLEAN, id : BOOLEAN, created : BOOLEAN, source : {"none", "own", "other"}]

Validate(e) == e.id /\ e.created

SourceValue(e) == IF e.source = "none" THEN "" ELSE e.source

\* Malformed or invalid, to be suppressed, or to become a row.
Kind(e) == CASE ~(e.json /\ Validate(e)) -> "bad"
             [] e.json /\ Validate(e) /\ SourceValue(e) = "own" -> "own"
             [] OTHER -> "row"

\* Mutant: an event the service caused itself is answered without being counted.
Decode_Uncounted(q, kind) ==
    /\ Running /\ request[q] = "decoding"
    /\ \/ /\ kind = "bad"
          /\ count' = [count EXCEPT !.invalid = @ + 1]
          /\ request' = [request EXCEPT ![q] = "answered"]
       \/ /\ kind = "own"
          /\ request' = [request EXCEPT ![q] = "answered"]
          /\ UNCHANGED count
       \/ /\ kind = "row"
          /\ request' = [request EXCEPT ![q] = "adding"]
          /\ UNCHANGED count
    /\ UNCHANGED <<procVars, bufVars, afterDrain, probeVars, backend>>

\* The body is read and checked.  A client that stalls ends as malformed when
\* ReadTimeout expires.
Decode(q, kind) ==
    /\ Running /\ request[q] = "decoding"
    /\ \/ /\ kind = "bad"
          /\ count' = [count EXCEPT !.invalid = @ + 1]
          /\ request' = [request EXCEPT ![q] = "answered"]
       \/ /\ kind = "own"
          /\ count' = [count EXCEPT !.suppressed = @ + 1]
          /\ request' = [request EXCEPT ![q] = "answered"]
       \/ /\ kind = "row"
          /\ request' = [request EXCEPT ![q] = "adding"]
          /\ UNCHANGED count
    /\ UNCHANGED <<procVars, bufVars, afterDrain, probeVars, backend>>

\* Nobody receives from the channel any more.
Emptied == buffer \in {"emptied", "drained"}

\* buf.Add, then 202.  The row goes into the channel, even when nobody receives it any
\* more, or is refused: the channel is full, or stop is closed.
AddRow(q) == /\ Running /\ request[q] = "adding"
             /\ request' = [request EXCEPT ![q] = "answered"]
             /\ \/ /\ count' = [count EXCEPT !.offered = @ + 1]
                   /\ pending' = IF Emptied THEN pending ELSE pending + 1
                   /\ left' = IF Emptied THEN left + 1 ELSE left
                \/ /\ count' = [count EXCEPT !.offered = @ + 1, !.dropped = @ + 1]
                   /\ UNCHANGED <<pending, left>>
             /\ afterDrain' = IF Emptied THEN afterDrain + 1 ELSE afterDrain
             /\ UNCHANGED <<procVars, buffer, cancelled, spoiled, cutShort, probeVars, backend>>

\* The flusher writes n rows, a batch or as much of it as was committed.  An INSERT
\* that is under way when flushBase is cancelled may still be answered.
Flush(n) == /\ Running /\ buffer \in {"open", "closing", "emptied"} /\ store = "open"
            /\ pending' = pending - n
            /\ count' = [count EXCEPT !.flushed = @ + n]
            /\ UNCHANGED <<procVars, buffer, cancelled, left, spoiled, cutShort, request, afterDrain,
                           probeVars, backend>>

\* It drops n rows: the retries are exhausted, the error is final, or flushBase is
\* cancelled.  With the store closed under it there is nothing it can write to.
GiveUp(n) == /\ Running /\ buffer \in {"open", "closing", "emptied"}
             /\ pending' = pending - n
             /\ count' = [count EXCEPT !.dropped = @ + n]
             /\ spoiled' = IF store = "closed" THEN spoiled + n ELSE spoiled
             /\ cutShort' = IF cancelled THEN cutShort + n ELSE cutShort
             /\ UNCHANGED <<procVars, buffer, cancelled, left, request, afterDrain, probeVars, backend>>

-----------------------------------------------------------------------------
(* RunReadiness.                                                           *)

\* What Validate, or ValidateTable, finds out.
Valid == reachable /\ (mode = "table" => ddl = "table")

\* ctx is done: a signal came, or runServer has run its deferred stop.
CtxDone == signalled \/ store = "closed"

\* Mutant: a probe does not inherit ctx.
ProbeStarts_Background ==
    /\ Running /\ probe = "waiting"
    /\ probe' = "validating"
    /\ UNCHANGED <<procVars, bufVars, httpVars, ready, backend>>

\* Validate returns and check stores its answer.  ctx reaches the store, so a probe
\* that starts once ctx is done cannot succeed; one that was answered before
\* may still be about to store TRUE.
ProbeStarts == /\ Running /\ probe = "waiting"
               /\ probe' = IF CtxDone THEN "doomed" ELSE "validating"
               /\ UNCHANGED <<procVars, bufVars, httpVars, ready, backend>>

ProbeOk == /\ Running /\ probe = "validating" /\ Valid
           /\ ready' = TRUE /\ probe' = "waiting"
           /\ UNCHANGED <<procVars, bufVars, httpVars, backend>>

\* Mutant: a failed probe leaves ready alone.
ProbeFails_KeepsReady ==
    /\ Running
    /\ probe = "doomed" \/ (probe = "validating" /\ (~Valid \/ CtxDone))
    /\ probe' = "waiting"
    /\ UNCHANGED <<procVars, bufVars, httpVars, ready, backend>>

ProbeFails ==
    /\ Running
    /\ probe = "doomed" \/ (probe = "validating" /\ (~Valid \/ CtxDone))
    /\ ready' = FALSE /\ probe' = "waiting"
    /\ UNCHANGED <<procVars, bufVars, httpVars, backend>>

\* The loop sees ctx.Done.
ProbeStops == /\ Running /\ probe = "waiting" /\ CtxDone
              /\ probe' = "stopped"
              /\ UNCHANGED <<procVars, bufVars, httpVars, ready, backend>>

handleReadyz == IF ready THEN 200 ELSE 503

-----------------------------------------------------------------------------
(* initDDL, which may be run again at any time, and the backend.           *)

\* CREATE SCHEMA IF NOT EXISTS; ok says whether the job gets the answer.
InitSchema(ok) == /\ initJob \in {"idle", "done"} /\ reachable
                  /\ ddl' = IF ddl = "none" THEN "schema" ELSE ddl
                  /\ initJob' = IF ok THEN "schema" ELSE "idle"
                  /\ UNCHANGED <<procVars, bufVars, httpVars, probeVars, reachable>>

\* CREATE TABLE IF NOT EXISTS.
InitTable(ok) == /\ initJob = "schema" /\ reachable
                 /\ ddl' = "table"
                 /\ initJob' = IF ok THEN "done" ELSE "idle"
                 /\ UNCHANGED <<procVars, bufVars, httpVars, probeVars, reachable>>

\* The second statement fails, or the job is killed between the two.
InitFails == /\ initJob = "schema"
             /\ initJob' = "idle"
             /\ UNCHANGED <<procVars, bufVars, httpVars, probeVars, reachable, ddl>>

BackendChanges == /\ main # "returned" /\ reachable' = ~reachable
                  /\ UNCHANGED <<procVars, bufVars, httpVars, probeVars, ddl, initJob>>

-----------------------------------------------------------------------------
(* run and runServer.                                                      *)

Unset == [key \in Keys |-> [set |-> "no", val |-> 0]]

\* config.Load.
Load == /\ main = "loading" /\ LoadOk(env)
        /\ main' = "opening"
        /\ mode' = Settings(env).READINESS_MODE /\ env' = Unset
        /\ UNCHANGED <<ingest, exit, signalled, timedOut, store, logged, bufVars, httpVars, probeVars, backend>>

LoadFails == /\ main = "loading" /\ ~LoadOk(env)
             /\ main' = "returned" /\ exit' = 1 /\ env' = Unset
             /\ UNCHANGED <<ingest, mode, signalled, timedOut, store, logged, bufVars, httpVars, probeVars,
                            backend>>

\* The store is opened, which needs no connection, the buffer and its flusher are
\* started and the server listens.  A cache that does not answer changes nothing.
Open == /\ main = "opening"
        /\ main' = "serving" /\ store' = "open"
        /\ buffer' = IF ingest THEN "open" ELSE "none"
        /\ probe' = "validating"
        /\ UNCHANGED <<settings, exit, signalled, timedOut, logged, cancelled, rowVars, httpVars, ready, backend>>

\* openStore fails: a certificate cannot be read.
OpenFails == /\ main = "opening"
             /\ main' = "returned" /\ exit' = 1
             /\ UNCHANGED <<settings, signalled, timedOut, store, logged, bufVars, httpVars, probeVars, backend>>

Signal == /\ Running /\ ~signalled
          /\ signalled' = TRUE
          /\ UNCHANGED <<settings, main, exit, timedOut, store, logged, bufVars, httpVars, probeVars, backend>>

\* The select of runServer takes ctx.Done.
SeeSignal == /\ main = "serving" /\ signalled
             /\ main' = "marking"
             /\ UNCHANGED <<settings, exit, signalled, timedOut, store, logged, bufVars, httpVars, probeVars, backend>>

\* Mutant: the error of the server is only logged.
ServerFails_Logged ==
    /\ main = "serving"
    /\ main' = "returning"
    /\ UNCHANGED <<settings, exit, signalled, timedOut, store, logged, bufVars, httpVars, probeVars, backend>>

\* It takes serverErr: ListenAndServe failed.  The buffer is not closed.
ServerFails ==
    /\ main = "serving"
    /\ main' = "returning" /\ exit' = 1
    /\ UNCHANGED <<settings, signalled, timedOut, store, logged, bufVars, httpVars, probeVars, backend>>

\* Mutant: the buffer is closed before the requests under way have ended.
MarkNotReady_ThenClose ==
    /\ main = "marking"
    /\ ready' = FALSE /\ main' = "closing"
    /\ buffer' = IF ingest THEN "closing" ELSE "none"
    /\ UNCHANGED <<settings, exit, signalled, timedOut, store, logged, cancelled, rowVars, httpVars, probe, backend>>

\* MarkNotReady, then Shutdown closes the listener and waits.
MarkNotReady ==
    /\ main = "marking"
    /\ ready' = FALSE /\ main' = "shutdown"
    /\ UNCHANGED <<settings, exit, signalled, timedOut, store, logged, bufVars, httpVars, probe, backend>>

\* Mutant: no deadline on Shutdown.
ShutdownEnds_NoDeadline ==
    /\ main = "shutdown"
    /\ ~\E q \in Requests : Active(q)
    /\ timedOut' = FALSE
    /\ main' = "closing"
    /\ buffer' = IF ingest THEN "closing" ELSE "none"
    /\ UNCHANGED <<settings, exit, signalled, store, logged, cancelled, rowVars, httpVars, probeVars, backend>>

\* Shutdown returns when no request is under way, or after 25 seconds; then
\* buf.Close, if there is a buffer, closes stop.
ShutdownEnds ==
    /\ main = "shutdown"
    /\ \/ ~(\E q \in Requests : Active(q)) /\ timedOut' = FALSE
       \/ (\E q \in Requests : Active(q)) /\ timedOut' = TRUE
    /\ main' = "closing"
    /\ buffer' = IF ingest THEN "closing" ELSE "none"
    /\ UNCHANGED <<settings, exit, signalled, store, logged, cancelled, rowVars, httpVars, probeVars, backend>>

\* The drain finds the channel empty: what is pending is in the last batch.
DrainDone == /\ Running /\ buffer = "closing"
             /\ buffer' = "emptied"
             /\ UNCHANGED <<procVars, cancelled, rowVars, httpVars, probeVars, backend>>

\* That batch is flushed, and the flusher exits.
Drained == /\ Running /\ buffer = "emptied" /\ pending = 0
           /\ buffer' = "drained"
           /\ UNCHANGED <<procVars, cancelled, rowVars, httpVars, probeVars, backend>>

\* After 20 seconds Close cancels flushBase, and goes on waiting for the flusher; the
\* select may take this case although the flusher is done.
DrainTimesOut ==
    /\ main = "closing" /\ buffer \in {"closing", "emptied", "drained"} /\ ~cancelled
    /\ cancelled' = TRUE
    /\ UNCHANGED <<procVars, buffer, rowVars, httpVars, probeVars, backend>>

\* Close returns nil, or the error of its context, which is logged and no more: the
\* exit code is 0 in either case.
CloseReturns ==
    /\ main = "closing" /\ buffer \in {"none", "drained"}
    /\ main' = "returning" /\ logged' = cancelled
    /\ UNCHANGED <<settings, exit, signalled, timedOut, store, bufVars, httpVars, probeVars, backend>>

\* The deferred calls, st.Close among them; the goroutines run on until main exits.
CloseStore ==
    /\ main = "returning" /\ store = "open"
    /\ store' = "closed"
    /\ UNCHANGED <<settings, main, exit, signalled, timedOut, logged, bufVars, httpVars, probeVars, backend>>

Exit == /\ main = "returning" /\ store = "closed"
        /\ main' = "returned"
        /\ UNCHANGED <<settings, exit, signalled, timedOut, store, logged, bufVars, httpVars, probeVars, backend>>

\* The process has ended.
Exited == main = "returned" /\ UNCHANGED vars

-----------------------------------------------------------------------------
Readiness == ProbeStarts \/ ProbeOk \/ ProbeFails \/ ProbeStops

Main == \/ SeeSignal \/ MarkNotReady \/ ShutdownEnds \/ DrainTimesOut \/ CloseReturns
        \/ CloseStore \/ Exit

Flusher == DrainDone \/ Drained \/ \E n \in 1..pending : Flush(n) \/ GiveUp(n)

Backend == \/ BackendChanges \/ InitFails
           \/ \E ok \in BOOLEAN : InitSchema(ok) \/ InitTable(ok)

Next == \/ \E q \in Requests : \/ Accept(q) \/ AddRow(q)
                               \/ \E kind \in {Kind(e) : e \in Body} : Decode(q, kind)
        \/ Readiness \/ Backend
        \/ Load \/ LoadFails \/ Open \/ OpenFails \/ Signal \/ ServerFails \/ Main \/ Flusher \/ Exited

Spec == Init /\ [][Next]_vars

\* runServer and its goroutines run: a timer fires, a Validate ends by its timeout,
\* Shutdown by its deadline, and every flush ends (CloseReturns of IngestBuffer).
\* Clients, signals, the backend and the init job are left free.
FairSpec == Spec /\ WF_vars(Main) /\ WF_vars(Flusher) /\ WF_vars(Readiness)

-----------------------------------------------------------------------------
Wanted(e, key) == IF e[key].set = "yes" THEN e[key].val ELSE Default(key)

Unlimited(c) == c.STORE_BACKEND = "trino" /\ c.TRINO_QUERY_TIMEOUT <= 0

FlushTimeoutFits(c) == New(c).flushTimeout = IF Unlimited(c) THEN 30000 ELSE StoreQueryTimeout(c)

WholeSeconds(c) == NewStore(c).maxExecutionTime - c.CLICKHOUSE_QUERY_TIMEOUT \in -999..999

\* A process either refuses its environment or runs with what was set.  Nothing that
\* does not parse is taken for a default, and ingest.New and the constructors of the
\* stores find nothing they would have to replace, so that the assumptions the other
\* modules make on these values hold.  The one exception is TRINO_QUERY_TIMEOUT, which
\* validate does not look at: 0 or less is no limit for Trino and 30 seconds for a
\* flush.  ClickHouse gets the timeout in whole seconds, less than one second off.
WhatIsSetRuns ==
    main = "loading" /\ LoadOk(env) =>
        LET c == Settings(env) IN
        /\ \A key \in Keys \ DOMAIN StringVars : env[key].set # "junk"
        /\ \A key \in DOMAIN New(c) \ {"flushTimeout"} : New(c)[key] = Wanted(env, key)
        /\ FlushTimeoutFits(c)
        /\ \A key \in DOMAIN NewStore(c) \ {"maxExecutionTime"} :
              NewStore(c)[key] = Wanted(env, key) \/ (Unlimited(c) /\ key = "TRINO_QUERY_TIMEOUT")
        /\ c.STORE_BACKEND = "clickhouse" => WholeSeconds(c)
        /\ c.BATCH_SIZE >= 1 /\ c.FLUSH_MAX_RETRIES >= 0 /\ c.FLUSH_INTERVAL > 0
        /\ c.REDIS_ADDR # "" => c.CACHE_LIST_TTL > 0 /\ c.CACHE_TIMEOUT > 0

\* Every event received on /ingest is invalid, suppressed, offered to the buffer or
\* still being handled.
EventsAccounted ==
    count.received = count.invalid + count.suppressed + count.offered
                     + Cardinality({q \in Requests : Active(q)})

\* No row is offered to a buffer whose drain has found it empty, unless Shutdown gave up on
\* the request: runServer closes the buffer only after the handlers have ended.
NoRowAfterDrain == afterDrain > 0 => timedOut

\* What exit code 0 says of the rows.  It does not say that all were written, but
\* whatever was not is counted as dropped ("buffer full or closing, or batch abandoned
\* after flush failures"), and beyond that the shutdown itself loses nothing unseen.
\* No row was left to a store that was closed already: the store outlives the drain.  A
\* row is left in the channel only if Shutdown gave up on the request that brought it,
\* which is logged as well.  Rows that were given up because Close ran out of time come
\* with "buffer drain incomplete".
LossIsReported ==
    main = "returned" /\ exit = 0 =>
        /\ count.offered = count.flushed + count.dropped + left
        /\ spoiled = 0
        /\ left > 0 => timedOut
        /\ cutShort > 0 => logged

\* MarkNotReady races with a probe: one that was under way when the signal came may
\* set ready again, but it is the last that can.  Every later one fails at once
\* because it inherits ctx, so /readyz does not flap while the service drains.
AtMostOneRevival == main \in {"shutdown", "closing"} /\ ready => probe # "validating"

\* A signal ends the process, even when a client never finishes its request.
SignalEndsProcess == signalled ~> main = "returned"

\* While the service runs undisturbed, /readyz follows the backend both ways.  With
\* READINESS_MODE=table that is the table it writes to, although init runs beside the
\* service, in two statements, and may fail in between; an init that reports success
\* is enough to become ready in either mode.
ReadyFollowsStore ==
    LET Steady == main = "serving" /\ ~signalled
        Usable == reachable /\ (ddl = "table" \/ mode = "connection")
    IN
    /\ <>[](Steady /\ reachable /\ (initJob = "done" \/ mode = "connection")) => <>[](handleReadyz = 200)
    /\ <>[](Steady /\ ~Usable) => <>[](handleReadyz = 503)
=============================================================================
