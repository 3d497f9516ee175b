----------------------------- MODULE ReadCache ------------------------------
(***************************************************************************)
(* A read, from the command line to the store and back: the query client   *)
(* (internal/querycli), the handlers of the API (internal/server/api.go,   *)
(* ui.go), the read-through cache (internal/store/cache.go) and the        *)
(* lookups of the two stores.  Concurrent readers ask the cache, fall      *)
(* through to the store on a miss or an error, and put the answer into the *)
(* cache with a TTL.  The cache holds one answer per key: all readers of a *)
(* query share one, and the readers of a list share one per listTTL.       *)
(*                                                                         *)
(* What is read is one row, that is absent until somebody stores it.  An   *)
(* answer carries, as history, the time at which the store gave it.        *)
(***************************************************************************)
EXTENDS Integers

CONSTANTS Readers,    \* requests to the UI and the API
          TTL,        \* listTTL or queryTTL
          Second,     \* ticks of a second
          Latency,    \* bound on a store query plus a cache write
          MaxTime     \* bound on the clock

ASSUME TTLAssumption == TTL \in Nat \ {0}
ASSUME SecondAssumption == Second \in Nat \ {0}
ASSUME LatencyAssumption == Latency \in Nat
ASSUME MaxTimeAssumption == MaxTime \in Nat

Time == 0..MaxTime

VARIABLES ui,       \* the instance has the UI role, and so the API
          lists,    \* TRUE: the readers call ListQueries; FALSE: GetQuery
          now,      \* the clock
          stored,   \* the row is in the store
          cache,    \* the cached answer of each key
          reader    \* where each reader is, and what it holds

vars == <<ui, lists, now, stored, cache, reader>>

\* Mutant: lists of all times share one key.
Key_NoBucket(t) == 0

\* listKey truncates the end of the range to listTTL and writes it in whole seconds;
\* queryKey is the query id.
Key(t) == IF lists THEN ((t \div TTL) * TTL) \div Second ELSE 0

Keys == 0..MaxTime

\* Nothing cached.
None == [found |-> FALSE, at |-> 0, expires |-> 0]

Idle == [pc |-> "idle", key |-> 0, asked |-> 0, had |-> FALSE,
         found |-> FALSE, at |-> 0, status |-> 0]

Init == /\ ui \in BOOLEAN /\ lists \in BOOLEAN
        /\ now = 0 /\ stored = FALSE
        /\ cache = [k \in Keys |-> None]
        /\ reader = [r \in Readers |-> Idle]

\* A request that arrives now.
Request(pc, key, status) == [pc |-> pc, key |-> key, asked |-> now, had |-> stored,
                             found |-> FALSE, at |-> 0, status |-> status]

\* The request q, once it has an answer that the store gave at the time at.
Answer(q, pc, found, at, status) == [pc |-> pc, key |-> q.key, asked |-> q.asked, had |-> q.had,
                                     found |-> found, at |-> at, status |-> status]

\* A request reaches its handler and computes its key.
Ask(r) == /\ reader[r].pc = "idle" /\ ui
          /\ reader' = [reader EXCEPT ![r] = Request("get", Key(now), 0)]
          /\ UNCHANGED <<ui, lists, now, stored, cache>>

\* Without the UI role Handler has no such route: the server says 404.
NoRoute(r) == /\ reader[r].pc = "idle" /\ ~ui
              /\ reader' = [reader EXCEPT ![r] = Request("answered", 0, 404)]
              /\ UNCHANGED <<ui, lists, now, stored, cache>>

\* handleAPIGetQuery, handleQueryDetail and handleAPIListQueries: the status for what
\* the store returned, "row" (for a list: the rows), "nil" or "error".
Status(result) == CASE result = "error" -> 500
                    [] result = "nil" /\ ~lists -> 404
                    [] OTHER -> 200

\* Mutant: the cache does not expire entries.
Live_Forever(e) == e.expires > 0

Live(e) == e.expires > now

\* getCached finds an answer.
Hit(r) == LET e == cache[reader[r].key] IN
          /\ reader[r].pc = "get" /\ Live(e)
          /\ reader' = [reader EXCEPT ![r] = Answer(@, "answered", e.found, e.at, Status("row"))]
          /\ UNCHANGED <<ui, lists, now, stored, cache>>

\* It finds none, or the cache fails, times out or returns something unreadable:
\* ask the store.
Miss(r) == /\ reader[r].pc = "get"
           /\ reader' = [reader EXCEPT ![r].pc = "query"]
           /\ UNCHANGED <<ui, lists, now, stored, cache>>

\* GetQuery does not cache that there is no such query.
Cacheable(found) == lists \/ found

\* Mutant: a stream that breaks looks like one that ends.
GetQuery_NoRowsErr(fault) == IF fault \in {"query", "scan"} THEN "error"
                             ELSE IF stored /\ fault # "next" THEN "row" ELSE "nil"

\* GetQuery and ListQueries of either store.  The query may fail, the stream of rows
\* may break before the next row, a row may not be read.  A stream that broke is told
\* from one that ended by rows.Err().
GetQuery(fault) == CASE fault # "no" -> "error"
                     [] fault = "no" /\ stored -> "row"
                     [] OTHER -> "nil"

\* Only a row that is there can be scanned.
Faults == {"no", "query", "next"} \cup (IF stored THEN {"scan"} ELSE {})

\* The store answers.
Query(r) ==
    \E fault \in Faults :
        LET result == GetQuery(fault) IN
        /\ reader[r].pc = "query" /\ result # "error"
        /\ reader' = [reader EXCEPT ![r] =
                        Answer(@, IF Cacheable(result = "row") THEN "set" ELSE "answered",
                               result = "row", now, Status(result))]
        /\ UNCHANGED <<ui, lists, now, stored, cache>>

\* The store fails: so does the read, and nothing is cached.
QueryFails(r) ==
    \E fault \in Faults :
        /\ reader[r].pc = "query" /\ GetQuery(fault) = "error"
        /\ reader' = [reader EXCEPT ![r] = Answer(@, "answered", FALSE, now, Status("error"))]
        /\ UNCHANGED <<ui, lists, now, stored, cache>>

\* setCached, which may fail without anybody noticing.
Set(r) == /\ reader[r].pc = "set"
          /\ \/ cache' = [cache EXCEPT ![reader[r].key] =
                            [found |-> reader[r].found, at |-> reader[r].at, expires |-> now + TTL]]
             \/ UNCHANGED cache
          /\ reader' = [reader EXCEPT ![r].pc = "answered"]
          /\ UNCHANGED <<ui, lists, now, stored>>

\* The client gives up, or its connection breaks: it has no status.
NoAnswer(r) == /\ reader[r].pc = "answered"
               /\ reader' = [reader EXCEPT ![r].status = 0]
               /\ UNCHANGED <<ui, lists, now, stored, cache>>

Done(r) == /\ reader[r].pc = "answered"
           /\ reader' = [reader EXCEPT ![r] = Idle]
           /\ UNCHANGED <<ui, lists, now, stored, cache>>

\* External: the write path stores the row.
Store == /\ ~stored /\ stored' = TRUE
         /\ UNCHANGED <<ui, lists, now, cache, reader>>

\* Time passes; the timeouts keep an answer of the store from being held, and a
\* cache operation from taking, longer than Latency.
Tick == /\ now < MaxTime
        /\ \A r \in Readers : /\ reader[r].pc = "set" => now < reader[r].at + Latency
                              /\ reader[r].pc # "answered"
        /\ now' = now + 1
        /\ UNCHANGED <<ui, lists, stored, cache, reader>>

\* The query client: getJSON turns the status into an error, or none, and Main that
\* into an exit code.  It follows no redirects.
getJSON(status) == CASE status = 404 -> "not found"
                     [] status \div 100 = 2 -> "none"
                     [] OTHER -> "server returned"

Main(err) == CASE err = "none" -> 0 [] err = "not found" -> 4 [] OTHER -> 1

Next == \/ \E r \in Readers : \/ Ask(r) \/ NoRoute(r) \/ Hit(r) \/ Miss(r) \/ Query(r) \/ QueryFails(r)
                              \/ Set(r) \/ NoAnswer(r) \/ Done(r)
        \/ Store \/ Tick

Spec == Init /\ [][Next]_vars

-----------------------------------------------------------------------------
Answered(r) == reader[r].pc = "answered" /\ reader[r].status = 200

\* An answer is never older than the TTL plus the time a slow reader may take to
\* put it into the cache, although a late Set overwrites fresher entries and starts
\* the TTL anew.
BoundedStaleness ==
    \A r \in Readers : Answered(r) => now <= reader[r].at + TTL + Latency

\* How far apart requests with the same list key may be.
KeySpan == IF TTL < Second THEN TTL + Second ELSE TTL

\* A list is as fresh as its bucket: whoever filled the entry asked the store after
\* the bucket had begun, so the answer is less than listTTL older than the request,
\* whatever the latency.  Whole seconds in the key keep buckets of a second or more
\* apart, but not shorter ones: a listTTL below a second may be exceeded by less than
\* a second.
ListFromItsBucket ==
    \A r \in Readers : Answered(r) /\ lists => reader[r].at > reader[r].asked - KeySpan

\* README: "Exit codes: 0 ok, 1 error, 4 query not found" and "Branch on exit codes".
\* From an instance that serves the API, 4 says that the query was not in the store
\* when the client asked, whatever other readers saw and cached before and whatever
\* broke on the way; and 0 comes with the row.
ExitCodeTells ==
    \A r \in Readers : reader[r].pc = "answered" /\ ui =>
        LET code == Main(getJSON(reader[r].status)) IN
        /\ code = 4 => ~lists /\ ~reader[r].had
        /\ code = 0 => lists \/ reader[r].found
=============================================================================
