------------------------------- MODULE Listing ------------------------------
(***************************************************************************)
(* Browsing the query log: somebody walks through the pages of a list,     *)
(* with the CLI (internal/querycli/list.go over server/api.go) or in the   *)
(* UI (server/ui.go), following the link to the next page, while rows are  *)
(* stored and pruned and the time range of the list moves on.  Every row   *)
(* of a page links to the detail of its query (store/query.go).            *)
(*                                                                         *)
(* Pages may come from the cache (store/cache.go), where other users put   *)
(* them.  Only the entries a walk may still ask for are kept here, those   *)
(* of its list, of the present bucket of listTTL and of pages ahead: an    *)
(* entry outlives its bucket (ReadCache).  Without a cache every read is   *)
(* like one for which the cache failed.  A request that fails shows        *)
(* nothing and changes nothing: it can be repeated.                        *)
(***************************************************************************)
EXTENDS Integers, Sequences, FiniteSets, FiniteSetsExt

CONSTANTS Ids,              \* numbers of the rows that may be stored
          Query,            \* the query of each: a number that makes up its id, with a day
          Wall,             \* its wall_ms, which one may sort by
          FailedIds,        \* the rows of queries that failed
          Skew,             \* days by which the day in its id differs from create_time
          DayLength,        \* ticks of a day
          Width,            \* ticks the range of the list covers
          MaxTime,          \* bound on the clock
          MaxPages,         \* bound on the pages of a walk
          ListTTL,          \* listTTL
          Views,            \* the lists that are looked at
          Clients,          \* subset of {"cli", "ui"}
          Limits,           \* what a user may pass as --limit
          CliMaxLimit,      \* 500
          apiDefaultLimit, apiMaxLimit, apiMaxOffset,
          uiLimit, maxUIPages,
          defaultListLimit, maxListLimit

\* Clocks may differ, and a query may be created around midnight.
ASSUME IdsAssumption == Ids \subseteq Nat
ASSUME WallAssumption == Wall \in [Ids -> Nat] /\ FailedIds \subseteq Ids
ASSUME SkewAssumption == Skew \in [Ids -> -1..1]
\* Several rows of one query are copies.  On Trino a batch whose acknowledgement was
\* lost and an event that is delivered twice leave some; ClickHouse shows one row of a
\* query, and Query is injective.
ASSUME CopiesAssumption ==
    /\ Query \in [Ids -> Nat]
    /\ \A m, n \in Ids : Query[m] = Query[n] =>
          Wall[m] = Wall[n] /\ Skew[m] = Skew[n] /\ (m \in FailedIds <=> n \in FailedIds)
\* A bucket is at least a second, so that different buckets have different keys.
ASSUME TimeAssumption == {DayLength, Width, ListTTL} \subseteq Nat \ {0} /\ MaxTime \in Nat
ASSUME LimitsAssumption ==
    /\ {apiDefaultLimit, apiMaxLimit, uiLimit, maxUIPages, CliMaxLimit} \subseteq Nat \ {0}
    /\ apiMaxOffset \in Nat /\ Limits \subseteq Int
\* 500 + 1 and 100 + 1 against 5000: pageLimit does not replace the limit.
ASSUME PageLimitAssumption == maxListLimit \in Nat /\ apiMaxLimit < maxListLimit /\ uiLimit < maxListLimit
\* 49 * 100 against 100000: the UI has no offsets that the API does not have.
ASSUME PagesAssumption == (maxUIPages - 1) * uiLimit <= apiMaxOffset
ASSUME ViewsAssumption ==
    Views \subseteq [sort : {"start", "wall"}, desc : BOOLEAN, failed : BOOLEAN]
ASSUME ClientsAssumption == Clients \subseteq {"cli", "ui"}

Day(t) == t \div DayLength

\* A row: the id of its query is day and Query[n].
Row == {[day |-> Day(t) + Skew[n], n |-> n, created |-> t] : n \in Ids, t \in 0..MaxTime}

VARIABLES now, table,
          ever,     \* rows that have been stored
          cache,    \* the entry of each offset
          client,   \* who walks
          limit,    \* the page size asked for
          view,     \* sort key, direction and filter of the list
          next,     \* the offset or page number asked for next
          page,     \* the last answer: its rows, and whether there are more
          data,     \* history: the whole list the last answer was cut from, and its age
          seen,     \* history: rows shown so far
          steady,   \* history: rows in the list of every answer
          gone,     \* history: rows that an answer's list lacks and the one before had
          forth,    \* history: no answer was older than the one before
          quiet,    \* history: nothing has changed since the walk began
          news,     \* history: the last page showed a row that was not shown before
          pages     \* history: pages asked for

world == <<now, table, ever>>
walk == <<client, limit, view, next, page, data, seen, steady, gone, forth, news, pages>>
vars == <<world, cache, walk, quiet>>

Nothing == [rows |-> <<>>, hasNext |-> TRUE]

NoData == [list |-> {}, at |-> -1]

\* An entry is what ListQueries returned.
NoEntry == [rows |-> <<>>, data |-> NoData]

FirstPage(who) == IF who = "cli" THEN 0 ELSE 1

Init == /\ now = 0 /\ table = {} /\ ever = {}
        /\ cache = [offset \in 0..apiMaxOffset |-> NoEntry]
        /\ client \in Clients /\ limit \in IF client = "cli" THEN Limits ELSE {uiLimit}
        /\ view \in Views
        /\ next = FirstPage(client)
        /\ page = Nothing /\ data = NoData /\ seen = {} /\ steady = {} /\ gone = {}
        /\ forth = TRUE /\ quiet = FALSE /\ news = FALSE /\ pages = 0

-----------------------------------------------------------------------------
(* store/query.go.                                                         *)

\* Mutant: the largest limit is taken for too large.
pageLimit_OffByOne(n) == IF n <= 0 \/ n >= maxListLimit THEN defaultListLimit ELSE n

pageLimit(n) == IF n <= 0 \/ n > maxListLimit THEN defaultListLimit ELSE n

\* listPredicates, for the range and the state; the user and the catalog are like the
\* state.
listPredicates(f, r) == /\ r.created >= f.since /\ r.created < f.until
                        /\ view.failed => r.n \in FailedIds

\* The range of a list ends when it is asked for.
buildQueryFilter(t) == [since |-> t - Width, until |-> t]

sortColumn(v, r) == IF v.sort = "wall" THEN Wall[r.n] ELSE r.created

\* query_id: by its day, then by its number.
IdPrecedes(a, b) == a.day < b.day \/ (a.day = b.day /\ Query[a.n] < Query[b.n])

\* Ascending: by the column, and where that is equal by query_id.  Copies come in any
\* order; they look the same, so that it may as well be that of their numbers.
Precedes(v, a, b) ==
    LET x == sortColumn(v, a)  y == sortColumn(v, b) IN
    \/ x < y
    \/ x = y /\ IdPrecedes(a, b)
    \/ x = y /\ a.day = b.day /\ Query[a.n] = Query[b.n] /\ a.n < b.n

orderBy(v, a, b) == IF v.desc THEN Precedes(v, b, a) ELSE Precedes(v, a, b)

Matching == {r \in table : listPredicates(buildQueryFilter(now), r)}

\* The order is total: rows have different numbers.
InOrder(v, S) ==
    CHOOSE s \in [1..Cardinality(S) -> S] :
        \A i, j \in 1..Cardinality(S) : i < j => orderBy(v, s[i], s[j])

Sorted == InOrder(view, Matching)

ListQueries(lim, offset) ==
    SubSeq(Sorted, offset + 1, Min({Len(Sorted), offset + pageLimit(lim)}))

\* Mutant: the day of the id only.
queryIDWindow_OneDay(day) == day * DayLength..(day + 1) * DayLength - 1

\* The create_times GetQuery looks at: a day more on both sides.
queryIDWindow(day) == (day - 1) * DayLength..(day + 2) * DayLength - 1

queryIDPredicates(day, q, r) ==
    r.day = day /\ Query[r.n] = q /\ r.created \in queryIDWindow(day)

\* The rows one of which GetQuery returns.
GetQuery(day, q) == {r \in table : queryIDPredicates(day, q, r)}

-----------------------------------------------------------------------------
(* server/api.go and server/ui.go.                                         *)

clampLimit(v) == IF v < 1 THEN apiDefaultLimit ELSE Min({v, apiMaxLimit})

parseOffset(v) == IF v < 0 THEN 0 ELSE Min({v, apiMaxOffset})

\* One row more than the page is asked for, to see whether there are more.
listAndTrim(rows, size) ==
    [rows |-> SubSeq(rows, 1, Min({Len(rows), size})), hasNext |-> Len(rows) > size]

\* The answer of the API says which offset was used.
handleAPIListQueries(rows, size, offset) ==
    LET got == listAndTrim(rows, size)
    IN  [rows |-> got.rows, hasNext |-> got.hasNext, offset |-> offset]

\* The page number of a list view.
buildListView(number) == Min({IF number > 1 THEN number ELSE 1, maxUIPages})

\* Mutant: the last page that can be shown has a link as well.
populateRows_NoCap(rows, number) == listAndTrim(rows, uiLimit)

\* The last page has no link to a next one, whatever follows.
populateRows(rows, number) ==
    LET got == listAndTrim(rows, uiLimit) IN
    [rows |-> got.rows, hasNext |-> got.hasNext /\ number < maxUIPages]

nextHref(number) == number + 1

\* runList brings --limit into its range, and so does the server.
PageSize == IF client = "ui" THEN uiLimit
            ELSE clampLimit(Min({IF limit < 1 THEN 1 ELSE limit, CliMaxLimit}))

-----------------------------------------------------------------------------
(* store/cache.go, for one list and one bucket.                            *)

\* What the store answers now.  Time and the rows stored so far give its age.
Fresh(offset) ==
    [rows |-> ListQueries(PageSize + 1, offset),
     data |-> [list |-> Matching, at |-> now + Cardinality(ever)]]

\* Mutant: the offset is not part of the key.
listKey_NoOffset(offset) == 0

\* The offset is what is left of the key here.
listKey(offset) == offset

\* The pages before this offset are not asked for again.
Behind == IF client = "ui" THEN (next - 1) * uiLimit ELSE parseOffset(next)

\* The answer of cachedStore.ListQueries: an entry that is there, or the store's, which
\* is put into the cache.  An entry is passed over when the cache fails.
CachedListQueries(offset, answer) ==
    /\ answer = Fresh(offset) \/ (answer = cache[listKey(offset)] /\ answer # NoEntry)
    /\ cache' = [o \in DOMAIN cache |->
                    IF o < Behind' THEN NoEntry
                    ELSE IF o = listKey(offset) THEN answer ELSE cache[o]]

Answers(offset) == {Fresh(offset), cache[listKey(offset)]}

-----------------------------------------------------------------------------
(* Walks.                                                                  *)

\* A walk is shown the page got, which was cut from answer.
Show(got, answer, fresh) ==
    /\ page' = [rows |-> got.rows, hasNext |-> got.hasNext]
    /\ data' = answer.data
    /\ news' = (Range(got.rows) \ seen # {})
    /\ seen' = seen \cup Range(got.rows)
    /\ steady' = IF pages = 0 THEN answer.data.list ELSE steady \cap answer.data.list
    /\ gone' = gone \cup (data.list \ answer.data.list)
    /\ forth' = (forth /\ answer.data.at >= data.at)
    /\ quiet' = ((quiet \/ pages = 0) /\ answer.rows = fresh.rows)
    /\ pages' = pages + 1
    /\ UNCHANGED <<world, client, limit, view>>

Walking(who) == client = who /\ page.hasNext /\ pages < MaxPages

\* printList: env.Offset+len(env.Queries).
NextOffset(got) == got.offset + Len(got.rows)

\* query list, and the offset it prints for the next call.
RunList ==
    LET offset == parseOffset(IF next < 0 THEN 0 ELSE next) IN
    /\ Walking("cli")
    /\ \E answer \in Answers(offset) :
          LET got == handleAPIListQueries(answer.rows, PageSize, offset) IN
          /\ Show(got, answer, Fresh(offset))
          /\ next' = NextOffset(got)
          /\ CachedListQueries(offset, answer)

\* The dashboard, or the partial that HTMX loads; the user follows the link.
Dashboard ==
    LET number == buildListView(next)
        offset == (number - 1) * uiLimit
    IN  /\ Walking("ui")
        /\ \E answer \in Answers(offset) :
              /\ Show(populateRows(answer.rows, number), answer, Fresh(offset))
              /\ next' = nextHref(number)
              /\ CachedListQueries(offset, answer)

\* A link to another list: the walk begins again with its first page.
Follow(v) == /\ client = "ui" /\ pages > 0 /\ v \in Views \ {view}
             /\ view' = v
             /\ cache' = [offset \in DOMAIN cache |-> NoEntry]
             /\ next' = FirstPage(client)
             /\ page' = Nothing /\ data' = NoData /\ seen' = {} /\ steady' = {} /\ gone' = {}
             /\ forth' = TRUE /\ quiet' = FALSE /\ news' = FALSE /\ pages' = 0
             /\ UNCHANGED <<world, client, limit>>

\* The head of a column sorts by it, and turns the order when it does already.
SortLink(key) ==
    Follow([view EXCEPT !.sort = key, !.desc = ~(view.sort = key /\ view.desc)])

\* The links to the slowest queries, and to the failed ones or back.
TopHref(key) == Follow([view EXCEPT !.sort = key, !.desc = TRUE])

FailedHref == Follow([view EXCEPT !.failed = ~@])

-----------------------------------------------------------------------------
(* The rest of the world.                                                  *)

\* The write path stores a query, some time after it was created, or a copy.
Store(r) == /\ r.created <= now /\ r.created >= now - 1
            /\ \A s \in ever : /\ s.n # r.n
                               /\ Query[s.n] = Query[r.n] => s.created = r.created
            /\ table' = table \cup {r} /\ ever' = ever \cup {r}
            /\ quiet' = FALSE
            /\ UNCHANGED <<now, cache, walk>>

\* Prune deletes the oldest rows.
Prune(t) == /\ t <= now /\ \E r \in table : r.created < t
            /\ table' = {r \in table : r.created >= t}
            /\ quiet' = FALSE
            /\ UNCHANGED <<now, ever, cache, walk>>

\* Another user reads a page of the same list, and it is cached.
OtherReader(offset) ==
    /\ Walking(client) /\ offset >= Behind
    /\ cache[listKey(offset)] = NoEntry
    /\ client = "ui" => offset \in {(number - 1) * uiLimit : number \in 1..maxUIPages}
    /\ cache' = [cache EXCEPT ![listKey(offset)] = Fresh(offset)]
    /\ UNCHANGED <<world, walk, quiet>>

\* Time passes; the requests of a new bucket have other keys.
Tick == /\ now < MaxTime
        /\ now' = now + 1
        /\ cache' = IF now' % ListTTL = 0 THEN [offset \in DOMAIN cache |-> NoEntry] ELSE cache
        /\ quiet' = FALSE
        /\ UNCHANGED <<table, ever, walk>>

Next == \/ RunList \/ Dashboard \/ FailedHref \/ Tick
        \/ \E key \in {"start", "wall"} : SortLink(key) \/ TopHref(key)
        \/ \E r \in Row : Store(r)
        \/ \E t \in 1..MaxTime : Prune(t)
        \/ \E offset \in DOMAIN cache : OtherReader(offset)

Spec == Init /\ [][Next]_vars

-----------------------------------------------------------------------------
(* Properties.                                                             *)

\* Nothing is passed over.  A row that was in the list all along and that sorts
\* before something the walk has shown was shown itself, unless a row in front of it
\* went away between two pages; and in the default order, newest first, rows in front
\* go away only if a page of the cache is older than the one before it: rows that are
\* stored, pruned or leave the range only move others down.
NoRowPassedOver ==
    pages > 0 =>
        \A r \in steady : (\E s \in seen : orderBy(view, r, s)) /\ r \notin seen =>
            /\ \E g \in gone : orderBy(view, g, r)
            /\ view.sort = "start" /\ view.desc => ~forth

\* A link to a next page leads on: as long as nothing changes, the page it leads to
\* shows a row that was not shown before, though on Trino it may be a copy of one that
\* was.  (The CLI prints "more results (next: --offset N)".)
NextLeadsOn == quiet /\ pages > 1 => news

\* A walk that is told there are no more pages has seen the whole list, as far as
\* pages go, if the list did not change under it.
LastPageIsLast ==
    quiet /\ ~page.hasNext /\ page.rows # <<>> /\ (client = "ui" => next <= maxUIPages) =>
        \A r \in Matching : ~orderBy(view, page.rows[Len(page.rows)], r)

\* Every row of a page opens: GetQuery, which looks only at the days around the one
\* in the id, finds it unless it was pruned meanwhile, and finds no row of another
\* query.
EveryRowOpens ==
    \A i \in DOMAIN page.rows :
        LET r == page.rows[i] IN
        r \in table =>
            GetQuery(r.day, Query[r.n]) = {s \in table : Query[s.n] = Query[r.n]}
=============================================================================
