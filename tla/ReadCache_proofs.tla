-------------------------- MODULE ReadCache_proofs --------------------------
(***************************************************************************)
(* Theorems about ReadCache, for every set of readers, every TTL, latency  *)
(* and length of the clock.                                                *)
(***************************************************************************)
EXTENDS ReadCache, TLAPS

-----------------------------------------------------------------------------
(* Keys: listKey truncates the end of the range to listTTL, and that to    *)
(* whole seconds.                                                          *)

\* Truncating to a multiple of m.
LEMMA Truncation ==
    ASSUME NEW t \in Nat, NEW m \in Nat \ {0}
    PROVE  /\ t \div m \in Nat /\ (t \div m) * m \in Nat
           /\ (t \div m) * m <= t /\ t < (t \div m) * m + m
           /\ t \div m <= t
  OBVIOUS

\* Different multiples of m are at least m apart.
LEMMA MultiplesApart ==
    ASSUME NEW m \in Nat \ {0}, NEW a \in Nat, NEW b \in Nat, a < b
    PROVE  a * m + m <= b * m
  <1>1. a + 1 <= b
    OBVIOUS
  <1>2. (a + 1) * m <= b * m /\ (a + 1) * m = a * m + m
    BY <1>1
  <1>. QED
    BY <1>2

\* Requests with the same list key are less than KeySpan apart.
LEMMA SameKey ==
    ASSUME lists, NEW s \in Nat, NEW t \in Nat, Key(s) = Key(t)
    PROVE  s > t - KeySpan
  <1>. DEFINE a == s \div TTL
              b == t \div TTL
              u == a * TTL
              w == b * TTL
  <1>1. a \in Nat /\ b \in Nat /\ u \in Nat /\ w \in Nat /\ u <= s /\ t < w + TTL
    BY TTLAssumption, Truncation
  <1>2. w < u + Second
    <2>1. u \div Second = w \div Second
      BY DEF Key
    <2>. HIDE DEF u, w
    <2>2. w < (w \div Second) * Second + Second /\ (u \div Second) * Second <= u
      BY <1>1, SecondAssumption, Truncation
    <2>3. u \div Second \in Nat
      BY <1>1, SecondAssumption, Truncation
    <2>4. (u \div Second) * Second \in Nat
      BY <1>1, SecondAssumption, Truncation
    <2>. QED
      BY <1>1, <2>1, <2>2, <2>3, <2>4, SecondAssumption
  <1>3. CASE TTL < Second
    <2>. HIDE DEF u, w
    <2>. QED
      BY <1>1, <1>2, <1>3, TTLAssumption, SecondAssumption DEF KeySpan
  <1>4. CASE TTL >= Second
    <2>1. ~(a < b)
      <3>1. a < b => u + TTL <= w
        BY <1>1, TTLAssumption, MultiplesApart
      <3>. HIDE DEF u, w, a, b
      <3>. QED
        BY <1>1, <1>2, <1>4, <3>1, TTLAssumption, SecondAssumption
    <2>2. w <= u
      <3>1. CASE a = b
        BY <1>1, <3>1
      <3>2. CASE b < a
        <4>1. w + TTL <= u
          BY <1>1, <3>2, TTLAssumption, MultiplesApart
        <4>. HIDE DEF u, w
        <4>. QED
          BY <1>1, <4>1, TTLAssumption
      <3>. HIDE DEF a, b
      <3>. QED
        BY <1>1, <2>1, <3>1, <3>2
    <2>. HIDE DEF u, w
    <2>. QED
      BY <1>1, <1>4, <2>2, TTLAssumption, SecondAssumption DEF KeySpan
  <1>. QED
    BY <1>3, <1>4, TTLAssumption, SecondAssumption

-----------------------------------------------------------------------------
(* The inductive invariant.                                                *)

Entry == [found : BOOLEAN, at : Time, expires : Nat]

Reading == [pc : {"idle", "get", "query", "set", "answered"}, key : Keys, asked : Time,
            had : BOOLEAN, found : BOOLEAN, at : Time, status : {0, 200, 404, 500}]

TypeOK == /\ ui \in BOOLEAN /\ lists \in BOOLEAN /\ stored \in BOOLEAN
          /\ now \in Time
          /\ cache \in [Keys -> Entry]
          /\ reader \in [Readers -> Reading]

\* An entry that was ever set: its TTL started within Latency of the store's answer;
\* for a list, it is less than KeySpan older than any request with its key; and of a
\* query only the row is cached.
EntryOK(e, k) == e.expires > 0 =>
    /\ e.expires <= e.at + TTL + Latency
    /\ IF lists THEN \A t \in Time : Key(t) = k => e.at > t - KeySpan ELSE e.found

CacheInv == \A k \in Keys : EntryOK(cache[k], k)

\* What a reader knows at each point of its way: its key is that of the time it asked
\* at, an answer it is about to cache was given after that and at most Latency ago,
\* and the status it gives to its client is true of the store.
ReaderOK(e) ==
    /\ e.pc # "idle" => e.asked <= now /\ (e.had => stored)
    /\ e.pc \in {"get", "query", "set"} => e.key = Key(e.asked)
    /\ e.pc = "set" => /\ e.asked <= e.at /\ e.at <= now /\ now <= e.at + Latency
                       /\ e.status = 200 /\ (lists \/ e.found)
    /\ e.pc = "answered" /\ e.status = 200 =>
          /\ now <= e.at + TTL + Latency
          /\ lists => e.at > e.asked - KeySpan
          /\ lists \/ e.found
    /\ e.pc = "answered" /\ e.status = 404 /\ ui => ~lists /\ ~e.had

ReaderInv == \A r \in Readers : ReaderOK(reader[r])

ReadInv == TypeOK /\ CacheInv /\ ReaderInv

-----------------------------------------------------------------------------
\* A key of a time on the clock is one of the keys.
LEMMA KeyType ==
    ASSUME lists \in BOOLEAN, NEW t \in Time
    PROVE  Key(t) \in Keys
  <1>. DEFINE u == (t \div TTL) * TTL
  <1>1. t \in Nat /\ t <= MaxTime
    BY MaxTimeAssumption DEF Time
  <1>2. u \in Nat /\ u <= t
    BY <1>1, TTLAssumption, Truncation
  <1>. HIDE DEF u
  <1>3. u \div Second \in Nat /\ u \div Second <= u
    BY <1>2, SecondAssumption, Truncation
  <1>4. u \div Second \in Keys /\ 0 \in Keys
    BY <1>1, <1>2, <1>3, MaxTimeAssumption DEF Keys
  <1>. QED
    BY <1>4 DEF Key, u

LEMMA SpanType == KeySpan \in Nat /\ KeySpan >= TTL
  BY TTLAssumption, SecondAssumption DEF KeySpan

LEMMA ReadInit == Init => ReadInv
  <1>. SUFFICES ASSUME Init PROVE ReadInv
    OBVIOUS
  <1>1. 0 \in Time /\ 0 \in Keys
    BY MaxTimeAssumption DEF Time, Keys
  <1>2. TypeOK
    BY <1>1 DEF Init, TypeOK, None, Idle, Entry, Reading
  <1>3. CacheInv
    BY DEF Init, CacheInv, EntryOK, None
  <1>4. ReaderInv
    BY DEF Init, ReaderInv, ReaderOK, Idle
  <1>. QED
    BY <1>2, <1>3, <1>4 DEF ReadInv

\* A step of one reader that leaves the cache, the store and the clock alone keeps the
\* invariant when it keeps it of that reader.
LEMMA OneReader ==
    ASSUME ReadInv, NEW r \in Readers, NEW e \in Reading, ReaderOK(e),
           reader' = [reader EXCEPT ![r] = e],
           UNCHANGED <<ui, lists, now, stored, cache>>
    PROVE  ReadInv'
  <1>1. TypeOK'
    BY DEF ReadInv, TypeOK
  <1>2. CacheInv'
    BY DEF ReadInv, CacheInv, EntryOK, Key
  <1>3. ReaderInv'
    <2>1. ASSUME NEW q \in Readers
          PROVE  ReaderOK(reader'[q])
      BY DEF ReadInv, ReaderInv, TypeOK
    <2>. QED
      BY <2>1 DEF ReaderInv, ReaderOK, Key
  <1>. QED
    BY <1>1, <1>2, <1>3 DEF ReadInv

LEMMA AskStep ==
    ASSUME ReadInv, NEW r \in Readers, Ask(r)
    PROVE  ReadInv'
  <1>. DEFINE e == Request("get", Key(now), 0)
  <1>2. e \in Reading
    BY KeyType, MaxTimeAssumption DEF ReadInv, TypeOK, Reading, Time, Request
  <1>3. ReaderOK(e)
    BY MaxTimeAssumption DEF ReaderOK, Request, ReadInv, TypeOK, Time
  <1>. QED
    BY <1>2, <1>3, OneReader DEF Ask

LEMMA NoRouteStep ==
    ASSUME ReadInv, NEW r \in Readers, NoRoute(r)
    PROVE  ReadInv'
  <1>. DEFINE e == Request("answered", 0, 404)
  <1>2. 0 \in Time /\ 0 \in Keys
    BY MaxTimeAssumption DEF Time, Keys
  <1>3. e \in Reading
    BY <1>2 DEF ReadInv, TypeOK, Reading, Request
  <1>4. ReaderOK(e)
    BY MaxTimeAssumption DEF NoRoute, ReaderOK, Request, ReadInv, TypeOK, Time
  <1>. QED
    BY <1>3, <1>4, OneReader DEF NoRoute

\* What the handlers make of an answer of the store.
LEMMA StatusValues ==
    ASSUME lists \in BOOLEAN
    PROVE  /\ Status("row") = 200 /\ Status("error") = 500
           /\ Status("nil") = IF lists THEN 200 ELSE 404
  BY DEF Status

\* getCached found a live entry.
LEMMA HitStep ==
    ASSUME ReadInv, NEW r \in Readers, Hit(r)
    PROVE  ReadInv'
  <1>. DEFINE q == reader[r]
              c == cache[q.key]
              e == Answer(q, "answered", c.found, c.at, 200)
  <1>1. q \in Reading /\ c \in Entry /\ q.key \in Keys
    BY DEF ReadInv, TypeOK, Reading
  <1>2. EntryOK(c, q.key) /\ ReaderOK(q)
    BY <1>1 DEF ReadInv, CacheInv, ReaderInv
  <1>3. reader' = [reader EXCEPT ![r] = e]
    BY StatusValues DEF Hit, ReadInv, TypeOK
  <1>4. e \in Reading
    BY <1>1 DEF Answer, Reading, Entry
  <1>5. /\ c.expires > now /\ now \in Nat /\ q.pc = "get" /\ q.asked \in Time
        /\ c.expires \in Nat /\ c.at \in Nat
    BY <1>1, MaxTimeAssumption DEF Hit, Live, ReadInv, TypeOK, Time, Entry, Reading
  <1>6. now <= c.at + TTL + Latency
    BY <1>2, <1>5, TTLAssumption, LatencyAssumption DEF EntryOK
  <1>7. ASSUME lists
        PROVE  c.at > q.asked - KeySpan
    <2>1. q.key = Key(q.asked)
      BY <1>2, <1>5 DEF ReaderOK
    <2>. QED
      BY <1>2, <1>5, <1>7, <2>1 DEF EntryOK
  <1>8. lists \/ c.found
    BY <1>2, <1>5 DEF EntryOK
  <1>9. ReaderOK(e)
    BY <1>2, <1>5, <1>6, <1>7, <1>8 DEF ReaderOK, Answer
  <1>. QED
    BY <1>3, <1>4, <1>9, OneReader DEF Hit

LEMMA MissStep ==
    ASSUME ReadInv, NEW r \in Readers, Miss(r)
    PROVE  ReadInv'
  <1>1. reader[r] \in Reading /\ ReaderOK(reader[r])
    BY DEF ReadInv, TypeOK, ReaderInv
  <1>2. reader'[r] \in Reading
    BY <1>1 DEF Miss, ReadInv, TypeOK, Reading
  <1>3. reader' = [reader EXCEPT ![r] = reader'[r]]
    BY DEF Miss, ReadInv, TypeOK
  <1>4. ReaderOK(reader'[r])
    BY <1>1 DEF Miss, ReadInv, TypeOK, Reading, ReaderOK
  <1>. QED
    BY <1>2, <1>3, <1>4, OneReader DEF Miss

\* The store answers, with the row or without: rows.Err tells a broken stream apart,
\* so that the answer is what the store held.
LEMMA QueryStep ==
    ASSUME ReadInv, NEW r \in Readers, Query(r)
    PROVE  ReadInv'
  <1>. DEFINE q == reader[r]
              held == IF stored THEN "row" ELSE "nil"
              e == Answer(q, IF lists \/ stored THEN "set" ELSE "answered", stored, now,
                          IF lists \/ stored THEN 200 ELSE 404)
  <1>1. q \in Reading /\ ReaderOK(q) /\ lists \in BOOLEAN /\ stored \in BOOLEAN
    BY DEF ReadInv, TypeOK, ReaderInv
  <1>2. PICK fault \in Faults : Query(r)!(fault)
    BY DEF Query
  <1>3. GetQuery(fault) = held
    BY <1>1, <1>2 DEF GetQuery
  <1>4. Cacheable(held = "row") = (lists \/ stored) /\ (held = "row") = stored
    BY <1>1 DEF Cacheable
  <1>5. Status(held) = IF lists \/ stored THEN 200 ELSE 404
    BY <1>1, StatusValues
  <1>. HIDE DEF held
  <1>6. reader' = [reader EXCEPT ![r] = e]
    BY <1>1, <1>2, <1>3, <1>4, <1>5, ZenonT(60)
  <1>7. e \in Reading
    BY <1>1 DEF Answer, Reading, ReadInv, TypeOK
  <1>8. ReaderOK(e)
    BY <1>1, <1>2, MaxTimeAssumption, LatencyAssumption, TTLAssumption
       DEF Answer, ReaderOK, ReadInv, TypeOK, Reading, Time
  <1>. QED
    BY <1>2, <1>6, <1>7, <1>8, OneReader, ZenonT(60)

LEMMA QueryFailsStep ==
    ASSUME ReadInv, NEW r \in Readers, QueryFails(r)
    PROVE  ReadInv'
  <1>. DEFINE e == Answer(reader[r], "answered", FALSE, now, 500)
  <1>1. reader[r] \in Reading /\ ReaderOK(reader[r])
    BY DEF ReadInv, TypeOK, ReaderInv
  <1>2. reader' = [reader EXCEPT ![r] = e]
    BY StatusValues, ZenonT(60) DEF QueryFails, ReadInv, TypeOK
  <1>3. e \in Reading
    BY <1>1 DEF Answer, Reading, ReadInv, TypeOK
  <1>4. ReaderOK(e)
    BY <1>1 DEF QueryFails, Answer, ReaderOK
  <1>. QED
    BY <1>2, <1>3, <1>4, OneReader, ZenonT(60) DEF QueryFails

\* setCached, late or not: the entry that is written satisfies the invariant whatever
\* it overwrites.
LEMMA SetStep ==
    ASSUME ReadInv, NEW r \in Readers, Set(r)
    PROVE  ReadInv'
  <1>. DEFINE q == reader[r]
              c == [found |-> q.found, at |-> q.at, expires |-> now + TTL]
  <1>1. /\ q \in Reading /\ ReaderOK(q) /\ q.pc = "set" /\ q.key \in Keys
        /\ now \in Nat /\ q.at \in Nat /\ q.asked \in Time
    BY MaxTimeAssumption DEF ReadInv, TypeOK, ReaderInv, Set, Reading, Time
  <1>2. reader'[r] \in Reading /\ reader' = [reader EXCEPT ![r] = reader'[r]]
    BY <1>1 DEF Set, ReadInv, TypeOK, Reading
  <1>3. ReaderOK(reader'[r])
    <2>1. now <= q.at + TTL + Latency /\ q.at > q.asked - KeySpan
      BY <1>1, SpanType, TTLAssumption, LatencyAssumption, MaxTimeAssumption DEF ReaderOK, Time
    <2>. QED
      BY <1>1, <2>1 DEF Set, ReadInv, TypeOK, Reading, ReaderOK
  <1>4. CASE UNCHANGED cache
    BY <1>2, <1>3, <1>4, OneReader DEF Set
  <1>5. CASE cache' = [cache EXCEPT ![q.key] = c]
    <2>1. c \in Entry
      BY <1>1, TTLAssumption DEF Entry, Reading
    <2>2. EntryOK(c, q.key)
      <3>1. c.expires <= c.at + TTL + Latency
        BY <1>1, TTLAssumption, LatencyAssumption DEF ReaderOK
      <3>2. ASSUME lists, NEW t \in Time, Key(t) = q.key
            PROVE  c.at > t - KeySpan
        <4>1. q.key = Key(q.asked) /\ q.asked <= q.at
          BY <1>1 DEF ReaderOK
        <4>2. t \in Nat /\ q.asked \in Nat
          BY <1>1, MaxTimeAssumption DEF Time
        <4>3. q.asked > t - KeySpan
          BY <3>2, <4>1, <4>2, SameKey
        <4>. QED
          BY <1>1, <4>1, <4>2, <4>3, SpanType
      <3>3. lists \/ c.found
        BY <1>1 DEF ReaderOK
      <3>. QED
        BY <3>1, <3>2, <3>3 DEF EntryOK
    <2>3. TypeOK'
      BY <1>2, <1>5, <2>1 DEF Set, ReadInv, TypeOK
    <2>4. CacheInv'
      <3>1. ASSUME NEW k \in Keys
            PROVE  EntryOK(cache'[k], k)
        BY <1>1, <1>5, <2>2 DEF ReadInv, TypeOK, CacheInv
      <3>. QED
        BY <3>1 DEF Set, CacheInv, EntryOK, Key
    <2>5. ReaderInv'
      <3>1. ASSUME NEW p \in Readers
            PROVE  ReaderOK(reader'[p])
        BY <1>2, <1>3 DEF ReadInv, ReaderInv, TypeOK
      <3>. QED
        BY <3>1 DEF Set, ReaderInv, ReaderOK, Key
    <2>. QED
      BY <2>3, <2>4, <2>5 DEF ReadInv
  <1>. QED
    BY <1>4, <1>5 DEF Set

LEMMA NoAnswerStep ==
    ASSUME ReadInv, NEW r \in Readers, NoAnswer(r)
    PROVE  ReadInv'
  <1>1. reader[r] \in Reading /\ ReaderOK(reader[r])
    BY DEF ReadInv, TypeOK, ReaderInv
  <1>2. reader'[r] \in Reading /\ reader' = [reader EXCEPT ![r] = reader'[r]]
    BY <1>1 DEF NoAnswer, ReadInv, TypeOK, Reading
  <1>3. ReaderOK(reader'[r])
    BY <1>1 DEF NoAnswer, ReadInv, TypeOK, Reading, ReaderOK
  <1>. QED
    BY <1>2, <1>3, OneReader DEF NoAnswer

LEMMA DoneStep ==
    ASSUME ReadInv, NEW r \in Readers, Done(r)
    PROVE  ReadInv'
  <1>1. Idle \in Reading
    BY MaxTimeAssumption DEF Idle, Reading, Time, Keys
  <1>2. ReaderOK(Idle)
    BY DEF Idle, ReaderOK
  <1>. QED
    BY <1>1, <1>2, OneReader DEF Done

\* The row is stored once and for all: nobody who saw it missing saw it before.
LEMMA StoreStep ==
    ASSUME ReadInv, Store
    PROVE  ReadInv'
  <1>1. TypeOK'
    BY DEF Store, ReadInv, TypeOK
  <1>2. CacheInv'
    BY DEF Store, ReadInv, CacheInv, EntryOK, Key
  <1>3. ReaderInv'
    BY DEF Store, ReadInv, ReaderInv, ReaderOK, Key
  <1>. QED
    BY <1>1, <1>2, <1>3 DEF ReadInv

\* The clock: nobody holds an answer longer than Latency.
LEMMA TickStep ==
    ASSUME ReadInv, Tick
    PROVE  ReadInv'
  <1>1. now \in Nat /\ now' \in Nat /\ now' = now + 1 /\ now' \in Time
    BY MaxTimeAssumption DEF Tick, ReadInv, TypeOK, Time
  <1>2. TypeOK'
    BY <1>1 DEF Tick, ReadInv, TypeOK
  <1>3. CacheInv'
    BY DEF Tick, ReadInv, CacheInv, EntryOK, Key
  <1>4. ReaderInv'
    <2>1. ASSUME NEW r \in Readers
          PROVE  ReaderOK(reader[r])'
      <3>1. reader[r] \in Reading /\ ReaderOK(reader[r]) /\ reader'[r] = reader[r]
        BY DEF Tick, ReadInv, TypeOK, ReaderInv
      <3>2. reader[r].asked \in Nat /\ reader[r].at \in Nat
        BY <3>1, MaxTimeAssumption DEF Reading, Time
      <3>3. reader[r].pc = "set" => now < reader[r].at + Latency
        BY DEF Tick
      <3>4. reader[r].pc # "answered"
        BY DEF Tick
      <3>. QED
        BY <1>1, <3>1, <3>2, <3>3, <3>4, LatencyAssumption DEF Tick, ReaderOK, Key
    <2>. QED
      BY <2>1 DEF ReaderInv
  <1>. QED
    BY <1>2, <1>3, <1>4 DEF ReadInv

LEMMA ReadStep == ReadInv /\ [Next]_vars => ReadInv'
  <1>. SUFFICES ASSUME ReadInv, [Next]_vars PROVE ReadInv'
    OBVIOUS
  <1>1. ASSUME NEW r \in Readers,
               \/ Ask(r) \/ NoRoute(r) \/ Hit(r) \/ Miss(r) \/ Query(r) \/ QueryFails(r)
               \/ Set(r) \/ NoAnswer(r) \/ Done(r)
        PROVE  ReadInv'
    BY <1>1, AskStep, NoRouteStep, HitStep, MissStep, QueryStep, QueryFailsStep, SetStep,
       NoAnswerStep, DoneStep
  <1>2. CASE Store \/ Tick
    BY <1>2, StoreStep, TickStep
  <1>3. CASE UNCHANGED vars
    BY <1>3 DEF vars, ReadInv, TypeOK, CacheInv, EntryOK, ReaderInv, ReaderOK, Key
  <1>. QED
    BY <1>1, <1>2, <1>3 DEF Next

LEMMA ReadInvariant == Spec => []ReadInv
  BY ReadInit, ReadStep, PTL DEF Spec

-----------------------------------------------------------------------------
(* The theorems.                                                           *)

\* Whatever the readers do, and however late an answer is put into the cache, no
\* client is given one that is older than the TTL plus the latency.
THEOREM StalenessBounded == Spec => []BoundedStaleness
  <1>1. ReadInv => BoundedStaleness
    BY DEF ReadInv, ReaderInv, ReaderOK, BoundedStaleness, Answered
  <1>. QED
    BY <1>1, ReadInvariant, PTL

\* A list comes from the bucket of the request: it is less than listTTL older than the
\* request, and less than a second more if listTTL is below a second, for every latency.
THEOREM ListsAreOfTheirBucket == Spec => []ListFromItsBucket
  <1>1. ReadInv => ListFromItsBucket
    BY DEF ReadInv, ReaderInv, ReaderOK, ListFromItsBucket, Answered
  <1>. QED
    BY <1>1, ReadInvariant, PTL

\* The exit code of the query client tells a missing query from an error, and success
\* comes with the row.
THEOREM ExitCodeIsTrue == Spec => []ExitCodeTells
  <1>1. ASSUME ReadInv, NEW r \in Readers, reader[r].pc = "answered", ui
        PROVE  LET code == Main(getJSON(reader[r].status)) IN
               /\ code = 4 => ~lists /\ ~reader[r].had
               /\ code = 0 => lists \/ reader[r].found
    <2>1. reader[r] \in Reading /\ ReaderOK(reader[r])
      BY <1>1 DEF ReadInv, TypeOK, ReaderInv
    <2>2. reader[r].status \in {0, 200, 404, 500}
      BY <2>1 DEF Reading
    <2>3. CASE reader[r].status = 200
      BY <1>1, <2>1, <2>3 DEF ReaderOK, Main, getJSON
    <2>4. CASE reader[r].status = 404
      BY <1>1, <2>1, <2>4 DEF ReaderOK, Main, getJSON
    <2>5. CASE reader[r].status \in {0, 500}
      BY <2>5 DEF Main, getJSON
    <2>. QED
      BY <2>2, <2>3, <2>4, <2>5
  <1>2. ReadInv => ExitCodeTells
    BY <1>1 DEF ExitCodeTells
  <1>. QED
    BY <1>2, ReadInvariant, PTL
=============================================================================
