--------------------------- MODULE Listing_proofs ---------------------------
(***************************************************************************)
(* Theorems about Listing, for every set of queries, every page size and   *)
(* every bound on the offsets.                                             *)
(***************************************************************************)
EXTENDS Listing, FiniteSetTheorems, TLAPS

-----------------------------------------------------------------------------
(* Facts about rows and their days.                                        *)

LEMMA RowType ==
    ASSUME NEW r \in Row
    PROVE  /\ r.n \in Ids /\ r.n \in Nat /\ r.created \in 0..MaxTime /\ r.created \in Nat
           /\ r.day = Day(r.created) + Skew[r.n] /\ Skew[r.n] \in -1..1
           /\ Day(r.created) \in Int /\ r.day \in Int /\ Wall[r.n] \in Nat /\ Query[r.n] \in Nat
           /\ r = [day |-> r.day, n |-> r.n, created |-> r.created]
  <1>1. PICK n \in Ids, t \in 0..MaxTime : r = [day |-> Day(t) + Skew[n], n |-> n, created |-> t]
    BY DEF Row
  <1>2. r.n = n /\ r.created = t /\ r.day = Day(t) + Skew[n]
    BY <1>1
  <1>3. t \in Nat /\ n \in Nat /\ Skew[n] \in -1..1 /\ Wall[n] \in Nat /\ Query[n] \in Nat
    BY TimeAssumption, IdsAssumption, SkewAssumption, WallAssumption, CopiesAssumption
  <1>4. Day(t) \in Int
    BY <1>3, TimeAssumption DEF Day
  <1>. QED
    BY <1>1, <1>2, <1>3, <1>4

\* A time lies within its day.
LEMMA WithinDay ==
    ASSUME NEW t \in Nat, NEW d \in Nat \ {0}
    PROVE  (t \div d) * d <= t /\ t < (t \div d) * d + d
  BY Z3

\* The window of GetQuery holds every time whose day is at most one off.
LEMMA WindowHolds ==
    ASSUME NEW t \in Nat, NEW k \in -1..1
    PROVE  t \in queryIDWindow(Day(t) + k)
  <1>. DEFINE q == Day(t)
              D == DayLength
  <1>1. D \in Nat \ {0} /\ q \in Int
    BY TimeAssumption DEF Day
  <1>2. q * D <= t /\ t < q * D + D
    BY <1>1, WithinDay, TimeAssumption DEF Day
  <1>. HIDE DEF q, D
  <1>3. q * D \in Int
    BY <1>1
  <1>4. CASE k = -1
    <2>1. (q + k - 1) * D = q * D - 2 * D /\ (q + k + 2) * D = q * D + D
      BY <1>1, <1>4, Z3
    <2>. QED
      BY <2>1, <1>1, <1>2, <1>3 DEF queryIDWindow, q, D
  <1>5. CASE k = 0
    <2>1. (q + k - 1) * D = q * D - D /\ (q + k + 2) * D = q * D + 2 * D
      BY <1>1, <1>5, Z3
    <2>. QED
      BY <2>1, <1>1, <1>2, <1>3 DEF queryIDWindow, q, D
  <1>6. CASE k = 1
    <2>1. (q + k - 1) * D = q * D /\ (q + k + 2) * D = q * D + 3 * D
      BY <1>1, <1>6, Z3
    <2>. QED
      BY <2>1, <1>1, <1>2, <1>3 DEF queryIDWindow, q, D
  <1>. QED
    BY <1>4, <1>5, <1>6

-----------------------------------------------------------------------------
(* The table: no two of its rows are the same one, and copies are alike.   *)

\* Rows of one number are the same, and rows of one query were created at one time.
Stored(S) == /\ S \subseteq Row
             /\ \A r, s \in S : r.n = s.n => r = s
             /\ \A r, s \in S : Query[r.n] = Query[s.n] => r.created = s.created

TableInv == /\ now \in Nat /\ IsFiniteSet(ever) /\ IsFiniteSet(table)
            /\ table \subseteq ever /\ Stored(ever)

LEMMA TableInit == Init => TableInv
  BY FS_EmptySet DEF Init, TableInv, Stored

\* What becomes of the table in every step.
LEMMA Steps ==
    ASSUME [Next]_vars
    PROVE  \/ \E r \in Row : Store(r)
           \/ \E t \in 1..MaxTime : Prune(t)
           \/ Tick
           \/ UNCHANGED world
  <1>1. ASSUME NEW key, SortLink(key) \/ TopHref(key) PROVE UNCHANGED world
    BY <1>1 DEF SortLink, TopHref, Follow, world
  <1>2. CASE RunList \/ Dashboard
    BY <1>2 DEF RunList, Dashboard, Show, world
  <1>3. CASE FailedHref
    BY <1>3 DEF FailedHref, Follow, world
  <1>4. ASSUME NEW o, OtherReader(o) PROVE UNCHANGED world
    BY <1>4 DEF OtherReader, world
  <1>5. CASE UNCHANGED vars
    BY <1>5 DEF vars, world
  <1>. QED
    BY <1>1, <1>2, <1>3, <1>4, <1>5 DEF Next

LEMMA TableStep == TableInv /\ [Next]_vars => TableInv'
  <1>. SUFFICES ASSUME TableInv, [Next]_vars PROVE TableInv'
    OBVIOUS
  <1>1. ASSUME NEW r \in Row, Store(r) PROVE TableInv'
    <2>1. IsFiniteSet(ever') /\ IsFiniteSet(table')
      BY <1>1, FS_AddElement DEF Store, TableInv
    <2>2. Stored(ever')
      BY <1>1 DEF Store, TableInv, Stored
    <2>. QED
      BY <1>1, <2>1, <2>2 DEF Store, TableInv, Stored
  <1>2. ASSUME NEW t \in 1..MaxTime, Prune(t) PROVE TableInv'
    <2>1. table' \subseteq table /\ ever' = ever /\ now' = now
      BY <1>2 DEF Prune
    <2>2. IsFiniteSet(table')
      BY <2>1, FS_Subset DEF TableInv
    <2>. QED
      BY <2>1, <2>2 DEF TableInv, Stored
  <1>3. CASE Tick
    BY <1>3 DEF Tick, TableInv, Stored
  <1>4. CASE UNCHANGED world
    BY <1>4 DEF world, TableInv, Stored
  <1>. QED
    BY <1>1, <1>2, <1>3, <1>4, Steps

\* The link of every row of a page works: GetQuery bounds create_time by the days
\* around the one in the id, and the row it links to is within them however the
\* clocks of the coordinator and of the id were set a day apart; only copies of it are
\* found with it.
THEOREM RowsOpen == Spec => []EveryRowOpens
  <1>1. TableInv => EveryRowOpens
    <2>. SUFFICES ASSUME TableInv, NEW r \in table, NEW s \in table
                  PROVE  s \in GetQuery(r.day, Query[r.n]) <=> Query[s.n] = Query[r.n]
      BY DEF EveryRowOpens, GetQuery
    <2>1. r \in Row /\ s \in Row /\ (Query[s.n] = Query[r.n] => s.created = r.created)
      BY DEF TableInv, Stored
    <2>2. ASSUME Query[s.n] = Query[r.n] PROVE s.day = r.day
      BY <2>1, <2>2, RowType, CopiesAssumption
    <2>3. s.created \in queryIDWindow(s.day)
      BY <2>1, RowType, WindowHolds
    <2>. QED
      BY <2>2, <2>3 DEF GetQuery, queryIDPredicates
  <1>. QED
    BY <1>1, TableInit, TableStep, PTL DEF Spec

-----------------------------------------------------------------------------
(* The order of a list.  The place of a row is the number of rows before   *)
(* it: with it the sorted sequence of a list is known to exist.            *)

\* No two rows of S have the same number.
Listable(S) == S \subseteq Row /\ IsFiniteSet(S) /\ \A r, s \in S : r.n = s.n => r = s

Before(v, S, r) == {x \in S : orderBy(v, x, r)}

Rank(v, S, r) == Cardinality(Before(v, S, r))

LEMMA ColumnType ==
    ASSUME NEW v, NEW r \in Row
    PROVE  sortColumn(v, r) \in Nat
  BY RowType DEF sortColumn

LEMMA PrecedesOrders ==
    ASSUME NEW v, NEW a \in Row, NEW b \in Row, NEW c \in Row
    PROVE  /\ ~Precedes(v, a, a)
           /\ Precedes(v, a, b) /\ Precedes(v, b, c) => Precedes(v, a, c)
           /\ a.n # b.n => Precedes(v, a, b) \/ Precedes(v, b, a)
  <1>1. /\ sortColumn(v, a) \in Nat /\ sortColumn(v, b) \in Nat /\ sortColumn(v, c) \in Nat
        /\ a.day \in Int /\ b.day \in Int /\ c.day \in Int
        /\ a.n \in Nat /\ b.n \in Nat /\ c.n \in Nat
        /\ Query[a.n] \in Nat /\ Query[b.n] \in Nat /\ Query[c.n] \in Nat
    BY ColumnType, RowType
  <1>. QED
    BY <1>1 DEF Precedes, IdPrecedes

LEMMA Orders ==
    ASSUME NEW v \in Views, NEW a \in Row, NEW b \in Row, NEW c \in Row
    PROVE  /\ ~orderBy(v, a, a)
           /\ orderBy(v, a, b) /\ orderBy(v, b, c) => orderBy(v, a, c)
           /\ a.n # b.n => orderBy(v, a, b) \/ orderBy(v, b, a)
  <1>1. CASE v.desc
    BY <1>1, PrecedesOrders DEF orderBy
  <1>2. CASE ~v.desc
    BY <1>2, PrecedesOrders DEF orderBy
  <1>. QED
    BY <1>1, <1>2

LEMMA RankType ==
    ASSUME NEW v, NEW S, IsFiniteSet(S), NEW r
    PROVE  IsFiniteSet(Before(v, S, r)) /\ Rank(v, S, r) \in Nat
  <1>1. Before(v, S, r) \subseteq S
    BY DEF Before
  <1>. QED
    BY <1>1, FS_Subset, FS_CardinalityType DEF Rank

\* A row has a smaller rank than what comes after it.
LEMMA RankGrows ==
    ASSUME NEW v \in Views, NEW S, Listable(S), NEW x \in S, NEW y \in S, orderBy(v, x, y)
    PROVE  Rank(v, S, x) < Rank(v, S, y)
  <1>1. x \in Row /\ y \in Row /\ S \subseteq Row /\ IsFiniteSet(S)
    BY DEF Listable
  <1>2. x \notin Before(v, S, x) /\ x \in Before(v, S, y)
    BY <1>1, Orders DEF Before
  <1>3. Before(v, S, x) \subseteq Before(v, S, y)
    BY <1>1, Orders DEF Before
  <1>4. Before(v, S, x) # Before(v, S, y)
    BY <1>2
  <1>5. IsFiniteSet(Before(v, S, y)) /\ Rank(v, S, x) \in Nat /\ Rank(v, S, y) \in Nat
    BY <1>1, RankType
  <1>6. Cardinality(Before(v, S, x)) <= Cardinality(Before(v, S, y))
        /\ Cardinality(Before(v, S, x)) # Cardinality(Before(v, S, y))
    BY <1>3, <1>4, <1>5, FS_Subset
  <1>. QED
    BY <1>5, <1>6 DEF Rank

LEMMA RankOrders ==
    ASSUME NEW v \in Views, NEW S, Listable(S), NEW x \in S, NEW y \in S
    PROVE  /\ Rank(v, S, x) < Rank(v, S, y) <=> orderBy(v, x, y)
           /\ Rank(v, S, x) = Rank(v, S, y) => x = y
  <1>1. Rank(v, S, x) \in Nat /\ Rank(v, S, y) \in Nat
    BY RankType DEF Listable
  <1>2. x = y \/ orderBy(v, x, y) \/ orderBy(v, y, x)
    BY Orders DEF Listable
  <1>3. CASE x = y
    <2>1. ~orderBy(v, x, y)
      BY <1>3, Orders DEF Listable
    <2>. QED
      BY <1>1, <1>3, <2>1
  <1>4. CASE orderBy(v, x, y)
    BY <1>1, <1>4, RankGrows
  <1>5. CASE orderBy(v, y, x)
    <2>1. Rank(v, S, y) < Rank(v, S, x)
      BY <1>5, RankGrows
    <2>2. ~orderBy(v, x, y)
      BY <1>1, <2>1, RankGrows
    <2>. QED
      BY <1>1, <2>1, <2>2
  <1>. QED
    BY <1>2, <1>3, <1>4, <1>5

LEMMA RankBound ==
    ASSUME NEW v \in Views, NEW S, Listable(S), NEW x \in S
    PROVE  Rank(v, S, x) \in 0..Cardinality(S) - 1 /\ Cardinality(S) \in Nat
  <1>1. x \in Row /\ IsFiniteSet(S)
    BY DEF Listable
  <1>2. Before(v, S, x) \subseteq S /\ x \notin Before(v, S, x)
    BY <1>1, Orders DEF Before
  <1>3. Before(v, S, x) # S
    BY <1>2
  <1>4. Cardinality(S) \in Nat /\ Rank(v, S, x) \in Nat
    BY <1>1, RankType, FS_CardinalityType
  <1>5. Cardinality(Before(v, S, x)) <= Cardinality(S) /\ Cardinality(Before(v, S, x)) # Cardinality(S)
    BY <1>1, <1>2, <1>3, FS_Subset
  <1>. QED
    BY <1>4, <1>5 DEF Rank

LEMMA IntervalCount ==
    ASSUME NEW n \in Nat
    PROVE  /\ IsFiniteSet(1..n) /\ Cardinality(1..n) = n
           /\ IsFiniteSet(0..n - 1) /\ Cardinality(0..n - 1) = n
  <1>1. 1 \in Int /\ 0 \in Int /\ n \in Int /\ n - 1 \in Int
    OBVIOUS
  <1>2. IsFiniteSet(1..n) /\ Cardinality(1..n) = IF 1 > n THEN 0 ELSE n - 1 + 1
    BY <1>1, FS_Interval, Zenon
  <1>3. IsFiniteSet(0..n - 1) /\ Cardinality(0..n - 1) = IF 0 > n - 1 THEN 0 ELSE n - 1 - 0 + 1
    BY <1>1, FS_Interval, Zenon
  <1>. QED
    BY <1>2, <1>3

\* Every rank is taken.
LEMMA RankTaken ==
    ASSUME NEW v \in Views, NEW S, Listable(S), NEW k \in 0..Cardinality(S) - 1
    PROVE  \E x \in S : Rank(v, S, x) = k
  <1>. DEFINE n == Cardinality(S)
              f == [x \in S |-> Rank(v, S, x)]
  <1>1. IsFiniteSet(S) /\ n \in Nat
    BY FS_CardinalityType DEF Listable
  <1>2. \A x \in S : Rank(v, S, x) \in 0..n - 1
    BY RankBound
  <1>3. \A x, y \in S : Rank(v, S, x) = Rank(v, S, y) => x = y
    BY RankOrders
  <1>4. f \in [S -> 0..n - 1] /\ \A x, y \in S : f[x] = f[y] => x = y
    BY <1>2, <1>3
  <1>5. f \in Injection(S, 0..n - 1)
    <2>. HIDE DEF f, n
    <2>. QED
      BY <1>4 DEF Injection, IsInjective
  <1>6. IsFiniteSet(0..n - 1) /\ Cardinality(0..n - 1) = n
    BY <1>1, IntervalCount
  <1>7. f \in Surjection(S, 0..n - 1)
    <2>. HIDE DEF f
    <2>. QED
      BY <1>5, <1>6, FS_Injection
  <1>8. \E x \in S : f[x] = k
    <2>. HIDE DEF f
    <2>. QED
      BY <1>7 DEF Surjection
  <1>. QED
    BY <1>8

\* The sorted sequence of a list has the row of rank k at place k + 1.
LEMMA SortedPlaces ==
    ASSUME NEW v \in Views, NEW S, Listable(S)
    PROVE  /\ Cardinality(S) \in Nat
           /\ InOrder(v, S) \in [1..Cardinality(S) -> S]
           /\ InOrder(v, S) \in Seq(S) /\ Len(InOrder(v, S)) = Cardinality(S)
           /\ \A x \in S : InOrder(v, S)[Rank(v, S, x) + 1] = x
           /\ \A i \in 1..Cardinality(S) : Rank(v, S, InOrder(v, S)[i]) = i - 1
  <1>. DEFINE n == Cardinality(S)
              L == InOrder(v, S)
              IsSorted(s) == \A i, j \in 1..n : i < j => orderBy(v, s[i], s[j])
              w == [i \in 1..n |-> CHOOSE x \in S : Rank(v, S, x) = i - 1]
  <1>1. IsFiniteSet(S) /\ n \in Nat
    BY FS_CardinalityType DEF Listable
  <1>2. \A i \in 1..n : w[i] \in S /\ Rank(v, S, w[i]) = i - 1
    <2>. TAKE i \in 1..n
    <2>1. i - 1 \in 0..n - 1
      BY <1>1
    <2>2. \E x \in S : Rank(v, S, x) = i - 1
      BY <2>1, RankTaken
    <2>. QED
      BY <2>2
  <1>3. w \in [1..n -> S] /\ IsSorted(w)
    <2>1. w \in [1..n -> S]
      BY <1>2
    <2>. HIDE DEF w
    <2>2. ASSUME NEW i \in 1..n, NEW j \in 1..n, i < j PROVE orderBy(v, w[i], w[j])
      <3>1. Rank(v, S, w[i]) < Rank(v, S, w[j])
        BY <1>2, <2>2
      <3>. QED
        BY <1>2, <3>1, RankOrders
    <2>. QED
      BY <2>1, <2>2
  <1>4. L \in [1..n -> S] /\ IsSorted(L)
    <2>. HIDE DEF w
    <2>. QED
      BY <1>3 DEF InOrder
  <1>5. L \in Seq(S) /\ Len(L) = n
    BY <1>1, <1>4
  <1>. HIDE DEF L, w
  <1>6. \A i \in 1..n : Rank(v, S, L[i]) = i - 1
    <2>. TAKE i \in 1..n
    <2>. DEFINE f == [j \in 1..i - 1 |-> L[j]]
                B == Before(v, S, L[i])
    <2>1. \A j \in 1..n : L[j] \in S /\ L[j] \in Row
      BY <1>4 DEF Listable
    <2>2. \A j, k \in 1..n : L[j] = L[k] => j = k
      <3>. SUFFICES ASSUME NEW j \in 1..n, NEW k \in 1..n, j < k, L[j] = L[k] PROVE FALSE
        OBVIOUS
      <3>. QED
        BY <1>4, <2>1, Orders
    <2>3. L \in Injection(1..n, S)
      BY <1>4, <2>2 DEF Injection, IsInjective
    <2>4. L \in Surjection(1..n, S)
      BY <1>1, <2>3, IntervalCount, FS_Injection
    <2>5. \A j \in 1..i - 1 : j \in 1..n /\ j < i
      BY <1>1
    <2>6. \A j \in 1..i - 1 : L[j] \in B
      BY <1>4, <2>1, <2>5 DEF Before
    <2>7. \A x \in B : \E j \in 1..i - 1 : L[j] = x
      <3>. TAKE x \in B
      <3>1. x \in S /\ orderBy(v, x, L[i])
        BY DEF Before
      <3>2. PICK j \in 1..n : L[j] = x
        BY <2>4, <3>1 DEF Surjection
      <3>3. j < i
        <4>. SUFFICES ASSUME i <= j PROVE FALSE
          BY <1>1
        <4>1. CASE i = j
          BY <3>1, <3>2, <4>1, <2>1, Orders
        <4>2. CASE i < j
          <5>1. orderBy(v, L[i], L[j])
            BY <1>4, <4>2
          <5>. QED
            BY <5>1, <3>1, <3>2, <2>1, Orders
        <4>. QED
          BY <4>1, <4>2
      <3>. QED
        BY <1>1, <3>2, <3>3
    <2>8. f \in Bijection(1..i - 1, B)
      <3>1. f \in [1..i - 1 -> B] /\ (\A x \in B : \E j \in 1..i - 1 : f[j] = x)
            /\ \A j, k \in 1..i - 1 : f[j] = f[k] => j = k
        BY <2>2, <2>5, <2>6, <2>7
      <3>. HIDE DEF f, B
      <3>. QED
        BY <3>1 DEF Bijection, Injection, Surjection, IsInjective
    <2>. HIDE DEF f, B
    <2>9. i - 1 \in Nat /\ IsFiniteSet(1..i - 1) /\ Cardinality(1..i - 1) = i - 1
      <3>1. i - 1 \in Nat
        BY <1>1
      <3>. QED
        BY <3>1, IntervalCount
    <2>10. Cardinality(B) = i - 1
      BY <2>8, <2>9, FS_Bijection DEF ExistsBijection
    <2>. QED
      BY <2>10 DEF B, Rank
  <1>7. \A x \in S : L[Rank(v, S, x) + 1] = x
    <2>. TAKE x \in S
    <2>1. Rank(v, S, x) + 1 \in 1..n /\ Rank(v, S, x) \in Nat
      BY RankBound
    <2>2. Rank(v, S, L[Rank(v, S, x) + 1]) = Rank(v, S, x)
      BY <1>6, <2>1
    <2>. QED
      BY <1>4, <2>1, <2>2, RankOrders
  <1>. QED
    BY <1>1, <1>4, <1>5, <1>6, <1>7 DEF L

-----------------------------------------------------------------------------
(* Pages.                                                                  *)

LEMMA MinOfTwo ==
    ASSUME NEW a \in Int, NEW b \in Int
    PROVE  Min({a, b}) = IF a <= b THEN a ELSE b
  <1>. DEFINE m == IF a <= b THEN a ELSE b
  <1>1. m \in {a, b} /\ \A y \in {a, b} : m <= y
    OBVIOUS
  <1>2. \A x \in {a, b} : (\A y \in {a, b} : x <= y) => x = m
    OBVIOUS
  <1>. HIDE DEF m
  <1>3. Min({a, b}) = m
    BY <1>1, <1>2, Zenon DEF Min
  <1>. QED
    BY <1>3 DEF m

WalkType ==
    /\ client \in {"cli", "ui"} /\ limit \in Int /\ view \in Views /\ next \in Nat /\ pages \in Nat
    /\ client = "ui" => next >= 1 /\ (page.hasNext => next <= maxUIPages)
    /\ cache = [o \in 0..apiMaxOffset |-> cache[o]]

\* The limit of a request is one that pageLimit leaves alone.
LEMMA PageSizeType ==
    ASSUME WalkType
    PROVE  /\ PageSize \in Nat /\ PageSize >= 1 /\ pageLimit(PageSize + 1) = PageSize + 1
           /\ client = "ui" => PageSize = uiLimit
  <1>1. /\ uiLimit \in Nat /\ uiLimit >= 1 /\ apiMaxLimit \in Nat /\ apiMaxLimit >= 1
        /\ CliMaxLimit \in Nat /\ CliMaxLimit >= 1 /\ apiDefaultLimit \in Nat /\ maxListLimit \in Nat
        /\ uiLimit < maxListLimit /\ apiMaxLimit < maxListLimit
    BY LimitsAssumption, PageLimitAssumption
  <1>2. ASSUME NEW n \in Nat, n >= 1, n < maxListLimit PROVE pageLimit(n + 1) = n + 1
    BY <1>1, <1>2 DEF pageLimit
  <1>3. CASE client = "ui"
    BY <1>1, <1>2, <1>3 DEF PageSize
  <1>4. CASE client = "cli"
    <2>. DEFINE v == IF limit < 1 THEN 1 ELSE limit
                m == Min({v, CliMaxLimit})
    <2>1. v \in Int /\ v >= 1
      BY DEF WalkType
    <2>. HIDE DEF v
    <2>2. m \in Int /\ m >= 1
      BY <1>1, <2>1, MinOfTwo
    <2>3. PageSize = clampLimit(m)
      BY <1>4 DEF PageSize, v
    <2>. HIDE DEF m
    <2>4. clampLimit(m) = Min({m, apiMaxLimit})
      BY <2>2 DEF clampLimit
    <2>5. PageSize \in Nat /\ PageSize >= 1 /\ PageSize < maxListLimit
      BY <1>1, <2>2, <2>3, <2>4, MinOfTwo
    <2>. QED
      BY <1>2, <1>4, <2>5
  <1>. QED
    BY <1>3, <1>4 DEF WalkType

\* What the store answers for the list S if k rows make a page, and the page that is
\* cut from it.
Window(v, k, S, o) == SubSeq(InOrder(v, S), o + 1, Min({Len(InOrder(v, S)), o + (k + 1)}))

Cut(v, k, S, o) == listAndTrim(Window(v, k, S, o), k).rows

LEMMA FreshRows ==
    ASSUME WalkType, NEW o \in Nat
    PROVE  Fresh(o).rows = Window(view, PageSize, Matching, o)
  BY PageSizeType, Zenon DEF Fresh, ListQueries, Sorted, Window

\* How many of n rows follow the first o, but no more than k.
Rest(n, o, k) == IF n <= o THEN 0 ELSE IF n <= o + k THEN n - o ELSE k

IsWindow(v, k, S, o) ==
    /\ Window(v, k, S, o) \in Seq(S) /\ Cardinality(S) \in Nat
    /\ Len(Window(v, k, S, o)) = Rest(Cardinality(S), o, k + 1)
    /\ \A i \in 1..Len(Window(v, k, S, o)) :
          o + i \in 1..Cardinality(S) /\ Window(v, k, S, o)[i] = InOrder(v, S)[o + i]

LEMMA WindowRows ==
    ASSUME NEW v \in Views, NEW k \in Nat, k >= 1, NEW S, Listable(S), NEW o \in Nat
    PROVE  IsWindow(v, k, S, o)
  <1>. DEFINE L == InOrder(v, S)
              n == Cardinality(S)
              m == Min({Len(L), o + (k + 1)})
  <1>1. n \in Nat /\ L \in Seq(S) /\ Len(L) = n
    BY SortedPlaces
  <1>2. k \in Nat /\ k >= 1 /\ o + (k + 1) \in Nat
    OBVIOUS
  <1>. HIDE DEF L, n
  <1>3. m = IF n <= o + (k + 1) THEN n ELSE o + (k + 1)
    BY <1>1, <1>2, MinOfTwo
  <1>4. m \in 0..n
    BY <1>1, <1>2, <1>3
  <1>. DEFINE w == SubSeq(L, o + 1, m)
  <1>. HIDE DEF m
  <1>5. /\ w \in Seq(S) /\ Len(w) = (IF o + 1 <= m THEN m - o ELSE 0)
        /\ \A i \in 1..Len(w) : w[i] = L[o + i]
    BY <1>1, <1>4
  <1>6. Window(v, k, S, o) = w
    BY DEF Window, w, m, L
  <1>. HIDE DEF w
  <1>7. Len(w) = Rest(n, o, k + 1)
    BY <1>1, <1>2, <1>3, <1>5 DEF Rest
  <1>8. \A i \in 1..Len(w) : o + i \in 1..n
    BY <1>1, <1>2, <1>7 DEF Rest
  <1>. QED
    BY <1>1, <1>5, <1>6, <1>7, <1>8 DEF L, n, IsWindow

\* The page holds the rows of the ranks from the offset on, as many as fit.
IsCut(v, k, S, o) ==
    /\ Cut(v, k, S, o) \in Seq(S)
    /\ Len(Cut(v, k, S, o)) = Rest(Cardinality(S), o, k)
    /\ \A i \in 1..Len(Cut(v, k, S, o)) : Rank(v, S, Cut(v, k, S, o)[i]) = o + i - 1
    /\ \A x \in S : Rank(v, S, x) \in o..o + k - 1 => x \in Range(Cut(v, k, S, o))

LEMMA CutRows ==
    ASSUME NEW v \in Views, NEW k \in Nat, k >= 1, NEW S, Listable(S), NEW o \in Nat
    PROVE  IsCut(v, k, S, o)
  <1>. DEFINE w == Window(v, k, S, o)
              n == Cardinality(S)
  <1>1. /\ w \in Seq(S) /\ n \in Nat
        /\ Len(w) = Rest(n, o, k + 1)
        /\ \A i \in 1..Len(w) : o + i \in 1..n /\ w[i] = InOrder(v, S)[o + i]
    <2>1. IsWindow(v, k, S, o)
      BY WindowRows
    <2>. QED
      BY <2>1 DEF IsWindow
  <1>. DEFINE c == Cut(v, k, S, o)
              m == Min({Len(w), k})
  <1>2. k \in Nat /\ k >= 1
    OBVIOUS
  <1>. HIDE DEF w, n
  <1>3. m = (IF Len(w) <= k THEN Len(w) ELSE k) /\ m \in 0..Len(w)
    <2>1. Len(w) \in Nat /\ Len(w) \in Int /\ k \in Int
      BY <1>1, <1>2
    <2>2. m = IF Len(w) <= k THEN Len(w) ELSE k
      BY <2>1, MinOfTwo
    <2>. QED
      BY <1>2, <2>1, <2>2
  <1>. HIDE DEF m
  <1>4. c = SubSeq(w, 1, m)
    BY DEF Cut, listAndTrim, w, m
  <1>. HIDE DEF c
  <1>5. c \in Seq(S) /\ Len(c) = m /\ \A i \in 1..m : c[i] = w[i]
    BY <1>1, <1>3, <1>4
  <1>6. Len(c) = Rest(n, o, k)
    BY <1>1, <1>2, <1>3, <1>5 DEF Rest
  <1>7. \A i \in 1..Len(c) : o + i \in 1..n /\ c[i] = InOrder(v, S)[o + i] /\ c[i] \in S
    BY <1>1, <1>3, <1>5
  <1>8. /\ \A x \in S : InOrder(v, S)[Rank(v, S, x) + 1] = x
        /\ \A i \in 1..n : Rank(v, S, InOrder(v, S)[i]) = i - 1
    BY SortedPlaces DEF n
  <1>9. \A i \in 1..Len(c) : Rank(v, S, c[i]) = o + i - 1
    BY <1>7, <1>8
  <1>10. ASSUME NEW x \in S, Rank(v, S, x) \in o..o + k - 1 PROVE x \in Range(c)
    <2>. DEFINE q == Rank(v, S, x)
    <2>1. q \in 0..n - 1 /\ q \in Nat /\ q >= o /\ q <= o + k - 1
      BY <1>2, <1>10, RankBound DEF n
    <2>. HIDE DEF q
    <2>2. q - o + 1 \in 1..Len(c) /\ o + (q - o + 1) = q + 1
      BY <1>1, <1>2, <1>6, <2>1 DEF Rest
    <2>3. c[q - o + 1] = x
      BY <1>7, <1>8, <2>2 DEF q
    <2>. QED
      BY <1>5, <2>2, <2>3 DEF Range
  <1>. QED
    BY <1>1, <1>5, <1>6, <1>9, <1>10 DEF c, n, IsCut

LEMMA CutRanks ==
    ASSUME NEW v \in Views, NEW k \in Nat, k >= 1, NEW S, Listable(S), NEW o \in Nat,
           NEW c, c = Cut(v, k, S, o)
    PROVE  \A i \in 1..Len(c) : Rank(v, S, c[i]) = o + i - 1
  <1>1. IsCut(v, k, S, o)
    BY CutRows
  <1>. QED
    BY <1>1 DEF IsCut

-----------------------------------------------------------------------------
(* Steps of a walk.                                                        *)

\* A page is asked for at the offset o and cut from A.
Turned(A, o) ==
    /\ o = Behind /\ o \in 0..apiMaxOffset /\ page.hasNext
    /\ A = Fresh(o) \/ (A = cache[o] /\ A # NoEntry)
    /\ page'.rows = listAndTrim(A.rows, PageSize).rows
    /\ page'.hasNext => Len(A.rows) > PageSize
    /\ ~page'.hasNext /\ (client = "ui" => next' <= maxUIPages) => ~(Len(A.rows) > PageSize)
    /\ client = "cli" => next' = o + Len(page'.rows)
    /\ client = "ui" => /\ next' = next + 1
                        /\ page'.hasNext => next' <= maxUIPages
    /\ data' = A.data
    /\ seen' = seen \cup Range(page'.rows)
    /\ steady' = IF pages = 0 THEN A.data.list ELSE steady \cap A.data.list
    /\ gone' = gone \cup (data.list \ A.data.list)
    /\ forth' => forth /\ A.data.at >= data.at
    /\ quiet' => (quiet \/ pages = 0) /\ A.rows = Fresh(o).rows
    /\ news' = (Range(page'.rows) \ seen # {})
    /\ pages' = pages + 1
    /\ UNCHANGED <<world, client, limit, view>>
    /\ cache' = [p \in 0..apiMaxOffset |->
                    IF p < Behind' THEN NoEntry ELSE IF p = o THEN A ELSE cache[p]]

LEMMA Times ==
    ASSUME NEW a \in Int, NEW b \in Int, NEW u \in Nat, a <= b
    PROVE  /\ a * u <= b * u /\ a * u \in Int /\ b * u \in Int /\ (a + 1) * u = a * u + u
           /\ a \in Nat => a * u \in Nat
  BY Z3

LEMMA CliBehind ==
    ASSUME NEW n \in Nat
    PROVE  /\ parseOffset(n) \in 0..apiMaxOffset /\ parseOffset(n) <= n
           /\ n <= apiMaxOffset => parseOffset(n) = n
           /\ n > apiMaxOffset => parseOffset(n) = apiMaxOffset
  BY LimitsAssumption, MinOfTwo DEF parseOffset

LEMMA UiBehind ==
    ASSUME NEW n \in Nat, n >= 1
    PROVE  /\ (n - 1) * uiLimit \in Nat
           /\ (n + 1 - 1) * uiLimit = (n - 1) * uiLimit + uiLimit
           /\ n <= maxUIPages => (n - 1) * uiLimit \in 0..apiMaxOffset
  <1>1. uiLimit \in Nat /\ maxUIPages \in Nat /\ apiMaxOffset \in Nat /\ n - 1 \in Nat
        /\ (maxUIPages - 1) * uiLimit <= apiMaxOffset
    BY LimitsAssumption, PagesAssumption
  <1>2. (n - 1) * uiLimit \in Nat /\ (n - 1 + 1) * uiLimit = (n - 1) * uiLimit + uiLimit
    BY <1>1, Times
  <1>3. ASSUME n <= maxUIPages PROVE (n - 1) * uiLimit \in 0..apiMaxOffset
    <2>1. n - 1 <= maxUIPages - 1 /\ n - 1 \in Int /\ maxUIPages - 1 \in Int
      BY <1>1, <1>3
    <2>2. (n - 1) * uiLimit <= (maxUIPages - 1) * uiLimit /\ (maxUIPages - 1) * uiLimit \in Int
      BY <1>1, <2>1, Times
    <2>. QED
      BY <1>1, <1>2, <2>2
  <1>4. n + 1 - 1 = n - 1 + 1
    OBVIOUS
  <1>. QED
    BY <1>2, <1>3, <1>4

LEMMA RunListTurns ==
    ASSUME WalkType, RunList
    PROVE  \E A : \E o : Turned(A, o)
  <1>. DEFINE o == parseOffset(next)
  <1>1. parseOffset(IF next < 0 THEN 0 ELSE next) = o
    BY DEF WalkType
  <1>2. client = "cli" /\ page.hasNext /\ Behind = o
    BY DEF RunList, Walking, Behind
  <1>3. o \in 0..apiMaxOffset
    BY CliBehind DEF WalkType
  <1>. HIDE DEF o
  <1>4. PICK A : LET got == handleAPIListQueries(A.rows, PageSize, o) IN
                   /\ Show(got, A, Fresh(o)) /\ next' = NextOffset(got) /\ CachedListQueries(o, A)
    BY <1>1 DEF RunList
  <1>. DEFINE t == listAndTrim(A.rows, PageSize)
              g == handleAPIListQueries(A.rows, PageSize, o)
  <1>5. g.rows = t.rows /\ g.hasNext = t.hasNext /\ g.offset = o
    BY Zenon DEF handleAPIListQueries
  <1>6. t.hasNext = (Len(A.rows) > PageSize)
    BY Zenon DEF listAndTrim
  <1>7. Show(g, A, Fresh(o)) /\ next' = NextOffset(g) /\ CachedListQueries(o, A)
    BY <1>4, Zenon
  <1>. HIDE DEF g, t
  <1>8. page' = [rows |-> g.rows, hasNext |-> g.hasNext]
    BY <1>7 DEF Show
  <1>9. page'.rows = t.rows /\ page'.hasNext = (Len(A.rows) > PageSize)
    BY <1>5, <1>6, <1>8, Zenon
  <1>10. next' = o + Len(page'.rows)
    BY <1>5, <1>7, <1>9, Zenon DEF NextOffset
  <1>11. /\ A = Fresh(o) \/ (A = cache[o] /\ A # NoEntry)
         /\ cache' = [p \in 0..apiMaxOffset |->
                         IF p < Behind' THEN NoEntry ELSE IF p = o THEN A ELSE cache[p]]
    <2>1. DOMAIN cache = 0..apiMaxOffset
      BY DEF WalkType
    <2>. QED
      BY <1>7, <2>1, Zenon DEF CachedListQueries, listKey
  <1>12. /\ data' = A.data /\ seen' = seen \cup Range(page'.rows)
         /\ steady' = (IF pages = 0 THEN A.data.list ELSE steady \cap A.data.list)
         /\ gone' = gone \cup (data.list \ A.data.list)
         /\ pages' = pages + 1 /\ UNCHANGED <<world, client, limit, view>>
         /\ news' = (Range(page'.rows) \ seen # {})
    BY <1>5, <1>7, <1>9, Zenon DEF Show
  <1>13. /\ forth' => forth /\ A.data.at >= data.at
         /\ quiet' => (quiet \/ pages = 0) /\ A.rows = Fresh(o).rows
    BY <1>7, Zenon DEF Show
  <1>14. Turned(A, o)
    BY <1>2, <1>3, <1>9, <1>10, <1>11, <1>12, <1>13, Zenon DEF Turned, t
  <1>. QED
    BY <1>14

LEMMA DashboardTurns ==
    ASSUME WalkType, Dashboard
    PROVE  \E A : \E o : Turned(A, o)
  <1>. DEFINE o == (next - 1) * uiLimit
  <1>1. client = "ui" /\ page.hasNext /\ Behind = o
    BY DEF Dashboard, Walking, Behind
  <1>2. next \in Nat /\ next >= 1 /\ next <= maxUIPages /\ maxUIPages \in Nat
    BY <1>1, LimitsAssumption DEF WalkType
  <1>3. o \in 0..apiMaxOffset
    BY <1>2, UiBehind
  <1>4. buildListView(next) = next
    <2>1. (IF next > 1 THEN next ELSE 1) = next
      BY <1>2
    <2>. QED
      BY <1>2, <2>1, MinOfTwo DEF buildListView
  <1>. HIDE DEF o
  <1>5. PICK A : /\ Show(populateRows(A.rows, next), A, Fresh(o)) /\ next' = nextHref(next)
                 /\ CachedListQueries(o, A)
    BY <1>4 DEF Dashboard, o
  <1>6. PageSize = uiLimit
    BY <1>1 DEF PageSize
  <1>. DEFINE t == listAndTrim(A.rows, PageSize)
              g == populateRows(A.rows, next)
  <1>7. g.rows = t.rows /\ g.hasNext = (t.hasNext /\ next < maxUIPages)
    BY <1>6, Zenon DEF populateRows
  <1>8. t.hasNext = (Len(A.rows) > PageSize)
    BY Zenon DEF listAndTrim
  <1>. HIDE DEF g, t
  <1>9. page' = [rows |-> g.rows, hasNext |-> g.hasNext]
    BY <1>5 DEF Show, g
  <1>10. page'.rows = t.rows /\ page'.hasNext = (Len(A.rows) > PageSize /\ next < maxUIPages)
    BY <1>7, <1>8, <1>9, Zenon
  <1>11. next' = next + 1 /\ (next < maxUIPages <=> next + 1 <= maxUIPages)
    BY <1>2, <1>5 DEF nextHref
  <1>12. /\ page'.hasNext => Len(A.rows) > PageSize
         /\ ~page'.hasNext /\ (client = "ui" => next' <= maxUIPages) => ~(Len(A.rows) > PageSize)
         /\ page'.hasNext => next' <= maxUIPages
    BY <1>1, <1>10, <1>11, Zenon
  <1>13. /\ A = Fresh(o) \/ (A = cache[o] /\ A # NoEntry)
         /\ cache' = [p \in 0..apiMaxOffset |->
                         IF p < Behind' THEN NoEntry ELSE IF p = o THEN A ELSE cache[p]]
    <2>1. DOMAIN cache = 0..apiMaxOffset
      BY DEF WalkType
    <2>. QED
      BY <1>5, <2>1, Zenon DEF CachedListQueries, listKey
  <1>14. Show(g, A, Fresh(o))
    BY <1>5 DEF g
  <1>15. /\ data' = A.data /\ seen' = seen \cup Range(page'.rows)
         /\ steady' = (IF pages = 0 THEN A.data.list ELSE steady \cap A.data.list)
         /\ gone' = gone \cup (data.list \ A.data.list)
         /\ pages' = pages + 1 /\ UNCHANGED <<world, client, limit, view>>
         /\ news' = (Range(page'.rows) \ seen # {})
    BY <1>7, <1>10, <1>14, Zenon DEF Show
  <1>16. /\ forth' => forth /\ A.data.at >= data.at
         /\ quiet' => (quiet \/ pages = 0) /\ A.rows = Fresh(o).rows
    BY <1>14, Zenon DEF Show
  <1>17. client # "cli"
    BY <1>1
  <1>18. Turned(A, o)
    BY <1>1, <1>3, <1>10, <1>11, <1>12, <1>13, <1>15, <1>16, <1>17, Zenon DEF Turned, t
  <1>. QED
    BY <1>18

-----------------------------------------------------------------------------
(* Answers and the lists they are cut from.  Rows leave the table, and the *)
(* range, oldest first.  So what a list has lost since another answer was  *)
(* made is older than what it has kept.                                    *)

Age == now + Cardinality(ever)

Allowed(r) == view.failed => r.n \in FailedIds

\* The lists of the answers that are in the cache, and of the last one shown.
Made == {cache[o].data : o \in {q \in 0..apiMaxOffset : cache[q] # NoEntry}}
           \cup (IF pages > 0 THEN {data} ELSE {})

GoodData(D) ==
    /\ Listable(D.list) /\ D.at \in Int /\ D.at <= Age
    /\ \A x \in D.list : x.created < now /\ x \in ever /\ Allowed(x)
    /\ \A g, r \in D.list :
          r \in table /\ r.created >= now - Width /\ g.created >= r.created => g \in table
    /\ D.at = Age => Matching \subseteq D.list

\* Of two lists, the later one has all of the earlier one that is at least as new as
\* anything they share.
InTurn(D, E) ==
    D.at <= E.at =>
        \A g \in D.list, r \in D.list \cap E.list : g.created >= r.created => g \in E.list

MadeInv == \A D \in Made : GoodData(D) /\ \A E \in Made : InTurn(D, E)

Latest == [list |-> Matching, at |-> Age]

LEMMA FreshData == \A o : Fresh(o).data = Latest
  BY Zenon DEF Fresh, Latest, Age

LEMMA MatchingIs ==
    \A r : r \in Matching <=> /\ r \in table /\ r.created >= now - Width /\ r.created < now
                              /\ Allowed(r)
  BY DEF Matching, listPredicates, buildQueryFilter, Allowed

LEMMA AgeType == TableInv => Cardinality(ever) \in Nat /\ Age \in Nat /\ now \in Nat
  BY FS_CardinalityType DEF TableInv, Age

LEMMA LatestGood ==
    ASSUME TableInv
    PROVE  GoodData(Latest) /\ Latest.list = Matching /\ Latest.at = Age
  <1>1. Matching \subseteq table
    BY MatchingIs
  <1>2. Listable(Matching)
    BY <1>1, FS_Subset DEF Listable, TableInv, Stored
  <1>3. Latest.list = Matching /\ Latest.at = Age
    BY DEF Latest
  <1>4. \A x \in Matching : x \in table /\ x.created < now /\ x \in ever /\ Allowed(x)
    BY MatchingIs DEF TableInv, Stored
  <1>5. Age \in Int /\ Age <= Age
    BY AgeType
  <1>. QED
    BY <1>2, <1>3, <1>4, <1>5, Zenon DEF GoodData

\* A fresh answer is in turn with all there are.
LEMMA LatestInTurn ==
    ASSUME TableInv, NEW D, GoodData(D)
    PROVE  InTurn(D, Latest) /\ InTurn(Latest, D)
  <1>1. Latest.list = Matching /\ Latest.at = Age
    BY DEF Latest
  <1>2. ASSUME NEW g \in D.list, NEW r \in D.list \cap Matching, g.created >= r.created
        PROVE  g \in Matching
    <2>1. r \in table /\ r.created >= now - Width /\ r \in D.list
      BY <1>2, MatchingIs
    <2>2. g \in table /\ g.created < now /\ Allowed(g)
      BY <1>2, <2>1, Zenon DEF GoodData
    <2>3. g.created >= now - Width
      <3>1. g.created \in Nat /\ r.created \in Nat
        BY <2>1, RowType DEF GoodData, Listable
      <3>2. now - Width \in Int
        BY AgeType, TimeAssumption
      <3>. QED
        BY <1>2, <2>1, <3>1, <3>2
    <2>. QED
      BY <2>2, <2>3, MatchingIs
  <1>3. InTurn(D, Latest)
    BY <1>1, <1>2, Zenon DEF InTurn
  <1>4. ASSUME Age <= D.at PROVE Matching \subseteq D.list
    <2>1. D.at = Age
      BY <1>4, AgeType DEF GoodData
    <2>. QED
      BY <2>1 DEF GoodData
  <1>5. InTurn(Latest, D)
    BY <1>1, <1>4, Zenon DEF InTurn
  <1>. QED
    BY <1>3, <1>5

LEMMA MadeIs ==
    ASSUME NEW D
    PROVE  D \in Made <=> \/ \E o \in 0..apiMaxOffset : cache[o] # NoEntry /\ D = cache[o].data
                          \/ pages > 0 /\ D = data
  BY Zenon DEF Made

\* Nothing changes but that an answer of the store is kept or shown.
LEMMA MadeGrows ==
    ASSUME TableInv, MadeInv, UNCHANGED <<world, view>>, Made' \subseteq Made \cup {Latest}
    PROVE  MadeInv'
  <1>1. now' = now /\ table' = table /\ ever' = ever /\ view' = view
    BY DEF world
  <1>2. Age' = Age /\ Matching' = Matching /\ \A r : Allowed(r)' <=> Allowed(r)
    BY <1>1 DEF Age, Matching, listPredicates, buildQueryFilter, Allowed
  <1>3. \A D : GoodData(D) => GoodData(D)'
    BY <1>1, <1>2 DEF GoodData, Allowed
  <1>4. \A D \in Made \cup {Latest} : GoodData(D)
    BY LatestGood DEF MadeInv
  <1>5. \A D, E \in Made \cup {Latest} : InTurn(D, E)
    <2>. SUFFICES ASSUME NEW D \in Made \cup {Latest}, NEW E \in Made \cup {Latest}
                  PROVE  InTurn(D, E)
      OBVIOUS
    <2>1. CASE D \in Made /\ E \in Made
      BY <2>1, Zenon DEF MadeInv
    <2>2. CASE D = Latest \/ E = Latest
      BY <2>2, <1>4, LatestInTurn
    <2>. QED
      BY <2>1, <2>2
  <1>. QED
    BY <1>3, <1>4, <1>5 DEF MadeInv

\* No answer is made, while rows are stored or pruned or time passes.
LEMMA MadeStays ==
    ASSUME TableInv, MadeInv, view' = view, Made' \subseteq Made,
           Tick \/ (\E r \in Row : Store(r)) \/ (\E t \in 1..MaxTime : Prune(t))
    PROVE  MadeInv'
  <1>. SUFFICES ASSUME NEW D \in Made PROVE GoodData(D)'
    BY DEF MadeInv, InTurn
  <1>1. GoodData(D)
    BY DEF MadeInv
  <1>2. /\ Listable(D.list) /\ D.at \in Int /\ D.at <= Age
        /\ \A x \in D.list : x.created < now /\ x \in ever /\ Allowed(x)
        /\ \A g, r \in D.list :
              r \in table /\ r.created >= now - Width /\ g.created >= r.created => g \in table
        /\ D.at = Age => Matching \subseteq D.list
    BY <1>1, Zenon DEF GoodData
  <1>3. /\ now \in Nat /\ Width \in Nat /\ Age \in Nat /\ Cardinality(ever) \in Nat
        /\ \A x \in D.list : x \in Row /\ x.created \in Nat
    BY <1>2, AgeType, TimeAssumption, RowType DEF Listable
  <1>4. \A x : Allowed(x)' <=> Allowed(x)
    BY DEF Allowed
  <1>5. CASE Tick
    <2>1. now' = now + 1 /\ table' = table /\ ever' = ever
      BY <1>5 DEF Tick
    <2>2. Age' = Age + 1
      BY <1>3, <2>1 DEF Age
    <2>3. D.at <= Age' /\ D.at # Age'
      BY <1>2, <1>3, <2>2
    <2>4. \A x \in D.list : x.created < now' /\ x \in ever' /\ Allowed(x)
      BY <1>2, <1>3, <2>1
    <2>5. ASSUME NEW g \in D.list, NEW r \in D.list,
                 r \in table, r.created >= now' - Width, g.created >= r.created
          PROVE  g \in table
      <3>1. r.created >= now - Width
        BY <1>3, <2>1, <2>5
      <3>. QED
        BY <1>2, <2>5, <3>1, Zenon
    <2>. QED
      BY <1>2, <1>4, <2>1, <2>3, <2>4, <2>5 DEF GoodData, Listable
  <1>6. ASSUME NEW q \in Row, Store(q) PROVE GoodData(D)'
    <2>1. now' = now /\ table' = table \cup {q} /\ ever' = ever \cup {q} /\ q \notin ever
      BY <1>6 DEF Store
    <2>2. Cardinality(ever') = Cardinality(ever) + 1
      BY <2>1, FS_AddElement DEF TableInv
    <2>3. Age' = Age + 1
      BY <1>3, <2>1, <2>2 DEF Age
    <2>4. D.at <= Age' /\ D.at # Age'
      BY <1>2, <1>3, <2>3
    <2>5. q \notin D.list
      BY <1>2, <2>1
    <2>6. \A x \in D.list : x.created < now' /\ x \in ever' /\ Allowed(x)
      BY <1>2, <2>1, Zenon
    <2>7. \A g, r \in D.list :
             r \in table' /\ r.created >= now' - Width /\ g.created >= r.created => g \in table'
      BY <1>2, <2>1, <2>5, Zenon
    <2>. QED
      BY <1>2, <1>4, <2>4, <2>6, <2>7 DEF GoodData, Listable
  <1>7. ASSUME NEW t \in 1..MaxTime, Prune(t) PROVE GoodData(D)'
    <2>1. now' = now /\ ever' = ever /\ table' = {r \in table : r.created >= t}
      BY <1>7 DEF Prune
    <2>2. Age' = Age
      BY <2>1 DEF Age
    <2>3. Matching' \subseteq Matching
      BY <2>1 DEF Matching, listPredicates, buildQueryFilter
    <2>4. ASSUME NEW g \in D.list, NEW r \in D.list,
                 r \in table', r.created >= now' - Width, g.created >= r.created
          PROVE  g \in table'
      <3>1. r \in table /\ r.created >= t /\ t \in Nat
        BY <2>1, <2>4
      <3>2. g \in table
        BY <1>2, <2>1, <2>4, <3>1, Zenon
      <3>3. g.created >= t
        BY <1>3, <2>4, <3>1
      <3>. QED
        BY <2>1, <3>2, <3>3
    <2>5. D.at = Age' => Matching' \subseteq D.list
      BY <1>2, <2>2, <2>3
    <2>6. \A x \in D.list : x.created < now' /\ x \in ever' /\ Allowed(x)
      BY <1>2, <2>1, Zenon
    <2>7. D.at <= Age'
      BY <1>2, <2>2
    <2>. QED
      BY <1>2, <1>4, <2>4, <2>5, <2>6, <2>7 DEF GoodData, Listable
  <1>. QED
    BY <1>5, <1>6, <1>7

-----------------------------------------------------------------------------
(* The inductive invariant of a walk.                                      *)

\* An entry of the cache is the answer for its offset.
EntryInv ==
    \A o \in 0..apiMaxOffset :
        cache[o] # NoEntry => cache[o].rows = Window(view, PageSize, cache[o].data.list, o)

StartInv == pages = 0 => data = NoData /\ seen = {} /\ gone = {} /\ next = FirstPage(client)

\* No row before r went away during the walk.
Undisturbed(r) == \A g \in gone : ~orderBy(view, g, r)

\* A row that was there all along, undisturbed and not yet shown is behind everything
\* that was shown, and not in front of the page that is asked for next.
ShownInv ==
    /\ seen \subseteq Row /\ gone \subseteq Row
    /\ pages > 0 =>
          /\ steady \subseteq data.list
          /\ forth => \A g \in gone, r \in steady : g.created < r.created
          /\ \A r \in steady \ seen : Undisturbed(r) =>
                /\ \A s \in seen : orderBy(view, s, r)
                /\ page.hasNext => Rank(view, data.list, r) >= Behind

\* As long as nothing changes, the last page is what the store would answer now.
QuietInv ==
    quiet =>
        /\ pages > 0
        /\ \E o \in Nat :
              /\ page.rows = Cut(view, PageSize, Matching, o)
              /\ ~page.hasNext /\ (client = "ui" => next <= maxUIPages) =>
                    ~(Len(Window(view, PageSize, Matching, o)) > PageSize)

ListingInv == TableInv /\ WalkType /\ MadeInv /\ EntryInv /\ StartInv /\ ShownInv /\ QuietInv

\* The answer of a step of the walk.
LEMMA AnswerGood ==
    ASSUME TableInv, WalkType, MadeInv, EntryInv, NEW A, NEW o, Turned(A, o)
    PROVE  /\ o \in Nat /\ A.data \in Made \cup {Latest} /\ GoodData(A.data)
           /\ A.rows = Window(view, PageSize, A.data.list, o)
           /\ page'.rows = Cut(view, PageSize, A.data.list, o)
  <1>1. o \in 0..apiMaxOffset /\ (A = Fresh(o) \/ (A = cache[o] /\ A # NoEntry))
        /\ page'.rows = listAndTrim(A.rows, PageSize).rows
    BY DEF Turned
  <1>2. o \in Nat
    BY <1>1, LimitsAssumption
  <1>3. CASE A = Fresh(o)
    <2>1. A.data = Latest /\ Latest.list = Matching
      BY <1>3, FreshData, LatestGood
    <2>2. A.rows = Window(view, PageSize, A.data.list, o)
      BY <1>2, <1>3, <2>1, FreshRows
    <2>3. page'.rows = Cut(view, PageSize, A.data.list, o)
      BY <1>1, <2>2, Zenon DEF Cut
    <2>. QED
      BY <1>2, <2>1, <2>2, <2>3, LatestGood
  <1>4. CASE A = cache[o] /\ A # NoEntry
    <2>1. A.data \in Made
      BY <1>1, <1>4, MadeIs
    <2>2. A.rows = Window(view, PageSize, A.data.list, o)
      BY <1>1, <1>4, Zenon DEF EntryInv
    <2>3. page'.rows = Cut(view, PageSize, A.data.list, o)
      BY <1>1, <2>2, Zenon DEF Cut
    <2>. QED
      BY <1>2, <2>1, <2>2, <2>3 DEF MadeInv
  <1>. QED
    BY <1>1, <1>3, <1>4

LEMMA AnswerInTurn ==
    ASSUME TableInv, MadeInv, NEW D \in Made, NEW E \in Made \cup {Latest}
    PROVE  InTurn(D, E)
  <1>1. GoodData(D)
    BY DEF MadeInv
  <1>2. CASE E \in Made
    BY <1>2 DEF MadeInv
  <1>3. CASE E = Latest
    BY <1>1, <1>3, LatestInTurn
  <1>. QED
    BY <1>2, <1>3

\* Pages follow each other without a gap.
LEMMA TurnMoves ==
    ASSUME TableInv, WalkType, MadeInv, EntryInv, NEW A, NEW o, Turned(A, o)
    PROVE  /\ WalkType' /\ PageSize' = PageSize
           /\ Len(page'.rows) \in Nat /\ Len(page'.rows) <= PageSize
           /\ Behind' \in Int /\ Behind' <= o + PageSize
  <1>. DEFINE S == A.data.list
              c == page'.rows
  <1>1. Listable(S) /\ o \in Nat /\ c = Cut(view, PageSize, S, o)
    BY AnswerGood DEF GoodData
  <1>2. PageSize \in Nat /\ PageSize >= 1 /\ (client = "ui" => PageSize = uiLimit) /\ view \in Views
    BY PageSizeType DEF WalkType
  <1>. HIDE DEF c, S
  <1>3. c \in Seq(S) /\ Len(c) = Rest(Cardinality(S), o, PageSize)
    <2>. DEFINE k == PageSize
    <2>1. k \in Nat /\ k >= 1 /\ c = Cut(view, k, S, o)
      BY <1>1, <1>2
    <2>. HIDE DEF k
    <2>2. Cut(view, k, S, o) \in Seq(S) /\ Len(Cut(view, k, S, o)) = Rest(Cardinality(S), o, k)
      BY <1>1, <1>2, <2>1, CutRows DEF IsCut
    <2>. QED
      BY <2>1, <2>2 DEF k
  <1>4. Cardinality(S) \in Nat
    BY <1>1, FS_CardinalityType DEF Listable
  <1>5. Len(c) \in Nat /\ Len(c) <= PageSize
    BY <1>1, <1>2, <1>3, <1>4 DEF Rest
  <1>6. /\ client' = client /\ limit' = limit /\ view' = view /\ pages' = pages + 1
        /\ client = "cli" => next' = o + Len(c)
        /\ client = "ui" => next' = next + 1 /\ (page'.hasNext => next' <= maxUIPages)
        /\ o = Behind
        /\ cache' = [p \in 0..apiMaxOffset |->
                        IF p < Behind' THEN NoEntry ELSE IF p = o THEN A ELSE cache[p]]
    BY Zenon DEF Turned, c
  <1>7. PageSize' = PageSize
    BY <1>6 DEF PageSize
  <1>8. client \in {"cli", "ui"} /\ limit \in Int /\ next \in Nat /\ pages \in Nat
        /\ (client = "ui" => next >= 1)
    BY DEF WalkType
  <1>9. next' \in Nat /\ (client = "ui" => next' >= 1)
    BY <1>1, <1>5, <1>6, <1>8
  <1>10. WalkType'
    <2>1. cache' = [p \in 0..apiMaxOffset |-> cache'[p]]
      BY <1>6, Zenon
    <2>2. pages' \in Nat
      BY <1>6, <1>8
    <2>3. client' = "ui" => next' >= 1 /\ (page'.hasNext => next' <= maxUIPages)
      BY <1>6, <1>9, Zenon
    <2>4. client' \in {"cli", "ui"} /\ limit' \in Int /\ view' \in Views
      BY <1>2, <1>6, <1>8
    <2>. QED
      BY <1>9, <2>1, <2>2, <2>3, <2>4, Zenon DEF WalkType
  <1>11. Behind' \in Int /\ Behind' <= o + PageSize
    <2>1. CASE client = "cli"
      <3>1. Behind' = parseOffset(next')
        BY <1>6, <2>1 DEF Behind
      <3>2. parseOffset(next') \in 0..apiMaxOffset /\ parseOffset(next') <= next'
        BY <1>9, CliBehind
      <3>. QED
        BY <1>1, <1>2, <1>5, <1>6, <2>1, <3>1, <3>2, LimitsAssumption
    <2>2. CASE client = "ui"
      <3>1. Behind' = (next + 1 - 1) * uiLimit /\ o = (next - 1) * uiLimit /\ PageSize = uiLimit
        <4>1. Behind = (next - 1) * uiLimit /\ Behind' = (next' - 1) * uiLimit /\ next' = next + 1
          BY <1>6, <2>2, Zenon DEF Behind
        <4>2. o = Behind /\ PageSize = uiLimit
          BY <1>2, <1>6, <2>2, Zenon
        <4>3. next' - 1 = next + 1 - 1
          BY <4>1, <1>8
        <4>. QED
          BY <4>1, <4>2, <4>3, Zenon
      <3>2. (next - 1) * uiLimit \in Nat /\ (next + 1 - 1) * uiLimit = (next - 1) * uiLimit + uiLimit
        BY <1>8, <2>2, UiBehind
      <3>3. Behind' = o + PageSize
        BY <3>1, <3>2, Zenon
      <3>. QED
        BY <1>1, <1>2, <3>3
    <2>. QED
      BY <1>8, <2>1, <2>2
  <1>. QED
    BY <1>5, <1>7, <1>10, <1>11 DEF c

\* The offset of the first page.
LEMMA FirstBehind ==
    ASSUME WalkType, StartInv, pages = 0
    PROVE  Behind = 0
  <1>1. CASE client = "cli"
    <2>1. next = 0 /\ Behind = parseOffset(next)
      BY <1>1 DEF StartInv, FirstPage, Behind
    <2>2. parseOffset(0) = 0
      BY CliBehind, LimitsAssumption
    <2>. QED
      BY <2>1, <2>2
  <1>2. CASE client = "ui"
    <2>1. Behind = (1 - 1) * uiLimit /\ uiLimit \in Nat
      BY <1>2, LimitsAssumption DEF StartInv, FirstPage, Behind
    <2>. QED
      BY <2>1
  <1>. QED
    BY <1>1, <1>2 DEF WalkType

\* Rows that are undisturbed only move down.
LEMMA RankKept ==
    ASSUME NEW v \in Views, NEW S, NEW T, IsFiniteSet(S), IsFiniteSet(T), NEW r,
           \A x \in S \ T : ~orderBy(v, x, r)
    PROVE  Rank(v, S, r) <= Rank(v, T, r) /\ Rank(v, S, r) \in Nat /\ Rank(v, T, r) \in Nat
  <1>1. Before(v, S, r) \subseteq Before(v, T, r)
    BY DEF Before
  <1>. QED
    BY <1>1, RankType, FS_Subset DEF Rank

LEMMA TurnShown ==
    ASSUME ListingInv, NEW A, NEW o, Turned(A, o)
    PROVE  ShownInv'
  <1>. USE DEF ListingInv
  <1>. DEFINE S == A.data.list
              c == page'.rows
              k == PageSize
  <1>1. /\ seen' = seen \cup Range(c) /\ gone' = gone \cup (data.list \ S) /\ data'.list = S
        /\ pages' = pages + 1 /\ view' = view
        /\ steady' = (IF pages = 0 THEN S ELSE steady \cap S)
        /\ forth' => forth /\ A.data.at >= data.at
        /\ o = Behind /\ page.hasNext
    BY Zenon DEF Turned
  <1>2. /\ o \in Nat /\ A.data \in Made \cup {Latest} /\ Listable(S) /\ A.data.at \in Int
        /\ c = Cut(view, k, S, o)
    BY AnswerGood DEF GoodData
  <1>3. k \in Nat /\ k >= 1 /\ view \in Views /\ pages \in Nat
    BY PageSizeType DEF WalkType
  <1>4. Len(c) \in Nat /\ Len(c) <= k /\ Behind' \in Int /\ Behind' <= o + k
    BY TurnMoves
  <1>. HIDE DEF S, c, k
  <1>5. /\ c \in Seq(S)
        /\ \A j \in 1..Len(c) : Rank(view, S, c[j]) = o + j - 1
        /\ \A x \in S : Rank(view, S, x) \in o..o + k - 1 => x \in Range(c)
    <2>1. Cut(view, k, S, o) \in Seq(S)
      BY <1>2, <1>3, CutRows DEF IsCut
    <2>2. \A j \in 1..Len(Cut(view, k, S, o)) : Rank(view, S, Cut(view, k, S, o)[j]) = o + j - 1
      BY <1>2, <1>3, CutRows DEF IsCut
    <2>3. \A x \in S : Rank(view, S, x) \in o..o + k - 1 => x \in Range(Cut(view, k, S, o))
      BY <1>2, <1>3, CutRows DEF IsCut
    <2>. QED
      BY <2>1, <2>2, <2>3, <1>2
  <1>6. S \subseteq Row /\ IsFiniteSet(S) /\ Range(c) \subseteq S
    BY <1>2, <1>5 DEF Listable, Range
  <1>7. /\ pages = 0 => data.list = {} /\ seen = {} /\ gone = {}
        /\ pages > 0 => data \in Made /\ Listable(data.list) /\ data.at \in Int
    <2>1. pages = 0 => data.list = {} /\ seen = {} /\ gone = {}
      BY DEF StartInv, NoData
    <2>2. pages > 0 => data \in Made
      BY MadeIs
    <2>. QED
      BY <2>1, <2>2 DEF MadeInv, GoodData
  <1>8. pages = 0 \/ pages > 0
    BY <1>3
  <1>9. data.list \subseteq Row /\ IsFiniteSet(data.list)
    BY <1>7, <1>8, FS_EmptySet DEF Listable
  <1>10. seen' \subseteq Row /\ gone' \subseteq Row
    BY <1>1, <1>6, <1>9 DEF ShownInv
  <1>11. steady' \subseteq S /\ (pages > 0 => steady' \subseteq steady /\ steady \subseteq data.list)
    BY <1>1, <1>3 DEF ShownInv
  <1>12. ASSUME forth', NEW g \in gone', NEW r \in steady'
         PROVE  g.created < r.created
    <2>1. pages > 0
      BY <1>1, <1>7, <1>8
    <2>2. CASE g \in gone
      BY <1>1, <1>11, <1>12, <2>1, <2>2 DEF ShownInv
    <2>3. CASE g \in data.list \ S
      <3>1. data.at <= A.data.at
        BY <1>1, <1>2, <1>7, <1>12, <2>1
      <3>2. InTurn(data, A.data)
        BY <1>2, <1>7, <2>1, AnswerInTurn
      <3>3. r \in data.list \cap S
        BY <1>11, <2>1
      <3>4. ~(g.created >= r.created)
        BY <2>3, <3>1, <3>2, <3>3, Zenon DEF InTurn, S
      <3>5. g.created \in Nat /\ r.created \in Nat
        BY <1>9, <2>3, <3>3, RowType
      <3>. QED
        BY <3>4, <3>5
    <2>. QED
      BY <1>1, <2>2, <2>3
  <1>13. ASSUME NEW r \in steady' \ seen', \A g \in gone' : ~orderBy(view, g, r)
         PROVE  /\ \A s \in seen' : orderBy(view, s, r)
                /\ Rank(view, S, r) >= Behind'
    <2>1. r \in S /\ r \notin Range(c) /\ r \notin seen
      BY <1>1, <1>11, <1>13
    <2>2. Rank(view, S, r) \in Nat
      BY <1>6, RankType
    <2>3. Rank(view, S, r) >= o
      <3>1. CASE pages = 0
        BY <1>1, <2>2, <3>1, FirstBehind
      <3>2. CASE pages > 0
        <4>1. r \in steady \ seen /\ Undisturbed(r)
          BY <1>1, <1>11, <1>13, <2>1, <3>2 DEF Undisturbed
        <4>2. Rank(view, data.list, r) >= o
          BY <1>1, <3>2, <4>1 DEF ShownInv
        <4>3. \A x \in data.list \ S : ~orderBy(view, x, r)
          BY <1>1, <1>13
        <4>4. Rank(view, data.list, r) <= Rank(view, S, r) /\ Rank(view, data.list, r) \in Nat
          BY <1>3, <1>6, <1>9, <4>3, RankKept
        <4>. QED
          BY <1>2, <2>2, <4>2, <4>4
      <3>. QED
        BY <1>8, <3>1, <3>2
    <2>4. Rank(view, S, r) >= o + k
      BY <1>2, <1>3, <1>5, <2>1, <2>2, <2>3
    <2>5. ASSUME NEW s \in Range(c) PROVE orderBy(view, s, r)
      <3>1. PICK j \in 1..Len(c) : s = c[j]
        BY <1>5 DEF Range
      <3>2. Rank(view, S, s) = o + j - 1
        BY <1>5, <3>1
      <3>3. Rank(view, S, s) < Rank(view, S, r)
        BY <1>2, <1>3, <1>4, <2>2, <2>4, <3>2
      <3>. QED
        BY <1>2, <1>3, <1>6, <2>1, <3>3, RankOrders
    <2>6. ASSUME NEW s \in seen PROVE orderBy(view, s, r)
      <3>1. pages > 0
        BY <1>7, <1>8
      <3>2. r \in steady \ seen /\ Undisturbed(r)
        BY <1>1, <1>11, <1>13, <2>1, <3>1 DEF Undisturbed
      <3>. QED
        BY <3>1, <3>2 DEF ShownInv
    <2>7. Rank(view, S, r) >= Behind'
      BY <1>2, <1>3, <1>4, <2>2, <2>4
    <2>. QED
      BY <1>1, <2>5, <2>6, <2>7
  <1>14. \A r \in steady' \ seen' : (\A g \in gone' : ~orderBy(view', g, r)) =>
             /\ \A s \in seen' : orderBy(view', s, r)
             /\ page'.hasNext => Rank(view', data'.list, r) >= Behind'
    BY <1>1, <1>13
  <1>15. steady' \subseteq data'.list /\ (forth' => \A g \in gone', r \in steady' : g.created < r.created)
    BY <1>1, <1>11, <1>12
  <1>. QED
    BY <1>10, <1>14, <1>15, Zenon DEF ShownInv, Undisturbed

LEMMA TurnStep ==
    ASSUME ListingInv, NEW A, NEW o, Turned(A, o)
    PROVE  ListingInv'
  <1>. USE DEF ListingInv
  <1>1. /\ UNCHANGED <<world, client, limit, view>> /\ pages' = pages + 1 /\ data' = A.data
        /\ A = Fresh(o) \/ (A = cache[o] /\ A # NoEntry)
        /\ cache' = [p \in 0..apiMaxOffset |->
                        IF p < Behind' THEN NoEntry ELSE IF p = o THEN A ELSE cache[p]]
    BY Zenon DEF Turned
  <1>2. WalkType' /\ PageSize' = PageSize
    BY TurnMoves
  <1>3. /\ o \in Nat /\ A.data \in Made \cup {Latest}
        /\ A.rows = Window(view, PageSize, A.data.list, o)
        /\ page'.rows = Cut(view, PageSize, A.data.list, o)
    BY AnswerGood
  <1>4. TableInv'
    BY <1>1 DEF world, TableInv, Stored
  <1>5. MadeInv'
    <2>1. ASSUME NEW D \in Made' PROVE D \in Made \cup {Latest}
      <3>1. \/ \E p \in 0..apiMaxOffset : cache'[p] # NoEntry /\ D = cache'[p].data
            \/ D = data'
        BY <2>1, Zenon DEF Made
      <3>2. ASSUME NEW p \in 0..apiMaxOffset, cache'[p] # NoEntry, D = cache'[p].data
            PROVE  D \in Made \cup {Latest}
        <4>1. cache'[p] = A \/ cache'[p] = cache[p]
          BY <1>1, <3>2, Zenon
        <4>2. CASE cache'[p] = A
          BY <1>3, <3>2, <4>2
        <4>3. CASE cache'[p] = cache[p]
          BY <3>2, <4>3, MadeIs
        <4>. QED
          BY <4>1, <4>2, <4>3
      <3>. QED
        BY <1>1, <1>3, <3>1, <3>2
    <2>. QED
      BY <1>1, <2>1, MadeGrows
  <1>6. EntryInv'
    <2>. SUFFICES ASSUME NEW p \in 0..apiMaxOffset, cache'[p] # NoEntry
                  PROVE  cache'[p].rows = Window(view, PageSize, cache'[p].data.list, p)
      BY <1>1, <1>2 DEF EntryInv
    <2>1. (p = o /\ cache'[p] = A) \/ cache'[p] = cache[p]
      BY <1>1, Zenon
    <2>2. CASE p = o /\ cache'[p] = A
      BY <1>3, <2>2
    <2>3. CASE cache'[p] = cache[p]
      BY <2>3 DEF EntryInv
    <2>. QED
      BY <2>1, <2>2, <2>3
  <1>7. pages \in Nat /\ pages' # 0 /\ pages' > 0
    BY <1>1 DEF WalkType
  <1>8. StartInv'
    BY <1>7 DEF StartInv
  <1>9. ShownInv'
    BY TurnShown
  <1>10. QuietInv'
    <2>1. Matching' = Matching
      BY <1>1 DEF world, Matching, listPredicates, buildQueryFilter
    <2>2. ASSUME quiet' PROVE A.rows = Window(view, PageSize, Matching, o)
      <3>1. A.rows = Fresh(o).rows
        BY <2>2, Zenon DEF Turned
      <3>. QED
        BY <1>3, <3>1, FreshRows
    <2>3. /\ page'.rows = listAndTrim(A.rows, PageSize).rows
          /\ ~page'.hasNext /\ (client = "ui" => next' <= maxUIPages) => ~(Len(A.rows) > PageSize)
          /\ client' = client /\ view' = view
      BY <1>1, Zenon DEF Turned
    <2>4. ASSUME quiet'
          PROVE  /\ page'.rows = Cut(view', PageSize', Matching', o)
                 /\ ~page'.hasNext /\ (client' = "ui" => next' <= maxUIPages) =>
                       ~(Len(Window(view', PageSize', Matching', o)) > PageSize')
      BY <1>2, <2>1, <2>2, <2>3, <2>4, Zenon DEF Cut
    <2>. QED
      BY <1>3, <1>7, <2>4, Zenon DEF QuietInv
  <1>. QED
    BY <1>2, <1>4, <1>5, <1>6, <1>8, <1>9, <1>10

LEMMA FollowStep ==
    ASSUME ListingInv, NEW v, Follow(v)
    PROVE  ListingInv'
  <1>. USE DEF ListingInv
  <1>1. /\ v \in Views /\ view' = v /\ client' = client /\ limit' = limit /\ client = "ui"
        /\ next' = FirstPage(client) /\ pages' = 0 /\ data' = NoData
        /\ seen' = {} /\ gone' = {} /\ UNCHANGED world
        /\ cache' = [o \in DOMAIN cache |-> NoEntry]
    BY DEF Follow
  <1>2. quiet' = FALSE
    BY DEF Follow
  <1>3. DOMAIN cache = 0..apiMaxOffset /\ limit \in Int
    BY DEF WalkType
  <1>4. cache' = [o \in 0..apiMaxOffset |-> NoEntry]
    BY <1>1, <1>3
  <1>5. TableInv'
    BY <1>1 DEF world, TableInv, Stored
  <1>6. WalkType'
    <2>1. next' = 1 /\ 1 <= maxUIPages
      BY <1>1, LimitsAssumption DEF FirstPage
    <2>2. next' \in Nat /\ next' >= 1 /\ next' <= maxUIPages /\ pages' \in Nat
      BY <1>1, <2>1
    <2>3. cache' = [o \in 0..apiMaxOffset |-> cache'[o]]
      BY <1>4
    <2>4. client' \in {"cli", "ui"} /\ limit' \in Int /\ view' \in Views
      BY <1>1, <1>3
    <2>. QED
      BY <2>2, <2>3, <2>4, Zenon DEF WalkType
  <1>7. \A o \in 0..apiMaxOffset : cache'[o] = NoEntry
    BY <1>4
  <1>8. Made' = {}
    BY <1>1, <1>7 DEF Made
  <1>9. MadeInv' /\ EntryInv'
    BY <1>7, <1>8, Zenon DEF MadeInv, EntryInv
  <1>10. StartInv' /\ ShownInv'
    BY <1>1 DEF StartInv, ShownInv
  <1>11. QuietInv'
    BY <1>2 DEF QuietInv
  <1>. QED
    BY <1>5, <1>6, <1>9, <1>10, <1>11

\* The walk stays where it is, while an entry of the cache may come or go.
LEMMA Resting ==
    ASSUME ListingInv, UNCHANGED walk,
           cache' = [p \in 0..apiMaxOffset |-> cache'[p]],
           \A p \in 0..apiMaxOffset :
               cache'[p] \in {cache[p], NoEntry} \/ (cache'[p] = Fresh(p) /\ UNCHANGED world)
    PROVE  /\ WalkType' /\ EntryInv' /\ StartInv' /\ ShownInv'
           /\ PageSize' = PageSize /\ view' = view
           /\ Made' \subseteq Made \/ (UNCHANGED world /\ Made' \subseteq Made \cup {Latest})
  <1>. USE DEF ListingInv
  <1>1. /\ client' = client /\ limit' = limit /\ view' = view /\ next' = next /\ page' = page
        /\ data' = data /\ seen' = seen /\ steady' = steady /\ gone' = gone /\ forth' = forth
        /\ pages' = pages
    BY DEF walk
  <1>2. PageSize' = PageSize /\ Behind' = Behind
    BY <1>1 DEF PageSize, Behind
  <1>3. WalkType'
    BY <1>1, Zenon DEF WalkType
  <1>4. StartInv'
    BY <1>1, Zenon DEF StartInv, FirstPage
  <1>5. ShownInv'
    BY <1>1, <1>2, Zenon DEF ShownInv, Undisturbed
  <1>6. EntryInv'
    <2>. SUFFICES ASSUME NEW p \in 0..apiMaxOffset, cache'[p] # NoEntry
                  PROVE  cache'[p].rows = Window(view, PageSize, cache'[p].data.list, p)
      BY <1>1, <1>2 DEF EntryInv
    <2>1. CASE cache'[p] = cache[p]
      BY <2>1 DEF EntryInv
    <2>2. CASE cache'[p] = Fresh(p)
      <3>1. p \in Nat /\ Fresh(p).data.list = Matching
        BY LimitsAssumption, FreshData, LatestGood
      <3>. QED
        BY <2>2, <3>1, FreshRows
    <2>. QED
      BY <2>1, <2>2
  <1>7. ASSUME NEW D \in Made', D \notin Made PROVE D = Latest /\ UNCHANGED world
    <2>1. PICK p \in 0..apiMaxOffset : cache'[p] # NoEntry /\ D = cache'[p].data
      BY <1>1, <1>7, MadeIs DEF Made
    <2>2. cache'[p] # cache[p]
      BY <1>7, <2>1, MadeIs
    <2>. QED
      BY <2>1, <2>2, FreshData
  <1>. QED
    BY <1>1, <1>2, <1>3, <1>4, <1>5, <1>6, <1>7

LEMMA WorldStep ==
    ASSUME ListingInv,
           Tick \/ (\E r \in Row : Store(r)) \/ (\E t \in 1..MaxTime : Prune(t))
    PROVE  ListingInv'
  <1>. USE DEF ListingInv
  <1>1. /\ UNCHANGED walk /\ quiet' = FALSE
        /\ cache' = cache \/ cache' = [o \in DOMAIN cache |-> NoEntry]
    BY DEF Tick, Store, Prune
  <1>2. cache = [p \in 0..apiMaxOffset |-> cache[p]]
    BY DEF WalkType
  <1>3. /\ cache' = [p \in 0..apiMaxOffset |-> cache'[p]]
        /\ \A p \in 0..apiMaxOffset : cache'[p] \in {cache[p], NoEntry}
    BY <1>1, <1>2
  <1>4. /\ WalkType' /\ EntryInv' /\ StartInv' /\ ShownInv' /\ view' = view
    BY <1>1, <1>3, Resting
  <1>5. Made' \subseteq Made
    <2>. SUFFICES ASSUME NEW D \in Made' PROVE D \in Made
      OBVIOUS
    <2>1. data' = data /\ pages' = pages
      BY <1>1 DEF walk
    <2>. QED
      BY <1>3, <2>1, MadeIs DEF Made
  <1>6. MadeInv'
    BY <1>4, <1>5, MadeStays
  <1>7. TableInv'
    <2>1. Next
      BY DEF Next
    <2>. QED
      BY <2>1, TableStep
  <1>8. QuietInv'
    BY <1>1 DEF QuietInv
  <1>. QED
    BY <1>4, <1>6, <1>7, <1>8

LEMMA ReaderStep ==
    ASSUME ListingInv, UNCHANGED vars \/ \E o \in DOMAIN cache : OtherReader(o)
    PROVE  ListingInv'
  <1>. USE DEF ListingInv
  <1>1. UNCHANGED <<world, walk, quiet>>
    BY DEF vars, OtherReader
  <1>2. cache = [p \in 0..apiMaxOffset |-> cache[p]]
    BY DEF WalkType
  <1>3. /\ cache' = [p \in 0..apiMaxOffset |-> cache'[p]]
        /\ \A p \in 0..apiMaxOffset : cache'[p] = cache[p] \/ cache'[p] = Fresh(p)
    <2>1. CASE UNCHANGED vars
      BY <1>2, <2>1 DEF vars
    <2>2. ASSUME NEW o \in DOMAIN cache, OtherReader(o)
          PROVE  /\ cache' = [p \in 0..apiMaxOffset |-> cache'[p]]
                 /\ \A p \in 0..apiMaxOffset : cache'[p] = cache[p] \/ cache'[p] = Fresh(p)
      <3>1. cache' = [cache EXCEPT ![o] = Fresh(o)]
        BY <2>2 DEF OtherReader, listKey
      <3>. QED
        BY <1>2, <3>1
    <2>. QED
      BY <2>1, <2>2
  <1>4. /\ WalkType' /\ EntryInv' /\ StartInv' /\ ShownInv' /\ view' = view /\ PageSize' = PageSize
        /\ Made' \subseteq Made \cup {Latest}
    BY <1>1, <1>3, Resting
  <1>5. TableInv'
    BY <1>1 DEF world, TableInv, Stored
  <1>6. MadeInv'
    BY <1>1, <1>4, MadeGrows
  <1>7. QuietInv'
    <2>1. Matching' = Matching
      BY <1>1, <1>4 DEF world, Matching, listPredicates, buildQueryFilter
    <2>2. quiet' = quiet /\ pages' = pages /\ page' = page /\ client' = client /\ next' = next
      BY <1>1 DEF walk
    <2>. QED
      BY <1>4, <2>1, <2>2, Zenon DEF QuietInv
  <1>. QED
    BY <1>4, <1>5, <1>6, <1>7

LEMMA ListingInit == Init => ListingInv
  <1>. SUFFICES ASSUME Init PROVE ListingInv
    OBVIOUS
  <1>1. /\ pages = 0 /\ data = NoData /\ seen = {} /\ gone = {} /\ next = FirstPage(client)
        /\ client \in Clients /\ view \in Views
        /\ cache = [o \in 0..apiMaxOffset |-> NoEntry]
    BY DEF Init
  <1>2. limit \in (IF client = "cli" THEN Limits ELSE {uiLimit}) /\ quiet = FALSE
    BY DEF Init
  <1>3. client \in {"cli", "ui"}
    BY <1>1, ClientsAssumption
  <1>4. limit \in Int
    BY <1>2, LimitsAssumption
  <1>5. next \in Nat /\ (client = "ui" => next >= 1 /\ next <= maxUIPages)
    BY <1>1, LimitsAssumption DEF FirstPage
  <1>6. cache = [o \in 0..apiMaxOffset |-> cache[o]] /\ \A o \in 0..apiMaxOffset : cache[o] = NoEntry
    BY <1>1
  <1>7. pages \in Nat
    BY <1>1
  <1>8. WalkType
    BY <1>1, <1>3, <1>4, <1>5, <1>6, <1>7, Zenon DEF WalkType
  <1>9. Made = {}
    BY <1>1, <1>6 DEF Made
  <1>10. MadeInv /\ EntryInv
    BY <1>6, <1>9, Zenon DEF MadeInv, EntryInv
  <1>11. StartInv /\ ShownInv
    BY <1>1 DEF StartInv, ShownInv
  <1>12. QuietInv
    BY <1>2 DEF QuietInv
  <1>. QED
    BY <1>8, <1>10, <1>11, <1>12, TableInit DEF ListingInv

LEMMA ListingStep == ListingInv /\ [Next]_vars => ListingInv'
  <1>. SUFFICES ASSUME ListingInv, [Next]_vars PROVE ListingInv'
    OBVIOUS
  <1>1. CASE RunList \/ Dashboard
    <2>1. PICK A : \E o : Turned(A, o)
      BY <1>1, RunListTurns, DashboardTurns DEF ListingInv
    <2>2. PICK o : Turned(A, o)
      BY <2>1
    <2>. QED
      BY <2>2, TurnStep
  <1>2. CASE FailedHref \/ \E key \in {"start", "wall"} : SortLink(key) \/ TopHref(key)
    <2>1. \E v : Follow(v)
      BY <1>2, Zenon DEF FailedHref, SortLink, TopHref
    <2>. QED
      BY <2>1, FollowStep
  <1>3. CASE Tick \/ (\E r \in Row : Store(r)) \/ (\E t \in 1..MaxTime : Prune(t))
    BY <1>3, WorldStep
  <1>4. CASE UNCHANGED vars \/ \E o \in DOMAIN cache : OtherReader(o)
    BY <1>4, ReaderStep
  <1>. QED
    BY <1>1, <1>2, <1>3, <1>4 DEF Next

\* The invariant holds of every walk: cached answers are what the store once answered
\* for their offset, and a row that is still to be shown is not behind the next offset.
THEOREM ListingInvariance == Spec => []ListingInv
  BY ListingInit, ListingStep, PTL DEF Spec

\* Paging by offset passes over nothing: whatever is stored, pruned or leaves the range
\* between the pages, and however old the pages of the cache are, a row that was in
\* every list is shown unless one in front of it went away; in the default order that
\* takes a page older than the one before.
THEOREM PagingPassesOverNothing == Spec => []NoRowPassedOver
  <1>1. ListingInv => NoRowPassedOver
    <2>. SUFFICES ASSUME ListingInv, pages > 0,
                         NEW r \in steady, NEW s \in seen, orderBy(view, r, s), r \notin seen
                  PROVE  /\ \E g \in gone : orderBy(view, g, r)
                         /\ view.sort = "start" /\ view.desc => ~forth
      BY Zenon DEF NoRowPassedOver
    <2>. USE DEF ListingInv
    <2>1. r \in Row /\ s \in Row /\ gone \subseteq Row
      <3>1. data \in Made
        BY MadeIs
      <3>2. data.list \subseteq Row
        BY <3>1 DEF MadeInv, GoodData, Listable
      <3>. QED
        BY <3>2 DEF ShownInv
    <2>2. view \in Views
      BY DEF WalkType
    <2>3. ~orderBy(view, s, r)
      BY <2>1, <2>2, Orders
    <2>4. ~Undisturbed(r)
      BY <2>3 DEF ShownInv
    <2>5. PICK g \in gone : orderBy(view, g, r)
      BY <2>4 DEF Undisturbed
    <2>6. ASSUME view.sort = "start", view.desc PROVE ~forth
      <3>1. Precedes(view, r, g)
        BY <2>5, <2>6 DEF orderBy
      <3>2. sortColumn(view, r) = r.created /\ sortColumn(view, g) = g.created
        BY <2>6 DEF sortColumn
      <3>3. r.created \in Nat /\ g.created \in Nat
        BY <2>1, RowType
      <3>4. r.created <= g.created
        BY <3>1, <3>2, <3>3 DEF Precedes
      <3>5. ~(g.created < r.created)
        BY <3>3, <3>4
      <3>. QED
        BY <3>5 DEF ShownInv
    <2>. QED
      BY <2>5, <2>6, Zenon
  <1>. QED
    BY <1>1, ListingInvariance, PTL

\* "No more pages" is true: one row more than a page is asked for, and if it is not
\* there, and the list did not change during the walk, nothing follows the last row.
THEOREM LastPageEndsTheList == Spec => []LastPageIsLast
  <1>1. ListingInv => LastPageIsLast
    <2>. SUFFICES ASSUME ListingInv, quiet, ~page.hasNext, page.rows # <<>>,
                         client = "ui" => next <= maxUIPages, NEW r \in Matching
                  PROVE  ~orderBy(view, page.rows[Len(page.rows)], r)
      BY Zenon DEF LastPageIsLast
    <2>. DEFINE k == PageSize
                c == page.rows
                n == Cardinality(Matching)
    <2>1. PICK o \in Nat : c = Cut(view, k, Matching, o) /\ ~(Len(Window(view, k, Matching, o)) > k)
      BY Zenon DEF ListingInv, QuietInv
    <2>2. k \in Nat /\ k >= 1 /\ view \in Views /\ Listable(Matching)
      BY PageSizeType, LatestGood DEF ListingInv, WalkType, GoodData
    <2>. HIDE DEF k, c
    <2>3. n \in Nat /\ Len(Window(view, k, Matching, o)) = Rest(n, o, k + 1)
      BY <2>2, WindowRows, ZenonT(60) DEF IsWindow
    <2>4. c \in Seq(Matching) /\ Len(c) = Rest(n, o, k)
      <3>1. Cut(view, k, Matching, o) \in Seq(Matching) /\ Len(Cut(view, k, Matching, o)) = Rest(n, o, k)
        BY <2>2, CutRows DEF IsCut
      <3>. QED
        BY <2>1, <3>1
    <2>5. \A i \in 1..Len(c) : Rank(view, Matching, c[i]) = o + i - 1
      <3>1. \A i \in 1..Len(Cut(view, k, Matching, o)) :
               Rank(view, Matching, Cut(view, k, Matching, o)[i]) = o + i - 1
        BY <2>2, CutRows DEF IsCut
      <3>. QED
        BY <2>1, <3>1
    <2>6. Len(c) \in Nat /\ Len(c) >= 1
      BY <2>4 DEF c
    <2>. HIDE DEF n
    <2>7. Len(c) = n - o
      BY <2>1, <2>2, <2>3, <2>4, <2>6 DEF Rest
    <2>8. Rank(view, Matching, c[Len(c)]) = n - 1 /\ c[Len(c)] \in Matching
      BY <2>3, <2>4, <2>5, <2>6, <2>7
    <2>9. Rank(view, Matching, r) \in 0..n - 1
      BY <2>2, RankBound DEF n
    <2>10. ~(Rank(view, Matching, c[Len(c)]) < Rank(view, Matching, r))
      BY <2>3, <2>8, <2>9
    <2>. QED
      BY <2>2, <2>8, <2>10, RankOrders DEF c
  <1>. QED
    BY <1>1, ListingInvariance, PTL

-----------------------------------------------------------------------------
(* The link to the next page.  The API takes no offset beyond              *)
(* apiMaxOffset: a walk that gets there is shown the same page again.      *)

\* The last page of the CLI was asked for at the largest offset.
AtLastOffset == client = "cli" /\ next = apiMaxOffset + Len(page.rows)

LeadInv ==
    quiet =>
        \E o \in 0..apiMaxOffset :
            /\ \A s \in seen : s \in Matching /\ Rank(view, Matching, s) < o + PageSize
            /\ page.hasNext => Len(page.rows) = PageSize /\ o + PageSize < Cardinality(Matching)
            /\ client = "cli" => next = o + Len(page.rows)
            /\ client = "ui" => Behind = o + PageSize
            /\ pages > 1 => news \/ (client = "cli" /\ o = apiMaxOffset)

\* Where a walk goes on that was at offset q, if there are more rows.
LEMMA LeadsFrom ==
    ASSUME WalkType, NEW q \in 0..apiMaxOffset,
           client = "cli" => next = q + PageSize,
           client = "ui" => Behind = q + PageSize
    PROVE  /\ Behind >= q
           /\ Behind = q + PageSize \/ (client = "cli" /\ Behind = apiMaxOffset)
  <1>1. PageSize \in Nat /\ q \in Nat /\ next \in Nat /\ apiMaxOffset \in Nat /\ q <= apiMaxOffset
    BY PageSizeType, LimitsAssumption DEF WalkType
  <1>2. CASE client = "cli"
    <2>1. Behind = parseOffset(next)
      BY <1>2 DEF Behind
    <2>2. CASE next <= apiMaxOffset
      <3>1. Behind = q + PageSize
        BY <1>1, <1>2, <2>1, <2>2, CliBehind
      <3>. QED
        BY <1>1, <3>1
    <2>3. CASE next > apiMaxOffset
      <3>1. Behind = apiMaxOffset
        BY <1>1, <2>1, <2>3, CliBehind
      <3>. QED
        BY <1>1, <1>2, <3>1
    <2>. QED
      BY <1>1, <2>2, <2>3
  <1>3. CASE client = "ui"
    BY <1>1, <1>3
  <1>. QED
    BY <1>2, <1>3 DEF WalkType

LEMMA TurnLeads ==
    ASSUME ListingInv, LeadInv, NEW A, NEW o, Turned(A, o)
    PROVE  LeadInv'
  <1>. USE DEF ListingInv
  <1>. SUFFICES ASSUME quiet' PROVE LeadInv'
    BY DEF LeadInv
  <1>. DEFINE k == PageSize
              c == page'.rows
              M == Matching
              n == Cardinality(M)
  <1>1. /\ o = Behind /\ o \in 0..apiMaxOffset /\ page.hasNext
        /\ page'.rows = listAndTrim(A.rows, PageSize).rows
        /\ seen' = seen \cup Range(c) /\ pages' = pages + 1
        /\ quiet \/ pages = 0
        /\ A.rows = Fresh(o).rows
        /\ client = "cli" => next' = o + Len(c)
        /\ client = "ui" => next' = next + 1
        /\ page'.hasNext => Len(A.rows) > k
        /\ UNCHANGED <<world, client, limit, view>>
    BY Zenon DEF Turned
  <1>2. news' = (Range(c) \ seen # {})
    BY Zenon DEF Turned
  <1>3. k \in Nat /\ k >= 1 /\ view \in Views /\ Listable(M) /\ pages \in Nat /\ o \in Nat
    BY <1>1, PageSizeType, LatestGood, LimitsAssumption, SMTT(30) DEF WalkType, GoodData
  <1>4. A.rows = Window(view, k, M, o)
    BY <1>1, <1>3, FreshRows
  <1>5. c = Cut(view, k, M, o)
    BY <1>1, <1>4, Zenon DEF Cut
  <1>6. PageSize' = k /\ Matching' = M /\ client' = client /\ view' = view
    BY <1>1 DEF world, PageSize, Matching, listPredicates, buildQueryFilter
  <1>. HIDE DEF k, c, M
  <1>7. n \in Nat /\ Len(A.rows) = Rest(n, o, k + 1)
    BY <1>3, <1>4, WindowRows DEF IsWindow
  <1>8. c \in Seq(M) /\ Len(c) = Rest(n, o, k)
    <2>1. Cut(view, k, M, o) \in Seq(M) /\ Len(Cut(view, k, M, o)) = Rest(n, o, k)
      BY <1>3, CutRows DEF IsCut
    <2>. QED
      BY <1>5, <2>1
  <1>9. \A i \in 1..Len(c) : Rank(view, M, c[i]) = o + i - 1
    BY <1>3, <1>5, CutRanks
  <1>10. \A x \in M : Rank(view, M, x) \in o..o + k - 1 => x \in Range(c)
    <2>1. \A x \in M : Rank(view, M, x) \in o..o + k - 1 => x \in Range(Cut(view, k, M, o))
      BY <1>3, CutRows DEF IsCut
    <2>. QED
      BY <1>5, <2>1
  <1>. HIDE DEF n
  <1>11. Len(c) \in Nat /\ Len(c) <= k /\ (page'.hasNext => Len(c) = k /\ o + k < n)
    <2>1. Len(c) \in Nat /\ Len(c) <= k
      BY <1>3, <1>7, <1>8 DEF Rest
    <2>2. ASSUME Len(A.rows) > k PROVE Len(c) = k /\ o + k < n
      BY <1>3, <1>7, <1>8, <2>2 DEF Rest
    <2>. QED
      BY <1>1, <2>1, <2>2
  <1>12. \A s \in Range(c) : s \in M /\ Rank(view, M, s) < o + k
    <2>. TAKE s \in Range(c)
    <2>1. PICK i \in 1..Len(c) : s = c[i]
      BY <1>8 DEF Range
    <2>2. Rank(view, M, s) = o + i - 1
      BY <1>9, <2>1
    <2>. QED
      BY <1>3, <1>8, <1>11, <2>1, <2>2
  <1>13. client = "ui" => Behind' = o + k
    <2>. SUFFICES ASSUME client = "ui" PROVE Behind' = o + k
      OBVIOUS
    <2>1. next \in Nat /\ next >= 1 /\ k = uiLimit
      BY PageSizeType DEF WalkType, k
    <2>2. Behind = (next - 1) * uiLimit /\ Behind' = (next' - 1) * uiLimit /\ next' = next + 1
      BY <1>1, Zenon DEF Behind
    <2>3. next' - 1 = next + 1 - 1
      BY <2>1, <2>2
    <2>4. (next + 1 - 1) * uiLimit = (next - 1) * uiLimit + uiLimit
      BY <2>1, UiBehind
    <2>. QED
      BY <1>1, <2>1, <2>2, <2>3, <2>4, Zenon
  \* What was shown before is in front of the end of this page, and something of this
  \* page was not shown before.
  <1>14. /\ \A s \in seen : s \in M /\ Rank(view, M, s) < o + k
         /\ pages' > 1 => news' \/ (client = "cli" /\ o = apiMaxOffset)
    <2>1. CASE pages = 0
      <3>1. seen = {} /\ ~(pages' > 1)
        BY <1>1, <2>1 DEF StartInv
      <3>. QED
        BY <3>1
    <2>2. CASE quiet
      <3>1. PICK q \in 0..apiMaxOffset :
               /\ \A s \in seen : s \in M /\ Rank(view, M, s) < q + k
               /\ page.hasNext => Len(page.rows) = k /\ q + k < n
               /\ client = "cli" => next = q + Len(page.rows)
               /\ client = "ui" => Behind = q + k
        BY <2>2, Zenon DEF LeadInv, k, M, n
      <3>2. Len(page.rows) = k /\ q + k < n /\ q \in Nat
        BY <1>1, <3>1, LimitsAssumption
      <3>3. o >= q /\ (o = q + k \/ (client = "cli" /\ o = apiMaxOffset))
        BY <1>1, <3>1, <3>2, LeadsFrom DEF k
      <3>4. ASSUME NEW s \in seen PROVE s \in M /\ Rank(view, M, s) < o + k /\ Rank(view, M, s) < q + k
        <4>1. Rank(view, M, s) \in Nat
          BY <1>3, RankType DEF Listable
        <4>. QED
          BY <1>3, <3>1, <3>2, <3>3, <4>1
      <3>5. ASSUME o = q + k PROVE Range(c) \ seen # {}
        <4>1. o \in 0..n - 1
          BY <1>3, <1>7, <3>2, <3>5
        <4>2. PICK x \in M : Rank(view, M, x) = o
          BY <1>3, <4>1, RankTaken DEF n
        <4>3. x \in Range(c)
          BY <1>3, <1>10, <4>2
        <4>4. x \notin seen
          BY <1>3, <3>4, <3>5, <4>2
        <4>. QED
          BY <4>3, <4>4
      <3>. QED
        BY <1>2, <3>3, <3>4, <3>5
    <2>. QED
      BY <1>1, <2>1, <2>2
  <1>15. /\ \A s \in seen' : s \in Matching' /\ Rank(view', Matching', s) < o + PageSize'
         /\ page'.hasNext => Len(page'.rows) = PageSize' /\ o + PageSize' < Cardinality(Matching')
         /\ client' = "cli" => next' = o + Len(page'.rows)
         /\ client' = "ui" => Behind' = o + PageSize'
         /\ pages' > 1 => news' \/ (client' = "cli" /\ o = apiMaxOffset)
    BY <1>1, <1>6, <1>11, <1>12, <1>13, <1>14, Zenon DEF c, n
  <1>. QED
    BY <1>1, <1>15, Zenon DEF LeadInv

LEMMA LeadStep == ListingInv /\ LeadInv /\ [Next]_vars => LeadInv'
  <1>. SUFFICES ASSUME ListingInv, LeadInv, [Next]_vars PROVE LeadInv'
    OBVIOUS
  <1>1. CASE RunList \/ Dashboard
    <2>1. PICK A : \E o : Turned(A, o)
      BY <1>1, RunListTurns, DashboardTurns DEF ListingInv
    <2>2. PICK o : Turned(A, o)
      BY <2>1
    <2>. QED
      BY <2>2, TurnLeads
  <1>2. CASE FailedHref \/ \E key \in {"start", "wall"} : SortLink(key) \/ TopHref(key)
    BY <1>2 DEF FailedHref, SortLink, TopHref, Follow, LeadInv
  <1>3. CASE Tick \/ (\E r \in Row : Store(r)) \/ (\E t \in 1..MaxTime : Prune(t))
    BY <1>3 DEF Tick, Store, Prune, LeadInv
  <1>4. CASE UNCHANGED vars \/ \E o \in DOMAIN cache : OtherReader(o)
    <2>1. UNCHANGED <<world, walk, quiet>>
      BY <1>4 DEF vars, OtherReader
    <2>2. PageSize' = PageSize /\ Behind' = Behind /\ Matching' = Matching
      BY <2>1 DEF world, walk, PageSize, Behind, Matching, listPredicates, buildQueryFilter
    <2>3. /\ quiet' = quiet /\ pages' = pages /\ page' = page /\ client' = client /\ next' = next
          /\ seen' = seen /\ news' = news /\ view' = view
      BY <2>1 DEF walk
    <2>. QED
      BY <2>2, <2>3, Zenon DEF LeadInv
  <1>. QED
    BY <1>1, <1>2, <1>3, <1>4 DEF Next

\* The link to the next page leads on, as long as nothing changes, in the UI always
\* and in the CLI for every offset but the largest, which the listing_offsets run is
\* about: only there the API moves the offset back.
THEOREM NextPageLeadsOn == Spec => [](NextLeadsOn \/ AtLastOffset)
  <1>1. LeadInv => NextLeadsOn \/ AtLastOffset
    BY Zenon DEF LeadInv, NextLeadsOn, AtLastOffset
  <1>2. Init => LeadInv
    BY DEF Init, LeadInv
  <1>. QED
    BY <1>1, <1>2, LeadStep, ListingInit, ListingStep, PTL DEF Spec
=============================================================================
