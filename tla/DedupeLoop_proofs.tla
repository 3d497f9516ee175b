------------------------- MODULE DedupeLoop_proofs --------------------------
(***************************************************************************)
(* The loop of dedupe computes what Dedupe describes, for every batch.     *)
(***************************************************************************)
EXTENDS DedupeLoop, FiniteSetTheorems, TLAPS

LoopType == /\ rows \in Seq(Rows) /\ out \in Seq(Rows)
            /\ next \in 1..Len(rows) + 1 /\ Len(out) < next

\* seen is an index of out: it has an entry for every place, and every entry names
\* the query that is there.
SeenInv == /\ \A e \in seen : e.at \in 1..Len(out) /\ out[e.at].qid = e.qid
           /\ \A i \in 1..Len(out) : \E e \in seen : e.qid = out[i].qid
           /\ \A i, j \in 1..Len(out) : out[i].qid = out[j].qid => i = j

\* Every row of out is the last of its query so far.
LastInv == \A i \in 1..Len(out) : \E k \in 1..next - 1 :
              out[i] = rows[k] /\ \A j \in k + 1..next - 1 : rows[j].qid # rows[k].qid

\* Every query met so far is in out.
AllInv == \A k \in 1..next - 1 : \E i \in 1..Len(out) : out[i].qid = rows[k].qid

\* The queries of out are in the order in which they were first met.
OrderInv == \A i, j \in 1..Len(out) : i < j =>
               \E k \in 1..next - 1 : /\ rows[k].qid = out[i].qid
                                      /\ \A l \in 1..k : rows[l].qid # out[j].qid

LoopInv == LoopType /\ SeenInv /\ LastInv /\ AllInv /\ OrderInv

LEMMA DedupeLoopInit == Init => LoopInv
  BY BatchesAssumption
     DEF Init, LoopInv, LoopType, SeenInv, LastInv, AllInv, OrderInv

LEMMA OverwriteStep == LoopInv /\ Overwrite => LoopInv'
  <1>. SUFFICES ASSUME LoopInv, Overwrite PROVE LoopInv'
    OBVIOUS
  <1>. USE DEF LoopInv
  <1>1. PICK e \in seen : e.qid = Row.qid /\ out' = [out EXCEPT ![e.at] = Row]
    BY DEF Overwrite
  <1>. DEFINE p == e.at
  <1>2. /\ next' = next + 1 /\ rows' = rows /\ seen' = seen /\ next <= Len(rows)
        /\ Row = rows[next] /\ Row \in Rows
    BY DEF Overwrite, Row, LoopType
  <1>3. p \in 1..Len(out) /\ out[p].qid = Row.qid
    BY <1>1 DEF SeenInv
  <1>4. /\ out' \in Seq(Rows) /\ Len(out') = Len(out)
        /\ \A i \in 1..Len(out) : out'[i] = IF i = p THEN Row ELSE out[i]
    BY <1>1, <1>2, <1>3 DEF LoopType
  <1>5. \A i \in 1..Len(out) : out'[i].qid = out[i].qid
    BY <1>3, <1>4
  <1>n. next' - 1 = next /\ next \in Nat
    BY <1>2 DEF LoopType
  <1>. HIDE DEF p
  <1>6. LoopType'
    BY <1>2, <1>4 DEF LoopType
  <1>7. SeenInv'
    BY <1>2, <1>4, <1>5, SMTT(30) DEF SeenInv
  <1>8. LastInv'
    <2>. SUFFICES ASSUME NEW i \in 1..Len(out)
                  PROVE  \E k \in 1..next : out'[i] = rows[k] /\
                             \A j \in k + 1..next : rows[j].qid # rows[k].qid
      BY <1>2, <1>4 DEF LastInv, LoopType
    <2>1. CASE i = p
      BY <2>1, <1>2, <1>4 DEF LoopType
    <2>2. CASE i # p
      <3>1. PICK k \in 1..next - 1 : out[i] = rows[k] /\ \A j \in k + 1..next - 1 : rows[j].qid # rows[k].qid
        BY DEF LastInv
      <3>2. rows[next].qid # rows[k].qid
        BY <2>2, <3>1, <1>2, <1>3 DEF SeenInv
      <3>3. k \in 1..next /\ \A j \in k + 1..next : rows[j].qid # rows[k].qid
        BY <3>1, <3>2 DEF LoopType
      <3>. QED
        BY <2>2, <3>1, <3>3, <1>4
    <2>. QED
      BY <2>1, <2>2
  <1>9. AllInv'
    <2>. SUFFICES ASSUME NEW k \in 1..next
                  PROVE  \E i \in 1..Len(out) : out'[i].qid = rows[k].qid
      BY <1>2, <1>4, <1>n DEF AllInv
    <2>1. CASE k = next
      BY <2>1, <1>2, <1>3, <1>5
    <2>2. CASE k \in 1..next - 1
      BY <2>2, <1>5 DEF AllInv
    <2>. QED
      BY <2>1, <2>2 DEF LoopType
  <1>10. OrderInv'
    <2>. SUFFICES ASSUME NEW i \in 1..Len(out), NEW j \in 1..Len(out), i < j
                  PROVE  \E k \in 1..next : /\ rows[k].qid = out'[i].qid
                                            /\ \A l \in 1..k : rows[l].qid # out'[j].qid
      BY <1>2, <1>4 DEF OrderInv, LoopType
    <2>1. PICK k \in 1..next - 1 : /\ rows[k].qid = out[i].qid
                                   /\ \A l \in 1..k : rows[l].qid # out[j].qid
      BY DEF OrderInv
    <2>. QED
      BY <2>1, <1>5 DEF LoopType
  <1>. QED
    BY <1>6, <1>7, <1>8, <1>9, <1>10

LEMMA KeepStep == LoopInv /\ Keep => LoopInv'
  <1>. SUFFICES ASSUME LoopInv, Keep PROVE LoopInv'
    OBVIOUS
  <1>. USE DEF LoopInv
  <1>. DEFINE n == Len(out) + 1
  <1>2. /\ next' = next + 1 /\ rows' = rows /\ next <= Len(rows)
        /\ Row = rows[next] /\ Row \in Rows
        /\ seen' = seen \cup {[qid |-> Row.qid, at |-> n]}
        /\ \A e \in seen : e.qid # Row.qid
    BY DEF Keep, Row, LoopType
  <1>4. /\ out' \in Seq(Rows) /\ Len(out') = n /\ n \in Nat
        /\ \A i \in 1..Len(out) : out'[i] = out[i]
        /\ out'[n] = Row
    BY <1>2 DEF LoopType, Keep
  <1>5. \A i \in 1..n : i = n \/ i \in 1..Len(out)
    BY DEF LoopType
  \* The query is a new one, in the batch as in out.
  <1>6. \A i \in 1..Len(out) : out[i].qid # Row.qid
    BY <1>2 DEF SeenInv
  <1>7. \A k \in 1..next - 1 : rows[k].qid # Row.qid
    BY <1>6 DEF AllInv
  <1>. HIDE DEF n
  <1>8. LoopType'
    BY <1>2, <1>4 DEF LoopType, n
  <1>9. SeenInv'
    <2>1. \A e \in seen' : e.at \in 1..n /\ out'[e.at].qid = e.qid
      <3>. SUFFICES ASSUME NEW e \in seen' PROVE e.at \in 1..n /\ out'[e.at].qid = e.qid
        OBVIOUS
      <3>1. CASE e \in seen
        BY <3>1, <1>4 DEF SeenInv, LoopType, n
      <3>2. CASE e = [qid |-> Row.qid, at |-> n]
        BY <3>2, <1>4 DEF LoopType, n
      <3>. QED
        BY <3>1, <3>2, <1>2
    <2>2. \A i \in 1..n : \E e \in seen' : e.qid = out'[i].qid
      <3>. SUFFICES ASSUME NEW i \in 1..n PROVE \E e \in seen' : e.qid = out'[i].qid
        OBVIOUS
      <3>1. CASE i = n
        <4>1. [qid |-> Row.qid, at |-> n] \in seen'
          BY <1>2
        <4>. QED
          BY <4>1, <3>1, <1>4
      <3>2. CASE i \in 1..Len(out)
        BY <3>2, <1>2, <1>4, SMTT(30) DEF SeenInv
      <3>. QED
        BY <3>1, <3>2, <1>5
    <2>3. \A i, j \in 1..n : out'[i].qid = out'[j].qid => i = j
      BY <1>4, <1>5, <1>6 DEF SeenInv
    <2>. QED
      BY <2>1, <2>2, <2>3, <1>4 DEF SeenInv
  <1>10. LastInv'
    <2>. SUFFICES ASSUME NEW i \in 1..n
                  PROVE  \E k \in 1..next : out'[i] = rows[k] /\
                             \A j \in k + 1..next : rows[j].qid # rows[k].qid
      BY <1>2, <1>4 DEF LastInv, LoopType
    <2>1. CASE i = n
      <3>1. next \in 1..next /\ \A j \in next + 1..next : FALSE
        BY DEF LoopType
      <3>2. out'[i] = rows[next]
        BY <2>1, <1>2, <1>4
      <3>. QED
        BY <3>1, <3>2
    <2>2. CASE i \in 1..Len(out)
      <3>1. PICK k \in 1..next - 1 : out[i] = rows[k] /\ \A j \in k + 1..next - 1 : rows[j].qid # rows[k].qid
        BY <2>2 DEF LastInv
      <3>2. rows[next].qid # rows[k].qid
        BY <3>1, <1>2, <1>7
      <3>3. k \in 1..next /\ \A j \in k + 1..next : rows[j].qid # rows[k].qid
        BY <3>1, <3>2 DEF LoopType
      <3>. QED
        BY <2>2, <3>1, <3>3, <1>4
    <2>. QED
      BY <2>1, <2>2, <1>5
  <1>11. AllInv'
    <2>. SUFFICES ASSUME NEW k \in 1..next
                  PROVE  \E i \in 1..n : out'[i].qid = rows[k].qid
      BY <1>2, <1>4 DEF AllInv, LoopType
    <2>1. CASE k = next
      BY <2>1, <1>2, <1>4 DEF LoopType, n
    <2>2. CASE k \in 1..next - 1
      <3>1. PICK i \in 1..Len(out) : out[i].qid = rows[k].qid
        BY <2>2 DEF AllInv
      <3>2. i \in 1..n
        BY DEF LoopType, n
      <3>. QED
        BY <3>1, <3>2, <1>4
    <2>. QED
      BY <2>1, <2>2 DEF LoopType
  <1>12. OrderInv'
    <2>. SUFFICES ASSUME NEW i \in 1..n, NEW j \in 1..n, i < j
                  PROVE  \E k \in 1..next : /\ rows[k].qid = out'[i].qid
                                            /\ \A l \in 1..k : rows[l].qid # out'[j].qid
      BY <1>2, <1>4 DEF OrderInv, LoopType
    <2>1. i \in 1..Len(out)
      BY <1>5 DEF LoopType, n
    <2>2. CASE j \in 1..Len(out)
      <3>1. PICK k \in 1..next - 1 : /\ rows[k].qid = out[i].qid
                                     /\ \A l \in 1..k : rows[l].qid # out[j].qid
        BY <2>1, <2>2 DEF OrderInv
      <3>. QED
        BY <3>1, <2>1, <2>2, <1>4 DEF LoopType
    \* Where the row of place i came from, the new query had not been met.
    <2>3. CASE j = n
      <3>1. PICK k \in 1..next - 1 : out[i] = rows[k]
        BY <2>1 DEF LastInv
      <3>2. k \in 1..next /\ \A l \in 1..k : l \in 1..next - 1
        BY DEF LoopType
      <3>. QED
        BY <3>1, <3>2, <2>1, <2>3, <1>4, <1>7
    <2>. QED
      BY <2>2, <2>3, <1>5
  <1>. QED
    BY <1>8, <1>9, <1>10, <1>11, <1>12

LEMMA DedupeLoopStep == LoopInv /\ [Next]_vars => LoopInv'
  <1>. SUFFICES ASSUME LoopInv, [Next]_vars PROVE LoopInv'
    OBVIOUS
  <1>1. CASE Overwrite
    BY <1>1, OverwriteStep
  <1>2. CASE Keep
    BY <1>2, KeepStep
  <1>3. CASE UNCHANGED vars
    BY <1>3 DEF vars, LoopInv, LoopType, SeenInv, LastInv, AllInv, OrderInv
  <1>. QED
    BY <1>1, <1>2, <1>3 DEF Next, Return

\* The invariant of the loop is what Dedupe asks of the result.
LEMMA LoopInvIsDedupe == LoopInv => out \in dedupe(SubSeq(rows, 1, next - 1))
  <1>. SUFFICES ASSUME LoopInv PROVE out \in dedupe(SubSeq(rows, 1, next - 1))
    OBVIOUS
  <1>. DEFINE s == SubSeq(rows, 1, next - 1)
  <1>1. /\ s \in Seq(Rows) /\ Len(s) = next - 1 /\ DOMAIN s = 1..next - 1
        /\ \A k \in 1..next - 1 : s[k] = rows[k]
    BY DEF LoopInv, LoopType
  <1>2. out \in Seq(Rows) /\ DOMAIN out = 1..Len(out) /\ Len(out) \in 0..Len(s)
    BY <1>1 DEF LoopInv, LoopType
  <1>. HIDE DEF s
  <1>3. \A i \in DOMAIN out : \E k \in DOMAIN s : out[i] = s[k] /\ LastOfQuery(s, k)
    <2>. SUFFICES ASSUME NEW i \in 1..Len(out)
                  PROVE  \E k \in 1..next - 1 : out[i] = s[k] /\ LastOfQuery(s, k)
      BY <1>1, <1>2
    <2>1. PICK k \in 1..next - 1 : out[i] = rows[k] /\ \A j \in k + 1..next - 1 : rows[j].qid # rows[k].qid
      BY DEF LoopInv, LastInv
    <2>2. \A j \in k + 1..next - 1 : j \in 1..next - 1
      BY DEF LoopInv, LoopType
    <2>. QED
      BY <2>1, <2>2, <1>1 DEF LastOfQuery
  <1>4. \A k \in DOMAIN s : \E i \in DOMAIN out : out[i].qid = s[k].qid
    BY <1>1, <1>2 DEF LoopInv, AllInv
  <1>5. \A i, j \in DOMAIN out : i < j =>
          \E k \in DOMAIN s : s[k].qid = out[i].qid /\ \A l \in 1..k : s[l].qid # out[j].qid
    <2>. SUFFICES ASSUME NEW i \in DOMAIN out, NEW j \in DOMAIN out, i < j
                  PROVE  \E k \in DOMAIN s : s[k].qid = out[i].qid /\ \A l \in 1..k : s[l].qid # out[j].qid
      OBVIOUS
    <2>1. PICK k \in 1..next - 1 : rows[k].qid = out[i].qid /\ \A l \in 1..k : rows[l].qid # out[j].qid
      BY <1>2, SMTT(30) DEF LoopInv, OrderInv
    <2>2. \A l \in 1..k : l \in 1..next - 1
      BY DEF LoopInv, LoopType
    <2>. QED
      BY <2>1, <2>2, <1>1
  <1>6. IsDedupe(out, s)
    BY <1>3, <1>4, <1>5 DEF IsDedupe
  <1>7. out \in [1..Len(out) -> Range(s)]
    BY <1>2, <1>3 DEF Range
  <1>. QED
    BY <1>2, <1>6, <1>7 DEF dedupe, s

-----------------------------------------------------------------------------
(* There is no other result.  The place of a query in the result is the    *)
(* number of the queries first met no later than it, which has nothing to  *)
(* do with the result.                                                     *)

\* The queries of the first i rows of a.
Queries(a, i) == {a[j].qid : j \in 1..i}

LEMMA ResultInjective ==
    ASSUME NEW s \in Seq(Rows), NEW a \in Seq(Rows), IsDedupe(a, s)
    PROVE  \A i, j \in 1..Len(a) : a[i].qid = a[j].qid => i = j
  <1>. SUFFICES ASSUME NEW i \in 1..Len(a), NEW j \in 1..Len(a), i < j
                PROVE  a[i].qid # a[j].qid
    OBVIOUS
  <1>0. i \in DOMAIN a /\ j \in DOMAIN a
    OBVIOUS
  <1>1. PICK k \in DOMAIN s : s[k].qid = a[i].qid /\ \A l \in 1..k : s[l].qid # a[j].qid
    BY <1>0, Zenon DEF IsDedupe
  <1>2. k \in 1..k
    OBVIOUS
  <1>. QED
    BY <1>1, <1>2

LEMMA QueriesCounted ==
    ASSUME NEW s \in Seq(Rows), NEW a \in Seq(Rows), IsDedupe(a, s), NEW i \in 1..Len(a)
    PROVE  Cardinality(Queries(a, i)) = i
  <1>. DEFINE f == [j \in 1..i |-> a[j].qid]
  <1>1. i \in Nat /\ \A j \in 1..i : j \in 1..Len(a)
    OBVIOUS
  <1>2. f \in Bijection(1..i, Queries(a, i))
    <2>1. \A j, k \in 1..i : f[j] = f[k] => j = k
      BY <1>1, ResultInjective
    <2>2. f \in [1..i -> Queries(a, i)] /\ \A q \in Queries(a, i) : \E j \in 1..i : f[j] = q
      BY DEF Queries
    <2>. HIDE DEF f
    <2>. QED
      BY <2>1, <2>2 DEF Bijection, Injection, Surjection, IsInjective
  <1>3. IsFiniteSet(1..i) /\ Cardinality(1..i) = i
    BY <1>1, FS_Interval
  <1>. HIDE DEF f
  <1>4. ExistsBijection(1..i, Queries(a, i))
    BY <1>2 DEF ExistsBijection
  <1>. QED
    BY <1>3, <1>4, FS_Bijection

\* Of two results with a query at the places i and p, what precedes it in the one
\* precedes it in the other.
LEMMA QueriesPrecede ==
    ASSUME NEW s \in Seq(Rows), NEW a \in Seq(Rows), NEW b \in Seq(Rows),
           IsDedupe(a, s), IsDedupe(b, s),
           NEW i \in 1..Len(a), NEW p \in 1..Len(b), a[i].qid = b[p].qid
    PROVE  Queries(a, i) \subseteq Queries(b, p)
  <1>. SUFFICES ASSUME NEW j \in 1..i PROVE a[j].qid \in Queries(b, p)
    BY DEF Queries
  <1>1. j \in DOMAIN a /\ i \in DOMAIN a /\ p \in DOMAIN b /\ (j < i \/ j = i)
    OBVIOUS
  <1>2. CASE j = i
    BY <1>2 DEF Queries
  <1>3. CASE j < i
    <2>1. PICK k \in DOMAIN s : s[k].qid = a[j].qid /\ \A l \in 1..k : s[l].qid # a[i].qid
      BY <1>1, <1>3 DEF IsDedupe
    <2>2. PICK m \in DOMAIN b : b[m].qid = a[j].qid
      BY <2>1 DEF IsDedupe
    <2>3. m \in Nat /\ p \in Nat /\ k \in Nat \ {0}
      OBVIOUS
    <2>4. m <= p
      <3>. SUFFICES ASSUME p < m PROVE FALSE
        BY <2>3
      <3>1. PICK n \in DOMAIN s : s[n].qid = b[p].qid /\ \A l \in 1..n : s[l].qid # b[m].qid
        BY <1>1 DEF IsDedupe
      <3>2. n \in Nat \ {0} /\ (k \in 1..n \/ n \in 1..k)
        BY <2>3
      <3>. QED
        BY <2>1, <2>2, <3>1, <3>2
    <2>5. m \in 1..p
      BY <2>3, <2>4
    <2>. QED
      BY <2>2, <2>5 DEF Queries
  <1>. QED
    BY <1>1, <1>2, <1>3

LEMMA ResultInside ==
    ASSUME NEW s \in Seq(Rows), NEW a \in Seq(Rows), NEW b \in Seq(Rows),
           IsDedupe(a, s), IsDedupe(b, s), NEW i \in 1..Len(a)
    PROVE  i \in 1..Len(b) /\ a[i] = b[i]
  <1>0. i \in DOMAIN a
    OBVIOUS
  <1>1. PICK k \in DOMAIN s : a[i] = s[k] /\ LastOfQuery(s, k)
    BY <1>0, Zenon DEF IsDedupe
  <1>2. PICK p \in DOMAIN b : b[p].qid = s[k].qid
    BY DEF IsDedupe
  <1>3. Queries(a, i) = Queries(b, p)
    <2>1. p \in 1..Len(b) /\ a[i].qid = b[p].qid
      BY <1>1, <1>2
    <2>2. Queries(a, i) \subseteq Queries(b, p)
      BY <2>1, QueriesPrecede
    <2>3. Queries(b, p) \subseteq Queries(a, i)
      BY <2>1, QueriesPrecede
    <2>. QED
      BY <2>2, <2>3
  <1>4. i = p
    BY <1>3, QueriesCounted
  <1>5. PICK m \in DOMAIN s : b[p] = s[m] /\ LastOfQuery(s, m)
    BY DEF IsDedupe
  <1>6. m = k
    <2>1. s[m].qid = s[k].qid
      BY <1>2, <1>5
    <2>2. ~(m \in k + 1..Len(s)) /\ ~(k \in m + 1..Len(s))
      BY <1>1, <1>5, <2>1 DEF LastOfQuery
    <2>. QED
      BY <2>2
  <1>. QED
    BY <1>1, <1>4, <1>5, <1>6

\* dedupe has one result at most: what Dedupe says determines it.
THEOREM DedupeUnique ==
    ASSUME NEW s \in Seq(Rows), NEW a \in Seq(Rows), NEW b \in Seq(Rows),
           IsDedupe(a, s), IsDedupe(b, s)
    PROVE  a = b
  <1>1. \A i \in 1..Len(a) : i \in 1..Len(b) /\ a[i] = b[i]
    BY ResultInside
  <1>2. \A i \in 1..Len(b) : i \in 1..Len(a)
    BY ResultInside
  <1>3. Len(a) = Len(b)
    BY <1>1, <1>2
  <1>. QED
    BY <1>1, <1>3

\* The loop computes dedupe for every batch: after every row it has the last row of
\* each query so far, in the order in which the queries were first met, and that is
\* the only thing dedupe may make of these rows.
THEOREM LoopDedupes == Spec => []LoopIsDedupe
  <1>1. LoopInv => LoopIsDedupe
    <2>. SUFFICES ASSUME LoopInv PROVE LoopIsDedupe
      OBVIOUS
    <2>. DEFINE s == SubSeq(rows, 1, next - 1)
    <2>1. s \in Seq(Rows) /\ out \in Seq(Rows)
      BY DEF LoopInv, LoopType
    <2>. HIDE DEF s
    <2>2. out \in dedupe(s)
      BY LoopInvIsDedupe DEF s
    <2>3. ASSUME NEW b \in dedupe(s) PROVE b = out
      <3>1. PICK n \in 0..Len(s) : b \in [1..n -> Range(s)]
        BY <2>3 DEF dedupe
      <3>2. Range(s) \subseteq Rows
        BY <2>1 DEF Range
      <3>3. b \in Seq(Rows)
        BY <3>1, <3>2, <2>1
      <3>4. IsDedupe(b, s) /\ IsDedupe(out, s)
        BY <2>2, <2>3 DEF dedupe
      <3>. QED
        BY <2>1, <3>3, <3>4, DedupeUnique
    <2>. QED
      BY <2>2, <2>3 DEF LoopIsDedupe, s
  <1>2. Spec => []LoopInv
    BY DedupeLoopInit, DedupeLoopStep, PTL DEF Spec
  <1>. QED
    BY <1>1, <1>2, PTL
=============================================================================
