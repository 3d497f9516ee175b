---------------------- MODULE ClickHouseInsert_proofs -----------------------
(***************************************************************************)
(* Theorems about ClickHouseInsert, for every number of rows, flushes and  *)
(* retries, every budget and all estimates: the cuts of a batch do not     *)
(* depend on where a retry resumes, so that equal rows are sent with equal *)
(* tokens, and the table shows what was acknowledged.  At the end, the     *)
(* loop of chunkRows (ChunkRows) is shown to make those cuts.              *)
(***************************************************************************)
EXTENDS ClickHouseInsert, ChunkRows, FiniteSetTheorems, TLAPS

-----------------------------------------------------------------------------
(* Where a batch is cut.                                                   *)

\* More rows are more bytes.
LEMMA SizeGrows ==
    ASSUME NEW n \in Nat, NEW c, IsCumulative(c, n),
           NEW f \in 1..n, NEW t \in f..n, NEW u \in f..n, t < u
    PROVE  /\ SizeOf(c, f, t) \in Nat /\ SizeOf(c, f, u) \in Nat
           /\ SizeOf(c, f, t) < SizeOf(c, f, u)
  <1>1. f - 1 \in 0..n /\ t \in 0..n /\ u \in 0..n /\ f - 1 < t
    OBVIOUS
  <1>2. c[f - 1] \in Nat /\ c[t] \in Nat /\ c[u] \in Nat /\ c[f - 1] < c[t] /\ c[t] < c[u]
    BY <1>1 DEF IsCumulative
  <1>. QED
    BY <1>2 DEF SizeOf

\* A greedy chunk is determined by its first row.  A retry that replays the rows
\* from the first uncommitted chunk on therefore cuts them where the first attempt
\* did, and sends statements with the same content and the same ClickHouse
\* deduplication token (SplitBatch, batchToken).
THEOREM GreedyChunkUnique ==
    ASSUME NEW n \in Nat, NEW c, IsCumulative(c, n), NEW budget \in Nat,
           NEW end \in 0..n, NEW f \in 1..n, NEW t \in Nat, NEW u \in Nat,
           IsGreedyChunk(c, budget, end, f, t), IsGreedyChunk(c, budget, end, f, u)
    PROVE  t = u
  <1>. USE DEF IsGreedyChunk
  <1>1. ASSUME NEW a \in Nat, NEW b \in Nat, a < b,
               IsGreedyChunk(c, budget, end, f, a), IsGreedyChunk(c, budget, end, f, b)
        PROVE  FALSE
    <2>1. a + 1 \in f..n /\ b \in f..n /\ f # b /\ a < end
      BY <1>1
    <2>2. SizeOf(c, f, b) <= budget
      BY <1>1, <2>1 DEF Fits
    <2>3. SizeOf(c, f, a + 1) \in Nat /\ SizeOf(c, f, a + 1) > budget
      <3>1. SizeOf(c, f, a + 1) \in Nat
        BY <2>1, <1>1, SizeGrows
      <3>. QED
        BY <1>1, <2>1, <3>1 DEF Fits
    <2>4. CASE a + 1 = b
      BY <2>2, <2>3, <2>4
    <2>5. CASE a + 1 < b
      BY <2>1, <2>2, <2>3, <2>5, SizeGrows
    <2>. QED
      BY <1>1, <2>4, <2>5
  <1>. QED
    BY <1>1

\* A chunk is not cut again: when InsertBatch splits a chunk that flush got from
\* SplitBatch, the chunk up to its own last row is greedy again, so that one
\* InsertBatch is one statement.
THEOREM ChunkNotCutAgain ==
    ASSUME NEW c, NEW budget, NEW end \in Nat, NEW f \in Nat, NEW t \in Nat,
           IsGreedyChunk(c, budget, end, f, t)
    PROVE  IsGreedyChunk(c, budget, t, f, t)
  BY DEF IsGreedyChunk

-----------------------------------------------------------------------------
(* The cuts of a batch: the least set of rows that has the first one and,  *)
(* with a row, the one after its chunk.  Every attempt resumes at a cut.   *)

Chunk(c, f, t) == IsGreedyChunk(c, Budget, Rows, f, t)

Closed(c, S) == /\ 1 \in S
                /\ \A f \in S, t \in 1..Rows : f <= Rows /\ Chunk(c, f, t) => t + 1 \in S

Cuts(c) == {r \in 1..Rows + 1 : \A S \in SUBSET (1..Rows + 1) : Closed(c, S) => r \in S}

\* The cuts are closed, and they are least.
LEMMA CutsClosed ==
    ASSUME NEW c
    PROVE  Closed(c, Cuts(c)) /\ Cuts(c) \subseteq 1..Rows + 1
  <1>1. 1 \in Cuts(c)
    BY RowsAssumption DEF Cuts, Closed
  <1>2. ASSUME NEW f \in Cuts(c), NEW t \in 1..Rows, f <= Rows, Chunk(c, f, t)
        PROVE  t + 1 \in Cuts(c)
    <2>1. t + 1 \in 1..Rows + 1
      BY RowsAssumption
    <2>2. ASSUME NEW S \in SUBSET (1..Rows + 1), Closed(c, S)
          PROVE  t + 1 \in S
      BY <1>2, <2>2 DEF Cuts, Closed
    <2>. QED
      BY <2>1, <2>2 DEF Cuts
  <1>. QED
    BY <1>1, <1>2 DEF Closed, Cuts

LEMMA CutsLeast ==
    ASSUME NEW c, NEW S \in SUBSET (1..Rows + 1), Closed(c, S)
    PROVE  Cuts(c) \subseteq S
  BY DEF Cuts

\* No chunk that starts at a cut before e reaches e.
NoneReaches(c, e) == \A f \in Cuts(c), t \in 1..Rows : f < e /\ Chunk(c, f, t) => t < e

\* Then no cut lies inside the chunk that starts at e.
LEMMA NoCutInside ==
    ASSUME NEW c, IsCumulative(c, Rows), NEW e \in Cuts(c), NoneReaches(c, e), e <= Rows,
           NEW u \in 1..Rows, Chunk(c, e, u)
    PROVE  \A f \in Cuts(c) : f <= e \/ f > u
  <1>. DEFINE S == {f \in Cuts(c) : f <= e \/ f > u}
  <1>1. S \in SUBSET (1..Rows + 1) /\ e \in 1..Rows /\ e <= u
    <2>1. Cuts(c) \subseteq 1..Rows + 1
      BY Zenon DEF Cuts
    <2>2. e <= u
      BY DEF Chunk, IsGreedyChunk
    <2>. QED
      BY <2>1, <2>2, RowsAssumption
  <1>2. 1 \in S
    BY <1>1, CutsClosed DEF Closed
  <1>3. ASSUME NEW f \in S, NEW t \in 1..Rows, f <= Rows, Chunk(c, f, t)
        PROVE  t + 1 \in S
    <2>1. t + 1 \in Cuts(c) /\ f \in 1..Rows /\ f <= t
      BY <1>1, <1>3, CutsClosed DEF Closed, Chunk, IsGreedyChunk
    <2>2. CASE f < e
      BY <1>1, <1>3, <2>1, <2>2 DEF NoneReaches
    <2>3. CASE f = e
      <3>1. t = u
        BY <1>1, <1>3, <2>3, GreedyChunkUnique, RowsAssumption, BudgetAssumption DEF Chunk
      <3>. QED
        BY <2>1, <3>1
    <2>4. CASE f > u
      BY <2>1, <2>4
    <2>. QED
      BY <1>1, <2>1, <2>2, <2>3, <2>4
  <1>4. Closed(c, S)
    BY <1>2, <1>3 DEF Closed
  <1>. QED
    BY <1>1, <1>4, CutsLeast

\* Chunks that start at cuts do not overlap.
LEMMA ChunksApart ==
    ASSUME NEW c, IsCumulative(c, Rows), NEW f \in Cuts(c), NEW g \in Cuts(c),
           NEW t \in 1..Rows, Chunk(c, f, t), f < g
    PROVE  t < g
  <1>. DEFINE S == {e \in Cuts(c) : NoneReaches(c, e)}
  <1>1. S \in SUBSET (1..Rows + 1)
    BY CutsClosed
  <1>2. 1 \in S
    BY CutsClosed, RowsAssumption DEF Closed, NoneReaches, Cuts
  <1>3. ASSUME NEW e \in S, NEW u \in 1..Rows, e <= Rows, Chunk(c, e, u)
        PROVE  u + 1 \in S
    <2>1. u + 1 \in Cuts(c) /\ e \in 1..Rows /\ e <= u
      BY <1>1, <1>3, CutsClosed DEF Closed, Chunk, IsGreedyChunk
    <2>2. ASSUME NEW x \in Cuts(c), NEW y \in 1..Rows, x < u + 1, Chunk(c, x, y)
          PROVE  y < u + 1
      <3>1. x <= e /\ x \in 1..Rows
        <4>1. \A z \in Cuts(c) : z <= e \/ z > u
          BY <1>3, NoCutInside
        <4>2. x \in 1..Rows + 1
          BY CutsClosed
        <4>. QED
          BY <2>1, <2>2, <4>1, <4>2, RowsAssumption
      <3>2. CASE x < e
        BY <1>3, <2>1, <2>2, <3>2 DEF NoneReaches
      <3>3. CASE x = e
        <4>1. y = u
          BY <1>3, <2>1, <2>2, <3>3, GreedyChunkUnique, RowsAssumption, BudgetAssumption DEF Chunk
        <4>. QED
          BY <4>1
      <3>. QED
        BY <2>1, <3>1, <3>2, <3>3
    <2>. QED
      BY <2>1, <2>2 DEF NoneReaches
  <1>4. Closed(c, S)
    BY <1>2, <1>3 DEF Closed
  <1>5. NoneReaches(c, g)
    BY <1>1, <1>4, CutsLeast
  <1>. QED
    BY <1>5 DEF NoneReaches

-----------------------------------------------------------------------------
(* The inductive invariant.                                                *)

Statement == [flush : 1..Flushes, from : 1..Rows, to : 1..Rows]

Token == [from : 1..Rows, to : 1..Rows, version : 1..Flushes]

TypeOK ==
    /\ cum \in [1..Flushes -> Inputs] /\ version \in [1..Flushes -> 1..Flushes]
    /\ flush \in 1..Flushes /\ committed \in 0..Rows
    /\ pc \in {"insert", "sent", "backoff", "ok", "failed"}
    /\ stmt \in Statement /\ inDoubt \subseteq Statement
    /\ tokens \in Seq(Token)
    /\ copies \in [1..Flushes -> [1..Rows -> Nat]]
    /\ shown \in [1..Rows -> 0..Flushes] /\ acked \in [1..Rows -> 0..Flushes]
    /\ late \subseteq 1..Rows

\* Rows of one version have one set of estimates, and versions do not go back.
InputInv ==
    /\ \A k, l \in 1..Flushes : version[k] = version[l] => cum[k] = cum[l]
    /\ \A k \in 2..Flushes : version[k - 1] <= version[k]
    /\ \A k \in 1..flush : version[k] <= version[flush]

\* A chunk of flush k.
IsCut(k, f, t) == f \in Cuts(cum[k]) /\ Chunk(cum[k], f, t)

\* Every attempt resumes at a cut, and sends chunks.
SendInv ==
    /\ committed + 1 \in Cuts(cum[flush])
    /\ pc = "sent" => stmt.flush = flush /\ stmt.from = committed + 1 /\ IsCut(flush, stmt.from, stmt.to)
    /\ \A c \in inDoubt : c.flush <= flush /\ IsCut(c.flush, c.from, c.to)
    /\ pc = "ok" => committed = Rows

Known == {tokens[i] : i \in 1..Len(tokens)}

\* A token that stands for a chunk of flush k.
StandsFor(x, k) == version[k] = x.version /\ IsCut(k, x.from, x.to)

Covers(x, r) == r \in x.from..x.to

\* The server remembers every token, once, and each stands for a chunk.
TokenInv ==
    /\ \A x \in Known : \E k \in 1..flush : StandsFor(x, k)
    /\ \A i, j \in 1..Len(tokens) : tokens[i] = tokens[j] => i = j

\* A token stands for rows in the table, and rows in the table have a token.
CopiesInv ==
    /\ \A k \in 1..Flushes, r \in 1..Rows :
          /\ copies[k][r] <= 1
          /\ copies[k][r] > 0 => \E x \in Known : x.version = version[k] /\ Covers(x, r)
    /\ \A x \in Known, r \in 1..Rows :
          Covers(x, r) => \E k \in 1..flush : version[k] = x.version /\ copies[k][r] >= 1

\* What was acknowledged has a token, and is shown unless an earlier flush came late.
ShownInv ==
    /\ \A r \in 1..committed : \E x \in Known : x.version = version[flush] /\ Covers(x, r)
    /\ \A r \in 1..Rows : acked[r] > 0 => \E x \in Known : x.version = acked[r] /\ Covers(x, r)
    /\ \A x \in Known, r \in 1..Rows : Covers(x, r) /\ shown[r] < x.version => r \in late

InsertInv == TypeOK /\ InputInv /\ SendInv /\ TokenInv /\ CopiesInv /\ ShownInv

-----------------------------------------------------------------------------
(* Tokens.                                                                 *)

\* The estimates of a flush are those of one of the inputs.
LEMMA FlushInput ==
    ASSUME TypeOK, NEW k \in 1..Flushes
    PROVE  IsCumulative(cum[k], Rows)
  BY InputsAssumption DEF TypeOK

\* Two chunks of rows of one version that share a row are the same: the deliveries are
\* cut alike wherever they resume.
LEMMA SameRowSameChunk ==
    ASSUME TypeOK, InputInv, NEW k \in 1..Flushes, NEW l \in 1..Flushes, version[k] = version[l],
           NEW f \in 1..Rows, NEW t \in 1..Rows, IsCut(k, f, t),
           NEW g \in 1..Rows, NEW u \in 1..Rows, IsCut(l, g, u),
           NEW r \in 1..Rows, r \in f..t, r \in g..u
    PROVE  f = g /\ t = u
  <1>. DEFINE c == cum[k]
  <1>1. cum[l] = c /\ IsCumulative(c, Rows)
    BY FlushInput DEF InputInv
  <1>2. f \in Cuts(c) /\ g \in Cuts(c) /\ Chunk(c, f, t) /\ Chunk(c, g, u)
    BY <1>1 DEF IsCut
  <1>. HIDE DEF c
  <1>3. ~(f < g) /\ ~(g < f)
    <2>1. f < g => t < g
      BY <1>1, <1>2, ChunksApart
    <2>2. g < f => u < f
      BY <1>1, <1>2, ChunksApart
    <2>. QED
      BY <2>1, <2>2, RowsAssumption
  <1>4. f = g
    BY <1>3, RowsAssumption
  <1>5. t = u
    BY <1>1, <1>2, <1>4, GreedyChunkUnique, RowsAssumption, BudgetAssumption DEF Chunk
  <1>. QED
    BY <1>4, <1>5

LEMMA TokenFields ==
    ASSUME NEW x \in Token, NEW y \in Token,
           x.from = y.from, x.to = y.to, x.version = y.version
    PROVE  x = y
  BY DEF Token

\* There are no more tokens than rows in all versions, so that the window of the
\* server holds them all.
LEMMA TokensFit ==
    ASSUME TypeOK, InputInv, NEW s \in Seq(Token),
           \A i \in 1..Len(s) : \E k \in 1..Flushes : StandsFor(s[i], k),
           \A i, j \in 1..Len(s) : s[i] = s[j] => i = j
    PROVE  Len(s) <= Window
  <1>. DEFINE S == 1..Len(s)
              T == (1..Rows) \X (1..Flushes)
              F == [i \in S |-> <<s[i].from, s[i].version>>]
  <1>1. IsFiniteSet(S) /\ Cardinality(S) = Len(s) /\ Len(s) \in Nat
    <2>1. Len(s) \in Nat
      OBVIOUS
    <2>2. IsFiniteSet(1..Len(s)) /\ Cardinality(1..Len(s)) = IF 1 > Len(s) THEN 0 ELSE Len(s) - 1 + 1
      BY <2>1, FS_Interval, SMTT(30)
    <2>. QED
      BY <2>1, <2>2
  <1>2. IsFiniteSet(T) /\ Cardinality(T) = Rows * Flushes
    <2>1. IsFiniteSet(1..Rows) /\ Cardinality(1..Rows) = Rows
      BY FS_Interval, RowsAssumption
    <2>2. IsFiniteSet(1..Flushes) /\ Cardinality(1..Flushes) = Flushes
      BY FS_Interval, FlushesAssumption
    <2>. QED
      BY <2>1, <2>2, FS_Product, ZenonT(60)
  <1>3. F \in [S -> T]
    <2>1. ASSUME NEW i \in S
          PROVE  <<s[i].from, s[i].version>> \in T
      <3>0. s[i] \in Token
        OBVIOUS
      <3>1. s[i].from \in 1..Rows /\ s[i].version \in 1..Flushes
        BY <3>0 DEF Token
      <3>. QED
        BY <3>1, Zenon
    <2>. HIDE DEF T
    <2>. QED
      BY <2>1, Zenon
  <1>4. ASSUME NEW i \in S, NEW j \in S, F[i] = F[j]
        PROVE  i = j
    <2>1. s[i].from = s[j].from /\ s[i].version = s[j].version /\ s[i] \in Token /\ s[j] \in Token
      BY <1>4
    <2>2. PICK k \in 1..Flushes : StandsFor(s[i], k)
      OBVIOUS
    <2>3. PICK l \in 1..Flushes : StandsFor(s[j], l)
      OBVIOUS
    <2>4. s[i].from <= s[i].to /\ s[j].from <= s[j].to
      BY <2>2, <2>3 DEF StandsFor, IsCut, Chunk, IsGreedyChunk
    <2>5. s[i].to = s[j].to
      <3>. DEFINE f == s[i].from
                  t == s[i].to
                  u == s[j].to
      <3>1. f \in 1..Rows /\ t \in 1..Rows /\ u \in 1..Rows /\ f \in f..t /\ f \in f..u
        <4>1. f \in 1..Rows /\ t \in 1..Rows /\ u \in 1..Rows
          BY <2>1 DEF Token
        <4>. QED
          BY <2>1, <2>4, <4>1
      <3>2. IsCut(k, f, t) /\ IsCut(l, f, u) /\ version[k] = version[l]
        BY <2>1, <2>2, <2>3 DEF StandsFor
      <3>. HIDE DEF f, t, u
      <3>3. t = u
        BY <3>1, <3>2, SameRowSameChunk
      <3>. QED
        BY <3>3 DEF t, u
    <2>6. s[i] = s[j]
      BY <2>1, <2>5, TokenFields
    <2>. QED
      BY <2>6
  <1>5. Len(s) <= Rows * Flushes
    <2>. SUFFICES ASSUME ~(Len(s) <= Rows * Flushes) PROVE FALSE
      OBVIOUS
    <2>1. Rows * Flushes \in Nat
      BY RowsAssumption, FlushesAssumption
    <2>2. Cardinality(T) < Cardinality(S)
      BY <1>1, <1>2, <2>1
    <2>. HIDE DEF S, T, F
    <2>3. \E x, y \in S : x # y /\ F[x] = F[y]
      BY <1>1, <1>2, <1>3, <2>2, FS_PigeonHole
    <2>. QED
      BY <1>4, <2>3
  <1>6. Rows * Flushes \in Nat
    BY RowsAssumption, FlushesAssumption
  <1>. QED
    BY <1>1, <1>5, <1>6, WindowAssumption

-----------------------------------------------------------------------------
(* The server runs an INSERT.                                              *)

\* An INSERT the client may have sent: a chunk of this flush or an earlier one.
Sendable(c) == c \in Statement /\ c.flush <= flush /\ IsCut(c.flush, c.from, c.to)

LEMMA Types ==
    ASSUME TypeOK
    PROVE  /\ 1..flush \subseteq 1..Flushes
           /\ Known \subseteq Token
           /\ \A k \in 1..Flushes, r \in 1..Rows : copies[k][r] \in Nat
  <1>1. 1..flush \subseteq 1..Flushes
    BY FlushesAssumption DEF TypeOK
  <1>2. Known \subseteq Token
    BY DEF TypeOK, Known
  <1>3. ASSUME NEW k \in 1..Flushes, NEW r \in 1..Rows
        PROVE  copies[k][r] \in Nat
    <2>1. copies[k] \in [1..Rows -> Nat]
      BY DEF TypeOK
    <2>. QED
      BY <2>1
  <1>. QED
    BY <1>1, <1>2, <1>3

LEMMA TokenOfStatement ==
    ASSUME TypeOK, NEW c, Sendable(c)
    PROVE  /\ batchToken(c) \in Token
           /\ c.flush \in 1..flush /\ c.flush \in 1..Flushes
           /\ StandsFor(batchToken(c), c.flush)
           /\ batchToken(c).from = c.from /\ batchToken(c).to = c.to
           /\ batchToken(c).version = version[c.flush]
           /\ Seen(c) <=> batchToken(c) \in Known
  <1>1. c.flush \in 1..Flushes /\ c.from \in 1..Rows /\ c.to \in 1..Rows
    BY DEF Sendable, Statement
  <1>2. version[c.flush] \in 1..Flushes
    BY <1>1 DEF TypeOK
  <1>3. c.flush \in 1..flush
    BY <1>1 DEF Sendable, TypeOK
  <1>4. batchToken(c) \in Token
    BY <1>1, <1>2 DEF batchToken, Token
  <1>5. /\ batchToken(c).from = c.from /\ batchToken(c).to = c.to
        /\ batchToken(c).version = version[c.flush]
    BY DEF batchToken
  <1>6. StandsFor(batchToken(c), c.flush)
    BY <1>5 DEF StandsFor, Sendable
  <1>7. Seen(c) <=> batchToken(c) \in Known
    BY DEF Seen, Known
  <1>. QED
    BY <1>1, <1>3, <1>4, <1>5, <1>6, <1>7

\* The tokens of an INSERT that is new to the server: none falls out of the window.
LEMMA NewToken ==
    ASSUME TypeOK, InputInv, TokenInv, NEW c, Sendable(c), ~Seen(c)
    PROVE  /\ Remember(c) = Append(tokens, batchToken(c))
           /\ Remember(c) \in Seq(Token)
           /\ {Remember(c)[i] : i \in 1..Len(Remember(c))} = Known \cup {batchToken(c)}
           /\ \A i, j \in 1..Len(Remember(c)) : Remember(c)[i] = Remember(c)[j] => i = j
  <1>. DEFINE x == batchToken(c)
              s == Append(tokens, x)
  <1>1. /\ x \in Token /\ c.flush \in 1..Flushes /\ StandsFor(x, c.flush) /\ x \notin Known
    BY TokenOfStatement
  <1>2. tokens \in Seq(Token) /\ Len(tokens) \in Nat
    BY DEF TypeOK
  <1>. HIDE DEF x
  <1>3. /\ s \in Seq(Token) /\ Len(s) = Len(tokens) + 1 /\ s[Len(s)] = x
        /\ \A i \in 1..Len(tokens) : s[i] = tokens[i]
    BY <1>1, <1>2
  <1>. HIDE DEF s
  <1>4. ASSUME NEW i \in 1..Len(s)
        PROVE  (i \in 1..Len(tokens) /\ s[i] = tokens[i]) \/ (i = Len(s) /\ s[i] = x)
    BY <1>2, <1>3
  <1>5. {s[i] : i \in 1..Len(s)} = Known \cup {x}
    <2>1. ASSUME NEW i \in 1..Len(s) PROVE s[i] \in Known \cup {x}
      BY <1>4 DEF Known
    <2>2. ASSUME NEW y \in Known PROVE \E i \in 1..Len(s) : s[i] = y
      BY <1>2, <1>3 DEF Known
    <2>3. \E i \in 1..Len(s) : s[i] = x
      BY <1>2, <1>3
    <2>. QED
      BY <2>1, <2>2, <2>3
  <1>6. ASSUME NEW i \in 1..Len(s), NEW j \in 1..Len(s), s[i] = s[j]
        PROVE  i = j
    <2>1. tokens[i] # x \/ i \notin 1..Len(tokens)
      BY <1>1 DEF Known
    <2>2. tokens[j] # x \/ j \notin 1..Len(tokens)
      BY <1>1 DEF Known
    <2>. QED
      BY <1>4, <1>6, <2>1, <2>2 DEF TokenInv
  <1>7. ASSUME NEW i \in 1..Len(s)
        PROVE  \E k \in 1..Flushes : StandsFor(s[i], k)
    <2>1. CASE s[i] = x
      BY <1>1, <2>1
    <2>2. CASE i \in 1..Len(tokens) /\ s[i] = tokens[i]
      <3>1. s[i] \in Known
        BY <2>2 DEF Known
      <3>2. PICK k \in 1..flush : StandsFor(s[i], k)
        BY <3>1 DEF TokenInv
      <3>. QED
        BY <3>2, Types
    <2>. QED
      BY <1>4, <2>1, <2>2
  <1>8. Len(s) <= Window
    BY <1>3, <1>6, <1>7, TokensFit
  <1>9. Remember(c) = s
    BY <1>2, <1>3, <1>8, WindowAssumption DEF Remember, s, x
  <1>. QED
    BY <1>3, <1>5, <1>6, <1>9 DEF s, x

\* What the server has written of the rows of an INSERT it has not seen: nothing.
LEMMA NewRows ==
    ASSUME TypeOK, InputInv, TokenInv, CopiesInv, NEW c, Sendable(c), ~Seen(c),
           NEW r \in 1..Rows, Covers(c, r), NEW k \in 1..Flushes, version[k] = version[c.flush]
    PROVE  copies[k][r] = 0
  <1>. SUFFICES ASSUME copies[k][r] # 0 PROVE FALSE
    OBVIOUS
  <1>1. copies[k][r] > 0
    BY Types
  <1>2. PICK x \in Known : x.version = version[k] /\ Covers(x, r)
    BY <1>1 DEF CopiesInv
  <1>3. PICK l \in 1..flush : StandsFor(x, l)
    BY <1>2 DEF TokenInv
  <1>4. l \in 1..Flushes /\ x \in Token
    BY <1>2, <1>3, Types
  <1>5. c.flush \in 1..Flushes /\ c.from \in 1..Rows /\ c.to \in 1..Rows
    BY DEF Sendable, Statement
  <1>6. x.from \in 1..Rows /\ x.to \in 1..Rows
    BY <1>4 DEF Token
  <1>7. version[l] = version[c.flush] /\ IsCut(l, x.from, x.to) /\ IsCut(c.flush, c.from, c.to)
    BY <1>2, <1>3 DEF StandsFor, Sendable
  <1>8. r \in x.from..x.to /\ r \in c.from..c.to
    BY <1>2 DEF Covers
  <1>9. x.from = c.from /\ x.to = c.to
    BY <1>4, <1>5, <1>6, <1>7, <1>8, SameRowSameChunk
  <1>10. x = batchToken(c)
    BY <1>2, <1>4, <1>9, TokenFields, TokenOfStatement
  <1>. QED
    BY <1>2, <1>10, TokenOfStatement

\* An INSERT, whenever it runs, leaves the tokens and the rows in step; and a row it
\* hides behind an older version is one of an earlier flush.
LEMMA ExecuteStep ==
    ASSUME TypeOK, InputInv, TokenInv, CopiesInv, ShownInv, NEW c, Sendable(c), Execute(c),
           UNCHANGED <<cum, version, flush>>
    PROVE  /\ tokens' \in Seq(Token) /\ copies' \in [1..Flushes -> [1..Rows -> Nat]]
           /\ shown' \in [1..Rows -> 0..Flushes]
           /\ Known' = Known \cup {batchToken(c)}
           /\ TokenInv' /\ CopiesInv'
           /\ \A x \in Known', r \in 1..Rows : Covers(x, r) /\ shown'[r] < x.version =>
                 r \in late \/ (c.flush < flush /\ ~Seen(c) /\ Covers(c, r))
  <1>. DEFINE x == batchToken(c)
  <1>1. /\ x \in Token /\ c.flush \in 1..flush /\ c.flush \in 1..Flushes /\ StandsFor(x, c.flush)
        /\ x.from = c.from /\ x.to = c.to /\ x.version = version[c.flush]
        /\ Seen(c) <=> x \in Known
    BY TokenOfStatement
  <1>. HIDE DEF x
  <1>2. CASE Seen(c)
    <2>1. UNCHANGED <<tokens, copies, shown>>
      BY <1>2 DEF Execute
    <2>2. Known' = Known
      BY <2>1 DEF Known
    <2>3. TokenInv'
      BY <2>1, <2>2 DEF TokenInv, StandsFor, IsCut
    <2>4. CopiesInv'
      BY <2>1, <2>2 DEF CopiesInv, Covers
    <2>. QED
      BY <1>1, <1>2, <2>1, <2>2, <2>3, <2>4 DEF TypeOK, ShownInv, x
  <1>3. CASE ~Seen(c)
    <2>1. /\ tokens' = Remember(c)
          /\ copies' = [copies EXCEPT ![c.flush] =
                           [r \in 1..Rows |-> IF r \in c.from..c.to THEN @[r] + 1 ELSE @[r]]]
          /\ shown' = [r \in 1..Rows |-> IF r \in c.from..c.to THEN version[c.flush] ELSE shown[r]]
      BY <1>3 DEF Execute
    <2>2. Known' = Known \cup {x}
      BY <1>3, <2>1, NewToken DEF Known, x
    <2>3. /\ tokens' \in Seq(Token)
          /\ \A i, j \in 1..Len(tokens') : tokens'[i] = tokens'[j] => i = j
      BY <1>3, <2>1, NewToken
    <2>4. \A k \in 1..Flushes, r \in 1..Rows :
             copies'[k][r] = IF k = c.flush /\ Covers(c, r) THEN copies[k][r] + 1 ELSE copies[k][r]
      BY <1>1, <2>1 DEF TypeOK, Covers
    <2>5. copies' \in [1..Flushes -> [1..Rows -> Nat]]
      <3>1. [r \in 1..Rows |-> IF r \in c.from..c.to THEN copies[c.flush][r] + 1 ELSE copies[c.flush][r]]
            \in [1..Rows -> Nat]
        BY <1>1, Types
      <3>. QED
        BY <1>1, <2>1, <3>1 DEF TypeOK
    <2>6. shown' \in [1..Rows -> 0..Flushes] /\ version[c.flush] \in 1..Flushes
      BY <1>1, <2>1, FlushesAssumption, SMTT(30) DEF TypeOK
    <2>7. TokenInv'
      <3>1. ASSUME NEW y \in Known'
            PROVE  \E k \in 1..flush : StandsFor(y, k)
        BY <1>1, <2>2 DEF TokenInv
      <3>. QED
        BY <2>3, <3>1 DEF TokenInv, StandsFor, IsCut
    <2>8. ASSUME NEW k \in 1..Flushes, NEW r \in 1..Rows
          PROVE  /\ copies'[k][r] <= 1
                 /\ copies'[k][r] > 0 => \E y \in Known' : y.version = version[k] /\ Covers(y, r)
      <3>1. CASE k = c.flush /\ Covers(c, r)
        <4>1. copies[k][r] = 0
          BY <1>1, <1>3, <3>1, NewRows
        <4>2. x.version = version[k] /\ Covers(x, r) /\ x \in Known'
          BY <1>1, <2>2, <3>1 DEF Covers
        <4>. QED
          BY <2>4, <3>1, <4>1, <4>2
      <3>2. CASE ~(k = c.flush /\ Covers(c, r))
        <4>1. copies'[k][r] = copies[k][r]
          BY <2>4, <3>2
        <4>. QED
          BY <2>2, <4>1 DEF CopiesInv
      <3>. QED
        BY <3>1, <3>2
    <2>9. ASSUME NEW y \in Known', NEW r \in 1..Rows, Covers(y, r)
          PROVE  \E k \in 1..flush : version[k] = y.version /\ copies'[k][r] >= 1
      <3>1. CASE y = x
        <4>1. copies'[c.flush][r] = copies[c.flush][r] + 1 /\ copies[c.flush][r] \in Nat
          BY <1>1, <2>4, <2>9, <3>1, Types DEF Covers
        <4>. QED
          BY <1>1, <3>1, <4>1
      <3>2. CASE y \in Known
        <4>1. PICK k \in 1..flush : version[k] = y.version /\ copies[k][r] >= 1
          BY <2>9, <3>2 DEF CopiesInv
        <4>2. k \in 1..Flushes /\ copies[k][r] \in Nat
          BY Types
        <4>. QED
          BY <2>4, <4>1, <4>2
      <3>. QED
        BY <2>2, <3>1, <3>2
    <2>10. CopiesInv'
      BY <2>8, <2>9 DEF CopiesInv, Covers
    <2>11. ASSUME NEW y \in Known', NEW r \in 1..Rows, Covers(y, r), shown'[r] < y.version
           PROVE  r \in late \/ (c.flush < flush /\ Covers(c, r))
      <3>1. CASE ~Covers(c, r)
        <4>1. y \in Known
          BY <1>1, <2>2, <2>11, <3>1 DEF Covers
        <4>2. shown'[r] = shown[r]
          BY <2>1, <3>1 DEF Covers
        <4>. QED
          BY <2>11, <4>1, <4>2 DEF ShownInv
      <3>2. CASE Covers(c, r) /\ c.flush = flush
        <4>1. shown'[r] = version[flush]
          BY <2>1, <3>2 DEF Covers
        <4>2. PICK k \in 1..flush : version[k] = y.version
          BY <2>9, <2>11
        <4>3. version[k] <= version[flush] /\ version[k] \in 1..Flushes /\ version[flush] \in 1..Flushes
          BY Types DEF InputInv, TypeOK
        <4>. QED
          BY <2>11, <4>1, <4>2, <4>3
      <3>3. CASE Covers(c, r) /\ c.flush # flush
        BY <1>1, <3>3 DEF TypeOK
      <3>. QED
        BY <3>1, <3>2, <3>3
    <2>. QED
      BY <1>3, <2>2, <2>3, <2>5, <2>6, <2>7, <2>10, <2>11 DEF x
  <1>. QED
    BY <1>2, <1>3

-----------------------------------------------------------------------------
(* The steps.                                                              *)

\* A step that leaves the server alone leaves what is known of it alone.
LEMMA ServerUnchanged ==
    ASSUME TypeOK, TokenInv, CopiesInv, UNCHANGED <<cum, version, flush, server>>
    PROVE  TokenInv' /\ CopiesInv' /\ Known' = Known
  <1>1. Known' = Known /\ UNCHANGED <<tokens, copies>>
    BY DEF Known, server
  <1>. QED
    BY <1>1 DEF TokenInv, CopiesInv, StandsFor, IsCut, Covers

LEMMA InsertInit == Init => InsertInv
  <1>. SUFFICES ASSUME Init PROVE InsertInv
    OBVIOUS
  <1>1. /\ version \in [1..Flushes -> 1..Flushes]
        /\ \A k \in 2..Flushes : version[k - 1] <= version[k]
    <2>1. version \in [1..Flushes -> 1..Flushes]
      BY DEF Init, Versions
    <2>2. ASSUME NEW k \in 2..Flushes
          PROVE  version[k - 1] <= version[k]
      <3>1. k - 1 \in 1..Flushes /\ k \in 1..Flushes
        BY FlushesAssumption
      <3>2. version[k] \in {version[k - 1], version[k - 1] + 1}
        BY DEF Init, Versions
      <3>. QED
        BY <2>1, <3>1, <3>2
    <2>. QED
      BY <2>1, <2>2
  <1>2. TypeOK
    BY <1>1, RowsAssumption, FlushesAssumption DEF Init, TypeOK, Statement
  <1>3. InputInv
    <2>1. version[1] \in Nat /\ flush = 1
      BY <1>1, FlushesAssumption DEF Init
    <2>. QED
      BY <1>1, <2>1 DEF Init, InputInv
  <1>4. SendInv
    <2>1. 1 \in Cuts(cum[1])
      BY CutsClosed DEF Closed
    <2>. QED
      BY <2>1 DEF Init, SendInv
  <1>5. Known = {} /\ Len(tokens) = 0
    BY DEF Init, Known
  <1>6. TokenInv
    BY <1>5 DEF TokenInv
  <1>7. CopiesInv
    BY <1>5 DEF Init, CopiesInv
  <1>8. ShownInv
    BY <1>5 DEF Init, ShownInv
  <1>. QED
    BY <1>2, <1>3, <1>4, <1>6, <1>7, <1>8 DEF InsertInv

LEMMA InsertChunkStep ==
    ASSUME InsertInv, InsertChunk
    PROVE  InsertInv'
  <1>. USE DEF InsertInv
  <1>1. PICK to \in 1..Rows : /\ SplitBatch(committed + 1, to)
                              /\ stmt' = [flush |-> flush, from |-> committed + 1, to |-> to]
    BY DEF InsertChunk
  <1>2. /\ pc' = "sent"
        /\ UNCHANGED <<cum, version, flush, committed, inDoubt, server, tokens, copies, shown, late, acked>>
    BY DEF InsertChunk, input, server
  <1>3. IsCut(flush, committed + 1, to) /\ committed + 1 \in 1..Rows
    <2>1. committed + 1 <= to
      BY <1>1 DEF SplitBatch, IsGreedyChunk
    <2>. QED
      BY <1>1, <2>1, RowsAssumption DEF SendInv, IsCut, Chunk, SplitBatch, TypeOK
  <1>4. TypeOK'
    BY <1>1, <1>2, <1>3 DEF TypeOK, Statement
  <1>5. InputInv'
    BY <1>2 DEF InputInv
  <1>6. SendInv'
    <2>1. stmt'.flush = flush' /\ stmt'.from = committed' + 1 /\ IsCut(flush, stmt'.from, stmt'.to)
      BY <1>1, <1>2, <1>3
    <2>. QED
      BY <1>2, <2>1 DEF SendInv, IsCut
  <1>7. TokenInv' /\ CopiesInv' /\ Known' = Known
    BY <1>2, ServerUnchanged
  <1>8. ShownInv'
    BY <1>2, <1>7 DEF ShownInv, Covers
  <1>. QED
    BY <1>4, <1>5, <1>6, <1>7, <1>8

\* An acknowledged chunk is in the table, and flush goes on after it.
LEMMA SendOkStep ==
    ASSUME InsertInv, Send_Ok
    PROVE  InsertInv'
  <1>. USE DEF InsertInv
  <1>. DEFINE x == batchToken(stmt)
  <1>1. /\ pc = "sent" /\ Execute(stmt) /\ committed' = stmt.to
        /\ pc' = IF stmt.to = Rows THEN "ok" ELSE "insert"
        /\ acked' = [r \in 1..Rows |-> IF r \in stmt.from..stmt.to THEN version[flush] ELSE acked[r]]
        /\ UNCHANGED <<cum, version, flush, stmt, inDoubt, late>>
    BY DEF Send_Ok, input
  <1>2. /\ stmt \in Statement /\ stmt.flush = flush /\ stmt.from = committed + 1
        /\ stmt.to \in 1..Rows /\ IsCut(flush, stmt.from, stmt.to)
    BY <1>1 DEF SendInv, TypeOK, Statement
  <1>3. Sendable(stmt)
    BY <1>2 DEF Sendable, TypeOK
  <1>4. /\ tokens' \in Seq(Token) /\ copies' \in [1..Flushes -> [1..Rows -> Nat]]
        /\ shown' \in [1..Rows -> 0..Flushes]
        /\ Known' = Known \cup {x}
        /\ TokenInv' /\ CopiesInv'
        /\ \A y \in Known', r \in 1..Rows : Covers(y, r) /\ shown'[r] < y.version => r \in late
    BY <1>1, <1>2, <1>3, ExecuteStep, SMTT(30) DEF TypeOK
  <1>5. x.from = stmt.from /\ x.to = stmt.to /\ x.version = version[flush]
    BY <1>2, <1>3, TokenOfStatement
  <1>. HIDE DEF x
  <1>6. TypeOK'
    <2>1. version[flush] \in 0..Flushes /\ committed' \in 0..Rows
      <3>1. version[flush] \in 1..Flushes
        BY DEF TypeOK
      <3>. QED
        BY <1>1, <1>2, <3>1, FlushesAssumption, RowsAssumption
    <2>2. acked' \in [1..Rows -> 0..Flushes]
      BY <1>1, <2>1 DEF TypeOK
    <2>. QED
      BY <1>1, <1>2, <1>4, <2>1, <2>2 DEF TypeOK
  <1>7. InputInv'
    BY <1>1 DEF InputInv
  <1>8. SendInv'
    <2>1. stmt.to + 1 \in Cuts(cum[flush])
      BY <1>2, CutsClosed, RowsAssumption DEF Closed, IsCut, Chunk, IsGreedyChunk, Cuts
    <2>. QED
      BY <1>1, <2>1 DEF SendInv, IsCut
  <1>9. ShownInv'
    <2>1. ASSUME NEW r \in 1..stmt.to
          PROVE  \E y \in Known' : y.version = version[flush] /\ Covers(y, r)
      <3>1. CASE r \in 1..committed
        BY <1>4, <3>1 DEF ShownInv
      <3>2. CASE r \notin 1..committed
        <4>1. Covers(x, r)
          BY <1>2, <1>5, <3>2 DEF Covers, TypeOK
        <4>. QED
          BY <1>4, <1>5, <4>1
      <3>. QED
        BY <3>1, <3>2
    <2>2. ASSUME NEW r \in 1..Rows, acked'[r] > 0
          PROVE  \E y \in Known' : y.version = acked'[r] /\ Covers(y, r)
      <3>1. CASE r \in stmt.from..stmt.to
        BY <1>1, <1>4, <1>5, <3>1 DEF Covers
      <3>2. CASE r \notin stmt.from..stmt.to
        BY <1>1, <1>4, <2>2, <3>2 DEF ShownInv
      <3>. QED
        BY <3>1, <3>2
    <2>. QED
      BY <1>1, <1>4, <2>1, <2>2 DEF ShownInv, Covers
  <1>. QED
    BY <1>4, <1>6, <1>7, <1>8, <1>9

LEMMA SendFailsStep ==
    ASSUME InsertInv, NEW nonRetryable \in BOOLEAN, NEW has \in BOOLEAN, Send_Fails(nonRetryable, has)
    PROVE  InsertInv'
  <1>. USE DEF InsertInv
  <1>1. /\ pc = "sent" /\ pc' \in {"failed", "backoff"}
        /\ inDoubt' \in {inDoubt, inDoubt \cup {stmt}}
        /\ UNCHANGED <<cum, version, flush, committed, stmt, server, tokens, copies, shown, late, acked>>
    BY DEF Send_Fails, input, server
  <1>2. TypeOK'
    BY <1>1 DEF TypeOK
  <1>3. InputInv'
    BY <1>1 DEF InputInv
  <1>4. SendInv'
    BY <1>1 DEF SendInv, IsCut, TypeOK
  <1>5. TokenInv' /\ CopiesInv' /\ Known' = Known
    BY <1>1, ServerUnchanged
  <1>6. ShownInv'
    BY <1>1, <1>5 DEF ShownInv, Covers
  <1>. QED
    BY <1>2, <1>3, <1>4, <1>5, <1>6

LEMMA RetryStep ==
    ASSUME InsertInv, Retry
    PROVE  InsertInv'
  <1>. USE DEF InsertInv
  <1>1. /\ pc' = "insert"
        /\ UNCHANGED <<cum, version, flush, committed, stmt, inDoubt, server, tokens, copies, shown, late, acked>>
    BY DEF Retry, input, server
  <1>2. TypeOK'
    BY <1>1 DEF TypeOK
  <1>3. InputInv'
    BY <1>1 DEF InputInv
  <1>4. SendInv'
    BY <1>1 DEF SendInv, IsCut
  <1>5. TokenInv' /\ CopiesInv' /\ Known' = Known
    BY <1>1, ServerUnchanged
  <1>6. ShownInv'
    BY <1>1, <1>5 DEF ShownInv, Covers
  <1>. QED
    BY <1>2, <1>3, <1>4, <1>5, <1>6

\* The next batch starts at its first row, with no older a version.
LEMMA NextFlushStep ==
    ASSUME InsertInv, NextFlush
    PROVE  InsertInv'
  <1>. USE DEF InsertInv
  <1>1. /\ flush < Flushes /\ flush' = flush + 1 /\ committed' = 0 /\ pc' = "insert"
        /\ UNCHANGED <<cum, version, stmt, inDoubt, server, tokens, copies, shown, late, acked>>
    BY DEF NextFlush, input, server
  <1>2. /\ flush' \in 2..Flushes /\ flush \in 1..Flushes /\ flush' \in 1..Flushes
        /\ 1..flush \subseteq 1..flush' /\ 1..flush' \subseteq 1..Flushes
    BY <1>1, FlushesAssumption DEF TypeOK
  <1>3. TypeOK'
    BY <1>1, <1>2, RowsAssumption, SMTT(30) DEF TypeOK
  <1>4. InputInv'
    <2>1. ASSUME NEW k \in 1..flush'
          PROVE  version[k] <= version[flush']
      <3>1. version[flush] <= version[flush'] /\ version[flush] \in Nat /\ version[flush'] \in Nat
        <4>1. version[flush' - 1] <= version[flush'] /\ flush' - 1 = flush
          BY <1>1, <1>2 DEF InputInv, TypeOK
        <4>2. \A l \in 1..Flushes : version[l] \in Nat
          BY FlushesAssumption, SMTT(30) DEF TypeOK
        <4>. QED
          BY <1>2, <4>1, <4>2
      <3>2. CASE k = flush'
        BY <3>1, <3>2
      <3>3. CASE k # flush'
        <4>1. k \in 1..flush /\ k \in 1..Flushes
          BY <1>1, <1>2, <3>3
        <4>2. version[k] <= version[flush] /\ version[k] \in Nat
          BY <4>1 DEF InputInv, TypeOK
        <4>. QED
          BY <3>1, <4>2
      <3>. QED
        BY <3>2, <3>3
    <2>. QED
      BY <1>1, <2>1 DEF InputInv
  <1>5. SendInv'
    <2>1. 1 \in Cuts(cum[flush'])
      BY CutsClosed DEF Closed
    <2>2. ASSUME NEW c \in inDoubt
          PROVE  c.flush <= flush'
      <3>1. c.flush <= flush /\ c.flush \in 1..Flushes
        BY DEF SendInv, TypeOK, Statement
      <3>. QED
        BY <1>1, <3>1 DEF TypeOK
    <2>. QED
      BY <1>1, <2>1, <2>2 DEF SendInv, IsCut
  <1>6. Known' = Known
    BY <1>1 DEF Known
  <1>7. TokenInv'
    BY <1>1, <1>2, <1>6 DEF TokenInv, StandsFor, IsCut
  <1>8. CopiesInv'
    BY <1>1, <1>2, <1>6 DEF CopiesInv, Covers
  <1>9. ShownInv'
    BY <1>1, <1>6 DEF ShownInv, Covers
  <1>. QED
    BY <1>3, <1>4, <1>5, <1>7, <1>8, <1>9

\* An INSERT in doubt runs, after its flush perhaps.
LEMMA LateExecuteStep ==
    ASSUME InsertInv, NEW c \in inDoubt, LateExecute(c)
    PROVE  InsertInv'
  <1>. USE DEF InsertInv
  <1>1. /\ Execute(c) /\ inDoubt' = inDoubt \ {c}
        /\ late' = IF c.flush < flush /\ ~Seen(c) THEN late \cup c.from..c.to ELSE late
        /\ UNCHANGED <<cum, version, flush, committed, pc, stmt, acked>>
    BY DEF LateExecute, input
  <1>2. Sendable(c) /\ c.from..c.to \subseteq 1..Rows
    <2>1. c \in Statement
      BY DEF TypeOK
    <2>2. c.from..c.to \subseteq 1..Rows
      BY <2>1, RowsAssumption DEF Statement
    <2>. QED
      BY <2>1, <2>2 DEF SendInv, Sendable
  <1>3. /\ tokens' \in Seq(Token) /\ copies' \in [1..Flushes -> [1..Rows -> Nat]]
        /\ shown' \in [1..Rows -> 0..Flushes]
        /\ Known \subseteq Known'
        /\ TokenInv' /\ CopiesInv'
        /\ \A x \in Known', r \in 1..Rows : Covers(x, r) /\ shown'[r] < x.version =>
              r \in late \/ (c.flush < flush /\ ~Seen(c) /\ Covers(c, r))
    BY <1>1, <1>2, ExecuteStep
  <1>4. TypeOK'
    BY <1>1, <1>2, <1>3 DEF TypeOK
  <1>5. InputInv'
    BY <1>1 DEF InputInv
  <1>6. SendInv'
    BY <1>1 DEF SendInv, IsCut
  <1>7. ShownInv'
    <2>1. ASSUME NEW x \in Known', NEW r \in 1..Rows, Covers(x, r), shown'[r] < x.version
          PROVE  r \in late'
      BY <1>1, <1>3, <2>1 DEF Covers
    <2>. QED
      BY <1>1, <1>3, <2>1 DEF ShownInv, Covers
  <1>. QED
    BY <1>3, <1>4, <1>5, <1>6, <1>7

LEMMA InsertStep == InsertInv /\ [Next]_vars => InsertInv'
  <1>. SUFFICES ASSUME InsertInv, [Next]_vars PROVE InsertInv'
    OBVIOUS
  <1>1. CASE InsertChunk \/ Send_Ok \/ Retry \/ NextFlush
    BY <1>1, InsertChunkStep, SendOkStep, RetryStep, NextFlushStep
  <1>2. ASSUME NEW nonRetryable \in BOOLEAN, NEW has \in BOOLEAN, Send_Fails(nonRetryable, has)
        PROVE  InsertInv'
    BY <1>2, SendFailsStep
  <1>3. ASSUME NEW c \in inDoubt, LateExecute(c)
        PROVE  InsertInv'
    BY <1>3, LateExecuteStep
  <1>4. CASE UNCHANGED vars
    <2>1. UNCHANGED <<cum, version, flush, committed, pc, stmt, inDoubt, server, tokens, copies, shown,
                      late, acked>>
      BY <1>4 DEF vars, input, server
    <2>2. TokenInv' /\ CopiesInv' /\ Known' = Known
      BY <2>1, ServerUnchanged DEF InsertInv
    <2>. QED
      BY <2>1, <2>2 DEF InsertInv, TypeOK, InputInv, SendInv, IsCut, ShownInv, Covers
  <1>. QED
    BY <1>1, <1>2, <1>3, <1>4 DEF Next, Finished

LEMMA InsertInvariant == Spec => []InsertInv
  BY InsertInit, InsertStep, PTL DEF Spec

-----------------------------------------------------------------------------
(* The theorems.                                                           *)

\* An identical retry is dropped by the server: no row of a flush is written twice,
\* whatever fails, is replayed or runs late.
THEOREM NothingWrittenTwice == Spec => []ReplaysAreDropped
  <1>1. InsertInv => ReplaysAreDropped
    BY DEF InsertInv, CopiesInv, ReplaysAreDropped
  <1>. QED
    BY <1>1, InsertInvariant, PTL

\* What flush reports as committed is in the table.
THEOREM AcknowledgedIsWritten == Spec => []CommittedIsWritten
  <1>1. ASSUME InsertInv, NEW r \in 1..committed
        PROVE  \E k \in 1..flush : version[k] = version[flush] /\ copies[k][r] >= 1
    <2>1. PICK x \in Known : x.version = version[flush] /\ Covers(x, r)
      BY <1>1 DEF InsertInv, ShownInv
    <2>2. r \in 1..Rows
      BY <1>1, RowsAssumption DEF InsertInv, TypeOK
    <2>. QED
      BY <1>1, <2>1, <2>2 DEF InsertInv, CopiesInv
  <1>2. InsertInv => CommittedIsWritten
    BY <1>1 DEF InsertInv, SendInv, CommittedIsWritten
  <1>. QED
    BY <1>2, InsertInvariant, PTL

\* A read shows no older a version of a row than was acknowledged, unless an INSERT of
\* an earlier flush ran late.
THEOREM ReadsShowNewest == Spec => []NewestIsShown
  <1>1. ASSUME InsertInv, NEW r \in 1..Rows, shown[r] < acked[r]
        PROVE  r \in late
    <2>1. acked[r] > 0
      BY <1>1 DEF InsertInv, TypeOK
    <2>2. PICK x \in Known : x.version = acked[r] /\ Covers(x, r)
      BY <1>1, <2>1 DEF InsertInv, ShownInv
    <2>. QED
      BY <1>1, <2>2 DEF InsertInv, ShownInv
  <1>2. InsertInv => NewestIsShown
    BY <1>1 DEF NewestIsShown
  <1>. QED
    BY <1>2, InsertInvariant, PTL

-----------------------------------------------------------------------------
(* The loop of chunkRows, which makes the chunks.                          *)

(* The loop invariant: size is the estimate of cur, cur fits the budget    *)
(* unless it is a single row, and it starts where the last chunk ended.    *)

CurInv == /\ size = sums[next - 1] - sums[from - 1]
          /\ from < next => Fits(sums, Budget, from, next - 1)
          /\ next > first => from < next
          /\ ~done => from = IF chunks = <<>> THEN first ELSE chunks[Len(chunks)].to + 1
          /\ done => next = last + 1

LoopInv == LoopTypeOK /\ CurInv /\ Contiguous /\ ChunksAreGreedy

Follows(s, b) == /\ s # <<>> => s[1].from = b
                 /\ \A k \in 1..Len(s) - 1 : s[k + 1].from = s[k].to + 1

\* Appending a chunk that starts where the last one ended.
LEMMA AppendChunk ==
    ASSUME NEW s \in Seq(RowRange), NEW c \in RowRange, NEW b, Follows(s, b),
           c.from = IF s = <<>> THEN b ELSE s[Len(s)].to + 1
    PROVE  /\ Append(s, c) \in Seq(RowRange) /\ Append(s, c) # <<>>
           /\ Len(Append(s, c)) = Len(s) + 1 /\ Len(s) \in Nat
           /\ \A k \in 1..Len(s) : Append(s, c)[k] = s[k]
           /\ Append(s, c)[Len(Append(s, c))] = c
           /\ Follows(Append(s, c), b)
  <1>. DEFINE t == Append(s, c)
  <1>1. /\ t \in Seq(RowRange) /\ Len(t) = Len(s) + 1 /\ Len(s) \in Nat
        /\ \A k \in 1..Len(s) : t[k] = s[k]
        /\ t[Len(t)] = c
    OBVIOUS
  <1>. HIDE DEF t
  <1>2. t # <<>>
    BY <1>1
  <1>3. t[1].from = b
    <2>1. CASE s = <<>>
      BY <1>1, <2>1
    <2>2. CASE s # <<>>
      BY <1>1, <2>2 DEF Follows
    <2>. QED
      BY <2>1, <2>2
  <1>4. ASSUME NEW k \in 1..Len(t) - 1
        PROVE  t[k + 1].from = t[k].to + 1
    <2>1. CASE k < Len(s)
      BY <1>1, <2>1 DEF Follows
    <2>2. CASE k = Len(s)
      BY <1>1, <2>2
    <2>. QED
      BY <1>1, <2>1, <2>2
  <1>. QED
    BY <1>1, <1>2, <1>3, <1>4 DEF Follows, t

LEMMA LoopStarts == LoopInit => LoopInv
  <1>. SUFFICES ASSUME LoopInit
                PROVE  LoopInv
    OBVIOUS
  <1>. USE DEF LoopInit
  <1>1. LoopTypeOK
    <2>1. IsCumulative(sums, Rows)
      BY InputsAssumption DEF IsCumulative
    <2>2. next \in first..last + 1 /\ from \in first..next /\ size \in Nat
      BY RowsAssumption
    <2>3. chunks \in Seq(RowRange)
      OBVIOUS
    <2>. QED
      BY <2>1, <2>2, <2>3, Zenon DEF LoopTypeOK
  <1>2. CurInv
    BY <1>1, RowsAssumption DEF CurInv, LoopTypeOK, IsCumulative
  <1>3. Contiguous /\ ChunksAreGreedy
    BY DEF Contiguous, ChunksAreGreedy
  <1>. QED
    BY <1>1, <1>2, <1>3 DEF LoopInv

LEMMA LoopSteps == LoopInv /\ [LoopNext]_loopVars => LoopInv'
  <1>. SUFFICES ASSUME LoopInv, [LoopNext]_loopVars
                PROVE  LoopInv'
    OBVIOUS
  <1>. USE DEF LoopInv
  <1>1. /\ next \in Nat /\ from \in Nat /\ first \in Nat /\ last \in Nat /\ size \in Nat
        /\ \A i \in 0..Rows : sums[i] \in Nat
        /\ \A i, j \in 0..Rows : i < j => sums[i] < sums[j]
    BY RowsAssumption DEF LoopTypeOK, IsCumulative
  <1>2. CASE CloseChunk
    <2>. DEFINE c == [from |-> from, to |-> next - 1]
    <2>. USE <1>2 DEF CloseChunk
    <2>1. /\ 1 <= first /\ first <= from /\ from < next /\ next <= last /\ last <= Rows
          /\ next \in 0..Rows /\ next - 1 \in 0..Rows /\ from - 1 \in 0..Rows
      BY <1>1, RowsAssumption DEF LoopTypeOK
    <2>2. ~done
      BY <1>1, <2>1 DEF CurInv
    <2>3. c \in RowRange
      BY <1>1, <2>1 DEF RowRange
    <2>4. c.from = IF chunks = <<>> THEN first ELSE chunks[Len(chunks)].to + 1
      BY <2>2 DEF CurInv
    <2>5. /\ chunks' \in Seq(RowRange) /\ chunks' # <<>> /\ Len(chunks') = Len(chunks) + 1
          /\ \A k \in 1..Len(chunks) : chunks'[k] = chunks[k]
          /\ chunks'[Len(chunks')] = c /\ Len(chunks) \in Nat
          /\ Follows(chunks', first)
      <3>1. chunks \in Seq(RowRange) /\ Follows(chunks, first) /\ chunks' = Append(chunks, c)
        BY DEF LoopTypeOK, Contiguous, Follows
      <3>. HIDE DEF c
      <3>. QED
        BY <2>3, <2>4, <3>1, AppendChunk
    <2>6. LoopTypeOK'
      BY <1>1, <2>1, <2>5, SMTT(30) DEF LoopTypeOK, SizeOf, call
    <2>7. CurInv'
      BY <1>1, <2>1, <2>2, <2>5, SMTT(30) DEF CurInv, SizeOf, Fits, call
    <2>8. Contiguous'
      BY <2>2, <2>5 DEF Contiguous, Follows, call
    <2>9. IsGreedyChunk(sums, Budget, last, from, next - 1)
      <3>1. Fits(sums, Budget, from, next - 1)
        BY <2>1 DEF CurInv
      <3>2. SizeOf(sums, from, next) = size + SizeOf(sums, next, next)
        BY <1>1, <2>1, SMTT(30) DEF CurInv, SizeOf
      <3>3. ~(SizeOf(sums, from, next) <= Budget)
        BY <1>1, <2>1, <3>2, BudgetAssumption DEF Overflows, SizeOf
      <3>. QED
        BY <1>1, <2>1, <3>1, <3>3 DEF IsGreedyChunk, Fits
    <2>10. ChunksAreGreedy'
      BY <2>5, <2>9 DEF ChunksAreGreedy, LoopTypeOK, call
    <2>. QED
      BY <2>6, <2>7, <2>8, <2>10
  <1>3. CASE Pack
    <2>. USE <1>3 DEF Pack
    <2>1. /\ 1 <= first /\ first <= from /\ from <= next /\ next <= last /\ last <= Rows
          /\ next \in 0..Rows /\ next - 1 \in 0..Rows /\ from - 1 \in 0..Rows
      BY <1>1, RowsAssumption DEF LoopTypeOK
    <2>2. LoopTypeOK'
      BY <1>1, <2>1, SMTT(30) DEF LoopTypeOK, SizeOf, call
    <2>3. CurInv'
      BY <1>1, <2>1, BudgetAssumption, SMTT(30) DEF CurInv, SizeOf, Fits, Overflows, call
    <2>4. Contiguous' /\ ChunksAreGreedy'
      BY DEF Contiguous, ChunksAreGreedy, call
    <2>. QED
      BY <2>2, <2>3, <2>4
  <1>4. CASE Return
    <2>. USE <1>4 DEF Return
    <2>1. /\ 1 <= first /\ first <= from /\ from <= next /\ next = last + 1 /\ last <= Rows
          /\ next - 1 \in 0..Rows /\ from - 1 \in 0..Rows
      BY <1>1, RowsAssumption DEF LoopTypeOK
    <2>2. CASE from < next
      <3>. DEFINE c == [from |-> from, to |-> next - 1]
      <3>1. c \in RowRange
        BY <1>1, <2>1, <2>2 DEF RowRange
      <3>2. c.from = IF chunks = <<>> THEN first ELSE chunks[Len(chunks)].to + 1
        BY DEF CurInv
      <3>3. /\ chunks' \in Seq(RowRange) /\ chunks' # <<>> /\ Len(chunks') = Len(chunks) + 1
            /\ \A k \in 1..Len(chunks) : chunks'[k] = chunks[k]
            /\ chunks'[Len(chunks')] = c /\ Len(chunks) \in Nat
            /\ Follows(chunks', first)
        <4>1. chunks \in Seq(RowRange) /\ Follows(chunks, first) /\ chunks' = Append(chunks, c)
          BY <2>2 DEF LoopTypeOK, Contiguous, Follows
        <4>. HIDE DEF c
        <4>. QED
          BY <3>1, <3>2, <4>1, AppendChunk
      <3>4. LoopTypeOK'
        BY <3>3 DEF LoopTypeOK, call
      <3>5. CurInv'
        BY <2>1 DEF CurInv, call
      <3>6. Contiguous'
        BY <1>1, <2>1, <2>2, <3>3 DEF Contiguous, Follows, call
      <3>7. IsGreedyChunk(sums, Budget, last, from, next - 1)
        BY <1>1, <2>1, <2>2, SMTT(30) DEF IsGreedyChunk, CurInv
      <3>8. ChunksAreGreedy'
        BY <3>3, <3>7 DEF ChunksAreGreedy, LoopTypeOK, call
      <3>. QED
        BY <3>4, <3>5, <3>6, <3>8
    <2>3. CASE ~(from < next)
      <3>1. first > last /\ chunks' = chunks
        BY <1>1, <2>1, <2>3 DEF CurInv
      <3>2. chunks = <<>>
        <4>1. SUFFICES ASSUME chunks # <<>>
                       PROVE  FALSE
          OBVIOUS
        <4>2. Len(chunks) \in 1..Len(chunks)
          BY <4>1 DEF LoopTypeOK
        <4>3. /\ from = chunks[Len(chunks)].to + 1
              /\ chunks[Len(chunks)].from <= chunks[Len(chunks)].to
              /\ chunks[Len(chunks)].to <= last
          BY <4>1, <4>2 DEF CurInv, ChunksAreGreedy, IsGreedyChunk
        <4>4. chunks[1].from = first /\ 1 \in 1..Len(chunks)
          BY <4>2 DEF Contiguous
        <4>5. chunks[1] \in RowRange /\ chunks[1].from <= chunks[1].to /\ chunks[1].to <= last
          BY <4>4 DEF ChunksAreGreedy, IsGreedyChunk, LoopTypeOK
        <4>. QED
          BY <1>1, <3>1, <4>4, <4>5 DEF RowRange
      <3>3. LoopTypeOK' /\ CurInv'
        BY <2>1, <3>1 DEF LoopTypeOK, CurInv, call
      <3>4. Contiguous' /\ ChunksAreGreedy'
        BY <3>1, <3>2 DEF Contiguous, ChunksAreGreedy, call
      <3>. QED
        BY <3>3, <3>4
    <2>. QED
      BY <2>2, <2>3
  <1>5. CASE UNCHANGED loopVars
    BY <1>5 DEF loopVars, call, LoopTypeOK, CurInv, Contiguous, ChunksAreGreedy
  <1>. QED
    BY <1>2, <1>3, <1>4, <1>5 DEF LoopNext, Returned

\* chunkRows keeps its comment for every batch and every budget: "Order is
\* preserved and chunks are never empty; a single row estimated above budget
\* becomes its own chunk", and no row is lost.
THEOREM ChunksContiguous == LoopSpec => []Contiguous
  <1>1. LoopInv => Contiguous
    BY DEF LoopInv
  <1>. QED
    BY <1>1, LoopStarts, LoopSteps, PTL DEF LoopSpec

\* Every chunk is the greedy one of its first row, for every batch and every budget.
THEOREM ChunksGreedy == LoopSpec => []ChunksAreGreedy
  <1>1. LoopInv => ChunksAreGreedy
    BY DEF LoopInv
  <1>. QED
    BY <1>1, LoopStarts, LoopSteps, PTL DEF LoopSpec

\* The chunks of the loop are the ones InsertChunk sends: a chunk of a call for all rows
\* that are left is the one that starts at its first row.
LoopAgrees ==
    last = Rows => \A k \in 1..Len(chunks), to \in 1..Rows :
                      Chunk(sums, chunks[k].from, to) <=> to = chunks[k].to

\* chunkRows and ClickHouseInsert cut a batch at the same rows, for every batch and
\* budget: what is proved of InsertChunk holds of the loop that the code runs.
THEOREM LoopMakesTheChunks == LoopSpec => []LoopAgrees
  <1>1. LoopInv => LoopAgrees
    <2>. SUFFICES ASSUME LoopInv, last = Rows, NEW k \in 1..Len(chunks), NEW to \in 1..Rows
                  PROVE  Chunk(sums, chunks[k].from, to) <=> to = chunks[k].to
      BY DEF LoopAgrees
    <2>. DEFINE f == chunks[k].from
                t == chunks[k].to
    <2>1. f \in Nat /\ t \in Nat /\ IsCumulative(sums, Rows)
      <3>1. chunks[k] \in RowRange /\ IsCumulative(sums, Rows)
        BY DEF LoopInv, LoopTypeOK
      <3>. QED
        BY <3>1 DEF RowRange, IsCumulative
    <2>2. Chunk(sums, f, t)
      <3>1. IsGreedyChunk(sums, Budget, Rows, f, t)
        BY DEF LoopInv, ChunksAreGreedy
      <3>. HIDE DEF f, t
      <3>. QED
        BY <3>1 DEF Chunk, IsGreedyChunk, Fits, SizeOf
    <2>3. f >= 1
      <3>1. CASE k = 1
        BY <3>1 DEF LoopInv, Contiguous, LoopTypeOK
      <3>2. CASE k # 1
        <4>1. k - 1 \in 1..Len(chunks) - 1 /\ k - 1 \in 1..Len(chunks) /\ (k - 1) + 1 = k
          BY <3>2 DEF LoopInv, LoopTypeOK
        <4>2. chunks[k].from = chunks[k - 1].to + 1 /\ chunks[k - 1] \in RowRange
          BY <4>1 DEF LoopInv, Contiguous, LoopTypeOK
        <4>. QED
          BY <4>2 DEF RowRange
      <3>. QED
        BY <3>1, <3>2
    <2>. HIDE DEF f, t
    <2>4. f \in 1..Rows
      BY <2>1, <2>2, <2>3, RowsAssumption DEF Chunk, IsGreedyChunk
    <2>5. ASSUME Chunk(sums, f, to) PROVE to = t
      BY <2>1, <2>2, <2>4, <2>5, GreedyChunkUnique, RowsAssumption, BudgetAssumption DEF Chunk
    <2>. QED
      BY <2>2, <2>5 DEF f, t
  <1>. QED
    BY <1>1, LoopStarts, LoopSteps, PTL DEF LoopSpec
=============================================================================
