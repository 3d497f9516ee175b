------------------------ MODULE IngestBuffer_proofs -------------------------
(***************************************************************************)
(* Theorems about IngestBuffer, for every set of rows and every value      *)
(* of the capacity, the batch size and the retry limit.                    *)
(***************************************************************************)
EXTENDS IngestBuffer, FiniteSetTheorems, TLAPS

-----------------------------------------------------------------------------
(* Facts about the operators the actions are built from.                   *)

\* Settling rows and counting copies keep the shape of the functions over Row.
LEMMA SettleType ==
    ASSUME NEW f \in [Row -> Fates], NEW S, NEW o \in Fates
    PROVE  Settle(f, S, o) \in [Row -> Fates]
  BY DEF Settle

LEMMA BumpType ==
    ASSUME NEW f \in [Row -> Nat], NEW S
    PROVE  Bump(f, S) \in [Row -> Nat]
  BY DEF Bump

\* dedupe returns some of the rows it was given, at most as many, and at least one.
LEMMA DedupeType ==
    ASSUME NEW b \in Seq(Row), b # <<>>, NEW out \in dedupe(b)
    PROVE  /\ out \in Seq(Row)
           /\ Len(out) \in 1..Len(b)
           /\ Range(out) \subseteq Range(b)
  <1>1. PICK n \in 0..Len(b) : out \in [1..n -> Range(b)]
    BY DEF dedupe
  <1>2. Range(b) \subseteq Row
    BY DEF Range
  <1>3. out \in Seq(Row) /\ Len(out) = n
    BY <1>1, <1>2
  <1>4. n # 0
    <2>1. 1 \in DOMAIN b
      OBVIOUS
    <2>2. \E i \in DOMAIN out : out[i].qid = b[1].qid
      BY <2>1 DEF dedupe, IsDedupe
    <2>. QED
      BY <2>2, <1>1
  <1>5. Range(out) \subseteq Range(b)
    BY <1>1 DEF Range
  <1>. QED
    BY <1>1, <1>3, <1>4, <1>5

-----------------------------------------------------------------------------
(* The inductive invariant behind type correctness: what the flusher's     *)
(* local variables hold at each point of its program.                      *)

Flushing == pc \in {"insert", "inflight", "backoff"}

FlusherInv ==
    /\ Flushing => batch = <<>> /\ committed < Len(rows)
    /\ ~Flushing => rows = <<>>
    /\ pc = "inflight" => chunk > 0
    /\ pc # "inflight" => chunk = 0
    /\ pc = "backoff" => committed = 0 /\ attempt < MaxRetries
    /\ pc \in {"exit", "done"} => batch = <<>>

TypeInv == TypeOK /\ FlusherInv

\* Handing a batch over to flush.
LEMMA FlushBeginType ==
    ASSUME FlusherType, RecordType, NEW b \in Seq(Row), b # <<>>, Len(b) <= BatchSize,
           NEW back \in {"select", "drain", "exit"}, FlushBegin(b, back)
    PROVE  FlusherType' /\ RecordType' /\ FlusherInv'
  <1>. USE DEF FlushBegin
  <1>1. rows' \in Seq(Row) /\ Len(rows') \in 1..Len(b)
    BY DedupeType
  <1>2. fate' \in [Row -> Fates]
    BY SettleType DEF Fates, RecordType
  <1>3. FlusherType'
    BY <1>1, BatchSizeAssumption, MaxRetriesAssumption DEF FlusherType
  <1>4. RecordType'
    BY <1>2 DEF RecordType, store
  <1>5. FlusherInv'
    BY <1>1 DEF FlusherInv, Flushing
  <1>. QED
    BY <1>3, <1>4, <1>5

\* Receiving a row, in the loop of run or in drain.
LEMMA ReceiveType ==
    ASSUME TypeInv, NEW here \in {"select", "drain"}, ReceiveAt(here)
    PROVE  TypeInv'
  <1>. DEFINE b == Append(batch, Head(ch))
  <1>1. SharedType' /\ Head(ch) \in Row
    BY CapacityAssumption DEF TypeInv, TypeOK, SharedType, ReceiveAt
  <1>2. b \in Seq(Row) /\ Len(b) = Len(batch) + 1
    BY <1>1 DEF TypeInv, TypeOK, FlusherType
  <1>3. b # <<>> /\ Len(b) <= BatchSize
    BY <1>2, BatchSizeAssumption DEF TypeInv, TypeOK, FlusherType
  <1>4. Collect(b, here)
    BY DEF ReceiveAt
  <1>. HIDE DEF b
  <1>5. CASE FlushBegin(b, here)
    BY <1>1, <1>2, <1>3, <1>5, FlushBeginType DEF TypeInv, TypeOK
  <1>6. CASE /\ Len(b) < BatchSize
             /\ batch' = b
             /\ UNCHANGED <<pc, resume, rows, attempt, committed, chunk,
                            metrics, store, history>>
    <2>1. FlusherType'
      BY <1>2, <1>6 DEF TypeInv, TypeOK, FlusherType
    <2>2. RecordType'
      BY <1>6 DEF TypeInv, TypeOK, RecordType, store, history
    <2>3. FlusherInv'
      BY <1>6 DEF TypeInv, FlusherInv, Flushing, ReceiveAt
    <2>. QED
      BY <1>1, <2>1, <2>2, <2>3 DEF TypeInv, TypeOK
  <1>. QED
    BY <1>4, <1>5, <1>6 DEF Collect

\* The rows left after the first c, and the counters once those c are reported.
LEMMA RemainderType ==
    ASSUME FlusherType, NEW c \in 0..Len(rows)
    PROVE  Remainder(c) \in Seq(Row) /\ Len(Remainder(c)) = Len(rows) - c
  BY DEF FlusherType, Remainder

LEMMA FlushedType ==
    ASSUME RecordType, NEW c \in Nat
    PROVE  Flushed(c) \in Counters
  <1>1. metrics.flushed + c \in Nat /\ metrics.batches + 1 \in Nat
    BY DEF RecordType, Counters
  <1>. QED
    BY <1>1, ZenonT(30) DEF RecordType, Flushed, Counters

LEMMA InsertOkType ==
    ASSUME TypeInv, InsertOk
    PROVE  TypeInv'
  <1>. USE DEF TypeInv, TypeOK, InsertOk
  <1>1. SharedType'
    BY DEF SharedType, shared
  <1>2. copies' \in [Row -> Nat]
    BY BumpType DEF RecordType
  <1>3. Settle(fate, Range(rows), "stored") \in [Row -> Fates]
    BY SettleType DEF RecordType, Fates
  <1>4. committed + chunk \in Nat
    BY DEF FlusherType
  <1>5. RecordType'
    BY <1>2, <1>3, <1>4, FlushedType DEF RecordType
  <1>6. CASE committed + chunk < Len(rows)
    <2>1. rows' = rows /\ committed' = committed + chunk /\ chunk' = 0 /\ pc' = "insert"
      BY <1>6
    <2>2. FlusherType'
      BY <1>4, <1>6, <2>1 DEF FlusherType
    <2>3. FlusherInv'
      BY <1>6, <2>1 DEF FlusherInv, Flushing
    <2>. QED
      BY <1>1, <1>5, <2>2, <2>3
  <1>7. CASE committed + chunk = Len(rows)
    <2>1. FlushReturn
      BY <1>7, <1>4
    <2>2. FlusherType'
      BY <2>1, BatchSizeAssumption DEF FlusherType, FlushReturn
    <2>3. FlusherInv'
      BY <2>1 DEF FlusherInv, FlusherType, FlushReturn, Flushing
    <2>. QED
      BY <1>1, <1>5, <2>2, <2>3
  <1>. QED
    BY <1>6, <1>7

LEMMA InsertFailsType ==
    ASSUME TypeInv, NEW err \in {"retryable", "nonretryable"},
           NEW k \in 0..BatchSize, NEW m \in 0..BatchSize, InsertFails(err, k, m)
    PROVE  TypeInv'
  <1>. DEFINE c == committed + k
              doubt == Part(rows, c + 1, c + m)
              rest == Range(Remainder(c))
              done == Settle(fate, Part(rows, 1, c), "stored")
  <1>1. c \in 0..Len(rows) /\ c < Len(rows) /\ c + m <= Len(rows) /\ pc = "inflight"
    BY BatchSizeAssumption DEF TypeInv, TypeOK, FlusherType, InsertFails
  <1>2. SharedType'
    BY DEF TypeInv, TypeOK, InsertFails, SharedType, shared
  <1>3. copies' \in [Row -> Nat] /\ inDoubt' \in [Row -> Nat]
    BY BumpType DEF TypeInv, TypeOK, InsertFails, RecordType
  <1>4. doubt \subseteq Row
    BY <1>1 DEF TypeInv, TypeOK, FlusherType, Part
  <1>5. done \in [Row -> Fates] /\ Settle(done, rest, "lost") \in [Row -> Fates]
    BY SettleType DEF TypeInv, TypeOK, RecordType, Fates
  <1>6. Flushed(c) \in Counters
    BY <1>1, FlushedType DEF TypeInv, TypeOK
  <1>7. Remainder(c) \in Seq(Row) /\ Len(Remainder(c)) = Len(rows) - c
    BY <1>1, RemainderType DEF TypeInv, TypeOK
  <1>8. /\ unacked' = unacked \cup doubt
        /\ UNCHANGED <<shared, closer, resume, batch, attempt, late>>
    BY DEF InsertFails
  <1>9. CASE /\ LeavesLoop(err)
             /\ metrics' = [Flushed(c) EXCEPT
                  !.nonRetry = IF err = "nonretryable" THEN @ + 1 ELSE @,
                  !.failed = @ + 1,
                  !.dropped = @ + Len(Remainder(c))]
             /\ fate' = Settle(done, rest, "lost")
             /\ FlushReturn
    <2>. HIDE DEF c, doubt, rest, done
    <2>1. metrics' \in Counters
      <3>. DEFINE f == Flushed(c)
                  r == IF err = "nonretryable" THEN f.nonRetry + 1 ELSE f.nonRetry
      <3>1. metrics' = [f EXCEPT !.nonRetry = r, !.failed = f.failed + 1,
                                 !.dropped = f.dropped + Len(Remainder(c))]
        BY <1>9, Zenon
      <3>2. Len(Remainder(c)) \in Nat
        BY <1>7
      <3>. HIDE DEF f
      <3>3. f \in Counters
        BY <1>6 DEF f
      <3>4. r \in Nat /\ f.failed + 1 \in Nat /\ f.dropped + Len(Remainder(c)) \in Nat
        BY <3>2, <3>3, SMTT(30) DEF Counters
      <3>. HIDE DEF r
      <3>. QED
        BY <3>1, <3>3, <3>4, ZenonT(30) DEF Counters
    <2>2. RecordType'
      BY <1>3, <1>4, <1>5, <1>8, <1>9, <2>1 DEF TypeInv, TypeOK, RecordType
    <2>3. FlusherType'
      BY <1>8, <1>9, BatchSizeAssumption DEF TypeInv, TypeOK, FlusherType, FlushReturn
    <2>4. FlusherInv'
      BY <1>1, <1>8, <1>9 DEF TypeInv, TypeOK, FlusherType, FlusherInv, FlushReturn, Flushing
    <2>. QED
      BY <1>2, <2>2, <2>3, <2>4 DEF TypeInv, TypeOK
  <1>10. CASE /\ ~LeavesLoop(err)
              /\ metrics' = Flushed(c)
              /\ fate' = done
              /\ rows' = Remainder(c)
              /\ pc' = "backoff" /\ committed' = 0 /\ chunk' = 0
    <2>. HIDE DEF c, doubt, rest, done
    <2>1. RecordType'
      BY <1>3, <1>4, <1>5, <1>6, <1>8, <1>10 DEF TypeInv, TypeOK, RecordType
    <2>2. FlusherType'
      BY <1>1, <1>7, <1>8, <1>10, BatchSizeAssumption DEF TypeInv, TypeOK, FlusherType
    <2>3. attempt < MaxRetries
      BY <1>10, MaxRetriesAssumption DEF LeavesLoop, TypeInv, TypeOK, FlusherType
    <2>4. FlusherInv'
      BY <1>1, <1>7, <1>8, <1>10, <2>3 DEF TypeInv, TypeOK, FlusherType, FlusherInv, Flushing
    <2>. QED
      BY <1>2, <2>1, <2>2, <2>4 DEF TypeInv, TypeOK
  <1>. QED
    BY <1>9, <1>10 DEF InsertFails

\* Every action of the buffer preserves the invariant.
LEMMA TypeStep == TypeInv /\ [Next]_vars => TypeInv'
  <1>. SUFFICES ASSUME TypeInv, [Next]_vars
                PROVE  TypeInv'
    OBVIOUS
  <1>. USE DEF TypeInv, TypeOK
  <1>1. ASSUME NEW r \in Row, Add(r)
        PROVE  TypeInv'
    <2>1. FlusherType' /\ FlusherInv'
      BY <1>1 DEF Add, FlusherType, FlusherInv, Flushing, flusher
    <2>2. CASE AddEnqueue(r)
      <3>1. SharedType'
        BY <1>1, <2>2, CapacityAssumption DEF Add, AddEnqueue, SharedType
      <3>2. metrics' \in Counters
        <4>1. metrics.enqueued + 1 \in Nat
          BY DEF RecordType, Counters
        <4>. QED
          BY <2>2, <4>1, ZenonT(30) DEF AddEnqueue, RecordType, Counters
      <3>3. RecordType'
        BY <1>1, <2>2, <3>2 DEF Add, AddEnqueue, RecordType, store
      <3>. QED
        BY <2>1, <3>1, <3>3
    <2>3. CASE AddRefuse(r)
      <3>1. SharedType'
        BY <1>1, <2>3 DEF Add, AddRefuse, SharedType
      <3>2. fate' \in [Row -> Fates]
        BY <2>3, SettleType DEF AddRefuse, RecordType, Fates
      <3>3. metrics' \in Counters
        <4>1. metrics.dropped + 1 \in Nat
          BY DEF RecordType, Counters
        <4>. QED
          BY <2>3, <4>1, ZenonT(30) DEF AddRefuse, RecordType, Counters
      <3>4. RecordType'
        BY <1>1, <2>3, <3>2, <3>3 DEF Add, AddRefuse, RecordType, store
      <3>. QED
        BY <2>1, <3>1, <3>4
    <2>. QED
      BY <1>1, <2>2, <2>3 DEF Add
  <1>2. ASSUME NEW r \in Row, LateCommit(r)
        PROVE  TypeInv'
    <2>1. SharedType' /\ FlusherType' /\ FlusherInv'
      BY <1>2 DEF LateCommit, SharedType, FlusherType, FlusherInv, Flushing, shared, flusher
    <2>2. RecordType'
      BY <1>2 DEF LateCommit, RecordType, history
    <2>. QED
      BY <2>1, <2>2
  <1>3. CASE Receive
    BY <1>3, ReceiveType DEF Receive
  <1>4. CASE DrainReceive
    BY <1>4, ReceiveType DEF DrainReceive
  <1>5. CASE Tick
    <2>1. SharedType'
      BY <1>5 DEF Tick, SharedType, shared
    <2>2. FlushBegin(batch, "select") /\ batch \in Seq(Row) /\ batch # <<>>
          /\ Len(batch) <= BatchSize
      BY <1>5, BatchSizeAssumption DEF Tick, FlusherType
    <2>. QED
      BY <2>1, <2>2, FlushBeginType
  <1>6. CASE DrainDone
    <2>1. SharedType'
      BY <1>6 DEF DrainDone, SharedType, shared
    <2>2. CASE batch # <<>> /\ FlushBegin(batch, "exit")
      <3>1. batch \in Seq(Row) /\ Len(batch) <= BatchSize
        BY BatchSizeAssumption DEF FlusherType
      <3>. QED
        BY <2>1, <2>2, <3>1, FlushBeginType
    <2>3. CASE /\ batch = <<>> /\ pc' = "exit"
               /\ UNCHANGED <<resume, batch, rows, attempt, committed, chunk,
                              metrics, store, history>>
      BY <1>6, <2>1, <2>3 DEF DrainDone, FlusherType, RecordType, FlusherInv, Flushing,
                              store, history
    <2>. QED
      BY <1>6, <2>2, <2>3 DEF DrainDone
  <1>7. CASE SeeStop
    BY <1>7 DEF SeeStop, SharedType, FlusherType, RecordType, FlusherInv, Flushing,
                shared, store, history
  <1>8. CASE Exit
    BY <1>8 DEF Exit, SharedType, FlusherType, RecordType, FlusherInv, Flushing,
                store, history
  <1>9. CASE StartChunk
    <2>1. SharedType' /\ RecordType'
      BY <1>9 DEF StartChunk, SharedType, RecordType, shared, store, history
    <2>2. FlusherType' /\ FlusherInv'
      BY <1>9 DEF StartChunk, FlusherType, FlusherInv, Flushing
    <2>. QED
      BY <2>1, <2>2
  <1>10. CASE InsertReturn
    BY <1>10, InsertOkType, InsertFailsType DEF InsertReturn
  <1>11. CASE Retry
    <2>1. SharedType' /\ RecordType'
      BY <1>11 DEF Retry, SharedType, RecordType, shared, store, history
    <2>2. FlusherType' /\ FlusherInv'
      BY <1>11, MaxRetriesAssumption DEF Retry, FlusherType, FlusherInv, Flushing
    <2>. QED
      BY <2>1, <2>2
  <1>12. CASE CloseCall
    BY <1>12 DEF CloseCall, SharedType, FlusherType, RecordType, FlusherInv, Flushing,
                 flusher, store, history
  <1>13. CASE CloseTimeout
    BY <1>13 DEF CloseTimeout, SharedType, FlusherType, RecordType, FlusherInv, Flushing,
                 flusher, store, history
  <1>14. CASE CloseReturn
    BY <1>14 DEF CloseReturn, SharedType, FlusherType, RecordType, FlusherInv, Flushing,
                 shared, flusher, store, history
  <1>15. CASE UNCHANGED vars
    BY <1>15, SMTT(30) DEF vars, SharedType, FlusherType, RecordType, FlusherInv, Flushing,
                 shared, flusher, store, history
  <1>. QED
    BY <1>1, <1>2, <1>3, <1>4, <1>5, <1>6, <1>7, <1>8, <1>9, <1>10, <1>11, <1>12,
       <1>13, <1>14, <1>15 DEF Next, Flusher, Terminated

LEMMA TypeInit == Init => TypeInv
  <1>. SUFFICES ASSUME Init
                PROVE  TypeInv
    OBVIOUS
  <1>. USE DEF Init
  <1>1. SharedType
    <2>1. ch \in Seq(Row) /\ Len(ch) <= BufferCapacity
      BY CapacityAssumption
    <2>. QED
      BY <2>1, Zenon DEF SharedType
  <1>2. FlusherType /\ FlusherInv
    BY BatchSizeAssumption, MaxRetriesAssumption DEF FlusherType, FlusherInv, Flushing
  <1>3. RecordType
    BY DEF RecordType, Counters, Fates
  <1>. QED
    BY <1>1, <1>2, <1>3 DEF TypeInv, TypeOK

\* The channel stays within its capacity, a batch below BatchSize and a flush within
\* it, a retry count within MaxRetries and a chunk within the rows that remain, in
\* every behaviour of New, Add, run, drain, flush, insert and Close.
THEOREM TypeCorrect == Spec => []TypeOK
  <1>1. TypeInv => TypeOK
    BY DEF TypeInv
  <1>. QED
    BY <1>1, TypeInit, TypeStep, PTL DEF Spec

-----------------------------------------------------------------------------
(* Close loses nothing it was given.  From the moment drain finds the      *)
(* channel empty, stop is closed, so whatever enters the channel is late.  *)

PastDrain == pc \in {"exit", "done"} \/ (Flushing /\ resume = "exit")

DrainInv ==
    /\ pc = "drain" \/ (Flushing /\ resume = "drain") \/ PastDrain => stop
    /\ PastDrain => Range(ch) \subseteq late

LEMMA RangeAppend ==
    ASSUME NEW S, NEW s \in Seq(S), NEW x \in S
    PROVE  Range(Append(s, x)) = Range(s) \cup {x}
  <1>1. /\ DOMAIN s = 1..Len(s) /\ DOMAIN Append(s, x) = 1..Len(s) + 1 /\ Len(s) \in Nat
        /\ \A i \in 1..Len(s) : Append(s, x)[i] = s[i]
        /\ Append(s, x)[Len(s) + 1] = x
    OBVIOUS
  <1>2. 1..Len(s) + 1 = 1..Len(s) \cup {Len(s) + 1}
    BY <1>1
  <1>. QED
    BY <1>1, <1>2, ZenonT(60) DEF Range

LEMMA RangeTail ==
    ASSUME NEW S, NEW s \in Seq(S), s # <<>>
    PROVE  Range(Tail(s)) \subseteq Range(s) /\ Head(s) \in Range(s)
  BY DEF Range

LEMMA DrainStep == TypeInv /\ DrainInv /\ [Next]_vars => DrainInv'
  <1>. SUFFICES ASSUME TypeInv, DrainInv, [Next]_vars
                PROVE  DrainInv'
    OBVIOUS
  <1>. USE DEF DrainInv, PastDrain, Flushing
  <1>1. ASSUME NEW r \in Row, Add(r)
        PROVE  DrainInv'
    <2>1. CASE AddEnqueue(r)
      <3>1. Range(ch') = Range(ch) \cup {r}
        BY <2>1, RangeAppend DEF AddEnqueue, TypeInv, TypeOK, SharedType
      <3>. QED
        BY <1>1, <2>1, <3>1 DEF Add, AddEnqueue, flusher
    <2>2. CASE AddRefuse(r)
      BY <1>1, <2>2 DEF Add, AddRefuse, flusher
    <2>. QED
      BY <1>1, <2>1, <2>2 DEF Add
  <1>2. ASSUME NEW r \in Row, LateCommit(r)
        PROVE  DrainInv'
    BY <1>2 DEF LateCommit, shared, flusher, history
  <1>3. ASSUME NEW here \in {"select", "drain"}, ReceiveAt(here)
        PROVE  DrainInv'
    BY <1>3 DEF ReceiveAt, Collect, FlushBegin
  <1>4. CASE Tick
    BY <1>4 DEF Tick, FlushBegin, shared
  <1>5. CASE DrainDone
    <2>1. Range(ch') = {} /\ stop' = stop
      BY <1>5 DEF DrainDone, shared, Range
    <2>. QED
      BY <1>5, <2>1 DEF DrainDone, FlushBegin
  <1>6. CASE SeeStop
    BY <1>6 DEF SeeStop, shared, history
  <1>7. CASE Exit
    BY <1>7 DEF Exit, history
  <1>8. CASE StartChunk
    BY <1>8 DEF StartChunk, shared, history
  <1>9. CASE InsertOk
    BY <1>9 DEF InsertOk, FlushReturn, shared, TypeInv, TypeOK, FlusherType
  <1>10. ASSUME NEW err \in {"retryable", "nonretryable"},
                NEW k \in 0..BatchSize, NEW m \in 0..BatchSize, InsertFails(err, k, m)
         PROVE  DrainInv'
    BY <1>10 DEF InsertFails, FlushReturn, shared, TypeInv, TypeOK, FlusherType
  <1>11. CASE Retry
    BY <1>11 DEF Retry, shared, history
  <1>12. CASE CloseCall
    BY <1>12 DEF CloseCall, flusher, history
  <1>13. CASE CloseTimeout
    BY <1>13 DEF CloseTimeout, flusher, history
  <1>14. CASE CloseReturn
    BY <1>14 DEF CloseReturn, shared, flusher, history
  <1>15. CASE UNCHANGED vars
    BY <1>15 DEF vars, shared, flusher, history
  <1>. QED
    BY <1>1, <1>2, <1>3, <1>4, <1>5, <1>6, <1>7, <1>8, <1>9, <1>10, <1>11, <1>12,
       <1>13, <1>14, <1>15
       DEF Next, Flusher, InsertReturn, Receive, DrainReceive, Terminated

\* Close drains the buffer: once run has returned, every row that Add put into the
\* channel before stop was closed is stored, superseded or counted as dropped.
THEOREM CloseDrains == Spec => []NothingLeftBehind
  <1>1. Init => DrainInv
    BY DEF Init, DrainInv, PastDrain, Flushing
  <1>2. TypeInv /\ DrainInv => NothingLeftBehind
    <2>. SUFFICES ASSUME TypeInv, DrainInv, pc = "done",
                         NEW r \in Row, Status(r) = "accepted"
                  PROVE  r \in late
      BY DEF NothingLeftBehind
    <2>1. Range(ch) \subseteq late
      BY DEF DrainInv, PastDrain
    <2>2. batch = <<>> /\ rows = <<>>
      BY DEF TypeInv, FlusherInv, Flushing
    <2>3. fate[r] \in Fates /\ fate[r] # "accepted"
      BY DEF TypeInv, TypeOK, RecordType, Fates
    <2>4. r \in Range(ch) \cup Range(batch) \cup Range(rows)
      BY <2>3 DEF Status
    <2>. QED
      BY <2>1, <2>2, <2>4 DEF Range
  <1>. QED
    BY <1>1, <1>2, TypeInit, TypeStep, DrainStep, PTL DEF Spec

-----------------------------------------------------------------------------
(* The inductive invariant.  A row is in one place of the buffer only, and *)
(* while it is there nothing has been decided about it.                    *)

HeldOnce ==
    /\ IsInjective(ch) /\ IsInjective(batch) /\ IsInjective(rows)
    /\ Range(ch) \cap Range(batch) = {}
    /\ Range(ch) \cap Range(rows) = {}
    /\ \A r \in Range(ch) \cup Range(batch) \cup Range(rows) : fate[r] = "none"

\* The copies of r that the store has or may yet get.
Submitted(r) == copies[r] + inDoubt[r]

\* The rows of the flush that the current attempt has still to write.
Pending == Part(rows, committed + 1, Len(rows))

\* What the store may hold of r, from the place of r in the buffer.
CopiesOf(r) ==
    /\ inDoubt[r] > 0 => r \in unacked
    /\ Submitted(r) <= MaxRetries + 1
    /\ fate[r] \in {"refused", "superseded"} => Submitted(r) = 0
    /\ fate[r] = "none" /\ r \notin Range(rows) => Submitted(r) = 0
    /\ r \in Range(rows) => Submitted(r) <= attempt + 1
    /\ r \in Pending /\ pc # "backoff" => Submitted(r) <= attempt
    /\ r \notin unacked => copies[r] <= 1 /\ (r \in Pending => copies[r] = 0)

CopiesInv == \A r \in Row : CopiesOf(r)

-----------------------------------------------------------------------------
(* Facts about sequences without repetition.                               *)

LEMMA AppendInjective ==
    ASSUME NEW S, NEW s \in Seq(S), IsInjective(s), NEW x \in S, x \notin Range(s)
    PROVE  IsInjective(Append(s, x))
  <1>1. /\ DOMAIN s = 1..Len(s) /\ DOMAIN Append(s, x) = 1..Len(s) + 1 /\ Len(s) \in Nat
        /\ \A i \in 1..Len(s) : Append(s, x)[i] = s[i]
        /\ Append(s, x)[Len(s) + 1] = x
    OBVIOUS
  <1>2. \A i \in 1..Len(s) : s[i] # x
    BY <1>1 DEF Range
  <1>3. \A i, j \in 1..Len(s) : s[i] = s[j] => i = j
    BY <1>1 DEF IsInjective
  <1>. SUFFICES ASSUME NEW i \in 1..Len(s) + 1, NEW j \in 1..Len(s) + 1,
                       Append(s, x)[i] = Append(s, x)[j]
                PROVE  i = j
    BY <1>1 DEF IsInjective
  <1>4. CASE i \in 1..Len(s) /\ j \in 1..Len(s)
    BY <1>1, <1>3, <1>4
  <1>5. CASE i \in 1..Len(s) /\ j = Len(s) + 1
    BY <1>1, <1>2, <1>5
  <1>6. CASE j \in 1..Len(s) /\ i = Len(s) + 1
    BY <1>1, <1>2, <1>6
  <1>. QED
    BY <1>1, <1>4, <1>5, <1>6

LEMMA TailInjective ==
    ASSUME NEW S, NEW s \in Seq(S), IsInjective(s), s # <<>>
    PROVE  IsInjective(Tail(s)) /\ Head(s) \notin Range(Tail(s))
  <1>1. /\ DOMAIN s = 1..Len(s) /\ Len(s) \in Nat \ {0}
        /\ DOMAIN Tail(s) = 1..Len(s) - 1 /\ Head(s) = s[1]
        /\ \A i \in 1..Len(s) - 1 : Tail(s)[i] = s[i + 1]
    OBVIOUS
  <1>2. \A i, j \in 1..Len(s) : s[i] = s[j] => i = j
    BY <1>1 DEF IsInjective
  <1>3. ASSUME NEW i \in 1..Len(s) - 1, NEW j \in 1..Len(s) - 1, Tail(s)[i] = Tail(s)[j]
        PROVE  i = j
    <2>1. i + 1 \in 1..Len(s) /\ j + 1 \in 1..Len(s) /\ s[i + 1] = s[j + 1]
      BY <1>1, <1>3
    <2>. QED
      BY <1>2, <2>1
  <1>4. ASSUME NEW i \in 1..Len(s) - 1
        PROVE  Tail(s)[i] # Head(s)
    <2>1. i + 1 \in 1..Len(s) /\ 1 \in 1..Len(s) /\ i + 1 # 1
      BY <1>1
    <2>. QED
      BY <1>1, <1>2, <2>1
  <1>. QED
    BY <1>1, <1>3, <1>4 DEF IsInjective, Range

\* A batch comes out of dedupe without repetitions.
LEMMA DedupeInjective ==
    ASSUME NEW b \in Seq(Row), NEW out \in dedupe(b)
    PROVE  IsInjective(out)
  <1>1. PICK n \in 0..Len(b) : out \in [1..n -> Range(b)]
    BY DEF dedupe
  <1>2. ASSUME NEW i \in DOMAIN out, NEW j \in DOMAIN out, i < j
        PROVE  out[i] # out[j]
    <2>1. PICK k \in DOMAIN b : /\ b[k].qid = out[i].qid
                                /\ \A l \in 1..k : b[l].qid # out[j].qid
      BY <1>2 DEF dedupe, IsDedupe
    <2>2. k \in 1..k
      BY <2>1
    <2>. QED
      BY <2>1, <2>2
  <1>. QED
    BY <1>1, <1>2 DEF IsInjective

\* Two parts of a sequence without repetition have no row in common.
LEMMA PartsDisjoint ==
    ASSUME NEW s \in Seq(Row), IsInjective(s),
           NEW i \in Nat \ {0}, NEW j \in 0..Len(s), NEW k \in Nat, j < k, NEW l \in 0..Len(s)
    PROVE  /\ Part(s, i, j) \cap Part(s, k, l) = {}
           /\ Part(s, i, j) \subseteq Range(s)
  BY DEF Part, Range, IsInjective

LEMMA PartSplit ==
    ASSUME NEW s \in Seq(Row), NEW i \in Nat, NEW j \in Nat, NEW k \in Nat, i <= j + 1, j <= k
    PROVE  Part(s, i, k) = Part(s, i, j) \cup Part(s, j + 1, k)
  <1>1. i..k = i..j \cup (j + 1)..k
    OBVIOUS
  <1>. QED
    BY <1>1, Zenon DEF Part

LEMMA PartRange ==
    ASSUME NEW s \in Seq(Row)
    PROVE  Range(s) = Part(s, 1, Len(s))
  BY DEF Range, Part

\* What flush has still to write after c rows were reported.
LEMMA RemainderInjective ==
    ASSUME FlusherType, IsInjective(rows), NEW c \in 0..Len(rows)
    PROVE  /\ IsInjective(Remainder(c))
           /\ Range(Remainder(c)) = Part(rows, c + 1, Len(rows))
  <1>. DEFINE s == Remainder(c)
  <1>1. /\ DOMAIN s = 1..Len(rows) - c /\ Len(rows) \in Nat
        /\ \A i \in 1..Len(rows) - c : s[i] = rows[c + i]
    BY DEF FlusherType, Remainder
  <1>. HIDE DEF s
  <1>2. \A i, j \in 1..Len(rows) : rows[i] = rows[j] => i = j
    BY DEF IsInjective, FlusherType
  <1>3. \A i, j \in 1..Len(rows) - c : s[i] = s[j] => i = j
    BY <1>1, <1>2
  <1>4. ASSUME NEW k \in c + 1..Len(rows)
        PROVE  k - c \in 1..Len(rows) - c /\ s[k - c] = rows[k]
    BY <1>1
  <1>5. ASSUME NEW i \in 1..Len(rows) - c
        PROVE  c + i \in c + 1..Len(rows) /\ s[i] = rows[c + i]
    BY <1>1
  <1>6. IsInjective(s)
    BY <1>1, <1>3 DEF IsInjective
  <1>7. Range(s) \subseteq Part(rows, c + 1, Len(rows))
    BY <1>1, <1>5, Zenon DEF Range, Part
  <1>8. Part(rows, c + 1, Len(rows)) \subseteq Range(s)
    BY <1>1, <1>4, ZenonT(60) DEF Range, Part
  <1>. QED
    BY <1>6, <1>7, <1>8 DEF s

-----------------------------------------------------------------------------
(* The steps of the flusher that move rows.                                *)

LEMMA FlushBeginHeld ==
    ASSUME RecordType, NEW b \in Seq(Row), b # <<>>, IsInjective(b), IsInjective(ch'),
           Range(ch') \cap Range(b) = {},
           \A r \in Range(ch') \cup Range(b) : r \in Row /\ fate[r] = "none",
           NEW back, FlushBegin(b, back)
    PROVE  HeldOnce'
  <1>1. rows' \in dedupe(b) /\ batch' = <<>>
    BY DEF FlushBegin
  <1>2. IsInjective(rows') /\ Range(rows') \subseteq Range(b)
    BY <1>1, DedupeInjective, DedupeType
  <1>3. IsInjective(batch') /\ Range(batch') = {}
    BY <1>1 DEF IsInjective, Range
  <1>4. \A r \in Range(ch') \cup Range(rows') : fate'[r] = "none"
    BY <1>2 DEF FlushBegin, Settle
  <1>. QED
    BY <1>2, <1>3, <1>4 DEF HeldOnce

LEMMA FlushBeginCopies ==
    ASSUME TypeInv, CopiesInv, rows = <<>>, NEW b \in Seq(Row), b # <<>>,
           \A r \in Range(b) : fate[r] = "none",
           NEW back, FlushBegin(b, back)
    PROVE  CopiesInv'
  <1>. SUFFICES ASSUME NEW r \in Row
                PROVE  CopiesOf(r)'
    BY DEF CopiesInv
  <1>1. Range(rows') \subseteq Range(b) /\ Range(rows) = {}
    <2>1. Range(rows') \subseteq Range(b)
      BY DedupeType DEF FlushBegin
    <2>2. Range(rows) = {}
      BY DEF Range
    <2>. QED
      BY <2>1, <2>2
  <1>2. CopiesOf(r) /\ Submitted(r)' = Submitted(r) /\ unacked' = unacked /\ attempt' = 0
        /\ copies' = copies /\ inDoubt' = inDoubt
    BY DEF CopiesInv, FlushBegin, Submitted, store
  <1>3. fate'[r] # fate[r] => fate[r] = "none" /\ fate'[r] = "superseded"
    BY DEF FlushBegin, Settle, TypeInv, TypeOK, RecordType
  <1>4. r \in Range(rows') => Submitted(r) = 0
    BY <1>1, <1>2 DEF CopiesOf
  <1>5. copies[r] \in Nat /\ inDoubt[r] \in Nat
    BY DEF TypeInv, TypeOK, RecordType
  <1>6. rows' \in Seq(Row) /\ committed' = 0 /\ Pending' = Range(rows')
    BY DedupeType, PartRange DEF FlushBegin, Pending
  <1>. HIDE DEF FlushBegin
  <1>. QED
    BY <1>1, <1>2, <1>3, <1>4, <1>5, <1>6, MaxRetriesAssumption DEF CopiesOf, Submitted

LEMMA ReceiveCopies ==
    ASSUME TypeInv, HeldOnce, CopiesInv, NEW here \in {"select", "drain"}, ReceiveAt(here)
    PROVE  HeldOnce' /\ CopiesInv'
  <1>. DEFINE x == Head(ch)
              b == Append(batch, x)
  <1>1. ch \in Seq(Row) /\ ch # <<>> /\ ch' = Tail(ch) /\ batch \in Seq(Row) /\ x \in Row
    BY DEF ReceiveAt, TypeInv, TypeOK, SharedType, FlusherType
  <1>2. rows = <<>>
    BY DEF ReceiveAt, TypeInv, FlusherInv, Flushing
  <1>3. Range(ch') \subseteq Range(ch) /\ x \in Range(ch)
    BY <1>1, RangeTail
  <1>4. IsInjective(ch') /\ x \notin Range(ch')
    BY <1>1, TailInjective DEF HeldOnce
  <1>5. IsInjective(b)
    BY <1>1, <1>3, AppendInjective DEF HeldOnce
  <1>6. Range(b) = Range(batch) \cup {x} /\ b \in Seq(Row)
    BY <1>1, RangeAppend
  <1>7. b # <<>>
    BY <1>1
  <1>8. Collect(b, here)
    BY DEF ReceiveAt
  <1>. HIDE DEF b, x
  <1>9. Range(ch') \cap Range(b) = {}
    BY <1>3, <1>4, <1>6 DEF HeldOnce
  <1>10. \A r \in Range(ch') \cup Range(b) : fate[r] = "none"
    BY <1>3, <1>6 DEF HeldOnce
  <1>11. Range(ch') \subseteq Row /\ Range(b) \subseteq Row
    BY <1>1, <1>3, <1>6 DEF Range
  <1>12. CASE FlushBegin(b, here)
    <2>1. HeldOnce'
      BY <1>4, <1>5, <1>6, <1>7, <1>9, <1>10, <1>11, <1>12, FlushBeginHeld
         DEF TypeInv, TypeOK
    <2>2. CopiesInv'
      BY <1>2, <1>6, <1>7, <1>10, <1>12, FlushBeginCopies
    <2>. QED
      BY <2>1, <2>2
  <1>13. CASE /\ Len(b) < BatchSize
              /\ batch' = b
              /\ UNCHANGED <<pc, resume, rows, attempt, committed, chunk,
                             metrics, store, history>>
    <2>1. HeldOnce'
      BY <1>2, <1>3, <1>4, <1>5, <1>9, <1>10, <1>13 DEF HeldOnce, history
    <2>2. CopiesInv'
      BY <1>13 DEF CopiesInv, CopiesOf, Submitted, Pending, store, history
    <2>. QED
      BY <2>1, <2>2
  <1>. QED
    BY <1>8, <1>12, <1>13 DEF Collect

\* The empty sequence has no rows.
LEMMA EmptyRows == Range(<<>>) = {} /\ IsInjective(<<>>) /\ Part(<<>>, 1, Len(<<>>)) = {}
  BY DEF Range, IsInjective, Part

LEMMA InsertOkCopies ==
    ASSUME TypeInv, HeldOnce, CopiesInv, InsertOk
    PROVE  HeldOnce' /\ CopiesInv'
  <1>. DEFINE c == committed + chunk
              P == Part(rows, committed + 1, c)
              Q == Part(rows, c + 1, Len(rows))
  <1>1. /\ rows \in Seq(Row) /\ Len(rows) \in Nat /\ committed \in Nat /\ c \in Nat
        /\ committed <= c /\ c <= Len(rows) /\ pc = "inflight" /\ attempt \in 0..MaxRetries
        /\ batch = <<>>
    BY DEF TypeInv, TypeOK, FlusherType, InsertOk, FlusherInv, Flushing
  <1>2. /\ copies' = Bump(copies, P)
        /\ UNCHANGED <<ch, batch, attempt, inDoubt, unacked>>
    BY DEF InsertOk, shared
  <1>3. \/ /\ c < Len(rows) /\ committed' = c /\ pc' = "insert"
           /\ rows' = rows /\ fate' = fate
        \/ /\ c = Len(rows) /\ fate' = Settle(fate, Range(rows), "stored")
           /\ rows' = <<>> /\ committed' = 0 /\ pc' = resume
    BY DEF InsertOk, FlushReturn
  <1>4. Pending = P \cup Q
    BY <1>1, PartSplit DEF Pending
  <1>5. P \cap Q = {} /\ P \subseteq Range(rows)
    BY <1>1, PartsDisjoint DEF HeldOnce
  <1>6. Range(rows) \subseteq Row
    BY <1>1 DEF Range
  <1>7. (c < Len(rows) => Pending' = Q) /\ (c = Len(rows) => Pending' = {})
    <2>1. CASE c < Len(rows)
      BY <1>1, <1>3, <2>1 DEF Pending
    <2>2. CASE c = Len(rows)
      BY <1>1, <1>3, <2>2 DEF Pending, Part
    <2>. QED
      BY <1>1, <2>1, <2>2
  <1>. HIDE DEF c, P, Q
  <1>8. HeldOnce'
    <2>1. CASE fate' = fate /\ rows' = rows
      BY <1>2, <2>1 DEF HeldOnce
    <2>2. CASE fate' = Settle(fate, Range(rows), "stored") /\ rows' = <<>>
      <3>1. Range(ch) \subseteq Row
        BY DEF TypeInv, TypeOK, SharedType, Range
      <3>2. \A r \in Range(ch) : fate'[r] = "none"
        BY <2>2, <3>1 DEF HeldOnce, Settle
      <3>. QED
        BY <1>1, <1>2, <2>2, <3>2, EmptyRows DEF HeldOnce
    <2>. QED
      BY <1>3, <2>1, <2>2
  <1>9. ASSUME NEW r \in Row
        PROVE  CopiesOf(r)'
    <2>1. CopiesOf(r)
      BY DEF CopiesInv
    <2>2. copies[r] \in Nat /\ inDoubt[r] \in Nat /\ inDoubt'[r] = inDoubt[r]
      BY <1>2 DEF TypeInv, TypeOK, RecordType
    <2>3. r \in P => copies'[r] = copies[r] + 1
      BY <1>2 DEF Bump
    <2>4. r \notin P => copies'[r] = copies[r]
      BY <1>2 DEF Bump
    <2>5. r \in Range(rows) => fate[r] = "none"
      BY DEF HeldOnce
    <2>6. CASE c < Len(rows)
      <3>1. /\ rows' = rows /\ fate' = fate /\ pc' = "insert" /\ Pending' = Q
            /\ attempt' = attempt /\ unacked' = unacked
        BY <1>1, <1>2, <1>3, <1>7, <2>6
      <3>2. CASE r \in P
        <4>1. r \in Range(rows) /\ r \in Pending /\ r \notin Pending' /\ fate'[r] = "none"
          BY <1>4, <1>5, <2>5, <3>1, <3>2
        <4>2. /\ copies'[r] = copies[r] + 1
              /\ copies[r] + inDoubt[r] <= attempt /\ (r \notin unacked => copies[r] = 0)
          BY <1>1, <2>1, <2>3, <3>2, <4>1 DEF CopiesOf, Submitted
        <4>. QED
          BY <1>1, <2>1, <2>2, <3>1, <4>1, <4>2, MaxRetriesAssumption DEF CopiesOf, Submitted
      <3>3. CASE r \notin P
        BY <1>1, <1>4, <2>1, <2>2, <2>4, <3>1, <3>3 DEF CopiesOf, Submitted
      <3>. QED
        BY <3>2, <3>3
    <2>7. CASE c = Len(rows)
      <3>1. r \in Range(rows) => fate'[r] = "stored"
        BY <1>1, <1>3, <2>7 DEF Settle
      <3>2. r \notin Range(rows) => fate'[r] = fate[r]
        BY <1>1, <1>3, <2>7 DEF Settle
      <3>3. Range(rows') = {} /\ Pending' = {}
        BY <1>1, <1>3, <1>7, <2>7, EmptyRows
      <3>. QED
        BY <1>1, <1>2, <1>4, <1>5, <2>1, <2>2, <2>3, <2>4, <2>5, <3>1, <3>2, <3>3, SMTT(30),
           MaxRetriesAssumption DEF CopiesOf, Submitted
    <2>. QED
      BY <1>3, <2>6, <2>7
  <1>. QED
    BY <1>8, <1>9 DEF CopiesInv

LEMMA InsertFailsCopies ==
    ASSUME TypeInv, HeldOnce, CopiesInv, NEW err \in {"retryable", "nonretryable"},
           NEW k \in 0..BatchSize, NEW m \in 0..BatchSize, InsertFails(err, k, m)
    PROVE  HeldOnce' /\ CopiesInv'
  <1>. DEFINE c == committed + k
              A == Part(rows, 1, c)
              P == Part(rows, committed + 1, c)
              D == Part(rows, c + 1, c + m)
              Q == Part(rows, c + 1, Len(rows))
              done == Settle(fate, A, "stored")
  <1>1. /\ rows \in Seq(Row) /\ Len(rows) \in Nat /\ committed \in Nat /\ c \in Nat
        /\ c < Len(rows) /\ committed <= c /\ c + m <= Len(rows) /\ c + m \in Nat
        /\ pc = "inflight" /\ attempt \in 0..MaxRetries /\ batch = <<>>
    BY BatchSizeAssumption, SMTT(30)
       DEF TypeInv, TypeOK, FlusherType, InsertFails, FlusherInv, Flushing
  <1>2. /\ copies' = Bump(copies, P) /\ inDoubt' = Bump(inDoubt, D)
        /\ unacked' = unacked \cup D
        /\ UNCHANGED <<ch, batch, attempt>>
    BY DEF InsertFails, shared
  <1>3. /\ IsInjective(Remainder(c)) /\ Range(Remainder(c)) = Q
        /\ Remainder(c) \in Seq(Row) /\ Remainder(c) # <<>>
    BY <1>1, RemainderInjective, RemainderType DEF HeldOnce, TypeInv, TypeOK
  <1>4. \/ /\ fate' = Settle(done, Q, "lost") /\ rows' = <<>> /\ committed' = 0
        \/ /\ fate' = done /\ rows' = Remainder(c) /\ committed' = 0 /\ pc' = "backoff"
    BY <1>3 DEF InsertFails, FlushReturn
  <1>5. Range(rows) = A \cup Q /\ A \cap Q = {}
    <2>1. Range(rows) = Part(rows, 1, Len(rows))
      BY <1>1, PartRange
    <2>2. Part(rows, 1, Len(rows)) = A \cup Q
      BY <1>1, PartSplit
    <2>3. A \cap Q = {}
      BY <1>1, PartsDisjoint DEF HeldOnce
    <2>. QED
      BY <2>1, <2>2, <2>3
  <1>6. Pending = P \cup Q /\ P \cap Q = {} /\ P \subseteq A
    <2>1. P \subseteq A
      BY <1>1 DEF Part
    <2>. QED
      BY <1>1, <1>5, <2>1, PartSplit DEF Pending
  <1>7. D \subseteq Q
    BY <1>1 DEF Part
  <1>8. Pending' = Range(rows')
    <2>. HIDE DEF c, done, Q
    <2>1. (rows' = <<>> \/ rows' = Remainder(c)) /\ committed' = 0
      BY <1>4
    <2>2. rows' \in Seq(Row)
      <3>1. <<>> \in Seq(Row) /\ Remainder(c) \in Seq(Row)
        BY <1>3
      <3>. QED
        BY <2>1, <3>1, Zenon
    <2>3. Range(rows') = Part(rows', 1, Len(rows'))
      BY <2>2, PartRange
    <2>. QED
      BY <2>1, <2>3 DEF Pending
  <1>9. Range(ch) \subseteq Row /\ Range(rows) \subseteq Row
    BY <1>1 DEF TypeInv, TypeOK, SharedType, Range
  <1>. HIDE DEF c, A, P, D, Q
  <1>10. \A r \in Row : /\ r \notin Range(rows) => fate'[r] = fate[r]
                        /\ r \in A => fate'[r] = "stored"
                        /\ r \in Q => fate'[r] = IF rows' = <<>> THEN "lost" ELSE fate[r]
    BY <1>3, <1>4, <1>5 DEF Settle
  <1>11. \/ rows' = <<>>
         \/ rows' = Remainder(c) /\ pc' = "backoff" /\ Range(rows') = Q
    BY <1>3, <1>4
  <1>. HIDE DEF done
  <1>12. HeldOnce'
    <2>1. IsInjective(rows') /\ Range(rows') \subseteq Range(rows)
      BY <1>3, <1>5, <1>11, EmptyRows
    <2>2. \A r \in Range(ch) \cup Range(rows') : fate'[r] = "none"
      BY <1>5, <1>9, <1>10, <1>11, EmptyRows DEF HeldOnce
    <2>. QED
      BY <1>1, <1>2, <2>1, <2>2, EmptyRows DEF HeldOnce
  <1>13. ASSUME NEW r \in Row
         PROVE  CopiesOf(r)'
    <2>1. CopiesOf(r)
      BY DEF CopiesInv
    <2>2. copies[r] \in Nat /\ inDoubt[r] \in Nat
      BY DEF TypeInv, TypeOK, RecordType
    <2>3. /\ r \in P => copies'[r] = copies[r] + 1
          /\ r \notin P => copies'[r] = copies[r]
          /\ r \in D => inDoubt'[r] = inDoubt[r] + 1
          /\ r \notin D => inDoubt'[r] = inDoubt[r]
      BY <1>2 DEF Bump
    <2>4. r \in Range(rows) => fate[r] = "none"
      BY DEF HeldOnce
    <2>5. r \in Range(rows') => r \in Q
      BY <1>11, EmptyRows
    <2>6. CASE r \notin Range(rows)
      <3>1. /\ copies'[r] = copies[r] /\ inDoubt'[r] = inDoubt[r] /\ fate'[r] = fate[r]
            /\ r \notin Range(rows') /\ r \notin Pending' /\ (r \notin unacked' => r \notin unacked)
        BY <1>2, <1>5, <1>6, <1>7, <1>8, <1>10, <2>3, <2>5, <2>6
      <3>. QED
        BY <2>1, <2>2, <2>6, <3>1, <1>2 DEF CopiesOf, Submitted
    <2>7. CASE r \in A
      <3>1. /\ inDoubt'[r] = inDoubt[r] /\ fate'[r] = "stored"
            /\ r \notin Range(rows') /\ r \notin Pending' /\ (r \in unacked' <=> r \in unacked)
        BY <1>2, <1>5, <1>7, <1>8, <1>10, <2>3, <2>5, <2>7
      <3>2. r \in P => /\ copies'[r] = copies[r] + 1 /\ copies[r] + inDoubt[r] <= attempt
                       /\ (r \notin unacked => copies[r] = 0)
        BY <1>1, <1>6, <2>1, <2>3 DEF CopiesOf, Submitted
      <3>3. r \notin P => copies'[r] = copies[r]
        BY <2>3
      <3>4. /\ copies'[r] + inDoubt'[r] <= MaxRetries + 1
            /\ r \notin unacked => copies'[r] <= 1
        BY <1>1, <2>1, <2>2, <3>1, <3>2, <3>3, MaxRetriesAssumption, SMTT(30) DEF CopiesOf, Submitted
      <3>. QED
        BY <2>1, <3>1, <3>4 DEF CopiesOf, Submitted
    <2>8. CASE r \in Q
      <3>1. /\ copies'[r] = copies[r] /\ r \in Pending /\ r \in Range(rows)
            /\ attempt' = attempt
        BY <1>2, <1>5, <1>6, <2>3, <2>8
      <3>2. /\ copies[r] + inDoubt[r] <= attempt /\ (r \notin unacked => copies[r] = 0)
            /\ inDoubt[r] > 0 => r \in unacked
        BY <1>1, <2>1, <3>1 DEF CopiesOf, Submitted
      <3>3. /\ copies'[r] + inDoubt'[r] <= attempt + 1
            /\ r \notin unacked' => copies'[r] = 0
            /\ inDoubt'[r] > 0 => r \in unacked'
        BY <1>1, <1>2, <2>2, <2>3, <3>1, <3>2, SMTT(30)
      <3>4. /\ fate'[r] \notin {"refused", "superseded"}
            /\ fate'[r] = "none" => r \in Range(rows')
            /\ r \in Range(rows') => pc' = "backoff"
        BY <1>10, <1>11, <2>4, <2>8, <3>1, EmptyRows
      <3>5. /\ copies'[r] + inDoubt'[r] <= MaxRetries + 1
            /\ r \notin unacked' => copies'[r] <= 1
        BY <1>1, <2>2, <2>3, <3>1, <3>3, MaxRetriesAssumption, SMTT(30)
      <3>6. r \in Pending' => pc' = "backoff"
        BY <1>8, <3>4
      <3>. QED
        BY <3>1, <3>3, <3>4, <3>5, <3>6 DEF CopiesOf, Submitted
    <2>. QED
      BY <1>5, <2>6, <2>7, <2>8
  <1>. QED
    BY <1>12, <1>13 DEF CopiesInv

\* A new row is held nowhere, undecided and unknown to the store.
LEMMA AddCopies ==
    ASSUME TypeInv, HeldOnce, CopiesInv, NEW x \in Row, Add(x)
    PROVE  HeldOnce' /\ CopiesInv'
  <1>1. fate[x] = "none" /\ x \notin Range(ch) \cup Range(batch) \cup Range(rows)
    <2>1. Status(x) = "new" /\ fate[x] \in Fates /\ "new" \notin Fates
      BY DEF Add, Arrives, TypeInv, TypeOK, RecordType, Fates
    <2>. QED
      BY <2>1 DEF Status
  <1>2. /\ UNCHANGED <<batch, rows, attempt, committed, pc, copies, inDoubt, unacked>>
        /\ ch \in Seq(Row) /\ Range(ch) \subseteq Row /\ Range(rows) \subseteq Row
        /\ Range(batch) \subseteq Row
    BY DEF Add, flusher, store, TypeInv, TypeOK, SharedType, FlusherType, Range
  <1>3. CASE AddEnqueue(x)
    <2>1. IsInjective(ch') /\ Range(ch') = Range(ch) \cup {x} /\ fate' = fate
      BY <1>1, <1>2, <1>3, AppendInjective, RangeAppend DEF AddEnqueue, HeldOnce
    <2>2. HeldOnce'
      BY <1>1, <1>2, <2>1 DEF HeldOnce
    <2>3. CopiesInv'
      BY <1>2, <2>1 DEF CopiesInv, CopiesOf, Submitted, Pending
    <2>. QED
      BY <2>2, <2>3
  <1>4. CASE AddRefuse(x)
    <2>1. ch' = ch /\ \A r \in Row : fate'[r] = IF r = x THEN "refused" ELSE fate[r]
      BY <1>4 DEF AddRefuse, Settle
    <2>2. HeldOnce'
      BY <1>1, <1>2, <2>1 DEF HeldOnce
    <2>3. Submitted(x) = 0
      BY <1>1 DEF CopiesInv, CopiesOf
    <2>4. CopiesInv'
      BY <1>1, <1>2, <2>1, <2>3 DEF CopiesInv, CopiesOf, Submitted, Pending
    <2>. QED
      BY <2>2, <2>4
  <1>. QED
    BY <1>3, <1>4 DEF Add

\* Every action of the buffer preserves the invariant.
LEMMA CopiesStep ==
    TypeInv /\ HeldOnce /\ CopiesInv /\ [Next]_vars => HeldOnce' /\ CopiesInv'
  <1>. SUFFICES ASSUME TypeInv, HeldOnce, CopiesInv, [Next]_vars
                PROVE  HeldOnce' /\ CopiesInv'
    OBVIOUS
  <1>1. ASSUME NEW x \in Row, Add(x)
        PROVE  HeldOnce' /\ CopiesInv'
    BY <1>1, AddCopies
  <1>2. ASSUME NEW x \in Row, LateCommit(x)
        PROVE  HeldOnce' /\ CopiesInv'
    <2>1. HeldOnce'
      BY <1>2 DEF LateCommit, HeldOnce, shared, flusher, history
    <2>2. UNCHANGED <<rows, attempt, committed, pc, fate, unacked>>
      BY <1>2 DEF LateCommit, flusher, history
    <2>3. ASSUME NEW r \in Row
          PROVE  CopiesOf(r)'
      <3>1. CopiesOf(r) /\ copies[r] \in Nat /\ inDoubt[r] \in Nat
        BY DEF CopiesInv, TypeInv, TypeOK, RecordType
      <3>2. CASE r # x
        <4>1. copies'[r] = copies[r] /\ inDoubt'[r] = inDoubt[r]
          BY <1>2, <3>2 DEF LateCommit, TypeInv, TypeOK, RecordType
        <4>. QED
          BY <2>2, <3>1, <4>1 DEF CopiesOf, Submitted, Pending
      <3>3. CASE r = x
        <4>1. copies'[r] = copies[r] + 1 /\ inDoubt'[r] = inDoubt[r] - 1 /\ inDoubt[r] > 0
          BY <1>2, <3>3 DEF LateCommit, TypeInv, TypeOK, RecordType
        <4>2. r \in unacked /\ Submitted(r)' = Submitted(r)
          BY <3>1, <4>1 DEF CopiesOf, Submitted
        <4>. QED
          BY <2>2, <3>1, <4>2 DEF CopiesOf, Pending
      <3>. QED
        BY <3>2, <3>3
    <2>. QED
      BY <2>1, <2>3 DEF CopiesInv
  <1>3. ASSUME NEW here \in {"select", "drain"}, ReceiveAt(here)
        PROVE  HeldOnce' /\ CopiesInv'
    BY <1>3, ReceiveCopies
  <1>4. ASSUME NEW back, batch # <<>>, FlushBegin(batch, back), ~Flushing, ch' = ch
        PROVE  HeldOnce' /\ CopiesInv'
    <2>1. rows = <<>> /\ batch \in Seq(Row) /\ Range(batch) \subseteq Row
          /\ Range(ch) \subseteq Row
      BY <1>4 DEF TypeInv, TypeOK, FlusherInv, FlusherType, SharedType, Range
    <2>2. HeldOnce'
      BY <1>4, <2>1, FlushBeginHeld DEF HeldOnce, TypeInv, TypeOK
    <2>3. CopiesInv'
      BY <1>4, <2>1, FlushBeginCopies DEF HeldOnce
    <2>. QED
      BY <2>2, <2>3
  <1>5. ASSUME UNCHANGED <<ch, batch, rows, attempt, committed, copies, inDoubt, fate, unacked>>,
               pc = "backoff" <=> pc' = "backoff"
        PROVE  HeldOnce' /\ CopiesInv'
    BY <1>5 DEF HeldOnce, CopiesInv, CopiesOf, Submitted, Pending
  <1>6. CASE Tick
    BY <1>4, <1>6 DEF Tick, Flushing, shared
  <1>7. CASE DrainDone
    BY <1>4, <1>5, <1>7 DEF DrainDone, Flushing, shared, store, history
  <1>8. CASE SeeStop \/ Exit \/ StartChunk
    BY <1>5, <1>8 DEF SeeStop, Exit, StartChunk, shared, store, history
  <1>9. CASE InsertReturn
    BY <1>9, InsertOkCopies, InsertFailsCopies DEF InsertReturn
  <1>10. CASE Retry
    <2>1. /\ UNCHANGED <<ch, batch, rows, committed, copies, inDoubt, fate, unacked>>
          /\ attempt' = attempt + 1 /\ attempt \in Nat
      BY <1>10 DEF Retry, shared, store, history, TypeInv, TypeOK, FlusherType
    <2>2. HeldOnce'
      BY <2>1 DEF HeldOnce
    <2>3. Pending \subseteq Range(rows) /\ Pending' = Pending
      BY <2>1 DEF Pending, Part, Range, TypeInv, TypeOK, FlusherType
    <2>4. ASSUME NEW r \in Row
          PROVE  CopiesOf(r)'
      <3>1. CopiesOf(r) /\ copies[r] \in Nat /\ inDoubt[r] \in Nat
        BY DEF CopiesInv, TypeInv, TypeOK, RecordType
      <3>. QED
        BY <2>1, <2>3, <3>1 DEF CopiesOf, Submitted
    <2>. QED
      BY <2>2, <2>4 DEF CopiesInv
  <1>11. CASE CloseCall \/ CloseTimeout \/ CloseReturn
    BY <1>5, <1>11 DEF CloseCall, CloseTimeout, CloseReturn, shared, flusher, store, history
  <1>12. CASE UNCHANGED vars
    BY <1>5, <1>12 DEF vars, shared, flusher, store, history
  <1>. QED
    BY <1>1, <1>2, <1>3, <1>6, <1>7, <1>8, <1>9, <1>10, <1>11, <1>12
       DEF Next, Flusher, Receive, DrainReceive, Terminated

LEMMA CopiesInit == Init => HeldOnce /\ CopiesInv
  <1>. SUFFICES ASSUME Init
                PROVE  HeldOnce /\ CopiesInv
    OBVIOUS
  <1>1. HeldOnce
    BY EmptyRows DEF Init, HeldOnce
  <1>2. CopiesInv
    BY MaxRetriesAssumption DEF Init, CopiesInv, CopiesOf, Submitted, Pending, Part
  <1>. QED
    BY <1>1, <1>2

-----------------------------------------------------------------------------
\* A retry of flush writes rows[committed:] and nothing before it: a row is in the
\* store twice only if an InsertBatch that carried it went unacknowledged.
THEOREM RetryIsExact == Spec => []DuplicatesOnlyAfterLostAck
  <1>1. TypeInv /\ CopiesInv => DuplicatesOnlyAfterLostAck
    BY DEF TypeInv, TypeOK, RecordType, CopiesInv, CopiesOf, DuplicatesOnlyAfterLostAck
  <1>. QED
    BY <1>1, TypeInit, TypeStep, CopiesInit, CopiesStep, PTL DEF Spec

\* flush submits a row at most once per attempt, however many acknowledgements of
\* insert are lost and however late their statements commit.
THEOREM CopiesBounded == Spec => []AtMostOneCopyPerAttempt
  <1>1. CopiesInv => AtMostOneCopyPerAttempt
    BY DEF CopiesInv, CopiesOf, Submitted, AtMostOneCopyPerAttempt
  <1>. QED
    BY <1>1, TypeInit, TypeStep, CopiesInit, CopiesStep, PTL DEF Spec

\* What an action may do to a row that is settled.
SettledStep(r) == fate'[r] = fate[r] /\ (copies'[r] > copies[r] => r \in unacked)

LEMMA SettledKept ==
    ASSUME TypeInv, HeldOnce, CopiesInv, [Next]_vars, NEW r \in Row, fate[r] # "none"
    PROVE  SettledStep(r)
  <1>. USE DEF SettledStep
  <1>1. /\ r \notin Range(ch) \cup Range(batch) \cup Range(rows)
        /\ copies[r] \in Nat /\ inDoubt[r] \in Nat /\ (inDoubt[r] > 0 => r \in unacked)
    BY DEF HeldOnce, CopiesInv, CopiesOf, TypeInv, TypeOK, RecordType
  <1>2. ASSUME UNCHANGED <<copies, fate>>
        PROVE  SettledStep(r)
    BY <1>1, <1>2
  <1>3. ASSUME NEW x \in Row, Add(x)
        PROVE  SettledStep(r)
    <2>1. fate[x] = "none"
      <3>1. Status(x) = "new" /\ fate[x] \in Fates /\ "new" \notin Fates
        BY <1>3 DEF Add, Arrives, TypeInv, TypeOK, RecordType, Fates
      <3>. QED
        BY <3>1 DEF Status
    <2>. QED
      BY <1>1, <1>3, <2>1 DEF Add, AddEnqueue, AddRefuse, Settle, store
  <1>4. ASSUME NEW x \in Row, LateCommit(x)
        PROVE  SettledStep(r)
    BY <1>1, <1>4 DEF LateCommit, history, TypeInv, TypeOK, RecordType
  <1>5. ASSUME NEW b, NEW back, FlushBegin(b, back), r \notin Range(b)
        PROVE  SettledStep(r)
    BY <1>1, <1>5 DEF FlushBegin, Settle, store
  <1>6. ASSUME NEW here, ReceiveAt(here)
        PROVE  SettledStep(r)
    <2>1. r \notin Range(Append(batch, Head(ch)))
      <3>1. Head(ch) \in Range(ch) /\ Head(ch) \in Row /\ batch \in Seq(Row)
        BY <1>6, RangeTail DEF ReceiveAt, TypeInv, TypeOK, SharedType, FlusherType
      <3>2. Range(Append(batch, Head(ch))) = Range(batch) \cup {Head(ch)}
        BY <3>1, RangeAppend
      <3>. QED
        BY <1>1, <3>1, <3>2
    <2>. QED
      BY <1>2, <1>5, <1>6, <2>1 DEF ReceiveAt, Collect, store, history
  <1>7. CASE Tick \/ DrainDone
    BY <1>1, <1>2, <1>5, <1>7 DEF Tick, DrainDone, store, history
  <1>8. CASE InsertOk
    <2>1. r \notin Part(rows, committed + 1, committed + chunk)
      BY <1>1 DEF Part, Range, TypeInv, TypeOK, FlusherType
    <2>. QED
      BY <1>1, <1>8, <2>1 DEF InsertOk, Bump, Settle
  <1>9. ASSUME NEW err \in {"retryable", "nonretryable"},
               NEW k \in 0..BatchSize, NEW m \in 0..BatchSize, InsertFails(err, k, m)
        PROVE  SettledStep(r)
    <2>1. /\ committed + k \in 0..Len(rows) /\ committed \in Nat
          /\ rows \in Seq(Row) /\ Len(rows) \in Nat
      BY <1>9, BatchSizeAssumption DEF InsertFails, TypeInv, TypeOK, FlusherType
    <2>2. r \notin Part(rows, committed + 1, committed + k)
      BY <1>1, <2>1 DEF Part, Range
    <2>3. r \notin Part(rows, 1, committed + k)
      BY <1>1, <2>1 DEF Part, Range
    <2>4. r \notin Range(Remainder(committed + k))
      <3>1. Range(Remainder(committed + k)) = Part(rows, committed + k + 1, Len(rows))
        BY <2>1, RemainderInjective DEF HeldOnce, TypeInv, TypeOK
      <3>2. committed + k + 1..Len(rows) \subseteq DOMAIN rows
        BY <2>1
      <3>. QED
        BY <1>1, <3>1, <3>2, Zenon DEF Part, Range
    <2>. QED
      BY <1>1, <1>9, <2>2, <2>3, <2>4 DEF InsertFails, Bump, Settle
  <1>10. CASE SeeStop \/ Exit \/ StartChunk \/ Retry \/ CloseCall \/ CloseTimeout
              \/ CloseReturn \/ UNCHANGED vars
    BY <1>2, <1>10 DEF SeeStop, Exit, StartChunk, Retry, CloseCall, CloseTimeout, CloseReturn,
                       vars, store, history
  <1>. QED
    BY <1>3, <1>4, <1>6, <1>7, <1>8, <1>9, <1>10
       DEF Next, Flusher, Receive, DrainReceive, InsertReturn, Terminated

\* Once a row is refused, stored, superseded or given up, no step of Add, flush or
\* drain changes that, and only a statement in doubt can still write it.
THEOREM SettledForGood == Spec => SettledIsFinal
  <1>1. TypeInv /\ HeldOnce /\ CopiesInv /\ [Next]_vars =>
          [\A r \in Row : fate[r] # "none" =>
              fate'[r] = fate[r] /\ (copies'[r] > copies[r] => r \in unacked)]_vars
    BY SettledKept DEF SettledStep
  <1>. QED
    BY <1>1, TypeInit, TypeStep, CopiesInit, CopiesStep, PTL DEF Spec, SettledIsFinal

-----------------------------------------------------------------------------
(* The counters.  The invariant is the balance itself; the sets it counts  *)
(* have to be finite, and what a step adds to them has to be new.          *)

Fated(f, o) == {r \in Row : f[r] = o}

Settled == Fates \ {"none"}

Count(f, o) == Cardinality(Fated(f, o))

Balanced(m, f, held) ==
    /\ m.enqueued = m.flushed + Count(f, "superseded") + Count(f, "lost") + held
    /\ m.dropped = Count(f, "refused") + Count(f, "lost")
    /\ m.nonRetry <= m.failed

Holding == Len(ch) + Len(batch) + Len(rows)

CountInv == Balanced(metrics, fate, Holding) /\ \A o \in Settled : IsFiniteSet(Fated(fate, o))

\* A sequence without repetition has as many elements as positions.
LEMMA LenIsCardinality ==
    ASSUME NEW s \in Seq(Row), IsInjective(s)
    PROVE  IsFiniteSet(Range(s)) /\ Cardinality(Range(s)) = Len(s)
  <1>1. IsFiniteSet(1..Len(s)) /\ Cardinality(1..Len(s)) = Len(s)
    <2>1. 1 \in Int /\ Len(s) \in Nat /\ Len(s) \in Int
      OBVIOUS
    <2>2. /\ IsFiniteSet(1..Len(s))
          /\ Cardinality(1..Len(s)) = IF 1 > Len(s) THEN 0 ELSE Len(s) - 1 + 1
      BY <2>1, FS_Interval, Zenon
    <2>. QED
      BY <2>1, <2>2
  <1>2. s \in Bijection(1..Len(s), Range(s))
    BY DEF Bijection, Injection, Surjection, IsInjective, Range
  <1>. QED
    BY <1>1, <1>2, FS_Bijection DEF ExistsBijection

\* Settling rows that had no fate adds them to those with the outcome, and to no others.
LEMMA SettleCounts ==
    ASSUME NEW f \in [Row -> Fates], NEW S \in SUBSET Row, IsFiniteSet(S),
           \A r \in S : f[r] = "none", NEW o \in Settled,
           \A x \in Settled : IsFiniteSet(Fated(f, x))
    PROVE  /\ \A x \in Settled : IsFiniteSet(Fated(Settle(f, S, o), x))
           /\ Cardinality(Fated(Settle(f, S, o), o)) = Cardinality(Fated(f, o)) + Cardinality(S)
           /\ \A x \in Settled \ {o} : Fated(Settle(f, S, o), x) = Fated(f, x)
  <1>1. Fated(Settle(f, S, o), o) = Fated(f, o) \cup S /\ Fated(f, o) \cap S = {}
    BY DEF Fated, Settle, Settled
  <1>2. \A x \in Settled \ {o} : Fated(Settle(f, S, o), x) = Fated(f, x)
    BY DEF Fated, Settle, Settled
  <1>3. /\ IsFiniteSet(Fated(f, o) \cup S)
        /\ Cardinality(Fated(f, o) \cup S) = Cardinality(Fated(f, o)) + Cardinality(S)
    <2>1. /\ IsFiniteSet(Fated(f, o) \cup S)
          /\ Cardinality(Fated(f, o) \cup S) =
                Cardinality(Fated(f, o)) + Cardinality(S) - Cardinality(Fated(f, o) \cap S)
      BY FS_Union
    <2>2. Cardinality(Fated(f, o)) \in Nat /\ Cardinality(S) \in Nat
      BY FS_CardinalityType
    <2>3. Cardinality(Fated(f, o) \cap S) = 0
      BY <1>1, FS_EmptySet
    <2>. QED
      BY <2>1, <2>2, <2>3
  <1>. QED
    BY <1>1, <1>2, <1>3

\* A step that settles the rows of S with the outcome o.
LEMMA FateStep ==
    ASSUME TypeInv, CountInv, NEW S \in SUBSET Row, IsFiniteSet(S), \A r \in S : fate[r] = "none",
           NEW o \in Settled, fate' = Settle(fate, S, o)
    PROVE  /\ \A x \in Settled : IsFiniteSet(Fated(fate', x))
           /\ Count(fate', o) = Count(fate, o) + Cardinality(S)
           /\ \A x \in Settled \ {o} : Count(fate', x) = Count(fate, x)
  <1>1. fate \in [Row -> Fates]
    BY DEF TypeInv, TypeOK, RecordType
  <1>. QED
    BY <1>1, SettleCounts DEF CountInv, Count

\* The numbers the balance is made of.
LEMMA CountTypes ==
    ASSUME TypeInv, CountInv
    PROVE  /\ metrics.enqueued \in Nat /\ metrics.dropped \in Nat /\ metrics.flushed \in Nat
           /\ metrics.failed \in Nat /\ metrics.nonRetry \in Nat
           /\ Len(ch) \in Nat /\ Len(batch) \in Nat /\ Len(rows) \in Nat
           /\ Count(fate, "refused") \in Nat /\ Count(fate, "lost") \in Nat
           /\ Count(fate, "superseded") \in Nat /\ Count(fate, "stored") \in Nat
  <1>1. /\ metrics.enqueued \in Nat /\ metrics.dropped \in Nat /\ metrics.flushed \in Nat
        /\ metrics.failed \in Nat /\ metrics.nonRetry \in Nat
    BY DEF TypeInv, TypeOK, RecordType, Counters
  <1>2. Len(ch) \in Nat /\ Len(batch) \in Nat /\ Len(rows) \in Nat
    BY DEF TypeInv, TypeOK, SharedType, FlusherType
  <1>3. \A o \in Settled : Count(fate, o) \in Nat
    BY FS_CardinalityType DEF CountInv, Count
  <1>. QED
    BY <1>1, <1>2, <1>3 DEF Settled, Fates

\* A step that leaves the fates, the counters and the number of rows held alone.
LEMMA CountKept ==
    ASSUME CountInv, metrics' = metrics, fate' = fate, Holding' = Holding
    PROVE  CountInv'
  BY DEF CountInv, Balanced, Count, Fated

\* The balance as two equations of numbers.
LEMMA BalanceNumbers ==
    ASSUME TypeInv, CountInv
    PROVE  /\ metrics.enqueued = metrics.flushed + Count(fate, "superseded") + Count(fate, "lost") + Holding
           /\ metrics.dropped = Count(fate, "refused") + Count(fate, "lost")
           /\ metrics.nonRetry <= metrics.failed
           /\ Holding \in Nat
  BY CountTypes DEF CountInv, Balanced, Holding

LEMMA AddCounts ==
    ASSUME TypeInv, HeldOnce, CountInv, NEW x \in Row, Add(x)
    PROVE  CountInv'
  <1>1. fate[x] = "none"
    <2>1. Status(x) = "new" /\ fate[x] \in Fates /\ "new" \notin Fates
      BY DEF Add, Arrives, TypeInv, TypeOK, RecordType, Fates
    <2>. QED
      BY <2>1 DEF Status
  <1>2. batch' = batch /\ rows' = rows
    BY DEF Add, flusher
  <1>3. /\ metrics.enqueued = metrics.flushed + Count(fate, "superseded") + Count(fate, "lost") + Holding
        /\ metrics.dropped = Count(fate, "refused") + Count(fate, "lost")
        /\ metrics.nonRetry <= metrics.failed
        /\ Holding \in Nat
    BY BalanceNumbers
  <1>4. /\ metrics.enqueued \in Nat /\ metrics.flushed \in Nat
        /\ Count(fate, "superseded") \in Nat /\ Count(fate, "lost") \in Nat
    BY CountTypes
  <1>5. CASE AddEnqueue(x)
    <2>1. Len(ch') = Len(ch) + 1 /\ fate' = fate
      BY <1>5 DEF AddEnqueue, TypeInv, TypeOK, SharedType
    <2>2. /\ metrics'.enqueued = metrics.enqueued + 1 /\ metrics'.flushed = metrics.flushed
          /\ metrics'.dropped = metrics.dropped /\ metrics'.failed = metrics.failed
          /\ metrics'.nonRetry = metrics.nonRetry
      BY <1>5 DEF AddEnqueue, TypeInv, TypeOK, RecordType, Counters
    <2>3. Holding' = Holding + 1
      BY <1>2, <2>1, CountTypes DEF Holding
    <2>4. metrics'.enqueued = metrics'.flushed + Count(fate, "superseded") + Count(fate, "lost") + (Holding + 1)
      BY <2>2, <1>3, <1>4
    <2>5. Balanced(metrics', fate, Holding + 1)
      BY <2>2, <2>4, <1>3 DEF Balanced
    <2>. QED
      BY <2>1, <2>3, <2>5 DEF CountInv
  <1>6. CASE AddRefuse(x)
    <2>1. Holding' = Holding
      BY <1>2, <1>6 DEF AddRefuse, Holding
    <2>2. /\ metrics'.enqueued = metrics.enqueued /\ metrics'.flushed = metrics.flushed
          /\ metrics'.dropped = metrics.dropped + 1 /\ metrics'.failed = metrics.failed
          /\ metrics'.nonRetry = metrics.nonRetry
      BY <1>6 DEF AddRefuse, TypeInv, TypeOK, RecordType, Counters
    <2>3. IsFiniteSet({x}) /\ Cardinality({x}) = 1
      BY FS_Singleton
    <2>4. /\ \A o \in Settled : IsFiniteSet(Fated(fate', o))
          /\ Count(fate', "refused") = Count(fate, "refused") + 1
          /\ \A o \in Settled \ {"refused"} : Count(fate', o) = Count(fate, o)
      <3>1. fate' = Settle(fate, {x}, "refused") /\ "refused" \in Settled
        BY <1>6 DEF AddRefuse, Settled, Fates
      <3>. QED
        BY <3>1, <2>3, <1>1, FateStep
    <2>5. Count(fate', "lost") = Count(fate, "lost") /\ Count(fate', "superseded") = Count(fate, "superseded")
      BY <2>4 DEF Settled, Fates
    <2>6. Balanced(metrics', fate', Holding')
      BY <2>1, <2>2, <2>4, <2>5, CountTypes, SMTT(30) DEF CountInv, Balanced
    <2>. QED
      BY <2>4, <2>6 DEF CountInv
  <1>. QED
    BY <1>5, <1>6 DEF Add

\* A batch that is handed over to flush: what dedupe leaves out is superseded.
LEMMA FlushBeginCounts ==
    ASSUME TypeInv, CountInv, NEW b \in Seq(Row), b # <<>>, IsInjective(b),
           \A r \in Range(b) : fate[r] = "none", NEW back, FlushBegin(b, back),
           ch' \in Seq(Row), Len(ch') + Len(b) = Holding
    PROVE  CountInv'
  <1>1. rows' \in dedupe(b) /\ batch' = <<>> /\ metrics' = metrics
    BY DEF FlushBegin
  <1>2. rows' \in Seq(Row) /\ Range(rows') \subseteq Range(b) /\ IsInjective(rows')
    BY <1>1, DedupeType, DedupeInjective
  <1>3. /\ IsFiniteSet(Range(b)) /\ Cardinality(Range(b)) = Len(b)
        /\ IsFiniteSet(Range(rows')) /\ Cardinality(Range(rows')) = Len(rows')
    BY <1>2, LenIsCardinality
  <1>4. Range(b) \cap Range(rows') = Range(rows')
    BY <1>2
  <1>. DEFINE S == Range(b) \ Range(rows')
  <1>5. IsFiniteSet(S) /\ Cardinality(S) = Len(b) - Len(rows')
    <2>1. IsFiniteSet(S) /\ Cardinality(S) = Cardinality(Range(b)) - Cardinality(Range(b) \cap Range(rows'))
      BY <1>3, FS_Difference, Zenon
    <2>. QED
      BY <2>1, <1>3, <1>4
  <1>6. S \in SUBSET Row /\ \A r \in S : fate[r] = "none"
    BY DEF Range
  <1>7. fate' = Settle(fate, S, "superseded") /\ "superseded" \in Settled
    BY DEF FlushBegin, Settled, Fates
  <1>. HIDE DEF S
  <1>8. /\ \A o \in Settled : IsFiniteSet(Fated(fate', o))
        /\ Count(fate', "superseded") = Count(fate, "superseded") + (Len(b) - Len(rows'))
        /\ \A o \in Settled \ {"superseded"} : Count(fate', o) = Count(fate, o)
    BY <1>5, <1>6, <1>7, FateStep
  <1>9. Count(fate', "lost") = Count(fate, "lost") /\ Count(fate', "refused") = Count(fate, "refused")
    BY <1>8 DEF Settled, Fates
  <1>10. /\ Len(ch') \in Nat /\ Len(b) \in Nat /\ Len(rows') \in Nat
         /\ Holding' = Len(ch') + Len(rows') /\ Holding = Len(ch') + Len(b)
    BY <1>1, <1>2 DEF Holding
  <1>11. Balanced(metrics, fate, Len(ch') + Len(b))
    BY <1>10 DEF CountInv
  <1>12. Balanced(metrics, fate', Len(ch') + Len(rows'))
    <2>1. /\ metrics.enqueued = metrics.flushed + Count(fate, "superseded") + Count(fate, "lost") + (Len(ch') + Len(b))
          /\ metrics.enqueued \in Nat /\ metrics.flushed \in Nat
          /\ Count(fate, "superseded") \in Nat /\ Count(fate, "lost") \in Nat
      BY <1>11, CountTypes DEF Balanced
    <2>2. metrics.enqueued = metrics.flushed + Count(fate', "superseded") + Count(fate', "lost") + (Len(ch') + Len(rows'))
      BY <1>8, <1>9, <1>10, <2>1, SMTT(30)
    <2>. QED
      BY <1>9, <1>11, <2>2 DEF Balanced
  <1>. QED
    BY <1>1, <1>8, <1>10, <1>12 DEF CountInv

LEMMA ReceiveCounts ==
    ASSUME TypeInv, HeldOnce, CountInv, NEW here \in {"select", "drain"}, ReceiveAt(here)
    PROVE  CountInv'
  <1>. DEFINE b == Append(batch, Head(ch))
  <1>1. ch \in Seq(Row) /\ ch # <<>> /\ ch' = Tail(ch) /\ batch \in Seq(Row) /\ Head(ch) \in Row
    BY DEF ReceiveAt, TypeInv, TypeOK, SharedType, FlusherType
  <1>2. rows = <<>>
    BY DEF ReceiveAt, TypeInv, FlusherInv, Flushing
  <1>3. /\ ch' \in Seq(Row) /\ b \in Seq(Row) /\ b # <<>>
        /\ Len(ch') + Len(b) = Len(ch) + Len(batch) /\ Len(ch) \in Nat /\ Len(batch) \in Nat
    <2>1. ch' \in Seq(Row) /\ Len(ch) \in Nat /\ Len(ch') = Len(ch) - 1
      BY <1>1
    <2>2. b \in Seq(Row) /\ Len(batch) \in Nat /\ Len(b) = Len(batch) + 1
      BY <1>1
    <2>3. b # <<>>
      BY <2>2
    <2>. HIDE DEF b
    <2>. QED
      BY <2>1, <2>2, <2>3
  <1>4. Head(ch) \in Range(ch) /\ Range(b) = Range(batch) \cup {Head(ch)}
    BY <1>1, RangeTail, RangeAppend
  <1>5. IsInjective(b)
    BY <1>1, <1>4, AppendInjective DEF HeldOnce
  <1>6. \A r \in Range(b) : fate[r] = "none"
    BY <1>4 DEF HeldOnce
  <1>7. Collect(b, here)
    BY DEF ReceiveAt
  <1>. HIDE DEF b
  <1>8. Holding = Len(ch) + Len(batch)
    BY <1>2, <1>3 DEF Holding
  <1>9. CASE FlushBegin(b, here)
    BY <1>3, <1>5, <1>6, <1>8, <1>9, FlushBeginCounts
  <1>10. CASE batch' = b /\ UNCHANGED <<rows, metrics, history>>
    <2>1. Holding' = Holding
      BY <1>2, <1>3, <1>8, <1>10 DEF Holding
    <2>. QED
      BY <1>10, <2>1, CountKept DEF history
  <1>. QED
    BY <1>7, <1>9, <1>10 DEF Collect

\* What Flushed does to the counters.
LEMMA FlushedCounts ==
    ASSUME TypeInv, NEW c \in Nat
    PROVE  /\ Flushed(c) \in Counters
           /\ Flushed(c).flushed = metrics.flushed + c /\ Flushed(c).enqueued = metrics.enqueued
           /\ Flushed(c).dropped = metrics.dropped /\ Flushed(c).failed = metrics.failed
           /\ Flushed(c).nonRetry = metrics.nonRetry
  <1>1. metrics \in Counters /\ metrics.flushed \in Nat /\ metrics.batches \in Nat
    BY DEF TypeInv, TypeOK, RecordType, Counters
  <1>2. metrics.flushed + c \in Nat /\ metrics.batches + 1 \in Nat
    BY <1>1
  <1>3. CASE c > 0
    <2>. DEFINE n == metrics.flushed + c
                k == metrics.batches + 1
    <2>1. Flushed(c) = [metrics EXCEPT !.flushed = n, !.batches = k]
      BY <1>3 DEF Flushed
    <2>2. n \in Nat /\ k \in Nat
      BY <1>2
    <2>. HIDE DEF n, k
    <2>3. [metrics EXCEPT !.flushed = n, !.batches = k] \in Counters
      BY <1>1, <2>2 DEF Counters
    <2>4. /\ Flushed(c).flushed = n /\ Flushed(c).enqueued = metrics.enqueued
          /\ Flushed(c).dropped = metrics.dropped /\ Flushed(c).failed = metrics.failed
          /\ Flushed(c).nonRetry = metrics.nonRetry
      BY <1>1, <2>1, <2>2 DEF Counters
    <2>. QED
      BY <2>1, <2>3, <2>4 DEF n
  <1>4. CASE c = 0
    BY <1>1, <1>4 DEF Flushed
  <1>. QED
    BY <1>3, <1>4

\* Rows that are stored have no part in the balance.
LEMMA StoredApart ==
    ASSUME TypeInv, CountInv, NEW S \in SUBSET Row, IsFiniteSet(S), \A r \in S : fate[r] = "none"
    PROVE  /\ \A o \in Settled : IsFiniteSet(Fated(Settle(fate, S, "stored"), o))
           /\ \A o \in Settled \ {"stored"} : Count(Settle(fate, S, "stored"), o) = Count(fate, o)
  <1>1. fate \in [Row -> Fates] /\ "stored" \in Settled
    BY DEF TypeInv, TypeOK, RecordType, Settled, Fates
  <1>. QED
    BY <1>1, SettleCounts DEF CountInv, Count

\* All rows of the flush leave the buffer.
LEMMA AllLeave ==
    ASSUME NEW f \in Nat, NEW s \in Nat, NEW l \in Nat, NEW a \in Nat, NEW b \in Nat, NEW r \in Nat,
           NEW e, e = f + s + l + (a + b + r)
    PROVE  e = (f + r) + s + l + (a + b)
  OBVIOUS

LEMMA InsertOkCounts ==
    ASSUME TypeInv, HeldOnce, CountInv, InsertOk
    PROVE  CountInv'
  <1>. DEFINE c == committed + chunk
  <1>1. rows \in Seq(Row) /\ Len(rows) \in Nat /\ c \in Nat /\ IsInjective(rows)
    BY DEF TypeInv, TypeOK, FlusherType, HeldOnce
  <1>2. ch' = ch /\ batch' = batch
    BY DEF InsertOk, shared
  <1>3. CASE UNCHANGED <<rows, metrics, fate>>
    BY <1>2, <1>3, CountKept DEF Holding
  <1>4. CASE c = Len(rows) /\ metrics' = Flushed(c) /\ fate' = Settle(fate, Range(rows), "stored") /\ rows' = <<>>
    <2>1. /\ IsFiniteSet(Range(rows)) /\ Range(rows) \in SUBSET Row
          /\ \A r \in Range(rows) : fate[r] = "none"
      BY <1>1, LenIsCardinality DEF HeldOnce, Range
    <2>2. /\ \A o \in Settled : IsFiniteSet(Fated(fate', o))
          /\ \A o \in Settled \ {"stored"} : Count(fate', o) = Count(fate, o)
      BY <1>4, <2>1, StoredApart
    <2>3. /\ Count(fate', "lost") = Count(fate, "lost") /\ Count(fate', "refused") = Count(fate, "refused")
          /\ Count(fate', "superseded") = Count(fate, "superseded")
      BY <2>2 DEF Settled, Fates
    <2>4. /\ metrics'.flushed = metrics.flushed + Len(rows) /\ metrics'.enqueued = metrics.enqueued
          /\ metrics'.dropped = metrics.dropped /\ metrics'.failed = metrics.failed
          /\ metrics'.nonRetry = metrics.nonRetry
      BY <1>1, <1>4, FlushedCounts
    <2>5. /\ Len(ch) \in Nat /\ Len(batch) \in Nat /\ Holding = Len(ch) + Len(batch) + Len(rows)
          /\ Holding' = Len(ch) + Len(batch)
      BY <1>2, <1>4, CountTypes DEF Holding
    <2>6. /\ metrics.enqueued = metrics.flushed + Count(fate, "superseded") + Count(fate, "lost") + Holding
          /\ metrics.dropped = Count(fate, "refused") + Count(fate, "lost")
          /\ metrics.nonRetry <= metrics.failed
      BY BalanceNumbers
    <2>7. /\ metrics.enqueued \in Nat /\ metrics.flushed \in Nat
          /\ Count(fate, "superseded") \in Nat /\ Count(fate, "lost") \in Nat
      BY CountTypes
    <2>8. metrics.enqueued = (metrics.flushed + Len(rows)) + Count(fate, "superseded") + Count(fate, "lost")
                             + (Len(ch) + Len(batch))
      <3>. DEFINE f == metrics.flushed
                  x == Count(fate, "superseded")
                  l == Count(fate, "lost")
                  a == Len(ch)
                  b == Len(batch)
                  r == Len(rows)
      <3>1. metrics.enqueued = f + x + l + (a + b + r)
        BY <2>5, <2>6, Zenon
      <3>2. f \in Nat /\ x \in Nat /\ l \in Nat /\ a \in Nat /\ b \in Nat /\ r \in Nat
        BY <1>1, <2>5, <2>7
      <3>. HIDE DEF f, x, l, a, b, r
      <3>3. metrics.enqueued = (f + r) + x + l + (a + b)
        BY <3>1, <3>2, AllLeave
      <3>. QED
        BY <3>3 DEF f, x, l, a, b, r
    <2>9. Balanced(metrics', fate', Len(ch) + Len(batch))
      BY <2>3, <2>4, <2>6, <2>8, Zenon DEF Balanced
    <2>. QED
      BY <2>2, <2>5, <2>9 DEF CountInv
  <1>. QED
    BY <1>3, <1>4 DEF InsertOk, FlushReturn

\* Rows that leave the buffer, c of them flushed and r of them given up or kept.
LEMMA Regroup ==
    ASSUME NEW f \in Nat, NEW s \in Nat, NEW l \in Nat, NEW h \in Nat, NEW c \in Nat, NEW r \in Nat,
           NEW e, e = f + s + l + (h + (c + r))
    PROVE  /\ e = (f + c) + s + l + (h + r)
           /\ e = (f + c) + s + (l + r) + h
  OBVIOUS

LEMMA InsertFailsCounts ==
    ASSUME TypeInv, HeldOnce, CountInv, NEW err \in {"retryable", "nonretryable"},
           NEW k \in 0..BatchSize, NEW m \in 0..BatchSize, InsertFails(err, k, m)
    PROVE  CountInv'
  <1>. DEFINE c == committed + k
              P == Part(rows, 1, c)
              R == Remainder(c)
              done == Settle(fate, P, "stored")
              left == Len(R)
  <1>1. /\ rows \in Seq(Row) /\ Len(rows) \in Nat /\ IsInjective(rows) /\ c \in Nat /\ c \in 0..Len(rows)
        /\ ch' = ch /\ batch' = batch
    BY BatchSizeAssumption, SMTT(30) DEF InsertFails, TypeInv, TypeOK, FlusherType, HeldOnce, shared
  <1>2. \/ /\ metrics' = [Flushed(c) EXCEPT
                 !.nonRetry = IF err = "nonretryable" THEN @ + 1 ELSE @,
                 !.failed = @ + 1,
                 !.dropped = @ + Len(Remainder(c))]
           /\ fate' = Settle(done, Range(R), "lost") /\ rows' = <<>>
        \/ metrics' = Flushed(c) /\ fate' = done /\ rows' = R
    BY DEF InsertFails, FlushReturn
  <1>3. R \in Seq(Row) /\ left \in Nat /\ left = Len(rows) - c /\ IsInjective(R)
        /\ Range(R) = Part(rows, c + 1, Len(rows))
    BY <1>1, RemainderType, RemainderInjective DEF TypeInv, TypeOK
  <1>4. P \in SUBSET Row /\ P \subseteq Range(rows) /\ P \cap Range(R) = {} /\ Range(R) \in SUBSET Row
    <2>1. 1 \in Nat \ {0} /\ c \in 0..Len(rows) /\ c + 1 \in Nat /\ c < c + 1 /\ Len(rows) \in 0..Len(rows)
      BY <1>1
    <2>2. P \subseteq Range(rows) /\ P \cap Part(rows, c + 1, Len(rows)) = {}
      BY <1>1, <2>1, PartsDisjoint
    <2>3. Range(rows) \subseteq Row /\ Range(R) \subseteq Row
      BY <1>1, <1>3 DEF Range
    <2>. QED
      BY <1>3, <2>2, <2>3
  <1>5. Range(R) \subseteq Range(rows)
    <2>1. c + 1..Len(rows) \subseteq DOMAIN rows
      BY <1>1
    <2>. QED
      BY <1>3, <2>1, Zenon DEF Part, Range
  <1>6. IsFiniteSet(P) /\ IsFiniteSet(Range(R)) /\ Cardinality(Range(R)) = left
    BY <1>1, <1>3, <1>4, LenIsCardinality, FS_Subset
  <1>7. \A r \in Range(rows) : fate[r] = "none"
    BY DEF HeldOnce
  <1>8. fate \in [Row -> Fates] /\ done \in [Row -> Fates]
    BY SettleType DEF TypeInv, TypeOK, RecordType, Fates
  <1>9. \A r \in Range(R) : done[r] = "none"
    BY <1>4, <1>5, <1>7 DEF Settle
  <1>. HIDE DEF P, done, R, left
  <1>10. /\ \A o \in Settled : IsFiniteSet(Fated(done, o))
         /\ \A o \in Settled \ {"stored"} : Count(done, o) = Count(fate, o)
    BY <1>4, <1>6, <1>7, StoredApart DEF done
  <1>11. /\ Flushed(c) \in Counters
         /\ Flushed(c).flushed = metrics.flushed + c /\ Flushed(c).enqueued = metrics.enqueued
         /\ Flushed(c).dropped = metrics.dropped /\ Flushed(c).failed = metrics.failed
         /\ Flushed(c).nonRetry = metrics.nonRetry
    BY <1>1, FlushedCounts
  <1>12. /\ metrics.enqueued = metrics.flushed + Count(fate, "superseded") + Count(fate, "lost") + Holding
         /\ metrics.dropped = Count(fate, "refused") + Count(fate, "lost")
         /\ metrics.nonRetry <= metrics.failed
    BY BalanceNumbers
  <1>13. /\ metrics.enqueued \in Nat /\ metrics.flushed \in Nat /\ metrics.dropped \in Nat
         /\ metrics.failed \in Nat /\ metrics.nonRetry \in Nat
         /\ Count(fate, "superseded") \in Nat /\ Count(fate, "lost") \in Nat /\ Count(fate, "refused") \in Nat
         /\ Len(ch) \in Nat /\ Len(batch) \in Nat
    BY CountTypes
  <1>. HIDE DEF c
  <1>14. /\ c \in Nat /\ left \in Nat
         /\ metrics.enqueued = metrics.flushed + Count(fate, "superseded") + Count(fate, "lost")
                               + (Len(ch) + Len(batch) + (c + left))
    <2>1. c \in Nat /\ left \in Nat /\ Len(rows) = c + left
      BY <1>1, <1>3
    <2>2. Holding = Len(ch) + Len(batch) + (c + left)
      BY <2>1 DEF Holding
    <2>. QED
      BY <2>1, <2>2, <1>12
  <1>15. /\ metrics.enqueued = (metrics.flushed + c) + Count(fate, "superseded") + Count(fate, "lost")
                               + (Len(ch) + Len(batch) + left)
         /\ metrics.enqueued = (metrics.flushed + c) + Count(fate, "superseded") + (Count(fate, "lost") + left)
                               + (Len(ch) + Len(batch))
    <2>. DEFINE f == metrics.flushed
                s == Count(fate, "superseded")
                l == Count(fate, "lost")
                h == Len(ch) + Len(batch)
                e == metrics.enqueued
    <2>1. f \in Nat /\ s \in Nat /\ l \in Nat /\ h \in Nat /\ c \in Nat /\ left \in Nat
      BY <1>13, <1>14
    <2>2. e = f + s + l + (h + (c + left))
      BY <1>14
    <2>. HIDE DEF f, s, l, h, e
    <2>3. e = (f + c) + s + l + (h + left) /\ e = (f + c) + s + (l + left) + h
      BY <2>1, <2>2, Regroup
    <2>. QED
      BY <2>3 DEF f, s, l, h, e
  <1>16. CASE metrics' = Flushed(c) /\ fate' = done /\ rows' = R
    <2>1. Holding' = Len(ch) + Len(batch) + left
      BY <1>1, <1>16 DEF Holding, left
    <2>2. /\ Count(fate', "lost") = Count(fate, "lost") /\ Count(fate', "refused") = Count(fate, "refused")
          /\ Count(fate', "superseded") = Count(fate, "superseded")
      BY <1>10, <1>16 DEF Settled, Fates
    <2>3. metrics.enqueued = (metrics.flushed + c) + Count(fate, "superseded") + Count(fate, "lost")
                             + (Len(ch) + Len(batch) + left)
      BY <1>15
    <2>4. Balanced(metrics', fate', Len(ch) + Len(batch) + left)
      BY <1>11, <1>12, <1>16, <2>2, <2>3, Zenon DEF Balanced
    <2>. QED
      BY <1>10, <1>16, <2>1, <2>4 DEF CountInv
  <1>17. CASE /\ metrics' = [Flushed(c) EXCEPT
                    !.nonRetry = IF err = "nonretryable" THEN @ + 1 ELSE @,
                    !.failed = @ + 1,
                    !.dropped = @ + Len(Remainder(c))]
              /\ fate' = Settle(done, Range(R), "lost") /\ rows' = <<>>
    <2>1. Holding' = Len(ch) + Len(batch)
      BY <1>1, <1>13, <1>17 DEF Holding
    <2>2. /\ \A o \in Settled : IsFiniteSet(Fated(fate', o))
          /\ Count(fate', "lost") = Count(done, "lost") + left
          /\ \A o \in Settled \ {"lost"} : Count(fate', o) = Count(done, o)
      <3>1. "lost" \in Settled
        BY DEF Settled, Fates
      <3>. QED
        BY <3>1, <1>4, <1>6, <1>8, <1>9, <1>10, <1>17, SettleCounts DEF Count
    <2>3. /\ Count(fate', "lost") = Count(fate, "lost") + left
          /\ Count(fate', "refused") = Count(fate, "refused")
          /\ Count(fate', "superseded") = Count(fate, "superseded")
      BY <2>2, <1>10 DEF Settled, Fates
    <2>. DEFINE nr == IF err = "nonretryable" THEN Flushed(c).nonRetry + 1 ELSE Flushed(c).nonRetry
                fa == Flushed(c).failed + 1
                dr == Flushed(c).dropped + left
    <2>4. /\ nr \in Nat /\ fa \in Nat /\ dr \in Nat /\ nr <= fa /\ dr = metrics.dropped + left
      <3>1. /\ Flushed(c).failed \in Nat /\ Flushed(c).dropped \in Nat /\ Flushed(c).nonRetry \in Nat
            /\ Flushed(c).nonRetry <= Flushed(c).failed /\ Flushed(c).dropped = metrics.dropped
        BY <1>11, <1>12, <1>13, Zenon
      <3>2. fa \in Nat /\ dr \in Nat /\ dr = metrics.dropped + left
        BY <3>1, <1>14
      <3>3. nr \in Nat /\ nr <= fa
        BY <3>1
      <3>. QED
        BY <3>2, <3>3
    <2>5. metrics' = [Flushed(c) EXCEPT !.nonRetry = nr, !.failed = fa, !.dropped = dr]
      BY <1>17 DEF left, R
    <2>. HIDE DEF nr, fa, dr
    <2>6. /\ metrics'.flushed = metrics.flushed + c /\ metrics'.enqueued = metrics.enqueued
          /\ metrics'.dropped = dr /\ metrics'.failed = fa /\ metrics'.nonRetry = nr
      BY <1>11, <2>4, <2>5 DEF Counters
    <2>7. metrics.enqueued = (metrics.flushed + c) + Count(fate, "superseded") + (Count(fate, "lost") + left)
                             + (Len(ch) + Len(batch))
      BY <1>15
    <2>8. dr = Count(fate, "refused") + (Count(fate, "lost") + left)
      BY <2>4, <1>3, <1>12, <1>13, SMTT(30)
    <2>9. Balanced(metrics', fate', Len(ch) + Len(batch))
      BY <2>3, <2>4, <2>6, <2>7, <2>8, Zenon DEF Balanced
    <2>. QED
      BY <2>1, <2>2, <2>9 DEF CountInv
  <1>. QED
    BY <1>2, <1>16, <1>17

LEMMA CountStep == TypeInv /\ HeldOnce /\ CountInv /\ [Next]_vars => CountInv'
  <1>. SUFFICES ASSUME TypeInv, HeldOnce, CountInv, [Next]_vars
                PROVE  CountInv'
    OBVIOUS
  <1>1. ASSUME UNCHANGED <<ch, batch, rows, metrics, fate>>
        PROVE  CountInv'
    BY <1>1, CountKept DEF Holding
  <1>2. ASSUME pc \in {"select", "drain"}, batch # <<>>, ch' = ch, NEW back, FlushBegin(batch, back)
        PROVE  CountInv'
    <2>1. rows = <<>>
      BY <1>2 DEF TypeInv, FlusherInv, Flushing
    <2>2. batch \in Seq(Row) /\ ch \in Seq(Row) /\ IsInjective(batch) /\ \A r \in Range(batch) : fate[r] = "none"
      BY DEF TypeInv, TypeOK, SharedType, FlusherType, HeldOnce
    <2>3. Len(ch') + Len(batch) = Holding
      BY <1>2, <2>1, <2>2 DEF Holding
    <2>. QED
      BY <1>2, <2>2, <2>3, FlushBeginCounts
  <1>3. CASE \E r \in Row : Add(r)
    BY <1>3, AddCounts
  <1>4. CASE \E r \in Row : LateCommit(r)
    BY <1>1, <1>4 DEF LateCommit, shared, flusher, history
  <1>5. CASE Receive \/ DrainReceive
    BY <1>5, ReceiveCounts DEF Receive, DrainReceive
  <1>6. CASE Tick \/ DrainDone
    BY <1>1, <1>2, <1>6 DEF Tick, DrainDone, shared, history
  <1>7. CASE InsertReturn
    BY <1>7, InsertOkCounts, InsertFailsCounts DEF InsertReturn
  <1>8. CASE SeeStop \/ Exit \/ StartChunk \/ Retry \/ CloseCall \/ CloseTimeout \/ CloseReturn
             \/ UNCHANGED vars
    BY <1>1, <1>8 DEF SeeStop, Exit, StartChunk, Retry, CloseCall, CloseTimeout, CloseReturn,
                      vars, shared, flusher, history
  <1>. QED
    BY <1>3, <1>4, <1>5, <1>6, <1>7, <1>8 DEF Next, Flusher, Terminated

\* The counters that Add and flush bump account for every row, in every state: none is
\* counted twice over the retries of a flush, and none is dropped without being counted.
THEOREM CountersAccount == Spec => []CountersBalance
  <1>1. Init => CountInv
    <2>. SUFFICES ASSUME Init PROVE CountInv
      OBVIOUS
    <2>1. \A o \in Settled : Fated(fate, o) = {}
      BY DEF Init, Fated, Settled
    <2>2. \A o \in Settled : IsFiniteSet(Fated(fate, o)) /\ Count(fate, o) = 0
      BY <2>1, FS_EmptySet DEF Count
    <2>3. Count(fate, "superseded") = 0 /\ Count(fate, "lost") = 0 /\ Count(fate, "refused") = 0
      BY <2>2 DEF Settled, Fates
    <2>4. Holding = 0
      BY DEF Init, Holding
    <2>5. Balanced(metrics, fate, Holding)
      BY <2>3, <2>4 DEF Init, Balanced
    <2>. QED
      BY <2>2, <2>5 DEF CountInv
  <1>2. TypeInv /\ CountInv => CountersBalance
    <2>. SUFFICES ASSUME TypeInv, CountInv PROVE CountersBalance
      OBVIOUS
    <2>1. \A o : WithFate(o) = Count(fate, o)
      BY DEF WithFate, Count, Fated
    <2>2. metrics.enqueued = metrics.flushed + Count(fate, "superseded") + Count(fate, "lost")
                             + Len(ch) + Len(batch) + Len(rows)
      <3>1. metrics.enqueued = metrics.flushed + Count(fate, "superseded") + Count(fate, "lost")
                               + (Len(ch) + Len(batch) + Len(rows))
        BY BalanceNumbers DEF Holding
      <3>2. /\ metrics.flushed \in Nat /\ Count(fate, "superseded") \in Nat /\ Count(fate, "lost") \in Nat
            /\ Len(ch) \in Nat /\ Len(batch) \in Nat /\ Len(rows) \in Nat
        BY CountTypes
      <3>. QED
        BY <3>1, <3>2
    <2>. QED
      BY <2>1, <2>2, BalanceNumbers, Zenon DEF CountersBalance
  <1>. QED
    BY <1>1, <1>2, CountStep, TypeInit, TypeStep, CopiesInit, CopiesStep, PTL DEF Spec

-----------------------------------------------------------------------------
(* IngestBuffer implements RowLifecycle: every step of a handler, of the   *)
(* flusher, of Close and of the store is a step of the abstract            *)
(* specification or leaves its state alone.                                *)
(*                                                                         *)
(* The invariant adds the order of the deliveries to what holds of copies. *)

Held == Range(ch) \cup Range(batch) \cup Range(rows)

\* Of two rows of one query in s, the one further back is newer.
InOrder(s) == \A i, j \in DOMAIN s : i < j /\ s[i].qid = s[j].qid => s[i].ver < s[j].ver

OrderInv ==
    /\ InOrder(ch) /\ InOrder(batch)
    /\ \A i \in DOMAIN batch, j \in DOMAIN ch :
          batch[i].qid = ch[j].qid => batch[i].ver < ch[j].ver

\* Deliveries of a query are offered in their order.
ArrivalInv ==
    \A n, r \in Row : Newer(n, r) /\ Status(r) = "new" => Status(n) = "new"

\* What the current attempt reported is in the table.
WrittenInv == \A r \in Part(rows, 1, committed) : copies[r] > 0

\* What is superseded was replaced by a row that Add accepted.
ReplacedInv ==
    \A r \in Row : fate[r] = "superseded" =>
        \E n \in Row : Newer(n, r) /\ Status(n) \notin {"new", "refused"}

RefinementInv == OrderInv /\ ArrivalInv /\ WrittenInv /\ ReplacedInv

\* What a step that is neither Accept nor Refuse may do to one row.
Moves(r) ==
    /\ copies[r] > 0 => copies'[r] > 0
    /\ copies[r] = 0 /\ copies'[r] > 0 => Status(r) \in {"accepted", "stored", "lost"}
    /\ \/ Status(r)' = Status(r)
       \/ /\ Status(r) = "accepted"
          /\ \/ Status(r)' = "stored" /\ copies'[r] > 0
             \/ Status(r)' = "lost"
             \/ /\ Status(r)' = "superseded" /\ copies'[r] = 0
                /\ \E n \in Row : Newer(n, r) /\ Status(n)' = "accepted"

LEMMA StatusFacts ==
    ASSUME TypeInv, HeldOnce, NEW r \in Row
    PROVE  /\ r \in Held => fate[r] = "none" /\ Status(r) = "accepted"
           /\ r \notin Held /\ fate[r] = "none" => Status(r) = "new"
           /\ fate[r] # "none" => Status(r) = fate[r] /\ r \notin Held
           /\ Status(r) = "new" => fate[r] = "none" /\ r \notin Held
           /\ Status(r) \in {"new", "accepted", "refused", "stored", "superseded", "lost"}
  <1>1. fate[r] \in Fates
    BY DEF TypeInv, TypeOK, RecordType
  <1>2. r \in Held => fate[r] = "none"
    BY DEF HeldOnce, Held
  <1>. QED
    BY <1>1, <1>2 DEF Status, Held, Fates

\* A row that dedupe drops from a batch in order of arrival is replaced by a newer one.
LEMMA DedupeReplaces ==
    ASSUME NEW b \in Seq(Row), InOrder(b), NEW out \in dedupe(b),
           NEW r \in Range(b), r \notin Range(out)
    PROVE  \E n \in Range(out) : Newer(n, r)
  <1>1. PICK k \in DOMAIN b : r = b[k]
    BY DEF Range
  <1>2. PICK i \in DOMAIN out : out[i].qid = b[k].qid
    BY DEF dedupe, IsDedupe
  <1>3. PICK l \in DOMAIN b : out[i] = b[l] /\ LastOfQuery(b, l)
    BY <1>2 DEF dedupe, IsDedupe
  <1>4. out[i] \in Range(out)
    BY DEF Range
  <1>5. l # k
    BY <1>1, <1>3, <1>4
  <1>6. ~(l < k)
    <2>. SUFFICES ASSUME l < k
                  PROVE  FALSE
      OBVIOUS
    <2>1. k \in l + 1..Len(b)
      OBVIOUS
    <2>. QED
      BY <1>2, <1>3, <2>1 DEF LastOfQuery
  <1>7. k < l
    BY <1>5, <1>6
  <1>8. b[k].ver < b[l].ver
    BY <1>2, <1>3, <1>7 DEF InOrder
  <1>9. b[k].ver \in Nat /\ b[l].ver \in Nat
    BY RowAssumption
  <1>10. Newer(out[i], r)
    BY <1>1, <1>2, <1>3, <1>8, <1>9 DEF Newer
  <1>. QED
    BY <1>4, <1>10

LEMMA FlushBeginMoves ==
    ASSUME TypeInv, HeldOnce, CopiesInv, HeldOnce', rows = <<>>,
           NEW b \in Seq(Row), b # <<>>, InOrder(b), NEW back, FlushBegin(b, back),
           Range(ch') \cup Range(b) = Held
    PROVE  \A r \in Row : Moves(r)
  <1>. SUFFICES ASSUME NEW r \in Row
                PROVE  Moves(r)
    OBVIOUS
  <1>1. rows' \in dedupe(b) /\ batch' = <<>> /\ copies' = copies
        /\ fate' = Settle(fate, Range(b) \ Range(rows'), "superseded")
    BY DEF FlushBegin, store
  <1>2. Range(rows') \subseteq Range(b) /\ Range(batch') = {} /\ Range(b) \subseteq Row
    <2>1. Range(rows') \subseteq Range(b)
      BY <1>1, DedupeType
    <2>2. Range(batch') = {} /\ Range(b) \subseteq Row
      BY <1>1 DEF Range
    <2>. QED
      BY <2>1, <2>2
  <1>3. Held' = Range(ch') \cup Range(rows')
    BY <1>2 DEF Held
  <1>4. \A x \in Row : x \in Held' => Status(x)' = "accepted"
    <2>1. \A x \in Held' : fate'[x] = "none"
      BY DEF HeldOnce, Held
    <2>. QED
      BY <2>1 DEF Status, Held
  <1>5. copies[r] \in Nat
    BY DEF TypeInv, TypeOK, RecordType
  <1>6. CASE r \in Held'
    BY <1>1, <1>2, <1>3, <1>4, <1>5, <1>6, StatusFacts DEF Moves
  <1>7. CASE r \in Held /\ r \notin Held'
    <2>1. r \in Range(b) /\ r \notin Range(rows') /\ Status(r) = "accepted" /\ fate[r] = "none"
      BY <1>3, <1>7, StatusFacts
    <2>2. fate'[r] = "superseded"
      BY <1>1, <2>1 DEF Settle
    <2>3. PICK n \in Range(rows') : Newer(n, r)
      BY <1>1, <2>1, DedupeReplaces
    <2>4. n \in Row /\ Status(n)' = "accepted"
      BY <1>2, <1>3, <1>4
    <2>5. copies'[r] = 0
      <3>1. r \notin Range(rows) /\ inDoubt[r] \in Nat
        BY DEF Range, TypeInv, TypeOK, RecordType
      <3>2. copies[r] + inDoubt[r] = 0
        BY <2>1, <3>1 DEF CopiesInv, CopiesOf, Submitted
      <3>. QED
        BY <1>1, <1>5, <3>1, <3>2
    <2>6. Status(r)' = "superseded"
      BY <2>2 DEF Status
    <2>. QED
      BY <1>1, <2>1, <2>3, <2>4, <2>5, <2>6 DEF Moves
  <1>8. CASE r \notin Held /\ r \notin Held'
    <2>1. fate'[r] = fate[r]
      BY <1>1, <1>8 DEF Settle
    <2>2. Status(r)' = Status(r)
      BY <1>8, <2>1 DEF Status, Held
    <2>. QED
      BY <1>1, <1>5, <2>2 DEF Moves
  <1>. QED
    BY <1>6, <1>7, <1>8

LEMMA QuietMoves ==
    ASSUME TypeInv, UNCHANGED <<fate, copies>>, Held' = Held
    PROVE  \A r \in Row : Moves(r)
  <1>1. \A r \in Row : Status(r)' = Status(r) /\ copies[r] \in Nat
    BY DEF Status, Held, TypeInv, TypeOK, RecordType
  <1>. QED
    BY <1>1 DEF Moves

LEMMA InOrderAppend ==
    ASSUME NEW s \in Seq(Row), InOrder(s), NEW x \in Row,
           \A i \in DOMAIN s : s[i].qid = x.qid => s[i].ver < x.ver
    PROVE  InOrder(Append(s, x))
  <1>1. /\ DOMAIN s = 1..Len(s) /\ DOMAIN Append(s, x) = 1..Len(s) + 1 /\ Len(s) \in Nat
        /\ \A i \in 1..Len(s) : Append(s, x)[i] = s[i]
        /\ Append(s, x)[Len(s) + 1] = x
    OBVIOUS
  <1>. SUFFICES ASSUME NEW i \in 1..Len(s) + 1, NEW j \in 1..Len(s) + 1, i < j,
                       Append(s, x)[i].qid = Append(s, x)[j].qid
                PROVE  Append(s, x)[i].ver < Append(s, x)[j].ver
    BY <1>1 DEF InOrder
  <1>2. i \in 1..Len(s)
    BY <1>1
  <1>3. CASE j \in 1..Len(s)
    BY <1>1, <1>2, <1>3 DEF InOrder
  <1>4. CASE j = Len(s) + 1
    BY <1>1, <1>2, <1>4
  <1>. QED
    BY <1>1, <1>3, <1>4

LEMMA InOrderTail ==
    ASSUME NEW s \in Seq(Row), InOrder(s), s # <<>>
    PROVE  /\ InOrder(Tail(s))
           /\ \A j \in DOMAIN Tail(s) : Head(s).qid = Tail(s)[j].qid => Head(s).ver < Tail(s)[j].ver
  <1>1. /\ DOMAIN s = 1..Len(s) /\ Len(s) \in Nat \ {0}
        /\ DOMAIN Tail(s) = 1..Len(s) - 1 /\ Head(s) = s[1]
        /\ \A i \in 1..Len(s) - 1 : Tail(s)[i] = s[i + 1]
    OBVIOUS
  <1>2. ASSUME NEW i \in 1..Len(s) - 1, NEW j \in 1..Len(s) - 1, i < j,
               Tail(s)[i].qid = Tail(s)[j].qid
        PROVE  Tail(s)[i].ver < Tail(s)[j].ver
    <2>1. i + 1 \in DOMAIN s /\ j + 1 \in DOMAIN s /\ i + 1 < j + 1
      BY <1>1, <1>2
    <2>. QED
      BY <1>1, <1>2, <2>1 DEF InOrder
  <1>3. ASSUME NEW j \in 1..Len(s) - 1, Head(s).qid = Tail(s)[j].qid
        PROVE  Head(s).ver < Tail(s)[j].ver
    <2>1. 1 \in DOMAIN s /\ j + 1 \in DOMAIN s /\ 1 < j + 1
      BY <1>1
    <2>. QED
      BY <1>1, <1>3, <2>1 DEF InOrder
  <1>. QED
    BY <1>1, <1>2, <1>3 DEF InOrder

\* Receiving a row keeps the order of the batch and of the channel.
LEMMA ReceiveOrder ==
    ASSUME TypeInv, OrderInv, NEW here \in {"select", "drain"}, ReceiveAt(here)
    PROVE  OrderInv' /\ InOrder(Append(batch, Head(ch)))
  <1>. DEFINE x == Head(ch)
              b == Append(batch, x)
  <1>1. ch \in Seq(Row) /\ ch # <<>> /\ ch' = Tail(ch) /\ batch \in Seq(Row) /\ x \in Row
    BY DEF ReceiveAt, TypeInv, TypeOK, SharedType, FlusherType
  <1>2. 1 \in DOMAIN ch /\ x = ch[1]
    BY <1>1
  <1>3. InOrder(b)
    BY <1>1, <1>2, InOrderAppend DEF OrderInv
  <1>4. /\ InOrder(ch')
        /\ \A j \in DOMAIN ch' : x.qid = ch'[j].qid => x.ver < ch'[j].ver
    BY <1>1, InOrderTail DEF OrderInv
  <1>5. ASSUME batch' = <<>>
        PROVE  OrderInv'
    <2>1. DOMAIN batch' = {}
      BY <1>5
    <2>. QED
      BY <1>3, <1>4, <2>1 DEF OrderInv, InOrder
  <1>6. ASSUME batch' = b
        PROVE  OrderInv'
    <2>1. ASSUME NEW i \in DOMAIN b, NEW j \in DOMAIN ch', b[i].qid = ch'[j].qid
          PROVE  b[i].ver < ch'[j].ver
      <3>1. CASE i \in DOMAIN batch
        <4>1. b[i] = batch[i] /\ j + 1 \in DOMAIN ch /\ ch'[j] = ch[j + 1]
          BY <1>1, <3>1
        <4>. QED
          BY <2>1, <3>1, <4>1 DEF OrderInv
      <3>2. CASE i \notin DOMAIN batch
        <4>1. b[i] = x
          BY <1>1, <3>2
        <4>. QED
          BY <1>4, <2>1, <4>1
      <3>. QED
        BY <3>1, <3>2
    <2>. HIDE DEF b
    <2>. QED
      <3>1. InOrder(batch') /\ InOrder(ch')
        BY <1>3, <1>4, <1>6
      <3>2. \A i \in DOMAIN batch', j \in DOMAIN ch' :
               batch'[i].qid = ch'[j].qid => batch'[i].ver < ch'[j].ver
        BY <1>6, <2>1
      <3>. QED
        BY <3>1, <3>2 DEF OrderInv, InOrder
  <1>. QED
    BY <1>3, <1>5, <1>6 DEF ReceiveAt, Collect, FlushBegin

LEMMA ReceiveMoves ==
    ASSUME TypeInv, HeldOnce, CopiesInv, OrderInv, HeldOnce',
           NEW here \in {"select", "drain"}, ReceiveAt(here)
    PROVE  \A r \in Row : Moves(r)
  <1>. DEFINE x == Head(ch)
              b == Append(batch, x)
  <1>1. ch \in Seq(Row) /\ ch # <<>> /\ ch' = Tail(ch) /\ batch \in Seq(Row) /\ x \in Row
    BY DEF ReceiveAt, TypeInv, TypeOK, SharedType, FlusherType
  <1>2. rows = <<>> /\ Range(rows) = {}
    BY DEF ReceiveAt, TypeInv, FlusherInv, Flushing, Range
  <1>3. Range(ch) = Range(ch') \cup {x}
    <2>1. Range(ch') \subseteq Range(ch) /\ x \in Range(ch)
      BY <1>1, RangeTail
    <2>2. ASSUME NEW i \in 1..Len(ch)
          PROVE  ch[i] \in Range(ch') \cup {x}
      <3>1. CASE i = 1
        BY <1>1, <3>1
      <3>2. CASE i # 1
        <4>1. i - 1 \in DOMAIN ch' /\ ch'[i - 1] = ch[i]
          BY <1>1, <3>2
        <4>. QED
          BY <4>1 DEF Range
      <3>. QED
        BY <3>1, <3>2
    <2>3. DOMAIN ch = 1..Len(ch)
      BY <1>1
    <2>. HIDE DEF x
    <2>4. Range(ch) \subseteq Range(ch') \cup {x}
      BY <2>2, <2>3 DEF Range
    <2>. QED
      BY <2>1, <2>4
  <1>4. Range(b) = Range(batch) \cup {x} /\ b \in Seq(Row) /\ b # <<>>
    BY <1>1, RangeAppend, SMTT(30)
  <1>5. Range(ch') \cup Range(b) = Held
    BY <1>2, <1>3, <1>4 DEF Held
  <1>6. InOrder(b) /\ Collect(b, here)
    BY ReceiveOrder DEF ReceiveAt
  <1>. HIDE DEF b
  <1>7. CASE FlushBegin(b, here)
    BY <1>2, <1>4, <1>5, <1>6, <1>7, FlushBeginMoves
  <1>8. CASE /\ Len(b) < BatchSize
             /\ batch' = b
             /\ UNCHANGED <<pc, resume, rows, attempt, committed, chunk,
                            metrics, store, history>>
    <2>1. Held' = Held /\ UNCHANGED <<fate, copies>>
      BY <1>2, <1>5, <1>8 DEF Held, store, history
    <2>. QED
      BY <2>1, QuietMoves
  <1>. QED
    BY <1>6, <1>7, <1>8 DEF Collect

-----------------------------------------------------------------------------
(* The steps of insert.                                                    *)

LEMMA InsertOkMoves ==
    ASSUME TypeInv, HeldOnce, CopiesInv, WrittenInv, InsertOk
    PROVE  (\A r \in Row : Moves(r)) /\ WrittenInv'
  <1>. DEFINE c == committed + chunk
              A == Part(rows, 1, committed)
              P == Part(rows, committed + 1, c)
  <1>1. /\ rows \in Seq(Row) /\ Len(rows) \in Nat /\ committed \in Nat /\ c \in Nat
        /\ committed <= c /\ c <= Len(rows)
    BY DEF TypeInv, TypeOK, FlusherType
  <1>2. copies' = Bump(copies, P) /\ ch' = ch /\ batch' = batch
    BY DEF InsertOk, shared
  <1>3. \/ /\ c < Len(rows) /\ committed' = c /\ rows' = rows /\ fate' = fate
        \/ /\ c = Len(rows) /\ fate' = Settle(fate, Range(rows), "stored")
           /\ rows' = <<>> /\ committed' = 0
    BY DEF InsertOk, FlushReturn
  <1>4. Part(rows, 1, c) = A \cup P
    BY <1>1, PartSplit
  <1>5. Range(rows) = Part(rows, 1, Len(rows)) /\ Range(rows) \subseteq Row
    BY <1>1, PartRange DEF Range
  <1>6. P \subseteq Range(rows) /\ A \subseteq Range(rows)
    BY <1>1, PartsDisjoint DEF HeldOnce
  <1>7. copies \in [Row -> Nat]
    BY DEF TypeInv, TypeOK, RecordType
  <1>8. WrittenInv => \A r \in A : copies[r] > 0
    BY DEF WrittenInv
  <1>9. Part(<<>>, 1, 0) = {} /\ Range(<<>>) = {}
    BY DEF Part, Range
  <1>. HIDE DEF A, P
  <1>10. \A r \in A \cup P : copies'[r] > 0
    BY <1>2, <1>5, <1>6, <1>7, <1>8 DEF Bump
  <1>11. \A r \in Row : copies'[r] \in Nat /\ copies'[r] >= copies[r]
                        /\ (copies'[r] > copies[r] => r \in P)
    BY <1>2, <1>7 DEF Bump
  <1>12. WrittenInv'
    BY <1>3, <1>4, <1>9, <1>10 DEF WrittenInv
  <1>13. ASSUME NEW r \in Row
         PROVE  Moves(r)
    <2>1. copies[r] \in Nat /\ (copies[r] = 0 /\ copies'[r] > 0 => Status(r) = "accepted")
      BY <1>6, <1>7, <1>11, StatusFacts DEF Held
    <2>2. copies[r] > 0 => copies'[r] > 0
      BY <1>7, <1>11
    <2>3. CASE fate' = fate /\ rows' = rows
      <3>1. Status(r)' = Status(r)
        BY <1>2, <2>3 DEF Status
      <3>. QED
        BY <2>1, <2>2, <3>1 DEF Moves
    <2>4. CASE c = Len(rows) /\ fate' = Settle(fate, Range(rows), "stored") /\ rows' = <<>>
      <3>1. CASE r \in Range(rows)
        <4>1. Status(r) = "accepted" /\ copies'[r] > 0
          BY <1>4, <1>5, <1>10, <2>4, <3>1, StatusFacts DEF Held
        <4>2. fate'[r] = "stored"
          BY <2>4, <3>1 DEF Settle
        <4>3. Status(r)' = "stored"
          BY <4>2 DEF Status
        <4>. QED
          BY <2>1, <2>2, <4>1, <4>3 DEF Moves
      <3>2. CASE r \notin Range(rows)
        <4>1. fate'[r] = fate[r] /\ Range(rows') = {}
          BY <1>9, <2>4, <3>2 DEF Settle
        <4>2. Status(r)' = Status(r)
          BY <1>2, <3>2, <4>1 DEF Status
        <4>. QED
          BY <2>1, <2>2, <4>2 DEF Moves
      <3>. QED
        BY <3>1, <3>2
    <2>. QED
      BY <1>3, <2>3, <2>4
  <1>. QED
    BY <1>12, <1>13

LEMMA InsertFailsMoves ==
    ASSUME TypeInv, HeldOnce, CopiesInv, WrittenInv,
           NEW err \in {"retryable", "nonretryable"},
           NEW k \in 0..BatchSize, NEW m \in 0..BatchSize, InsertFails(err, k, m)
    PROVE  (\A r \in Row : Moves(r)) /\ WrittenInv'
  <1>. DEFINE c == committed + k
              A == Part(rows, 1, committed)
              P == Part(rows, committed + 1, c)
              Q == Part(rows, c + 1, Len(rows))
              done == Settle(fate, Part(rows, 1, c), "stored")
  <1>1. /\ rows \in Seq(Row) /\ Len(rows) \in Nat /\ committed \in Nat /\ c \in Nat
        /\ committed <= c /\ c < Len(rows)
    BY BatchSizeAssumption DEF TypeInv, TypeOK, FlusherType, InsertFails
  <1>2. copies' = Bump(copies, P) /\ ch' = ch /\ batch' = batch
    BY DEF InsertFails, shared
  <1>3. Range(Remainder(c)) = Q
    BY <1>1, RemainderInjective DEF HeldOnce, TypeInv, TypeOK
  <1>4. /\ committed' = 0
        /\ \/ fate' = Settle(done, Q, "lost") /\ rows' = <<>>
           \/ fate' = done /\ rows' = Remainder(c)
    BY <1>3 DEF InsertFails, FlushReturn
  <1>5. Part(rows, 1, c) = A \cup P
    <2>. HIDE DEF c
    <2>1. /\ 1 <= committed + 1 /\ 1 \in Nat /\ committed \in Nat /\ c \in Nat
          /\ committed <= c /\ rows \in Seq(Row)
      BY <1>1
    <2>2. Part(rows, 1, c) = Part(rows, 1, committed) \cup Part(rows, committed + 1, c)
      BY <2>1, PartSplit
    <2>. QED
      BY <2>2
  <1>6. Range(rows) = Part(rows, 1, c) \cup Q
    <2>1. Range(rows) = Part(rows, 1, Len(rows))
      BY <1>1, PartRange
    <2>2. Part(rows, 1, Len(rows)) = Part(rows, 1, c) \cup Q
      BY <1>1, PartSplit
    <2>. QED
      BY <2>1, <2>2
  <1>7. Part(rows, 1, c) \cap Q = {} /\ Range(rows) \subseteq Row
    BY <1>1, PartsDisjoint DEF HeldOnce, Range
  <1>8. copies \in [Row -> Nat] /\ Range(<<>>) = {}
    BY DEF TypeInv, TypeOK, RecordType, Range
  <1>9. \A r \in A : copies[r] > 0
    BY DEF WrittenInv
  <1>10. WrittenInv'
    BY <1>4 DEF WrittenInv, Part
  <1>. HIDE DEF A, P, Q
  <1>11. \A r \in A \cup P : copies'[r] > 0
    BY <1>2, <1>5, <1>6, <1>7, <1>8, <1>9 DEF Bump
  <1>12. \A r \in Row : copies'[r] \in Nat /\ copies'[r] >= copies[r]
                        /\ (copies'[r] > copies[r] => r \in P)
    BY <1>2, <1>8 DEF Bump
  <1>13. ASSUME NEW r \in Row
         PROVE  Moves(r)
    <2>1. copies[r] \in Nat /\ (copies[r] = 0 /\ copies'[r] > 0 => Status(r) = "accepted")
      BY <1>5, <1>6, <1>8, <1>12, StatusFacts DEF Held
    <2>2. copies[r] > 0 => copies'[r] > 0
      BY <1>8, <1>12
    <2>3. r \in Range(rows) => Status(r) = "accepted" /\ fate[r] = "none"
      BY StatusFacts DEF Held
    <2>4. CASE r \in A \cup P
      <3>1. fate'[r] = "stored"
        BY <1>4, <1>5, <1>7, <2>4 DEF Settle
      <3>2. Status(r)' = "stored"
        BY <3>1 DEF Status
      <3>. QED
        BY <1>5, <1>6, <1>11, <2>1, <2>2, <2>3, <2>4, <3>2 DEF Moves
    <2>5. CASE r \in Q
      <3>1. fate'[r] = "lost" \/ (fate'[r] = "none" /\ r \in Range(rows'))
        BY <1>3, <1>4, <1>6, <1>7, <2>3, <2>5 DEF Settle
      <3>2. Status(r)' = "lost" \/ Status(r)' = "accepted"
        BY <3>1 DEF Status
      <3>. QED
        BY <1>6, <2>1, <2>2, <2>3, <2>5, <3>2 DEF Moves
    <2>6. CASE r \notin Range(rows)
      <3>1. fate'[r] = fate[r] /\ r \notin Range(rows')
        BY <1>3, <1>4, <1>6, <1>8, <2>6 DEF Settle
      <3>2. Status(r)' = Status(r)
        BY <1>2, <2>6, <3>1 DEF Status
      <3>. QED
        BY <2>1, <2>2, <3>2 DEF Moves
    <2>. QED
      BY <1>5, <1>6, <2>4, <2>5, <2>6
  <1>. QED
    BY <1>10, <1>13

-----------------------------------------------------------------------------
(* Every step.                                                             *)

\* The effect of Add on the row it is given.
AddEffect(x) ==
    /\ Status(x) = "new" /\ Status(x)' \in {"accepted", "refused"}
    /\ \A r \in Row \ {x} : Status(r)' = Status(r)
    /\ copies' = copies

LEMMA AddSteps ==
    ASSUME TypeInv, HeldOnce, OrderInv, ArrivalInv, WrittenInv, NEW x \in Row, Add(x)
    PROVE  AddEffect(x) /\ OrderInv' /\ WrittenInv'
  <1>1. Status(x) = "new" /\ fate[x] = "none" /\ x \notin Held
    BY StatusFacts DEF Add, Arrives
  <1>2. UNCHANGED <<batch, rows, committed, copies>> /\ ch \in Seq(Row) /\ batch \in Seq(Row)
    BY DEF Add, flusher, store, TypeInv, TypeOK, SharedType, FlusherType
  <1>3. WrittenInv'
    BY <1>2 DEF WrittenInv
  <1>4. CASE AddEnqueue(x)
    <2>1. Range(ch') = Range(ch) \cup {x} /\ fate' = fate /\ ch' = Append(ch, x)
      BY <1>2, <1>4, RangeAppend DEF AddEnqueue
    <2>2. AddEffect(x)
      BY <1>1, <1>2, <2>1 DEF AddEffect, Status, Held
    <2>3. ASSUME NEW o \in Held, o.qid = x.qid
          PROVE  o.ver < x.ver
      <3>1. o \in Row
        BY <1>2 DEF Held, Range, TypeInv, TypeOK, FlusherType
      <3>2. Status(o) = "accepted"
        BY <3>1, StatusFacts
      <3>3. ~Newer(o, x)
        BY <1>1, <3>1, <3>2 DEF ArrivalInv
      <3>4. o.ver \in Nat /\ x.ver \in Nat /\ o # x /\ o.ver # x.ver
        BY <1>1, <2>3, <3>1, RowAssumption
      <3>. QED
        BY <2>3, <3>3, <3>4 DEF Newer
    <2>4. InOrder(ch')
      <3>1. \A i \in DOMAIN ch : ch[i] \in Held
        BY DEF Held, Range
      <3>. QED
        BY <1>2, <2>1, <2>3, <3>1, InOrderAppend DEF OrderInv
    <2>5. ASSUME NEW i \in DOMAIN batch, NEW j \in DOMAIN ch', batch[i].qid = ch'[j].qid
          PROVE  batch[i].ver < ch'[j].ver
      <3>1. CASE j \in DOMAIN ch
        <4>1. ch'[j] = ch[j]
          BY <1>2, <2>1, <3>1
        <4>. QED
          BY <2>5, <3>1, <4>1 DEF OrderInv
      <3>2. CASE j \notin DOMAIN ch
        <4>1. ch'[j] = x
          BY <1>2, <2>1, <3>2
        <4>2. batch[i] \in Held
          BY DEF Held, Range
        <4>. QED
          BY <2>3, <2>5, <4>1, <4>2
      <3>. QED
        BY <3>1, <3>2
    <2>6. OrderInv'
      BY <1>2, <2>4, <2>5 DEF OrderInv, InOrder
    <2>. QED
      BY <1>3, <2>2, <2>6
  <1>5. CASE AddRefuse(x)
    <2>1. ch' = ch /\ \A r \in Row : fate'[r] = IF r = x THEN "refused" ELSE fate[r]
      BY <1>5 DEF AddRefuse, Settle
    <2>2. AddEffect(x)
      BY <1>1, <1>2, <2>1 DEF AddEffect, Status, Held
    <2>3. OrderInv'
      BY <1>2, <2>1 DEF OrderInv
    <2>. QED
      BY <1>3, <2>2, <2>3
  <1>. QED
    BY <1>4, <1>5 DEF Add

\* A step is an Add, or moves rows as the flusher may.
LEMMA StepEffect ==
    ASSUME TypeInv, HeldOnce, CopiesInv, RefinementInv, [Next]_vars, HeldOnce'
    PROVE  /\ \/ \E x \in Row : Add(x) /\ AddEffect(x)
              \/ \A r \in Row : Moves(r)
           /\ OrderInv' /\ WrittenInv'
  <1>. DEFINE Goal == /\ \/ \E x \in Row : Add(x) /\ AddEffect(x)
                         \/ \A r \in Row : Moves(r)
                      /\ OrderInv' /\ WrittenInv'
  <1>. USE DEF RefinementInv
  <1>1. ASSUME NEW x \in Row, Add(x)
        PROVE  Goal
    BY <1>1, AddSteps
  <1>2. ASSUME NEW x \in Row, LateCommit(x)
        PROVE  Goal
    <2>1. UNCHANGED <<ch, batch, rows, committed, fate>>
      BY <1>2 DEF LateCommit, shared, flusher, history
    <2>2. /\ inDoubt[x] > 0 /\ copies' = [copies EXCEPT ![x] = @ + 1]
          /\ copies \in [Row -> Nat] /\ inDoubt \in [Row -> Nat]
      BY <1>2 DEF LateCommit, TypeInv, TypeOK, RecordType
    <2>3. \A r \in Row : copies'[r] \in Nat /\ copies'[r] >= copies[r]
                         /\ (r # x => copies'[r] = copies[r])
      BY <2>2
    <2>4. Status(x) \in {"accepted", "stored", "lost"}
      <3>1. Submitted(x) # 0
        BY <2>2 DEF Submitted
      <3>2. fate[x] \notin {"refused", "superseded"} /\ (fate[x] = "none" => x \in Range(rows))
        BY <3>1 DEF CopiesInv, CopiesOf
      <3>3. fate[x] # "none" => Status(x) = fate[x] /\ fate[x] \in Fates
        BY StatusFacts DEF TypeInv, TypeOK, RecordType
      <3>4. x \in Range(rows) => Status(x) = "accepted"
        BY StatusFacts DEF Held
      <3>. QED
        BY <3>2, <3>3, <3>4 DEF Fates
    <2>5. \A r \in Row : Status(r)' = Status(r)
      BY <2>1 DEF Status
    <2>6. \A r \in Row : Moves(r)
      BY <2>2, <2>3, <2>4, <2>5 DEF Moves
    <2>7. OrderInv'
      BY <2>1 DEF OrderInv
    <2>8. WrittenInv'
      <3>1. Part(rows, 1, committed) \subseteq Row
        BY DEF Part, TypeInv, TypeOK, FlusherType
      <3>. QED
        BY <2>1, <2>2, <2>3, <3>1 DEF WrittenInv
    <2>. QED
      BY <2>6, <2>7, <2>8
  <1>3. ASSUME NEW here \in {"select", "drain"}, ReceiveAt(here)
        PROVE  Goal
    <2>1. OrderInv' /\ \A r \in Row : Moves(r)
      BY <1>3, ReceiveOrder, ReceiveMoves
    <2>2. WrittenInv'
      <3>1. rows = <<>> /\ committed = 0 /\ committed' = 0
        BY <1>3 DEF ReceiveAt, Collect, FlushBegin, TypeInv, TypeOK, FlusherInv, Flushing,
                    FlusherType
      <3>. QED
        BY <3>1 DEF WrittenInv, Part
    <2>. QED
      BY <2>1, <2>2
  <1>4. ASSUME NEW back, batch # <<>>, FlushBegin(batch, back), ~Flushing, ch' = ch
        PROVE  Goal
    <2>1. rows = <<>> /\ batch \in Seq(Row) /\ Range(rows) = {}
      BY <1>4 DEF TypeInv, TypeOK, FlusherInv, FlusherType, Range
    <2>2. Range(ch') \cup Range(batch) = Held
      BY <1>4, <2>1 DEF Held
    <2>3. \A r \in Row : Moves(r)
      BY <1>4, <2>1, <2>2, FlushBeginMoves DEF OrderInv
    <2>4. OrderInv'
      <3>1. batch' = <<>> /\ DOMAIN batch' = {}
        BY <1>4 DEF FlushBegin
      <3>. QED
        BY <1>4, <3>1 DEF OrderInv, InOrder
    <2>5. WrittenInv'
      BY <1>4 DEF WrittenInv, FlushBegin, Part
    <2>. QED
      BY <2>3, <2>4, <2>5
  <1>5. ASSUME UNCHANGED <<ch, batch, rows, committed, copies, fate>>
        PROVE  Goal
    <2>1. \A r \in Row : Moves(r)
      BY <1>5, QuietMoves DEF Held
    <2>. QED
      BY <1>5, <2>1 DEF OrderInv, WrittenInv
  <1>6. CASE Tick
    BY <1>4, <1>6 DEF Tick, Flushing, shared
  <1>7. CASE DrainDone
    BY <1>4, <1>5, <1>7 DEF DrainDone, Flushing, shared, store, history
  <1>8. CASE InsertReturn
    <2>1. (\A r \in Row : Moves(r)) /\ WrittenInv'
      BY <1>8, InsertOkMoves, InsertFailsMoves DEF InsertReturn
    <2>2. ch' = ch /\ batch' = batch
      BY <1>8 DEF InsertReturn, InsertOk, InsertFails, shared
    <2>. QED
      BY <2>1, <2>2 DEF OrderInv
  <1>9. CASE SeeStop \/ Exit \/ StartChunk \/ Retry
    BY <1>5, <1>9 DEF SeeStop, Exit, StartChunk, Retry, shared, store, history
  <1>10. CASE CloseCall \/ CloseTimeout \/ CloseReturn
    BY <1>5, <1>10 DEF CloseCall, CloseTimeout, CloseReturn, shared, flusher, store, history
  <1>11. CASE UNCHANGED vars
    BY <1>5, <1>11 DEF vars, shared, flusher, store, history
  <1>. QED
    BY <1>1, <1>2, <1>3, <1>6, <1>7, <1>8, <1>9, <1>10, <1>11
       DEF Next, Flusher, Receive, DrainReceive, Terminated

LEMMA RefinementStep ==
    ASSUME TypeInv, HeldOnce, CopiesInv, RefinementInv, [Next]_vars, TypeInv', HeldOnce'
    PROVE  RefinementInv'
  <1>1. OrderInv' /\ WrittenInv'
    BY StepEffect
  <1>2. CASE \E x \in Row : Add(x) /\ AddEffect(x)
    <2>1. PICK x \in Row : Add(x) /\ AddEffect(x)
      BY <1>2
    <2>2. ArrivalInv'
      <3>. SUFFICES ASSUME NEW n \in Row, NEW r \in Row, Newer(n, r), Status(r)' = "new"
                    PROVE  Status(n)' = "new"
        BY DEF ArrivalInv, Newer
      <3>1. r # x /\ Status(r) = "new"
        BY <2>1 DEF AddEffect
      <3>2. n # x
        BY <2>1, <3>1 DEF Add, Arrives
      <3>3. Status(n) = "new"
        BY <3>1 DEF RefinementInv, ArrivalInv
      <3>. QED
        BY <2>1, <3>2, <3>3 DEF AddEffect
    <2>3. ReplacedInv'
      <3>. SUFFICES ASSUME NEW r \in Row, fate'[r] = "superseded"
                    PROVE  \E n \in Row : Newer(n, r) /\ Status(n)' \notin {"new", "refused"}
        BY DEF ReplacedInv, Newer
      <3>1. fate[r] = "superseded"
        BY <2>1 DEF Add, AddEnqueue, AddRefuse, Settle
      <3>2. PICK n \in Row : Newer(n, r) /\ Status(n) \notin {"new", "refused"}
        BY <3>1 DEF RefinementInv, ReplacedInv
      <3>3. Status(n)' = Status(n)
        BY <2>1, <3>2 DEF AddEffect
      <3>. QED
        BY <3>2, <3>3
    <2>. QED
      BY <1>1, <2>2, <2>3 DEF RefinementInv
  <1>3. CASE \A r \in Row : Moves(r)
    <2>1. \A r \in Row : (Status(r)' = "new" <=> Status(r) = "new")
      BY <1>3 DEF Moves
    <2>2. \A r \in Row : Status(r)' = "refused" => Status(r) = "refused"
      BY <1>3 DEF Moves
    <2>3. ArrivalInv'
      BY <2>1 DEF RefinementInv, ArrivalInv, Newer
    <2>4. ReplacedInv'
      <3>. SUFFICES ASSUME NEW r \in Row, fate'[r] = "superseded"
                    PROVE  \E n \in Row : Newer(n, r) /\ Status(n)' \notin {"new", "refused"}
        BY DEF ReplacedInv, Newer
      <3>1. Status(r)' = "superseded"
        BY DEF Status
      <3>2. CASE Status(r) = "superseded"
        <4>1. fate[r] = "superseded"
          BY <3>2, StatusFacts
        <4>2. PICK n \in Row : Newer(n, r) /\ Status(n) \notin {"new", "refused"}
          BY <4>1 DEF RefinementInv, ReplacedInv
        <4>. QED
          BY <2>1, <2>2, <4>2
      <3>3. CASE Status(r) # "superseded"
        <4>1. PICK n \in Row : Newer(n, r) /\ Status(n)' = "accepted"
          BY <1>3, <3>1, <3>3 DEF Moves
        <4>. QED
          BY <4>1
      <3>. QED
        BY <3>2, <3>3
    <2>. QED
      BY <1>1, <2>3, <2>4 DEF RefinementInv
  <1>. QED
    BY <1>2, <1>3, StepEffect

LEMMA RefinementInit == Init => RefinementInv
  <1>. SUFFICES ASSUME Init
                PROVE  RefinementInv
    OBVIOUS
  <1>1. \A r \in Row : Status(r) = "new"
    BY EmptyRows DEF Init, Status
  <1>2. OrderInv
    BY DEF Init, OrderInv, InOrder
  <1>3. WrittenInv
    BY DEF Init, WrittenInv, Part
  <1>4. ReplacedInv
    BY DEF Init, ReplacedInv
  <1>. QED
    BY <1>1, <1>2, <1>3, <1>4 DEF RefinementInv, ArrivalInv

\* dedupe gives up a row only for a newer delivery of its query that Add accepted,
\* and no InsertBatch carried or will carry the row.
THEOREM SupersededIsReplaced == Spec => []SupersededByNewer
  <1>1. TypeInv /\ CopiesInv /\ RefinementInv => SupersededByNewer
    <2>. SUFFICES ASSUME TypeInv, CopiesInv, RefinementInv,
                         NEW r \in Row, fate[r] = "superseded"
                  PROVE  /\ copies[r] = 0 /\ inDoubt[r] = 0
                         /\ \E n \in Row : Newer(n, r) /\ Status(n) \notin {"new", "refused"}
      BY DEF SupersededByNewer
    <2>1. copies[r] \in Nat /\ inDoubt[r] \in Nat /\ Submitted(r) = 0
      BY DEF TypeInv, TypeOK, RecordType, CopiesInv, CopiesOf
    <2>. QED
      BY <2>1 DEF Submitted, RefinementInv, ReplacedInv
  <1>2. TypeInv /\ HeldOnce /\ CopiesInv /\ RefinementInv /\ [Next]_vars
          /\ TypeInv' /\ HeldOnce' => RefinementInv'
    BY RefinementStep
  <1>. QED
    BY <1>1, <1>2, TypeInit, TypeStep, CopiesInit, CopiesStep, RefinementInit, PTL DEF Spec

-----------------------------------------------------------------------------
(* The refinement.                                                         *)

LEMMA LifecycleInit == Init => Lifecycle!Init
  <1>. SUFFICES ASSUME Init
                PROVE  Lifecycle!Init
    OBVIOUS
  <1>1. \A r \in Row : Status(r) = "new" /\ copies[r] = 0
    BY EmptyRows DEF Init, Status
  <1>. QED
    BY <1>1 DEF Lifecycle!Init

LEMMA LifecycleStep ==
    ASSUME TypeInv, HeldOnce, CopiesInv, RefinementInv, [Next]_vars, TypeInv', HeldOnce'
    PROVE  Lifecycle!Next
  <1>1. CASE \E x \in Row : Add(x) /\ AddEffect(x)
    <2>1. PICK x \in Row : AddEffect(x)
      BY <1>1
    <2>2. {r \in Row : copies[r] > 0}' = {r \in Row : copies[r] > 0}
      BY <2>1 DEF AddEffect
    <2>3. [r \in Row |-> Status(r)]' =
             [[r \in Row |-> Status(r)] EXCEPT ![x] = Status(x)']
      BY <2>1 DEF AddEffect
    <2>4. [r \in Row |-> Status(r)][x] = "new"
      BY <2>1 DEF AddEffect
    <2>5. CASE Status(x)' = "accepted"
      BY <2>2, <2>3, <2>4, <2>5 DEF Lifecycle!Next, Lifecycle!Accept
    <2>6. CASE Status(x)' = "refused"
      BY <2>2, <2>3, <2>4, <2>6 DEF Lifecycle!Next, Lifecycle!Refuse
    <2>. QED
      BY <2>1, <2>5, <2>6 DEF AddEffect
  <1>2. CASE \A r \in Row : Moves(r)
    <2>1. \A r \in Row : copies[r] \in Nat /\ copies'[r] \in Nat
      BY DEF TypeInv, TypeOK, RecordType
    <2>2. \A r \in Row : Status(r)' \in Lifecycle!Statuses
      <3>1. TypeInv' /\ HeldOnce' =>
              \A r \in Row : Status(r)' \in Lifecycle!Statuses
        BY DEF TypeInv, TypeOK, RecordType, Fates, Status, Lifecycle!Statuses
      <3>. QED
        BY <3>1
    <2>3. {r \in Row : copies[r] > 0} \subseteq {r \in Row : copies[r] > 0}'
      BY <1>2 DEF Moves
    <2>4. {r \in Row : copies[r] > 0}' \ {r \in Row : copies[r] > 0} \subseteq Lifecycle!Writable
      BY <1>2, <2>1 DEF Moves, Lifecycle!Writable
    <2>5. ASSUME NEW r \in Row
          PROVE  Lifecycle!Settles(r)
      <3>1. Moves(r)
        BY <1>2
      <3>. QED
        BY <2>1, <3>1 DEF Moves, Lifecycle!Settles, Lifecycle!Newer, Newer
    <2>. QED
      BY <2>2, <2>3, <2>4, <2>5 DEF Lifecycle!Next, Lifecycle!Progress
  <1>. QED
    BY <1>1, <1>2, StepEffect

\* The ingest buffer keeps the promise of RowLifecycle: Add, the flusher with its
\* retries, Close and late commits of the store only do what that specification allows.
THEOREM BufferImplementsLifecycle == Spec => RefinesLifecycle
  <1>1. TypeInv /\ HeldOnce /\ CopiesInv /\ RefinementInv /\ [Next]_vars
          /\ TypeInv' /\ HeldOnce' => RefinementInv' /\ [Lifecycle!Next]_(Lifecycle!vars)
    BY RefinementStep, LifecycleStep
  <1>. QED
    BY <1>1, TypeInit, TypeStep, CopiesInit, CopiesStep, RefinementInit, LifecycleInit, PTL
       DEF Spec, RefinesLifecycle, Lifecycle!Spec
=============================================================================
