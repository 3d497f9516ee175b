---------------------------- MODULE Serve_proofs ----------------------------
(***************************************************************************)
(* Theorems about Serve, for every number of requests and every            *)
(* environment the process may be started in.                              *)
(***************************************************************************)
EXTENDS Serve, FiniteSetTheorems, TLAPS

-----------------------------------------------------------------------------
(* The inductive invariant.                                                *)

Counts == [received : Nat, invalid : Nat, suppressed : Nat, offered : Nat, flushed : Nat, dropped : Nat]

TypeOK ==
    /\ ingest \in BOOLEAN /\ signalled \in BOOLEAN /\ timedOut \in BOOLEAN /\ ready \in BOOLEAN
    /\ logged \in BOOLEAN /\ cancelled \in BOOLEAN
    /\ main \in {"loading", "opening", "serving", "marking", "shutdown", "closing", "returning", "returned"}
    /\ exit \in {0, 1} /\ store \in {"none", "open", "closed"}
    /\ buffer \in {"none", "open", "closing", "emptied", "drained"}
    /\ pending \in Nat /\ left \in Nat /\ spoiled \in Nat /\ cutShort \in Nat /\ afterDrain \in Nat
    /\ request \in [Requests -> {"none", "decoding", "adding", "answered"}]
    /\ count \in Counts
    /\ probe \in {"none", "waiting", "validating", "doomed", "stopped"}

\* The order of the shutdown: the store is closed last, the buffer is closed once
\* Shutdown has ended, and a process that returns without an error has drained it.
OrderInv ==
    /\ main \in {"loading", "opening"} => buffer = "none" /\ exit = 0
    /\ main \in {"serving", "marking", "shutdown"} => buffer = IF ingest THEN "open" ELSE "none"
    /\ main = "closing" => buffer \in IF ingest THEN {"closing", "emptied", "drained"} ELSE {"none"}
    /\ main \in {"returning", "returned"} /\ exit = 0 => buffer \in {"none", "drained"}
    /\ buffer \in {"closing", "emptied", "drained"} => main \in {"closing", "returning", "returned"}
    /\ main \notin {"returning", "returned"} => exit = 0
    /\ store = "closed" => main \in {"returning", "returned"}
    /\ main \in {"marking", "shutdown", "closing"} => signalled

\* Who may still bring rows, and what became of the ones that came.
RowsInv ==
    /\ buffer = "none" => pending = 0 /\ \A q \in Requests : request[q] = "none"
    /\ buffer \in {"closing", "emptied", "drained"} /\ ~timedOut => \A q \in Requests : ~Active(q)
    /\ buffer = "drained" => pending = 0
    /\ left > 0 => afterDrain > 0
    /\ exit = 0 => spoiled = 0
    /\ cutShort > 0 => cancelled
    /\ cancelled => main = "closing" \/ (main \in {"returning", "returned"} /\ logged)
    /\ afterDrain > 0 => timedOut /\ main \in {"closing", "returning", "returned"}

ServeInv == TypeOK /\ OrderInv /\ RowsInv /\ AtMostOneRevival

-----------------------------------------------------------------------------
(* The steps.                                                              *)

LEMMA ServeInit == Init => ServeInv
  <1>. SUFFICES ASSUME Init PROVE ServeInv
    OBVIOUS
  <1>1. /\ request \in [Requests -> {"none", "decoding", "adding", "answered"}]
        /\ \A q \in Requests : request[q] = "none"
    BY DEF Init
  <1>2. count \in Counts
    BY DEF Init, Counts
  <1>3. TypeOK
    BY <1>1, <1>2 DEF Init, TypeOK
  <1>4. OrderInv /\ RowsInv /\ AtMostOneRevival
    BY <1>1 DEF Init, OrderInv, RowsInv, AtMostOneRevival
  <1>. QED
    BY <1>3, <1>4 DEF ServeInv

\* The flusher takes rows out as long as the buffer is not drained.
LEMMA FlusherStep ==
    ASSUME ServeInv, Flusher
    PROVE  ServeInv'
  <1>1. CASE DrainDone \/ Drained
    BY <1>1 DEF DrainDone, Drained, ServeInv, TypeOK, OrderInv, RowsInv, AtMostOneRevival,
       Running, Active, settings, procVars, rowVars, httpVars, probeVars, backend
  <1>2. ASSUME NEW n \in 1..pending, Flush(n)
        PROVE  ServeInv'
    <2>1. pending' \in Nat /\ pending > 0 /\ pending \in Nat
      BY <1>2 DEF Flush, ServeInv, TypeOK
    <2>2. count' \in Counts
      BY <1>2 DEF Flush, ServeInv, TypeOK, Counts
    <2>. QED
      BY <1>2, <2>1, <2>2 DEF Flush, ServeInv, TypeOK, OrderInv, RowsInv, AtMostOneRevival,
         Active, settings, procVars, probeVars
  <1>3. ASSUME NEW n \in 1..pending, GiveUp(n)
        PROVE  ServeInv'
    <2>1. pending' \in Nat /\ pending > 0 /\ pending \in Nat /\ spoiled' \in Nat /\ cutShort' \in Nat
      BY <1>3 DEF GiveUp, ServeInv, TypeOK
    <2>2. count' \in Counts
      BY <1>3 DEF GiveUp, ServeInv, TypeOK, Counts
    <2>3. store = "closed" => exit # 0
      BY <1>3 DEF GiveUp, ServeInv, OrderInv
    <2>. QED
      BY <1>3, <2>1, <2>2, <2>3 DEF GiveUp, ServeInv, TypeOK, OrderInv, RowsInv, AtMostOneRevival,
         Active, settings, procVars, probeVars
  <1>. QED
    BY <1>1, <1>2, <1>3 DEF Flusher

\* A probe that starts once ctx is done is doomed.
LEMMA ReadinessStep ==
    ASSUME ServeInv, ProbeStarts \/ ProbeOk \/ ProbeFails \/ ProbeStops
    PROVE  ServeInv'
  <1>1. CASE ProbeStarts
    BY <1>1 DEF ProbeStarts, ServeInv, TypeOK, OrderInv, RowsInv, AtMostOneRevival,
       Running, CtxDone, Active, settings, procVars, rowVars, bufVars, httpVars, probeVars, backend
  <1>2. CASE ProbeOk
    BY <1>2 DEF ProbeOk, ServeInv, TypeOK, OrderInv, RowsInv, AtMostOneRevival,
       Running, CtxDone, Active, settings, procVars, rowVars, bufVars, httpVars, probeVars, backend
  <1>3. CASE ProbeFails
    BY <1>3, ZenonT(60) DEF ProbeFails, ServeInv, TypeOK, OrderInv, RowsInv, AtMostOneRevival,
       Running, CtxDone, Active, settings, procVars, rowVars, bufVars, httpVars, probeVars, backend
  <1>4. CASE ProbeStops
    BY <1>4 DEF ProbeStops, ServeInv, TypeOK, OrderInv, RowsInv, AtMostOneRevival,
       Running, CtxDone, Active, settings, procVars, rowVars, bufVars, httpVars, probeVars, backend
  <1>. QED
    BY <1>1, <1>2, <1>3, <1>4

\* Until the store is open there is no buffer and no request.
LEMMA StartStep ==
    ASSUME ServeInv, Load \/ LoadFails \/ Open \/ OpenFails
    PROVE  ServeInv'
  <1>1. CASE Load
    BY <1>1 DEF Load, ServeInv, TypeOK, OrderInv, RowsInv, AtMostOneRevival,
       Running, CtxDone, Active, settings, procVars, rowVars, bufVars, httpVars, probeVars, backend
  <1>2. CASE LoadFails
    BY <1>2 DEF LoadFails, ServeInv, TypeOK, OrderInv, RowsInv, AtMostOneRevival,
       Running, CtxDone, Active, settings, procVars, rowVars, bufVars, httpVars, probeVars, backend
  <1>3. CASE Open
    BY <1>3 DEF Open, ServeInv, TypeOK, OrderInv, RowsInv, AtMostOneRevival,
       Running, CtxDone, Active, settings, procVars, rowVars, bufVars, httpVars, probeVars, backend
  <1>4. CASE OpenFails
    BY <1>4 DEF OpenFails, ServeInv, TypeOK, OrderInv, RowsInv, AtMostOneRevival,
       Running, CtxDone, Active, settings, procVars, rowVars, bufVars, httpVars, probeVars, backend
  <1>. QED
    BY <1>1, <1>2, <1>3, <1>4

\* The way of runServer from the signal, or the error of the server, to the exit.
LEMMA ShutdownStep ==
    ASSUME ServeInv, Signal \/ SeeSignal \/ ServerFails \/ MarkNotReady \/ ShutdownEnds
           \/ DrainTimesOut \/ CloseReturns \/ CloseStore \/ Exit
    PROVE  ServeInv'
  <1>1. CASE Signal
    BY <1>1 DEF Signal, ServeInv, TypeOK, OrderInv, RowsInv, AtMostOneRevival,
       Running, CtxDone, Active, settings, procVars, rowVars, bufVars, httpVars, probeVars, backend
  <1>2. CASE SeeSignal
    BY <1>2 DEF SeeSignal, ServeInv, TypeOK, OrderInv, RowsInv, AtMostOneRevival,
       Running, CtxDone, Active, settings, procVars, rowVars, bufVars, httpVars, probeVars, backend
  <1>3. CASE ServerFails
    BY <1>3 DEF ServerFails, ServeInv, TypeOK, OrderInv, RowsInv, AtMostOneRevival,
       Running, CtxDone, Active, settings, procVars, rowVars, bufVars, httpVars, probeVars, backend
  <1>4. CASE MarkNotReady
    BY <1>4 DEF MarkNotReady, ServeInv, TypeOK, OrderInv, RowsInv, AtMostOneRevival,
       Running, CtxDone, Active, settings, procVars, rowVars, bufVars, httpVars, probeVars, backend
  <1>5. CASE ShutdownEnds
    BY <1>5 DEF ShutdownEnds, ServeInv, TypeOK, OrderInv, RowsInv, AtMostOneRevival,
       Running, CtxDone, Active, settings, procVars, rowVars, bufVars, httpVars, probeVars, backend
  <1>6. CASE CloseReturns
    BY <1>6 DEF CloseReturns, ServeInv, TypeOK, OrderInv, RowsInv, AtMostOneRevival,
       Running, CtxDone, Active, settings, procVars, rowVars, bufVars, httpVars, probeVars, backend
  <1>7. CASE CloseStore
    BY <1>7 DEF CloseStore, ServeInv, TypeOK, OrderInv, RowsInv, AtMostOneRevival,
       Running, CtxDone, Active, settings, procVars, rowVars, bufVars, httpVars, probeVars, backend
  <1>8. CASE Exit
    BY <1>8 DEF Exit, ServeInv, TypeOK, OrderInv, RowsInv, AtMostOneRevival,
       Running, CtxDone, Active, settings, procVars, rowVars, bufVars, httpVars, probeVars, backend
  <1>9. CASE DrainTimesOut
    BY <1>9 DEF DrainTimesOut, ServeInv, TypeOK, OrderInv, RowsInv, AtMostOneRevival,
       Running, CtxDone, Active, settings, procVars, rowVars, bufVars, httpVars, probeVars, backend
  <1>. QED
    BY <1>1, <1>2, <1>3, <1>4, <1>5, <1>6, <1>7, <1>8, <1>9

\* The backend and the init job touch nothing of the process.
LEMMA BackendStep ==
    ASSUME ServeInv, UNCHANGED <<procVars, bufVars, httpVars, probeVars>>
    PROVE  ServeInv'
  BY DEF ServeInv, TypeOK, OrderInv, RowsInv, AtMostOneRevival, Active,
     settings, procVars, rowVars, bufVars, httpVars, probeVars

\* A request is accepted only while the buffer is open.
LEMMA AcceptStep ==
    ASSUME ServeInv, NEW q \in Requests, Accept(q)
    PROVE  ServeInv'
  <1>1. request' \in [Requests -> {"none", "decoding", "adding", "answered"}]
    BY DEF Accept, ServeInv, TypeOK
  <1>2. count' \in Counts
    BY DEF Accept, ServeInv, TypeOK, Counts
  <1>3. main \in {"serving", "marking"} /\ buffer = "open"
    BY DEF Accept, ServeInv, OrderInv
  <1>. QED
    BY <1>1, <1>2, <1>3
       DEF Accept, ServeInv, TypeOK, OrderInv, RowsInv, AtMostOneRevival,
           settings, procVars, rowVars, bufVars, probeVars

LEMMA DecodeStep ==
    ASSUME ServeInv, NEW q \in Requests, NEW kind, Decode(q, kind)
    PROVE  ServeInv'
  <1>1. /\ request' \in [Requests -> {"none", "decoding", "adding", "answered"}]
        /\ request'[q] \in {"adding", "answered"} /\ request[q] = "decoding"
        /\ \A p \in Requests \ {q} : request'[p] = request[p]
    BY DEF Decode, ServeInv, TypeOK
  <1>2. count' \in Counts
    BY DEF Decode, ServeInv, TypeOK, Counts
  <1>3. Active(q) /\ buffer # "none"
    BY <1>1 DEF Active, ServeInv, RowsInv
  <1>. QED
    BY <1>1, <1>2, <1>3
       DEF Decode, ServeInv, TypeOK, OrderInv, RowsInv, AtMostOneRevival, Active,
           settings, procVars, rowVars, bufVars, probeVars

\* A handler that reaches an emptied buffer is one that Shutdown gave up on.
LEMMA AddRowStep ==
    ASSUME ServeInv, NEW q \in Requests, AddRow(q)
    PROVE  ServeInv'
  <1>1. /\ request' \in [Requests -> {"none", "decoding", "adding", "answered"}]
        /\ request'[q] = "answered" /\ request[q] = "adding"
        /\ \A p \in Requests \ {q} : request'[p] = request[p]
    BY DEF AddRow, ServeInv, TypeOK
  <1>2. count' \in Counts
    <2>1. count \in Counts /\ count.offered + 1 \in Nat /\ count.dropped + 1 \in Nat
      BY DEF ServeInv, TypeOK, Counts
    <2>2. CASE count' = [count EXCEPT !.offered = @ + 1]
      BY <2>1, <2>2 DEF Counts
    <2>3. CASE count' = [count EXCEPT !.offered = @ + 1, !.dropped = @ + 1]
      BY <2>1, <2>3 DEF Counts
    <2>. QED
      BY <2>2, <2>3 DEF AddRow
  <1>3. Active(q) /\ buffer # "none"
    BY <1>1 DEF Active, ServeInv, RowsInv
  <1>4. Emptied => timedOut /\ main \in {"closing", "returning", "returned"}
    BY <1>3 DEF Emptied, ServeInv, OrderInv, RowsInv
  <1>5. /\ pending' \in Nat /\ left' \in Nat /\ afterDrain' \in Nat
        /\ left' > 0 => afterDrain' > 0
        /\ buffer = "drained" => pending' = 0
        /\ afterDrain' > 0 => timedOut /\ main \in {"closing", "returning", "returned"}
    BY <1>4 DEF AddRow, Emptied, ServeInv, TypeOK, RowsInv
  <1>. QED
    BY <1>1, <1>2, <1>3, <1>5
       DEF AddRow, ServeInv, TypeOK, OrderInv, RowsInv, AtMostOneRevival, Active,
           settings, procVars, rowVars, bufVars, probeVars

LEMMA ServeStep == ServeInv /\ [Next]_vars => ServeInv'
  <1>. SUFFICES ASSUME ServeInv, [Next]_vars PROVE ServeInv'
    OBVIOUS
  <1>1. ASSUME NEW q \in Requests, Accept(q) \/ AddRow(q) \/ \E kind : Decode(q, kind)
        PROVE  ServeInv'
    BY <1>1, AcceptStep, AddRowStep, DecodeStep
  <1>2. CASE Readiness
    BY <1>2, ReadinessStep DEF Readiness
  <1>3. CASE Backend
    <2>1. UNCHANGED <<procVars, bufVars, httpVars, probeVars>>
      BY <1>3 DEF Backend, BackendChanges, InitFails, InitSchema, InitTable
    <2>. QED
      BY <2>1, BackendStep
  <1>4. CASE Load \/ LoadFails \/ Open \/ OpenFails
    BY <1>4, StartStep
  <1>5. CASE Signal \/ ServerFails \/ Main
    BY <1>5, ShutdownStep DEF Main
  <1>6. CASE Flusher
    BY <1>6, FlusherStep
  <1>7. CASE Exited \/ UNCHANGED vars
    <2>1. UNCHANGED <<procVars, bufVars, httpVars, probeVars>>
      BY <1>7 DEF Exited, vars
    <2>. QED
      BY <2>1, BackendStep
  <1>. QED
    BY <1>1, <1>2, <1>3, <1>4, <1>5, <1>6, <1>7 DEF Next

LEMMA ServeInvariant == Spec => []ServeInv
  BY ServeInit, ServeStep, PTL DEF Spec

-----------------------------------------------------------------------------
(* The theorems.                                                           *)

\* The handlers have ended before the drain finds the channel empty, unless Shutdown gave up.
THEOREM DrainIsLast == Spec => []NoRowAfterDrain
  <1>1. ServeInv => NoRowAfterDrain
    BY DEF ServeInv, RowsInv, NoRowAfterDrain
  <1>. QED
    BY <1>1, ServeInvariant, PTL

\* Every row offered is written, dropped and counted, or in the buffer.
RowsCounted == count.offered = count.flushed + count.dropped + pending + left

LEMMA RowsCountedStep == ServeInv /\ RowsCounted /\ [Next]_vars => RowsCounted'
  <1>. SUFFICES ASSUME ServeInv, RowsCounted, [Next]_vars PROVE RowsCounted'
    OBVIOUS
  <1>0. /\ count \in Counts /\ count.offered \in Nat /\ count.flushed \in Nat /\ count.dropped \in Nat
        /\ pending \in Nat /\ left \in Nat
    BY DEF ServeInv, TypeOK, Counts
  <1>1. ASSUME NEW q \in Requests, Accept(q) \/ \E kind : Decode(q, kind)
        PROVE  RowsCounted'
    <2>1. /\ count'.offered = count.offered /\ count'.flushed = count.flushed
          /\ count'.dropped = count.dropped /\ pending' = pending /\ left' = left
      BY <1>0, <1>1 DEF Accept, Decode, bufVars, rowVars, Counts
    <2>. QED
      BY <2>1 DEF RowsCounted
  <1>2. ASSUME NEW q \in Requests, AddRow(q)
        PROVE  RowsCounted'
    <2>1. /\ count'.offered = count.offered + 1 /\ count'.flushed = count.flushed
          /\ \/ /\ count'.dropped = count.dropped
                /\ \/ pending' = pending + 1 /\ left' = left
                   \/ pending' = pending /\ left' = left + 1
             \/ count'.dropped = count.dropped + 1 /\ pending' = pending /\ left' = left
      BY <1>0, <1>2 DEF AddRow, Counts
    <2>. QED
      BY <1>0, <2>1 DEF RowsCounted
  <1>3. ASSUME NEW n \in 1..pending, Flush(n) \/ GiveUp(n)
        PROVE  RowsCounted'
    <2>1. /\ count'.offered = count.offered /\ pending' = pending - n /\ left' = left
          /\ \/ count'.flushed = count.flushed + n /\ count'.dropped = count.dropped
             \/ count'.flushed = count.flushed /\ count'.dropped = count.dropped + n
      BY <1>0, <1>3 DEF Flush, GiveUp, Counts
    <2>. QED
      BY <1>0, <2>1 DEF RowsCounted
  <1>4. CASE UNCHANGED <<httpVars, rowVars>>
    BY <1>4 DEF httpVars, rowVars, RowsCounted
  <1>5. Readiness \/ Backend \/ Load \/ LoadFails \/ Open \/ OpenFails \/ Signal \/ ServerFails
        \/ Main \/ DrainDone \/ Drained \/ Exited \/ UNCHANGED vars => UNCHANGED <<httpVars, rowVars>>
    BY DEF vars, bufVars, Readiness, ProbeStarts, ProbeOk, ProbeFails, ProbeStops,
       Backend, BackendChanges, InitFails, InitSchema, InitTable, Load, LoadFails, Open, OpenFails,
       Signal, ServerFails, Main, SeeSignal, MarkNotReady, ShutdownEnds, DrainTimesOut, CloseReturns,
       CloseStore, Exit, DrainDone, Drained, Exited
  <1>. QED
    BY <1>1, <1>2, <1>3, <1>4, <1>5 DEF Next, Flusher

\* When the process exits with 0, every row that was not written is counted as dropped,
\* or was brought by a request that Shutdown gave up on; none was left to a closed
\* store, and rows that were cut short come with an error in the log.
THEOREM LossesAreReported == Spec => []LossIsReported
  <1>1. Init => RowsCounted
    BY DEF Init, RowsCounted
  <1>2. ServeInv /\ RowsCounted => LossIsReported
    <2>. SUFFICES ASSUME ServeInv, RowsCounted, main = "returned", exit = 0
                  PROVE  /\ count.offered = count.flushed + count.dropped + left
                         /\ spoiled = 0 /\ (left > 0 => timedOut) /\ (cutShort > 0 => logged)
      BY DEF LossIsReported
    <2>1. pending = 0
      BY DEF ServeInv, OrderInv, RowsInv
    <2>2. count.offered \in Nat /\ count.flushed \in Nat /\ count.dropped \in Nat /\ left \in Nat
      BY DEF ServeInv, TypeOK, Counts
    <2>3. count.offered = count.flushed + count.dropped + left
      BY <2>1, <2>2 DEF RowsCounted
    <2>. QED
      BY <2>3 DEF ServeInv, RowsInv
  <1>. QED
    BY <1>1, <1>2, RowsCountedStep, ServeInvariant, PTL DEF Spec

\* While the service drains, at most the probe that was under way sets ready again.
THEOREM ReadyDoesNotFlap == Spec => []AtMostOneRevival
  <1>1. ServeInv => AtMostOneRevival
    BY DEF ServeInv
  <1>. QED
    BY <1>1, ServeInvariant, PTL

-----------------------------------------------------------------------------
(* The counters.                                                           *)

Handling == {q \in Requests : Active(q)}

\* A request that starts to be handled, or stops.
LEMMA HandlingChanges ==
    ASSUME NEW q \in Requests, \A p \in Requests \ {q} : request'[p] = request[p]
    PROVE  /\ IsFiniteSet(Handling) /\ Cardinality(Handling) \in Nat
           /\ ~Active(q) /\ Active(q)' => Cardinality(Handling)' = Cardinality(Handling) + 1
           /\ Active(q) /\ ~Active(q)' => Cardinality(Handling)' = Cardinality(Handling) - 1
           /\ Active(q) /\ Active(q)' => Cardinality(Handling)' = Cardinality(Handling)
  <1>1. IsFiniteSet(Handling) /\ Cardinality(Handling) \in Nat
    BY RequestsAssumption, FS_Subset, FS_CardinalityType DEF Handling
  <1>2. ASSUME ~Active(q), Active(q)'
        PROVE  Cardinality(Handling)' = Cardinality(Handling) + 1
    <2>1. Handling' = Handling \cup {q} /\ q \notin Handling
      BY <1>2 DEF Handling, Active
    <2>. QED
      BY <1>1, <2>1, FS_AddElement
  <1>3. ASSUME Active(q), ~Active(q)'
        PROVE  Cardinality(Handling)' = Cardinality(Handling) - 1
    <2>1. Handling' = Handling \ {q} /\ q \in Handling
      BY <1>3 DEF Handling, Active
    <2>. QED
      BY <1>1, <2>1, FS_RemoveElement
  <1>4. ASSUME Active(q), Active(q)'
        PROVE  Cardinality(Handling)' = Cardinality(Handling)
    <2>1. Handling' = Handling
      BY <1>4 DEF Handling, Active
    <2>. QED
      BY <2>1
  <1>. QED
    BY <1>1, <1>2, <1>3, <1>4

Accounted == count.received = count.invalid + count.suppressed + count.offered + Cardinality(Handling)

LEMMA AccountedStep == ServeInv /\ Accounted /\ [Next]_vars => Accounted'
  <1>. SUFFICES ASSUME ServeInv, Accounted, [Next]_vars PROVE Accounted'
    OBVIOUS
  <1>0. /\ count.received \in Nat /\ count.invalid \in Nat
        /\ count.suppressed \in Nat /\ count.offered \in Nat
    BY DEF ServeInv, TypeOK, Counts
  <1>1. ASSUME NEW q \in Requests, Accept(q)
        PROVE  Accounted'
    <2>1. /\ count' = [count EXCEPT !.received = @ + 1]
          /\ \A p \in Requests \ {q} : request'[p] = request[p]
          /\ ~Active(q) /\ Active(q)'
      BY <1>1 DEF Accept, Active, ServeInv, TypeOK, Counts
    <2>2. /\ count'.received = count.received + 1 /\ count'.invalid = count.invalid
          /\ count'.suppressed = count.suppressed /\ count'.offered = count.offered
      BY <2>1 DEF ServeInv, TypeOK, Counts
    <2>3. Cardinality(Handling) \in Nat /\ Cardinality(Handling)' = Cardinality(Handling) + 1
      BY <2>1, HandlingChanges
    <2>. QED
      BY <1>0, <2>2, <2>3 DEF Accounted
  <1>2. ASSUME NEW q \in Requests, NEW kind, Decode(q, kind)
        PROVE  Accounted'
    <2>1. \A p \in Requests \ {q} : request'[p] = request[p]
      BY <1>2 DEF Decode, ServeInv, TypeOK, Counts
    <2>2. Cardinality(Handling) \in Nat
      BY <2>1, HandlingChanges
    <2>3. CASE kind = "bad"
      <3>1. /\ count'.received = count.received /\ count'.invalid = count.invalid + 1
            /\ count'.suppressed = count.suppressed /\ count'.offered = count.offered
        BY <1>2, <2>3 DEF Decode, ServeInv, TypeOK, Counts
      <3>2. Active(q) /\ ~Active(q)'
        BY <1>2, <2>3 DEF Decode, Active, ServeInv, TypeOK, Counts
      <3>. QED
        BY <1>0, <2>1, <2>2, <3>1, <3>2, HandlingChanges DEF Accounted
    <2>4. CASE kind = "own"
      <3>1. /\ count'.received = count.received /\ count'.invalid = count.invalid
            /\ count'.suppressed = count.suppressed + 1 /\ count'.offered = count.offered
        BY <1>2, <2>4 DEF Decode, ServeInv, TypeOK, Counts
      <3>2. Active(q) /\ ~Active(q)'
        BY <1>2, <2>4 DEF Decode, Active, ServeInv, TypeOK, Counts
      <3>. QED
        BY <1>0, <2>1, <2>2, <3>1, <3>2, HandlingChanges DEF Accounted
    <2>5. CASE kind = "row"
      <3>1. count' = count /\ Active(q) /\ Active(q)'
        BY <1>2, <2>5 DEF Decode, Active, ServeInv, TypeOK, Counts
      <3>. QED
        BY <2>1, <3>1, HandlingChanges DEF Accounted
    <2>. QED
      BY <1>2, <2>3, <2>4, <2>5 DEF Decode
  <1>3. ASSUME NEW q \in Requests, AddRow(q)
        PROVE  Accounted'
    <2>1. /\ \A p \in Requests \ {q} : request'[p] = request[p]
          /\ Active(q) /\ ~Active(q)'
      BY <1>3 DEF AddRow, Active, ServeInv, TypeOK, Counts
    <2>2. /\ count'.received = count.received /\ count'.invalid = count.invalid
          /\ count'.suppressed = count.suppressed /\ count'.offered = count.offered + 1
      BY <1>3 DEF AddRow, ServeInv, TypeOK, Counts
    <2>3. Cardinality(Handling) \in Nat /\ Cardinality(Handling)' = Cardinality(Handling) - 1
      BY <2>1, HandlingChanges
    <2>. QED
      BY <1>0, <2>2, <2>3 DEF Accounted
  <1>4. CASE UNCHANGED httpVars
    <2>1. Handling' = Handling /\ count' = count
      BY <1>4 DEF httpVars, Handling, Active
    <2>. QED
      BY <2>1 DEF Accounted
  <1>5. Readiness \/ Backend \/ Load \/ LoadFails \/ Open \/ OpenFails \/ Signal \/ ServerFails
        \/ Main \/ DrainDone \/ Drained \/ Exited \/ UNCHANGED vars => UNCHANGED httpVars
    BY DEF vars, Readiness, ProbeStarts, ProbeOk, ProbeFails, ProbeStops,
       Backend, BackendChanges, InitFails, InitSchema, InitTable, Load, LoadFails, Open, OpenFails,
       Signal, ServerFails, Main, SeeSignal, MarkNotReady, ShutdownEnds, DrainTimesOut, CloseReturns,
       CloseStore, Exit, DrainDone, Drained, Exited
  <1>6. ASSUME NEW n, Flush(n) \/ GiveUp(n)
        PROVE  Accounted'
    <2>1. /\ count'.received = count.received /\ count'.invalid = count.invalid
          /\ count'.suppressed = count.suppressed /\ count'.offered = count.offered
      BY <1>6 DEF Flush, GiveUp, ServeInv, TypeOK, Counts
    <2>2. Handling' = Handling
      BY <1>6 DEF Flush, GiveUp, Handling, Active
    <2>. QED
      BY <2>1, <2>2 DEF Accounted
  <1>. QED
    BY <1>1, <1>2, <1>3, <1>4, <1>5, <1>6 DEF Next, Flusher

\* Every event received is counted once, or is still being handled.
THEOREM EventsAreAccounted == Spec => []EventsAccounted
  <1>1. Init => Accounted
    <2>. SUFFICES ASSUME Init PROVE Accounted
      OBVIOUS
    <2>1. Handling = {}
      BY DEF Init, Handling, Active
    <2>2. Cardinality(Handling) = 0
      BY <2>1, FS_EmptySet
    <2>3. count.received = 0 /\ count.invalid = 0 /\ count.suppressed = 0 /\ count.offered = 0
      BY DEF Init
    <2>. QED
      BY <2>2, <2>3 DEF Accounted
  <1>2. Accounted => EventsAccounted
    BY DEF Accounted, EventsAccounted, Handling
  <1>. QED
    BY <1>1, <1>2, AccountedStep, ServeInvariant, PTL DEF Spec

-----------------------------------------------------------------------------
(* What the process runs with.                                             *)

NumberVars == DOMAIN IntVars \cup DOMAIN DurationVars

LEMMA NumberDefault ==
    ASSUME NEW key \in NumberVars
    PROVE  key \in Keys /\ key \notin DOMAIN StringVars /\ Default(key) \in Int
  <1>1. key \in Keys
    BY DEF NumberVars, Keys
  <1>2. key \notin DOMAIN StringVars
    BY DEF NumberVars, IntVars, DurationVars, StringVars
  <1>3. ~(key \in DOMAIN IntVars /\ key \in DOMAIN DurationVars)
    BY DEF IntVars, DurationVars
  <1>4. CASE key \in DOMAIN IntVars
    <2>1. Default(key) = IntVars[key]
      BY <1>2, <1>3, <1>4, Zenon DEF Default
    <2>2. IntVars[key] \in Int
      BY <1>4 DEF IntVars
    <2>. QED
      BY <1>1, <1>2, <2>1, <2>2
  <1>5. CASE key \in DOMAIN DurationVars
    <2>1. Default(key) = DurationVars[key]
      BY <1>2, <1>3, <1>5, Zenon DEF Default
    <2>2. DurationVars[key] \in Int
      BY <1>5 DEF DurationVars
    <2>. QED
      BY <1>1, <1>2, <2>1, <2>2
  <1>. QED
    BY <1>4, <1>5 DEF NumberVars

\* If nothing failed to parse, a number is what was set or its default.
LEMMA NumberIsWanted ==
    ASSUME NEW e, IsEnvironment(e), Errs(e) = {}, NEW key \in NumberVars
    PROVE  /\ Settings(e)[key] = Wanted(e, key)
           /\ Settings(e)[key] \in Int
  <1>1. key \in Keys /\ key \notin DOMAIN StringVars /\ Default(key) \in Int
    BY NumberDefault
  <1>2. Settings(e)[key] = Wanted(e, key)
    BY <1>1 DEF Settings, Read, Wanted
  <1>3. e[key].set = "yes" => e[key].val \in Int
    BY <1>1 DEF IsEnvironment, NumberVars
  <1>. QED
    BY <1>1, <1>2, <1>3 DEF Wanted

\* A number that is not too small is not replaced.
LEMMA NotReplaced ==
    ASSUME NEW v \in Int, NEW least \in Int, v >= least, NEW fallback
    PROVE  OrElse(v, least, fallback) = v
  BY DEF OrElse

Numbers(c) == \A key \in NumberVars : c[key] \in Int

\* What validate asks of the numbers that the constructors look at.
LEMMA ValidNumbers ==
    ASSUME NEW c, validate(c), Numbers(c)
    PROVE  /\ c.FLUSH_RETRY_BACKOFF >= 1 /\ c.BUFFER_CAPACITY >= 1 /\ c.MAX_STATEMENT_BYTES >= 1
           /\ c.BATCH_SIZE >= 1 /\ c.FLUSH_MAX_RETRIES >= 0 /\ c.FLUSH_INTERVAL > 0
           /\ c.FLUSH_RETRY_MAX_BACKOFF >= c.FLUSH_RETRY_BACKOFF
  <1>1. AtLeast(c, Least) /\ BackoffsInOrder(c)
    BY Zenon DEF validate
  <1>. QED
    BY <1>1, SMT DEF AtLeast, Least, BackoffsInOrder, Numbers, NumberVars, IntVars, DurationVars

LEMMA ValidBackend ==
    ASSUME NEW c, validate(c)
    PROVE  c.STORE_BACKEND \in {"trino", "clickhouse"}
  <1>1. \A key \in DOMAIN OneOf : c[key] \in OneOf[key]
    BY Zenon DEF validate
  <1>. QED
    BY <1>1, SMT DEF OneOf

LEMMA ValidClickHouse ==
    ASSUME NEW c, validate(c), Numbers(c)
    PROVE  c.STORE_BACKEND = "clickhouse" =>
              c.CLICKHOUSE_QUERY_TIMEOUT >= 1 /\ c.CLICKHOUSE_MAX_BATCH_BYTES >= 1
  <1>1. c.STORE_BACKEND = "clickhouse" => AtLeast(c, LeastClickHouse)
    BY Zenon DEF validate
  <1>2. AtLeast(c, LeastClickHouse) => c.CLICKHOUSE_QUERY_TIMEOUT >= 1 /\ c.CLICKHOUSE_MAX_BATCH_BYTES >= 1
    BY SMT DEF AtLeast, LeastClickHouse, Numbers, NumberVars, IntVars, DurationVars
  <1>. QED
    BY <1>1, <1>2, Zenon

LEMMA ValidCache ==
    ASSUME NEW c, validate(c), Numbers(c)
    PROVE  c.REDIS_ADDR # "" => c.CACHE_LIST_TTL > 0 /\ c.CACHE_TIMEOUT > 0
  <1>1. c.REDIS_ADDR # "" => AtLeast(c, LeastCache)
    BY Zenon DEF validate
  <1>2. AtLeast(c, LeastCache) => c.CACHE_LIST_TTL > 0 /\ c.CACHE_TIMEOUT > 0
    BY SMT DEF AtLeast, LeastCache, Numbers, NumberVars, IntVars, DurationVars
  <1>. QED
    BY <1>1, <1>2, Zenon

\* ingest.New takes the numbers as they are.
LEMMA NewKeeps ==
    ASSUME NEW c, validate(c), Numbers(c)
    PROVE  \A key \in DOMAIN New(c) \ {"flushTimeout"} : key \in NumberVars /\ New(c)[key] = c[key]
  <1>1. {"BUFFER_CAPACITY", "FLUSH_RETRY_BACKOFF", "FLUSH_RETRY_MAX_BACKOFF"} \subseteq NumberVars
    BY SMT DEF NumberVars, IntVars, DurationVars
  <1>2. /\ OrElse(c.FLUSH_RETRY_BACKOFF, 1, 3000) = c.FLUSH_RETRY_BACKOFF
        /\ OrElse(c.BUFFER_CAPACITY, 1, 1) = c.BUFFER_CAPACITY
        /\ OrElse(c.FLUSH_RETRY_MAX_BACKOFF, c.FLUSH_RETRY_BACKOFF, 30000) = c.FLUSH_RETRY_MAX_BACKOFF
    BY <1>1, ValidNumbers, NotReplaced, SMT DEF Numbers
  <1>3. New(c) = [flushTimeout |-> OrElse(StoreQueryTimeout(c), 1, 30000),
                  BUFFER_CAPACITY |-> c.BUFFER_CAPACITY,
                  FLUSH_RETRY_BACKOFF |-> c.FLUSH_RETRY_BACKOFF,
                  FLUSH_RETRY_MAX_BACKOFF |-> c.FLUSH_RETRY_MAX_BACKOFF]
    BY <1>2, SMT DEF New
  <1>. QED
    BY <1>1, <1>3, SMT

\* A flush gets the timeout of the store, or 30 seconds if that has none.
LEMMA NewFlushTimeout ==
    ASSUME NEW c, validate(c), Numbers(c)
    PROVE  FlushTimeoutFits(c)
  <1>1. {"CLICKHOUSE_QUERY_TIMEOUT", "TRINO_QUERY_TIMEOUT"} \subseteq NumberVars
    BY SMT DEF NumberVars, IntVars, DurationVars
  <1>2. New(c).flushTimeout = OrElse(StoreQueryTimeout(c), 1, 30000)
    BY SMT DEF New
  <1>3. c.STORE_BACKEND = "trino" => StoreQueryTimeout(c) = c.TRINO_QUERY_TIMEOUT
    BY Zenon DEF StoreQueryTimeout
  <1>4. c.STORE_BACKEND # "trino" => /\ StoreQueryTimeout(c) = c.CLICKHOUSE_QUERY_TIMEOUT
                                     /\ c.CLICKHOUSE_QUERY_TIMEOUT >= 1
    BY ValidBackend, ValidClickHouse, Zenon DEF StoreQueryTimeout
  <1>. DEFINE trino == c.STORE_BACKEND = "trino"
  <1>5. trino \in BOOLEAN /\ (trino => StoreQueryTimeout(c) = c.TRINO_QUERY_TIMEOUT)
        /\ (~trino => StoreQueryTimeout(c) = c.CLICKHOUSE_QUERY_TIMEOUT /\ c.CLICKHOUSE_QUERY_TIMEOUT >= 1)
    BY <1>3, <1>4, Zenon
  <1>. HIDE DEF trino
  <1>6. New(c).flushTimeout = IF trino /\ c.TRINO_QUERY_TIMEOUT <= 0 THEN 30000 ELSE StoreQueryTimeout(c)
    <2>1. CASE trino
      BY <1>1, <1>2, <1>5, <2>1, SMT DEF OrElse, Numbers
    <2>2. CASE ~trino
      BY <1>1, <1>2, <1>5, <2>2, SMT DEF OrElse, Numbers
    <2>. QED
      BY <2>1, <2>2
  <1>. QED
    BY <1>6 DEF trino, FlushTimeoutFits, Unlimited

\* So do the constructors of the stores, but for a Trino without a time limit and the
\* whole seconds of ClickHouse.
LEMMA NewTrinoKeeps ==
    ASSUME NEW c, validate(c), Numbers(c)
    PROVE  \A key \in DOMAIN NewTrino(c) :
              /\ key \in NumberVars /\ key # "maxExecutionTime"
              /\ NewTrino(c)[key] = c[key] \/ (c.TRINO_QUERY_TIMEOUT <= 0 /\ key = "TRINO_QUERY_TIMEOUT")
  <1>1. {"MAX_STATEMENT_BYTES", "TRINO_QUERY_TIMEOUT"} \subseteq NumberVars
    BY SMT DEF NumberVars, IntVars, DurationVars
  <1>2. OrElse(c.MAX_STATEMENT_BYTES, 1, 700000) = c.MAX_STATEMENT_BYTES
    BY <1>1, ValidNumbers, NotReplaced, SMT DEF Numbers
  <1>3. OrElse(c.TRINO_QUERY_TIMEOUT, 1, 0) = c.TRINO_QUERY_TIMEOUT \/ c.TRINO_QUERY_TIMEOUT <= 0
    BY <1>1, SMT DEF OrElse, Numbers
  <1>. QED
    BY <1>1, <1>2, <1>3, SMT DEF NewTrino

LEMMA NewClickHouseKeeps ==
    ASSUME NEW c, Numbers(c), c.CLICKHOUSE_MAX_BATCH_BYTES >= 1
    PROVE  \A key \in DOMAIN NewClickHouse(c) \ {"maxExecutionTime"} :
              key \in NumberVars /\ NewClickHouse(c)[key] = c[key]
  <1>1. {"CLICKHOUSE_QUERY_TIMEOUT", "CLICKHOUSE_MAX_BATCH_BYTES"} \subseteq NumberVars
    BY SMT DEF NumberVars, IntVars, DurationVars
  <1>2. OrElse(c.CLICKHOUSE_MAX_BATCH_BYTES, 1, 8388608) = c.CLICKHOUSE_MAX_BATCH_BYTES
    BY <1>1, NotReplaced, SMTT(30) DEF Numbers
  <1>. QED
    BY <1>1, <1>2, SMT DEF NewClickHouse

LEMMA SecondsOff ==
    ASSUME NEW c, Numbers(c), c.CLICKHOUSE_QUERY_TIMEOUT >= 1, NewStore(c) = NewClickHouse(c)
    PROVE  WholeSeconds(c)
  <1>1. NewStore(c).maxExecutionTime = 1000 * OrElse(c.CLICKHOUSE_QUERY_TIMEOUT \div 1000, 1, 1)
    BY SMT DEF NewClickHouse
  <1>. DEFINE t == c.CLICKHOUSE_QUERY_TIMEOUT
  <1>2. t \in Int /\ t >= 1
    BY SMT DEF Numbers, NumberVars, DurationVars
  <1>. HIDE DEF t
  <1>3. 1000 * OrElse(t \div 1000, 1, 1) - t \in -999..999
    BY <1>2, SMT DEF OrElse
  <1>. QED
    BY <1>1, <1>3, SMT DEF t, WholeSeconds

\* The environment that is loaded is the one the process was started in.
Loading == main = "loading" => env \in Envs

LEMMA LoadingStep == Loading /\ [Next]_vars => Loading'
  <1>. SUFFICES ASSUME Loading, [Next]_vars, main' = "loading" PROVE env' \in Envs
    BY DEF Loading
  <1>. USE DEF Loading, settings, procVars
  <1>1. CASE \E q \in Requests : \/ Accept(q) \/ AddRow(q)
                                 \/ \E kind \in {Kind(e) : e \in Body} : Decode(q, kind)
    BY <1>1 DEF Accept, AddRow, Decode
  <1>2. CASE Readiness \/ Backend
    BY <1>2 DEF Readiness, ProbeStarts, ProbeOk, ProbeFails, ProbeStops,
                Backend, BackendChanges, InitFails, InitSchema, InitTable
  <1>3. CASE Load \/ LoadFails \/ Open \/ OpenFails \/ Signal \/ ServerFails
    BY <1>3 DEF Load, LoadFails, Open, OpenFails, Signal, ServerFails
  <1>4. CASE Main
    BY <1>4 DEF Main, SeeSignal, MarkNotReady, ShutdownEnds, DrainTimesOut, CloseReturns, CloseStore, Exit
  <1>5. CASE Flusher
    BY <1>5 DEF Flusher, Flush, GiveUp, DrainDone, Drained
  <1>6. CASE Exited \/ UNCHANGED vars
    BY <1>6 DEF Exited, vars
  <1>. QED
    BY <1>1, <1>2, <1>3, <1>4, <1>5, <1>6 DEF Next

\* Whatever the environment, a process that starts runs with what was set: validate
\* lets nothing pass that ingest.New or the constructors of the stores would replace,
\* but for the time limit of Trino.
THEOREM WhatIsSetIsRun == Spec => []WhatIsSetRuns
  <1>1. ASSUME Loading PROVE WhatIsSetRuns
    <2>. DEFINE c == Settings(env)
                Kept(key) == NewStore(c)[key] = Wanted(env, key) \/ (Unlimited(c) /\ key = "TRINO_QUERY_TIMEOUT")
    <2>0. SUFFICES ASSUME main = "loading", LoadOk(env)
                   PROVE  /\ \A key \in Keys \ DOMAIN StringVars : env[key].set # "junk"
                          /\ \A key \in DOMAIN New(c) \ {"flushTimeout"} : New(c)[key] = Wanted(env, key)
                          /\ FlushTimeoutFits(c)
                          /\ \A key \in DOMAIN NewStore(c) \ {"maxExecutionTime"} : Kept(key)
                          /\ c.STORE_BACKEND = "clickhouse" => WholeSeconds(c)
                          /\ c.BATCH_SIZE >= 1 /\ c.FLUSH_MAX_RETRIES >= 0 /\ c.FLUSH_INTERVAL > 0
                          /\ c.REDIS_ADDR # "" => c.CACHE_LIST_TTL > 0 /\ c.CACHE_TIMEOUT > 0
      BY Zenon DEF WhatIsSetRuns
    <2>1. IsEnvironment(env) /\ Errs(env) = {} /\ validate(c)
      BY <1>1, <2>0, EnvsAssumption, Zenon DEF Loading, LoadOk
    <2>2. Numbers(c) /\ \A key \in NumberVars : c[key] = Wanted(env, key)
      BY <2>1, NumberIsWanted, Zenon DEF Numbers
    <2>3. \A key \in Keys \ DOMAIN StringVars : env[key].set # "junk"
      BY <2>1, Zenon DEF Errs
    <2>. HIDE DEF c
    <2>4. \A key \in DOMAIN New(c) \ {"flushTimeout"} : New(c)[key] = Wanted(env, key)
      BY <2>1, <2>2, NewKeeps, Zenon
    <2>5. FlushTimeoutFits(c)
      BY <2>1, <2>2, NewFlushTimeout
    <2>6. CASE c.STORE_BACKEND = "clickhouse"
      <3>1. NewStore(c) = NewClickHouse(c)
        BY <2>6, Zenon DEF NewStore
      <3>2. c.CLICKHOUSE_QUERY_TIMEOUT >= 1 /\ c.CLICKHOUSE_MAX_BATCH_BYTES >= 1
        BY <2>1, <2>2, <2>6, ValidClickHouse, Zenon
      <3>3. \A key \in DOMAIN NewStore(c) \ {"maxExecutionTime"} : Kept(key)
        BY <3>1, <3>2, <2>2, NewClickHouseKeeps, Zenon
      <3>4. WholeSeconds(c)
        BY <3>1, <3>2, <2>2, SecondsOff
      <3>. QED
        BY <3>3, <3>4, <2>1, <2>2, <2>3, <2>4, <2>5, ValidNumbers, ValidCache, Zenon
    <2>7. CASE c.STORE_BACKEND = "trino"
      <3>1. NewStore(c) = NewTrino(c) /\ c.STORE_BACKEND # "clickhouse"
        BY <2>7, Zenon DEF NewStore
      <3>2. \A key \in DOMAIN NewStore(c) : Kept(key)
        BY <3>1, <2>1, <2>2, <2>7, NewTrinoKeeps, ZenonT(60) DEF Unlimited
      <3>. QED
        BY <3>1, <3>2, <2>1, <2>2, <2>3, <2>4, <2>5, ValidNumbers, ValidCache, Zenon
    <2>. QED
      BY <2>1, <2>6, <2>7, ValidBackend, Zenon
  <1>2. Init => Loading
    BY DEF Init, Loading
  <1>. QED
    BY <1>1, <1>2, LoadingStep, PTL DEF Spec
=============================================================================
