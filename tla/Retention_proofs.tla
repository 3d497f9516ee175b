-------------------------- MODULE Retention_proofs --------------------------
(***************************************************************************)
(* Theorems about Retention, for either backend, every number of runs of   *)
(* prune, every length of a day and every value of the settings.           *)
(***************************************************************************)
EXTENDS Retention, TLAPS

-----------------------------------------------------------------------------
(* Days and midnights.                                                     *)

\* A time is before a midnight if its day is before the day that begins there.
LEMMA BeforeMidnight ==
    ASSUME NEW t \in Int, NEW d \in Int
    PROVE  /\ Day(t) \in Int /\ Midnight(d) \in Int
           /\ t < Midnight(d) <=> Day(t) < d
  BY TimeAssumption, Z3 DEF Day, Midnight

LEMMA DayOfMidnight ==
    ASSUME NEW d \in Int
    PROVE  Day(Midnight(d)) = d
  BY TimeAssumption, Z3 DEF Day, Midnight

LEMMA DaysInOrder ==
    ASSUME NEW s \in Int, NEW t \in Int, s <= t
    PROVE  Day(s) <= Day(t)
  <1>1. t < Midnight(Day(t) + 1)
    BY BeforeMidnight
  <1>2. s < Midnight(Day(t) + 1)
    BY <1>1, BeforeMidnight
  <1>. QED
    BY <1>2, BeforeMidnight

LEMMA MidnightsInOrder ==
    ASSUME NEW c \in Int, NEW d \in Int, c <= d
    PROVE  Midnight(c) <= Midnight(d)
  BY BeforeMidnight, DayOfMidnight

\* Less than a day later is at most the day after.
LEMMA NextDay ==
    ASSUME NEW s \in Int, NEW t \in Int, t < s + DayLength
    PROVE  Day(t) <= Day(s) + 1
  <1>1. Midnight(Day(s) + 1) + DayLength = Midnight(Day(s) + 2)
    BY TimeAssumption, BeforeMidnight, Z3 DEF Midnight
  <1>2. t < Midnight(Day(s) + 2)
    BY <1>1, TimeAssumption, BeforeMidnight, SMTT(30)
  <1>. QED
    BY <1>2, BeforeMidnight

-----------------------------------------------------------------------------
(* The inductive invariant.                                                *)

Run == [pc : {"idle", "running", "dropping", "ok"}, started : Nat, cutoff : Int, parts : SUBSET Int]

Relic == [kind : {"snapshot", "file"}, since : Nat] \cup {NoRelic}

TypeOK ==
    /\ backend \in {"trino", "clickhouse"}
    /\ now \in Nat /\ table \subseteq Row
    /\ job \in [Pruners -> Run] /\ doomed \in [Pruners -> SUBSET Row]
    /\ optimize \in [pc : {"idle", "running"}, started : Nat, since : Int]
    /\ maintain \in [pc : {"idle", "expiring", "cleaning", "ok"}, started : Nat, errs : Nat]
    /\ relic \in Relic

\* A run that is under way began less than a day ago and works with the cutoff of
\* then; the partitions it has listed lie before it.
RunInv(p) ==
    /\ Active(p) => /\ job[p].started <= now /\ now <= job[p].started + JobLength
                    /\ job[p].cutoff = partitionAlignedCutoff(job[p].started)
    /\ \A d \in job[p].parts : Active(p) /\ d < Day(job[p].cutoff)

\* What a run still has to delete of the rows it found: all of them, the ones of the
\* partitions it has left, or none.
DoomedInv(p) ==
    \A r \in doomed[p] \cap table :
        /\ job[p].pc # "ok"
        /\ job[p].pc = "running" => r.created < job[p].cutoff
        /\ job[p].pc = "dropping" => Day(r.created) \in job[p].parts

OptimizeInv ==
    optimize.pc = "running" => /\ optimize.started <= now /\ now <= optimize.started + JobLength
                               /\ optimize.since = optimizeWindowStart(optimize.started)

\* What maintain has dealt with so far, unless a statement failed.
Recent == relic.since >= maintain.started - MaintainRetention

MaintainInv ==
    /\ maintain.started <= now
    /\ maintain.pc = "cleaning" /\ maintain.errs = 0 => relic.kind # "snapshot" \/ Recent
    /\ MaintainedIsClean

RetentionInv ==
    /\ TypeOK /\ OptimizeInv /\ MaintainInv
    /\ \A p \in Pruners : RunInv(p) /\ DoomedInv(p)

-----------------------------------------------------------------------------
(* Facts that several steps need.                                          *)

LEMMA CutoffType ==
    ASSUME NEW t \in Int
    PROVE  /\ partitionAlignedCutoff(t) \in Int
           /\ Day(partitionAlignedCutoff(t)) = Day(t) - RetentionDays
  <1>1. Day(t) - RetentionDays \in Int
    BY BeforeMidnight, DaysAssumption
  <1>. QED
    BY <1>1, BeforeMidnight, DayOfMidnight DEF partitionAlignedCutoff

\* A time is before the cutoff of a run if its day is before the day of the cutoff.
LEMMA BeforeCutoff ==
    ASSUME NEW t \in Int, NEW c \in Int
    PROVE  c < partitionAlignedCutoff(t) <=> Day(c) < Day(t) - RetentionDays
  <1>1. Day(t) - RetentionDays \in Int
    BY BeforeMidnight, DaysAssumption
  <1>. QED
    BY <1>1, BeforeMidnight DEF partitionAlignedCutoff

LEMMA RowType ==
    ASSUME NEW r \in Row
    PROVE  r.created \in Int /\ Day(r.created) \in Int
  <1>1. r.created \in Int
    BY TimeAssumption DEF Row, Time
  <1>. QED
    BY <1>1, BeforeMidnight

\* A run that the step leaves alone keeps its invariant, whatever else is deleted.
LEMMA OthersKept ==
    ASSUME RetentionInv, NEW q \in Pruners,
           job'[q] = job[q], doomed'[q] = doomed[q], now' = now, table' \subseteq table
    PROVE  RunInv(q)' /\ DoomedInv(q)'
  BY DEF RetentionInv, RunInv, DoomedInv, Active

\* A statement leaves the relic there is, or one that is new.
LEMMA RelicStep ==
    ASSUME RetentionInv, NEW K \in SUBSET {"snapshot", "file"}, relic' \in Left(K)
    PROVE  relic' \in Relic /\ (relic' = relic \/ relic'.since = now)
  BY DEF RetentionInv, TypeOK, Left, Relic

LEMMA MaintainKept ==
    ASSUME RetentionInv, now' = now, maintain' = maintain,
           relic' = relic \/ relic'.since = now
    PROVE  MaintainInv'
  <1>1. now \in Nat /\ maintain.started \in Nat /\ maintain.started <= now /\ MaintainRetention \in Nat
    BY TimeAssumption DEF RetentionInv, TypeOK, MaintainInv
  <1>2. CASE relic' = relic
    BY <1>2 DEF RetentionInv, MaintainInv, MaintainedIsClean, Recent
  <1>3. CASE relic'.since = now
    <2>1. relic'.since >= maintain'.started - MaintainRetention
      BY <1>1, <1>3
    <2>. QED
      BY <2>1, <1>1 DEF MaintainInv, MaintainedIsClean, Recent
  <1>. QED
    BY <1>2, <1>3

LEMMA OptimizeKept ==
    ASSUME RetentionInv, now' = now, optimize' = optimize
    PROVE  OptimizeInv'
  BY DEF RetentionInv, OptimizeInv

-----------------------------------------------------------------------------
(* The steps.                                                              *)

LEMMA RetentionInit == Init => RetentionInv
  <1>. SUFFICES ASSUME Init PROVE RetentionInv
    OBVIOUS
  <1>1. Idle \in Run
    BY DEF Idle, Ended, Run
  <1>2. job \in [Pruners -> Run] /\ \A p \in Pruners : job[p] = Idle
    BY <1>1 DEF Init
  <1>3. doomed \in [Pruners -> SUBSET Row] /\ \A p \in Pruners : doomed[p] = {}
    BY DEF Init
  <1>4. TypeOK
    BY <1>2, <1>3 DEF Init, TypeOK, NotOptimizing, Unmaintained, Relic
  <1>5. \A p \in Pruners : RunInv(p) /\ DoomedInv(p)
    BY <1>2, <1>3 DEF RunInv, DoomedInv, Active, Idle, Ended
  <1>6. OptimizeInv /\ MaintainInv
    BY DEF Init, OptimizeInv, MaintainInv, MaintainedIsClean, NotOptimizing, Unmaintained
  <1>. QED
    BY <1>4, <1>5, <1>6 DEF RetentionInv

LEMMA PruneStartStep ==
    ASSUME RetentionInv, NEW p \in Pruners, PruneStart(p)
    PROVE  RetentionInv'
  <1>. DEFINE cutoff == partitionAlignedCutoff(now)
              run == [pc |-> "running", started |-> now, cutoff |-> cutoff, parts |-> {}]
  <1>1. now \in Int /\ cutoff \in Int
    BY CutoffType DEF RetentionInv, TypeOK
  <1>2. run \in Run
    BY <1>1 DEF Run, RetentionInv, TypeOK
  <1>3. job' = [job EXCEPT ![p] = run] /\ doomed' = [doomed EXCEPT ![p] = Before(cutoff)]
    BY DEF PruneStart, partitionAlignedCutoff
  <1>4. job' \in [Pruners -> Run] /\ doomed' \in [Pruners -> SUBSET Row]
    BY <1>2, <1>3 DEF RetentionInv, TypeOK, Before
  <1>5. TypeOK'
    BY <1>4 DEF PruneStart, RetentionInv, TypeOK
  <1>6. job'[p] = run /\ doomed'[p] = Before(cutoff) /\ now' = now /\ table' = table
    BY <1>3 DEF PruneStart, RetentionInv, TypeOK
  <1>7. RunInv(p)' /\ DoomedInv(p)'
    BY <1>6, JobAssumption DEF RunInv, DoomedInv, Active, Before, RetentionInv, TypeOK
  <1>8. ASSUME NEW q \in Pruners, q # p PROVE RunInv(q)' /\ DoomedInv(q)'
    BY <1>8, <1>3, <1>6, OthersKept DEF RetentionInv, TypeOK
  <1>9. OptimizeInv' /\ MaintainInv'
    BY OptimizeKept, MaintainKept DEF PruneStart
  <1>. QED
    BY <1>5, <1>7, <1>8, <1>9 DEF RetentionInv

\* A run that ends, with or without success, leaves the other runs alone; what it
\* has deleted, and what it leaves behind, is as the step says.
LEMMA RunEnds ==
    ASSUME RetentionInv, NEW p \in Pruners, NEW pc \in {"idle", "ok"},
           job' = [job EXCEPT ![p] = Ended(pc)],
           doomed' \in {doomed, [doomed EXCEPT ![p] = {}]},
           pc = "ok" => doomed'[p] \cap table' = {},
           table' \subseteq table, relic' \in Relic, relic' = relic \/ relic'.since = now,
           UNCHANGED <<backend, now, optimize, maintain>>
    PROVE  RetentionInv'
  <1>. DEFINE run == Ended(pc)
  <1>1. run \in Run /\ job' = [job EXCEPT ![p] = run]
    BY DEF Run, Ended
  <1>2. job' \in [Pruners -> Run] /\ doomed' \in [Pruners -> SUBSET Row]
    <2>1. job' \in [Pruners -> Run]
      BY <1>1 DEF RetentionInv, TypeOK
    <2>2. doomed' \in [Pruners -> SUBSET Row]
      BY DEF RetentionInv, TypeOK
    <2>. QED
      BY <2>1, <2>2
  <1>3. TypeOK'
    BY <1>2 DEF RetentionInv, TypeOK
  <1>4. job'[p] = run
    BY <1>1 DEF RetentionInv, TypeOK
  <1>5. RunInv(p)' /\ DoomedInv(p)'
    BY <1>4 DEF RunInv, DoomedInv, Active, Ended
  <1>6. ASSUME NEW q \in Pruners, q # p PROVE RunInv(q)' /\ DoomedInv(q)'
    BY <1>6, <1>1, OthersKept DEF RetentionInv, TypeOK
  <1>7. OptimizeInv' /\ MaintainInv'
    BY OptimizeKept, MaintainKept
  <1>. QED
    BY <1>3, <1>5, <1>6, <1>7 DEF RetentionInv

LEMMA TrinoDeleteStep ==
    ASSUME RetentionInv, NEW p \in Pruners, TrinoDelete(p)
    PROVE  RetentionInv'
  <1>1. relic' \in Relic /\ (relic' = relic \/ relic'.since = now)
    BY RelicStep DEF TrinoDelete
  <1>2. doomed'[p] \cap table' = {}
    BY DEF TrinoDelete, RetentionInv, DoomedInv, Before
  <1>. QED
    BY <1>1, <1>2, RunEnds DEF TrinoDelete

LEMMA PruneEndsStep ==
    ASSUME RetentionInv, NEW p \in Pruners, PruneEnds(p)
    PROVE  RetentionInv'
  <1>1. doomed'[p] \cap table' = {}
    BY DEF PruneEnds, RetentionInv, DoomedInv
  <1>2. relic' \in Relic
    BY DEF PruneEnds, RetentionInv, TypeOK
  <1>. QED
    BY <1>1, <1>2, RunEnds DEF PruneEnds

LEMMA PruneFailsStep ==
    ASSUME RetentionInv, NEW p \in Pruners, PruneFails(p)
    PROVE  RetentionInv'
  <1>1. relic' \in Relic /\ (relic' = relic \/ relic'.since = now)
    BY RelicStep DEF PruneFails
  <1>2. table' \subseteq table
    BY DEF PruneFails
  <1>3. job' = [job EXCEPT ![p] = Ended("idle")]
    BY DEF PruneFails, Idle
  <1>. QED
    BY <1>1, <1>2, <1>3, RunEnds DEF PruneFails

LEMMA ListPartitionsStep ==
    ASSUME RetentionInv, NEW p \in Pruners, ListPartitions(p)
    PROVE  RetentionInv'
  <1>. DEFINE parts == partitionsBefore(job[p].cutoff)
              run == [job[p] EXCEPT !.pc = "dropping", !.parts = parts]
  <1>1. job[p] \in Run /\ job[p].cutoff \in Int /\ job[p].started \in Int
    BY DEF RetentionInv, TypeOK, Run
  <1>2. \A d \in parts : d \in Int /\ d < Day(job[p].cutoff)
    BY RowType DEF partitionsBefore, RetentionInv, TypeOK
  <1>3. /\ run \in Run /\ run.pc = "dropping" /\ run.parts = parts
        /\ run.started = job[p].started /\ run.cutoff = job[p].cutoff
    BY <1>1, <1>2 DEF Run
  <1>4. job' = [job EXCEPT ![p] = run]
    BY DEF ListPartitions
  <1>. HIDE DEF parts, run
  <1>5. job' \in [Pruners -> Run] /\ job'[p] = run
    BY <1>3, <1>4 DEF RetentionInv, TypeOK
  <1>6. TypeOK'
    BY <1>5 DEF ListPartitions, RetentionInv, TypeOK
  <1>7. RunInv(p)'
    <2>1. RunInv(p) /\ Active(p) /\ now' = now
      BY DEF ListPartitions, RetentionInv, Active
    <2>. QED
      BY <2>1, <1>2, <1>3, <1>5 DEF RunInv, Active
  <1>8. DoomedInv(p)'
    <2>1. ASSUME NEW r \in doomed[p] \cap table PROVE Day(r.created) \in parts
      <3>1. r \in Row /\ r.created < job[p].cutoff
        BY DEF RetentionInv, TypeOK, DoomedInv, ListPartitions
      <3>2. job[p].cutoff = partitionAlignedCutoff(job[p].started)
        BY DEF RetentionInv, RunInv, Active, ListPartitions
      <3>3. Day(r.created) < Day(job[p].cutoff)
        BY <3>1, <3>2, <1>1, RowType, BeforeCutoff, CutoffType DEF RetentionInv
      <3>. QED
        BY <3>3 DEF parts, partitionsBefore
    <2>. QED
      BY <2>1, <1>3, <1>5 DEF DoomedInv, ListPartitions
  <1>9. ASSUME NEW q \in Pruners, q # p PROVE RunInv(q)' /\ DoomedInv(q)'
    BY <1>9, <1>4, OthersKept DEF RetentionInv, TypeOK, ListPartitions
  <1>10. OptimizeInv' /\ MaintainInv'
    BY OptimizeKept, MaintainKept DEF ListPartitions
  <1>. QED
    BY <1>6, <1>7, <1>8, <1>9, <1>10 DEF RetentionInv

LEMMA DropPartitionStep ==
    ASSUME RetentionInv, NEW p \in Pruners, NEW d \in 0..Day(MaxTime), DropPartition(p, d)
    PROVE  RetentionInv'
  <1>. DEFINE run == [job[p] EXCEPT !.parts = job[p].parts \ {d}]
  <1>1. job[p] \in Run
    BY DEF RetentionInv, TypeOK
  <1>2. /\ run \in Run /\ run.pc = job[p].pc /\ run.parts = job[p].parts \ {d}
        /\ run.started = job[p].started /\ run.cutoff = job[p].cutoff
    BY <1>1 DEF Run
  <1>3. job' = [job EXCEPT ![p] = run]
    BY DEF DropPartition
  <1>. HIDE DEF run
  <1>4. job' \in [Pruners -> Run] /\ job'[p] = run
    BY <1>2, <1>3 DEF RetentionInv, TypeOK
  <1>5. TypeOK' /\ table' \subseteq table
    BY <1>4 DEF DropPartition, RetentionInv, TypeOK
  <1>6. RunInv(p)'
    <2>1. RunInv(p) /\ now' = now
      BY DEF DropPartition, RetentionInv
    <2>. QED
      BY <2>1, <1>2, <1>4 DEF RunInv, Active
  <1>7. DoomedInv(p)'
    <2>1. DoomedInv(p)
      BY DEF RetentionInv
    <2>. QED
      BY <2>1, <1>2, <1>4 DEF DoomedInv, DropPartition
  <1>8. ASSUME NEW q \in Pruners, q # p PROVE RunInv(q)' /\ DoomedInv(q)'
    BY <1>8, <1>3, <1>5, OthersKept DEF RetentionInv, TypeOK, DropPartition
  <1>9. OptimizeInv' /\ MaintainInv'
    BY OptimizeKept, MaintainKept DEF DropPartition
  <1>. QED
    BY <1>5, <1>6, <1>7, <1>8, <1>9 DEF RetentionInv

LEMMA OptimizeSteps ==
    ASSUME RetentionInv, OptimizeStart \/ OptimizeEnds
    PROVE  RetentionInv'
  <1>1. optimizeWindowStart(now) \in Int
    <2>1. Day(now) - ((IF OptimizeDays < 1 THEN 1 ELSE OptimizeDays) - 1) \in Int
      BY BeforeMidnight, DaysAssumption DEF RetentionInv, TypeOK
    <2>. QED
      BY <2>1, BeforeMidnight DEF optimizeWindowStart
  <1>2. TypeOK'
    BY <1>1 DEF RetentionInv, TypeOK, OptimizeStart, OptimizeEnds, NotOptimizing
  <1>3. OptimizeInv'
    BY JobAssumption DEF RetentionInv, TypeOK, OptimizeInv, OptimizeStart, OptimizeEnds, NotOptimizing
  <1>4. MaintainInv'
    BY MaintainKept DEF OptimizeStart, OptimizeEnds
  <1>5. \A q \in Pruners : RunInv(q)' /\ DoomedInv(q)'
    BY OthersKept DEF OptimizeStart, OptimizeEnds
  <1>. QED
    BY <1>2, <1>3, <1>4, <1>5 DEF RetentionInv

\* EXECUTE leaves the relic there is or none; one that it leaves although it is
\* answered is of the other kind, or recent.
LEMMA ExecuteStep ==
    ASSUME RetentionInv, NEW kind \in {"snapshot", "file"}, NEW ok \in BOOLEAN, Execute(kind, ok)
    PROVE  /\ relic' \in {relic, NoRelic}
           /\ ok /\ relic'.kind = kind => relic'.since >= now - MaintainRetention
  <1>1. now \in Nat /\ MaintainRetention \in Nat
    BY TimeAssumption DEF RetentionInv, TypeOK
  <1>2. relic = NoRelic \/ (relic.kind \in {"snapshot", "file"} /\ relic.since \in Nat)
    BY DEF RetentionInv, TypeOK, Relic
  <1>3. NoRelic.kind = "none"
    BY DEF NoRelic
  <1>4. relic' \in {relic, NoRelic}
    BY DEF Execute
  <1>5. ASSUME ok, relic'.kind = kind PROVE relic'.since >= now - MaintainRetention
    <2>1. relic' = relic /\ relic \in [kind : {"snapshot", "file"}, since : Nat]
      BY <1>3, <1>4, <1>5 DEF RetentionInv, TypeOK, Relic
    <2>2. ~(relic.kind = kind /\ relic.since < now - MaintainRetention)
      BY <2>1, <1>3, <1>5 DEF Execute
    <2>3. relic.since \in Nat
      BY <2>1
    <2>. QED
      BY <2>1, <2>2, <2>3, <1>1, <1>5
  <1>. QED
    BY <1>4, <1>5

LEMMA MaintainSteps ==
    ASSUME RetentionInv,
           \/ MaintainStart \/ MaintainDies
           \/ \E ok \in BOOLEAN : ExpireSnapshots(ok) \/ RemoveOrphanFiles(ok)
    PROVE  RetentionInv'
  <1>1. UNCHANGED <<backend, now, table, job, optimize, doomed>>
    BY DEF MaintainStart, MaintainDies, ExpireSnapshots, RemoveOrphanFiles
  <1>2. OptimizeInv' /\ \A q \in Pruners : RunInv(q)' /\ DoomedInv(q)'
    BY <1>1, OptimizeKept, OthersKept
  <1>. DEFINE Maintain == [pc : {"idle", "expiring", "cleaning", "ok"}, started : Nat, errs : Nat]
  <1>3. /\ now \in Nat /\ maintain \in Maintain /\ MaintainRetention \in Nat
        /\ relic \in Relic /\ NoRelic \in Relic /\ NoRelic.kind = "none"
    BY TimeAssumption DEF RetentionInv, TypeOK, Relic, NoRelic
  <1>4. maintain.started \in Nat /\ maintain.errs \in Nat /\ maintain.started <= now
    BY DEF RetentionInv, TypeOK, MaintainInv
  <1>5. SUFFICES maintain' \in Maintain /\ relic' \in Relic /\ MaintainInv'
    BY <1>1, <1>2 DEF RetentionInv, TypeOK
  <1>6. CASE MaintainStart
    BY <1>3, <1>6 DEF MaintainStart, MaintainInv, MaintainedIsClean
  <1>7. Unmaintained \in Maintain /\ Unmaintained.started = 0 /\ Unmaintained.pc = "idle"
    BY DEF Unmaintained
  <1>8. CASE maintain' = Unmaintained
    <2>1. relic' \in Relic
      BY <1>3, <1>8, ExecuteStep
         DEF MaintainStart, MaintainDies, ExpireSnapshots, RemoveOrphanFiles
    <2>. QED
      BY <2>1, <1>1, <1>3, <1>7, <1>8 DEF MaintainInv, MaintainedIsClean
  <1>9. ASSUME NEW ok \in BOOLEAN, ExpireSnapshots(ok)
        PROVE  maintain' \in Maintain /\ relic' \in Relic /\ MaintainInv'
    <2>1. relic' \in Relic /\ (ok /\ relic'.kind = "snapshot" => relic'.since >= now - MaintainRetention)
      BY <1>3, <1>9, ExecuteStep DEF ExpireSnapshots
    <2>2. /\ maintain' \in Maintain /\ maintain'.pc = "cleaning"
          /\ maintain'.started = maintain.started
          /\ maintain'.errs = 0 => ok
      <3>1. CASE ok
        BY <3>1, <1>3, <1>4, <1>9 DEF ExpireSnapshots
      <3>2. CASE ~ok
        <4>. DEFINE errs == maintain.errs + 1
        <4>1. errs \in Nat /\ errs # 0
          BY <1>4
        <4>2. maintain' = [maintain EXCEPT !.pc = "cleaning", !.errs = errs]
          BY <3>2, <1>9 DEF ExpireSnapshots
        <4>. HIDE DEF errs
        <4>. QED
          BY <4>1, <4>2, <1>3
      <3>. QED
        BY <3>1, <3>2
    <2>3. relic'.since \in Nat
      BY <2>1 DEF Relic, NoRelic
    <2>. QED
      BY <2>1, <2>2, <2>3, <1>1, <1>3, <1>4 DEF MaintainInv, MaintainedIsClean, Recent
  <1>10. ASSUME NEW ok \in BOOLEAN, RemoveOrphanFiles(ok), maintain' # Unmaintained
         PROVE  maintain' \in Maintain /\ relic' \in Relic /\ MaintainInv'
    <2>1. ok /\ maintain.errs = 0 /\ maintain.pc = "cleaning" /\ Execute("file", ok)
      BY <1>10 DEF RemoveOrphanFiles
    <2>2. /\ relic' \in {relic, NoRelic}
          /\ relic'.kind = "file" => relic'.since >= now - MaintainRetention
      BY <2>1, ExecuteStep
    <2>3. relic' \in Relic /\ (relic' = NoRelic \/ (relic'.kind \in {"snapshot", "file"} /\ relic'.since \in Nat))
      BY <2>2, <1>3 DEF Relic
    <2>4. relic'.kind = "snapshot" => relic'.since >= maintain.started - MaintainRetention
      BY <2>1, <2>2, <1>3 DEF RetentionInv, MaintainInv, Recent
    <2>5. maintain' \in Maintain /\ maintain'.pc = "ok" /\ maintain'.started = maintain.started
      BY <2>1, <1>3, <1>10 DEF RemoveOrphanFiles
    <2>. QED
      BY <2>2, <2>3, <2>4, <2>5, <1>1, <1>3, <1>4 DEF MaintainInv, MaintainedIsClean
  <1>. QED
    BY <1>6, <1>8, <1>9, <1>10 DEF MaintainDies

\* A new row is of none of the queries that a run found.
LEMMA StoreStep ==
    ASSUME RetentionInv, NEW r \in Row, Store(r)
    PROVE  RetentionInv'
  <1>1. TypeOK'
    BY DEF Store, RetentionInv, TypeOK
  <1>2. OptimizeInv' /\ MaintainInv'
    BY OptimizeKept, MaintainKept DEF Store
  <1>3. ASSUME NEW q \in Pruners PROVE RunInv(q)' /\ DoomedInv(q)'
    <2>1. r \notin doomed[q]
      BY DEF Store
    <2>2. doomed'[q] \cap table' = doomed[q] \cap table
      BY <2>1 DEF Store
    <2>. QED
      BY <2>2 DEF RetentionInv, RunInv, DoomedInv, Active, Store
  <1>. QED
    BY <1>1, <1>2, <1>3 DEF RetentionInv

LEMMA TickStep ==
    ASSUME RetentionInv, Tick
    PROVE  RetentionInv'
  <1>1. TypeOK' /\ now \in Nat /\ now' = now + 1
    BY DEF Tick, RetentionInv, TypeOK
  <1>2. OptimizeInv'
    <2>1. optimize.started \in Nat
      BY DEF RetentionInv, TypeOK
    <2>. QED
      BY <2>1, <1>1, JobAssumption DEF Tick, RetentionInv, OptimizeInv
  <1>3. MaintainInv'
    <2>1. maintain.started \in Nat
      BY DEF RetentionInv, TypeOK
    <2>. QED
      BY <2>1, <1>1 DEF Tick, RetentionInv, MaintainInv, MaintainedIsClean, Recent
  <1>4. ASSUME NEW q \in Pruners PROVE RunInv(q)' /\ DoomedInv(q)'
    <2>1. job[q].started \in Nat
      BY DEF RetentionInv, TypeOK, Run
    <2>. QED
      BY <2>1, <1>1, JobAssumption DEF Tick, RetentionInv, RunInv, DoomedInv, Active
  <1>. QED
    BY <1>1, <1>2, <1>3, <1>4 DEF RetentionInv

LEMMA RetentionStep == RetentionInv /\ [Next]_vars => RetentionInv'
  <1>. SUFFICES ASSUME RetentionInv, [Next]_vars PROVE RetentionInv'
    OBVIOUS
  <1>1. CASE UNCHANGED vars
    BY <1>1 DEF vars, RetentionInv, TypeOK, OptimizeInv, MaintainInv, MaintainedIsClean, Recent,
                RunInv, DoomedInv, Active
  <1>2. CASE Next
    BY <1>2, TickStep, OptimizeSteps, MaintainSteps, StoreStep, PruneStartStep, TrinoDeleteStep,
       ListPartitionsStep, PruneEndsStep, PruneFailsStep, DropPartitionStep DEF Next
  <1>. QED
    BY <1>1, <1>2

\* The invariant holds in every state, whatever the jobs, the service and the clock do.
THEOREM RetentionInvariance == Spec => []RetentionInv
  BY RetentionInit, RetentionStep, PTL DEF Spec

-----------------------------------------------------------------------------
(* What follows from it.                                                   *)

\* A run of prune that exits with 0 has deleted every row that was too old when it
\* began, on either backend, however many runs drop the same partitions.
THEOREM PruneIsComplete == Spec => []SuccessIsComplete
  <1>1. RetentionInv => SuccessIsComplete
    BY DEF RetentionInv, DoomedInv, SuccessIsComplete
  <1>. QED
    BY <1>1, RetentionInvariance, PTL

\* A run of maintain that exits with 0 leaves nothing behind that was older than
\* MAINTAIN_RETENTION when it began, whichever statements of other jobs failed.
THEOREM MaintainIsComplete == Spec => []MaintainedIsClean
  <1>1. RetentionInv => MaintainedIsClean
    BY DEF RetentionInv, MaintainInv
  <1>. QED
    BY <1>1, RetentionInvariance, PTL

\* With OPTIMIZE_DAYS at most RETENTION_DAYS, optimize and prune never work on the
\* same rows, if each of them ends within a day.
THEOREM OptimizeAndPruneApart == Spec => []JobsAreDisjoint
  <1>1. RetentionInv => JobsAreDisjoint
    <2>. SUFFICES ASSUME RetentionInv, OptimizeDays <= RetentionDays, RetentionDays > 0,
                         NEW p \in Pruners, Active(p), optimize.pc = "running"
                  PROVE  job[p].cutoff <= optimize.since
      BY DEF JobsAreDisjoint
    <2>. DEFINE s == job[p].started
                t == optimize.started
                span == (IF OptimizeDays < 1 THEN 1 ELSE OptimizeDays) - 1
    <2>1. s \in Int /\ t \in Int /\ now \in Int
      BY DEF RetentionInv, TypeOK, Run
    <2>2. s < t + DayLength
      BY <2>1, JobAssumption, TimeAssumption DEF RetentionInv, RunInv, OptimizeInv
    <2>3. job[p].cutoff = Midnight(Day(s) - RetentionDays) /\ optimize.since = Midnight(Day(t) - span)
      BY DEF RetentionInv, RunInv, OptimizeInv, partitionAlignedCutoff, optimizeWindowStart
    <2>. HIDE DEF s, t
    <2>4. Day(s) \in Int /\ Day(t) \in Int /\ Day(s) <= Day(t) + 1
      BY <2>1, <2>2, NextDay, BeforeMidnight
    <2>5. span \in Int /\ span + 1 <= RetentionDays /\ RetentionDays \in Int
      BY DaysAssumption
    <2>. HIDE DEF span
    <2>6. Day(s) - RetentionDays \in Int /\ Day(t) - span \in Int /\ Day(s) - RetentionDays <= Day(t) - span
      BY <2>4, <2>5
    <2>. QED
      BY <2>3, <2>6, MidnightsInOrder
  <1>. QED
    BY <1>1, RetentionInvariance, PTL

\* No step of any job deletes a row of today or of the RETENTION_DAYS days before it,
\* not even one that began before midnight or that fails half way.
THEOREM PruneKeepsRetained == Spec => RetainedRowsSurvive
  <1>. DEFINE Kept == \A r \in table \ table' : Day(r.created) < Day(now) - RetentionDays
  <1>1. ASSUME RetentionInv, NEW p \in Pruners, Active(p)
        PROVE  /\ Day(job[p].cutoff) \in Int
               /\ Day(job[p].cutoff) <= Day(now) - RetentionDays
               /\ \A r \in table : r.created < job[p].cutoff => Day(r.created) < Day(job[p].cutoff)
    <2>1. job[p].started \in Int /\ now \in Int /\ job[p].started <= now
      BY <1>1 DEF RetentionInv, TypeOK, Run, RunInv
    <2>2. job[p].cutoff = partitionAlignedCutoff(job[p].started)
      BY <1>1 DEF RetentionInv, RunInv
    <2>3. Day(job[p].cutoff) = Day(job[p].started) - RetentionDays
      BY <2>1, <2>2, CutoffType
    <2>4. \A r \in table : r.created < job[p].cutoff => Day(r.created) < Day(job[p].cutoff)
      BY <2>1, <2>2, <2>3, <1>1, RowType, BeforeCutoff DEF RetentionInv, TypeOK
    <2>. QED
      BY <2>1, <2>3, <2>4, DaysInOrder, BeforeMidnight, DaysAssumption, SMTT(30)
  <1>2. ASSUME RetentionInv, NEW p \in Pruners, Active(p), NEW r \in table,
               r.created < job[p].cutoff \/ Day(r.created) \in job[p].parts
        PROVE  Day(r.created) < Day(now) - RetentionDays
    <2>1. Day(r.created) < Day(job[p].cutoff)
      BY <1>1, <1>2 DEF RetentionInv, RunInv
    <2>2. Day(r.created) \in Int /\ Day(now) - RetentionDays \in Int
      BY <1>2, RowType, BeforeMidnight, DaysAssumption DEF RetentionInv, TypeOK
    <2>. QED
      BY <2>1, <2>2, <1>1, <1>2
  <1>3. ASSUME RetentionInv, [Next]_vars PROVE [Kept]_vars
    <2>. SUFFICES ASSUME Next, NEW r \in table \ table'
                  PROVE  Day(r.created) < Day(now) - RetentionDays
      BY <1>3
    <2>1. PICK p \in Pruners : TrinoDelete(p) \/ PruneFails(p) \/ \E d \in 0..Day(MaxTime) : DropPartition(p, d)
      BY DEF Next, Tick, OptimizeStart, OptimizeEnds, MaintainStart, MaintainDies, ExpireSnapshots,
             RemoveOrphanFiles, Store, PruneStart, ListPartitions, PruneEnds
    <2>2. Active(p)
      BY <2>1 DEF Active, TrinoDelete, PruneFails, DropPartition
    <2>3. r.created < job[p].cutoff \/ Day(r.created) \in job[p].parts
      BY <2>1 DEF TrinoDelete, PruneFails, DropPartition, Before, UnderWay
    <2>. QED
      BY <2>2, <2>3, <1>2, <1>3
  <1>. QED
    BY <1>3, RetentionInvariance, PTL DEF Spec, RetainedRowsSurvive
=============================================================================
