------------------------------ MODULE Retention -----------------------------
(***************************************************************************)
(* The jobs that run beside the service: prune (internal/prune, and Prune  *)
(* of both stores), optimize and maintain (main.go, trino.go).  Each run   *)
(* is its own process; a run may overlap others, the writes of the service *)
(* and midnight, and may fail or be killed between any two statements.     *)
(*                                                                         *)
(* Trino deletes with one statement.  ClickHouse first lists the day       *)
(* partitions that lie before the cutoff and then drops them one by one.   *)
(* On Iceberg what is deleted stays in older snapshots, and a statement    *)
(* that fails may leave files behind: that is what maintain is for.        *)
(***************************************************************************)
EXTENDS Integers, FiniteSets, Sequences

CONSTANTS Ids,            \* queries
          Pruners,        \* runs of prune that may overlap
          RetentionDays,  \* RETENTION_DAYS
          OptimizeDays,   \* OPTIMIZE_DAYS
          MaintainRetention, \* MAINTAIN_RETENTION, in ticks
          DayLength,      \* ticks of a day
          MaxTime,        \* bound on the clock
          JobLength       \* bound on how long a job runs

\* validate rejects negative numbers of days.
ASSUME DaysAssumption == RetentionDays \in Nat /\ OptimizeDays \in Nat
ASSUME TimeAssumption == DayLength \in Nat \ {0} /\ {MaxTime, MaintainRetention} \subseteq Nat
\* The contexts end a prune after 10 minutes and an optimize after 30.
ASSUME JobAssumption == JobLength \in Nat /\ JobLength < DayLength

Time == 0..MaxTime
Row == [id : Ids, created : Time]

Day(t) == t \div DayLength
Midnight(day) == day * DayLength

VARIABLES backend,    \* STORE_BACKEND
          now, table,
          job,        \* the state of each run of prune
          optimize,   \* the state of the optimize job
          maintain,   \* the state of the maintain job
          relic,      \* one of the things that maintain removes, or NoRelic
          doomed      \* history: rows each run of prune found in the table and has to delete

vars == <<backend, now, table, job, optimize, maintain, relic, doomed>>

\* The model follows one relic at a time, whichever it is: a snapshot that still holds
\* deleted rows, or a file that no snapshot has.
NoRelic == [kind |-> "none", since |-> 0]

\* A run that ended leaves nothing behind it but what its statements did, and its exit code.
Ended(pc) == [pc |-> pc, started |-> 0, cutoff |-> 0, parts |-> {}]
Idle == Ended("idle")

NotOptimizing == [pc |-> "idle", started |-> 0, since |-> 0]
Unmaintained == [pc |-> "idle", started |-> 0, errs |-> 0]

Init == /\ backend \in {"trino", "clickhouse"}
        /\ now = 0 /\ table = {}
        /\ job = [p \in Pruners |-> Idle]
        /\ optimize = NotOptimizing
        /\ maintain = Unmaintained
        /\ relic = NoRelic
        /\ doomed = [p \in Pruners |-> {}]

-----------------------------------------------------------------------------
(* prune.                                                                  *)

partitionAlignedCutoff(t) == Midnight(Day(t) - RetentionDays)

Before(cutoff) == {r \in table : r.created < cutoff}

PruneStart(p) ==
    /\ job[p].pc \in {"idle", "ok"}
    /\ LET cutoff == partitionAlignedCutoff(now) IN
       /\ job' = [job EXCEPT ![p] = [pc |-> "running", started |-> now, cutoff |-> cutoff, parts |-> {}]]
       /\ doomed' = [doomed EXCEPT ![p] = Before(Midnight(Day(now) - RetentionDays))]
    /\ UNCHANGED <<backend, now, table, optimize, maintain, relic>>

\* What a statement leaves behind on Iceberg, kind by kind.
Left(kinds) == {relic} \cup
    (IF backend = "trino" /\ relic = NoRelic THEN {[kind |-> k, since |-> now] : k \in kinds} ELSE {})

\* TrinoStore.Prune: DELETE ... WHERE create_time < cutoff.
TrinoDelete(p) ==
    /\ backend = "trino" /\ job[p].pc = "running"
    /\ table' = table \ Before(job[p].cutoff)
    /\ relic' \in Left(IF table' # table THEN {"snapshot"} ELSE {})
    /\ job' = [job EXCEPT ![p] = Ended("ok")]
    /\ UNCHANGED <<backend, now, optimize, maintain, doomed>>

\* Mutant: the partition of the cutoff is listed, too.
partitionsBefore_Inclusive(cutoff) ==
    {d \in {Day(r.created) : r \in table} : d <= Day(cutoff)}

\* The active partitions whose id sorts before the one of the cutoff.
partitionsBefore(cutoff) == {d \in {Day(r.created) : r \in table} : d < Day(cutoff)}

ListPartitions(p) ==
    /\ backend = "clickhouse" /\ job[p].pc = "running"
    /\ job' = [job EXCEPT ![p].pc = "dropping", ![p].parts = partitionsBefore(job[p].cutoff)]
    /\ UNCHANGED <<backend, now, table, optimize, maintain, relic, doomed>>

\* Mutant: a run ends after the first partition.
DropPartition_Once(p, d) ==
    /\ job[p].pc = "dropping"
    /\ d \in job[p].parts /\ \A e \in job[p].parts : d <= e
    /\ table' = {r \in table : Day(r.created) # d}
    /\ job' = [job EXCEPT ![p].parts = {}]
    /\ UNCHANGED <<backend, now, optimize, maintain, relic, doomed>>

\* ALTER TABLE ... DROP PARTITION ID, oldest first; a partition that another run has
\* dropped is not an error.
DropPartition(p, d) ==
    /\ job[p].pc = "dropping"
    /\ d \in job[p].parts /\ \A e \in job[p].parts : d <= e
    /\ table' = {r \in table : Day(r.created) # d}
    /\ job' = [job EXCEPT ![p].parts = @ \ {d}]
    /\ UNCHANGED <<backend, now, optimize, maintain, relic, doomed>>

PruneEnds(p) ==
    /\ job[p].pc = "dropping" /\ job[p].parts = {}
    /\ job' = [job EXCEPT ![p] = Ended("ok")]
    /\ UNCHANGED <<backend, now, table, optimize, maintain, relic, doomed>>

\* The rows that the statement under way deletes.
UnderWay(p) ==
    {r \in table :
        \/ backend = "trino" /\ r.created < job[p].cutoff
        \/ Day(r.created) \in job[p].parts /\ \A e \in job[p].parts : Day(r.created) <= e}

\* A statement fails, or the job is killed or runs out of time.  What was dropped
\* stays dropped, and the server may yet have run the last statement.
PruneFails(p) ==
    /\ job[p].pc \in {"running", "dropping"}
    /\ table' \in {table, table \ UnderWay(p)}
    /\ relic' \in Left(IF table' # table THEN {"snapshot"} ELSE {"file"})
    /\ job' = [job EXCEPT ![p] = Idle]
    /\ doomed' = [doomed EXCEPT ![p] = {}]
    /\ UNCHANGED <<backend, now, optimize, maintain>>

-----------------------------------------------------------------------------
(* optimize; it does nothing on ClickHouse.                                *)

\* Mutant: today does not count.
optimizeWindowStart_NotToday(t) == Midnight(Day(t) - OptimizeDays)

\* The window includes today, even when OPTIMIZE_DAYS is 0.
optimizeWindowStart(t) == Midnight(Day(t) - ((IF OptimizeDays < 1 THEN 1 ELSE OptimizeDays) - 1))

OptimizeStart == /\ backend = "trino" /\ optimize.pc = "idle"
                 /\ optimize' = [pc |-> "running", started |-> now, since |-> optimizeWindowStart(now)]
                 /\ UNCHANGED <<backend, now, table, job, maintain, relic, doomed>>

\* The files are rewritten, or the statement fails; the rows stay the same.
OptimizeEnds == /\ optimize.pc = "running"
                /\ optimize' = NotOptimizing
                /\ UNCHANGED <<backend, now, table, job, maintain, relic, doomed>>

-----------------------------------------------------------------------------
(* maintain; it does nothing on ClickHouse.                                *)

MaintainStart ==
    /\ backend = "trino" /\ maintain.pc \in {"idle", "ok"}
    /\ maintain' = [pc |-> "expiring", started |-> now, errs |-> 0]
    /\ UNCHANGED <<backend, now, table, job, optimize, relic, doomed>>

\* EXECUTE removes what is older than the threshold, of one kind; a statement that
\* fails may have run.
Execute(kind, ok) ==
    LET gone == relic.kind = kind /\ relic.since < now - MaintainRetention
    IN  relic' \in (IF gone THEN {NoRelic} ELSE {relic}) \cup (IF ok THEN {} ELSE {relic})

\* expire_snapshots; ok says whether it is answered.  If not, the second is tried.
ExpireSnapshots(ok) ==
    /\ maintain.pc = "expiring" /\ Execute("snapshot", ok)
    /\ maintain' = [maintain EXCEPT !.pc = "cleaning", !.errs = IF ok THEN @ ELSE @ + 1]
    /\ UNCHANGED <<backend, now, table, job, optimize, doomed>>

\* Mutant: only the error of the last statement is returned.
RemoveOrphanFiles_LastError(ok) ==
    /\ maintain.pc = "cleaning" /\ Execute("file", ok)
    /\ maintain' = IF ok THEN [maintain EXCEPT !.pc = "ok", !.errs = 0] ELSE Unmaintained
    /\ UNCHANGED <<backend, now, table, job, optimize, doomed>>

\* remove_orphan_files, and errors.Join.
RemoveOrphanFiles(ok) ==
    /\ maintain.pc = "cleaning" /\ Execute("file", ok)
    /\ maintain' = IF ok /\ maintain.errs = 0 THEN [maintain EXCEPT !.pc = "ok"] ELSE Unmaintained
    /\ UNCHANGED <<backend, now, table, job, optimize, doomed>>

\* The job is killed.
MaintainDies ==
    /\ maintain.pc \in {"expiring", "cleaning"}
    /\ maintain' = Unmaintained
    /\ UNCHANGED <<backend, now, table, job, optimize, relic, doomed>>

-----------------------------------------------------------------------------
\* The service stores a query, perhaps days after it was created.
Store(r) == /\ r.created <= now
            /\ \A o \in table \cup UNION {doomed[p] : p \in Pruners} : o.id # r.id
            /\ table' = table \cup {r}
            /\ UNCHANGED <<backend, now, job, optimize, maintain, relic, doomed>>

Active(p) == job[p].pc \in {"running", "dropping"}

Tick == /\ now < MaxTime
        /\ \A p \in Pruners : Active(p) => now < job[p].started + JobLength
        /\ optimize.pc = "running" => now < optimize.started + JobLength
        /\ maintain.pc \in {"expiring", "cleaning"} => now < maintain.started + JobLength
        /\ now' = now + 1
        /\ UNCHANGED <<backend, table, job, optimize, maintain, relic, doomed>>

Next == \/ Tick \/ OptimizeStart \/ OptimizeEnds \/ MaintainStart \/ MaintainDies
        \/ \E ok \in BOOLEAN : ExpireSnapshots(ok) \/ RemoveOrphanFiles(ok)
        \/ \E r \in Row : Store(r)
        \/ \E p \in Pruners : \/ PruneStart(p) \/ TrinoDelete(p) \/ ListPartitions(p)
                              \/ PruneEnds(p) \/ PruneFails(p)
                              \/ \E d \in 0..Day(MaxTime) : DropPartition(p, d)

Spec == Init /\ [][Next]_vars

-----------------------------------------------------------------------------
(* Properties.                                                             *)

\* RETENTION_DAYS: "2 keeps today plus the two previous UTC days and 0 keeps today
\* only".  No step deletes a row of these days, reckoned from the day of the step,
\* whenever the runs began and whatever was stored or dropped since.
RetainedRowsSurvive ==
    [][\A r \in table \ table' : Day(r.created) < Day(now) - RetentionDays]_vars

\* A run of prune that reports success has deleted every row that was too old when
\* it began, on either backend, also when other runs drop the same partitions.
SuccessIsComplete == \A p \in Pruners : job[p].pc = "ok" => doomed[p] \cap table = {}

\* A run of maintain that reports success has done both its steps: of what was deleted,
\* or left behind by a statement that failed, longer than MAINTAIN_RETENTION before it
\* began, nothing is left.
MaintainedIsClean ==
    maintain.pc = "ok" => relic = NoRelic \/ relic.since >= maintain.started - MaintainRetention

\* optimize and prune do not work on the same rows, even when one began before
\* midnight and the other after it, if OPTIMIZE_DAYS is at most RETENTION_DAYS:
\* Iceberg would make one of two overlapping commits fail.
JobsAreDisjoint ==
    OptimizeDays <= RetentionDays /\ RetentionDays > 0 =>
        \A p \in Pruners : Active(p) /\ optimize.pc = "running" => job[p].cutoff <= optimize.since
=============================================================================
