---------------------------- MODULE JobScheduler ----------------------------
(***************************************************************************)
(* The scheduler of the automation agents (automation/scheduler.go): cron  *)
(* ticks and "Run now" requests both end in execute, which holds the job's *)
(* in-process lock, records the run in job_runs, runs the job, records its *)
(* end and keeps only the newest runs of the job.  Any number of ticks and *)
(* requests are under way at once; a statement may fail, or take effect    *)
(* and have its answer lost; the process may stop anywhere.                *)
(***************************************************************************)
EXTENDS Naturals, FiniteSets

CONSTANTS
    Jobs,        \* the registered jobs, by name
    Required,    \* the jobs that cannot be disabled (CanDisable is false)
    Starters,    \* goroutines: cron ticks and "Run now" requests
    Nobody,      \* the holder of a free lock
    Keep,        \* maxRunsPerJob
    MaxRuns,     \* bound: runs started altogether
    MaxFaults    \* bound: failed statements and restarts

ASSUME NobodyAssumption == Nobody \notin Starters
ASSUME BoundsAssumption ==
    /\ Required \subseteq Jobs
    /\ Keep \in Nat \ {0}
    /\ MaxRuns \in Nat
    /\ MaxFaults \in Nat

VARIABLES
    enabled,     \* job_settings; a job without a row is enabled
    records,     \* job_runs: started_at -> the run's job and status
    starter,     \* what each goroutine is doing
    mutex,       \* running[job]: who holds the job's mutex
    clock,       \* started_at of the last run
    orphaned,    \* history: the runs whose end a fault kept from the table
    faults       \* faults so far

schedulerVars == <<enabled, records, starter, mutex, clock, orphaned, faults>>

Run == [job : Jobs, status : {"running", "ok", "failed"}]
Idle == [pc |-> "idle"]
Work == {Idle}
        \cup [pc : {"ready"}, job : Jobs]
        \cup [pc : {"start", "run", "finish", "prune"}, job : Jobs, run : 1..MaxRuns]
        \cup [pc : {"unrecorded"}, job : Jobs]

\* The steps of execute that hold the job's lock.
Held == {"start", "run", "unrecorded", "finish", "prune"}

SchedulerTypeOK ==
    /\ enabled \in [Jobs -> BOOLEAN]
    /\ DOMAIN records \subseteq 1..MaxRuns
    /\ \A r \in DOMAIN records : records[r] \in Run
    /\ starter \in [Starters -> Work]
    /\ mutex \in [Jobs -> Starters \cup {Nobody}]
    /\ clock \in 0..MaxRuns
    /\ orphaned \subseteq 1..MaxRuns
    /\ faults \in 0..MaxFaults

SchedulerInit ==
    /\ enabled = [j \in Jobs |-> TRUE]
    /\ records = [r \in {} |-> Idle]
    /\ starter = [g \in Starters |-> Idle]
    /\ mutex = [j \in Jobs |-> Nobody]
    /\ clock = 0
    /\ orphaned = {}
    /\ faults = 0

-----------------------------------------------------------------------------
(* The statements on job_runs. *)

\* CreateJobRun
WithRun(r, j) ==
    [i \in DOMAIN records \cup {r} |->
        IF i = r THEN [job |-> j, status |-> "running"] ELSE records[i]]

\* FinishJobRun: nothing is updated when the row is gone
WithEnd(r, s) ==
    [i \in DOMAIN records |->
        IF i = r THEN [records[i] EXCEPT !.status = s] ELSE records[i]]

NewerRuns(r) == {i \in DOMAIN records : i > r /\ records[i].job = records[r].job}

KeptOfAll(j) == {r \in DOMAIN records : Cardinality({i \in DOMAIN records : i > r}) < Keep}

KeptOneMore(j) ==
    {r \in DOMAIN records : records[r].job = j => Cardinality(NewerRuns(r)) <= Keep}

\* PruneJobRuns keeps the newest Keep runs of the job and those of the others
Kept(j) ==
    {r \in DOMAIN records : records[r].job = j => Cardinality(NewerRuns(r)) < Keep}

Pruned(j) == [r \in Kept(j) |-> records[r]]

-----------------------------------------------------------------------------
Goto(g, work) == starter' = [starter EXCEPT ![g] = work]

\* execute returns: the deferred Unlock
Return(g) ==
    /\ Goto(g, Idle)
    /\ mutex' = [mutex EXCEPT ![starter[g].job] = Nobody]

Fault == faults < MaxFaults /\ faults' = faults + 1

\* Service.SetEnabled
SetEnabled(j, on) ==
    /\ on \/ j \notin Required
    /\ enabled' = [enabled EXCEPT ![j] = on]
    /\ UNCHANGED <<records, starter, mutex, clock, orphaned, faults>>

\* runOne and RunNow up to the call of execute; a disabled job, or one whose
\* setting cannot be read, is left alone.
Check(g, j) ==
    /\ starter[g].pc = "idle"
    /\ enabled[j]
    /\ Goto(g, [pc |-> "ready", job |-> j])
    /\ UNCHANGED <<enabled, records, mutex, clock, orphaned, faults>>

\* execute: TryLock fails, the job is already running
Refuse(g) ==
    /\ starter[g].pc = "ready"
    /\ mutex[starter[g].job] # Nobody
    /\ Goto(g, Idle)
    /\ UNCHANGED <<enabled, records, mutex, clock, orphaned, faults>>

\* The result of TryLock is not looked at.
LockAnyway(g) ==
    /\ starter[g].pc = "ready"
    /\ clock < MaxRuns
    /\ clock' = clock + 1
    /\ mutex' = [mutex EXCEPT ![starter[g].job] = g]
    /\ Goto(g, [pc |-> "start", job |-> starter[g].job, run |-> clock'])
    /\ UNCHANGED <<enabled, records, orphaned, faults>>

\* execute: TryLock succeeds; the start is stamped under the lock
TryLock(g) ==
    /\ starter[g].pc = "ready"
    /\ mutex[starter[g].job] = Nobody
    /\ clock < MaxRuns
    /\ clock' = clock + 1
    /\ mutex' = [mutex EXCEPT ![starter[g].job] = g]
    /\ Goto(g, [pc |-> "start", job |-> starter[g].job, run |-> clock'])
    /\ UNCHANGED <<enabled, records, orphaned, faults>>

\* StartRun
StartRun(g) ==
    /\ starter[g].pc = "start"
    /\ records' = WithRun(starter[g].run, starter[g].job)
    /\ Goto(g, [starter[g] EXCEPT !.pc = "run"])
    /\ UNCHANGED <<enabled, mutex, clock, orphaned, faults>>

\* StartRun fails, with the row or without it: the job runs all the same
StartRunFails(g) ==
    /\ starter[g].pc = "start"
    /\ Fault
    /\ \/ UNCHANGED <<records, orphaned>>
       \/ /\ records' = WithRun(starter[g].run, starter[g].job)
          /\ orphaned' = orphaned \cup {starter[g].run}
    /\ Goto(g, [pc |-> "unrecorded", job |-> starter[g].job])
    /\ UNCHANGED <<enabled, mutex, clock>>

\* runJobRecovering returns: an error, a panic and a result end alike
JobEnds(g) ==
    /\ starter[g].pc = "run"
    /\ Goto(g, [starter[g] EXCEPT !.pc = "finish"])
    /\ UNCHANGED <<enabled, records, mutex, clock, orphaned, faults>>

\* The record is finished although its insert failed.
UnrecordedFinishes(g) ==
    /\ starter[g].pc = "unrecorded"
    /\ Goto(g, [starter[g] EXCEPT !.pc = "finish"])
    /\ UNCHANGED <<enabled, records, mutex, clock, orphaned, faults>>

\* ... of a run without a record: there is nothing to finish
UnrecordedEnds(g) ==
    /\ starter[g].pc = "unrecorded"
    /\ Return(g)
    /\ UNCHANGED <<enabled, records, clock, orphaned, faults>>

\* FinishRun, first statement
FinishRun(g) ==
    /\ starter[g].pc = "finish"
    /\ \E s \in {"ok", "failed"} : records' = WithEnd(starter[g].run, s)
    /\ Goto(g, [starter[g] EXCEPT !.pc = "prune"])
    /\ UNCHANGED <<enabled, mutex, clock, orphaned, faults>>

\* The mutex is released at the end of the success path only.
FinishRunFailsHolding(g) ==
    /\ starter[g].pc = "finish"
    /\ Fault
    /\ orphaned' = orphaned \cup {starter[g].run}
    /\ Goto(g, Idle)
    /\ UNCHANGED <<enabled, records, mutex, clock>>

\* FinishRun fails in its first statement, before or after it took effect
FinishRunFails(g) ==
    /\ starter[g].pc = "finish"
    /\ Fault
    /\ \/ /\ orphaned' = orphaned \cup {starter[g].run}
          /\ UNCHANGED records
       \/ /\ \E s \in {"ok", "failed"} : records' = WithEnd(starter[g].run, s)
          /\ UNCHANGED orphaned
    /\ Return(g)
    /\ UNCHANGED <<enabled, clock>>

\* FinishRun, second statement; execute returns
Prune(g) ==
    /\ starter[g].pc = "prune"
    /\ records' = Pruned(starter[g].job)
    /\ Return(g)
    /\ UNCHANGED <<enabled, clock, orphaned, faults>>

PruneFails(g) ==
    /\ starter[g].pc = "prune"
    /\ Fault
    /\ Return(g)
    /\ UNCHANGED <<enabled, records, clock, orphaned>>

\* The process stops and is started again: the locks go, the table stays.
Restart ==
    /\ Fault
    /\ starter' = [g \in Starters |-> Idle]
    /\ mutex' = [j \in Jobs |-> Nobody]
    /\ orphaned' = orphaned \cup {r \in DOMAIN records : records[r].status = "running"}
    /\ UNCHANGED <<enabled, records, clock>>

Execute(g) ==
    \/ StartRun(g)
    \/ StartRunFails(g)
    \/ JobEnds(g)
    \/ UnrecordedEnds(g)
    \/ FinishRun(g)
    \/ FinishRunFails(g)
    \/ Prune(g)
    \/ PruneFails(g)

SchedulerNext ==
    \/ \E j \in Jobs, on \in BOOLEAN : SetEnabled(j, on)
    \/ \E g \in Starters, j \in Jobs : Check(g, j)
    \/ \E g \in Starters : Refuse(g) \/ TryLock(g) \/ Execute(g)
    \/ Restart

SchedulerSpec == SchedulerInit /\ [][SchedulerNext]_schedulerVars

\* Every job ends: runTimeout bounds it, and finishRunTimeout the bookkeeping.
FairSchedulerSpec == SchedulerSpec /\ \A g \in Starters : WF_schedulerVars(Execute(g))

-----------------------------------------------------------------------------
(* Properties. *)

Executing(g, j) == starter[g].pc \in Held /\ starter[g].job = j

\* A tick and a "Run now" never run the same job at once, whatever failed
\* before: the lock is given back on every path of execute and only by the
\* goroutine that took it.
OneAtATime ==
    \A j \in Jobs :
        /\ \A g, h \in Starters : Executing(g, j) /\ Executing(h, j) => g = h
        /\ mutex[j] # Nobody <=> \E g \in Starters : Executing(g, j)

\* The history of the Automation panel is true: a run shown as running is
\* being run now, unless a fault lost its end; and a run under way that was
\* recorded is still there, shown as running, however many runs of this and
\* the other jobs were pruned meanwhile.
HistoryTrue ==
    /\ \A r \in DOMAIN records \ orphaned :
           records[r].status = "running" =>
               \E g \in Starters :
                   starter[g].pc \in {"run", "finish"} /\ starter[g].run = r
    /\ \A g \in Starters :
           starter[g].pc \in {"run", "finish"} =>
               /\ starter[g].run \in DOMAIN records
               /\ records[starter[g].run] = [job |-> starter[g].job, status |-> "running"]

\* The table does not grow: a job has at most Keep runs, the one under way,
\* and one more for every statement that failed.
HistoryBounded ==
    \A j \in Jobs :
        Cardinality({r \in DOMAIN records : records[r].job = j}) <= Keep + 1 + faults

\* A job that runs gives its lock back, so that it can run again.
EveryRunEnds ==
    \A j \in Jobs : mutex[j] # Nobody ~> mutex[j] = Nobody

(* A job runs once at a time, and its history is short and true.            *)
HistoryConsistent ==
    /\ SchedulerTypeOK
    /\ OneAtATime
    /\ HistoryTrue
    /\ HistoryBounded

=============================================================================
