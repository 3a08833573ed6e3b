--------------------------- MODULE ReportScheduler ---------------------------
(***************************************************************************)
(* Report jobs: the ten-second scheduler pass of reports/scheduler.rs, the *)
(* self-service handlers of reports/handlers.rs that write the same rows,  *)
(* process crashes and failing database statements.                        *)
(*                                                                         *)
(* Every SQL statement is one action, because the pass and the handlers    *)
(* run outside any transaction: between two statements of one of them any  *)
(* other may run.  The scheduler is a single task, so its program counter, *)
(* its snapshot of the batch and the job in hand are plain variables.      *)
(***************************************************************************)
EXTENDS Naturals, FiniteSets

CONSTANTS
    Job,         \* job rows, numbered in the order of created_at
    Request,     \* HTTP requests of the jobs' owners that may be in flight
    BatchLimit,  \* LIMIT of the batch query (5 in the code)
    Periods,     \* cron schedules, as a period in minutes; 0 is "no cron"
    MaxTime,     \* bound: last minute of the clock
    MaxCalls,    \* bound: run-now and cancel requests admitted
    MaxFaults    \* bound: crashes and failing statements of the scheduler

ASSUME JobAssumption == Job \subseteq Nat \ {0}
ASSUME LimitAssumption == BatchLimit \in Nat \ {0}
ASSUME PeriodAssumption == Periods \subseteq Nat
ASSUME BoundAssumption ==
    MaxTime \in Nat /\ MaxCalls \in Nat /\ MaxFaults \in Nat

VARIABLES
    job,       \* the rows of report_jobs
    pc,        \* where the scheduler's pass stands
    due,       \* cron candidates whose next fire has come, still to re-arm
    batch,     \* jobs of the batch query still to be processed
    snap,      \* retry_count of each batched job as the batch query read it
    cur,       \* the job in hand
    req,       \* handlers between their SELECT and their UPDATE
    now,       \* minutes since start
    calls,     \* requests admitted so far
    faults,    \* crashes and failed statements so far
    files,     \* files[j]: the numbers of j's runs whose artifact is on disk
    runs,      \* runs[j]: runs of j started so far (history)
    attempts,  \* attempts[j]: runs of j since it was last armed (history)
    notices    \* notices[j]: runs whose report.done notification was inserted

rowVars  == <<job>>
passVars == <<pc, due, batch, snap, cur>>
histVars == <<files, runs, attempts, notices>>
vars == <<job, pc, due, batch, snap, cur, req, now, calls, faults,
          files, runs, attempts, notices>>

Status == {"scheduled", "running", "done", "failed", "cancelled"}
Phase  == {"idle", "promoted", "rearm", "work", "render",
           "rendered", "broken", "notify"}

\* Columns of a row.  ref is last_run_at, or created_at before the first run;
\* artifact is the number of the run last_artifact_path points at, 0 for NULL.
Row == [status : Status \cup {"absent"}, retry : Nat,
        cron : Periods \cup {0}, ref : Nat, artifact : Nat]

NoRow == [status |-> "absent", retry |-> 0, cron |-> 0, ref |-> 0,
          artifact |-> 0]

Idle == [op |-> "none", job |-> 0]
Call == [op : {"run", "cancel"}, job : Job] \cup {Idle}

TypeOK ==
    /\ job \in [Job -> Row]
    /\ pc \in Phase
    /\ due \subseteq Job
    /\ batch \subseteq Job
    /\ snap \in [Job -> Nat]
    /\ cur \in Job \cup {0}
    /\ req \in [Request -> Call]
    /\ now \in Nat /\ calls \in Nat /\ faults \in Nat
    /\ files \in [Job -> SUBSET Nat]
    /\ runs \in [Job -> Nat]
    /\ attempts \in [Job -> Nat]
    /\ notices \in [Job -> SUBSET Nat]

Init ==
    /\ job = [j \in Job |-> NoRow]
    /\ pc = "idle"
    /\ due = {} /\ batch = {} /\ cur = 0
    /\ snap = [j \in Job |-> 0]
    /\ req = [r \in Request |-> Idle]
    /\ now = 0 /\ calls = 0 /\ faults = 0
    /\ files = [j \in Job |-> {}]
    /\ runs = [j \in Job |-> 0]
    /\ attempts = [j \in Job |-> 0]
    /\ notices = [j \in Job |-> {}]

-----------------------------------------------------------------------------
(* The table *)

\* One UPDATE of one row.
Update(j, row) == job' = [job EXCEPT ![j] = row]

Present == {j \in Job : job[j].status # "absent"}

\* The first fire of a schedule strictly after the reference minute.
NextFire(period, ref) == (ref \div period + 1) * period

\* Jobs the cron query returns: a schedule, and a run that has ended.
CronEnded(j) ==
    \/ job[j].status \in {"done", "cancelled"}
    \/ job[j].status = "failed" /\ job[j].retry >= 1

CronDue(j) ==
    /\ job[j].cron # 0
    /\ CronEnded(j)
    /\ now >= NextFire(job[j].cron, job[j].ref)

\* Slip: the limit is off by one.
OldestShort(S) == {j \in S : Cardinality({k \in S : k <= j}) < BatchLimit}

\* The BatchLimit oldest of a set of jobs.
Oldest(S) == {j \in S : Cardinality({k \in S : k < j}) < BatchLimit}

-----------------------------------------------------------------------------
(* Handlers *)

\* POST /reports/jobs: one INSERT.  Rows are numbered in created_at order.
CreateJob(j, period) ==
    /\ job[j].status = "absent"
    /\ \A k \in Job : k < j => job[k].status # "absent"
    /\ Update(j, [status |-> "scheduled", retry |-> 0, cron |-> period,
                  ref |-> now, artifact |-> 0])
    /\ attempts' = [attempts EXCEPT ![j] = 0]
    /\ UNCHANGED <<passVars, req, now, calls, faults, files, runs, notices>>

\* fetch_job of run_now, with the statuses it refuses.
FetchForRun(r, j) ==
    /\ req[r] = Idle
    /\ calls < MaxCalls
    /\ job[j].status \notin {"absent", "running", "cancelled"}
    /\ req' = [req EXCEPT ![r] = [op |-> "run", job |-> j]]
    /\ calls' = calls + 1
    /\ UNCHANGED <<rowVars, passVars, now, faults, histVars>>

\* The unguarded UPDATE of run_now.
WriteRun(r) ==
    /\ req[r].op = "run"
    /\ LET j == req[r].job IN
         /\ Update(j, [job[j] EXCEPT !.status = "scheduled", !.retry = 0])
         /\ attempts' = [attempts EXCEPT ![j] = 0]
    /\ req' = [req EXCEPT ![r] = Idle]
    /\ UNCHANGED <<passVars, now, calls, faults, files, runs, notices>>

\* fetch_job of cancel_job, which refuses a running job only.
FetchForCancel(r, j) ==
    /\ req[r] = Idle
    /\ calls < MaxCalls
    /\ job[j].status \notin {"absent", "running"}
    /\ req' = [req EXCEPT ![r] = [op |-> "cancel", job |-> j]]
    /\ calls' = calls + 1
    /\ UNCHANGED <<rowVars, passVars, now, faults, histVars>>

\* Slip: the status is spelt as docs/design.md spells it elsewhere.
WriteCancelSpelt(r) ==
    /\ req[r].op = "cancel"
    /\ Update(req[r].job, [job[req[r].job] EXCEPT !.status = "canceled"])
    /\ req' = [req EXCEPT ![r] = Idle]
    /\ UNCHANGED <<passVars, now, calls, faults, histVars>>

\* The unguarded UPDATE of cancel_job.
WriteCancel(r) ==
    /\ req[r].op = "cancel"
    /\ Update(req[r].job, [job[req[r].job] EXCEPT !.status = "cancelled"])
    /\ req' = [req EXCEPT ![r] = Idle]
    /\ UNCHANGED <<passVars, now, calls, faults, histVars>>

\* The three-second budget drops a handler between its two statements.
DropRequest(r) ==
    /\ req[r] # Idle
    /\ req' = [req EXCEPT ![r] = Idle]
    /\ UNCHANGED <<rowVars, passVars, now, calls, faults, histVars>>

-----------------------------------------------------------------------------
(* The scheduler's pass *)

Retryable(row) == row.status = "failed" /\ row.retry < 1

\* Failed jobs that have not used their retry go back to scheduled.
Promote ==
    /\ pc = "idle"
    /\ pc' = "promoted"
    /\ job' = [j \in Job |->
                 IF Retryable(job[j])
                 THEN [job[j] EXCEPT !.status = "scheduled"]
                 ELSE job[j]]
    /\ UNCHANGED <<due, batch, snap, cur, req, now, calls, faults, histVars>>

\* The cron query, and the comparison of every candidate with one clock read.
CronSelect ==
    /\ pc = "promoted"
    /\ pc' = "rearm"
    /\ due' = {j \in Job : CronDue(j)}
    /\ UNCHANGED <<rowVars, batch, snap, cur, req, now, calls, faults, histVars>>

\* One candidate's guarded UPDATE: nothing happens unless its run has still
\* ended.  The candidates come in no particular order.
CronRearm(j) ==
    /\ pc = "rearm"
    /\ j \in due
    /\ due' = due \ {j}
    /\ IF CronEnded(j)
       THEN /\ Update(j, [job[j] EXCEPT !.status = "scheduled", !.retry = 0])
            /\ attempts' = [attempts EXCEPT ![j] = 0]
       ELSE UNCHANGED <<job, attempts>>
    /\ UNCHANGED <<pc, batch, snap, cur, req, now, calls, faults,
                   files, runs, notices>>

\* SELECT ... WHERE status='scheduled' ORDER BY created_at LIMIT 5.
SelectBatch ==
    /\ pc = "rearm"
    /\ due = {}
    /\ pc' = "work"
    /\ batch' = Oldest({j \in Job : job[j].status = "scheduled"})
    /\ snap' = [j \in Job |-> IF j \in batch' THEN job[j].retry ELSE 0]
    /\ UNCHANGED <<rowVars, due, cur, req, now, calls, faults, histVars>>

\* The next job of the batch is marked running, whatever its status is now.
MarkRunning(j) ==
    /\ pc = "work"
    /\ j \in batch
    /\ \A k \in batch : j <= k
    /\ pc' = "render"
    /\ batch' = batch \ {j}
    /\ cur' = j
    /\ Update(j, [job[j] EXCEPT !.status = "running", !.ref = now])
    /\ runs' = [runs EXCEPT ![j] = @ + 1]
    /\ attempts' = [attempts EXCEPT ![j] = @ + 1]
    /\ UNCHANGED <<due, snap, req, now, calls, faults, files, notices>>

\* The data is built and the artifact written to the runtime directory.
RenderOk ==
    /\ pc = "render"
    /\ pc' = "rendered"
    /\ files' = [files EXCEPT ![cur] = @ \cup {runs[cur]}]
    /\ UNCHANGED <<rowVars, due, batch, snap, cur, req, now, calls, faults,
                   runs, attempts, notices>>

\* Slip: the error of a render leaves the pass through "?".
RenderFailsEscapes ==
    /\ pc = "render"
    /\ pc' = "idle"
    /\ batch' = {} /\ cur' = 0
    /\ UNCHANGED <<rowVars, due, snap, req, now, calls, faults, histVars>>

\* Slip: the error of a render is only logged.
RenderFailsIgnored ==
    /\ pc = "render"
    /\ pc' = "rendered"
    /\ UNCHANGED <<rowVars, due, batch, snap, cur, req, now, calls, faults,
                   histVars>>

\* Building the data or rendering it fails.
RenderFails ==
    /\ pc = "render"
    /\ pc' = "broken"
    /\ UNCHANGED <<rowVars, due, batch, snap, cur, req, now, calls, faults,
                   histVars>>

\* UPDATE ... SET status='done', whatever the status is now.
FinishDone ==
    /\ pc = "rendered"
    /\ pc' = "notify"
    /\ Update(cur, [job[cur] EXCEPT !.status = "done", !.ref = now,
                                   !.artifact = runs[cur]])
    /\ UNCHANGED <<due, batch, snap, cur, req, now, calls, faults, histVars>>

\* Slip: the attempt is not counted.
FinishFailedUncounted ==
    /\ pc = "broken"
    /\ pc' = "work"
    /\ cur' = 0
    /\ Update(cur, [job[cur] EXCEPT !.status = "failed", !.retry = snap[cur]])
    /\ UNCHANGED <<due, batch, snap, req, now, calls, faults, histVars>>

\* Slip: the owner is notified of a failed run as of any other.
FinishFailedNotifies ==
    /\ pc = "broken"
    /\ pc' = "notify"
    /\ Update(cur, [job[cur] EXCEPT !.status = "failed",
                                   !.retry = snap[cur] + 1])
    /\ UNCHANGED <<due, batch, snap, cur, req, now, calls, faults, histVars>>

\* Slip: a failed run resets last_artifact_path.
FinishFailedClears ==
    /\ pc = "broken"
    /\ pc' = "work"
    /\ cur' = 0
    /\ Update(cur, [job[cur] EXCEPT !.status = "failed", !.artifact = 0,
                                   !.retry = snap[cur] + 1])
    /\ UNCHANGED <<due, batch, snap, req, now, calls, faults, histVars>>

\* UPDATE ... SET status='failed', retry_count = the batched count plus one.
FinishFailed ==
    /\ pc = "broken"
    /\ pc' = "work"
    /\ cur' = 0
    /\ Update(cur, [job[cur] EXCEPT !.status = "failed",
                                   !.retry = snap[cur] + 1])
    /\ UNCHANGED <<due, batch, snap, req, now, calls, faults, histVars>>

\* notify_owner: the notification is inserted, or its error is only logged.
NotifyOwner(sent) ==
    /\ pc = "notify"
    /\ pc' = "work"
    /\ cur' = 0
    /\ notices' = IF sent
                  THEN [notices EXCEPT ![cur] = @ \cup {runs[cur]}]
                  ELSE notices
    /\ UNCHANGED <<rowVars, due, batch, snap, req, now, calls, faults,
                   files, runs, attempts>>

\* The batch is done; the loop sleeps ten seconds and starts over.
EndPass ==
    /\ pc = "work"
    /\ batch = {}
    /\ pc' = "idle"
    /\ UNCHANGED <<rowVars, due, batch, snap, cur, req, now, calls, faults,
                   histVars>>

\* A statement of the pass fails: "?" leaves run_due_jobs, the loop logs the
\* error and starts a new pass.
PassError ==
    /\ pc \notin {"render", "notify"}
    /\ faults < MaxFaults
    /\ faults' = faults + 1
    /\ pc' = "idle"
    /\ due' = {} /\ batch' = {} /\ cur' = 0
    /\ UNCHANGED <<rowVars, snap, req, now, calls, histVars>>

\* The process stops and starts again: only the database and the files stay.
Crash ==
    /\ faults < MaxFaults
    /\ faults' = faults + 1
    /\ pc' = "idle"
    /\ due' = {} /\ batch' = {} /\ cur' = 0
    /\ req' = [r \in Request |-> Idle]
    /\ UNCHANGED <<rowVars, snap, now, calls, histVars>>

Tick ==
    /\ now < MaxTime
    /\ now' = now + 1
    /\ UNCHANGED <<rowVars, passVars, req, calls, faults, histVars>>

-----------------------------------------------------------------------------
Scheduler ==
    \/ Promote
    \/ CronSelect
    \/ \E j \in Job : CronRearm(j)
    \/ SelectBatch
    \/ \E j \in Job : MarkRunning(j)
    \/ RenderOk
    \/ RenderFails
    \/ FinishDone
    \/ FinishFailed
    \/ \E sent \in BOOLEAN : NotifyOwner(sent)
    \/ EndPass

Handlers ==
    \/ \E j \in Job, p \in Periods : CreateJob(j, p)
    \/ \E r \in Request, j \in Job : FetchForRun(r, j)
    \/ \E r \in Request, j \in Job : FetchForCancel(r, j)
    \/ \E r \in Request : WriteRun(r)
    \/ \E r \in Request : WriteCancel(r)
    \/ \E r \in Request : DropRequest(r)

Next == Scheduler \/ Handlers \/ PassError \/ Crash \/ Tick

Spec == Init /\ [][Next]_vars

\* The spawned loop never ends, so the scheduler always takes its next step;
\* nothing obliges owners to call or the clock to stay within its bound.
FairSpec == Spec /\ WF_vars(Scheduler)

-----------------------------------------------------------------------------
(* Properties *)

\* A retry is granted at most once: retry_count never passes one, a job
\* waiting in the queue has none on record, and since it was last armed (by
\* its creation, by run-now or by cron) it has run at most twice, across
\* crashes and whatever handlers wrote meanwhile.
RetryBudget ==
    \A j \in Present :
        /\ job[j].retry <= 1
        /\ job[j].status = "scheduled" => job[j].retry = 0
        /\ attempts[j] <= 2

\* What get_artifact serves: a job that is done has an artifact, and the
\* path any job carries names a file that some run of it did write.
ArtifactOnDisk ==
    \A j \in Present :
        /\ job[j].status = "done" => job[j].artifact # 0
        /\ job[j].artifact # 0 => job[j].artifact \in files[j]

\* While no statement failed and no process died, a job marked running is the
\* one the scheduler has in hand: nothing is left behind, though handlers
\* write the same column at any moment.
RunningIsInHand ==
    faults = 0 =>
        \A j \in Present : job[j].status = "running" =>
            cur = j /\ pc \in {"render", "rendered", "broken"}

\* The owner is told of an artifact only once the row points at it or at a
\* later one: the notification's link is never ahead of the row.
NoticeFollowsRow ==
    \A j \in Job : \A n \in notices[j] :
        n \in files[j] /\ n <= job[j].artifact

\* The row never goes back to an older artifact, whatever failed or was
\* cancelled since.
ArtifactNeverRegresses ==
    [][\A j \in Job : job'[j].artifact >= job[j].artifact]_vars

\* A job in the queue leaves it: the oldest-first batch of limited size does
\* not pass over it for ever, as long as requests and fires are finitely many.
QueueDrains ==
    \A j \in Job : (job[j].status = "scheduled") ~> (job[j].status # "scheduled")

-----------------------------------------------------------------------------
(* What the documentation promises and the code does not do *)

\* docs/design.md rule 15: "one transient retry, then failed".  A job failed
\* for good has been run twice.
OneTransientRetry ==
    \A j \in Present :
        job[j].status = "failed" /\ job[j].retry >= 1 => attempts[j] >= 2

\* docs/design.md: "restart resumes from DB".  A running job gets out of
\* that status even if the process died in the middle of its run.
RestartResumes ==
    \A j \in Job : (job[j].status = "running") ~> (job[j].status # "running")

\* handlers.rs refuses run-now with "cannot run a cancelled job": a cancelled
\* job is not started.
CancelledNotRun ==
    [][\A j \in Job :
         job[j].status = "cancelled" => job'[j].status # "running"]_vars
=============================================================================
