--------------------- MODULE ReportsAndAlgorithmsProofs ---------------------
(***************************************************************************)
(* Safety of ReportScheduler for any number of jobs, requests, faults and  *)
(* calls, any schedules and any batch limit; and what the algorithms       *)
(* promise, for every input: the next run of a cron expression, the rows   *)
(* of an import, the scores of candidates, the formulas of metrics, the    *)
(* queries of the KPIs.                                                    *)
(***************************************************************************)
EXTENDS ReportScheduler, Algorithms, SequenceTheorems, FiniteSetTheorems,
        WellFoundedInduction, TLAPS

\* The pass has a job in hand.
Working == pc \in {"render", "rendered", "broken", "notify"}

\* The job in hand exists, has been started, and its batched count is zero;
\* once rendered its artifact is on disk, once stored the row points at it.
InHand ==
    Working =>
        /\ cur \in Job
        /\ job[cur].status # "absent"
        /\ runs[cur] >= 1
        /\ snap[cur] = 0
        /\ pc \in {"rendered", "notify"} => runs[cur] \in files[cur]
        /\ pc = "notify" => job[cur].artifact = runs[cur]

\* A failure is always recorded with one retry used, so nothing is promoted
\* and whatever waits in the queue or the batch has not run since its arming.
RetryInv ==
    \A j \in Job :
        /\ job[j].retry <= 1
        /\ job[j].status = "failed" => job[j].retry = 1
        /\ job[j].status = "scheduled" => job[j].retry = 0 /\ attempts[j] = 0
        /\ j \in batch => snap[j] = 0 /\ attempts[j] = 0
        /\ attempts[j] <= 1

ArtifactInv ==
    \A j \in Job :
        /\ job[j].status = "absent" => job[j].artifact = 0 /\ notices[j] = {}
        /\ job[j].status = "done" => job[j].artifact # 0
        /\ job[j].artifact # 0 => job[j].artifact \in files[j]
        /\ job[j].artifact <= runs[j]
        /\ \A n \in notices[j] : n \in files[j] /\ n <= job[j].artifact

IInv == TypeOK /\ InHand /\ RetryInv /\ ArtifactInv /\ RunningIsInHand

\* Every state a run can start in satisfies the inductive invariant.
LEMMA InitIInv == Init => IInv
  BY DEF Init, IInv, TypeOK, InHand, Working, RetryInv, ArtifactInv,
         RunningIsInHand, Present, NoRow, Idle, Call, Row, Status, Phase

\* Types are kept by every step.
LEMMA NextTypeOK == TypeOK /\ InHand /\ [Next]_vars => TypeOK'
<1> SUFFICES ASSUME TypeOK, InHand, [Next]_vars PROVE TypeOK'
  OBVIOUS
<1> USE JobAssumption, PeriodAssumption
<1> USE DEF TypeOK, passVars, histVars, rowVars
<1>a. ASSUME NEW j \in Job, NEW row \in Row, Update(j, row)
      PROVE job' \in [Job -> Row]
  BY <1>a DEF Update
<1>b. ASSUME NEW row \in Row, NEW st \in Status, NEW k \in Nat, NEW t \in Nat,
             NEW n \in Nat
      PROVE /\ [row EXCEPT !.status = st] \in Row
            /\ [row EXCEPT !.status = st, !.retry = k] \in Row
            /\ [row EXCEPT !.status = st, !.ref = t] \in Row
            /\ [row EXCEPT !.status = st, !.ref = t, !.artifact = n] \in Row
  BY DEF Row
<1>c. {"scheduled", "running", "done", "failed", "cancelled"} \subseteq Status
  BY DEF Status
<1>1. ASSUME NEW j \in Job, NEW p \in Periods, CreateJob(j, p) PROVE TypeOK'
  <2>1. job' \in [Job -> Row]
    BY <1>1, <1>a DEF CreateJob, Row, Status
  <2> QED
    BY <1>1, <2>1 DEF CreateJob
<1>2. ASSUME NEW r \in Request, NEW j \in Job,
             FetchForRun(r, j) \/ FetchForCancel(r, j)
      PROVE TypeOK'
  <2>1. req' \in [Request -> Call]
    BY <1>2 DEF FetchForRun, FetchForCancel, Call
  <2>2. CASE FetchForRun(r, j)
    BY <2>1, <2>2 DEF FetchForRun
  <2>3. CASE FetchForCancel(r, j)
    BY <2>1, <2>3 DEF FetchForCancel
  <2> QED
    BY <1>2, <2>2, <2>3
<1>3. ASSUME NEW r \in Request, WriteRun(r) PROVE TypeOK'
  <2>1. req[r].job \in Job
    BY <1>3 DEF WriteRun, Call, Idle
  <2>2. job' \in [Job -> Row]
    BY <1>3, <2>1, <1>a, <1>b, <1>c DEF WriteRun
  <2>3. req' \in [Request -> Call]
    BY <1>3 DEF WriteRun, Call
  <2> QED
    BY <1>3, <2>1, <2>2, <2>3 DEF WriteRun
<1>4. ASSUME NEW r \in Request, WriteCancel(r) PROVE TypeOK'
  <2>1. req[r].job \in Job
    BY <1>4 DEF WriteCancel, Call, Idle
  <2>2. job' \in [Job -> Row]
    BY <1>4, <2>1, <1>a, <1>b, <1>c DEF WriteCancel
  <2>3. req' \in [Request -> Call]
    BY <1>4 DEF WriteCancel, Call
  <2> QED
    BY <1>4, <2>2, <2>3 DEF WriteCancel
<1>5. ASSUME NEW r \in Request, DropRequest(r) PROVE TypeOK'
  BY <1>5 DEF DropRequest, Call
<1>6. CASE Promote
  <2>1. job' \in [Job -> Row]
    BY <1>6, <1>b, <1>c DEF Promote
  <2> QED
    BY <1>6, <2>1 DEF Promote, Phase
<1>7. CASE CronSelect
  BY <1>7 DEF CronSelect, Phase
<1>8. ASSUME NEW j \in Job, CronRearm(j) PROVE TypeOK'
  <2>1. job' \in [Job -> Row]
    <3>1. [job[j] EXCEPT !.status = "scheduled", !.retry = 0] \in Row
      BY <1>b, <1>c
    <3> QED
      BY <1>8, <3>1, <1>a DEF CronRearm
  <2>2. attempts' \in [Job -> Nat]
    BY <1>8 DEF CronRearm
  <2> QED
    BY <1>8, <2>1, <2>2 DEF CronRearm
<1>9. CASE SelectBatch
  <2>1. snap' \in [Job -> Nat]
    BY <1>9 DEF SelectBatch, Row
  <2>2. batch' \subseteq Job
    BY <1>9 DEF SelectBatch, Oldest
  <2> QED
    BY <1>9, <2>1, <2>2 DEF SelectBatch, Phase
<1>10. ASSUME NEW j \in Job, MarkRunning(j) PROVE TypeOK'
  <2>1. job' \in [Job -> Row]
    BY <1>10, <1>a, <1>b, <1>c DEF MarkRunning
  <2>2. runs' \in [Job -> Nat] /\ attempts' \in [Job -> Nat]
    BY <1>10 DEF MarkRunning
  <2> QED
    BY <1>10, <2>1, <2>2 DEF MarkRunning, Phase
<1>11. CASE RenderOk
  BY <1>11 DEF RenderOk, Phase, InHand, Working
<1>12. CASE RenderFails
  BY <1>12 DEF RenderFails, Phase
<1>13. CASE FinishDone
  <2>1. cur \in Job
    BY <1>13 DEF FinishDone, InHand, Working
  <2>2. job' \in [Job -> Row]
    BY <1>13, <2>1, <1>a, <1>b, <1>c DEF FinishDone
  <2> QED
    BY <1>13, <2>2 DEF FinishDone, Phase
<1>14. CASE FinishFailed
  <2>1. cur \in Job
    BY <1>14 DEF FinishFailed, InHand, Working
  <2>2. job' \in [Job -> Row]
    <3>1. snap[cur] + 1 \in Nat
      BY <2>1
    <3>2. [job[cur] EXCEPT !.status = "failed", !.retry = snap[cur] + 1] \in Row
      BY <2>1, <3>1, <1>b, <1>c
    <3> QED
      BY <1>14, <2>1, <3>2, <1>a DEF FinishFailed
  <2> QED
    BY <1>14, <2>2 DEF FinishFailed, Phase
<1>15. ASSUME NEW sent \in BOOLEAN, NotifyOwner(sent) PROVE TypeOK'
  BY <1>15 DEF NotifyOwner, Phase, InHand, Working
<1>16. CASE EndPass
  BY <1>16 DEF EndPass, Phase
<1>17. CASE PassError
  BY <1>17 DEF PassError, Phase
<1>18. CASE Crash
  BY <1>18 DEF Crash, Phase, Call
<1>19. CASE Tick
  BY <1>19 DEF Tick
<1>20. CASE UNCHANGED vars
  BY <1>20 DEF vars
<1> QED
  BY <1>1, <1>2, <1>3, <1>4, <1>5, <1>6, <1>7, <1>8, <1>9, <1>10, <1>11,
     <1>12, <1>13, <1>14, <1>15, <1>16, <1>17, <1>18, <1>19, <1>20
  DEF Next, Scheduler, Handlers


\* Every step keeps the rest of the invariant: one step per action that
\* touches a row, the pass or the history; the others change none of them.
LEMMA NextInv ==
  IInv /\ TypeOK' /\ [Next]_vars =>
    InHand' /\ RetryInv' /\ ArtifactInv' /\ RunningIsInHand'
<1> SUFFICES ASSUME IInv, TypeOK', [Next]_vars
             PROVE InHand' /\ RetryInv' /\ ArtifactInv' /\ RunningIsInHand'
  OBVIOUS
<1> USE JobAssumption
<1> USE DEF IInv, passVars, histVars, rowVars, Present
<1> DEFINE Goal == InHand' /\ RetryInv' /\ ArtifactInv' /\ RunningIsInHand'
<1>q. ASSUME UNCHANGED <<job, pc, batch, snap, cur, faults, files, runs,
                         attempts, notices>>
      PROVE Goal
  BY <1>q DEF InHand, Working, RetryInv, ArtifactInv, RunningIsInHand
<1>a. ASSUME NEW j \in Job, NEW row, Update(j, row)
      PROVE \A k \in Job :
              /\ job'[k].status = IF k = j THEN row.status ELSE job[k].status
              /\ job'[k].retry = IF k = j THEN row.retry ELSE job[k].retry
              /\ job'[k].artifact =
                    IF k = j THEN row.artifact ELSE job[k].artifact
  BY <1>a DEF Update, TypeOK
<1>1. ASSUME NEW j \in Job, NEW p \in Periods, CreateJob(j, p) PROVE Goal
  <2>1. Update(j, [status |-> "scheduled", retry |-> 0, cron |-> p,
                   ref |-> now, artifact |-> 0])
    BY <1>1 DEF CreateJob
  <2>f. \A k \in Job :
          /\ job'[k].status = IF k = j THEN "scheduled" ELSE job[k].status
          /\ job'[k].retry = IF k = j THEN 0 ELSE job[k].retry
          /\ job'[k].artifact = IF k = j THEN 0 ELSE job[k].artifact
    BY <2>1, <1>a
  <2>2. InHand'
    BY <1>1, <2>f DEF CreateJob, InHand, Working
  <2>3. RetryInv'
    BY <1>1, <2>f DEF CreateJob, RetryInv, TypeOK
  <2>4. ArtifactInv'
    BY <1>1, <2>f DEF CreateJob, ArtifactInv, TypeOK
  <2>5. RunningIsInHand'
    BY <1>1, <2>f DEF CreateJob, RunningIsInHand
  <2> QED
    BY <2>2, <2>3, <2>4, <2>5
<1>2. ASSUME NEW r \in Request, NEW j \in Job,
             FetchForRun(r, j) \/ FetchForCancel(r, j)
      PROVE Goal
  BY <1>2, <1>q DEF FetchForRun, FetchForCancel
<1>3. ASSUME NEW r \in Request, WriteRun(r) PROVE Goal
  <2> DEFINE j == req[r].job
  <2>0. j \in Job
    BY <1>3 DEF WriteRun, TypeOK, Call, Idle
  <2>1. Update(j, [job[j] EXCEPT !.status = "scheduled", !.retry = 0])
    BY <1>3, <2>0 DEF WriteRun
  <2>f. \A k \in Job :
          /\ job'[k].status = IF k = j THEN "scheduled" ELSE job[k].status
          /\ job'[k].retry = IF k = j THEN 0 ELSE job[k].retry
          /\ job'[k].artifact = job[k].artifact
    <3> DEFINE row == [job[j] EXCEPT !.status = "scheduled", !.retry = 0]
    <3>0. job[j] \in Row
      BY <2>0 DEF TypeOK
    <3>1. /\ row.status = "scheduled"
          /\ row.retry = 0
          /\ row.artifact = job[j].artifact
      BY <3>0 DEF Row
    <3>2. Update(j, row)
      BY <2>1
    <3> HIDE DEF row, j
    <3>3. j \in Job
      BY <2>0
    <3>4. \A k \in Job :
            /\ job'[k].status = IF k = j THEN row.status ELSE job[k].status
            /\ job'[k].retry = IF k = j THEN row.retry ELSE job[k].retry
            /\ job'[k].artifact =
                  IF k = j THEN row.artifact ELSE job[k].artifact
      BY <3>2, <3>3, <1>a
    <3> QED
      BY <3>1, <3>4
  <2> HIDE DEF j
  <2>2. InHand'
    BY <1>3, <2>0, <2>f DEF WriteRun, InHand, Working, TypeOK
  <2>3. RetryInv'
    BY <1>3, <2>0, <2>f DEF WriteRun, RetryInv, TypeOK, j
  <2>4. ArtifactInv'
    BY <1>3, <2>0, <2>f DEF WriteRun, ArtifactInv, TypeOK
  <2>5. RunningIsInHand'
    BY <1>3, <2>0, <2>f DEF WriteRun, RunningIsInHand, TypeOK
  <2> QED
    BY <2>2, <2>3, <2>4, <2>5
<1>4. ASSUME NEW r \in Request, WriteCancel(r) PROVE Goal
  <2> DEFINE j == req[r].job
  <2>0. j \in Job
    BY <1>4 DEF WriteCancel, TypeOK, Call, Idle
  <2>1. Update(j, [job[j] EXCEPT !.status = "cancelled"])
    BY <1>4, <2>0 DEF WriteCancel
  <2>f. \A k \in Job :
          /\ job'[k].status = IF k = j THEN "cancelled" ELSE job[k].status
          /\ job'[k].retry = job[k].retry
          /\ job'[k].artifact = job[k].artifact
    BY <2>1, <2>0, <1>a DEF TypeOK, Row
  <2> HIDE DEF j
  <2>2. InHand'
    BY <1>4, <2>0, <2>f DEF WriteCancel, InHand, Working, TypeOK
  <2>3. RetryInv'
    BY <1>4, <2>0, <2>f DEF WriteCancel, RetryInv, TypeOK
  <2>4. ArtifactInv'
    BY <1>4, <2>0, <2>f DEF WriteCancel, ArtifactInv, TypeOK
  <2>5. RunningIsInHand'
    BY <1>4, <2>0, <2>f DEF WriteCancel, RunningIsInHand, TypeOK
  <2> QED
    BY <2>2, <2>3, <2>4, <2>5
<1>5. ASSUME NEW r \in Request, DropRequest(r) PROVE Goal
  BY <1>5, <1>q DEF DropRequest
<1>6. CASE Promote
  <2>1. \A k \in Job : ~ Retryable(job[k])
    BY DEF RetryInv, Retryable
  <2>2. job' = job
    BY <1>6, <2>1 DEF Promote, TypeOK
  <2> QED
    BY <1>6, <2>2
    DEF Promote, InHand, Working, RetryInv, ArtifactInv, RunningIsInHand
<1>7. CASE CronSelect
  BY <1>7
  DEF CronSelect, InHand, Working, RetryInv, ArtifactInv, RunningIsInHand
<1>8. ASSUME NEW j \in Job, CronRearm(j) PROVE Goal
  <2>1. CASE ~ CronEnded(j)
    BY <1>8, <2>1, <1>q DEF CronRearm
  <2>2. CASE CronEnded(j)
    <3>1. Update(j, [job[j] EXCEPT !.status = "scheduled", !.retry = 0])
      BY <1>8, <2>2 DEF CronRearm
    <3>f. \A k \in Job :
            /\ job'[k].status = IF k = j THEN "scheduled" ELSE job[k].status
            /\ job'[k].retry = IF k = j THEN 0 ELSE job[k].retry
            /\ job'[k].artifact = job[k].artifact
      <4> DEFINE row == [job[j] EXCEPT !.status = "scheduled", !.retry = 0]
      <4>0. j \in Job /\ job[j] \in Row
        BY DEF TypeOK
      <4>1. /\ row.status = "scheduled"
            /\ row.retry = 0
            /\ row.artifact = job[j].artifact
        BY <4>0 DEF Row
      <4>2. Update(j, row)
        BY <3>1
      <4> HIDE DEF row
      <4> QED
        BY <4>0, <4>1, <4>2, <1>a
    <3>2. InHand'
      BY <1>8, <3>f DEF CronRearm, InHand, Working
    <3>3. RetryInv'
      BY <1>8, <2>2, <3>f DEF CronRearm, RetryInv, TypeOK
    <3>4. ArtifactInv'
      BY <1>8, <2>2, <3>f DEF CronRearm, CronEnded, ArtifactInv, TypeOK
    <3>5. RunningIsInHand'
      BY <1>8, <3>f DEF CronRearm, RunningIsInHand, TypeOK
    <3> QED
      BY <3>2, <3>3, <3>4, <3>5
  <2> QED
    BY <2>1, <2>2
<1>9. CASE SelectBatch
  <2>1. \A j \in batch' : j \in Job /\ job[j].status = "scheduled"
    BY <1>9 DEF SelectBatch, Oldest
  <2>2. RetryInv'
    BY <1>9, <2>1 DEF SelectBatch, RetryInv, TypeOK
  <2> QED
    BY <1>9, <2>2
    DEF SelectBatch, InHand, Working, ArtifactInv, RunningIsInHand
<1>10. ASSUME NEW j \in Job, MarkRunning(j) PROVE Goal
  <2>1. Update(j, [job[j] EXCEPT !.status = "running", !.ref = now])
    BY <1>10 DEF MarkRunning
  <2>f. \A k \in Job :
          /\ job'[k].status = IF k = j THEN "running" ELSE job[k].status
          /\ job'[k].retry = job[k].retry
          /\ job'[k].artifact = job[k].artifact
    <3> DEFINE row == [job[j] EXCEPT !.status = "running", !.ref = now]
    <3>0. j \in Job /\ job[j] \in Row
      BY DEF TypeOK
    <3>1. /\ row.status = "running"
          /\ row.retry = job[j].retry
          /\ row.artifact = job[j].artifact
      BY <3>0 DEF Row
    <3>2. Update(j, row)
      BY <2>1
    <3> HIDE DEF row
    <3> QED
      BY <3>0, <3>1, <3>2, <1>a
  <2>2. InHand'
    BY <1>10, <2>f DEF MarkRunning, InHand, Working, RetryInv, TypeOK
  <2>3. RetryInv'
    BY <1>10, <2>f DEF MarkRunning, RetryInv, TypeOK
  <2>4. ArtifactInv'
    BY <1>10, <2>f DEF MarkRunning, ArtifactInv, TypeOK
  <2>5. RunningIsInHand'
    BY <1>10, <2>f DEF MarkRunning, RunningIsInHand, TypeOK
  <2> QED
    BY <2>2, <2>3, <2>4, <2>5
<1>11. CASE RenderOk
  BY <1>11
  DEF RenderOk, InHand, Working, RetryInv, ArtifactInv, RunningIsInHand, TypeOK
<1>12. CASE RenderFails
  BY <1>12
  DEF RenderFails, InHand, Working, RetryInv, ArtifactInv, RunningIsInHand
<1>13. CASE FinishDone
  <2>0. cur \in Job /\ runs[cur] \in Nat
    BY <1>13 DEF FinishDone, InHand, Working, TypeOK
  <2>1. Update(cur,
              [job[cur] EXCEPT !.status = "done", !.ref = now,
                      !.artifact = runs[cur]])
    BY <1>13, <2>0 DEF FinishDone
  <2>f. \A k \in Job :
          /\ job'[k].status = IF k = cur THEN "done" ELSE job[k].status
          /\ job'[k].retry = job[k].retry
          /\ job'[k].artifact = IF k = cur THEN runs[cur] ELSE job[k].artifact
    <3> DEFINE row == [job[cur] EXCEPT !.status = "done", !.ref = now,
                                      !.artifact = runs[cur]]
    <3>0. cur \in Job /\ job[cur] \in Row
      BY <2>0 DEF TypeOK
    <3>1. /\ row.status = "done"
          /\ row.retry = job[cur].retry
          /\ row.artifact = runs[cur]
      BY <3>0 DEF Row
    <3>2. Update(cur, row)
      BY <2>1
    <3> HIDE DEF row
    <3> QED
      BY <3>0, <3>1, <3>2, <1>a
  <2>2. InHand'
    BY <1>13, <2>0, <2>f DEF FinishDone, InHand, Working, TypeOK
  <2>3. RetryInv'
    BY <1>13, <2>0, <2>f DEF FinishDone, RetryInv, TypeOK
  <2>4. ArtifactInv'
    BY <1>13, <2>0, <2>f
    DEF FinishDone, ArtifactInv, InHand, Working, TypeOK
  <2>5. RunningIsInHand'
    BY <1>13, <2>0, <2>f DEF FinishDone, RunningIsInHand, TypeOK
  <2> QED
    BY <2>2, <2>3, <2>4, <2>5
<1>14. CASE FinishFailed
  <2>0. cur \in Job
    BY <1>14 DEF FinishFailed, InHand, Working
  <2>1. Update(cur,
              [job[cur] EXCEPT !.status = "failed", !.retry = snap[cur] + 1])
    BY <1>14, <2>0 DEF FinishFailed
  <2>f. \A k \in Job :
          /\ job'[k].status = IF k = cur THEN "failed" ELSE job[k].status
          /\ job'[k].retry = IF k = cur THEN snap[cur] + 1 ELSE job[k].retry
          /\ job'[k].artifact = job[k].artifact
    <3> DEFINE row == [job[cur] EXCEPT !.status = "failed",
                                      !.retry = snap[cur] + 1]
    <3>0. cur \in Job /\ job[cur] \in Row
      BY <2>0 DEF TypeOK
    <3>1. /\ row.status = "failed"
          /\ row.retry = snap[cur] + 1
          /\ row.artifact = job[cur].artifact
      BY <3>0 DEF Row
    <3>2. Update(cur, row)
      BY <2>1
    <3> HIDE DEF row
    <3> QED
      BY <3>0, <3>1, <3>2, <1>a
  <2>2. InHand'
    BY <1>14 DEF FinishFailed, InHand, Working
  <2>3. RetryInv'
    BY <1>14, <2>0, <2>f
    DEF FinishFailed, RetryInv, InHand, Working, TypeOK
  <2>4. ArtifactInv'
    BY <1>14, <2>0, <2>f
    DEF FinishFailed, ArtifactInv, InHand, Working, TypeOK
  <2>5. RunningIsInHand'
    BY <1>14, <2>0, <2>f DEF FinishFailed, RunningIsInHand, TypeOK
  <2> QED
    BY <2>2, <2>3, <2>4, <2>5
<1>15. ASSUME NEW sent \in BOOLEAN, NotifyOwner(sent) PROVE Goal
  <2>1. InHand' /\ RetryInv'
    BY <1>15 DEF NotifyOwner, InHand, Working, RetryInv
  <2>2. ArtifactInv'
    BY <1>15 DEF NotifyOwner, ArtifactInv, InHand, Working, TypeOK, Row
  <2>3. RunningIsInHand'
    BY <1>15 DEF NotifyOwner, RunningIsInHand
  <2> QED
    BY <2>1, <2>2, <2>3
<1>16. CASE EndPass
  BY <1>16
  DEF EndPass, InHand, Working, RetryInv, ArtifactInv, RunningIsInHand
<1>17. CASE PassError
  BY <1>17
  DEF PassError, InHand, Working, RetryInv, ArtifactInv, RunningIsInHand,
      TypeOK
<1>18. CASE Crash
  BY <1>18
  DEF Crash, InHand, Working, RetryInv, ArtifactInv, RunningIsInHand, TypeOK
<1>19. CASE Tick
  BY <1>19, <1>q DEF Tick
<1>20. CASE UNCHANGED vars
  BY <1>20, <1>q DEF vars
<1> QED
  BY <1>1, <1>2, <1>3, <1>4, <1>5, <1>6, <1>7, <1>8, <1>9, <1>10, <1>11,
     <1>12, <1>13, <1>14, <1>15, <1>16, <1>17, <1>18, <1>19, <1>20
  DEF Next, Scheduler, Handlers

\* The inductive invariant holds in every state of every behaviour.
THEOREM Inductive == Spec => []IInv
<1>1. IInv /\ [Next]_vars => IInv'
  BY NextTypeOK, NextInv DEF IInv
<1> QED
  BY InitIInv, <1>1, PTL DEF Spec

\* The table, the pass and the requests in flight keep their types.
THEOREM TypeCorrect == Spec => []TypeOK
<1>1. IInv => TypeOK
  BY DEF IInv
<1> QED
  BY Inductive, <1>1, PTL

\* For any number of jobs, requests and crashes, no job is run more than the
\* retry policy allows and retry_count never passes one.
THEOREM RetryIsBounded == Spec => []RetryBudget
<1>1. IInv => RetryBudget
  BY DEF IInv, TypeOK, RetryInv, RetryBudget, Present
<1> QED
  BY Inductive, <1>1, PTL

\* Whatever handlers and crashes interleave, a done job's artifact is on disk.
THEOREM ArtifactIsOnDisk == Spec => []ArtifactOnDisk
<1>1. IInv => ArtifactOnDisk
  BY DEF IInv, ArtifactInv, ArtifactOnDisk, Present
<1> QED
  BY Inductive, <1>1, PTL

\* Without a fault no job is left in status running.
THEOREM NoneLeftRunning == Spec => []RunningIsInHand
<1>1. IInv => RunningIsInHand
  BY DEF IInv
<1> QED
  BY Inductive, <1>1, PTL

\* A notification never runs ahead of the row it links to.
THEOREM NoticesFollow == Spec => []NoticeFollowsRow
<1>1. IInv => NoticeFollowsRow
  BY DEF IInv, ArtifactInv, NoticeFollowsRow
<1> QED
  BY Inductive, <1>1, PTL

\* Runs are numbered upwards and only the end of a run writes the artifact, so
\* the row never goes back to an older one.
THEOREM ArtifactsOnlyGrow == Spec => ArtifactNeverRegresses
<1> DEFINE Grows == \A j \in Job : job'[j].artifact >= job[j].artifact
<1>1. IInv /\ [Next]_vars => Grows
  <2> SUFFICES ASSUME IInv, [Next]_vars PROVE Grows
    OBVIOUS
  <2> USE DEF IInv
  <2>1. \A j \in Job : job[j].artifact \in Nat /\ runs[j] \in Nat
    BY DEF TypeOK, Row
  <2>2. CASE job' = job
    BY <2>1, <2>2
  <2>3. ASSUME NEW j \in Job, NEW row, Update(j, row),
               row.artifact >= job[j].artifact
        PROVE Grows
    BY <2>1, <2>3 DEF Update, TypeOK
  <2>4. \A j \in Job : job[j] \in Row
    BY DEF TypeOK
  <2>5. \A r \in Request : req[r].op # "none" => req[r].job \in Job
    BY DEF TypeOK, Call, Idle
  <2>6. ASSUME NEW j \in Job, NEW p \in Periods, CreateJob(j, p) PROVE Grows
    BY <2>1, <2>3, <2>6 DEF CreateJob, ArtifactInv
  <2>7. ASSUME NEW r \in Request, WriteRun(r) PROVE Grows
    <3> DEFINE row == [job[req[r].job] EXCEPT !.status = "scheduled",
                                             !.retry = 0]
    <3>1. Update(req[r].job, row) /\ req[r].job \in Job
      BY <2>5, <2>7 DEF WriteRun
    <3>2. row.artifact = job[req[r].job].artifact
      BY <2>4, <3>1 DEF Row
    <3> HIDE DEF row
    <3> QED
      BY <2>1, <2>3, <3>1, <3>2
  <2>8. ASSUME NEW r \in Request, WriteCancel(r) PROVE Grows
    <3> DEFINE row == [job[req[r].job] EXCEPT !.status = "cancelled"]
    <3>1. Update(req[r].job, row) /\ req[r].job \in Job
      BY <2>5, <2>8 DEF WriteCancel
    <3>2. row.artifact = job[req[r].job].artifact
      BY <2>4, <3>1 DEF Row
    <3> HIDE DEF row
    <3> QED
      BY <2>1, <2>3, <3>1, <3>2
  <2>9. CASE Promote
    <3>1. \A row \in Row :
            [row EXCEPT !.status = "scheduled"].artifact = row.artifact
      BY DEF Row
    <3>2. \A j \in Job : job'[j].artifact = job[j].artifact
      BY <2>4, <2>9, <3>1 DEF Promote
    <3> QED
      BY <2>1, <3>2
  <2>10. ASSUME NEW j \in Job, CronRearm(j) PROVE Grows
    <3> DEFINE row == [job[j] EXCEPT !.status = "scheduled", !.retry = 0]
    <3>1. job' = job \/ Update(j, row)
      BY <2>10 DEF CronRearm
    <3>2. row.artifact = job[j].artifact
      BY <2>4 DEF Row
    <3> HIDE DEF row
    <3> QED
      BY <2>1, <2>2, <2>3, <3>1, <3>2
  <2>11. ASSUME NEW j \in Job, MarkRunning(j) PROVE Grows
    <3> DEFINE row == [job[j] EXCEPT !.status = "running", !.ref = now]
    <3>1. Update(j, row) /\ j \in Job
      BY <2>11 DEF MarkRunning
    <3>2. row.artifact = job[j].artifact
      BY <2>4, <3>1 DEF Row
    <3> HIDE DEF row
    <3> QED
      BY <2>1, <2>3, <3>1, <3>2
  <2>12. CASE FinishDone
    <3> DEFINE row == [job[cur] EXCEPT !.status = "done", !.ref = now,
                                   !.artifact = runs[cur]]
    <3>1. Update(cur, row) /\ cur \in Job
      BY <2>12 DEF FinishDone, InHand, Working
    <3>2. row.artifact = runs[cur]
      BY <2>4, <3>1 DEF Row
    <3> HIDE DEF row
    <3> QED
      BY <2>1, <2>3, <3>1, <3>2 DEF ArtifactInv
  <2>13. CASE FinishFailed
    <3> DEFINE row == [job[cur] EXCEPT !.status = "failed",
                                   !.retry = snap[cur] + 1]
    <3>1. Update(cur, row) /\ cur \in Job
      BY <2>13 DEF FinishFailed, InHand, Working
    <3>2. row.artifact = job[cur].artifact
      BY <2>4, <3>1 DEF Row
    <3> HIDE DEF row
    <3> QED
      BY <2>1, <2>3, <3>1, <3>2
  <2>14. CASE UNCHANGED job
    BY <2>2, <2>14
  <2> QED
    BY <2>6, <2>7, <2>8, <2>9, <2>10, <2>11, <2>12, <2>13, <2>14
    DEF Next, Scheduler, Handlers, rowVars, vars, FetchForRun, FetchForCancel,
        DropRequest, CronSelect, SelectBatch, RenderOk, RenderFails,
        NotifyOwner, EndPass, PassError, Crash, Tick
<1> QED
  BY Inductive, <1>1, PTL DEF Spec, ArtifactNeverRegresses
-----------------------------------------------------------------------------
(* The schedules of reports *)

\* Every set of naturals that is not empty has a least element.
LEMMA LeastOf == \A T \in SUBSET Nat : T # {} => \E n \in T : \A m \in T : n <= m
<1>1. PICK R : /\ IsWellFoundedOn(R, Nat)
               /\ \A m, n \in Nat : <<m, n>> \in R <=> m < n
  <2>1. \A m, n \in Nat : <<m, n>> \in OpToRel(<, Nat) <=> m < n
    BY DEF OpToRel
  <2> QED
    BY <2>1, NatLessThanWellFounded
<1>2. ASSUME NEW T \in SUBSET Nat, T # {}
      PROVE  \E n \in T : \A m \in T : n <= m
  <2>1. T \subseteq Nat /\ IsWellFoundedOn(R, Nat)
    BY <1>1
  <2>2. \E n \in T : \A m \in T : ~(<<m, n>> \in R)
    BY <1>2, <2>1, WFMin
  <2>3. \A m, n \in Nat : n <= m \/ m < n
    OBVIOUS
  <2> QED
    BY <1>1, <2>1, <2>2, <2>3
<1> QED
  BY <1>2

\* Min of a set of naturals is its least element.
LEMMA MinIs ==
  ASSUME NEW S \in SUBSET Nat, S # {}
  PROVE  Min(S) \in S /\ \A y \in S : Min(S) <= y
BY LeastOf DEF Min

\* The same for the greatest, if there is a bound.
LEMMA MaxIs ==
  ASSUME NEW k \in Nat, NEW S \in SUBSET (0..k), S # {}
  PROVE  Max(S) \in S /\ \A y \in S : y <= Max(S)
<1> DEFINE T == {k - x : x \in S}
<1>1. T \in SUBSET Nat /\ T # {}
  OBVIOUS
<1>2. PICK n \in T : \A m \in T : n <= m
  BY <1>1, LeastOf
<1>3. PICK x \in S : n = k - x
  OBVIOUS
<1>4. \A y \in S : k - y \in T
  OBVIOUS
<1>5. \A y \in S : k - x <= k - y
  BY <1>2, <1>3, <1>4
<1>6. \A y \in S : x >= y
  BY <1>5
<1> HIDE DEF T
<1>7. Max(S) \in S /\ \A y \in S : Max(S) >= y
  BY <1>6 DEF Max
<1> QED
  BY <1>7

\* A minute of a day, as a moment.
MomentOf(d, h, m) == d * 1440 + h * 60 + m

\* How Matches takes t apart.
PartsOf(t, d, h, m) ==
    /\ t \in Nat /\ t % 60 = m
    /\ (t % 1440) \div 60 = h /\ t \div 1440 = d

\* Day, hour and minute can be read off a moment.
LEMMA MomentIs ==
  ASSUME NEW d \in Nat, NEW h \in 0..23, NEW m \in 0..59
  PROVE  PartsOf(MomentOf(d, h, m), d, h, m)
<1>1. PICK k \in 0..1439 : k = h * 60 + m
  OBVIOUS
<1>2. PICK t \in Nat : t = d * 1440 + k
  OBVIOUS
<1>3. t % 1440 = k /\ t \div 1440 = d
  BY <1>2
<1>4. k \div 60 = h
  BY <1>1
<1>5. PICK c \in Nat : c = d * 24 + h
  OBVIOUS
<1>6. t = c * 60 + m
  BY <1>1, <1>2, <1>5
<1>7. t % 60 = m
  BY <1>6
<1>8. MomentOf(d, h, m) = t
  BY <1>1, <1>2 DEF MomentOf
<1> QED
  BY <1>3, <1>4, <1>7, <1>8 DEF PartsOf

\* Every moment is a minute of some hour of some day.
LEMMA MomentHas ==
  ASSUME NEW t \in Nat
  PROVE  \E d \in Nat, h \in 0..23, m \in 0..59 : t = MomentOf(d, h, m)
<1>1. PICK d \in Nat, k \in 0..1439 : t = d * 1440 + k
  <2>1. t \div 1440 \in Nat /\ t % 1440 \in 0..1439
        /\ t = ((t \div 1440) * 1440) + (t % 1440)
    OBVIOUS
  <2> QED
    BY <2>1
<1>2. PICK h \in 0..23, m \in 0..59 : k = h * 60 + m
  <2>1. k \div 60 \in 0..23 /\ k % 60 \in 0..59
        /\ k = ((k \div 60) * 60) + (k % 60)
    OBVIOUS
  <2> QED
    BY <2>1
<1>3. t = MomentOf(d, h, m)
  BY <1>1, <1>2 DEF MomentOf
<1> QED
  BY <1>3

\* The lists of minutes and hours of a schedule that was accepted.
Timed(s) ==
    /\ s.minutes \in SUBSET (0..59) /\ s.minutes # {}
    /\ s.hours \in SUBSET (0..23) /\ s.hours # {}

\* What the loop of next_after finds, which tries every minute.
FindsFirst(s, start, last, n) ==
    \/ n = Never /\ \A t \in start..last : ~Matches(s, t)
    \/ /\ n \in start..last /\ Matches(s, n)
       /\ \A t \in start..last : Matches(s, t) => n <= t

\* The first and the last minute of a day that the lists allow.
LEMMA EarlyIsFirst ==
  ASSUME NEW s, Timed(s)
  PROVE  /\ Min(s.hours) \in s.hours /\ Max(s.hours) \in s.hours
         /\ Min(s.minutes) \in s.minutes /\ Max(s.minutes) \in s.minutes
         /\ \A h \in s.hours : Min(s.hours) <= h /\ h <= Max(s.hours)
         /\ \A m \in s.minutes : Min(s.minutes) <= m /\ m <= Max(s.minutes)
<1>1. s.minutes \in SUBSET (0..59) /\ s.minutes # {} /\ s.minutes \in SUBSET Nat
  BY DEF Timed
<1>2. s.hours \in SUBSET (0..23) /\ s.hours # {} /\ s.hours \in SUBSET Nat
  BY DEF Timed
<1>3. PICK A, B : A = s.minutes /\ B = s.hours
  OBVIOUS
<1>4. /\ Min(A) \in A /\ \A y \in A : Min(A) <= y
      /\ Min(B) \in B /\ \A y \in B : Min(B) <= y
  BY <1>1, <1>2, <1>3, MinIs
<1>5. /\ Max(A) \in A /\ \A y \in A : y <= Max(A)
      /\ Max(B) \in B /\ \A y \in B : y <= Max(B)
  BY <1>1, <1>2, <1>3, MaxIs
<1> QED
  BY <1>3, <1>4, <1>5

\* Trying the days, and then the minutes of the first one, finds the minute
\* that trying every minute finds.
LEMMA FirstMatchFinds ==
  ASSUME NEW s, Timed(s), NEW start \in Nat, NEW last \in Nat
  PROVE  FindsFirst(s, start, last, FirstMatch(s, start, last))
<1>1. PICK h0 \in s.hours, h1 \in s.hours, m0 \in s.minutes, m1 \in s.minutes :
         /\ h0 = Min(s.hours) /\ h1 = Max(s.hours)
         /\ m0 = Min(s.minutes) /\ m1 = Max(s.minutes)
         /\ \A h \in s.hours : h0 <= h /\ h <= h1
         /\ \A m \in s.minutes : m0 <= m /\ m <= m1
  BY EarlyIsFirst
<1>2. /\ \A h \in s.hours : h \in 0..23
      /\ \A m \in s.minutes : m \in 0..59
  BY DEF Timed
<1> DEFINE Early == h0 * 60 + m0
           Late == h1 * 60 + m1
           days == {d \in (start \div 1440)..(last \div 1440) :
                      /\ DayMatches(s, d)
                      /\ d * 1440 + Late >= start
                      /\ d * 1440 + Early <= last}
           times == {MomentOf(Min(days), h, m) :
                       h \in s.hours, m \in s.minutes}
           hits == {t \in times : start <= t /\ t <= last}
<1>3. FirstMatch(s, start, last) =
         IF days = {} \/ hits = {} THEN Never ELSE Min(hits)
  BY <1>1 DEF FirstMatch, Days, MinutesPerDay, MomentOf
<1>4. PICK e, l : e = Early /\ l = Late
  OBVIOUS
<1>5. /\ e \in 0..1439 /\ l \in 0..1439
      /\ \A h \in s.hours, m \in s.minutes :
            /\ h * 60 + m \in 0..1439
            /\ e <= h * 60 + m /\ h * 60 + m <= l
  <2>1. h0 \in 0..23 /\ h1 \in 0..23 /\ m0 \in 0..59 /\ m1 \in 0..59
    BY <1>2
  <2>2. e \in 0..1439 /\ l \in 0..1439
    BY <1>4, <2>1
  <2>3. ASSUME NEW h \in s.hours, NEW m \in s.minutes
        PROVE  /\ h * 60 + m \in 0..1439
               /\ e <= h * 60 + m /\ h * 60 + m <= l
    <3>1. h \in 0..23 /\ m \in 0..59 /\ h0 <= h /\ h <= h1 /\ m0 <= m /\ m <= m1
      BY <1>1, <1>2
    <3> QED
      BY <1>4, <2>1, <3>1
  <2> QED
    BY <2>2, <2>3
<1>6. days = {d \in (start \div 1440)..(last \div 1440) :
                 DayMatches(s, d) /\ d * 1440 + l >= start /\ d * 1440 + e <= last}
  BY <1>4
<1> HIDE DEF Early, Late, days
<1>7. \A d : d \in days => d \in Nat /\ DayMatches(s, d)
                           /\ d * 1440 + l >= start /\ d * 1440 + e <= last
  <2>1. start \div 1440 \in Nat
    OBVIOUS
  <2> QED
    BY <1>6, <2>1
<1>8. ASSUME NEW t \in start..last, Matches(s, t)
      PROVE  \E d \in days, h \in s.hours, m \in s.minutes : t = MomentOf(d, h, m)
  <2>1. PICK d \in Nat, h \in 0..23, m \in 0..59 : t = MomentOf(d, h, m)
    <3>1. t \in Nat
      OBVIOUS
    <3> QED
      BY <3>1, MomentHas
  <2>2. h \in s.hours /\ m \in s.minutes /\ DayMatches(s, d)
    <3>1. PartsOf(t, d, h, m)
      BY <2>1, MomentIs
    <3> QED
      BY <1>8, <3>1 DEF PartsOf, Matches, MinutesPerDay
  <2>3. start \div 1440 <= d /\ d <= last \div 1440
    <3>1. PartsOf(t, d, h, m)
      BY <2>1, MomentIs
    <3>2. t \div 1440 = d
      BY <3>1 DEF PartsOf
    <3>3. t \in Nat /\ start <= t /\ t <= last
      OBVIOUS
    <3> QED
      BY <3>2, <3>3
  <2>4. d * 1440 + l >= start /\ d * 1440 + e <= last
    <3>1. e <= h * 60 + m /\ h * 60 + m <= l
      BY <1>5, <2>2
    <3> QED
      BY <1>5, <2>1, <3>1 DEF MomentOf
  <2>5. d \in (start \div 1440)..(last \div 1440)
    BY <2>3
  <2>6. d \in days
    BY <1>6, <2>2, <2>4, <2>5
  <2> QED
    BY <2>1, <2>2, <2>6
<1>9. ASSUME NEW d \in days, NEW h \in s.hours, NEW m \in s.minutes
      PROVE  MomentOf(d, h, m) \in Nat /\ Matches(s, MomentOf(d, h, m))
  <2>1. h \in 0..23 /\ m \in 0..59 /\ d \in Nat /\ DayMatches(s, d)
    BY <1>2, <1>7
  <2>2. PICK t : t = MomentOf(d, h, m)
    OBVIOUS
  <2>3. PartsOf(t, d, h, m)
    BY <2>1, <2>2, MomentIs
  <2>4. Matches(s, t)
    BY <1>9, <2>1, <2>3 DEF PartsOf, Matches, MinutesPerDay
  <2> QED
    BY <2>2, <2>3, <2>4 DEF PartsOf
<1>10. CASE days = {}
  <2>1. \A t \in start..last : ~Matches(s, t)
    BY <1>8, <1>10
  <2> QED
    BY <1>3, <1>10, <2>1 DEF FindsFirst
<1>11. CASE days # {}
  <2>1. PICK D \in days : D = Min(days) /\ \A d \in days : D <= d
    <3>1. days \in SUBSET Nat
      BY <1>7
    <3> QED
      BY <1>11, <3>1, MinIs
  <2>2. \A t : t \in hits <=>
           /\ \E h \in s.hours, m \in s.minutes : t = MomentOf(D, h, m)
           /\ start <= t /\ t <= last
    BY <2>1
  <2> HIDE DEF hits
  <2>3. \A t \in hits : t \in Nat /\ t \in start..last /\ Matches(s, t)
                       /\ D * 1440 <= t /\ t <= D * 1440 + 1439
    <3> SUFFICES ASSUME NEW t \in hits
                 PROVE  t \in Nat /\ t \in start..last /\ Matches(s, t)
                        /\ D * 1440 <= t /\ t <= D * 1440 + 1439
      OBVIOUS
    <3>1. PICK h \in s.hours, m \in s.minutes : t = MomentOf(D, h, m)
      BY <2>2
    <3>2. t \in Nat /\ Matches(s, t)
      BY <1>9, <3>1
    <3>3. h * 60 + m \in 0..1439 /\ D \in Nat
      BY <1>5, <1>7
    <3>4. start <= t /\ t <= last
      BY <2>2
    <3>5. h \in 0..23 /\ m \in 0..59
      BY <1>2
    <3> QED
      BY <3>1, <3>2, <3>3, <3>4, <3>5 DEF MomentOf
  <2>4. ASSUME NEW t \in start..last, Matches(s, t)
        PROVE  t \in hits \/ (t > D * 1440 + 1439 /\ D * 1440 + l \in hits)
    <3>1. PICK d \in days, h \in s.hours, m \in s.minutes : t = MomentOf(d, h, m)
      BY <1>8, <2>4
    <3>2. d \in Nat /\ D \in Nat /\ D <= d /\ h * 60 + m \in 0..1439
          /\ h \in 0..23 /\ m \in 0..59
      BY <1>2, <1>5, <1>7, <2>1
    <3>3. CASE D = d
      <4>1. start <= t /\ t <= last
        OBVIOUS
      <4>2. t = MomentOf(D, h, m)
        BY <3>1, <3>3
      <4> QED
        BY <2>2, <4>1, <4>2
    <3>4. CASE D # d
      <4>1. t > D * 1440 + 1439
        BY <3>1, <3>2, <3>4 DEF MomentOf
      <4>2. D * 1440 + l >= start /\ D * 1440 + l <= last
        BY <1>5, <1>7, <3>2, <4>1
      <4>3. l = h1 * 60 + m1
        BY <1>4 DEF Late
      <4>4. D * 1440 + l = MomentOf(D, h1, m1)
        <5>1. h1 \in 0..23 /\ m1 \in 0..59
          BY <1>2
        <5> QED
          BY <3>2, <4>3, <5>1 DEF MomentOf
      <4> QED
        BY <2>2, <4>1, <4>2, <4>4
    <3> QED
      BY <3>3, <3>4
  <2>5. CASE hits = {}
    <3>1. \A t \in start..last : ~Matches(s, t)
      BY <2>4, <2>5
    <3> QED
      BY <1>3, <2>5, <3>1 DEF FindsFirst
  <2>6. CASE hits # {}
    <3>1. hits \in SUBSET Nat
      BY <2>3
    <3>2. PICK n \in hits : n = Min(hits) /\ \A t \in hits : n <= t
      BY <2>6, <3>1, MinIs
    <3>3. ASSUME NEW t \in start..last, Matches(s, t) PROVE n <= t
      <4>1. t \in hits \/ t > D * 1440 + 1439
        BY <2>4, <3>3
      <4>2. n \in Nat /\ n <= D * 1440 + 1439 /\ D \in Nat /\ t \in Nat
        BY <1>7, <2>3
      <4> QED
        BY <3>2, <4>1, <4>2
    <3>4. n \in start..last /\ Matches(s, n)
      BY <2>3
    <3>5. FirstMatch(s, start, last) = n
      BY <1>3, <1>11, <2>6, <3>2
    <3> QED
      BY <3>3, <3>4, <3>5 DEF FindsFirst
  <2> QED
    BY <2>5, <2>6
<1> QED
  BY <1>10, <1>11

\* A field that is accepted names values within its bounds only.
LEMMA FieldIs ==
  ASSUME NEW field \in Seq(Fragment), NEW min \in Int, NEW max \in Int
  PROVE  ParseField(field, min, max) \in SUBSET (min..max)
<1> SUFFICES ASSUME NEW v \in ParseField(field, min, max)
             PROVE  v \in min..max
  OBVIOUS
<1>1. PICK i \in DOMAIN field : /\ v \in FragmentValues(field[i], min, max)
                               /\ FragmentOk(field[i], min, max)
  BY DEF ParseField
<1>2. PICK f \in Fragment : f = field[i]
  OBVIOUS
<1>3. v \in FragmentValues(f, min, max) /\ FragmentOk(f, min, max)
  BY <1>1, <1>2
<1>4. f.range = <<>> \/ f.range \in Int \X Int
  BY DEF Fragment
<1>5. CASE f.range = <<>>
  BY <1>3, <1>5 DEF FragmentValues
<1>6. CASE f.range # <<>>
  <2>1. f.range[1] \in Int /\ f.range[2] \in Int
    BY <1>4, <1>6
  <2>2. min <= f.range[1] /\ f.range[2] <= max
    BY <1>3, <1>6 DEF FragmentOk
  <2>3. v \in f.range[1]..f.range[2]
    BY <1>3, <1>6 DEF FragmentValues
  <2> QED
    BY <2>1, <2>2, <2>3
<1> QED
  BY <1>5, <1>6

\* The lists of days of a schedule that was accepted.
Dated(s) ==
    /\ s.months \in SUBSET (1..12) /\ s.months # {}
    /\ s.dom \in SUBSET (1..31)
    /\ s.dow \in SUBSET (0..6) /\ s.dow # {}

\* An expression that is accepted has minutes and hours, and days.
LEMMA ParsedIs ==
  ASSUME NEW e \in Expression, Parses(e)
  PROVE  Timed(Parse(e)) /\ Dated(Parse(e))
<1>1. PICK A, B, C, D, W : /\ A = ParseField(e.minute, 0, 59)
                           /\ B = ParseField(e.hour, 0, 23)
                           /\ C = ParseField(e.dom, 1, 31)
                           /\ D = ParseField(e.month, 1, 12)
                           /\ W = ParseField(e.dow, 0, 7)
  OBVIOUS
<1>2. /\ e.minute \in Seq(Fragment) /\ e.hour \in Seq(Fragment)
      /\ e.dom \in Seq(Fragment) /\ e.month \in Seq(Fragment)
      /\ e.dow \in Seq(Fragment)
  BY DEF Expression
<1>3. /\ A \in SUBSET (0..59) /\ B \in SUBSET (0..23) /\ C \in SUBSET (1..31)
      /\ D \in SUBSET (1..12) /\ W \in SUBSET (0..7)
  <2>1. /\ 0 \in Int /\ 1 \in Int /\ 59 \in Int /\ 23 \in Int /\ 31 \in Int
        /\ 12 \in Int /\ 7 \in Int
    OBVIOUS
  <2> QED
    BY <1>1, <1>2, <2>1, FieldIs, Zenon
<1>4. /\ Parse(e).minutes = A /\ Parse(e).hours = B /\ Parse(e).dom = C
      /\ Parse(e).months = D /\ Parse(e).dow = {v % 7 : v \in W}
  BY <1>1 DEF Parse
<1>5. A # {} /\ B # {} /\ D # {} /\ {v % 7 : v \in W} # {}
  BY <1>4 DEF Parses
<1>6. {v % 7 : v \in W} \in SUBSET (0..6)
  BY <1>3
<1>7. Timed(Parse(e))
  BY <1>3, <1>4, <1>5 DEF Timed
<1>8. Dated(Parse(e))
  BY <1>3, <1>4, <1>5, <1>6 DEF Dated
<1> QED
  BY <1>7, <1>8

\* The next run of a schedule is the first minute after the given one that
\* matches, or none of the 400 days does; and asking again from any moment
\* before it, as a scheduler does that was down or early, gives the same.
THEOREM NextRunIsTheFirst ==
  ASSUME NEW e \in Expression, Parses(e), NEW from \in Nat,
         NEW s, s = Parse(e),
         NEW next, next = NextAfter(s, from)
  PROVE  /\ FindsFirst(s, from + 1, from + 1 + HorizonDays * 1440, next)
         /\ next # Never =>
               \A t \in from..(next - 1) : NextAfter(s, t) = next
<1>1. Timed(s)
  BY ParsedIs
<1>2. PICK H \in Nat : H = HorizonDays * 1440
  BY HorizonAssumption
<1>3. ASSUME NEW t \in Nat
      PROVE  FindsFirst(s, t + 1, t + 1 + H, NextAfter(s, t))
  <2>1. PICK a \in Nat, b \in Nat : a = t + 1 /\ b = t + 1 + H
    OBVIOUS
  <2>2. NextAfter(s, t) = FirstMatch(s, a, b)
    BY <1>2, <2>1 DEF NextAfter, MinutesPerDay
  <2>3. FindsFirst(s, a, b, FirstMatch(s, a, b))
    BY <1>1, FirstMatchFinds
  <2> QED
    BY <2>1, <2>2, <2>3
<1>4. ASSUME next # Never, NEW t \in from..(next - 1)
      PROVE  NextAfter(s, t) = next
  <2>1. /\ next \in (from + 1)..(from + 1 + H) /\ Matches(s, next)
        /\ \A x \in (from + 1)..(from + 1 + H) : Matches(s, x) => next <= x
    BY <1>3, <1>4 DEF FindsFirst
  <2>2. t \in Nat /\ next \in Nat /\ next \in (t + 1)..(t + 1 + H)
    BY <1>4, <2>1
  <2>3. PICK n : n = NextAfter(s, t)
    OBVIOUS
  <2>4. FindsFirst(s, t + 1, t + 1 + H, n)
    BY <1>3, <2>2, <2>3
  <2>5. /\ n \in (t + 1)..(t + 1 + H) /\ Matches(s, n)
        /\ \A x \in (t + 1)..(t + 1 + H) : Matches(s, x) => n <= x
    BY <2>1, <2>2, <2>4 DEF FindsFirst
  <2>6. n <= next
    BY <2>1, <2>2, <2>5
  <2>7. n \in (from + 1)..(from + 1 + H)
    BY <2>1, <2>2, <2>5, <2>6
  <2>8. next <= n
    BY <2>1, <2>5, <2>7
  <2> QED
    BY <2>2, <2>3, <2>5, <2>6, <2>8
<1>5. FindsFirst(s, from + 1, from + 1 + H, next)
  BY <1>3
<1>6. FindsFirst(s, from + 1, from + 1 + HorizonDays * 1440, next)
  BY <1>2, <1>5 DEF FindsFirst
<1> QED
  BY <1>4, <1>6
-----------------------------------------------------------------------------
(* The calendar *)

\* The first of March of a year, as a day since 1 March 0000: years are counted
\* by 400, 100, 4 and 1 from there.
YearStart(e, c, q, r) == 146097 * e + 36524 * c + 1461 * q + 365 * r

\* The days from the first of March to a day of month m.
DaysBefore == <<306, 337, 0, 31, 61, 92, 122, 153, 184, 214, 245, 275>>
DayOfYear(m, day) == DaysBefore[m] + day - 1

\* Day z, counted from 1 March 0000, is in the year and has day number T in it.
InYear(z, e, c, q, r, T) ==
    /\ e \in Nat /\ c \in 0..3 /\ q \in 0..24 /\ r \in 0..3
    /\ z = YearStart(e, c, q, r) + T

\* Every day is in some year.
LEMMA YearHas ==
  ASSUME NEW z \in Nat
  PROVE  \E e \in Nat, c \in 0..3, q \in 0..24, r \in 0..3, T \in 0..365 :
            InYear(z, e, c, q, r, T)
<1>1. PICK e \in Nat, x \in Nat : z = 146097 * e + x /\ x < 146097
  <2>1. z \div 146097 \in Nat /\ z % 146097 \in Nat /\ z % 146097 < 146097
        /\ z = 146097 * (z \div 146097) + (z % 146097)
    OBVIOUS
  <2> QED
    BY <2>1
<1>2. PICK c \in 0..3, y \in Nat : x = 36524 * c + y /\ y <= 36524
  <2>1. CASE x = 146096
    <3>1. 3 \in 0..3 /\ 36524 \in Nat /\ x = 36524 * 3 + 36524
      BY <2>1
    <3> QED
      BY <3>1
  <2>2. CASE x # 146096
    <3>1. x \div 36524 \in 0..3 /\ x % 36524 \in Nat
          /\ x % 36524 <= 36524 /\ x = 36524 * (x \div 36524) + (x % 36524)
      BY <1>1, <2>2
    <3> QED
      BY <3>1
  <2> QED
    BY <2>1, <2>2
<1>3. PICK q \in 0..24, v \in Nat : y = 1461 * q + v /\ v <= 1460
  <2>1. y \div 1461 \in 0..24 /\ y % 1461 \in Nat /\ y % 1461 <= 1460
        /\ y = 1461 * (y \div 1461) + (y % 1461)
    BY <1>2
  <2> QED
    BY <2>1
<1>4. PICK r \in 0..3, T \in 0..365 : v = 365 * r + T
  <2>1. CASE v = 1460
    <3>1. 3 \in 0..3 /\ 365 \in 0..365 /\ v = 365 * 3 + 365
      BY <2>1
    <3> QED
      BY <3>1
  <2>2. CASE v # 1460
    <3>1. v \div 365 \in 0..3 /\ v % 365 \in 0..365
          /\ v = 365 * (v \div 365) + (v % 365)
      BY <1>3, <2>2
    <3> QED
      BY <3>1
  <2> QED
    BY <2>1, <2>2
<1>5. InYear(z, e, c, q, r, T)
  BY <1>1, <1>2, <1>3, <1>4 DEF InYear, YearStart
<1> QED
  BY <1>5

\* The year after a year begins 365 or 366 days later.
LEMMA NextYear ==
  ASSUME NEW e \in Nat, NEW c \in 0..3, NEW q \in 0..24, NEW r \in 0..3
  PROVE  \E e1 \in Nat, c1 \in 0..3, q1 \in 0..24, r1 \in 0..3 :
            YearStart(e1, c1, q1, r1) - YearStart(e, c, q, r) \in {365, 366}
<1>1. CASE r < 3
  <2>1. r + 1 \in 0..3
    BY <1>1
  <2>2. YearStart(e, c, q, r + 1) - YearStart(e, c, q, r) = 365
    BY <1>1 DEF YearStart
  <2> QED
    BY <2>1, <2>2
<1>2. CASE r = 3 /\ q < 24
  <2>1. q + 1 \in 0..24 /\ 0 \in 0..3
    BY <1>2
  <2>2. YearStart(e, c, q + 1, 0) - YearStart(e, c, q, r) = 366
    BY <1>2 DEF YearStart
  <2> QED
    BY <2>1, <2>2
<1>3. CASE r = 3 /\ q = 24 /\ c < 3
  <2>1. c + 1 \in 0..3 /\ 0 \in 0..3 /\ 0 \in 0..24
    BY <1>3
  <2>2. YearStart(e, c + 1, 0, 0) - YearStart(e, c, q, r) = 365
    BY <1>3 DEF YearStart
  <2> QED
    BY <2>1, <2>2
<1>4. CASE r = 3 /\ q = 24 /\ c = 3
  <2>1. e + 1 \in Nat /\ 0 \in 0..3 /\ 0 \in 0..24
    OBVIOUS
  <2>2. YearStart(e + 1, 0, 0, 0) - YearStart(e, c, q, r) = 366
    BY <1>4 DEF YearStart
  <2> QED
    BY <2>1, <2>2
<1> QED
  BY <1>1, <1>2, <1>3, <1>4

\* A day that every year has comes within 366 days.
LEMMA DayComes ==
  ASSUME NEW z \in Nat, NEW T \in 0..364
  PROVE  \E n \in z..(z + 366) :
            \E e \in Nat, c \in 0..3, q \in 0..24, r \in 0..3 :
               InYear(n, e, c, q, r, T)
<1>1. PICK e \in Nat, c \in 0..3, q \in 0..24, r \in 0..3, U \in 0..365 :
         InYear(z, e, c, q, r, U)
  BY YearHas
<1>2. PICK Y \in Nat : Y = YearStart(e, c, q, r)
  BY DEF YearStart
<1>3. z = Y + U
  BY <1>1, <1>2 DEF InYear
<1>4. CASE U <= T
  <2>1. Y + T \in z..(z + 366)
    BY <1>3, <1>4
  <2>2. InYear(Y + T, e, c, q, r, T)
    BY <1>2 DEF InYear
  <2> QED
    BY <2>1, <2>2
<1>5. CASE U > T
  <2>1. PICK e1 \in Nat, c1 \in 0..3, q1 \in 0..24, r1 \in 0..3 :
           YearStart(e1, c1, q1, r1) - YearStart(e, c, q, r) \in {365, 366}
    BY NextYear
  <2>2. PICK Y1 \in Nat : Y1 = YearStart(e1, c1, q1, r1)
    BY DEF YearStart
  <2>3. Y1 = Y + 365 \/ Y1 = Y + 366
    BY <1>2, <2>1, <2>2
  <2>4. Y1 + T \in z..(z + 366)
    BY <1>3, <1>5, <2>3
  <2>5. InYear(Y1 + T, e1, c1, q1, r1, T)
    BY <2>2 DEF InYear
  <2> QED
    BY <2>4, <2>5
<1> QED
  BY <1>4, <1>5

\* The year and the day number that Date computes of a day of an era.
YearOf(x) == (x - x \div 1460 + x \div 36524 - x \div 146096) \div 365
DayOf(x) == x - (365 * YearOf(x) + YearOf(x) \div 4 - YearOf(x) \div 100)

\* Day x of an era is day T of its year, but not the last of a leap year.
InEra(x, c, q, r, T) ==
    /\ c \in 0..3 /\ q \in 0..24 /\ r \in 0..3 /\ T \in 0..364
    /\ x = 36524 * c + 1461 * q + 365 * r + T
YearNo(c, q, r) == 100 * c + 4 * q + r

\* The year of a day that is not the last of a leap year: the days over of the
\* 1460 per four years are less than a year.
LEMMA YearIs ==
  ASSUME NEW x, NEW c, NEW q, NEW r, NEW T, InEra(x, c, q, r, T)
  PROVE  YearOf(x) = YearNo(c, q, r)
<1> USE DEF InEra
<1>1. x \in Nat /\ x <= 146095
  OBVIOUS
<1>2. x \div 36524 = c
  <2>1. PICK y \in Nat : y = 1461 * q + 365 * r + T /\ y < 36524
    OBVIOUS
  <2>2. x = 36524 * c + y
    BY <2>1
  <2> QED
    BY <2>2
<1>3. x \div 146096 = 0
  BY <1>1
<1>4. PICK b \in 0..364 : x - x \div 1460 + c = 365 * (100 * c + 4 * q + r) + b
  <2>1. PICK y \in Nat : y = 24 * c + q + 365 * r + T /\ y <= 1555
    OBVIOUS
  <2>2. PICK a \in Nat : a = 25 * c + q
    OBVIOUS
  <2>3. x = 1460 * a + y
    BY <2>1, <2>2
  <2>4. CASE y < 1460
    <3>1. x \div 1460 = a
      BY <2>3, <2>4
    <3>2. x - a + c = 365 * (100 * c + 4 * q + r) + T
      BY <2>2
    <3> QED
      BY <3>1, <3>2
  <2>5. CASE y >= 1460
    <3>1. PICK v \in Nat : v = y - 1460 /\ v < 1460
      BY <2>1, <2>5
    <3>2. x = 1460 * (a + 1) + v
      BY <2>3, <3>1
    <3>3. x \div 1460 = a + 1
      <4>1. PICK a1 \in Nat : a1 = a + 1
        OBVIOUS
      <4>2. x = 1460 * a1 + v
        BY <3>2, <4>1
      <4>3. x \div 1460 = a1
        BY <3>1, <4>2
      <4> QED
        BY <4>1, <4>3
    <3>4. T - 1 \in 0..364
      BY <2>1, <2>5
    <3>5. x - (a + 1) + c = 365 * (100 * c + 4 * q + r) + (T - 1)
      BY <2>2
    <3> QED
      BY <3>3, <3>4, <3>5
  <2> QED
    BY <2>4, <2>5
<1>5. PICK k \in Nat : k = 100 * c + 4 * q + r
  OBVIOUS
<1>6. x - x \div 1460 + x \div 36524 - x \div 146096 = 365 * k + b
  <2>1. PICK d \in Nat : d = x \div 1460
    BY <1>1
  <2> QED
    BY <1>1, <1>2, <1>3, <1>4, <1>5, <2>1
<1>7. (365 * k + b) \div 365 = k
  OBVIOUS
<1>8. YearOf(x) = k
  BY <1>6, <1>7 DEF YearOf
<1> QED
  BY <1>5, <1>8 DEF YearNo

\* And its day number.
LEMMA DayIs ==
  ASSUME NEW x, NEW c, NEW q, NEW r, NEW T, InEra(x, c, q, r, T)
  PROVE  DayOf(x) = T
<1>2. YearOf(x) = YearNo(c, q, r)
  BY YearIs
<1> USE DEF InEra
<1>1. PICK k \in Nat : k = 100 * c + 4 * q + r /\ k = YearOf(x)
  BY <1>2 DEF YearNo
<1>3. k \div 4 = 25 * c + q
  <2>1. PICK a \in Nat : a = 25 * c + q
    OBVIOUS
  <2>2. k = 4 * a + r
    BY <1>1, <2>1
  <2>3. k \div 4 = a
    BY <2>2
  <2> QED
    BY <2>1, <2>3
<1>4. k \div 100 = c
  <2>1. PICK a \in 0..99 : a = 4 * q + r
    OBVIOUS
  <2>2. k = 100 * c + a
    BY <1>1, <2>1
  <2> QED
    BY <2>2
<1>5. DayOf(x) = x - (365 * k + k \div 4 - k \div 100)
  BY <1>1 DEF DayOf
<1>6. x - (365 * k + (25 * c + q) - c) = T
  BY <1>1
<1> QED
  BY <1>3, <1>4, <1>5, <1>6
\* The date of a day number, the last step of Date.
DateOfDay(T) ==
    LET mp == (5 * T + 2) \div 153
    IN  [day |-> T - (153 * mp + 2) \div 5 + 1,
         month |-> IF mp < 10 THEN mp + 3 ELSE mp - 9]

\* The months have their lengths.
LEMMA DayNumberIs ==
  ASSUME NEW m \in 1..12, NEW day \in 1..31, day <= MonthLength[m]
  PROVE  /\ DayOfYear(m, day) \in 0..364
         /\ DateOfDay(DayOfYear(m, day)) = [day |-> day, month |-> m]
<1>1. PICK T : T = DayOfYear(m, day)
  OBVIOUS
<1>2. /\ T \in 0..364
      /\ DateOfDay(T).day = day /\ DateOfDay(T).month = m
  <2>1. CASE m = 1
    <3>1. T = 305 + day /\ day <= 31
      BY <1>1, <2>1 DEF DayOfYear, DaysBefore, MonthLength
    <3>2. (5 * T + 2) \div 153 = 10
      BY <3>1
    <3> QED
      BY <2>1, <3>1, <3>2 DEF DateOfDay
  <2>2. CASE m = 2
    <3>1. T = 336 + day /\ day <= 28
      BY <1>1, <2>2 DEF DayOfYear, DaysBefore, MonthLength
    <3>2. (5 * T + 2) \div 153 = 11
      BY <3>1
    <3> QED
      BY <2>2, <3>1, <3>2 DEF DateOfDay
  <2>3. CASE m = 3
    <3>1. T = day - 1 /\ day <= 31
      BY <1>1, <2>3 DEF DayOfYear, DaysBefore, MonthLength
    <3>2. (5 * T + 2) \div 153 = 0
      BY <3>1
    <3> QED
      BY <2>3, <3>1, <3>2 DEF DateOfDay
  <2>4. CASE m = 4
    <3>1. T = 30 + day /\ day <= 30
      BY <1>1, <2>4 DEF DayOfYear, DaysBefore, MonthLength
    <3>2. (5 * T + 2) \div 153 = 1
      BY <3>1
    <3> QED
      BY <2>4, <3>1, <3>2 DEF DateOfDay
  <2>5. CASE m = 5
    <3>1. T = 60 + day /\ day <= 31
      BY <1>1, <2>5 DEF DayOfYear, DaysBefore, MonthLength
    <3>2. (5 * T + 2) \div 153 = 2
      BY <3>1
    <3> QED
      BY <2>5, <3>1, <3>2 DEF DateOfDay
  <2>6. CASE m = 6
    <3>1. T = 91 + day /\ day <= 30
      BY <1>1, <2>6 DEF DayOfYear, DaysBefore, MonthLength
    <3>2. (5 * T + 2) \div 153 = 3
      BY <3>1
    <3> QED
      BY <2>6, <3>1, <3>2 DEF DateOfDay
  <2>7. CASE m = 7
    <3>1. T = 121 + day /\ day <= 31
      BY <1>1, <2>7 DEF DayOfYear, DaysBefore, MonthLength
    <3>2. (5 * T + 2) \div 153 = 4
      BY <3>1
    <3> QED
      BY <2>7, <3>1, <3>2 DEF DateOfDay
  <2>8. CASE m = 8
    <3>1. T = 152 + day /\ day <= 31
      BY <1>1, <2>8 DEF DayOfYear, DaysBefore, MonthLength
    <3>2. (5 * T + 2) \div 153 = 5
      BY <3>1
    <3> QED
      BY <2>8, <3>1, <3>2 DEF DateOfDay
  <2>9. CASE m = 9
    <3>1. T = 183 + day /\ day <= 30
      BY <1>1, <2>9 DEF DayOfYear, DaysBefore, MonthLength
    <3>2. (5 * T + 2) \div 153 = 6
      BY <3>1
    <3> QED
      BY <2>9, <3>1, <3>2 DEF DateOfDay
  <2>10. CASE m = 10
    <3>1. T = 213 + day /\ day <= 31
      BY <1>1, <2>10 DEF DayOfYear, DaysBefore, MonthLength
    <3>2. (5 * T + 2) \div 153 = 7
      BY <3>1
    <3> QED
      BY <2>10, <3>1, <3>2 DEF DateOfDay
  <2>11. CASE m = 11
    <3>1. T = 244 + day /\ day <= 30
      BY <1>1, <2>11 DEF DayOfYear, DaysBefore, MonthLength
    <3>2. (5 * T + 2) \div 153 = 8
      BY <3>1
    <3> QED
      BY <2>11, <3>1, <3>2 DEF DateOfDay
  <2>12. CASE m = 12
    <3>1. T = 274 + day /\ day <= 31
      BY <1>1, <2>12 DEF DayOfYear, DaysBefore, MonthLength
    <3>2. (5 * T + 2) \div 153 = 9
      BY <3>1
    <3> QED
      BY <2>12, <3>1, <3>2 DEF DateOfDay
  <2> QED
    BY <2>1, <2>2, <2>3, <2>4, <2>5, <2>6, <2>7, <2>8, <2>9, <2>10, <2>11, <2>12
<1>3. DateOfDay(T) = [day |-> day, month |-> m]
  BY <1>2 DEF DateOfDay
<1> QED
  BY <1>1, <1>2, <1>3

\* From 1 March 0000 to 1 January 1970.
Epoch == 719468

\* Day d, counted from 1 January 1970, is this day of month m.
IsDate(d, m, day) == d \in Nat /\ Date(d) = [day |-> day, month |-> m]

\* Date finds the month and the day of every day number.
LEMMA DateIs ==
  ASSUME NEW m \in 1..12, NEW day \in 1..31, day <= MonthLength[m],
         NEW d \in Nat, NEW e, NEW c, NEW q, NEW r,
         InYear(d + Epoch, e, c, q, r, DayOfYear(m, day))
  PROVE  IsDate(d, m, day)
<1>1. PICK T : T = DayOfYear(m, day)
  OBVIOUS
<1>2. T \in 0..364 /\ DateOfDay(T) = [day |-> day, month |-> m]
  BY <1>1, DayNumberIs
<1>3. /\ e \in Nat /\ c \in 0..3 /\ q \in 0..24 /\ r \in 0..3
      /\ d + Epoch = YearStart(e, c, q, r) + T
  BY <1>1 DEF InYear
<1>4. PICK x \in Nat : x = 36524 * c + 1461 * q + 365 * r + T /\ x < 146097
  BY <1>2, <1>3
<1>5. InEra(x, c, q, r, T)
  BY <1>2, <1>3, <1>4 DEF InEra
<1>10. Epoch \in Nat
  BY SMT DEF Epoch
<1>6. d + Epoch = 146097 * e + x
  BY <1>2, <1>3, <1>4 DEF YearStart
<1>7. (d + Epoch) % 146097 = x
  BY <1>3, <1>4, <1>6, <1>10
<1>8. Date(d) = DateOfDay(DayOf((d + Epoch) % 146097))
  BY SMT DEF Date, DateOfDay, DayOf, YearOf, Epoch
<1>9. DayOf(x) = T
  BY <1>5, DayIs
<1> QED
  BY <1>2, <1>7, <1>8, <1>9 DEF IsDate

\* A date that every year has comes within 366 days, and if its month has as many
\* days left, so do the days after it.
LEMMA DateComes ==
  ASSUME NEW m \in 1..12, NEW day \in 1..31, day <= MonthLength[m], NEW d \in Nat
  PROVE  \E n \in d..(d + 366) :
            \A i \in 0..6 : day + i <= MonthLength[m] => IsDate(n + i, m, day + i)
<1>1. PICK T : T = DayOfYear(m, day)
  OBVIOUS
<1>2. T \in 0..364
  BY <1>1, DayNumberIs
<1>8. Epoch \in Nat
  BY SMT DEF Epoch
<1>3. PICK z \in Nat : z = d + Epoch
  BY <1>8
<1>4. PICK k \in z..(z + 366) :
         \E e \in Nat, c \in 0..3, q \in 0..24, r \in 0..3 :
            InYear(k, e, c, q, r, T)
  BY <1>2, DayComes
<1>5. PICK e \in Nat, c \in 0..3, q \in 0..24, r \in 0..3 : InYear(k, e, c, q, r, T)
  BY <1>4
<1>6. PICK n \in d..(d + 366) : k = n + Epoch
  <2>1. k - Epoch \in d..(d + 366) /\ k = (k - Epoch) + Epoch
    BY <1>3, <1>8
  <2> QED
    BY <2>1
<1>7. ASSUME NEW i \in 0..6, day + i <= MonthLength[m]
      PROVE  IsDate(n + i, m, day + i)
  <2>1. MonthLength[m] \in 1..31
    BY DEF MonthLength
  <2>2. PICK a \in 1..31, b \in Nat : a = day + i /\ b = n + i
    BY <1>7, <2>1
  <2>3. DayOfYear(m, a) = T + i
    <3>1. DaysBefore[m] \in Nat
      BY DEF DaysBefore
    <3> QED
      BY <1>1, <2>2, <3>1 DEF DayOfYear
  <2>4. InYear(b + Epoch, e, c, q, r, DayOfYear(m, a))
    <3>1. k = YearStart(e, c, q, r) + T
      BY <1>5 DEF InYear
    <3>2. YearStart(e, c, q, r) \in Nat
      BY DEF YearStart
    <3>3. b + Epoch = YearStart(e, c, q, r) + (T + i)
      BY <1>2, <1>6, <1>8, <2>2, <3>1, <3>2
    <3> QED
      BY <2>3, <3>3 DEF InYear
  <2>5. a <= MonthLength[m]
    BY <1>7, <2>2
  <2>6. IsDate(b, m, a)
    BY <2>2, <2>4, <2>5, DateIs
  <2> QED
    BY <2>2, <2>6
<1> QED
  BY <1>7

\* Of seven days in a row one is the given day of the week.
LEMMA WeekdayComes ==
  ASSUME NEW n \in Nat, NEW w \in 0..6
  PROVE  \E i \in 0..6 : DayOfWeek(n + i) = w
<1>1. PICK b \in Nat, a \in 0..6 : n + 4 = 7 * b + a
  <2>1. (n + 4) \div 7 \in Nat /\ (n + 4) % 7 \in 0..6
        /\ n + 4 = 7 * ((n + 4) \div 7) + ((n + 4) % 7)
    OBVIOUS
  <2> QED
    BY <2>1
<1>2. CASE a <= w
  <2>1. PICK i \in 0..6 : i = w - a
    BY <1>2
  <2>2. n + i + 4 = 7 * b + w
    BY <1>1, <2>1
  <2>3. (n + i + 4) % 7 = w
    BY <2>2
  <2> QED
    BY <2>3 DEF DayOfWeek
<1>3. CASE a > w
  <2>1. PICK i \in 0..6 : i = 7 + w - a
    BY <1>3
  <2>2. n + i + 4 = 7 * (b + 1) + w
    BY <1>1, <2>1
  <2>3. PICK b1 \in Nat : b1 = b + 1
    OBVIOUS
  <2>4. n + i + 4 = 7 * b1 + w
    BY <2>2, <2>3
  <2>5. (n + i + 4) % 7 = w
    BY <2>4
  <2> QED
    BY <2>5 DEF DayOfWeek
<1> QED
  BY <1>2, <1>3

\* A schedule that names a day of every year has one within 372 days.
LEMMA DayIsFound ==
  ASSUME NEW s, Dated(s), Yearly(s), NEW d \in Nat
  PROVE  \E n \in d..(d + 372) : DayMatches(s, n)
<1>1. PICK m \in s.months : m \in 1..12
  BY DEF Dated
<1>2. MonthLength[m] >= 28 /\ MonthLength[m] \in Nat
  BY <1>1 DEF MonthLength
<1>3. PICK n \in d..(d + 366) :
         \A i \in 0..6 : 1 + i <= MonthLength[m] => IsDate(n + i, m, 1 + i)
  <2>1. 1 \in 1..31 /\ 1 <= MonthLength[m]
    BY <1>2
  <2> QED
    BY <1>1, <2>1, DateComes
<1>4. \A i \in 0..6 : IsDate(n + i, m, 1 + i)
  BY <1>2, <1>3
<1>5. CASE s.dowRestricted
  <2>1. PICK w \in s.dow : w \in 0..6
    BY DEF Dated
  <2>2. PICK i \in 0..6 : DayOfWeek(n + i) = w
    <3>1. n \in Nat
      OBVIOUS
    <3> QED
      BY <2>1, <3>1, WeekdayComes
  <2>3. Date(n + i).month \in s.months /\ DayOfWeek(n + i) \in s.dow
    BY <1>1, <1>4, <2>1, <2>2 DEF IsDate
  <2>4. DayMatches(s, n + i)
    BY <1>5, <2>3, Zenon DEF DayMatches
  <2>5. n + i \in d..(d + 372)
    OBVIOUS
  <2> QED
    BY <2>4, <2>5
<1>6. CASE ~s.dowRestricted /\ ~s.domRestricted
  <2>1. IsDate(n, m, 1)
    <3>1. 0 \in 0..6 /\ n + 0 = n /\ 1 + 0 = 1
      OBVIOUS
    <3>2. IsDate(n + 0, m, 1 + 0)
      BY <1>4, <3>1
    <3> QED
      BY <3>1, <3>2
  <2>2. Date(n).month \in s.months
    BY <1>1, <2>1 DEF IsDate
  <2>3. DayMatches(s, n)
    BY <1>6, <2>2, Zenon DEF DayMatches
  <2>4. n \in d..(d + 372)
    OBVIOUS
  <2> QED
    BY <2>3, <2>4
<1>7. CASE ~s.dowRestricted /\ s.domRestricted
  <2>1. PICK k \in s.months, a \in s.dom : a <= MonthLength[k]
    BY <1>7 DEF Yearly
  <2>2. k \in 1..12 /\ a \in 1..31
    BY DEF Dated
  <2>3. PICK x \in d..(d + 366) :
           \A i \in 0..6 : a + i <= MonthLength[k] => IsDate(x + i, k, a + i)
    BY <2>1, <2>2, DateComes
  <2>4. IsDate(x, k, a)
    <3>1. 0 \in 0..6 /\ x + 0 = x /\ a + 0 = a
      BY <2>2
    <3>2. IsDate(x + 0, k, a + 0)
      BY <2>1, <2>3, <3>1
    <3> QED
      BY <3>1, <3>2
  <2>5. Date(x).month \in s.months /\ Date(x).day \in s.dom
    BY <2>1, <2>4 DEF IsDate
  <2>6. DayMatches(s, x)
    BY <1>7, <2>5, Zenon DEF DayMatches
  <2>7. x \in d..(d + 372)
    OBVIOUS
  <2> QED
    BY <2>6, <2>7
<1> QED
  BY <1>5, <1>6, <1>7

\* "None" is the answer only for a day that comes less than once a year.
LEMMA YearlyFires ==
  ASSUME NEW e \in Expression, Parses(e), NEW from \in Nat,
         NEW s, s = Parse(e), Yearly(s)
  PROVE  NextAfter(s, from) # Never
<1>1. Timed(s) /\ Dated(s)
  BY ParsedIs
<1>2. PICK H \in Nat : H = HorizonDays * 1440 /\ H >= 400 * 1440
  BY HorizonAssumption
<1>3. PICK D \in Nat, x \in 0..1439 : from = D * 1440 + x
  <2>1. from \div 1440 \in Nat /\ from % 1440 \in 0..1439
        /\ from = ((from \div 1440) * 1440) + (from % 1440)
    OBVIOUS
  <2> QED
    BY <2>1
<1>4. PICK d \in (D + 1)..(D + 1 + 372) : DayMatches(s, d)
  <2>1. D + 1 \in Nat
    OBVIOUS
  <2> QED
    BY <1>1, <2>1, DayIsFound
<1>5. PICK h \in s.hours, m \in s.minutes : h \in 0..23 /\ m \in 0..59
  BY <1>1 DEF Timed
<1>6. PICK t : t = MomentOf(d, h, m)
  OBVIOUS
<1>7. PartsOf(t, d, h, m)
  <2>1. d \in Nat
    OBVIOUS
  <2> QED
    BY <1>5, <1>6, <2>1, MomentIs
<1>8. Matches(s, t)
  BY <1>4, <1>5, <1>7 DEF PartsOf, Matches, MinutesPerDay
<1>9. t \in (from + 1)..(from + 1 + H)
  <2>1. t = d * 1440 + h * 60 + m
    BY <1>6 DEF MomentOf
  <2>2. d >= D + 1 /\ d <= D + 373
    OBVIOUS
  <2> QED
    BY <1>2, <1>3, <1>5, <2>1, <2>2
<1>10. FindsFirst(s, from + 1, from + 1 + H, NextAfter(s, from))
  BY <1>2, NextRunIsTheFirst
<1>11. Never \notin (from + 1)..(from + 1 + H)
  BY DEF Never
<1> QED
  BY <1>8, <1>9, <1>10, <1>11 DEF FindsFirst

-----------------------------------------------------------------------------
(* The questions *)

\* Every question is about inputs of the constants.
AskedOf(a) ==
    \/ a = Nothing
    \/ \E e \in CronExprs, t \in Moments :
          a = [about |-> "cron", expr |-> e, from |-> t]
    \/ \E w \in Windows : a = [about |-> "window", w |-> w]
    \/ \E t \in Temps, h \in Hums, x \in Airs :
          a = [about |-> "comfort", temp |-> t, hum |-> h, air |-> x]
    \/ \E r \in Rows : a = [about |-> "row", row |-> r]
    \/ \E c \in Candidates, r \in Roles, w \in Weights :
          a = [about |-> "score", c |-> c, r |-> r, w |-> w]
    \/ \E h \in Histories, c \in Computations, f \in Slices :
          a = [about |-> "kpi", events |-> h, comps |-> c, f |-> f]

Asked == AskedOf(asked)

\* Each step asks one, or forgets it.
THEOREM QuestionsAreKnown == AskSpec => []Asked
<1>1. AskInit => Asked
  BY DEF AskInit, Asked, AskedOf
<1>2. Asked /\ [Ask]_asked => Asked'
  <2> SUFFICES ASSUME Asked, [Ask]_asked PROVE AskedOf(asked')
    BY DEF Asked
  <2>1. CASE AskCron
    BY <2>1, Zenon DEF AskCron, AskedOf
  <2>2. CASE AskWindow
    BY <2>2, Zenon DEF AskWindow, AskedOf
  <2>3. CASE AskComfort
    BY <2>3, Zenon DEF AskComfort, AskedOf
  <2>4. CASE AskRow
    BY <2>4, Zenon DEF AskRow, AskedOf
  <2>5. CASE AskScore
    BY <2>5, Zenon DEF AskScore, AskedOf
  <2>6. CASE AskKpi
    BY <2>6, Zenon DEF AskKpi, AskedOf
  <2>7. CASE Answered
    BY <2>7, Zenon DEF Answered, AskedOf
  <2>8. CASE UNCHANGED asked
    BY <2>8, Zenon DEF Asked
  <2> QED
    BY <2>1, <2>2, <2>3, <2>4, <2>5, <2>6, <2>7, <2>8 DEF Ask
<1> QED
  BY <1>1, <1>2, PTL DEF AskSpec

\* A question tells what it is about.
LEMMA AboutCron ==
  ASSUME NEW a, AskedOf(a), a.about = "cron"
  PROVE  a.expr \in CronExprs /\ a.from \in Moments
BY DEF AskedOf, Nothing

\* The same of a row of an import.
LEMMA AboutRow ==
  ASSUME NEW a, AskedOf(a), a.about = "row"
  PROVE  a.row \in Rows
BY DEF AskedOf, Nothing

\* The same of a candidate.
LEMMA AboutScore ==
  ASSUME NEW a, AskedOf(a), a.about = "score"
  PROVE  a.c \in Candidates /\ a.r \in Roles /\ a.w \in Weights
BY DEF AskedOf, Nothing

\* The same of a window of points, and of the three of a comfort index.
LEMMA AboutWindow ==
  ASSUME NEW a, AskedOf(a)
  PROVE  /\ a.about = "window" => a.w \in Windows
         /\ a.about = "comfort" =>
               a.temp \in Temps /\ a.hum \in Hums /\ a.air \in Airs
BY DEF AskedOf, Nothing

\* A report that is scheduled by an expression runs at its next moment and at no
\* other, whenever the scheduler asks, and its schedule ends only for a day that
\* comes less than once a year (reports/cron.rs, next_after).
THEOREM SchedulesAreKept == AskSpec => []CronFindsNext
<1>1. ASSUME Asked, asked.about = "cron", Parses(asked.expr)
      PROVE  /\ asked.expr \in Expression /\ asked.from \in Nat
             /\ Moments \subseteq Nat
  BY <1>1, AboutCron, QuestionAssumption DEF Asked
<1>2. ASSUME Asked, asked.about = "cron", Parses(asked.expr),
             NEW s, s = Parse(asked.expr),
             NEW next, next = NextAfter(s, asked.from)
      PROVE  /\ next # Never =>
                   /\ next > asked.from /\ Matches(s, next)
                   /\ NextAfter(s, next - 1) = next
                   /\ \A t \in Moments \cap (asked.from..(next - 1)) :
                         NextAfter(s, t) = next
             /\ next = Never => ~Yearly(s)
  <2>1. PICK e \in Expression, from \in Nat : e = asked.expr /\ from = asked.from
    BY <1>1, <1>2
  <2>2. /\ FindsFirst(s, from + 1, from + 1 + HorizonDays * 1440, next)
        /\ next # Never => \A t \in from..(next - 1) : NextAfter(s, t) = next
    BY <1>2, <2>1, NextRunIsTheFirst
  <2>3. Yearly(s) => next # Never
    BY <1>2, <2>1, YearlyFires
  <2>4. ASSUME next # Never
        PROVE  next > from /\ Matches(s, next) /\ NextAfter(s, next - 1) = next
    <3>1. PICK H \in Nat : H = HorizonDays * 1440
      BY HorizonAssumption
    <3>2. next \in (from + 1)..(from + 1 + H) /\ Matches(s, next)
      BY <2>2, <2>4, <3>1 DEF FindsFirst
    <3>3. next - 1 \in from..(next - 1)
      BY <3>2
    <3> QED
      BY <2>2, <2>4, <3>2, <3>3
  <2> QED
    BY <2>1, <2>2, <2>3, <2>4
<1>3. Asked => NextRunIsNext
  BY <1>2, Zenon DEF NextRunIsNext
<1>4. Asked => SilentOnlyIfRare
  BY <1>2, Zenon DEF SilentOnlyIfRare
<1>5. Asked => CronFindsNext
  BY <1>3, <1>4 DEF CronFindsNext
<1> QED
  BY <1>5, QuestionsAreKnown, PTL

-----------------------------------------------------------------------------
(* The rows of an import *)

\* What a cell holds.
LEMMA CellHas ==
  ASSUME NEW cell \in Cell
  PROVE  \/ cell.type \in {"absent", "null", "bool"}
         \/ cell.type = "num" /\ cell.val \in Int
         \/ cell.type = "text" /\ cell.kind \in {"blank", "other", "flag", "code"}
         \/ cell.type = "text" /\ cell.kind = "number" /\ cell.val \in Int
BY DEF Cell

\* The parsers make cells of cells.
LEMMA ParsersMakeCells ==
  ASSUME NEW cell \in Cell
  PROVE  FromCsv(cell) \in Cell /\ FromXlsx(cell) \in Cell
<1>1. CASE cell \in [type : {"absent", "null"}]
  <2>1. FromCsv(cell) = Blank
    BY <1>1, Zenon DEF FromCsv
  <2>2. Blank \in Cell /\ Null \in Cell
    BY DEF Blank, Null, Cell
  <2>3. FromXlsx(cell) \in {Null, cell}
    BY Zenon DEF FromXlsx
  <2> QED
    BY <2>1, <2>2, <2>3
<1>2. CASE cell \in [type : {"bool"}, val : BOOLEAN]
  <2>1. cell.type = "bool" /\ cell.val \in BOOLEAN
    BY <1>2
  <2>2. FromCsv(cell) = FlagText(cell.val) /\ FromXlsx(cell) = cell
    BY <2>1 DEF FromCsv, FromXlsx
  <2>3. \A x \in BOOLEAN : FlagText(x) \in Cell
    BY Zenon DEF FlagText, Cell
  <2> QED
    BY <2>1, <2>2, <2>3
<1>3. CASE cell \in [type : {"num"}, val : Int]
  <2>1. cell.type = "num" /\ cell.val \in Int
    BY <1>3
  <2>2. FromCsv(cell) = NumText(cell.val) /\ FromXlsx(cell) = cell
    BY <2>1 DEF FromCsv, FromXlsx
  <2>3. \A x \in Int : NumText(x) \in Cell
    BY Zenon DEF NumText, Cell
  <2> QED
    BY <2>1, <2>2, <2>3
<1>4. CASE cell.type = "text"
  BY <1>4 DEF FromCsv, FromXlsx
<1> QED
  BY <1>1, <1>2, <1>3, <1>4 DEF Cell

\* "as i32" keeps a number that an i32 can hold and that is not negative.
LEMMA SmallNumbersStay ==
  ASSUME NEW n \in Int, n >= 0, Fits(n)
  PROVE  AsI32(n) = n
<1>1. PICK k \in Nat : k = MaxInt
  BY MaxIntAssumption
<1>2. PICK w \in Nat \ {0} : w = 2 * (k + 1)
  OBVIOUS
<1>3. n \in 0..(w - 1) /\ n <= k
  BY <1>1, <1>2 DEF Fits
<1>4. n % w = n
  BY <1>3
<1> QED
  BY <1>1, <1>2, <1>3, <1>4 DEF AsI32

\* What the conversion makes of the price of a row that passes.
LEMMA PriceIs ==
  ASSUME NEW cell \in Cell, PriceOk(cell)
  PROVE  /\ ~Count(cell) => Price(cell) = 0
         /\ Count(cell) => cell.val \in Int /\ cell.val >= 0
         /\ Count(cell) /\ Fits(cell.val) => Price(cell) = cell.val
         /\ Count(cell) /\ ~Fits(cell.val) /\ cell.type # "num" => Price(cell) = 0
<1>1. CASE cell.type \in {"absent", "null"}
  BY <1>1 DEF Count, Price, IsText
<1>2. CASE cell.type = "num" /\ cell.val \in Int /\ cell.val >= 0
  <2>1. Price(cell) = AsI32(cell.val)
    BY <1>2 DEF Price, IsText
  <2>2. Count(cell)
    BY <1>2 DEF Count
  <2> QED
    BY <1>2, <2>1, <2>2, SmallNumbersStay
<1>3. CASE /\ cell.type = "text" /\ cell.kind = "number"
           /\ cell.val \in Int /\ cell.val >= 0
  <2>1. Price(cell) = IF Fits(cell.val) THEN cell.val ELSE 0
    BY <1>3 DEF Price, IsText
  <2>2. Count(cell)
    BY <1>3 DEF Count, IsText
  <2> QED
    BY <1>3, <2>1, <2>2
<1> QED
  BY <1>1, <1>2, <1>3, CellHas DEF PriceOk, Count, IsText

\* And of the shelf life.
LEMMA LifeIs ==
  ASSUME NEW cell \in Cell, LifeOk(cell), ShelfLife(cell) # NoLife,
         cell.type = "num" => Fits(cell.val)
  PROVE  ShelfLife(cell)[1] >= 0
<1>1. CASE cell.type \in {"absent", "null"}
  BY <1>1 DEF ShelfLife, IsText
<1>2. CASE cell.type = "num" /\ cell.val \in Int /\ cell.val >= 0
  <2>1. ShelfLife(cell) = <<AsI32(cell.val)>>
    BY <1>2 DEF ShelfLife, IsText
  <2> QED
    BY <1>2, <2>1, SmallNumbersStay
<1>3. CASE /\ cell.type = "text" /\ cell.kind = "number"
           /\ cell.val \in Int /\ cell.val >= 0
  <2>1. ShelfLife(cell) = IF Fits(cell.val) THEN <<cell.val>> ELSE NoLife
    BY <1>3 DEF ShelfLife, IsText
  <2> QED
    BY <1>3, <2>1
<1>4. CASE cell = Blank
  BY <1>4 DEF ShelfLife, IsText, Blank
<1> QED
  BY <1>1, <1>2, <1>3, <1>4, CellHas DEF LifeOk, Count, IsText

\* A price that both files of a sheet have.
LEMMA FilesAgree ==
  ASSUME NEW cell \in Cell, PriceOk(FromCsv(cell)), PriceOk(FromXlsx(cell)),
         Fits(FromCsv(cell).val)
  PROVE  Price(FromCsv(cell)) = Price(FromXlsx(cell))
<1>1. CASE cell.type \in {"absent", "null"}
  <2>1. FromCsv(cell) = Blank
    BY <1>1 DEF FromCsv
  <2>2. ~PriceOk(Blank)
    BY DEF PriceOk, Blank, Count, IsText
  <2> QED
    BY <2>1, <2>2
<1>2. CASE cell.type = "bool"
  <2>1. FromXlsx(cell) = cell
    BY <1>2 DEF FromXlsx
  <2>2. ~PriceOk(cell)
    BY <1>2 DEF PriceOk, Count, IsText
  <2> QED
    BY <2>1, <2>2
<1>3. CASE cell.type = "num"
  <2>1. FromCsv(cell) = NumText(cell.val) /\ FromXlsx(cell) = cell
    BY <1>3 DEF FromCsv, FromXlsx
  <2>2. NumText(cell.val) \in Cell
    BY <2>1, ParsersMakeCells
  <2>3. NumText(cell.val).val = cell.val
    BY DEF NumText
  <2>4. Count(NumText(cell.val)) /\ Count(cell)
    BY <1>3, <2>1 DEF PriceOk, NumText
  <2>5. Price(NumText(cell.val)) = cell.val
    BY <2>1, <2>2, <2>3, <2>4, PriceIs
  <2>6. Price(cell) = cell.val
    BY <2>1, <2>3, <2>4, PriceIs
  <2> QED
    BY <2>1, <2>5, <2>6
<1>4. CASE cell.type = "text"
  <2>1. FromCsv(cell) = cell /\ FromXlsx(cell) = cell
    BY <1>4 DEF FromCsv, FromXlsx
  <2> QED
    BY <2>1
<1> QED
  BY <1>1, <1>2, <1>3, <1>4, CellHas

\* A row that passes the validator is stored with the price it shows, or the
\* table refuses it, unless a number is too large for the column; a CSV and a
\* spreadsheet file of the same sheet are stored alike
\* (products/import_validator.rs).
THEOREM RowsKeepNumbers == AskSpec => []ValidRowKeepsNumbers
<1>1. ASSUME Asked, asked.about = "row" PROVE asked.row \in [Column -> Cell]
  BY <1>1, AboutRow, QuestionAssumption DEF Asked
<1> DEFINE TooLarge(cell) == cell.type = "num" /\ ~Fits(cell.val)
           Kept(row) ==
              LET cell == row["price_cents"]  out == ToProductFields(row)
              IN  /\ Storable(out) \/ TooLarge(cell)
                                   \/ TooLarge(row["shelf_life_days"])
                  /\ Count(cell) /\ Fits(cell.val) => out.price = cell.val
                  /\ out.price # 0 => Count(cell)
<1>2. ASSUME NEW row \in [Column -> Cell], Valid(row) PROVE Kept(row)
  <2>1. PICK cell \in Cell, life \in Cell :
           cell = row["price_cents"] /\ life = row["shelf_life_days"]
    BY DEF Column
  <2>2. PriceOk(cell) /\ LifeOk(life)
    BY <1>2, <2>1 DEF Valid
  <2>3. PICK out : /\ out = ToProductFields(row) /\ out.price = Price(cell)
                   /\ out.life = ShelfLife(life)
    <3>1. ToProductFields(row).price = Price(cell)
      BY <2>1 DEF ToProductFields
    <3>2. ToProductFields(row).life = ShelfLife(life)
      BY <2>1 DEF ToProductFields
    <3> QED
      BY <3>1, <3>2, Zenon
  <2>4. /\ Count(cell) /\ Fits(cell.val) => out.price = cell.val
        /\ out.price # 0 => Count(cell)
    BY <2>2, <2>3, PriceIs
  <2>5. ASSUME ~TooLarge(cell) PROVE out.price >= 0
    <3>1. CASE Count(cell) /\ Fits(cell.val)
      <4>1. out.price = cell.val /\ cell.val \in Int /\ cell.val >= 0
        BY <2>2, <2>4, <3>1, PriceIs
      <4> QED
        BY <4>1
    <3>2. CASE ~(Count(cell) /\ Fits(cell.val))
      <4>1. out.price = 0
        BY <2>2, <2>3, <2>5, <3>2, PriceIs
      <4> QED
        BY <4>1
    <3> QED
      BY <3>1, <3>2
  <2>6. ASSUME ~TooLarge(life), out.life # NoLife PROVE out.life[1] >= 0
    BY <2>2, <2>3, <2>6, LifeIs
  <2>7. Storable(out) \/ TooLarge(cell) \/ TooLarge(life)
    BY <2>5, <2>6 DEF Storable
  <2> QED
    BY <2>1, <2>3, <2>4, <2>7, Zenon
<1>3. ASSUME NEW shown \in [Column -> Cell]
      PROVE  LET csv  == [c \in Column |-> FromCsv(shown[c])]
                 xlsx == [c \in Column |-> FromXlsx(shown[c])]
             IN  /\ \A row \in {csv, xlsx} : Valid(row) => Kept(row)
                 /\ Valid(csv) /\ Valid(xlsx) /\ Fits(csv["price_cents"].val) =>
                       ToProductFields(csv).price = ToProductFields(xlsx).price
  <2>1. PICK csv, xlsx : /\ csv = [c \in Column |-> FromCsv(shown[c])]
                         /\ xlsx = [c \in Column |-> FromXlsx(shown[c])]
    OBVIOUS
  <2>2. \A c \in Column : FromCsv(shown[c]) \in Cell /\ FromXlsx(shown[c]) \in Cell
    BY ParsersMakeCells
  <2>3. csv \in [Column -> Cell] /\ xlsx \in [Column -> Cell]
    BY <2>1, <2>2
  <2>4. \A row \in {csv, xlsx} : Valid(row) => Kept(row)
    BY <1>2, <2>3, Zenon
  <2>5. PICK cell \in Cell : cell = shown["price_cents"]
    BY DEF Column
  <2>6. csv["price_cents"] = FromCsv(cell) /\ xlsx["price_cents"] = FromXlsx(cell)
    BY <2>1, <2>5 DEF Column
  <2>7. ASSUME Valid(csv), Valid(xlsx), Fits(csv["price_cents"].val)
        PROVE  ToProductFields(csv).price = ToProductFields(xlsx).price
    <3>1. /\ PriceOk(FromCsv(cell)) /\ PriceOk(FromXlsx(cell))
          /\ Fits(FromCsv(cell).val)
      BY <2>6, <2>7, Zenon DEF Valid
    <3>2. Price(FromCsv(cell)) = Price(FromXlsx(cell))
      BY <3>1, FilesAgree
    <3> QED
      BY <2>6, <3>2 DEF ToProductFields
  <2> QED
    BY <2>1, <2>4, <2>7, Zenon
<1>4. Asked => ValidRowKeepsNumbers
  BY <1>1, <1>3, Zenon DEF ValidRowKeepsNumbers
<1> QED
  BY <1>4, QuestionsAreKnown, PTL
-----------------------------------------------------------------------------
(* The scores of candidates *)

\* Facts about quotients and products.
LEMMA DivIs ==
  ASSUME NEW a \in Int, NEW b \in Int, a <= b, NEW n \in Nat \ {0}
  PROVE  a \div n \in Int /\ a \div n <= b \div n
OBVIOUS

LEMMA DivUpTo ==
  ASSUME NEW a \in Nat, NEW n \in Nat \ {0}
  PROVE  a \div n \in Nat /\ (a <= 900 * n => a \div n <= 900)
OBVIOUS

LEMMA TimesIs ==
  ASSUME NEW a \in Nat, NEW b \in Nat, NEW w \in Nat, a <= b
  PROVE  w * a \in Nat /\ w * b \in Nat /\ w * a <= w * b /\ a * w <= b * w
OBVIOUS

\* A skill that is listed once is matched once.
LEMMA MatchedIs ==
  ASSUME NEW skills \in Seq(STRING), NEW required \in Seq(STRING)
  PROVE  /\ Matched(skills, required) \in Nat
         /\ Cardinality(ToSet(required)) \in Nat
         /\ required # <<>> => Cardinality(ToSet(required)) # 0
         /\ IsInjective(skills) =>
               Matched(skills, required) <= Cardinality(ToSet(required))
<1> DEFINE Hits == {i \in DOMAIN skills : skills[i] \in ToSet(required)}
<1>1. IsFiniteSet(DOMAIN skills) /\ IsFiniteSet(DOMAIN required)
  <2>1. \A n \in Nat : IsFiniteSet(1..n)
    BY FS_Interval
  <2> QED
    BY <2>1
<1>2. IsFiniteSet(Hits)
  BY <1>1, FS_Subset
<1>3. IsFiniteSet(ToSet(required))
  <2> DEFINE f == [i \in DOMAIN required |-> required[i]]
  <2>1. f \in Surjection(DOMAIN required, ToSet(required))
    BY DEF Surjection, ToSet
  <2> QED
    BY <1>1, <2>1, FS_Surjection
<1>4. Matched(skills, required) \in Nat /\ Cardinality(ToSet(required)) \in Nat
  BY <1>2, <1>3, FS_CardinalityType DEF Matched
<1>5. ASSUME required # <<>> PROVE Cardinality(ToSet(required)) # 0
  <2>1. 1 \in DOMAIN required
    BY <1>5
  <2>2. ToSet(required) # {}
    BY <2>1 DEF ToSet
  <2> QED
    BY <1>3, <2>2, FS_EmptySet
<1>6. ASSUME IsInjective(skills)
      PROVE  Matched(skills, required) <= Cardinality(ToSet(required))
  <2> DEFINE g == [i \in Hits |-> skills[i]]
  <2>1. g \in Injection(Hits, ToSet(required))
    BY <1>6 DEF Injection, IsInjective
  <2> QED
    BY <1>3, <2>1, FS_Injection DEF Matched
<1> QED
  BY <1>4, <1>5, <1>6

\* More skills match no less.
LEMMA MoreMatch ==
  ASSUME NEW skills \in Seq(STRING), NEW required \in Seq(STRING), NEW s \in STRING
  PROVE  Matched(skills, required) <= Matched(Append(skills, s), required)
<1> DEFINE more == Append(skills, s)
           T == {i \in DOMAIN more : more[i] \in ToSet(required)}
           S == {i \in DOMAIN skills : skills[i] \in ToSet(required)}
<1>1. /\ more \in Seq(STRING) /\ Len(more) = Len(skills) + 1
      /\ \A i \in 1..Len(skills) : more[i] = skills[i]
  <2>1. more \in Seq(STRING)
    BY AppendProperties
  <2>2. Len(more) = Len(skills) + 1
    BY AppendProperties
  <2>3. \A i \in 1..Len(skills) : more[i] = skills[i]
    BY AppendProperties
  <2> QED
    BY <2>1, <2>2, <2>3
<1>2. IsFiniteSet(DOMAIN more)
  <2>1. \A n \in Nat : IsFiniteSet(1..n)
    BY FS_Interval
  <2> QED
    BY <1>1, <2>1
<1>3. IsFiniteSet(T)
  BY <1>2, FS_Subset
<1>4. S \in SUBSET T
  <2>1. DOMAIN skills = 1..Len(skills) /\ DOMAIN more = 1..(Len(skills) + 1)
    BY <1>1
  <2> QED
    BY <1>1, <2>1
<1> QED
  BY <1>3, <1>4, FS_Subset DEF Matched

\* The rank of a level of education.
LEMMA RankIs ==
  \A x \in DOMAIN EducationRank : EducationRank[x] \in 0..5
BY DEF EducationRank

\* Credit for education grows with its rank.
LEMMA EducationIs ==
  ASSUME NEW a \in DOMAIN EducationRank, NEW b \in DOMAIN EducationRank,
         NEW need \in DOMAIN EducationRank, EducationRank[a] <= EducationRank[b]
  PROVE  /\ EducationMatch(a, need) \in Nat /\ EducationMatch(a, need) <= 900
         /\ EducationMatch(a, need) <= EducationMatch(b, need)
<1>1. PICK x \in 0..5, y \in 0..5, n \in 0..5 :
         x = EducationRank[a] /\ y = EducationRank[b] /\ n = EducationRank[need]
  BY RankIs
<1>2. x <= y
  BY <1>1
<1>3. /\ EducationMatch(a, need) =
            IF n = 0 \/ x >= n THEN 900 ELSE (900 * x) \div n
      /\ EducationMatch(b, need) =
            IF n = 0 \/ y >= n THEN 900 ELSE (900 * y) \div n
  BY <1>1 DEF EducationMatch, Parts
<1>4. ASSUME n # 0
      PROVE  /\ (900 * x) \div n \in Nat /\ (900 * x) \div n <= (900 * y) \div n
             /\ x < n => (900 * x) \div n <= 900
  <2>1. n \in Nat \ {0} /\ 900 * x \in Nat /\ 900 * y \in Nat /\ 900 * x <= 900 * y
        /\ (x < n => 900 * x <= 900 * n)
    BY <1>2, <1>4
  <2>2. PICK p \in Nat, q \in Nat : p = 900 * x /\ q = 900 * y
    BY <2>1
  <2>3. p \div n \in Nat /\ (p <= 900 * n => p \div n <= 900)
    BY <2>1, DivUpTo
  <2>4. p \div n <= q \div n
    BY <2>1, <2>2, DivIs
  <2> QED
    BY <2>1, <2>2, <2>3, <2>4
<1> QED
  BY <1>1, <1>2, <1>3, <1>4

\* Every part of a score is on its scale.
LEMMA GradesAre ==
  ASSUME NEW c \in Profile, NEW r \in OpenRole
  PROVE  /\ SkillMatch(c.skills, r.skills) \in Nat
         /\ IsInjective(c.skills) => SkillMatch(c.skills, r.skills) <= 900
         /\ ExperienceMatch(c.years, r.minYears) \in Nat
         /\ ExperienceMatch(c.years, r.minYears) <= 900
         /\ RecencyScore(c.days) \in Nat /\ RecencyScore(c.days) <= 900
         /\ CompletenessScore(c.complete) \in Nat
         /\ CompletenessScore(c.complete) <= 900
         /\ Multiplier(c, r) \in Nat /\ Multiplier(c, r) <= 2700
<1> USE DEF Parts
<1>1. /\ c.skills \in Seq(STRING) /\ r.skills \in Seq(STRING)
      /\ c.years \in Int /\ r.minYears \in Int /\ c.days \in Nat
      /\ c.complete \in 0..100
      /\ c.education \in DOMAIN EducationRank
      /\ r.education \in DOMAIN EducationRank
  BY DEF Profile, OpenRole
<1>2. /\ SkillMatch(c.skills, r.skills) \in Nat
      /\ IsInjective(c.skills) => SkillMatch(c.skills, r.skills) <= 900
  <2>1. CASE r.skills = <<>>
    BY <2>1 DEF SkillMatch
  <2>2. CASE r.skills # <<>>
    <3>1. PICK k \in Nat, n \in Nat \ {0} :
             k = Matched(c.skills, r.skills) /\ n = Cardinality(ToSet(r.skills))
      BY <1>1, <2>2, MatchedIs
    <3>2. IsInjective(c.skills) => k <= n
      BY <1>1, <3>1, MatchedIs
    <3>3. PICK a \in Nat : a = 900 * k
      OBVIOUS
    <3>4. a \div n \in Nat /\ (a <= 900 * n => a \div n <= 900)
      BY DivUpTo
    <3>5. k <= n => a <= 900 * n
      BY <3>3
    <3>6. SkillMatch(c.skills, r.skills) = a \div n
      BY <2>2, <3>1, <3>3 DEF SkillMatch
    <3> QED
      BY <3>2, <3>4, <3>5, <3>6
  <2> QED
    BY <2>1, <2>2
<1>3. /\ ExperienceMatch(c.years, r.minYears) \in Nat
      /\ ExperienceMatch(c.years, r.minYears) <= 900
  <2>1. PICK n \in Nat \ {0} : n = Most(1, r.minYears)
    BY <1>1 DEF Most
  <2>2. PICK a \in Int : a = (900 * c.years) \div n
    <3>1. 900 * c.years \in Int
      BY <1>1
    <3> QED
      BY <3>1, DivIs
  <2>3. ExperienceMatch(c.years, r.minYears) = Most(0, Least(900, a))
    BY <2>1, <2>2 DEF ExperienceMatch
  <2> QED
    BY <2>3 DEF Most, Least
<1>4. /\ RecencyScore(c.days) \in Nat /\ RecencyScore(c.days) <= 900
      /\ CompletenessScore(c.complete) \in Nat
      /\ CompletenessScore(c.complete) <= 900
  <2>1. PICK d \in Nat, k \in 0..100 : d = c.days /\ k = c.complete
    BY <1>1, Zenon
  <2>2. /\ RecencyScore(d) \in Nat /\ RecencyScore(d) <= 900
        /\ CompletenessScore(k) \in Nat /\ CompletenessScore(k) <= 900
    BY DEF RecencyScore, CompletenessScore, Most, Least
  <2> QED
    BY <2>1, <2>2
<1>5. Multiplier(c, r) \in Nat /\ Multiplier(c, r) <= 2700
  <2>1. /\ EducationMatch(c.education, r.education) \in Nat
        /\ EducationMatch(c.education, r.education) <= 900
    <3>1. EducationRank[c.education] <= EducationRank[c.education]
      BY <1>1, RankIs
    <3> QED
      BY <1>1, <3>1, EducationIs
  <2>2. \A has, required : TextMatch(has, required) \in {0, 900}
    BY DEF TextMatch
  <2>3. PICK x \in {0, 900}, y \in {0, 900} :
           /\ x = TextMatch(c.major, r.major)
           /\ y = TextMatch(c.availability, r.availability)
    BY <2>2
  <2>4. PICK z \in Nat : z = EducationMatch(c.education, r.education) /\ z <= 900
    BY <2>1
  <2>5. \/ Multiplier(c, r) = 3 * Parts
        \/ Multiplier(c, r) = TextMatch(c.major, r.major)
              + EducationMatch(c.education, r.education)
              + TextMatch(c.availability, r.availability)
    BY Zenon DEF Multiplier
  <2> QED
    BY <2>3, <2>4, <2>5
<1> QED
  BY <1>2, <1>3, <1>4, <1>5

\* Better in no part of the score than another candidate is.
AtLeast(b, c, r) ==
    /\ SkillMatch(c.skills, r.skills) <= SkillMatch(b.skills, r.skills)
    /\ ExperienceMatch(c.years, r.minYears) <= ExperienceMatch(b.years, r.minYears)
    /\ RecencyScore(c.days) <= RecencyScore(b.days)
    /\ CompletenessScore(c.complete) <= CompletenessScore(b.complete)
    /\ Multiplier(c, r) <= Multiplier(b, r)

\* A weighted sum of four parts.
Blend(w, a, b, c, d) ==
    w.skills * a + w.experience * b + w.recency * c + w.completeness * d

\* Weights are not negative, and 100 in all.
LEMMA WeightsAre ==
  ASSUME NEW w \in Weighting
  PROVE  /\ w.skills \in Nat /\ w.experience \in Nat
         /\ w.recency \in Nat /\ w.completeness \in Nat
         /\ w.skills + w.experience + w.recency + w.completeness = 100
BY DEF Weighting

\* It is a number, and grows with its parts.
LEMMA BlendGrows ==
  ASSUME NEW w \in Weighting,
         NEW a \in Nat, NEW b \in Nat, NEW c \in Nat, NEW d \in Nat,
         NEW a1 \in Nat, NEW b1 \in Nat, NEW c1 \in Nat, NEW d1 \in Nat,
         a <= a1, b <= b1, c <= c1, d <= d1
  PROVE  /\ Blend(w, a, b, c, d) \in Nat
         /\ Blend(w, a, b, c, d) <= Blend(w, a1, b1, c1, d1)
<1>1. PICK p \in Nat, q \in Nat, x \in Nat, y \in Nat :
         p = w.skills /\ q = w.experience /\ x = w.recency /\ y = w.completeness
  BY DEF Weighting
<1>2. PICK pa \in Nat, pa1 \in Nat : pa = p * a /\ pa1 = p * a1 /\ pa <= pa1
  BY TimesIs
<1>3. PICK qb \in Nat, qb1 \in Nat : qb = q * b /\ qb1 = q * b1 /\ qb <= qb1
  BY TimesIs
<1>4. PICK xc \in Nat, xc1 \in Nat : xc = x * c /\ xc1 = x * c1 /\ xc <= xc1
  BY TimesIs
<1>5. PICK yd \in Nat, yd1 \in Nat : yd = y * d /\ yd1 = y * d1 /\ yd <= yd1
  BY TimesIs
<1>6. /\ Blend(w, a, b, c, d) = pa + qb + xc + yd
      /\ Blend(w, a1, b1, c1, d1) = pa1 + qb1 + xc1 + yd1
  BY <1>1, <1>2, <1>3, <1>4, <1>5, Zenon DEF Blend
<1>7. pa + qb + xc + yd \in Nat /\ pa + qb + xc + yd <= pa1 + qb1 + xc1 + yd1
  BY <1>2, <1>3, <1>4, <1>5
<1> QED
  BY <1>6, <1>7, Zenon

\* Weights of 100 keep it within the scale of its parts.
LEMMA BlendIsBounded ==
  ASSUME NEW w \in Weighting, NEW k \in Nat,
         NEW a \in Nat, NEW b \in Nat, NEW c \in Nat, NEW d \in Nat,
         a <= k, b <= k, c <= k, d <= k
  PROVE  Blend(w, a, b, c, d) <= 100 * k
<1>1. Blend(w, k, k, k, k) = 100 * k
  <2>1. PICK p \in Nat, q \in Nat, x \in Nat, y \in Nat :
           p = w.skills /\ q = w.experience /\ x = w.recency /\ y = w.completeness
    BY DEF Weighting
  <2>2. p + q + x + y = 100
    BY <2>1, WeightsAre
  <2>3. p * k + q * k + x * k + y * k = 100 * k
    <3>1. PICK u \in Nat, v \in Nat : u = p + q /\ v = x + y
      OBVIOUS
    <3>2. u * k = p * k + q * k
      BY <3>1
    <3>3. v * k = x * k + y * k
      BY <3>1
    <3>4. (u + v) * k = u * k + v * k
      OBVIOUS
    <3>5. u + v = 100
      BY <2>2, <3>1
    <3> QED
      BY <3>2, <3>3, <3>4, <3>5
  <2>4. Blend(w, k, k, k, k) = p * k + q * k + x * k + y * k
    BY <2>1, Zenon DEF Blend
  <2> QED
    BY <2>3, <2>4
<1>2. Blend(w, a, b, c, d) <= Blend(w, k, k, k, k)
  BY BlendGrows, Zenon
<1> QED
  BY <1>1, <1>2, Zenon

\* A product of two numbers grows with both.
LEMMA ProductGrows ==
  ASSUME NEW m \in Nat, NEW n \in Nat, NEW m1 \in Nat, NEW n1 \in Nat,
         m <= m1, n <= n1
  PROVE  m * n \in Nat /\ m1 * n1 \in Nat /\ m * n <= m1 * n1
<1>1. m * n <= m1 * n
  BY TimesIs
<1>2. m1 * n <= m1 * n1
  BY TimesIs
<1>3. m * n \in Nat /\ m1 * n \in Nat /\ m1 * n1 \in Nat
  BY TimesIs
<1> QED
  BY <1>1, <1>2, <1>3

\* The score of a candidate, as a product.
LEMMA ScoreIs ==
  ASSUME NEW c, NEW r, NEW w
  PROVE  ScoreBlended(c, r, w).score =
            Multiplier(c, r) *
            Blend(w, SkillMatch(c.skills, r.skills),
                  ExperienceMatch(c.years, r.minYears), RecencyScore(c.days),
                  CompletenessScore(c.complete))
BY DEF ScoreBlended, Blend

\* The scales of the scores.
LEMMA ScalesAre ==
  ASSUME NEW c, NEW r, NEW w
  PROVE  /\ ScoreBlended(c, r, w).of = 243000000
         /\ ScoreCold(c).score =
              50 * RecencyScore(c.days) + 50 * CompletenessScore(c.complete)
         /\ ScoreCold(c).of = 90000
BY DEF ScoreBlended, ScoreCold, Parts

\* Scores are on their scale.
LEMMA ScoresAreOnScale ==
  ASSUME NEW c \in Profile, NEW r \in OpenRole, NEW w \in Weighting
  PROVE  LET s == ScoreBlended(c, r, w)  cold == ScoreCold(c)
         IN  /\ 0 <= cold.score /\ cold.score <= cold.of
             /\ 0 <= s.score
             /\ IsInjective(c.skills) => s.score <= s.of
<1>1. PICK a \in Nat, b \in Nat, d \in Nat, e \in Nat, m \in Nat :
         /\ a = SkillMatch(c.skills, r.skills)
         /\ b = ExperienceMatch(c.years, r.minYears) /\ b <= 900
         /\ d = RecencyScore(c.days) /\ d <= 900
         /\ e = CompletenessScore(c.complete) /\ e <= 900
         /\ m = Multiplier(c, r) /\ m <= 2700
         /\ IsInjective(c.skills) => a <= 900
  BY GradesAre
<1>2. PICK n \in Nat : n = Blend(w, a, b, d, e) /\ (a <= 900 => n <= 90000)
  <2>1. a <= a /\ b <= b /\ d <= d /\ e <= e
    OBVIOUS
  <2>2. Blend(w, a, b, d, e) \in Nat
    BY <2>1, BlendGrows, Zenon
  <2>3. ASSUME a <= 900 PROVE Blend(w, a, b, d, e) <= 100 * 900
    <3>1. PICK k \in Nat : k = 900
      OBVIOUS
    <3>2. a <= k /\ b <= k /\ d <= k /\ e <= k
      BY <1>1, <2>3, <3>1
    <3>3. Blend(w, a, b, d, e) <= 100 * k
      BY <3>2, BlendIsBounded, Zenon
    <3> QED
      BY <3>1, <3>3
  <2> QED
    BY <2>2, <2>3
<1>3. m * n \in Nat /\ (n <= 90000 => m * n <= 243000000)
  <2>1. PICK m1 \in Nat, n1 \in Nat : m1 = 2700 /\ n1 = 90000
    OBVIOUS
  <2>2. m <= m1
    BY <1>1, <2>1
  <2>3. m * n \in Nat
    BY TimesIs
  <2>4. n <= n1 => m * n <= m1 * n1
    BY <2>2, ProductGrows, Zenon
  <2>5. m1 * n1 = 243000000
    BY <2>1
  <2> QED
    BY <2>1, <2>3, <2>4, <2>5
<1>4. /\ ScoreBlended(c, r, w).score = m * n
      /\ ScoreBlended(c, r, w).of = 243000000
      /\ ScoreCold(c).score = 50 * d + 50 * e /\ ScoreCold(c).of = 90000
  BY <1>1, <1>2, ScoreIs, ScalesAre
<1>5. 0 <= 50 * d + 50 * e /\ 50 * d + 50 * e <= 90000
  BY <1>1
<1> QED
  BY <1>1, <1>2, <1>3, <1>4, <1>5

\* Who is at least as good in every part does not score lower.
LEMMA HigherScore ==
  ASSUME NEW b \in Profile, NEW c \in Profile, NEW r \in OpenRole,
         NEW w \in Weighting, AtLeast(b, c, r)
  PROVE  ScoreBlended(b, r, w).score >= ScoreBlended(c, r, w).score
<1>1. PICK a \in Nat, y \in Nat, d \in Nat, e \in Nat, m \in Nat :
         /\ a = SkillMatch(c.skills, r.skills)
         /\ y = ExperienceMatch(c.years, r.minYears)
         /\ d = RecencyScore(c.days) /\ e = CompletenessScore(c.complete)
         /\ m = Multiplier(c, r)
  BY GradesAre
<1>2. PICK a1 \in Nat, y1 \in Nat, d1 \in Nat, e1 \in Nat, m1 \in Nat :
         /\ a1 = SkillMatch(b.skills, r.skills)
         /\ y1 = ExperienceMatch(b.years, r.minYears)
         /\ d1 = RecencyScore(b.days) /\ e1 = CompletenessScore(b.complete)
         /\ m1 = Multiplier(b, r)
  BY GradesAre
<1>3. a <= a1 /\ y <= y1 /\ d <= d1 /\ e <= e1 /\ m <= m1
  BY <1>1, <1>2 DEF AtLeast
<1>4. /\ Blend(w, a, y, d, e) \in Nat
      /\ Blend(w, a, y, d, e) <= Blend(w, a1, y1, d1, e1)
  BY <1>3, BlendGrows, Zenon
<1>5. PICK n \in Nat, n1 \in Nat :
         n = Blend(w, a, y, d, e) /\ n1 = Blend(w, a1, y1, d1, e1) /\ n <= n1
  <2>1. a1 <= a1 /\ y1 <= y1 /\ d1 <= d1 /\ e1 <= e1
    OBVIOUS
  <2>2. Blend(w, a1, y1, d1, e1) \in Nat
    BY <2>1, BlendGrows, Zenon
  <2> QED
    BY <1>4, <2>2, Zenon
<1>6. m * n <= m1 * n1 /\ m * n \in Nat /\ m1 * n1 \in Nat
  BY <1>3, <1>5, ProductGrows, Zenon
<1>7. ScoreBlended(c, r, w).score = m * n /\ ScoreBlended(b, r, w).score = m1 * n1
  BY <1>1, <1>2, <1>5, ScoreIs, Zenon
<1> QED
  BY <1>6, <1>7

\* What is said of a candidate, field by field.
SameBut(b, c, fields) ==
    /\ "skills" \in fields \/ b.skills = c.skills
    /\ "years" \in fields \/ b.years = c.years
    /\ "days" \in fields \/ b.days = c.days
    /\ "complete" \in fields \/ b.complete = c.complete
    /\ "education" \in fields \/ b.education = c.education
    /\ b.major = c.major /\ b.availability = c.availability

\* What one says of a candidate, another may be better in.
LEMMA OneBetter ==
  ASSUME NEW b \in Profile, NEW c \in Profile, NEW r \in OpenRole,
         NEW k \in {"skills", "years", "days", "complete", "education"},
         SameBut(b, c, {k}),
         \/ k = "skills" /\ SkillMatch(c.skills, r.skills)
                              <= SkillMatch(b.skills, r.skills)
         \/ k = "years" /\ ExperienceMatch(c.years, r.minYears)
                             <= ExperienceMatch(b.years, r.minYears)
         \/ k = "days" /\ RecencyScore(c.days) <= RecencyScore(b.days)
         \/ k = "complete" /\ CompletenessScore(c.complete)
                                <= CompletenessScore(b.complete)
         \/ k = "education" /\ EducationMatch(c.education, r.education)
                                 <= EducationMatch(b.education, r.education)
  PROVE  AtLeast(b, c, r)
<1>1. /\ SkillMatch(c.skills, r.skills) \in Nat
      /\ ExperienceMatch(c.years, r.minYears) \in Nat
      /\ RecencyScore(c.days) \in Nat /\ CompletenessScore(c.complete) \in Nat
      /\ Multiplier(c, r) \in Nat
  BY GradesAre
<1>2. \A x \in Nat : x <= x
  OBVIOUS
<1>3. SkillMatch(c.skills, r.skills) <= SkillMatch(b.skills, r.skills)
  BY <1>1, <1>2, Zenon DEF SameBut
<1>4. ExperienceMatch(c.years, r.minYears) <= ExperienceMatch(b.years, r.minYears)
  BY <1>1, <1>2, Zenon DEF SameBut
<1>5. RecencyScore(c.days) <= RecencyScore(b.days)
  BY <1>1, <1>2, Zenon DEF SameBut
<1>6. CompletenessScore(c.complete) <= CompletenessScore(b.complete)
  BY <1>1, <1>2, Zenon DEF SameBut
<1>7. Multiplier(c, r) <= Multiplier(b, r)
  <2>1. CASE k # "education"
    <3>1. /\ c.education = b.education /\ c.major = b.major
          /\ c.availability = b.availability
      BY <2>1, Zenon DEF SameBut
    <3>2. Multiplier(c, r) = Multiplier(b, r)
      BY <3>1, Zenon DEF Multiplier
    <3> QED
      BY <1>1, <1>2, <3>2, Zenon
  <2>2. CASE k = "education"
    <3>1. /\ EducationMatch(c.education, r.education)
               <= EducationMatch(b.education, r.education)
          /\ b.major = c.major /\ b.availability = c.availability
      BY <2>2, Zenon DEF SameBut
    <3>2. \A has, required : TextMatch(has, required) \in Nat
      BY DEF TextMatch, Parts
    <3>3. \A d \in {b, c} : EducationMatch(d.education, r.education) \in Nat
      <4>1. \A d \in Profile : d.education \in DOMAIN EducationRank
        BY DEF Profile
      <4>2. r.education \in DOMAIN EducationRank
        BY DEF OpenRole
      <4>3. \A x \in DOMAIN EducationRank : EducationRank[x] <= EducationRank[x]
        BY RankIs
      <4>4. \A x \in DOMAIN EducationRank : EducationMatch(x, r.education) \in Nat
        BY <4>2, <4>3, EducationIs
      <4> QED
        BY <4>1, <4>4
    <3>4. PICK x \in Nat, x1 \in Nat, y \in Nat, z \in Nat :
             /\ x = EducationMatch(c.education, r.education)
             /\ x1 = EducationMatch(b.education, r.education)
             /\ y = TextMatch(c.major, r.major)
             /\ z = TextMatch(c.availability, r.availability)
      BY <3>2, <3>3
    <3>5. x <= x1 /\ y + x + z <= y + x1 + z
      BY <3>1, <3>4
    <3>6. CASE r.major = "" /\ r.education = "none" /\ r.availability = ""
      <4>1. Multiplier(c, r) = Multiplier(b, r)
        BY <3>6, Zenon DEF Multiplier
      <4> QED
        BY <1>1, <1>2, <4>1, Zenon
    <3>7. CASE ~(r.major = "" /\ r.education = "none" /\ r.availability = "")
      <4>1. Multiplier(c, r) = y + x + z /\ Multiplier(b, r) = y + x1 + z
        BY <3>1, <3>4, <3>7, Zenon DEF Multiplier
      <4> QED
        BY <3>5, <4>1, Zenon
    <3> QED
      BY <3>6, <3>7, Zenon
  <2> QED
    BY <2>1, <2>2
<1> QED
  BY <1>3, <1>4, <1>5, <1>6, <1>7 DEF AtLeast

\* More years count no less.
LEMMA YearsGrow ==
  ASSUME NEW a \in Int, NEW n \in Int
  PROVE  ExperienceMatch(a, n) <= ExperienceMatch(a + 1, n)
<1>1. PICK m \in Nat \ {0} : m = Most(1, n)
  BY DEF Most
<1>2. PICK p \in Int, q \in Int : p = 900 * a /\ q = 900 * (a + 1) /\ p <= q
  OBVIOUS
<1>3. p \div m \in Int /\ q \div m \in Int /\ p \div m <= q \div m
  BY <1>2, DivIs
<1>4. /\ ExperienceMatch(a, n) = Most(0, Least(900, p \div m))
      /\ ExperienceMatch(a + 1, n) = Most(0, Least(900, q \div m))
  BY <1>1, <1>2 DEF ExperienceMatch, Parts
<1>5. \A x, y \in Int : x <= y => Most(0, Least(900, x)) <= Most(0, Least(900, y))
  BY DEF Most, Least
<1> QED
  BY <1>3, <1>4, <1>5

\* A later visit and a profile that is more complete count no less.
LEMMA VisitsGrow ==
  ASSUME NEW d \in Nat, NEW k \in 0..100
  PROVE  /\ Most(0, d - 30) \in Nat
         /\ RecencyScore(d) <= RecencyScore(Most(0, d - 30))
         /\ Least(100, k + 10) \in 0..100
         /\ CompletenessScore(k) <= CompletenessScore(Least(100, k + 10))
BY DEF RecencyScore, CompletenessScore, Parts, Most, Least

\* One more of the skills counts no less.
LEMMA SkillsGrow ==
  ASSUME NEW skills \in Seq(STRING), NEW required \in Seq(STRING), NEW s \in STRING
  PROVE  SkillMatch(skills, required) <= SkillMatch(Append(skills, s), required)
<1>1. CASE required = <<>>
  BY <1>1 DEF SkillMatch, Parts
<1>2. CASE required # <<>>
  <2>1. Append(skills, s) \in Seq(STRING)
    BY AppendProperties
  <2>2. PICK k \in Nat, k1 \in Nat, n \in Nat \ {0} :
           /\ k = Matched(skills, required)
           /\ k1 = Matched(Append(skills, s), required)
           /\ n = Cardinality(ToSet(required))
    BY <1>2, <2>1, MatchedIs
  <2>3. k <= k1
    BY <2>2, MoreMatch
  <2>4. PICK p \in Int, q \in Int : p = 900 * k /\ q = 900 * k1 /\ p <= q
    BY <2>3
  <2>5. p \div n <= q \div n
    BY <2>4, DivIs
  <2>6. /\ SkillMatch(skills, required) = p \div n
        /\ SkillMatch(Append(skills, s), required) = q \div n
    BY <1>2, <2>2, <2>4 DEF SkillMatch, Parts
  <2> QED
    BY <2>5, <2>6
<1> QED
  BY <1>1, <1>2

\* The better candidates of BetterNeverScoresLower.
LEMMA BetterIs ==
  ASSUME NEW c \in Profile, NEW r \in OpenRole, NEW w \in Weighting,
         NEW b,
         \/ b = [c EXCEPT !.years = @ + 1]
         \/ b = [c EXCEPT !.days = Most(0, @ - 30)]
         \/ b = [c EXCEPT !.complete = Least(100, @ + 10)]
         \/ \E s \in ToSet(r.skills) : b = [c EXCEPT !.skills = Append(@, s)]
         \/ \E e \in DOMAIN EducationRank :
               /\ EducationRank[e] >= EducationRank[c.education]
               /\ b = [c EXCEPT !.education = e]
  PROVE  ScoreBlended(b, r, w).score >= ScoreBlended(c, r, w).score
<1> USE DEF SameBut
<1>1. /\ c.skills \in Seq(STRING) /\ c.years \in Int /\ c.days \in Nat
      /\ c.complete \in 0..100 /\ c.education \in DOMAIN EducationRank
      /\ r.skills \in Seq(STRING) /\ r.minYears \in Int
      /\ r.education \in DOMAIN EducationRank
  BY DEF Profile, OpenRole
<1>2. ASSUME b = [c EXCEPT !.years = @ + 1] PROVE b \in Profile /\ AtLeast(b, c, r)
  <2>1. c.years + 1 \in Int
    BY <1>1
  <2>2. b \in Profile /\ SameBut(b, c, {"years"}) /\ b.years = c.years + 1
    BY <1>2, <2>1 DEF Profile
  <2>3. ExperienceMatch(c.years, r.minYears) <= ExperienceMatch(b.years, r.minYears)
    BY <1>1, <2>2, YearsGrow
  <2> QED
    BY <2>2, <2>3, OneBetter
<1>3. ASSUME b = [c EXCEPT !.days = Most(0, @ - 30)]
      PROVE  b \in Profile /\ AtLeast(b, c, r)
  <2>1. Most(0, c.days - 30) \in Nat
    BY <1>1, VisitsGrow
  <2>2. b \in Profile /\ SameBut(b, c, {"days"}) /\ b.days = Most(0, c.days - 30)
    BY <1>3, <2>1 DEF Profile
  <2>3. RecencyScore(c.days) <= RecencyScore(b.days)
    BY <1>1, <2>2, VisitsGrow
  <2> QED
    BY <2>2, <2>3, OneBetter
<1>4. ASSUME b = [c EXCEPT !.complete = Least(100, @ + 10)]
      PROVE  b \in Profile /\ AtLeast(b, c, r)
  <2>1. Least(100, c.complete + 10) \in 0..100
    BY <1>1, VisitsGrow
  <2>2. /\ b \in Profile /\ SameBut(b, c, {"complete"})
        /\ b.complete = Least(100, c.complete + 10)
    BY <1>4, <2>1 DEF Profile
  <2>3. CompletenessScore(c.complete) <= CompletenessScore(b.complete)
    BY <1>1, <2>2, VisitsGrow
  <2> QED
    BY <2>2, <2>3, OneBetter
<1>5. ASSUME NEW s \in ToSet(r.skills), b = [c EXCEPT !.skills = Append(@, s)]
      PROVE  b \in Profile /\ AtLeast(b, c, r)
  <2>1. s \in STRING
    BY <1>1 DEF ToSet
  <2>2. Append(c.skills, s) \in Seq(STRING)
    BY <1>1, <2>1, AppendProperties
  <2>3. /\ b \in Profile /\ SameBut(b, c, {"skills"})
        /\ b.skills = Append(c.skills, s)
    BY <1>5, <2>2 DEF Profile
  <2>4. SkillMatch(c.skills, r.skills) <= SkillMatch(b.skills, r.skills)
    BY <1>1, <2>1, <2>3, SkillsGrow
  <2> QED
    BY <2>3, <2>4, OneBetter
<1>6. ASSUME NEW e \in DOMAIN EducationRank,
             EducationRank[e] >= EducationRank[c.education],
             b = [c EXCEPT !.education = e]
      PROVE  b \in Profile /\ AtLeast(b, c, r)
  <2>1. b \in Profile /\ SameBut(b, c, {"education"}) /\ b.education = e
    BY <1>6 DEF Profile
  <2>2. EducationRank[c.education] <= EducationRank[e]
    BY <1>1, <1>6, RankIs
  <2>3. EducationMatch(c.education, r.education)
          <= EducationMatch(b.education, r.education)
    BY <1>1, <2>1, <2>2, EducationIs
  <2> QED
    BY <2>1, <2>3, OneBetter
<1>7. b \in Profile /\ AtLeast(b, c, r)
  BY <1>2, <1>3, <1>4, <1>5, <1>6, Zenon
<1> QED
  BY <1>7, HigherScore

\* The score of a candidate stays on its scale unless a skill is listed twice,
\* and a candidate who is better in one part is never ranked behind
\* (talent/scoring.rs).
THEOREM ScoresAreFair == AskSpec => []ScoresFair
<1>1. ASSUME Asked, asked.about = "score"
      PROVE  asked.c \in Profile /\ asked.r \in OpenRole /\ asked.w \in Weighting
  BY <1>1, AboutScore, QuestionAssumption DEF Asked
<1>2. Asked => ScoreOnScale
  BY <1>1, ScoresAreOnScale, Zenon DEF ScoreOnScale
<1>3. Asked => BetterNeverScoresLower
  <2> SUFFICES ASSUME Asked, asked.about = "score" PROVE BetterNeverScoresLower
    BY Zenon DEF BetterNeverScoresLower
  <2>1. PICK c \in Profile, r \in OpenRole, w \in Weighting :
           c = asked.c /\ r = asked.r /\ w = asked.w
    BY <1>1
  <2> DEFINE better == {[c EXCEPT !.years = @ + 1],
                       [c EXCEPT !.days = Most(0, @ - 30)],
                       [c EXCEPT !.complete = Least(100, @ + 10)]}
                      \cup {[c EXCEPT !.skills = Append(@, s)] :
                              s \in ToSet(r.skills)}
                      \cup {[c EXCEPT !.education = e] :
                              e \in {x \in DOMAIN EducationRank :
                                       EducationRank[x] >=
                                       EducationRank[c.education]}}
  <2>2. ASSUME NEW b \in better
        PROVE  ScoreBlended(b, r, w).score >= ScoreBlended(c, r, w).score
    <3>1. \/ b = [c EXCEPT !.years = @ + 1]
          \/ b = [c EXCEPT !.days = Most(0, @ - 30)]
          \/ b = [c EXCEPT !.complete = Least(100, @ + 10)]
          \/ \E s \in ToSet(r.skills) : b = [c EXCEPT !.skills = Append(@, s)]
          \/ \E e \in DOMAIN EducationRank :
                /\ EducationRank[e] >= EducationRank[c.education]
                /\ b = [c EXCEPT !.education = e]
      BY <2>2, Zenon
    <3> QED
      BY <3>1, BetterIs, Zenon
  <2> QED
    BY <2>1, <2>2, Zenon DEF BetterNeverScoresLower
<1>4. Asked => ScoresFair
  BY <1>2, <1>3 DEF ScoresFair
<1> QED
  BY <1>4, QuestionsAreKnown, PTL

-----------------------------------------------------------------------------
(* The formulas of metrics *)

\* The points that count, and those of a window.
Now(p) == Inside(p, WindowSize, At)
In(w) == InWindow(w, WindowSize, At)

\* What the filter has kept of the first i points, i up to n.
Kept(w, n, g) ==
    g = [i \in 0..n |->
            IF i = 0 THEN <<>>
            ELSE IF Inside(w[i], WindowSize, At) THEN Append(g[i - 1], w[i])
            ELSE g[i - 1]]

\* There is such a function, since every point is reached from the one before.
LEMMA KeptExists ==
  ASSUME NEW w, NEW n \in Nat
  PROVE  \E g : Kept(w, n, g)
<1> DEFINE T == {i \in Nat : ~\E g : Kept(w, i, g)}
<1>1. SUFFICES ASSUME T # {} PROVE FALSE
  OBVIOUS
<1>2. PICK k \in T : \A m \in T : k <= m
  BY <1>1, LeastOf
<1>3. CASE k = 0
  <2>1. Kept(w, 0, [i \in 0..0 |-> <<>>])
    BY DEF Kept
  <2> QED
    BY <1>3, <2>1
<1>4. CASE k # 0
  <2>1. k - 1 \in Nat /\ k - 1 \notin T /\ k \in Nat
    BY <1>2, <1>4
  <2>2. PICK e : Kept(w, k - 1, e)
    BY <2>1
  <2> DEFINE Step(h, i) == IF Inside(w[i], WindowSize, At)
                           THEN Append(h[i - 1], w[i]) ELSE h[i - 1]
  <2>3. PICK g : g = [i \in 0..k |-> IF i = k THEN Step(e, k) ELSE e[i]]
    OBVIOUS
  <2>4. \A i \in 0..(k - 1) : e[i] = IF i = 0 THEN <<>> ELSE Step(e, i)
    BY <2>2 DEF Kept
  <2>5. \A i \in 0..k : g[i] = IF i = 0 THEN <<>> ELSE Step(g, i)
    <3>1. \A i \in 0..(k - 1) : i \in 0..k /\ i # k /\ g[i] = e[i]
      BY <2>1, <2>3
    <3>2. k \in 0..k /\ k - 1 \in 0..(k - 1) /\ g[k] = Step(g, k)
      BY <2>1, <2>3, <3>1
    <3>3. \A i \in 0..(k - 1) : i # 0 => i - 1 \in 0..(k - 1)
      BY <2>1
    <3>4. \A i \in 0..(k - 1) : i # 0 => Step(g, i) = Step(e, i)
      BY <3>1, <3>3
    <3>5. \A i \in 0..k : i = k \/ i \in 0..(k - 1)
      BY <2>1
    <3> HIDE DEF Step
    <3> QED
      BY <1>4, <2>4, <3>1, <3>2, <3>4, <3>5
  <2>6. Kept(w, k, g)
    <3>1. g = [i \in 0..k |-> g[i]]
      BY <2>3
    <3> QED
      BY <2>5, <3>1 DEF Kept
  <2> QED
    BY <1>2, <2>6
<1> QED
  BY <1>3, <1>4

\* The filter, point by point.
Steps(w, g) ==
    /\ g[0] = <<>>
    /\ \A i \in 1..Len(w) :
          g[i] = IF Now(w[i]) THEN Append(g[i - 1], w[i]) ELSE g[i - 1]
    /\ In(w) = g[Len(w)]

\* It goes through the whole window.
LEMMA FilterSteps ==
  ASSUME NEW w \in Seq(Point)
  PROVE  \E g : Steps(w, g)
<1>1. PICK g : Kept(w, Len(w), g) /\ In(w) = g[Len(w)]
  <2>1. \E g : g = [i \in 0..Len(w) |->
                      IF i = 0 THEN <<>>
                      ELSE IF Inside(w[i], WindowSize, At)
                      THEN Append(g[i - 1], w[i]) ELSE g[i - 1]]
    <3>1. \E g : Kept(w, Len(w), g)
      BY KeptExists
    <3> QED
      BY <3>1, Zenon DEF Kept
  <2> DEFINE c == CHOOSE g : g = [i \in 0..Len(w) |->
                      IF i = 0 THEN <<>>
                      ELSE IF Inside(w[i], WindowSize, At)
                      THEN Append(g[i - 1], w[i]) ELSE g[i - 1]]
  <2>2. c = [i \in 0..Len(w) |->
                IF i = 0 THEN <<>>
                ELSE IF Inside(w[i], WindowSize, At)
                THEN Append(c[i - 1], w[i]) ELSE c[i - 1]]
    BY <2>1, Zenon
  <2>3. In(w) = c[Len(w)]
    BY DEF In, InWindow
  <2> HIDE DEF c
  <2> QED
    BY <2>2, <2>3, Zenon DEF Kept
<1>2. \A i \in 0..Len(w) : g[i] =
         IF i = 0 THEN <<>>
         ELSE IF Inside(w[i], WindowSize, At) THEN Append(g[i - 1], w[i])
         ELSE g[i - 1]
  BY <1>1 DEF Kept
<1>3. 0 \in 0..Len(w) /\ \A i \in 1..Len(w) : i \in 0..Len(w) /\ i # 0
  OBVIOUS
<1> QED
  BY <1>1, <1>2, <1>3, Zenon DEF Steps, Now

\* What it has kept of the first n points: those that count, in their order.
KeptOf(w, g, n) ==
    /\ g[n] \in Seq(Point)
    /\ \A i \in 1..n : Now(w[i]) =>
          Len(g[i]) \in 1..Len(g[n]) /\ g[n][Len(g[i])] = w[i]
    /\ \A k \in 1..Len(g[n]) : \E i \in 1..n : Now(w[i]) /\ Len(g[i]) = k

\* By least counterexample.
LEMMA FilterKeeps ==
  ASSUME NEW w \in Seq(Point), NEW g, Steps(w, g), NEW n \in 0..Len(w)
  PROVE  KeptOf(w, g, n)
<1> DEFINE T == {i \in 0..Len(w) : ~KeptOf(w, g, i)}
<1>1. SUFFICES ASSUME T # {} PROVE FALSE
  OBVIOUS
<1>2. PICK k \in T : \A m \in T : k <= m
  <2>1. T \in SUBSET Nat
    OBVIOUS
  <2> QED
    BY <1>1, <2>1, LeastOf
<1>3. k # 0
  <2>1. KeptOf(w, g, 0)
    <3>1. g[0] = <<>> /\ <<>> \in Seq(Point) /\ Len(<<>>) = 0
      BY DEF Steps
    <3> QED
      BY <3>1 DEF KeptOf
  <2> QED
    BY <1>2, <2>1
<1>4. /\ k \in 1..Len(w) /\ k - 1 \in 0..Len(w) /\ k - 1 \notin T
      /\ w[k] \in Point
  BY <1>2, <1>3
<1>5. KeptOf(w, g, k - 1)
  BY <1>4
<1>6. g[k] = IF Now(w[k]) THEN Append(g[k - 1], w[k]) ELSE g[k - 1]
  BY <1>4 DEF Steps
<1>7. PICK s \in Seq(Point) : s = g[k - 1]
  BY <1>5 DEF KeptOf
<1>8. CASE ~Now(w[k])
  <2>1. g[k] = s
    BY <1>6, <1>7, <1>8
  <2>2. \A i \in 1..k : Now(w[i]) => i \in 1..(k - 1)
    BY <1>4, <1>8
  <2>3. \A i \in 1..(k - 1) : i \in 1..k
    BY <1>4
  <2>4. KeptOf(w, g, k)
    BY <1>5, <1>7, <2>1, <2>2, <2>3 DEF KeptOf
  <2> QED
    BY <1>2, <2>4
<1>9. CASE Now(w[k])
  <2>1. PICK t : t = Append(s, w[k])
    OBVIOUS
  <2>2. t \in Seq(Point)
    BY <1>4, <2>1, AppendProperties
  <2>3. Len(t) = Len(s) + 1
    BY <1>4, <2>1, AppendProperties
  <2>4. \A i \in 1..Len(s) : t[i] = s[i]
    BY <1>4, <2>1, AppendProperties
  <2>5. t[Len(s) + 1] = w[k]
    BY <1>4, <2>1, AppendProperties
  <2>6. g[k] = t
    BY <1>6, <1>7, <1>9, <2>1
  <2>7. Len(s) \in Nat
    OBVIOUS
  <2>8. ASSUME NEW i \in 1..k, Now(w[i])
        PROVE  Len(g[i]) \in 1..Len(t) /\ t[Len(g[i])] = w[i]
    <3>1. CASE i = k
      BY <2>3, <2>5, <2>6, <2>7, <3>1
    <3>2. CASE i \in 1..(k - 1)
      <4>1. Len(g[i]) \in 1..Len(s) /\ s[Len(g[i])] = w[i]
        BY <1>5, <1>7, <2>8, <3>2 DEF KeptOf
      <4> QED
        BY <2>3, <2>4, <2>7, <4>1
    <3> QED
      BY <1>4, <3>1, <3>2
  <2>9. ASSUME NEW m \in 1..Len(t)
        PROVE  \E i \in 1..k : Now(w[i]) /\ Len(g[i]) = m
    <3>1. CASE m = Len(s) + 1
      BY <1>4, <1>9, <2>3, <2>6, <3>1
    <3>2. CASE m \in 1..Len(s)
      <4>1. \E i \in 1..(k - 1) : Now(w[i]) /\ Len(g[i]) = m
        BY <1>5, <1>7, <3>2 DEF KeptOf
      <4> QED
        BY <1>4, <4>1
    <3> QED
      BY <2>3, <2>7, <3>1, <3>2
  <2>10. KeptOf(w, g, k)
    BY <2>2, <2>6, <2>8, <2>9, Zenon DEF KeptOf
  <2> QED
    BY <1>2, <2>10
<1> QED
  BY <1>8, <1>9

\* The filter keeps points that count, once each, and all of them.
LEMMA InIs ==
  ASSUME NEW w \in Seq(Point)
  PROVE  /\ In(w) \in Seq(Point)
         /\ \A k \in 1..Len(In(w)) :
               Now(In(w)[k]) /\ \E i \in 1..Len(w) : In(w)[k] = w[i]
         /\ (\A i, j \in 1..Len(w) : i # j => w[i].ts # w[j].ts) =>
               \A k, m \in 1..Len(In(w)) : k # m => In(w)[k].ts # In(w)[m].ts
<1>1. PICK g : Steps(w, g)
  BY FilterSteps
<1>2. KeptOf(w, g, Len(w)) /\ In(w) = g[Len(w)]
  <2>1. Len(w) \in 0..Len(w)
    OBVIOUS
  <2>2. KeptOf(w, g, Len(w))
    BY <1>1, <2>1, FilterKeeps
  <2> QED
    BY <1>1, <2>2 DEF Steps
<1>3. PICK s \in Seq(Point) : s = In(w)
  BY <1>2 DEF KeptOf
<1>4. \A k \in 1..Len(s) : \E i \in 1..Len(w) :
         Now(w[i]) /\ Len(g[i]) = k /\ s[k] = w[i]
  BY <1>2, <1>3, Zenon DEF KeptOf
<1>5. ASSUME \A i, j \in 1..Len(w) : i # j => w[i].ts # w[j].ts,
             NEW k \in 1..Len(s), NEW m \in 1..Len(s), k # m
      PROVE  s[k].ts # s[m].ts
  <2>1. PICK i \in 1..Len(w) : Len(g[i]) = k /\ s[k] = w[i]
    BY <1>4
  <2>2. PICK j \in 1..Len(w) : Len(g[j]) = m /\ s[m] = w[j]
    BY <1>4
  <2>3. i # j
    BY <1>5, <2>1, <2>2
  <2> QED
    BY <1>5, <2>1, <2>2, <2>3
<1>6. \A k \in 1..Len(s) : Now(s[k]) /\ \E i \in 1..Len(w) : s[k] = w[i]
  BY <1>4, Zenon
<1> QED
  BY <1>3, <1>5, <1>6, Zenon

\* A window of which all points count stays as it is.
LEMMA AllStay ==
  ASSUME NEW v \in Seq(Point), \A i \in 1..Len(v) : Now(v[i])
  PROVE  In(v) = v
<1>1. PICK g : Steps(v, g)
  BY FilterSteps
<1> DEFINE P(n) == /\ g[n] \in Seq(Point) /\ Len(g[n]) = n
                   /\ \A i \in 1..n : g[n][i] = v[i]
           T == {n \in 0..Len(v) : ~P(n)}
<1>2. T = {}
  <2> SUFFICES ASSUME T # {} PROVE FALSE
    OBVIOUS
  <2>1. PICK k \in T : \A m \in T : k <= m
    <3>1. T \in SUBSET Nat
      OBVIOUS
    <3> QED
      BY <3>1, LeastOf
  <2>2. k # 0
    <3>1. g[0] = <<>> /\ <<>> \in Seq(Point) /\ Len(<<>>) = 0
      BY <1>1 DEF Steps
    <3>2. P(0)
      BY <3>1
    <3> QED
      BY <2>1, <3>2
  <2>3. k \in 1..Len(v) /\ k - 1 \in 0..Len(v) /\ k - 1 \notin T
    BY <2>1, <2>2
  <2>4. P(k - 1)
    BY <2>3
  <2>5. g[k] = Append(g[k - 1], v[k]) /\ v[k] \in Point
    <3>1. v[k] \in Point /\ Now(v[k])
      BY <2>3
    <3> QED
      BY <1>1, <2>3, <3>1, Zenon DEF Steps
  <2>6. PICK s \in Seq(Point) : s = g[k - 1]
    BY <2>4
  <2>7. Append(s, v[k]) \in Seq(Point)
    BY <2>5, AppendProperties
  <2>8. Len(Append(s, v[k])) = Len(s) + 1
    BY <2>5, AppendProperties
  <2>9. \A i \in 1..Len(s) : Append(s, v[k])[i] = s[i]
    BY <2>5, AppendProperties
  <2>10. Append(s, v[k])[Len(s) + 1] = v[k]
    BY <2>5, AppendProperties
  <2>11. Len(s) = k - 1 /\ \A i \in 1..(k - 1) : s[i] = v[i]
    BY <2>4, <2>6
  <2>12. P(k)
    <3>1. \A i \in 1..k : i = k \/ i \in 1..(k - 1)
      BY <2>3
    <3>2. Len(s) + 1 = k
      BY <2>3, <2>11
    <3> QED
      BY <2>5, <2>6, <2>7, <2>8, <2>9, <2>10, <2>11, <3>1, <3>2, Zenon
  <2> QED
    BY <2>1, <2>12
<1>3. P(Len(v)) /\ In(v) = g[Len(v)]
  <2>1. Len(v) \in 0..Len(v)
    OBVIOUS
  <2> QED
    BY <1>1, <1>2, <2>1 DEF Steps
<1> HIDE DEF P
<1>4. PICK s \in Seq(Point) : s = In(v) /\ Len(s) = Len(v)
                              /\ \A i \in 1..Len(v) : s[i] = v[i]
  BY <1>3 DEF P
<1> QED
  BY <1>4

\* The same points in the opposite order.
Turned(v, w) ==
    /\ v \in Seq(Point) /\ w \in Seq(Point) /\ Len(v) = Len(w)
    /\ \A i \in 1..Len(w) : v[i] = w[(Len(w) - i) + 1]

\* Reverse does that.
LEMMA ReverseTurns ==
  ASSUME NEW w \in Seq(Point)
  PROVE  Turned(Reverse(w), w)
<1>1. Reverse(w) = [i \in 1..Len(w) |-> w[(Len(w) - i) + 1]]
  BY DEF Reverse
<1>2. \A i \in 1..Len(w) : (Len(w) - i) + 1 \in 1..Len(w)
  OBVIOUS
<1>3. \A i \in 1..Len(w) : w[(Len(w) - i) + 1] \in Point
  BY <1>2
<1>4. Reverse(w) \in Seq(Point) /\ Len(Reverse(w)) = Len(w)
  BY <1>1, <1>3
<1> QED
  BY <1>1, <1>4 DEF Turned

\* From the other end, the filter has kept what it had not kept from this one.
TurnedCount(w, g, h, n) == Len(h[n]) = Len(g[Len(w)]) - Len(g[Len(w) - n])

\* It does so after any number of points.
LEMMA TurnedCounts ==
  ASSUME NEW v, NEW w, NEW g, NEW h, NEW n \in 0..Len(w),
         Turned(v, w), Steps(w, g), Steps(v, h)
  PROVE  TurnedCount(w, g, h, n)
<1>1. /\ v \in Seq(Point) /\ w \in Seq(Point) /\ Len(v) = Len(w)
      /\ \A i \in 1..Len(w) : v[i] = w[(Len(w) - i) + 1]
  BY DEF Turned
<1>2. PICK L \in Nat : L = Len(w)
  BY <1>1
<1> DEFINE P(i) == Len(h[i]) = Len(g[L]) - Len(g[L - i])
           T == {i \in 0..L : ~P(i)}
<1>3. \A i \in 0..L : g[i] \in Seq(Point) /\ h[i] \in Seq(Point)
  BY <1>1, <1>2, FilterKeeps DEF KeptOf
<1>4. SUFFICES ASSUME T # {} PROVE FALSE
  <2> SUFFICES ASSUME T = {} PROVE TurnedCount(w, g, h, n)
    OBVIOUS
  <2>1. n \in 0..L /\ n \notin T
    BY <1>2, Zenon
  <2>2. P(n)
    BY <2>1
  <2> QED
    BY <1>2, <2>2, Zenon DEF TurnedCount
<1>5. PICK k \in T : \A m \in T : k <= m
  <2> HIDE DEF P
  <2>1. T \in SUBSET Nat
    OBVIOUS
  <2> QED
    BY <1>4, <2>1, LeastOf
<1>6. k # 0
  <2>1. h[0] = <<>> /\ Len(<<>>) = 0 /\ L - 0 = L /\ L \in 0..L
    BY DEF Steps
  <2>2. Len(g[L]) \in Nat
    BY <1>3, <2>1
  <2>3. P(0)
    BY <2>1, <2>2
  <2> QED
    BY <1>5, <2>3
<1>7. PICK j \in 1..L : j = L - k + 1 /\ k \in 1..L /\ k - 1 \in 0..L
                        /\ k - 1 \notin T
  <2> HIDE DEF P
  <2>1. k \in 1..L /\ k - 1 \in 0..L /\ L - k + 1 \in 1..L
    BY <1>5, <1>6
  <2>2. k - 1 \notin T
    BY <1>5, <2>1
  <2> QED
    BY <2>1, <2>2
<1>8. v[k] = w[j]
  <2>1. (L - k) + 1 = j
    BY <1>7
  <2> QED
    BY <1>1, <1>2, <1>7, <2>1
<1>9. /\ g[j] = IF Now(w[j]) THEN Append(g[j - 1], w[j]) ELSE g[j - 1]
      /\ h[k] = IF Now(w[j]) THEN Append(h[k - 1], w[j]) ELSE h[k - 1]
  BY <1>1, <1>2, <1>7, <1>8, Zenon DEF Steps
<1>10. PICK a \in Seq(Point), b \in Seq(Point), c \in Seq(Point) :
          a = g[j - 1] /\ b = h[k - 1] /\ c = g[L]
  <2>1. j - 1 \in 0..L /\ k - 1 \in 0..L /\ L \in 0..L
    BY <1>7
  <2> QED
    BY <1>3, <2>1, Zenon
<1>11. w[j] \in Point
  BY <1>1, <1>2
<1>12. Len(Append(a, w[j])) = Len(a) + 1
  BY <1>11, AppendProperties
<1>13. Len(Append(b, w[j])) = Len(b) + 1
  BY <1>11, AppendProperties
<1>14. Len(b) = Len(c) - Len(g[j])
  <2>1. L - (k - 1) = j
    BY <1>7
  <2> QED
    BY <1>7, <1>10, <2>1
<1>15. L - k = j - 1
  BY <1>7
<1>16. Len(a) \in Nat /\ Len(b) \in Nat /\ Len(c) \in Nat
  OBVIOUS
<1>17. P(k)
  <2>1. CASE Now(w[j])
    <3>1. Len(g[j]) = Len(a) + 1 /\ Len(h[k]) = Len(b) + 1
      BY <1>9, <1>10, <1>12, <1>13, <2>1
    <3>2. Len(b) = Len(c) - (Len(a) + 1)
      BY <1>14, <3>1
    <3>3. Len(b) + 1 = Len(c) - Len(a)
      BY <1>16, <3>2
    <3> QED
      BY <1>10, <1>15, <3>1, <3>3
  <2>2. CASE ~Now(w[j])
    <3>1. Len(g[j]) = Len(a) /\ Len(h[k]) = Len(b)
      BY <1>9, <1>10, <2>2
    <3>2. Len(h[k]) = Len(c) - Len(a)
      BY <1>14, <1>16, <3>1
    <3> QED
      BY <1>10, <1>15, <3>2
  <2> QED
    BY <2>1, <2>2
<1> QED
  BY <1>5, <1>17

\* So what counts of a window that is turned round is turned round.
LEMMA TurnedIn ==
  ASSUME NEW v, NEW w, Turned(v, w)
  PROVE  Turned(In(v), In(w))
<1>1. /\ v \in Seq(Point) /\ w \in Seq(Point) /\ Len(v) = Len(w)
      /\ \A i \in 1..Len(w) : v[i] = w[(Len(w) - i) + 1]
  BY DEF Turned
<1>2. PICK L \in Nat : L = Len(w)
  BY <1>1
<1>3. PICK g : Steps(w, g)
  BY <1>1, FilterSteps
<1>4. PICK h : Steps(v, h)
  BY <1>1, FilterSteps
<1>5. \A n \in 0..L : KeptOf(w, g, n) /\ KeptOf(v, h, n)
  <2>1. \A n \in 0..Len(w) : KeptOf(w, g, n)
    BY <1>1, <1>3, FilterKeeps, Zenon
  <2>2. \A n \in 0..Len(v) : KeptOf(v, h, n)
    BY <1>1, <1>4, FilterKeeps, Zenon
  <2>3. 0..Len(v) = 0..L /\ 0..Len(w) = 0..L
    BY <1>1, <1>2, Zenon
  <2> QED
    BY <2>1, <2>2, <2>3, Zenon
<1>6. \A n \in 0..L : Len(h[n]) = Len(g[L]) - Len(g[L - n])
  <2>1. \A n \in 0..Len(w) : TurnedCount(w, g, h, n)
    BY <1>3, <1>4, TurnedCounts, Zenon
  <2> QED
    BY <1>2, <2>1, Zenon DEF TurnedCount
<1>7. PICK s \in Seq(Point), t \in Seq(Point) :
         s = g[L] /\ t = h[L] /\ s = In(w) /\ t = In(v)
  <2>1. L \in 0..L
    OBVIOUS
  <2> QED
    BY <1>1, <1>2, <1>3, <1>4, <1>5, <2>1, Zenon DEF Steps, KeptOf
<1>8. Len(t) = Len(s)
  <2>1. L \in 0..L /\ L - L = 0 /\ g[0] = <<>> /\ Len(<<>>) = 0
    BY <1>3 DEF Steps
  <2>2. Len(t) = Len(s) - 0
    BY <1>6, <1>7, <2>1
  <2>3. Len(s) \in Nat
    OBVIOUS
  <2> QED
    BY <2>2, <2>3
<1>9. ASSUME NEW k \in 1..Len(s) PROVE t[k] = s[(Len(s) - k) + 1]
  <2>1. L \in 0..L
    OBVIOUS
  <2>2. PICK i \in 1..L : Now(v[i]) /\ Len(h[i]) = k
    BY <1>5, <1>7, <1>8, <2>1 DEF KeptOf
  <2>3. t[k] = v[i]
    <3>1. KeptOf(v, h, L)
      BY <1>5, <2>1
    <3> QED
      BY <1>7, <2>2, <3>1, Zenon DEF KeptOf
  <2>4. PICK j \in 1..L : j = (L - i) + 1 /\ j - 1 \in 0..L /\ L - i = j - 1
    OBVIOUS
  <2>5. v[i] = w[j] /\ Now(w[j])
    BY <1>1, <1>2, <2>2, <2>4
  <2>6. s[Len(g[j])] = w[j]
    <3>1. KeptOf(w, g, L)
      BY <1>5, <2>1
    <3> QED
      BY <1>7, <2>4, <2>5, <3>1, Zenon DEF KeptOf
  <2>7. PICK a \in Seq(Point) : a = g[j - 1]
    BY <1>5, <2>4, Zenon DEF KeptOf
  <2>8. w[j] \in Point
    BY <1>1, <1>2
  <2>9. Len(Append(a, w[j])) = Len(a) + 1
    BY <2>8, AppendProperties
  <2>10. Len(g[j]) = Len(a) + 1
    BY <1>2, <1>3, <2>5, <2>7, <2>9 DEF Steps
  <2>11. k = Len(s) - Len(a)
    <3>1. i \in 0..L
      OBVIOUS
    <3> QED
      BY <1>6, <1>7, <2>2, <2>4, <2>7, <3>1
  <2>12. Len(s) \in Nat /\ Len(a) \in Nat
    OBVIOUS
  <2>13. Len(g[j]) = (Len(s) - k) + 1
    BY <2>10, <2>11, <2>12
  <2> QED
    BY <2>3, <2>5, <2>6, <2>13
<1> QED
  BY <1>7, <1>8, <1>9, Zenon DEF Turned

\* The sums of the first i values, i up to n.
SumTo(w, n, g) == g = [i \in 0..n |-> IF i = 0 THEN 0 ELSE g[i - 1] + w[i].v]

\* There is such a function too.
LEMMA SumExists ==
  ASSUME NEW w, NEW n \in Nat
  PROVE  \E g : SumTo(w, n, g)
<1> DEFINE T == {i \in Nat : ~\E g : SumTo(w, i, g)}
<1>1. SUFFICES ASSUME T # {} PROVE FALSE
  OBVIOUS
<1>2. PICK k \in T : \A m \in T : k <= m
  BY <1>1, LeastOf
<1>3. CASE k = 0
  <2>1. SumTo(w, 0, [i \in 0..0 |-> 0])
    BY DEF SumTo
  <2> QED
    BY <1>3, <2>1
<1>4. CASE k # 0
  <2>1. k - 1 \in Nat /\ k - 1 \notin T /\ k \in Nat
    BY <1>2, <1>4
  <2>2. PICK e : SumTo(w, k - 1, e)
    BY <2>1
  <2> DEFINE Step(h, i) == h[i - 1] + w[i].v
  <2>3. PICK g : g = [i \in 0..k |-> IF i = k THEN Step(e, k) ELSE e[i]]
    OBVIOUS
  <2>4. \A i \in 0..(k - 1) : e[i] = IF i = 0 THEN 0 ELSE Step(e, i)
    BY <2>2 DEF SumTo
  <2>5. \A i \in 0..k : g[i] = IF i = 0 THEN 0 ELSE Step(g, i)
    <3>1. \A i \in 0..(k - 1) : i \in 0..k /\ i # k /\ g[i] = e[i]
      BY <2>1, <2>3
    <3>2. k \in 0..k /\ k - 1 \in 0..(k - 1) /\ g[k] = Step(g, k)
      BY <2>1, <2>3, <3>1
    <3>3. \A i \in 0..(k - 1) : i # 0 => i - 1 \in 0..(k - 1)
      BY <2>1
    <3>4. \A i \in 0..(k - 1) : i # 0 => Step(g, i) = Step(e, i)
      BY <3>1, <3>3
    <3>5. \A i \in 0..k : i = k \/ i \in 0..(k - 1)
      BY <2>1
    <3> HIDE DEF Step
    <3> QED
      BY <1>4, <2>4, <3>1, <3>2, <3>4, <3>5
  <2>6. SumTo(w, k, g)
    <3>1. g = [i \in 0..k |-> g[i]]
      BY <2>3
    <3> QED
      BY <2>5, <3>1 DEF SumTo
  <2> QED
    BY <1>2, <2>6
<1> QED
  BY <1>3, <1>4

\* The sum, value by value.
Sums(w, g) ==
    /\ g[0] = 0
    /\ \A i \in 1..Len(w) : g[i] = g[i - 1] + w[i].v
    /\ Total(w) = g[Len(w)]

\* It goes through the whole window, too.
LEMMA TotalSums ==
  ASSUME NEW w \in Seq(Point)
  PROVE  \E g : Sums(w, g)
<1>1. PICK g : SumTo(w, Len(w), g) /\ Total(w) = g[Len(w)]
  <2>1. \E g : g = [i \in 0..Len(w) |-> IF i = 0 THEN 0 ELSE g[i - 1] + w[i].v]
    <3>1. \E g : SumTo(w, Len(w), g)
      BY SumExists
    <3> QED
      BY <3>1, Zenon DEF SumTo
  <2> DEFINE c == CHOOSE g : g = [i \in 0..Len(w) |->
                                    IF i = 0 THEN 0 ELSE g[i - 1] + w[i].v]
  <2>2. c = [i \in 0..Len(w) |-> IF i = 0 THEN 0 ELSE c[i - 1] + w[i].v]
    BY <2>1, Zenon
  <2>3. Total(w) = c[Len(w)]
    BY DEF Total
  <2> HIDE DEF c
  <2> QED
    BY <2>2, <2>3, Zenon DEF SumTo
<1>2. \A i \in 0..Len(w) : g[i] = IF i = 0 THEN 0 ELSE g[i - 1] + w[i].v
  BY <1>1 DEF SumTo
<1>3. 0 \in 0..Len(w) /\ \A i \in 1..Len(w) : i \in 0..Len(w) /\ i # 0
  OBVIOUS
<1> QED
  BY <1>1, <1>2, <1>3, Zenon DEF Sums

\* The sums are numbers.
LEMMA SumsAreInt ==
  ASSUME NEW w \in Seq(Point), NEW g, Sums(w, g), NEW n \in 0..Len(w)
  PROVE  g[n] \in Int
<1>1. PICK L \in Nat : L = Len(w)
  OBVIOUS
<1> DEFINE T == {i \in 0..L : g[i] \notin Int}
<1>2. SUFFICES ASSUME T # {} PROVE FALSE
  BY <1>1
<1>3. PICK k \in T : \A m \in T : k <= m
  <2>1. T \in SUBSET Nat
    OBVIOUS
  <2> QED
    BY <1>2, <2>1, LeastOf
<1>4. k # 0
  BY <1>3 DEF Sums
<1>5. k \in 1..L /\ k - 1 \in 0..L /\ k - 1 \notin T
  BY <1>3, <1>4
<1>6. g[k] = g[k - 1] + w[k].v /\ w[k] \in Point
  BY <1>1, <1>5 DEF Sums
<1>7. w[k].v \in Int /\ g[k - 1] \in Int
  BY <1>5, <1>6 DEF Point
<1> QED
  BY <1>3, <1>6, <1>7

\* From the other end, the sum is what is missing from this one.
TurnedSum(w, g, h, n) == h[n] = g[Len(w)] - g[Len(w) - n]

\* It is, after any number of points.
LEMMA TurnedSums ==
  ASSUME NEW v, NEW w, NEW g, NEW h, NEW n \in 0..Len(w),
         Turned(v, w), Sums(w, g), Sums(v, h)
  PROVE  TurnedSum(w, g, h, n)
<1>1. /\ v \in Seq(Point) /\ w \in Seq(Point) /\ Len(v) = Len(w)
      /\ \A i \in 1..Len(w) : v[i] = w[(Len(w) - i) + 1]
  BY DEF Turned
<1>2. PICK L \in Nat : L = Len(w)
  BY <1>1
<1> DEFINE P(i) == h[i] = g[L] - g[L - i]
           T == {i \in 0..L : ~P(i)}
<1>3. \A i \in 0..L : g[i] \in Int /\ h[i] \in Int
  BY <1>1, <1>2, SumsAreInt
<1>4. SUFFICES ASSUME T # {} PROVE FALSE
  <2> SUFFICES ASSUME T = {} PROVE TurnedSum(w, g, h, n)
    OBVIOUS
  <2>1. n \in 0..L /\ n \notin T
    BY <1>2, Zenon
  <2>2. P(n)
    BY <2>1
  <2> QED
    BY <1>2, <2>2, Zenon DEF TurnedSum
<1>5. PICK k \in T : \A m \in T : k <= m
  <2> HIDE DEF P
  <2>1. T \in SUBSET Nat
    OBVIOUS
  <2> QED
    BY <1>4, <2>1, LeastOf
<1>6. k # 0
  <2>1. h[0] = 0 /\ L - 0 = L /\ L \in 0..L
    BY DEF Sums
  <2>2. g[L] \in Int
    BY <1>3, <2>1
  <2>3. P(0)
    BY <2>1, <2>2
  <2> QED
    BY <1>5, <2>3
<1>7. PICK j \in 1..L : j = L - k + 1 /\ k \in 1..L /\ k - 1 \in 0..L
                        /\ k - 1 \notin T
  <2> HIDE DEF P
  <2>1. k \in 1..L /\ k - 1 \in 0..L /\ L - k + 1 \in 1..L
    BY <1>5, <1>6
  <2>2. k - 1 \notin T
    BY <1>5, <2>1
  <2> QED
    BY <2>1, <2>2
<1>8. v[k] = w[j]
  <2>1. (L - k) + 1 = j
    BY <1>7
  <2> QED
    BY <1>1, <1>2, <1>7, <2>1
<1>9. g[j] = g[j - 1] + w[j].v /\ h[k] = h[k - 1] + w[j].v
  BY <1>1, <1>2, <1>7, <1>8, Zenon DEF Sums
<1>10. w[j].v \in Int
  <2>1. w[j] \in Point
    BY <1>1, <1>2
  <2> QED
    BY <2>1, Zenon DEF Point
<1>11. h[k - 1] = g[L] - g[j]
  <2>1. L - (k - 1) = j
    BY <1>7
  <2> QED
    BY <1>7, <2>1
<1>12. L - k = j - 1
  BY <1>7
<1>13. g[L] \in Int /\ g[j] \in Int /\ g[j - 1] \in Int
  <2>1. L \in 0..L /\ j \in 0..L /\ j - 1 \in 0..L
    OBVIOUS
  <2> QED
    BY <1>3, <2>1
<1>14. P(k)
  <2>1. h[k] = g[L] - g[j - 1]
    BY <1>9, <1>10, <1>11, <1>13
  <2> QED
    BY <1>12, <2>1
<1> QED
  BY <1>5, <1>14

\* The sum does not depend on the order.
LEMMA TurnedTotal ==
  ASSUME NEW v, NEW w, Turned(v, w)
  PROVE  Total(v) = Total(w)
<1>1. v \in Seq(Point) /\ w \in Seq(Point) /\ Len(v) = Len(w)
  BY DEF Turned
<1>2. PICK g : Sums(w, g)
  BY <1>1, TotalSums
<1>3. PICK h : Sums(v, h)
  BY <1>1, TotalSums
<1>4. PICK L \in Nat : L = Len(w)
  BY <1>1
<1>5. L \in 0..L /\ L - L = 0
  OBVIOUS
<1>6. TurnedSum(w, g, h, L)
  BY <1>2, <1>3, <1>4, <1>5, TurnedSums, Zenon
<1>7. h[L] = g[L] - g[0]
  BY <1>4, <1>5, <1>6 DEF TurnedSum
<1>8. g[L] \in Int
  BY <1>1, <1>2, <1>4, <1>5, SumsAreInt
<1>9. g[0] = 0 /\ Total(w) = g[L] /\ Total(v) = h[L]
  BY <1>1, <1>2, <1>3, <1>4, Zenon DEF Sums
<1> QED
  BY <1>7, <1>8, <1>9

\* The points above zero.
Above(w) == {i \in DOMAIN w : w[i].v > 0}

\* So many there are in whatever order.
LEMMA TurnedAbove ==
  ASSUME NEW v, NEW w, Turned(v, w)
  PROVE  Cardinality(Above(v)) = Cardinality(Above(w))
<1>1. /\ v \in Seq(Point) /\ w \in Seq(Point) /\ Len(v) = Len(w)
      /\ \A i \in 1..Len(w) : v[i] = w[(Len(w) - i) + 1]
  BY DEF Turned
<1>2. PICK L \in Nat : L = Len(w)
  BY <1>1
<1>3. /\ Above(w) = {i \in 1..L : w[i].v > 0}
      /\ Above(v) = {i \in 1..L : v[i].v > 0}
  BY <1>1, <1>2 DEF Above
<1>4. \A i \in 1..L : (L - i) + 1 \in 1..L /\ (L - ((L - i) + 1)) + 1 = i
  OBVIOUS
<1>5. \A i \in 1..L : v[i] = w[(L - i) + 1]
  BY <1>1, <1>2, Zenon
<1>6. \A i \in 1..L : w[i] = v[(L - i) + 1]
  BY <1>4, <1>5
<1> DEFINE Back == [i \in Above(w) |-> (L - i) + 1]
<1>7. \A i \in Above(w) : (L - i) + 1 \in Above(v)
  <2> SUFFICES ASSUME NEW i \in Above(w) PROVE (L - i) + 1 \in Above(v)
    OBVIOUS
  <2>1. i \in 1..L /\ w[i].v > 0
    BY <1>3, Zenon
  <2>2. v[(L - i) + 1] = w[i] /\ (L - i) + 1 \in 1..L
    BY <1>4, <1>6, <2>1, Zenon
  <2> QED
    BY <1>3, <2>1, <2>2, Zenon
<1>8. \A i \in Above(v) : (L - i) + 1 \in Above(w)
  <2> SUFFICES ASSUME NEW i \in Above(v) PROVE (L - i) + 1 \in Above(w)
    OBVIOUS
  <2>1. i \in 1..L /\ v[i].v > 0
    BY <1>3, Zenon
  <2>2. w[(L - i) + 1] = v[i] /\ (L - i) + 1 \in 1..L
    BY <1>4, <1>5, <2>1, Zenon
  <2> QED
    BY <1>3, <2>1, <2>2, Zenon
<1>9. Back \in Bijection(Above(w), Above(v))
  <2>1. Back \in [Above(w) -> Above(v)]
    BY <1>7, Zenon
  <2>2. \A i \in Above(w) : i \in 1..L
    BY <1>3
  <2>3. \A i, j \in Above(w) : Back[i] = Back[j] => i = j
    BY <2>2
  <2>4. \A k \in Above(v) : \E i \in Above(w) : Back[i] = k
    <3> SUFFICES ASSUME NEW k \in Above(v) PROVE \E i \in Above(w) : Back[i] = k
      OBVIOUS
    <3>1. k \in 1..L
      BY <1>3
    <3>2. (L - k) + 1 \in Above(w) /\ (L - ((L - k) + 1)) + 1 = k
      BY <1>4, <1>8, <3>1, Zenon
    <3> QED
      BY <3>2, Zenon
  <2> HIDE DEF Back
  <2> QED
    BY <2>1, <2>3, <2>4, Zenon DEF Bijection, Injection, Surjection, IsInjective
<1>10. IsFiniteSet(Above(w))
  <2>1. IsFiniteSet(1..L)
    BY FS_Interval
  <2>2. Above(w) \subseteq 1..L
    BY <1>3
  <2> QED
    BY <2>1, <2>2, FS_Subset
<1>11. ExistsBijection(Above(w), Above(v))
  BY <1>9, Zenon DEF ExistsBijection
<1> QED
  BY <1>10, <1>11, FS_Bijection

\* The first and the last point are points, and none is before or after them.
LEMMA EndsAre ==
  ASSUME NEW w \in Seq(Point), w # <<>>, \A i \in 1..Len(w) : Now(w[i])
  PROVE  /\ \E i \in 1..Len(w) :
               Earliest(w) = w[i] /\ \A j \in 1..Len(w) : w[i].ts <= w[j].ts
         /\ \E i \in 1..Len(w) :
               Latest(w) = w[i] /\ \A j \in 1..Len(w) : w[j].ts <= w[i].ts
<1>1. PICK L \in Nat \ {0} : L = Len(w) /\ DOMAIN w = 1..L /\ 1 \in 1..L
  OBVIOUS
<1>2. PICK lo \in Int : lo = At - WindowSize
  BY QuestionAssumption
<1>3. \A i \in 1..L : w[i].ts \in Int
  <2>1. \A i \in 1..L : w[i] \in Point
    BY <1>1
  <2> QED
    BY <2>1, Zenon DEF Point
<1>4. \A i \in 1..L : lo <= w[i].ts /\ w[i].ts <= At
  BY <1>1, <1>2 DEF Now, Inside
<1>5. At \in Int
  BY QuestionAssumption
<1>6. \E i \in 1..L : \A j \in 1..L :
         w[i].ts < w[j].ts \/ (w[i].ts = w[j].ts /\ i <= j)
  <2> DEFINE Times == {w[i].ts - lo : i \in 1..L}
  <2>1. Times \in SUBSET Nat /\ Times # {}
    BY <1>1, <1>3, <1>4
  <2>2. PICK m \in Times : \A n \in Times : m <= n
    BY <2>1, LeastOf
  <2>3. PICK k \in 1..L : m = w[k].ts - lo
    BY <2>2
  <2>4. \A j \in 1..L : w[k].ts <= w[j].ts
    <3> SUFFICES ASSUME NEW j \in 1..L PROVE w[k].ts <= w[j].ts
      OBVIOUS
    <3>1. w[j].ts - lo \in Times
      OBVIOUS
    <3>2. w[k].ts - lo <= w[j].ts - lo
      BY <2>2, <2>3, <3>1
    <3> QED
      BY <1>3, <3>2
  <2> DEFINE Firsts == {i \in 1..L : w[i].ts = w[k].ts}
  <2>5. Firsts \in SUBSET Nat /\ Firsts # {}
    OBVIOUS
  <2>6. PICK i \in Firsts : \A j \in Firsts : i <= j
    BY <2>5, LeastOf
  <2>7. \A j \in 1..L : w[k].ts = w[j].ts => i <= j
    BY <2>6
  <2>8. \A j \in 1..L : w[k].ts < w[j].ts \/ w[k].ts = w[j].ts
    BY <1>3, <2>4
  <2>9. i \in 1..L /\ w[i].ts = w[k].ts
    BY <2>6
  <2> HIDE DEF Firsts, Times
  <2> QED
    BY <2>7, <2>8, <2>9, Zenon
<1>7. \E i \in 1..L : \A j \in 1..L :
         w[i].ts > w[j].ts \/ (w[i].ts = w[j].ts /\ i >= j)
  <2> DEFINE Times == {At - w[i].ts : i \in 1..L}
  <2>1. Times \in SUBSET Nat /\ Times # {}
    BY <1>1, <1>3, <1>4, <1>5
  <2>2. PICK m \in Times : \A n \in Times : m <= n
    BY <2>1, LeastOf
  <2>3. PICK k \in 1..L : m = At - w[k].ts
    BY <2>2
  <2>4. \A j \in 1..L : w[j].ts <= w[k].ts
    <3> SUFFICES ASSUME NEW j \in 1..L PROVE w[j].ts <= w[k].ts
      OBVIOUS
    <3>1. At - w[j].ts \in Times
      OBVIOUS
    <3>2. At - w[k].ts <= At - w[j].ts
      BY <2>2, <2>3, <3>1
    <3> QED
      BY <1>3, <1>5, <3>2
  <2> DEFINE Lasts == {L - i : i \in {n \in 1..L : w[n].ts = w[k].ts}}
  <2>5. Lasts \in SUBSET Nat /\ Lasts # {}
    OBVIOUS
  <2>6. PICK d \in Lasts : \A e \in Lasts : d <= e
    BY <2>5, LeastOf
  <2>7. PICK i \in 1..L : d = L - i /\ w[i].ts = w[k].ts
    BY <2>6
  <2>8. \A j \in 1..L : w[k].ts = w[j].ts => i >= j
    <3> SUFFICES ASSUME NEW j \in 1..L, w[k].ts = w[j].ts PROVE i >= j
      OBVIOUS
    <3>1. L - j \in Lasts
      OBVIOUS
    <3>2. L - i <= L - j
      BY <2>6, <2>7, <3>1
    <3> QED
      BY <3>2
  <2>9. \A j \in 1..L : w[k].ts > w[j].ts \/ w[k].ts = w[j].ts
    BY <1>3, <2>4
  <2> HIDE DEF Lasts, Times
  <2> QED
    BY <2>7, <2>8, <2>9, Zenon
<1>8. PICK i \in 1..L : Earliest(w) = w[i] /\ \A j \in 1..L :
         w[i].ts < w[j].ts \/ (w[i].ts = w[j].ts /\ i <= j)
  BY <1>1, <1>6, Zenon DEF Earliest
<1>9. PICK n \in 1..L : Latest(w) = w[n] /\ \A j \in 1..L :
         w[n].ts > w[j].ts \/ (w[n].ts = w[j].ts /\ n >= j)
  BY <1>1, <1>7, Zenon DEF Latest
<1>10. \A j \in 1..L : w[i].ts <= w[j].ts
  BY <1>3, <1>8
<1>11. \A j \in 1..L : w[j].ts <= w[n].ts
  BY <1>3, <1>9
<1> QED
  BY <1>1, <1>8, <1>9, <1>10, <1>11, Zenon

\* Of different moments, they are the same in the opposite order.
LEMMA TurnedEnds ==
  ASSUME NEW v, NEW w, Turned(v, w), w # <<>>, \A i \in 1..Len(w) : Now(w[i]),
         \A i, j \in 1..Len(w) : i # j => w[i].ts # w[j].ts
  PROVE  Earliest(v) = Earliest(w) /\ Latest(v) = Latest(w)
<1>1. /\ v \in Seq(Point) /\ w \in Seq(Point) /\ Len(v) = Len(w)
      /\ \A i \in 1..Len(w) : v[i] = w[(Len(w) - i) + 1]
  BY DEF Turned
<1>2. PICK L \in Nat : L = Len(w) /\ L = Len(v)
  BY <1>1
<1>3. v # <<>> /\ \A i \in 1..L : (L - i) + 1 \in 1..L
  BY <1>1, <1>2
<1>4. \A i \in 1..L : v[i] = w[(L - i) + 1] /\ Now(v[i])
  BY <1>1, <1>2, <1>3, Zenon
<1>5. \A i \in 1..L : w[i].ts \in Int
  <2>1. \A i \in 1..L : w[i] \in Point
    BY <1>1, <1>2
  <2> QED
    BY <2>1, Zenon DEF Point
<1>6. \A j \in 1..L : w[j] = v[(L - j) + 1]
  <2>1. \A j \in 1..L : (L - ((L - j) + 1)) + 1 = j
    OBVIOUS
  <2> QED
    BY <1>3, <1>4, <2>1, Zenon
<1>7. Earliest(v) = Earliest(w)
  <2>1. PICK i \in 1..L : /\ Earliest(w) = w[i]
                          /\ \A j \in 1..L : w[i].ts <= w[j].ts
    BY <1>1, <1>2, EndsAre, Zenon
  <2>2. PICK k \in 1..L : /\ Earliest(v) = v[k]
                          /\ \A j \in 1..L : v[k].ts <= v[j].ts
    BY <1>1, <1>2, <1>3, <1>4, EndsAre, Zenon
  <2>3. PICK n \in 1..L : n = (L - k) + 1 /\ Earliest(v) = w[n]
    BY <1>3, <1>4, <2>2, Zenon
  <2>4. w[n].ts <= w[i].ts
    BY <1>3, <1>6, <2>2, <2>3, Zenon
  <2>5. w[n].ts = w[i].ts
    BY <1>5, <2>1, <2>4
  <2> QED
    BY <1>2, <2>1, <2>3, <2>5, Zenon
<1>8. Latest(v) = Latest(w)
  <2>1. PICK i \in 1..L : /\ Latest(w) = w[i]
                          /\ \A j \in 1..L : w[j].ts <= w[i].ts
    BY <1>1, <1>2, EndsAre, Zenon
  <2>2. PICK k \in 1..L : /\ Latest(v) = v[k]
                          /\ \A j \in 1..L : v[j].ts <= v[k].ts
    BY <1>1, <1>2, <1>3, <1>4, EndsAre, Zenon
  <2>3. PICK n \in 1..L : n = (L - k) + 1 /\ Latest(v) = w[n]
    BY <1>3, <1>4, <2>2, Zenon
  <2>4. w[i].ts <= w[n].ts
    BY <1>3, <1>6, <2>2, <2>3, Zenon
  <2>5. w[n].ts = w[i].ts
    BY <1>5, <2>1, <2>4
  <2> QED
    BY <1>2, <2>1, <2>3, <2>5, Zenon
<1> QED
  BY <1>7, <1>8

\* Three metrics that are the same of two windows.
SameMetrics(v, w) ==
    /\ MovingAverage(v, WindowSize, At) = MovingAverage(w, WindowSize, At)
    /\ RateOfChange(v, WindowSize, At) = RateOfChange(w, WindowSize, At)
    /\ SkuOnShelfCompliance(v, WindowSize, At)
         = SkuOnShelfCompliance(w, WindowSize, At)

\* They are about what counts of a window.
LEMMA SameInside ==
  ASSUME NEW v, NEW w, In(v) = In(w)
  PROVE  SameMetrics(v, w)
<1>1. InWindow(v, WindowSize, At) = InWindow(w, WindowSize, At)
  BY DEF In
<1> QED
  BY <1>1, Zenon
  DEF SameMetrics, MovingAverage, RateOfChange, SkuOnShelfCompliance

\* The order of different moments makes no difference.
LEMMA SameTurned ==
  ASSUME NEW v, NEW w, Turned(v, w),
         \A i, j \in 1..Len(w) : i # j => w[i].ts # w[j].ts
  PROVE  SameMetrics(v, w)
<1>1. w \in Seq(Point)
  BY DEF Turned
<1>2. Turned(In(v), In(w))
  BY TurnedIn
<1>3. PICK s \in Seq(Point), t \in Seq(Point) :
         /\ s = In(w) /\ t = In(v) /\ Len(t) = Len(s) /\ Turned(t, s)
  BY <1>2, Zenon DEF Turned
<1>4. /\ \A i \in 1..Len(s) : Now(s[i])
      /\ \A i, j \in 1..Len(s) : i # j => s[i].ts # s[j].ts
  BY <1>1, <1>3, InIs, Zenon
<1>5. /\ InWindow(w, WindowSize, At) = s
      /\ InWindow(v, WindowSize, At) = t
  BY <1>3, Zenon DEF In
<1>6. s = <<>> <=> t = <<>>
  BY <1>3
<1>7. MovingAverage(v, WindowSize, At) = MovingAverage(w, WindowSize, At)
  <2>1. Total(t) = Total(s)
    BY <1>3, TurnedTotal
  <2> QED
    BY <1>3, <1>5, <1>6, <2>1, Zenon DEF MovingAverage
<1>8. RateOfChange(v, WindowSize, At) = RateOfChange(w, WindowSize, At)
  <2>1. CASE s = <<>>
    BY <1>5, <1>6, <2>1, Zenon DEF RateOfChange
  <2>2. CASE s # <<>>
    <3>1. Earliest(t) = Earliest(s) /\ Latest(t) = Latest(s)
      BY <1>3, <1>4, <2>2, TurnedEnds, Zenon
    <3> QED
      BY <1>3, <1>5, <3>1, Zenon DEF RateOfChange
  <2> QED
    BY <2>1, <2>2
<1>9. SkuOnShelfCompliance(v, WindowSize, At)
        = SkuOnShelfCompliance(w, WindowSize, At)
  <2>1. Cardinality(Above(t)) = Cardinality(Above(s))
    BY <1>3, TurnedAbove
  <2>2. Cardinality({i \in DOMAIN t : t[i].v > 0})
          = Cardinality({i \in DOMAIN s : s[i].v > 0})
    BY <2>1, Zenon DEF Above
  <2> QED
    BY <1>3, <1>5, <1>6, <2>2, Zenon DEF SkuOnShelfCompliance
<1> QED
  BY <1>7, <1>8, <1>9, Zenon DEF SameMetrics

\* So late readings, readings of the future and the order make none.
LEMMA WindowAlone ==
  ASSUME NEW w \in Seq(Point)
  PROVE  LET in == InWindow(w, WindowSize, At)
             distinct == \A i, j \in DOMAIN w : i # j => w[i].ts # w[j].ts
         IN  \A v \in {in} \cup (IF distinct THEN {Reverse(w)} ELSE {}) :
                SameMetrics(v, w)
<1>1. SameMetrics(In(w), w)
  <2>1. In(w) \in Seq(Point) /\ \A k \in 1..Len(In(w)) : Now(In(w)[k])
    BY InIs, Zenon
  <2>2. In(In(w)) = In(w)
    BY <2>1, AllStay, Zenon
  <2> QED
    BY <2>2, SameInside, Zenon
<1>2. DOMAIN w = 1..Len(w)
  OBVIOUS
<1>3. ASSUME \A i, j \in DOMAIN w : i # j => w[i].ts # w[j].ts
      PROVE  SameMetrics(Reverse(w), w)
  BY <1>2, <1>3, ReverseTurns, SameTurned, Zenon
<1> QED
  BY <1>1, <1>3, Zenon DEF In

\* A clamp keeps to its scale and to the order.
LEMMA ClampIs ==
  ASSUME NEW lo \in Int, NEW hi \in Int, lo <= hi,
         NEW x \in Int, NEW y \in Int, x <= y
  PROVE  /\ lo <= Bounded(lo, x, hi) /\ Bounded(lo, x, hi) <= hi
         /\ Bounded(lo, x, hi) <= Bounded(lo, y, hi)
BY DEF Bounded

\* A point that counts is as stale as it is old.
LEMMA StaleIs ==
  ASSUME NEW p, p.ts \in Int, Now(p)
  PROVE  /\ Staleness(p, WindowSize, At) = At - p.ts
         /\ At - p.ts \in Int /\ 0 <= At - p.ts /\ At - p.ts <= WindowSize
<1>1. At \in Int /\ WindowSize \in Int
  BY QuestionAssumption
<1>2. At - WindowSize <= p.ts /\ p.ts <= At
  BY DEF Now, Inside
<1>3. PICK old \in Int : old = At - p.ts
  BY <1>1
<1>4. 0 <= old /\ old <= WindowSize
  BY <1>1, <1>2, <1>3
<1> QED
  BY <1>1, <1>3, <1>4 DEF Staleness, Bounded

\* The latest point of a window that has one.
LEMMA LatestIs ==
  ASSUME NEW w \in Seq(Point), In(w) # <<>>
  PROVE  /\ Latest(In(w)) \in Point /\ Now(Latest(In(w)))
         /\ \E i \in 1..Len(w) : Latest(In(w)) = w[i]
<1>1. PICK s \in Seq(Point) : s = In(w)
  BY InIs, Zenon
<1>2. /\ \A k \in 1..Len(s) : Now(s[k]) /\ \E i \in 1..Len(w) : s[k] = w[i]
      /\ s # <<>>
  BY <1>1, InIs, Zenon
<1>3. PICK k \in 1..Len(s) : Latest(s) = s[k]
  BY <1>2, EndsAre, Zenon
<1>4. s[k] \in Point
  BY <1>3
<1> QED
  BY <1>1, <1>2, <1>3, <1>4, Zenon

\* The points that a comfort index looks at, and the oldest of them.
Used(t, h, a) ==
    {Latest(t), Latest(h)} \cup (IF a = <<>> THEN {} ELSE {Latest(a)})
OldestOf(t, h, a) ==
    CHOOSE s \in {Staleness(p, WindowSize, At) : p \in Used(t, h, a)} :
        \A p \in Used(t, h, a) : Staleness(p, WindowSize, At) <= s

\* The index is a record of these, if there is one.
LEMMA ComfortIs ==
  ASSUME NEW temp, NEW hum, NEW air
  PROVE  LET t == In(temp)
             h == In(hum)
             a == In(air)
             cooling == IF a = <<>> THEN 0 ELSE Cooling(Latest(a).v)
         IN  ComfortIndex(temp, hum, air, WindowSize, At) =
               IF t = <<>> \/ h = <<>> THEN None
               ELSE [value |-> Bounded(Lowest,
                                 Missenard(Latest(t).v, Latest(h).v) - cooling,
                                 Highest),
                     worst |-> OldestOf(t, h, a),
                     confidence |-> IF a = <<>> THEN <<2, 3>> ELSE <<1, 1>>]
BY Zenon DEF ComfortIndex, In, Used, OldestOf

\* There is an oldest.
LEMMA OldestIs ==
  ASSUME NEW t, NEW h, NEW a,
         \A p \in Used(t, h, a) : Staleness(p, WindowSize, At) \in Int
  PROVE  /\ \E p \in Used(t, h, a) :
               OldestOf(t, h, a) = Staleness(p, WindowSize, At)
         /\ \A p \in Used(t, h, a) :
               Staleness(p, WindowSize, At) <= OldestOf(t, h, a)
<1> DEFINE St(p) == Staleness(p, WindowSize, At)
<1>1. PICK r : Used(t, h, a) = {Latest(t), Latest(h), r}
  <2>1. CASE a = <<>>
    <3>1. Used(t, h, a) = {Latest(t), Latest(h), Latest(h)}
      BY <2>1 DEF Used
    <3> QED
      BY <3>1
  <2>2. CASE a # <<>>
    <3>1. Used(t, h, a) = {Latest(t), Latest(h), Latest(a)}
      BY <2>2 DEF Used
    <3> QED
      BY <3>1
  <2> QED
    BY <2>1, <2>2
<1>2. PICK U : U = Used(t, h, a)
  OBVIOUS
<1>3. PICK x, y : x = Latest(t) /\ y = Latest(h)
  OBVIOUS
<1>4. U = {x, y, r}
  BY <1>1, <1>2, <1>3
<1>5. \A p \in U : St(p) \in Int
  BY <1>2
<1>6. St(x) \in Int /\ St(y) \in Int /\ St(r) \in Int
  BY <1>4, <1>5
<1>7. \E p \in U : \A q \in U : St(q) <= St(p)
  <2> HIDE DEF St
  <2>1. \/ St(y) <= St(x) /\ St(r) <= St(x) /\ St(x) <= St(x)
        \/ St(x) <= St(y) /\ St(r) <= St(y) /\ St(y) <= St(y)
        \/ St(x) <= St(r) /\ St(y) <= St(r) /\ St(r) <= St(r)
    BY <1>6
  <2> QED
    BY <1>4, <2>1, Zenon
<1>8. \E s \in {St(p) : p \in U} : \A p \in U : St(p) <= s
  BY <1>7, Zenon
<1>9. /\ OldestOf(t, h, a) \in {St(p) : p \in U}
      /\ \A p \in U : St(p) <= OldestOf(t, h, a)
  BY <1>2, <1>8, Zenon DEF OldestOf
<1> QED
  BY <1>2, <1>9, Zenon

\* The comfort index on its scale, of three windows.
OnScale(temp, hum, air) ==
    LET out == ComfortIndex(temp, hum, air, WindowSize, At)
        still == ComfortIndex(temp, hum, <<>>, WindowSize, At)
    IN  out # None =>
            /\ Lowest <= out.value /\ out.value <= Highest
            /\ 0 <= out.worst /\ out.worst <= WindowSize
            /\ out.value <= still.value
            /\ out.worst = 0 <=>
                 \A w \in {temp, hum, air} :
                    LET in == InWindow(w, WindowSize, At)
                    IN  in # <<>> => Latest(in).ts = At

\* The scale is one.
LEMMA ScaleIs == Lowest \in Int /\ Highest \in Int /\ Lowest <= Highest
BY DEF Lowest, Highest, Unit

\* The index before the clamp is a number, and the cooling takes from it.
LEMMA IndexIs ==
  ASSUME NEW t \in Int, NEW rh \in Int, NEW root \in Nat
  PROVE  /\ Missenard(t, rh) \in Int /\ Cooling(root) \in Nat
<1>1. PICK m \in Int : m = (100 - rh) * (2 * t - 29)
  OBVIOUS
<1>2. Missenard(t, rh) = Unit * t - 55 * (100 - rh) * (2 * t - 29)
  BY DEF Missenard
<1>3. 55 * (100 - rh) * (2 * t - 29) \in Int
  OBVIOUS
<1>4. Unit * t \in Int
  BY DEF Unit
<1>5. Missenard(t, rh) \in Int
  BY <1>2, <1>3, <1>4
<1>6. Cooling(root) \in Nat
  BY DEF Cooling
<1> QED
  BY <1>5, <1>6

\* The comfort index is on its scale.
LEMMA ComfortHolds ==
  ASSUME NEW temp \in Seq(Point), NEW hum \in Seq(Point),
         NEW air \in Seq([ts : Int, v : Nat])
  PROVE  OnScale(temp, hum, air)
<1>1. air \in Seq(Point) /\ \A i \in 1..Len(air) : air[i].v \in Nat
  <2>1. \A i \in 1..Len(air) : air[i] \in [ts : Int, v : Nat]
    BY ElementOfSeq, Zenon
  <2>2. \A p \in [ts : Int, v : Nat] : p \in Point /\ p.v \in Nat
    BY DEF Point
  <2>3. \A i \in 1..Len(air) : air[i] \in Point
    BY <2>1, <2>2, Zenon
  <2>4. air = [i \in 1..Len(air) |-> air[i]] /\ Len(air) \in Nat
    OBVIOUS
  <2>5. air \in Seq(Point)
    <3>1. air \in [1..Len(air) -> Point]
      BY <2>3, <2>4
    <3>2. Seq(Point) = UNION {[1..n -> Point] : n \in Nat}
      BY SeqDef, Zenon
    <3>3. PICK k \in Nat : k = Len(air)
      BY <2>4
    <3>4. air \in [1..k -> Point]
      BY <3>1, <3>3, Zenon
    <3>5. air \in UNION {[1..n -> Point] : n \in Nat}
      BY <3>4, Zenon
    <3> QED
      BY <3>2, <3>5, Zenon
  <2> QED
    BY <2>1, <2>2, <2>5, Zenon
<1>2. In(<<>>) = <<>>
  <2>1. <<>> \in Seq(Point) /\ Len(<<>>) = 0 /\ 1..0 = {}
    OBVIOUS
  <2> QED
    BY <2>1, AllStay, Zenon
<1>3. PICK t, h, a : t = In(temp) /\ h = In(hum) /\ a = In(air)
  OBVIOUS
<1>4. PICK cooling : cooling = IF a = <<>> THEN 0 ELSE Cooling(Latest(a).v)
  OBVIOUS
<1>5. PICK base : base = Missenard(Latest(t).v, Latest(h).v)
  OBVIOUS
<1>6. PICK worst : worst = OldestOf(t, h, a)
  OBVIOUS
<1>7. PICK conf : conf = IF a = <<>> THEN <<2, 3>> ELSE <<1, 1>>
  OBVIOUS
<1>8. PICK out : out = ComfortIndex(temp, hum, air, WindowSize, At)
  OBVIOUS
<1>9. PICK still : still = ComfortIndex(temp, hum, <<>>, WindowSize, At)
  OBVIOUS
<1>10. out = IF t = <<>> \/ h = <<>> THEN None
             ELSE [value |-> Bounded(Lowest, base - cooling, Highest),
                   worst |-> worst, confidence |-> conf]
  BY <1>3, <1>4, <1>5, <1>6, <1>7, <1>8, ComfortIs, Zenon
<1>11. PICK none, full :
          /\ still = IF t = <<>> \/ h = <<>> THEN None
                     ELSE [value |-> Bounded(Lowest, base - none, Highest),
                           worst |-> OldestOf(t, h, <<>>), confidence |-> full]
          /\ none = 0
  <2>1. PICK none, full :
          /\ none = IF In(<<>>) = <<>> THEN 0 ELSE Cooling(Latest(In(<<>>)).v)
          /\ full = IF In(<<>>) = <<>> THEN <<2, 3>> ELSE <<1, 1>>
    OBVIOUS
  <2>2. still = IF t = <<>> \/ h = <<>> THEN None
                ELSE [value |-> Bounded(Lowest, base - none, Highest),
                      worst |-> OldestOf(t, h, In(<<>>)), confidence |-> full]
    BY <1>3, <1>5, <1>9, <2>1, ComfortIs, Zenon
  <2>3. none = 0
    BY <1>2, <2>1, Zenon
  <2> QED
    BY <1>2, <2>2, <2>3, Zenon
<1>12. SUFFICES ASSUME out # None
       PROVE  /\ Lowest <= out.value /\ out.value <= Highest
              /\ 0 <= out.worst /\ out.worst <= WindowSize
              /\ out.value <= still.value
              /\ out.worst = 0 <=>
                   \A w \in {temp, hum, air} :
                      In(w) # <<>> => Latest(In(w)).ts = At
  BY <1>8, <1>9, Zenon DEF OnScale, In
<1>13. t # <<>> /\ h # <<>>
  BY <1>10, <1>12, Zenon
<1>14. /\ out.value = Bounded(Lowest, base - cooling, Highest)
       /\ out.worst = worst
       /\ still.value = Bounded(Lowest, base - 0, Highest)
  BY <1>10, <1>11, <1>13, Zenon
<1>15. /\ Latest(t) \in Point /\ Now(Latest(t))
       /\ Latest(h) \in Point /\ Now(Latest(h))
       /\ a # <<>> => /\ Latest(a) \in Point /\ Now(Latest(a))
                      /\ \E i \in 1..Len(air) : Latest(a) = air[i]
  BY <1>1, <1>3, <1>13, LatestIs, Zenon
<1>16. base \in Int /\ cooling \in Nat
  <2>1. Latest(t).v \in Int /\ Latest(h).v \in Int
    BY <1>15 DEF Point
  <2>2. base \in Int
    BY <1>5, <2>1, IndexIs
  <2>3. CASE a = <<>>
    BY <1>4, <2>2, <2>3
  <2>4. CASE a # <<>>
    <3>1. Latest(a).v \in Nat
      BY <1>1, <1>15, <2>4, Zenon
    <3>2. Cooling(Latest(a).v) \in Nat
      BY <2>1, <3>1, IndexIs
    <3> QED
      BY <1>4, <2>2, <2>4, <3>2, Zenon
  <2> QED
    BY <2>3, <2>4
<1>17. /\ Lowest <= out.value /\ out.value <= Highest
       /\ out.value <= still.value
  <2>1. base - cooling \in Int /\ base - 0 \in Int /\ base - cooling <= base - 0
    BY <1>16
  <2>2. PICK x \in Int, y \in Int : x = base - cooling /\ y = base - 0
    BY <2>1
  <2>3. x <= y
    BY <2>1, <2>2
  <2>4. /\ Lowest <= Bounded(Lowest, x, Highest)
        /\ Bounded(Lowest, x, Highest) <= Highest
        /\ Bounded(Lowest, x, Highest) <= Bounded(Lowest, y, Highest)
    BY <2>3, ScaleIs, ClampIs
  <2> QED
    BY <1>14, <2>2, <2>4, Zenon
<1>18. \A p \in Used(t, h, a) :
          /\ Staleness(p, WindowSize, At) = At - p.ts /\ At - p.ts \in Int
          /\ 0 <= At - p.ts /\ At - p.ts <= WindowSize
          /\ p.ts \in Int
  <2>1. \A p \in Used(t, h, a) : p \in Point /\ Now(p)
    BY <1>15, Zenon DEF Used
  <2>2. \A p \in Point : p.ts \in Int
    BY DEF Point
  <2> QED
    BY <2>1, <2>2, StaleIs, Zenon
<1>19. /\ \E p \in Used(t, h, a) : worst = Staleness(p, WindowSize, At)
       /\ \A p \in Used(t, h, a) : Staleness(p, WindowSize, At) <= worst
  BY <1>6, <1>18, OldestIs, Zenon
<1>20. PICK p \in Used(t, h, a) : worst = At - p.ts
  BY <1>18, <1>19, Zenon
<1>21. 0 <= worst /\ worst <= WindowSize
  BY <1>18, <1>20, Zenon
<1>22. worst = 0 <=> \A q \in Used(t, h, a) : q.ts = At
  <2>1. \A q \in Used(t, h, a) : At - q.ts <= worst
    BY <1>18, <1>19, Zenon
  <2>2. At \in Int
    BY QuestionAssumption
  <2>3. ASSUME worst = 0, NEW q \in Used(t, h, a) PROVE q.ts = At
    <3>1. /\ At - q.ts <= 0 /\ 0 <= At - q.ts /\ q.ts \in Int
      BY <1>18, <2>1, <2>3, Zenon
    <3> QED
      BY <2>2, <3>1
  <2>4. ASSUME \A q \in Used(t, h, a) : q.ts = At PROVE worst = 0
    <3>1. worst = At - At
      BY <1>20, <2>4, Zenon
    <3> QED
      BY <2>2, <3>1
  <2> QED
    BY <2>3, <2>4
<1>23. (\A q \in Used(t, h, a) : q.ts = At)
         <=> \A w \in {temp, hum, air} : In(w) # <<>> => Latest(In(w)).ts = At
  BY <1>3, <1>13, Zenon DEF Used
<1> QED
  BY <1>14, <1>17, <1>21, <1>22, <1>23, Zenon

\* Whatever window is asked about, a metric is one of its points that count; and
\* the comfort index of any three windows is on its scale (moving_average,
\* rate_of_change, sku_on_shelf_compliance, comfort_index_ext).
THEOREM FormulasAreSound == AskSpec => []FormulasHold
<1>1. Asked => FormulasHold
  <2> SUFFICES ASSUME Asked PROVE FormulasHold
    OBVIOUS
  <2>1. AskedOf(asked)
    BY DEF Asked
  <2>2. OnlyTheWindowCounts
    <3> SUFFICES ASSUME asked.about = "window"
        PROVE  LET w == asked.w
                   in == InWindow(w, WindowSize, At)
                   distinct == \A i, j \in DOMAIN w : i # j => w[i].ts # w[j].ts
               IN  \A v \in {in} \cup (IF distinct THEN {Reverse(w)} ELSE {}) :
                      SameMetrics(v, w)
      BY Zenon DEF OnlyTheWindowCounts, SameMetrics
    <3>1. asked.w \in Seq(Point)
      BY <2>1, AboutWindow, QuestionAssumption
    <3> QED
      BY <3>1, WindowAlone, Zenon
  <2>3. ComfortOnScale
    <3> SUFFICES ASSUME asked.about = "comfort"
        PROVE  OnScale(asked.temp, asked.hum, asked.air)
      BY Zenon DEF ComfortOnScale, OnScale
    <3>1. /\ asked.temp \in Seq(Point) /\ asked.hum \in Seq(Point)
          /\ asked.air \in Seq([ts : Int, v : Nat])
      BY <2>1, AboutWindow, QuestionAssumption
    <3> QED
      BY <3>1, ComfortHolds
  <2> QED
    BY <2>2, <2>3 DEF FormulasHold
<1> QED
  BY <1>1, QuestionsAreKnown, PTL

-----------------------------------------------------------------------------
(* The queries of the KPIs *)

\* A sum takes one element after the other.
Taken(s) == CHOOSE x \in s : TRUE

\* The sums of the subsets of S with at most n elements.
SumUpTo(f, S, n, g) ==
    g = [s \in {t \in SUBSET S : Cardinality(t) <= n} |->
            IF s = {} THEN 0 ELSE f[Taken(s)] + g[s \ {Taken(s)}]]

\* What is left of a set from which an element is taken.
LEMMA LessOne ==
  ASSUME NEW s, IsFiniteSet(s), s # {}
  PROVE  /\ Taken(s) \in s /\ IsFiniteSet(s \ {Taken(s)})
         /\ Cardinality(s) \in Nat \ {0}
         /\ Cardinality(s \ {Taken(s)}) = Cardinality(s) - 1
<1>1. Taken(s) \in s
  BY DEF Taken
<1>2. Cardinality(s) \in Nat /\ Cardinality(s) # 0
  BY FS_CardinalityType, FS_EmptySet
<1> QED
  BY <1>1, <1>2, FS_RemoveElement

\* There is such a function, subsets of n elements after those of fewer.
LEMMA SumUpToExists ==
  ASSUME NEW f, NEW S, IsFiniteSet(S), NEW n \in Nat
  PROVE  \E g : SumUpTo(f, S, n, g)
<1> DEFINE Of(k) == {t \in SUBSET S : Cardinality(t) <= k}
           Step(h, s) == f[Taken(s)] + h[s \ {Taken(s)}]
           T == {i \in Nat : ~\E g : SumUpTo(f, S, i, g)}
<1>1. SUFFICES ASSUME T # {} PROVE FALSE
  OBVIOUS
<1>2. PICK k \in T : \A m \in T : k <= m
  BY <1>1, LeastOf
<1>3. \A s \in SUBSET S : IsFiniteSet(s) /\ Cardinality(s) \in Nat
                          /\ (Cardinality(s) = 0 <=> s = {})
  BY FS_Subset, FS_CardinalityType, FS_EmptySet
<1>4. CASE k = 0
  <2>1. Of(0) = {{}}
    BY <1>3
  <2>2. PICK g : g = [s \in Of(0) |-> 0]
    OBVIOUS
  <2>3. g = [s \in Of(0) |-> IF s = {} THEN 0 ELSE Step(g, s)]
    BY <2>1, <2>2
  <2>4. SumUpTo(f, S, 0, g)
    BY <2>3, Zenon DEF SumUpTo
  <2> QED
    BY <1>2, <1>4, <2>4
<1>5. CASE k # 0
  <2>1. k - 1 \in Nat /\ k - 1 \notin T /\ k \in Nat
    BY <1>2, <1>5
  <2>2. PICK e : SumUpTo(f, S, k - 1, e)
    BY <2>1
  <2>3. \A s \in Of(k - 1) : e[s] = IF s = {} THEN 0 ELSE Step(e, s)
    BY <2>2, Zenon DEF SumUpTo
  <2>4. \A s \in Of(k) : s # {} => s \ {Taken(s)} \in Of(k - 1)
    <3> SUFFICES ASSUME NEW s \in Of(k), s # {}
                 PROVE  s \ {Taken(s)} \in Of(k - 1)
      OBVIOUS
    <3>1. /\ IsFiniteSet(s) /\ Cardinality(s) \in Nat
          /\ Cardinality(s \ {Taken(s)}) = Cardinality(s) - 1
      BY <1>3, LessOne
    <3> QED
      BY <2>1, <3>1
  <2>5. \A s \in Of(k - 1) : s \in Of(k)
    BY <1>3, <2>1
  <2>6. PICK g : g = [s \in Of(k) |-> IF s \in Of(k - 1) THEN e[s]
                                      ELSE Step(e, s)]
    OBVIOUS
  <2>7. \A s \in Of(k - 1) : g[s] = e[s]
    BY <2>5, <2>6
  <2>8. \A s \in Of(k) : s # {} => Step(g, s) = Step(e, s)
    BY <2>4, <2>7
  <2>9. \A s \in Of(k) : g[s] = IF s = {} THEN 0 ELSE Step(g, s)
    <3> SUFFICES ASSUME NEW s \in Of(k)
                 PROVE  g[s] = IF s = {} THEN 0 ELSE Step(g, s)
      OBVIOUS
    <3>1. CASE s \in Of(k - 1)
      <4>1. g[s] = IF s = {} THEN 0 ELSE Step(e, s)
        BY <2>3, <2>7, <3>1
      <4> HIDE DEF Step, Of
      <4> QED
        BY <2>8, <4>1
    <3>2. CASE s \notin Of(k - 1)
      <4>1. s # {}
        BY <1>3, <2>1, <3>2
      <4>2. g[s] = Step(e, s)
        BY <2>6, <3>2
      <4> HIDE DEF Step, Of
      <4> QED
        BY <2>8, <4>1, <4>2
    <3> QED
      BY <3>1, <3>2
  <2>10. SumUpTo(f, S, k, g)
    <3>1. g = [s \in Of(k) |-> g[s]]
      BY <2>6
    <3>2. g = [s \in Of(k) |-> IF s = {} THEN 0 ELSE Step(g, s)]
      <4> HIDE DEF Step, Of
      <4> QED
        BY <2>9, <3>1
    <3> QED
      BY <3>2, Zenon DEF SumUpTo
  <2> QED
    BY <1>2, <2>10
<1> QED
  BY <1>4, <1>5

\* The sums of all subsets.
SumsOf(f, S, g) ==
    \A s \in SUBSET S :
       g[s] = IF s = {} THEN 0 ELSE f[Taken(s)] + g[s \ {Taken(s)}]

\* A sum is found among them.
LEMMA SumIsOne ==
  ASSUME NEW f, NEW S, IsFiniteSet(S)
  PROVE  \E g : SumsOf(f, S, g) /\ SumFunctionOnSet(f, S) = g[S]
<1>1. {t \in SUBSET S : Cardinality(t) <= Cardinality(S)} = SUBSET S
  BY FS_Subset
<1>2. \E g : g = [s \in SUBSET S |->
                    IF s = {} THEN 0 ELSE f[Taken(s)] + g[s \ {Taken(s)}]]
  <2>1. \E g : SumUpTo(f, S, Cardinality(S), g)
    BY FS_CardinalityType, SumUpToExists, Zenon
  <2> QED
    BY <1>1, <2>1, Zenon DEF SumUpTo
<1> DEFINE c == CHOOSE g : g = [s \in SUBSET S |->
                    IF s = {} THEN 0 ELSE f[Taken(s)] + g[s \ {Taken(s)}]]
<1>3. c = [s \in SUBSET S |->
              IF s = {} THEN 0 ELSE f[Taken(s)] + c[s \ {Taken(s)}]]
  BY <1>2, Zenon
<1>4. SumFunctionOnSet(f, S) = c[S]
  BY Zenon DEF SumFunctionOnSet, FoldFunctionOnSet, MapThenFoldSet, Taken
<1> HIDE DEF c
<1>5. SumsOf(f, S, c)
  BY <1>3, Zenon DEF SumsOf
<1> QED
  BY <1>4, <1>5, Zenon

\* Sums of values that are the same on a set are the same there.
LEMMA SumsAgree ==
  ASSUME NEW f, NEW e, NEW S, NEW R, NEW g, NEW h, IsFiniteSet(S),
         SumsOf(f, S, g), SumsOf(e, R, h),
         NEW s, s \subseteq S, s \subseteq R, \A x \in s : f[x] = e[x]
  PROVE  g[s] = h[s]
<1> DEFINE Wrong(t) == t \subseteq s /\ g[t] # h[t]
           T == {n \in Nat : \E t \in SUBSET s : Wrong(t) /\ Cardinality(t) = n}
<1>1. \A t \in SUBSET s : IsFiniteSet(t) /\ Cardinality(t) \in Nat
  <2>1. IsFiniteSet(s)
    BY FS_Subset
  <2> QED
    BY <2>1, FS_Subset, FS_CardinalityType
<1>2. SUFFICES ASSUME T # {} PROVE FALSE
  BY <1>1
<1>3. PICK k \in T : \A m \in T : k <= m
  BY <1>2, LeastOf
<1>4. PICK t \in SUBSET s : Wrong(t) /\ Cardinality(t) = k
  BY <1>3
<1>5. t \in SUBSET S /\ t \in SUBSET R
  BY <1>4
<1>6. /\ g[t] = IF t = {} THEN 0 ELSE f[Taken(t)] + g[t \ {Taken(t)}]
      /\ h[t] = IF t = {} THEN 0 ELSE e[Taken(t)] + h[t \ {Taken(t)}]
  BY <1>5, Zenon DEF SumsOf
<1>7. t # {}
  BY <1>4, <1>6
<1>8. /\ Taken(t) \in t /\ k \in Nat \ {0}
      /\ Cardinality(t \ {Taken(t)}) = k - 1
  BY <1>1, <1>4, <1>7, LessOne
<1>9. g[t \ {Taken(t)}] = h[t \ {Taken(t)}]
  <2>1. k - 1 \notin T /\ k - 1 \in Nat
    BY <1>3, <1>8
  <2>2. t \ {Taken(t)} \in SUBSET s
    OBVIOUS
  <2> QED
    BY <1>8, <2>1, <2>2
<1>10. f[Taken(t)] = e[Taken(t)]
  BY <1>8
<1> QED
  BY <1>4, <1>6, <1>7, <1>9, <1>10, Zenon

\* A sum is the value that is taken and the sum of the others.
LEMMA SumTakes ==
  ASSUME NEW f, NEW S, IsFiniteSet(S)
  PROVE  SumFunctionOnSet(f, S) =
           IF S = {} THEN 0
           ELSE f[Taken(S)] + SumFunctionOnSet(f, S \ {Taken(S)})
<1>1. PICK g : SumsOf(f, S, g) /\ SumFunctionOnSet(f, S) = g[S]
  BY SumIsOne
<1>2. PICK R : R = S \ {Taken(S)} /\ R \subseteq S
  OBVIOUS
<1>3. IsFiniteSet(R)
  BY <1>2, FS_Subset
<1>4. PICK h : SumsOf(f, R, h) /\ SumFunctionOnSet(f, R) = h[R]
  BY <1>3, SumIsOne
<1>5. g[R] = h[R]
  BY <1>1, <1>2, <1>4, SumsAgree
<1>6. g[S] = IF S = {} THEN 0 ELSE f[Taken(S)] + g[S \ {Taken(S)}]
  BY <1>1 DEF SumsOf
<1> QED
  BY <1>1, <1>2, <1>4, <1>5, <1>6, Zenon

\* What is said of a sum: it does not depend on which value is taken.
SumSplits(f, S) ==
    /\ SumFunctionOnSet(f, S) \in Int
    /\ \A x \in S : SumFunctionOnSet(f, S) =
                      f[x] + SumFunctionOnSet(f, S \ {x})

\* It holds of sums of integers, by the number of values.
LEMMA SumIs ==
  ASSUME NEW f, NEW S, IsFiniteSet(S), \A x \in S : f[x] \in Int
  PROVE  SumSplits(f, S)
<1> DEFINE T == {n \in Nat : \E t \in SUBSET S :
                               ~SumSplits(f, t) /\ Cardinality(t) = n}
<1>1. \A t \in SUBSET S : IsFiniteSet(t) /\ Cardinality(t) \in Nat
  BY FS_Subset, FS_CardinalityType
<1>2. SUFFICES ASSUME T # {} PROVE FALSE
  BY <1>1
<1>3. PICK k \in T : \A m \in T : k <= m
  BY <1>2, LeastOf
<1>4. PICK t \in SUBSET S : ~SumSplits(f, t) /\ Cardinality(t) = k
  BY <1>3
<1>5. t # {}
  <2>1. SumFunctionOnSet(f, {}) = 0
    BY FS_EmptySet, SumTakes, Zenon
  <2>2. 0 \in Int /\ \A x \in {} : FALSE
    OBVIOUS
  <2>3. SumSplits(f, {})
    BY <2>1, <2>2, Zenon DEF SumSplits
  <2> QED
    BY <1>4, <2>3, Zenon
<1>6. PICK y \in t : y = Taken(t)
  BY <1>1, <1>5, LessOne
<1>7. \A x \in t : SumSplits(f, t \ {x})
  <2> SUFFICES ASSUME NEW x \in t PROVE SumSplits(f, t \ {x})
    OBVIOUS
  <2>1. Cardinality(t \ {x}) = k - 1 /\ k - 1 \in Nat
    <3>1. Cardinality(t \ {x}) = k - 1
      BY <1>1, <1>4, FS_RemoveElement
    <3>2. Cardinality(t \ {x}) \in Nat
      BY <1>1
    <3> QED
      BY <3>1, <3>2
  <2>2. k - 1 \notin T
    BY <1>3, <2>1
  <2> QED
    BY <2>1, <2>2
<1>8. PICK R : R = t \ {y} /\ SumSplits(f, R)
  BY <1>7
<1>9. PICK b \in Int : b = SumFunctionOnSet(f, R)
  BY <1>8 DEF SumSplits
<1>10. f[y] \in Int /\ SumFunctionOnSet(f, t) = f[y] + b
  BY <1>1, <1>5, <1>6, <1>8, <1>9, SumTakes
<1>11. ASSUME NEW x \in t
       PROVE  SumFunctionOnSet(f, t) = f[x] + SumFunctionOnSet(f, t \ {x})
  <2>1. CASE x = y
    BY <1>8, <1>9, <1>10, <2>1
  <2>2. CASE x # y
    <3>1. x \in R /\ y \in t \ {x} /\ (t \ {x}) \ {y} = R \ {x}
      BY <1>8, <2>2
    <3>2. PICK q : q = SumFunctionOnSet(f, R \ {x})
      OBVIOUS
    <3>3. b = f[x] + q
      BY <1>8, <1>9, <3>1, <3>2 DEF SumSplits
    <3>4. SumFunctionOnSet(f, t \ {x}) = f[y] + q
      <4>1. SumSplits(f, t \ {x})
        BY <1>7
      <4>2. SumFunctionOnSet(f, t \ {x})
              = f[y] + SumFunctionOnSet(f, (t \ {x}) \ {y})
        BY <3>1, <4>1, Zenon DEF SumSplits
      <4> QED
        BY <3>1, <3>2, <4>2, Zenon
    <3>5. q \in Int
      <4>1. SumSplits(f, t \ {x}) /\ IsFiniteSet(R \ {x}) /\ R \ {x} \in SUBSET S
        BY <1>1, <1>7, <1>8
      <4>2. Cardinality(R \ {x}) < k
        <5>1. IsFiniteSet(R) /\ Cardinality(R) = k - 1 /\ k - 1 \in Nat
          <6>1. R \in SUBSET S
            BY <1>8
          <6>2. Cardinality(R) = k - 1
            BY <1>1, <1>4, <1>8, FS_RemoveElement
          <6> QED
            BY <1>1, <6>1, <6>2
        <5>2. Cardinality(R \ {x}) <= k - 1 /\ Cardinality(R \ {x}) \in Nat
          BY <1>1, <4>1, <5>1, FS_Subset
        <5> QED
          BY <1>3, <5>1, <5>2
      <4>3. Cardinality(R \ {x}) \notin T /\ Cardinality(R \ {x}) \in Nat
        BY <1>1, <1>3, <4>1, <4>2
      <4>4. SumSplits(f, R \ {x})
        BY <4>1, <4>3
      <4> QED
        BY <3>2, <4>4 DEF SumSplits
    <3>6. f[x] \in Int
      OBVIOUS
    <3> QED
      BY <1>10, <3>3, <3>4, <3>5, <3>6
  <2> QED
    BY <2>1, <2>2
<1>12. SumFunctionOnSet(f, t) \in Int
  BY <1>10
<1> QED
  BY <1>4, <1>11, <1>12, Zenon DEF SumSplits

\* The sum over nothing, and with one more.
LEMMA SumWith ==
  ASSUME NEW f, NEW S, IsFiniteSet(S), NEW x, x \notin S,
         \A y \in S \cup {x} : f[y] \in Int
  PROVE  /\ SumFunctionOnSet(f, {}) = 0
         /\ SumFunctionOnSet(f, S) \in Int
         /\ SumFunctionOnSet(f, S \cup {x}) = f[x] + SumFunctionOnSet(f, S)
<1>1. SumFunctionOnSet(f, {}) = 0
  BY FS_EmptySet, SumTakes, Zenon
<1>2. SumSplits(f, S)
  BY SumIs
<1>3. IsFiniteSet(S \cup {x})
  BY FS_AddElement
<1>4. SumSplits(f, S \cup {x})
  BY <1>3, SumIs
<1>5. (S \cup {x}) \ {x} = S /\ x \in S \cup {x}
  OBVIOUS
<1>6. SumFunctionOnSet(f, S \cup {x})
        = f[x] + SumFunctionOnSet(f, (S \cup {x}) \ {x})
  BY <1>4, <1>5, Zenon DEF SumSplits
<1> QED
  BY <1>1, <1>2, <1>5, <1>6, Zenon DEF SumSplits

\* Of a finite set, some subset that a statement is wrong of has none among its
\* own subsets with one element less.
LEMMA LeastSet ==
  ASSUME NEW S, IsFiniteSet(S), NEW C \in SUBSET (SUBSET S), C # {}
  PROVE  \E m \in C : IsFiniteSet(m) /\ \A x \in m : m \ {x} \notin C
<1> DEFINE T == {n \in Nat : \E t \in C : Cardinality(t) = n}
<1>1. \A t \in SUBSET S : IsFiniteSet(t) /\ Cardinality(t) \in Nat
  BY FS_Subset, FS_CardinalityType
<1>2. T # {}
  BY <1>1
<1>3. PICK k \in T : \A m \in T : k <= m
  BY <1>2, LeastOf
<1>4. PICK t \in C : Cardinality(t) = k
  BY <1>3
<1>5. ASSUME NEW x \in t, t \ {x} \in C PROVE FALSE
  <2>1. Cardinality(t \ {x}) = k - 1
    BY <1>1, <1>4, FS_RemoveElement
  <2>2. k - 1 \in T
    BY <1>1, <1>5, <2>1
  <2> QED
    BY <1>3, <2>2
<1> QED
  BY <1>1, <1>4, <1>5

\* Equal values have equal sums.
LEMMA SumSame ==
  ASSUME NEW f, NEW e, NEW S, IsFiniteSet(S), \A x \in S : f[x] = e[x]
  PROVE  SumFunctionOnSet(f, S) = SumFunctionOnSet(e, S)
<1>1. PICK g : SumsOf(f, S, g) /\ SumFunctionOnSet(f, S) = g[S]
  BY SumIsOne
<1>2. PICK h : SumsOf(e, S, h) /\ SumFunctionOnSet(e, S) = h[S]
  BY SumIsOne
<1>3. S \subseteq S
  OBVIOUS
<1>4. g[S] = h[S]
  BY <1>1, <1>2, <1>3, SumsAgree
<1> QED
  BY <1>1, <1>2, <1>4, Zenon

\* The sum over two sets that have nothing in common.
SumJoins(f, A, B) ==
    SumFunctionOnSet(f, A \cup B) = SumFunctionOnSet(f, A) + SumFunctionOnSet(f, B)

\* It is the sum of both, one element of the second set after the other.
LEMMA SumJoin ==
  ASSUME NEW f, NEW A, NEW B, IsFiniteSet(A), IsFiniteSet(B), A \cap B = {},
         \A x \in A \cup B : f[x] \in Int
  PROVE  SumJoins(f, A, B)
<1> DEFINE C == {t \in SUBSET B : ~SumJoins(f, A, t)}
<1>1. SUFFICES ASSUME C # {} PROVE FALSE
  OBVIOUS
<1>2. PICK m \in C : IsFiniteSet(m) /\ \A x \in m : m \ {x} \notin C
  BY <1>1, LeastSet
<1>3. \A t \in SUBSET (A \cup B) : IsFiniteSet(t) /\ SumFunctionOnSet(f, t) \in Int
  <2> SUFFICES ASSUME NEW t \in SUBSET (A \cup B)
               PROVE  IsFiniteSet(t) /\ SumFunctionOnSet(f, t) \in Int
    OBVIOUS
  <2>1. IsFiniteSet(t)
    BY FS_Union, FS_Subset
  <2>2. SumSplits(f, t)
    BY <2>1, SumIs
  <2> QED
    BY <2>1, <2>2 DEF SumSplits
<1>4. SumFunctionOnSet(f, {}) = 0
  BY FS_EmptySet, SumTakes, Zenon
<1>5. m # {}
  <2>1. A \cup {} = A /\ SumFunctionOnSet(f, A) \in Int
    BY <1>3
  <2>2. SumJoins(f, A, {})
    BY <1>4, <2>1 DEF SumJoins
  <2> QED
    BY <1>2, <2>2
<1>6. PICK x \in m : TRUE
  BY <1>5
<1>7. PICK r : r = m \ {x} /\ r \in SUBSET B /\ r \notin C
  <2>1. m \ {x} \notin C
    BY <1>2
  <2>2. m \ {x} \in SUBSET B
    BY <1>2
  <2> QED
    BY <2>1, <2>2
<1>8. SumJoins(f, A, r)
  BY <1>7
<1>9. SumFunctionOnSet(f, r \cup {x}) = f[x] + SumFunctionOnSet(f, r)
  <2>1. x \notin r /\ IsFiniteSet(r) /\ \A y \in r \cup {x} : f[y] \in Int
    BY <1>2, <1>3, <1>7
  <2> QED
    BY <2>1, SumWith
<1>10. SumFunctionOnSet(f, (A \cup r) \cup {x})
         = f[x] + SumFunctionOnSet(f, A \cup r)
  <2>1. /\ x \notin A \cup r /\ IsFiniteSet(A \cup r)
        /\ \A y \in (A \cup r) \cup {x} : f[y] \in Int
    BY <1>2, <1>3, <1>7
  <2> QED
    BY <2>1, SumWith
<1>11. r \cup {x} = m /\ (A \cup r) \cup {x} = A \cup m
  BY <1>6, <1>7
<1>12. PICK a \in Int, b \in Int, v \in Int :
          /\ a = SumFunctionOnSet(f, A) /\ b = SumFunctionOnSet(f, r) /\ v = f[x]
  BY <1>2, <1>3, <1>7
<1>13. SumFunctionOnSet(f, A \cup r) = a + b
  BY <1>8, <1>12 DEF SumJoins
<1>14. SumFunctionOnSet(f, m) = v + b /\ SumFunctionOnSet(f, A \cup m) = v + (a + b)
  BY <1>9, <1>10, <1>11, <1>12, <1>13
<1>15. SumJoins(f, A, m)
  <2>1. v + (a + b) = a + (v + b)
    OBVIOUS
  <2> QED
    BY <1>12, <1>14, <2>1, Zenon DEF SumJoins
<1> QED
  BY <1>2, <1>15

\* A sum of ones counts.
LEMMA SumOnes ==
  ASSUME NEW f, NEW S, IsFiniteSet(S), \A x \in S : f[x] = 1
  PROVE  SumFunctionOnSet(f, S) = Cardinality(S)
<1> DEFINE Counts(t) == SumFunctionOnSet(f, t) = Cardinality(t)
           C == {t \in SUBSET S : ~Counts(t)}
<1>1. SUFFICES ASSUME C # {} PROVE FALSE
  OBVIOUS
<1>2. PICK m \in C : IsFiniteSet(m) /\ \A x \in m : m \ {x} \notin C
  BY <1>1, LeastSet
<1>3. m # {}
  <2>1. SumFunctionOnSet(f, {}) = 0 /\ Cardinality({}) = 0
    BY FS_EmptySet, SumTakes, Zenon
  <2> QED
    BY <1>2, <2>1
<1>4. PICK x \in m : TRUE
  BY <1>3
<1>5. PICK r : r = m \ {x}
  OBVIOUS
<1>6. /\ r \cup {x} = m /\ x \notin r /\ Counts(r) /\ IsFiniteSet(r)
      /\ \A y \in r \cup {x} : f[y] \in Int
  <2>1. r \cup {x} = m /\ x \notin r /\ Counts(r)
    BY <1>2, <1>4, <1>5
  <2>2. IsFiniteSet(r)
    BY <1>2, <1>5, FS_RemoveElement
  <2>3. \A y \in r \cup {x} : f[y] \in Int
    BY <1>2, <2>1
  <2> QED
    BY <2>1, <2>2, <2>3
<1>7. SumFunctionOnSet(f, r \cup {x}) = f[x] + SumFunctionOnSet(f, r)
  BY <1>6, SumWith
<1>8. Cardinality(r \cup {x}) = Cardinality(r) + 1 /\ Cardinality(r) \in Nat
  BY <1>6, FS_AddElement, FS_CardinalityType
<1>9. f[x] = 1
  BY <1>2
<1>10. Counts(m)
  BY <1>6, <1>7, <1>8, <1>9
<1> QED
  BY <1>2, <1>10

\* The elements of S with a key in Q.
Keyed(S, k, Q) == {x \in S : k[x] \in Q}
Group(S, k, q) == {x \in S : k[x] = q}

\* Summing up groups is summing up.
LEMMA GroupsSum ==
  ASSUME NEW v, NEW S, NEW k, NEW h, NEW K, IsFiniteSet(S), IsFiniteSet(K),
         \A x \in S : k[x] \in K, \A x \in S : v[x] \in Int,
         \A q \in K : h[q] = SumFunctionOnSet(v, Group(S, k, q))
  PROVE  SumFunctionOnSet(h, K) = SumFunctionOnSet(v, S)
<1> DEFINE Adds(Q) == SumFunctionOnSet(h, Q) = SumFunctionOnSet(v, Keyed(S, k, Q))
           C == {Q \in SUBSET K : ~Adds(Q)}
<1>1. Keyed(S, k, K) = S
  BY DEF Keyed
<1>2. SUFFICES ASSUME C # {} PROVE FALSE
  <2> SUFFICES ASSUME C = {} PROVE Adds(K)
    BY <1>1, Zenon
  <2> QED
    OBVIOUS
<1>3. PICK m \in C : IsFiniteSet(m) /\ \A x \in m : m \ {x} \notin C
  BY <1>2, LeastSet
<1>4. m # {}
  <2>1. SumFunctionOnSet(h, {}) = 0 /\ SumFunctionOnSet(v, {}) = 0
    BY FS_EmptySet, SumTakes, Zenon
  <2>2. Keyed(S, k, {}) = {}
    BY DEF Keyed
  <2>3. Adds({})
    BY <2>1, <2>2, Zenon
  <2> QED
    BY <1>3, <2>3
<1>5. PICK q \in m : TRUE
  BY <1>4
<1>6. PICK r : r = m \ {q} /\ r \in SUBSET K /\ r \notin C
  BY <1>3
<1>7. Adds(r)
  BY <1>6
<1>8. \A t \in SUBSET S : IsFiniteSet(t) /\ SumFunctionOnSet(v, t) \in Int
  <2> SUFFICES ASSUME NEW t \in SUBSET S
               PROVE  IsFiniteSet(t) /\ SumFunctionOnSet(v, t) \in Int
    OBVIOUS
  <2>1. IsFiniteSet(t)
    BY FS_Subset
  <2>2. SumSplits(v, t)
    BY <2>1, SumIs
  <2> QED
    BY <2>1, <2>2 DEF SumSplits
<1>9. \A p \in K : h[p] \in Int
  <2>1. \A p \in K : Group(S, k, p) \in SUBSET S
    BY DEF Group
  <2> QED
    BY <1>8, <2>1
<1>10. SumFunctionOnSet(h, m) = h[q] + SumFunctionOnSet(h, r)
  <2>1. /\ q \notin r /\ IsFiniteSet(r) /\ r \cup {q} = m
        /\ \A y \in r \cup {q} : h[y] \in Int
    <3>1. IsFiniteSet(r)
      BY <1>3, <1>6, FS_RemoveElement
    <3>2. q \notin r /\ r \cup {q} = m
      BY <1>5, <1>6
    <3>3. \A y \in m : h[y] \in Int
      BY <1>3, <1>9
    <3> QED
      BY <3>1, <3>2, <3>3, Zenon
  <2> QED
    BY <2>1, SumWith
<1>11. PICK A, B : A = Keyed(S, k, r) /\ B = Group(S, k, q)
  OBVIOUS
<1>12. /\ A \cup B = Keyed(S, k, m) /\ A \cap B = {}
       /\ A \in SUBSET S /\ B \in SUBSET S
  BY <1>5, <1>6, <1>11 DEF Keyed, Group
<1>13. SumJoins(v, A, B)
  <2>1. IsFiniteSet(A) /\ IsFiniteSet(B) /\ \A x \in A \cup B : v[x] \in Int
    BY <1>8, <1>12
  <2> QED
    BY <1>12, <2>1, SumJoin
<1>14. PICK a \in Int, b \in Int :
          a = SumFunctionOnSet(v, A) /\ b = SumFunctionOnSet(v, B)
  BY <1>8, <1>12
<1>15. SumFunctionOnSet(v, Keyed(S, k, m)) = a + b
  BY <1>12, <1>13, <1>14, Zenon DEF SumJoins
<1>16. h[q] = b /\ SumFunctionOnSet(h, r) = a
  BY <1>3, <1>5, <1>7, <1>11, <1>14
<1>17. Adds(m)
  <2>1. b + a = a + b
    OBVIOUS
  <2> QED
    BY <1>10, <1>15, <1>16, <2>1, Zenon
<1> QED
  BY <1>3, <1>17

\* The place of a day among days, the latest first, and the day at a place.
Place(D, d) == Cardinality({x \in D : x >= d})
DayAt(D, i) == CHOOSE d \in D : Cardinality({x \in D : x >= d}) = i

\* Every day has a place of its own, and every place has a day.
LEMMA PlaceIs ==
  ASSUME NEW D \in SUBSET Int, IsFiniteSet(D)
  PROVE  /\ Cardinality(D) \in Nat
         /\ \A d \in D : Place(D, d) \in 1..Cardinality(D)
         /\ \A d, e \in D : Place(D, d) = Place(D, e) => d = e
         /\ \A i \in 1..Cardinality(D) :
               DayAt(D, i) \in D /\ Place(D, DayAt(D, i)) = i
<1> DEFINE From(d) == {x \in D : x >= d}
<1>1. PICK n \in Nat : n = Cardinality(D)
  BY FS_CardinalityType
<1>2. \A d \in D : /\ IsFiniteSet(From(d)) /\ Cardinality(From(d)) \in Nat
                   /\ Cardinality(From(d)) <= n /\ Cardinality(From(d)) # 0
  <2> SUFFICES ASSUME NEW d \in D
               PROVE  /\ IsFiniteSet(From(d)) /\ Cardinality(From(d)) \in Nat
                      /\ Cardinality(From(d)) <= n /\ Cardinality(From(d)) # 0
    OBVIOUS
  <2>1. From(d) \in SUBSET D /\ d \in From(d)
    OBVIOUS
  <2>2. IsFiniteSet(From(d)) /\ Cardinality(From(d)) <= n
    BY <1>1, <2>1, FS_Subset
  <2>3. Cardinality(From(d)) \in Nat /\ Cardinality(From(d)) # 0
    BY <2>1, <2>2, FS_CardinalityType, FS_EmptySet
  <2> QED
    BY <2>2, <2>3
<1>3. \A d \in D : Place(D, d) \in 1..n
  <2>1. \A d \in D : Place(D, d) = Cardinality(From(d))
    BY DEF Place
  <2> HIDE DEF From
  <2> QED
    BY <1>2, <2>1
<1>4. ASSUME NEW d \in D, NEW e \in D, d < e PROVE Place(D, d) # Place(D, e)
  <2>1. d \in Int /\ e \in Int /\ \A x \in D : x \in Int
    OBVIOUS
  <2>4. From(e) \in SUBSET From(d)
    <3>1. \A x \in D : x >= e => x >= d
      BY <1>4, <2>1
    <3> QED
      BY <3>1
  <2>5. d \in From(d) /\ d \notin From(e)
    BY <1>4, <2>1
  <2>2. IsFiniteSet(From(d))
    BY <1>2
  <2>3. Cardinality(From(d)) # Cardinality(From(e))
    BY <2>2, <2>4, <2>5, FS_Subset
  <2> QED
    BY <2>3 DEF Place
<1>5. \A d, e \in D : Place(D, d) = Place(D, e) => d = e
  <2>1. \A d, e \in D : d < e \/ e < d \/ d = e
    OBVIOUS
  <2> QED
    BY <1>4, <2>1
<1> DEFINE at == [d \in D |-> Place(D, d)]
<1>6. at \in Injection(D, 1..n)
  <2>1. at \in [D -> 1..n]
    BY <1>3
  <2>2. \A d, e \in D : at[d] = at[e] => d = e
    BY <1>5
  <2> HIDE DEF at
  <2> QED
    BY <2>1, <2>2, Zenon DEF Injection, IsInjective
<1>7. at \in Surjection(D, 1..n)
  <2>1. IsFiniteSet(1..n) /\ Cardinality(1..n) = n
    BY FS_Interval
  <2> HIDE DEF at
  <2> QED
    BY <1>1, <1>6, <2>1, FS_Injection
<1>8. ASSUME NEW i \in 1..n PROVE DayAt(D, i) \in D /\ Place(D, DayAt(D, i)) = i
  <2>1. \E d \in D : at[d] = i
    <3> HIDE DEF at
    <3> QED
      BY <1>7, Zenon DEF Surjection
  <2>2. \E d \in D : Cardinality({x \in D : x >= d}) = i
    BY <2>1 DEF Place
  <2> QED
    BY <2>2, Zenon DEF DayAt, Place
<1> QED
  BY <1>1, <1>3, <1>5, <1>8

\* The rows of a query are those of groups of its records.
Rowed(S, val, rows) ==
    /\ IsFiniteSet(DOMAIN rows)
    /\ \E k : /\ \A x \in S : k[x] \in DOMAIN rows
              /\ \A i \in DOMAIN rows :
                    /\ rows[i].count = Cardinality(Group(S, k, i))
                    /\ rows[i].mean[1] = SumFunctionOnSet(val, Group(S, k, i))

\* Grouping by day makes such rows, as many as there are days.
LEMMA ByDayIs ==
  ASSUME NEW S, IsFiniteSet(S), \A x \in S : x.at \in Nat, NEW val
  PROVE  /\ Rowed(S, val, ByDay(S, val))
         /\ \E n \in Nat : DOMAIN ByDay(S, val) = 1..n
         /\ \E r : ByDay(S, val) = [i \in DOMAIN ByDay(S, val) |-> r[i]]
<1> DEFINE days == {Day(x) : x \in S}
           row(d) == [day |-> d, count |-> Cardinality({x \in S : Day(x) = d}),
                      mean |-> Mean(SumFunctionOnSet(val, {x \in S : Day(x) = d}),
                                    Cardinality({x \in S : Day(x) = d}))]
<1>1. days \in SUBSET Int
  BY DEF Day
<1>2. IsFiniteSet(days)
  <2> DEFINE f == [x \in S |-> Day(x)]
  <2>1. f \in [S -> days] /\ \A d \in days : \E x \in S : f[x] = d
    OBVIOUS
  <2> HIDE DEF f, days
  <2>2. f \in Surjection(S, days)
    BY <2>1, Zenon DEF Surjection
  <2> QED
    BY <2>2, FS_Surjection
<1>3. PICK n \in Nat : n = Cardinality(days)
  BY <1>2, FS_CardinalityType
<1>4. PICK D : D = days
  OBVIOUS
<1>5. PICK rows : rows = [i \in 1..n |-> row(DayAt(D, i))]
  OBVIOUS
<1>6. ByDay(S, val) = rows
  BY <1>3, <1>4, <1>5, Zenon DEF ByDay, DayAt
<1>7. /\ \A d \in D : Place(D, d) \in 1..n
      /\ \A d, e \in D : Place(D, d) = Place(D, e) => d = e
      /\ \A i \in 1..n : DayAt(D, i) \in D /\ Place(D, DayAt(D, i)) = i
  <2>1. D \in SUBSET Int /\ IsFiniteSet(D)
    <3> HIDE DEF days
    <3> QED
      BY <1>1, <1>2, <1>4, Zenon
  <2>2. n = Cardinality(D)
    BY <1>3, <1>4, Zenon
  <2> HIDE DEF days, row
  <2> QED
    BY <2>1, <2>2, PlaceIs
<1>8. DOMAIN rows = 1..n /\ IsFiniteSet(DOMAIN rows)
  BY <1>5, FS_Interval
<1>9. PICK k : k = [x \in S |-> Place(D, Day(x))]
  OBVIOUS
<1>10. \A x \in S : Day(x) \in D /\ k[x] = Place(D, Day(x)) /\ k[x] \in 1..n
  BY <1>4, <1>7, <1>9
<1>11. ASSUME NEW i \in 1..n
       PROVE  /\ rows[i].count = Cardinality(Group(S, k, i))
              /\ rows[i].mean[1] = SumFunctionOnSet(val, Group(S, k, i))
  <2>1. PICK d \in D : d = DayAt(D, i) /\ Place(D, d) = i
    BY <1>7
  <2>2. {x \in S : Day(x) = d} = Group(S, k, i)
    <3>1. \A x \in S : Day(x) = d <=> k[x] = i
      BY <1>7, <1>10, <2>1, Zenon
    <3> QED
      BY <3>1, Zenon DEF Group
  <2>3. PICK c, s : /\ c = Cardinality(Group(S, k, i))
                    /\ s = SumFunctionOnSet(val, Group(S, k, i))
    OBVIOUS
  <2>4. rows[i] = [day |-> d, count |-> c, mean |-> Mean(s, c)]
    BY <1>5, <2>1, <2>2, <2>3
  <2>5. Mean(s, c)[1] = s
    BY DEF Mean
  <2> QED
    BY <2>3, <2>4, <2>5
<1>12. Rowed(S, val, rows)
  BY <1>8, <1>10, <1>11, Zenon DEF Rowed
<1>13. rows = [i \in 1..n |-> rows[i]]
  BY <1>5
<1> HIDE DEF days, row
<1> QED
  BY <1>6, <1>8, <1>12, <1>13, Zenon

\* What the rows count, and what they add up to.
LEMMA RowsAddUp ==
  ASSUME NEW S, IsFiniteSet(S), NEW val, NEW rows, Rowed(S, val, rows)
  PROVE  /\ SumFunction([i \in DOMAIN rows |-> rows[i].count]) = Cardinality(S)
         /\ (\A x \in S : val[x] \in Int) =>
               SumFunction([i \in DOMAIN rows |-> rows[i].mean[1]])
                 = SumFunctionOnSet(val, S)
<1>1. PICK K : K = DOMAIN rows
  OBVIOUS
<1>2. PICK k : /\ \A x \in S : k[x] \in K
               /\ \A i \in K :
                    /\ rows[i].count = Cardinality(Group(S, k, i))
                    /\ rows[i].mean[1] = SumFunctionOnSet(val, Group(S, k, i))
  BY <1>1, Zenon DEF Rowed
<1>3. IsFiniteSet(K)
  BY <1>1 DEF Rowed
<1>4. \A i \in K : Group(S, k, i) \subseteq S /\ IsFiniteSet(Group(S, k, i))
  <2>1. \A i \in K : Group(S, k, i) \subseteq S
    BY DEF Group
  <2> QED
    BY <2>1, FS_Subset
<1>5. SumFunction([i \in K |-> rows[i].count]) = Cardinality(S)
  <2>1. PICK v : v = [x \in S |-> 1]
    OBVIOUS
  <2>2. PICK h : h = [i \in K |-> rows[i].count]
    OBVIOUS
  <2>3. \A x \in S : v[x] = 1 /\ v[x] \in Int
    BY <2>1
  <2>4. \A i \in K : h[i] = SumFunctionOnSet(v, Group(S, k, i))
    <3> SUFFICES ASSUME NEW i \in K
                 PROVE  h[i] = SumFunctionOnSet(v, Group(S, k, i))
      OBVIOUS
    <3>1. \A x \in Group(S, k, i) : v[x] = 1
      BY <1>4, <2>3
    <3>2. SumFunctionOnSet(v, Group(S, k, i)) = Cardinality(Group(S, k, i))
      BY <1>4, <3>1, SumOnes
    <3> QED
      BY <1>2, <2>2, <3>2
  <2>5. SumFunctionOnSet(h, K) = SumFunctionOnSet(v, S)
    BY <1>2, <1>3, <2>3, <2>4, GroupsSum
  <2>6. SumFunctionOnSet(v, S) = Cardinality(S)
    BY <2>3, SumOnes
  <2>7. SumFunction(h) = SumFunctionOnSet(h, K)
    BY <2>2 DEF SumFunction
  <2> QED
    BY <2>2, <2>5, <2>6, <2>7
<1>6. ASSUME \A x \in S : val[x] \in Int
      PROVE  SumFunction([i \in K |-> rows[i].mean[1]]) = SumFunctionOnSet(val, S)
  <2>1. PICK h : h = [i \in K |-> rows[i].mean[1]]
    OBVIOUS
  <2>2. \A i \in K : h[i] = SumFunctionOnSet(val, Group(S, k, i))
    BY <1>2, <2>1
  <2>3. SumFunctionOnSet(h, K) = SumFunctionOnSet(val, S)
    BY <1>2, <1>3, <1>6, <2>2, GroupsSum
  <2>4. SumFunction(h) = SumFunctionOnSet(h, K)
    BY <2>1 DEF SumFunction
  <2> QED
    BY <2>1, <2>3, <2>4
<1> QED
  BY <1>1, <1>5, <1>6, Zenon

\* A slice without a category and a severity, and one of the past 30 days.
Plain(g) == [g EXCEPT !.category = {}, !.severity = {}]
OfMonth(f) == [f EXCEPT !.site = {}, !.dept = {}, !.from = {Recent \div 2}, !.to = {}]

\* What is left of a slice.
LEMMA PlainIs ==
  ASSUME NEW g \in Slice
  PROVE  /\ Plain(g).category = {} /\ Plain(g).severity = {}
         /\ OfMonth(Plain(g)).category = {} /\ OfMonth(Plain(g)).severity = {}
         /\ OfMonth(Plain(g)).site = {} /\ OfMonth(Plain(g)).dept = {}
         /\ OfMonth(Plain(g)).from = {Recent \div 2} /\ OfMonth(Plain(g)).to = {}
<1>1. DOMAIN g = {"site", "dept", "category", "severity", "from", "to"}
  BY DEF Slice
<1>2. PICK p : p = Plain(g)
  OBVIOUS
<1>3. /\ DOMAIN p = {"site", "dept", "category", "severity", "from", "to"}
      /\ p.category = {} /\ p.severity = {}
  BY <1>1, <1>2, Zenon DEF Plain
<1>4. PICK n : n = Recent \div 2
  OBVIOUS
<1>5. OfMonth(p) = [p EXCEPT !.site = {}, !.dept = {}, !.from = {n}, !.to = {}]
  BY <1>4, Zenon DEF OfMonth
<1>6. PICK q : q = OfMonth(p)
  OBVIOUS
<1>7. /\ q.category = {} /\ q.severity = {} /\ q.site = {} /\ q.dept = {}
      /\ q.from = {n} /\ q.to = {}
  BY <1>3, <1>5, <1>6, Zenon
<1> QED
  BY <1>2, <1>3, <1>4, <1>6, <1>7, Zenon

\* The events of a slice that the cycle times, the anomalies and the funnel
\* are about.
Chosen(events, f) == {e \in events : EventIn(f, e)}
Closed(events, f) == {e \in Chosen(events, f) : Resolved(e)}
Open(events, f) == {e \in Chosen(events, f) : ~Resolved(e)}

\* Every event of a slice is closed or open.
LEMMA ClosedOrOpen ==
  ASSUME NEW events, IsFiniteSet(events), NEW f
  PROVE  /\ IsFiniteSet(Chosen(events, f))
         /\ IsFiniteSet(Closed(events, f)) /\ IsFiniteSet(Open(events, f))
         /\ Cardinality(Chosen(events, f)) \in Nat
         /\ Cardinality(Closed(events, f)) \in Nat
         /\ Cardinality(Open(events, f)) \in Nat
         /\ Cardinality(Closed(events, f)) + Cardinality(Open(events, f))
              = Cardinality(Chosen(events, f))
<1>1. PICK A, B, C : /\ A = Closed(events, f) /\ B = Open(events, f)
                     /\ C = Chosen(events, f)
  OBVIOUS
<1>2. A \cup B = C /\ A \cap B = {} /\ C \subseteq events
  BY <1>1 DEF Closed, Open, Chosen
<1>3. IsFiniteSet(A) /\ IsFiniteSet(B) /\ IsFiniteSet(C)
  BY <1>2, FS_Subset
<1>4. /\ Cardinality(A) \in Nat /\ Cardinality(B) \in Nat /\ Cardinality(C) \in Nat
      /\ Cardinality({}) = 0
  BY <1>3, FS_CardinalityType, FS_EmptySet
<1>5. Cardinality(A \cup B)
        = Cardinality(A) + Cardinality(B) - Cardinality(A \cap B)
  <2>1. \A S, T : IsFiniteSet(S) /\ IsFiniteSet(T) =>
           Cardinality(S \cup T)
             = Cardinality(S) + Cardinality(T) - Cardinality(S \cap T)
    BY FS_Union, Zenon
  <2> QED
    BY <1>3, <2>1, Zenon
<1>6. Cardinality(C) = Cardinality(A) + Cardinality(B)
  <2>1. Cardinality(C) = Cardinality(A) + Cardinality(B) - 0
    BY <1>2, <1>4, <1>5, Zenon
  <2> QED
    BY <1>4, <2>1
<1> QED
  BY <1>1, <1>3, <1>4, <1>6

\* What rows count.
Counted(rows) == SumFunction([i \in DOMAIN rows |-> rows[i].count])

\* The cycle times count the closed events, the anomalies the open ones.
LEMMA QueriesCount ==
  ASSUME NEW events \in SUBSET Event, IsFiniteSet(events), NEW f
  PROVE  /\ Counted(CycleTime(events, f)) = Cardinality(Closed(events, f))
         /\ Counted(Anomalies(events, f)) = Cardinality(Open(events, f))
<1>1. /\ IsFiniteSet(Closed(events, f)) /\ IsFiniteSet(Open(events, f))
  BY ClosedOrOpen
<1>2. \A e \in events : e.at \in Nat
  BY DEF Event
<1>3. ASSUME NEW S \in SUBSET events, NEW val, IsFiniteSet(S)
      PROVE  Counted(ByDay(S, val)) = Cardinality(S)
  <2>1. Rowed(S, val, ByDay(S, val))
    BY <1>2, <1>3, ByDayIs
  <2> QED
    BY <1>3, <2>1, RowsAddUp, Zenon DEF Counted
<1>4. PICK A, B : A = Closed(events, f) /\ B = Open(events, f)
  OBVIOUS
<1>5. /\ A = {e \in events : Resolved(e) /\ EventIn(f, e)}
      /\ B = {e \in events : ~Resolved(e) /\ EventIn(f, e)}
  BY <1>4 DEF Closed, Open, Chosen
<1>6. A \in SUBSET events /\ B \in SUBSET events
  BY <1>5
<1>7. Counted(CycleTime(events, f)) = Cardinality(A)
  <2>1. CycleTime(events, f) = ByDay(A, [e \in A |-> e.hours])
    BY <1>5, Zenon DEF CycleTime
  <2> QED
    BY <1>1, <1>3, <1>4, <1>6, <2>1, Zenon
<1>8. Counted(Anomalies(events, f)) = Cardinality(B)
  <2>1. Anomalies(events, f) = ByDay(B, [e \in B |-> 0])
    BY <1>5, Zenon DEF Anomalies
  <2> QED
    BY <1>1, <1>3, <1>4, <1>6, <2>1, Zenon
<1> QED
  BY <1>4, <1>7, <1>8

\* The funnel counts the events of the slice, and those of them that are
\* acknowledged and that are closed.
LEMMA FunnelCounts ==
  ASSUME NEW events, NEW f, f.category = {}, f.severity = {}
  PROVE  Funnel(events, f) =
           [fired    |-> Cardinality(Chosen(events, f)),
            acked    |-> Cardinality({e \in Chosen(events, f) : e.acked}),
            resolved |-> Cardinality(Closed(events, f))]
<1>1. PICK C : C = Chosen(events, f)
  OBVIOUS
<1>2. \A e \in events :
         EventIn(f, e) <=> /\ InDays(f, e)
                           /\ Passes(Rule[e.rule].severity, f.severity)
                           /\ InDefinition(f, Rule[e.rule].def)
  BY Zenon DEF EventIn, Passes
<1>3. C = {e \in events : /\ InDays(f, e)
                          /\ Passes(Rule[e.rule].severity, f.severity)
                          /\ InDefinition(f, Rule[e.rule].def)}
  BY <1>1, <1>2, Zenon DEF Chosen
<1>4. Funnel(events, f) = [fired    |-> Cardinality(C),
                           acked    |-> Cardinality({e \in C : e.acked}),
                           resolved |-> Cardinality({e \in C : Resolved(e)})]
  BY <1>3, Zenon DEF Funnel
<1> QED
  BY <1>1, <1>4, Zenon DEF Closed

\* The summary is the funnel of the past 30 days, if they begin with a day.
LEMMA SummaryIsFunnel ==
  ASSUME NEW events \in SUBSET Event, IsFiniteSet(events), NEW m,
         m.category = {}, m.severity = {}, m.site = {}, m.dept = {},
         m.from = {Recent \div 2}, m.to = {}, Recent \in Nat, Recent % 2 = 0
  PROVE  Funnel(events, m) =
           [fired |-> Summary(events).total, acked |-> Summary(events).acked,
            resolved |-> Summary(events).total - Summary(events).anomalies]
<1>1. 2 * (Recent \div 2) = Recent
  OBVIOUS
<1>2. \A e \in events : EventIn(m, e) <=> e.at >= Recent
  BY <1>1, Zenon DEF EventIn, InDefinition, InDays, Passes
<1>3. PICK C : C = Chosen(events, m)
  OBVIOUS
<1>4. C = {e \in events : e.at >= Recent}
  BY <1>2, <1>3, Zenon DEF Chosen
<1>5. PICK t, a, o, r : /\ t = Cardinality(C) /\ a = Cardinality({e \in C : e.acked})
                        /\ o = Cardinality(Open(events, m))
                        /\ r = Cardinality(Closed(events, m))
  OBVIOUS
<1>6. /\ Summary(events).total = t /\ Summary(events).acked = a
      /\ Summary(events).anomalies = o
  <2>1. PICK c : Summary(events) =
          [total |-> t, acked |-> a, anomalies |-> o, cycle |-> c]
    BY <1>3, <1>4, <1>5, Zenon DEF Summary, Open
  <2> QED
    BY <2>1
<1>7. r = t - o
  <2>1. r \in Nat /\ o \in Nat /\ t \in Nat /\ r + o = t
    BY <1>3, <1>5, ClosedOrOpen, Zenon
  <2> QED
    BY <2>1
<1>8. Funnel(events, m) = [fired |-> t, acked |-> a, resolved |-> r]
  BY <1>3, <1>5, FunnelCounts, Zenon
<1> QED
  BY <1>6, <1>7, <1>8, Zenon

\* The results of a definition, and the row of the drill-down for it.
ResultsOf(in, d) ==
    SumFunction([c \in {c \in in : c.def = d} |-> c.result])
DrillRow(in, d) ==
    [def |-> d, mean |-> Mean(ResultsOf(in, d), Cardinality({c \in in : c.def = d}))]
MeasuredIn(comps, f) == {c \in comps : ComputationIn(f, c)}

\* What rows add up to.
Results(rows) == SumFunction([i \in DOMAIN rows |-> rows[i].mean[1]])

\* The efficiency by day and the drill-down by definition add up to the same.
LEMMA DrillAddsUp ==
  ASSUME NEW comps \in SUBSET Computation, IsFiniteSet(comps), NEW f
  PROVE  Results(Efficiency(comps, f))
           = SumFunction([row \in Drill(comps, f) |-> row.mean[1]])
<1>1. PICK in : in = MeasuredIn(comps, f)
  OBVIOUS
<1>2. in = {c \in comps : ComputationIn(f, c)} /\ in \in SUBSET comps
  BY <1>1 DEF MeasuredIn
<1>3. IsFiniteSet(in) /\ \A c \in in : c.at \in Nat /\ c.result \in Int
  <2>1. \A c \in comps : c.at \in Nat /\ c.result \in Int
    BY DEF Computation
  <2> QED
    BY <1>2, <2>1, FS_Subset
<1>4. PICK v : v = [c \in in |-> c.result]
  OBVIOUS
<1>5. \A c \in in : v[c] = c.result /\ v[c] \in Int
  BY <1>3, <1>4
<1>6. Results(Efficiency(comps, f)) = SumFunctionOnSet(v, in)
  <2>1. Efficiency(comps, f) = ByDay(in, v)
    BY <1>2, <1>4, Zenon DEF Efficiency
  <2>2. Rowed(in, v, ByDay(in, v))
    BY <1>3, ByDayIs
  <2>3. Results(ByDay(in, v)) = SumFunctionOnSet(v, in)
    BY <1>3, <1>5, <2>2, RowsAddUp, Zenon DEF Results
  <2> QED
    BY <2>1, <2>3
<1>7. PICK K : K = Drill(comps, f)
  OBVIOUS
<1>8. K = {DrillRow(in, d) : d \in {c.def : c \in in}}
  BY <1>2, <1>7, Zenon DEF Drill, DrillRow, ResultsOf
<1>9. PICK k : k = [c \in in |-> DrillRow(in, c.def)]
  OBVIOUS
<1>10. (\A c \in in : k[c] \in K) /\ \A q \in K : \E c \in in : k[c] = q
  <2>1. \A c \in in : k[c] = DrillRow(in, c.def)
    BY <1>9
  <2>2. \A q \in K : \E c \in in : q = DrillRow(in, c.def)
    BY <1>8, Zenon
  <2>3. \A c \in in : DrillRow(in, c.def) \in K
    BY <1>8, Zenon
  <2> QED
    BY <2>1, <2>2, <2>3, Zenon
<1>11. IsFiniteSet(K)
  <2>1. k \in [in -> K]
    BY <1>9, <1>10
  <2>2. k \in Surjection(in, K)
    BY <1>10, <2>1, Zenon DEF Surjection
  <2> QED
    BY <1>3, <2>2, FS_Surjection
<1>12. PICK h : h = [row \in K |-> row.mean[1]]
  OBVIOUS
<1>13. \A q \in K : h[q] = SumFunctionOnSet(v, Group(in, k, q))
  <2> SUFFICES ASSUME NEW q \in K
               PROVE  h[q] = SumFunctionOnSet(v, Group(in, k, q))
    OBVIOUS
  <2>1. PICK x \in in : q = DrillRow(in, x.def)
    BY <1>8, Zenon
  <2>2. PICK d : d = x.def
    OBVIOUS
  <2>3. PICK of : of = {c \in in : c.def = d}
    OBVIOUS
  <2>4. \A c \in in : DrillRow(in, c.def) = DrillRow(in, d) <=> c.def = d
    <3>1. \A y : DrillRow(in, y).def = y
      BY DEF DrillRow
    <3> QED
      BY <3>1, Zenon
  <2>5. \A c \in in : k[c] = q <=> c.def = d
    <3>1. \A c \in in : k[c] = DrillRow(in, c.def)
      BY <1>9
    <3> QED
      BY <2>1, <2>2, <2>4, <3>1, Zenon
  <2>6. of = Group(in, k, q)
    BY <2>3, <2>5, Zenon DEF Group
  <2>7. PICK g : g = [c \in of |-> c.result]
    OBVIOUS
  <2>8. of \in SUBSET in /\ IsFiniteSet(of)
    BY <1>3, <2>3, FS_Subset
  <2>9. SumFunctionOnSet(g, of) = SumFunctionOnSet(v, of)
    <3>1. \A c \in of : g[c] = v[c]
      BY <1>5, <2>7, <2>8
    <3> QED
      BY <2>8, <3>1, SumSame
  <2>10. ResultsOf(in, d) = SumFunctionOnSet(g, of)
    <3>1. DOMAIN g = of
      BY <2>7
    <3> QED
      BY <2>3, <2>7, <3>1, Zenon DEF ResultsOf, SumFunction
  <2>11. q.mean[1] = ResultsOf(in, d)
    BY <2>1, <2>2 DEF DrillRow, Mean
  <2>12. h[q] = q.mean[1]
    BY <1>12
  <2> QED
    BY <2>6, <2>9, <2>10, <2>11, <2>12
<1>14. SumFunctionOnSet(h, K) = SumFunctionOnSet(v, in)
  BY <1>3, <1>5, <1>10, <1>11, <1>13, GroupsSum
<1>15. SumFunction(h) = SumFunctionOnSet(h, K)
  BY <1>12 DEF SumFunction
<1> QED
  BY <1>6, <1>7, <1>12, <1>14, <1>15

\* Whatever the tables hold and the slice is, the queries agree.
LEMMA TablesAgree ==
  ASSUME asked.about = "kpi",
         asked.events \in SUBSET Event, IsFiniteSet(asked.events),
         asked.comps \in SUBSET Computation, IsFiniteSet(asked.comps),
         asked.f \in Slice, Recent \in Nat
  PROVE  QueriesAgree
<1>1. PICK h, c, g : h = asked.events /\ c = asked.comps /\ g = asked.f
  OBVIOUS
<1>2. /\ h \in SUBSET Event /\ IsFiniteSet(h)
      /\ c \in SUBSET Computation /\ IsFiniteSet(c) /\ g \in Slice
  BY <1>1
<1>3. PICK f, m : f = Plain(g) /\ m = OfMonth(f)
  OBVIOUS
<1>4. /\ f.category = {} /\ f.severity = {} /\ m.category = {} /\ m.severity = {}
      /\ m.site = {} /\ m.dept = {} /\ m.from = {Recent \div 2} /\ m.to = {}
  BY <1>2, <1>3, PlainIs, Zenon
<1>5. PICK r, o, t : /\ r = Cardinality(Closed(h, f)) /\ o = Cardinality(Open(h, f))
                     /\ t = Cardinality(Chosen(h, f))
  OBVIOUS
<1>6. r + o = t
  BY <1>2, <1>5, ClosedOrOpen, Zenon
<1>7. Counted(CycleTime(h, f)) = r /\ Counted(Anomalies(h, f)) = o
  BY <1>2, <1>5, QueriesCount, Zenon
<1>8. Funnel(h, f).resolved = r /\ Funnel(h, f).fired = t
  <2>1. PICK a : Funnel(h, f) = [fired |-> t, acked |-> a, resolved |-> r]
    BY <1>4, <1>5, FunnelCounts, Zenon
  <2> QED
    BY <2>1
<1>9. Recent % 2 = 0 =>
        Funnel(h, m) =
          [fired |-> Summary(h).total, acked |-> Summary(h).acked,
           resolved |-> Summary(h).total - Summary(h).anomalies]
  BY <1>2, <1>4, SummaryIsFunnel, Zenon
<1>10. Results(Efficiency(c, g))
         = SumFunction([row \in Drill(c, g) |-> row.mean[1]])
  BY <1>2, DrillAddsUp, Zenon
<1>11. Counted(CycleTime(h, f)) + Counted(Anomalies(h, f)) = t
  BY <1>6, <1>7, Zenon
<1> QED
  BY <1>1, <1>3, <1>7, <1>8, <1>9, <1>10, <1>11, Zenon
  DEF QueriesAgree, Plain, OfMonth, Counted, Results

\* Where page p ends.
EndOf(p, size, n) == Min({p * size, n})

\* The pages are next to each other: each begins where the one before it ends,
\* and there are not more of them than rows.
LEMMA PagesMeet ==
  ASSUME NEW n \in Nat, NEW size \in Nat \ {0}, NEW p \in Nat \ {0}
  PROVE  /\ EndOf(p - 1, size, n) \in 0..n
         /\ EndOf(p, size, n) \in EndOf(p - 1, size, n)..n
         /\ (p - 1) * size \in Nat
         /\ (p - 1) * size # EndOf(p - 1, size, n) =>
               n < (p - 1) * size /\ EndOf(p - 1, size, n) = n
                 /\ EndOf(p, size, n) = n
         /\ p > n => EndOf(p, size, n) = n
         /\ p = 1 => (p - 1) * size = 0
<1>1. PICK q \in Nat : q = p - 1
  OBVIOUS
<1>2. PICK x \in Nat : x = q * size
  OBVIOUS
<1>3. p * size = x + size /\ size \in Nat /\ size >= 1
  <2>1. p = q + 1
    BY <1>1
  <2>2. (q + 1) * size = q * size + size
    OBVIOUS
  <2> QED
    BY <1>2, <2>1, <2>2
<1>4. PICK y \in Nat : y = x + size
  BY <1>3
<1>5. EndOf(p - 1, size, n) = Min({x, n}) /\ EndOf(p, size, n) = Min({y, n})
  BY <1>1, <1>2, <1>3, <1>4, Zenon DEF EndOf
<1>6. \A a, b \in Nat : Min({a, b}) = IF a <= b THEN a ELSE b
  <2> SUFFICES ASSUME NEW a \in Nat, NEW b \in Nat
               PROVE  Min({a, b}) = IF a <= b THEN a ELSE b
    OBVIOUS
  <2>1. Min({a, b}) \in {a, b} /\ \A z \in {a, b} : Min({a, b}) <= z
    BY MinIs
  <2> QED
    BY <2>1
<1>7. q <= x
  <2>1. size - 1 \in Nat
    OBVIOUS
  <2>2. q * size = q * (size - 1) + q /\ q * (size - 1) >= 0
    BY <2>1
  <2>3. PICK z \in Int : z = q * (size - 1)
    OBVIOUS
  <2> QED
    BY <1>2, <2>2, <2>3
<1>8. p > n => y >= n
  BY <1>1, <1>3, <1>4, <1>7
<1>9. PICK a, b : a = Min({x, n}) /\ b = Min({y, n})
  OBVIOUS
<1>10. /\ a = IF x <= n THEN x ELSE n
       /\ b = IF y <= n THEN y ELSE n
  BY <1>6, <1>9
<1>11. /\ a \in 0..n /\ b \in a..n
       /\ x # a => n < x /\ a = n /\ b = n
       /\ p > n => b = n
       /\ p = 1 => x = 0
  <2>1. p = 1 => x = 0
    BY <1>1, <1>2
  <2> QED
    BY <1>3, <1>4, <1>8, <1>10, <2>1
<1> QED
  BY <1>1, <1>2, <1>5, <1>9, <1>11

\* The rows of the first p pages.
UpToPage(rows, p, size) == SubSeq(rows, 1, EndOf(p, size, Len(rows)))

\* A page follows the pages before it, and the last one completes the rows.
LEMMA PageFollows ==
  ASSUME NEW R, NEW rows \in Seq(R), NEW size \in Nat \ {0}
  PROVE  /\ \A p \in Nat \ {0} :
               UpToPage(rows, p, size)
                 = UpToPage(rows, p - 1, size) \o Page(rows, p, size)
         /\ UpToPage(rows, 1, size) = Page(rows, 1, size)
         /\ UpToPage(rows, Len(rows) + 1, size) = rows
         /\ Page(rows, 0, size) = Page(rows, 1, size)
<1>1. PICK n \in Nat : n = Len(rows)
  BY LenProperties
<1>2. \A p \in Nat \ {0} :
         Page(rows, p, size)
           = SubSeq(rows, (p - 1) * size + 1, EndOf(p, size, n))
  <2> SUFFICES ASSUME NEW p \in Nat \ {0}
               PROVE  Page(rows, p, size)
                        = SubSeq(rows, (p - 1) * size + 1, EndOf(p, size, n))
    OBVIOUS
  <2>1. Max({p, 1}) = p
    <3>1. {p, 1} \in SUBSET (0..p) /\ {p, 1} # {}
      OBVIOUS
    <3>2. /\ Max({p, 1}) \in {p, 1} /\ \A z \in {p, 1} : z <= Max({p, 1})
      BY <3>1, MaxIs
    <3> QED
      BY <3>2
  <2> QED
    BY <1>1, <2>1, Zenon DEF Page, EndOf
<1>3. ASSUME NEW p \in Nat \ {0}
      PROVE  UpToPage(rows, p, size)
               = UpToPage(rows, p - 1, size) \o Page(rows, p, size)
  <2>1. PICK a, b, x : /\ a = EndOf(p - 1, size, n) /\ b = EndOf(p, size, n)
                       /\ x = (p - 1) * size
    OBVIOUS
  <2>2. /\ a \in 0..n /\ b \in a..n /\ x \in Nat
        /\ x # a => n < x /\ a = n /\ b = n
    BY <2>1, PagesMeet, Zenon
  <2>3. SubSeq(rows, x + 1, b) = SubSeq(rows, a + 1, b)
    <3>1. CASE x = a
      BY <3>1
    <3>2. CASE x # a
      <4>1. x + 1 \in Int /\ a + 1 \in Int /\ b \in Int /\ b < x + 1 /\ b < a + 1
        BY <2>2, <3>2
      <4>2. SubSeq(rows, x + 1, b) = << >> /\ SubSeq(rows, a + 1, b) = << >>
        BY <4>1, SubSeqEmpty
      <4> QED
        BY <4>2
    <3> QED
      BY <3>1, <3>2
  <2>4. SubSeq(rows, 1, a) \o SubSeq(rows, a + 1, b) = SubSeq(rows, 1, b)
    <3>1. /\ 1 \in 1..Len(rows) + 1 /\ a \in (1 - 1)..Len(rows)
          /\ b \in a..Len(rows)
      BY <1>1, <2>2
    <3> QED
      BY <3>1, ConcatAdjacentSubSeq
  <2>5. Page(rows, p, size) = SubSeq(rows, x + 1, b)
    BY <1>2, <2>1
  <2>6. /\ UpToPage(rows, p, size) = SubSeq(rows, 1, b)
        /\ UpToPage(rows, p - 1, size) = SubSeq(rows, 1, a)
    BY <1>1, <2>1 DEF UpToPage
  <2> QED
    BY <2>3, <2>4, <2>5, <2>6, Zenon
<1>4. UpToPage(rows, 1, size) = Page(rows, 1, size)
  <2>1. 1 \in Nat \ {0} /\ (1 - 1) * size = 0 /\ 0 + 1 = 1
    BY PagesMeet
  <2>2. Page(rows, 1, size) = SubSeq(rows, 1, EndOf(1, size, n))
    BY <1>2, <2>1
  <2> QED
    BY <1>1, <2>2 DEF UpToPage
<1>5. UpToPage(rows, Len(rows) + 1, size) = rows
  <2>1. n + 1 \in Nat \ {0} /\ n + 1 > n
    OBVIOUS
  <2>2. EndOf(n + 1, size, n) = n
    BY <2>1, PagesMeet
  <2>3. SubSeq(rows, 1, Len(rows)) = rows
    BY SubSeqFull
  <2> QED
    BY <1>1, <2>2, <2>3 DEF UpToPage
<1>6. Page(rows, 0, size) = Page(rows, 1, size)
  <2>1. \A c \in {0, 1} : Max({c, 1}) = 1
    <3> SUFFICES ASSUME NEW c \in {0, 1} PROVE Max({c, 1}) = 1
      OBVIOUS
    <3>1. {c, 1} \in SUBSET (0..1) /\ {c, 1} # {} /\ 1 \in Nat
      OBVIOUS
    <3>2. Max({c, 1}) \in {c, 1} /\ \A z \in {c, 1} : z <= Max({c, 1})
      BY <3>1, MaxIs
    <3> QED
      BY <3>2
  <2> QED
    BY <2>1 DEF Page
<1> QED
  BY <1>3, <1>4, <1>5, <1>6

\* FlattenSeq joins parts that grow to a whole.
LEMMA FlattenIs ==
  ASSUME NEW n \in Nat \ {0}, NEW parts, NEW grown,
         DOMAIN parts = 1..n, Len(parts) = n, grown[1] = parts[1],
         \A i \in 2..n : grown[i] = grown[i - 1] \o parts[i]
  PROVE  FlattenSeq(parts) = grown[n]
<1> DEFINE Joined(g) == g = [i \in 1..n |-> IF i = 1 THEN parts[i]
                                            ELSE g[i - 1] \o parts[i]]
<1>1. PICK e : e = [i \in 1..n |-> grown[i]]
  OBVIOUS
<1>2. Joined(e)
  <2>1. \A i \in 1..n : e[i] = grown[i]
    BY <1>1
  <2>2. \A i \in 1..n : i # 1 => i \in 2..n /\ i - 1 \in 1..n
    OBVIOUS
  <2>3. \A i \in 1..n : e[i] = IF i = 1 THEN parts[i] ELSE e[i - 1] \o parts[i]
    BY <2>1, <2>2, Zenon
  <2> QED
    BY <1>1, <2>3, Zenon
<1>3. PICK g : g = CHOOSE x : Joined(x)
  OBVIOUS
<1>4. Joined(g)
  BY <1>2, <1>3, Zenon
<1>5. FlattenSeq(parts) = g[n]
  BY <1>3, Zenon DEF FlattenSeq
<1> DEFINE T == {i \in 1..n : g[i] # grown[i]}
<1>6. \A i \in 1..n : g[i] = IF i = 1 THEN parts[i] ELSE g[i - 1] \o parts[i]
  BY <1>4, Zenon
<1>7. T = {}
  <2>1. SUFFICES ASSUME T # {} PROVE FALSE
    OBVIOUS
  <2>2. T \in SUBSET Nat /\ n \in Nat
    OBVIOUS
  <2>3. PICK k \in T : \A m \in T : k <= m
    <3> HIDE DEF T
    <3> QED
      BY <2>1, <2>2, LeastOf
  <2>4. k \in 1..n /\ g[k] # grown[k]
    OBVIOUS
  <2>5. k # 1
    BY <1>6, <2>4
  <2>6. k \in 2..n /\ k - 1 \in 1..n /\ ~(k <= k - 1)
    BY <2>4, <2>5
  <2>7. g[k - 1] = grown[k - 1]
    BY <2>3, <2>6
  <2>8. g[k] = g[k - 1] \o parts[k]
    BY <1>6, <2>4, <2>5
  <2> QED
    BY <2>4, <2>6, <2>7, <2>8
<1>8. n \in 1..n
  OBVIOUS
<1>9. g[n] = grown[n]
  BY <1>7, <1>8
<1> QED
  BY <1>5, <1>9

\* Whatever rows a query has, its pages are the rows.
LEMMA PagesJoin ==
  ASSUME NEW R, NEW rows \in Seq(R), NEW size \in Nat \ {0}
  PROVE  FlattenSeq([p \in 1..(Len(rows) + 1) |-> Page(rows, p, size)]) = rows
<1>1. PICK n \in Nat : n = Len(rows)
  BY LenProperties
<1>2. PICK parts : parts = [p \in 1..(n + 1) |-> Page(rows, p, size)]
  OBVIOUS
<1>3. PICK grown : grown = [p \in 1..(n + 1) |-> UpToPage(rows, p, size)]
  OBVIOUS
<1>4. PICK k \in Nat \ {0} : k = n + 1
  OBVIOUS
<1>5. DOMAIN parts = 1..k /\ Len(parts) = k
  BY <1>2, <1>4
<1>6. \A p \in 1..k : /\ parts[p] = Page(rows, p, size)
                      /\ grown[p] = UpToPage(rows, p, size)
  BY <1>2, <1>3, <1>4
<1>7. grown[1] = parts[1]
  <2>1. 1 \in 1..k
    OBVIOUS
  <2>2. UpToPage(rows, 1, size) = Page(rows, 1, size)
    BY PageFollows
  <2> QED
    BY <1>6, <2>1, <2>2
<1>8. ASSUME NEW i \in 2..k PROVE grown[i] = grown[i - 1] \o parts[i]
  <2>1. i \in Nat \ {0} /\ i \in 1..k /\ i - 1 \in 1..k
    OBVIOUS
  <2>2. UpToPage(rows, i, size)
          = UpToPage(rows, i - 1, size) \o Page(rows, i, size)
    BY <2>1, PageFollows
  <2> QED
    BY <1>6, <2>1, <2>2, Zenon
<1>9. FlattenSeq(parts) = grown[k]
  BY <1>5, <1>7, <1>8, FlattenIs, Zenon
<1>10. grown[k] = rows
  <2>1. k \in 1..k
    OBVIOUS
  <2>2. UpToPage(rows, Len(rows) + 1, size) = rows
    BY PageFollows
  <2> QED
    BY <1>1, <1>4, <1>6, <2>1, <2>2
<1> QED
  BY <1>1, <1>2, <1>9, <1>10

\* Whatever the tables hold, the pages of the cycle times are their rows.
LEMMA TablesPage ==
  ASSUME asked.about = "kpi",
         asked.events \in SUBSET Event, IsFiniteSet(asked.events),
         PageSizes \subseteq Nat \ {0}
  PROVE  PagesAreTheRows
<1>1. PICK rows : rows = CycleTime(asked.events, asked.f)
  OBVIOUS
<1>2. PICK R : rows \in Seq(R)
  <2>1. PICK S : /\ S \in SUBSET asked.events
                 /\ S = {e \in asked.events : Resolved(e) /\ EventIn(asked.f, e)}
    OBVIOUS
  <2>2. PICK val : val = [e \in S |-> e.hours]
    OBVIOUS
  <2>3. rows = ByDay(S, val)
    BY <1>1, <2>1, <2>2, Zenon DEF CycleTime
  <2>4. IsFiniteSet(S) /\ \A x \in S : x.at \in Nat
    BY <2>1, FS_Subset DEF Event
  <2>5. PICK n, r : /\ n \in Nat /\ DOMAIN rows = 1..n
                    /\ rows = [i \in DOMAIN rows |-> r[i]]
    <3>1. /\ \E n \in Nat : DOMAIN ByDay(S, val) = 1..n
          /\ \E r : ByDay(S, val) = [i \in DOMAIN ByDay(S, val) |-> r[i]]
      BY <2>4, ByDayIs
    <3> QED
      BY <2>3, <3>1, Zenon
  <2>6. PICK R : R = {r[i] : i \in 1..n}
    OBVIOUS
  <2>7. rows \in [1..n -> R]
    BY <2>5, <2>6
  <2>8. rows \in Seq(R)
    BY <2>5, <2>7
  <2> QED
    BY <2>8
<1>3. ASSUME NEW size \in PageSizes
      PROVE  /\ FlattenSeq([p \in 1..(Len(rows) + 1) |-> Page(rows, p, size)])
                  = rows
             /\ Page(rows, 0, size) = Page(rows, 1, size)
  <2>1. size \in Nat \ {0}
    OBVIOUS
  <2> QED
    BY <1>2, <2>1, PagesJoin, PageFollows
<1> QED
  BY <1>1, <1>3, Zenon DEF PagesAreTheRows

\* A question about the KPI queries tells what the tables hold.
LEMMA AboutKpi ==
  ASSUME NEW a, AskedOf(a), a.about = "kpi"
  PROVE  a.events \in Histories /\ a.comps \in Computations /\ a.f \in Slices
BY DEF AskedOf, Nothing

\* Whatever the tables hold and the slice is, cycle times, anomalies, funnel and
\* summary count the same events, efficiency and drill-down add up to the same,
\* and the pages of a query are its rows (kpi/repo.rs, kpi/handlers.rs).
THEOREM KpisAreConsistent == AskSpec => []KpisAgree
<1>1. Asked => KpisAgree
  <2> SUFFICES ASSUME Asked PROVE KpisAgree
    OBVIOUS
  <2>1. AskedOf(asked)
    BY DEF Asked
  <2>2. CASE asked.about = "kpi"
    <3>1. /\ asked.events \in Histories /\ asked.comps \in Computations
          /\ asked.f \in Slices
      BY <2>1, <2>2, AboutKpi
    <3>2. /\ asked.events \in SUBSET Event /\ IsFiniteSet(asked.events)
          /\ asked.comps \in SUBSET Computation /\ IsFiniteSet(asked.comps)
          /\ asked.f \in Slice /\ Recent \in Nat /\ PageSizes \subseteq Nat \ {0}
      BY <3>1, QuestionAssumption
    <3>3. QueriesAgree
      BY <2>2, <3>2, TablesAgree
    <3>4. PagesAreTheRows
      BY <2>2, <3>2, TablesPage
    <3> QED
      BY <3>3, <3>4 DEF KpisAgree
  <2>3. CASE asked.about # "kpi"
    BY <2>3, Zenon DEF KpisAgree, QueriesAgree, PagesAreTheRows
  <2> QED
    BY <2>2, <2>3
<1> QED
  BY <1>1, QuestionsAreKnown, PTL
=============================================================================
