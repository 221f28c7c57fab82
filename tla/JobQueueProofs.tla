--------------------------- MODULE JobQueueProofs ---------------------------
(***************************************************************************)
(* Proofs about the job queue, for every set of runs, agents and workers   *)
(* and every bound.                                                        *)
(***************************************************************************)
EXTENDS JobQueueProperties, FiniteSetTheorems, TLAPS

USE WorkersAssumption, NoRunAssumption, BudgetsAssumption
USE DEF rowVars, workerVars, agentVars, budgetVars,
        JobStatuses, RunStatuses, Terminal, Verdicts, Outcomes

-----------------------------------------------------------------------------
(* Types *)

LEMMA TypeInit == Init => TypeOK
BY DEF Init, TypeOK, RowsOK, WorkersOK, AgentsOK, BudgetsOK

\* The steps of a worker: claims ...
LEMMA ClaimTypes ==
    ASSUME TypeOK, NEW w \in Workers, NEW r \in Runs,
           ProcessNextJob(w, r) \/ ClaimUnacknowledged(w, r)
    PROVE  TypeOK'
<1>1. CASE ProcessNextJob(w, r)
  <2>1. RowsOK' BY <1>1 DEF TypeOK, RowsOK, ProcessNextJob, ClaimRows
  <2>2. WorkersOK' BY <1>1 DEF TypeOK, RowsOK, WorkersOK, ProcessNextJob
  <2> QED BY <1>1, <2>1, <2>2 DEF TypeOK, AgentsOK, BudgetsOK, ProcessNextJob
<1>2. CASE ClaimUnacknowledged(w, r)
  <2>1. RowsOK' BY <1>2 DEF TypeOK, RowsOK, ClaimUnacknowledged, ClaimRows
  <2> QED BY <1>2, <2>1 DEF TypeOK, WorkersOK, AgentsOK, BudgetsOK, ClaimUnacknowledged
<1> QED BY <1>1, <1>2

\* ... the statements of finishRun and failJob on jobs ...
LEMMA SettleJobTypes ==
    ASSUME TypeOK, NEW w \in Workers, SettleJob(w)
    PROVE  TypeOK'
<1>1. cur[w] \in Runs BY DEF TypeOK, WorkersOK, SettleJob, FinishRunUpdatesJob, RetryUpdatesJob, FailUpdatesJob
<1>2. JobUpdated(w) /\ pc[w] = "jobUpdate"
  BY DEF SettleJob, FinishRunUpdatesJob, RetryUpdatesJob, FailUpdatesJob
<1>3. RowsOK'
  <2>1. CASE FinishRunUpdatesJob(w) BY <1>1, <2>1 DEF TypeOK, RowsOK, FinishRunUpdatesJob, JobUpdated
  <2>2. CASE RetryUpdatesJob(w) BY <1>1, <2>2 DEF TypeOK, RowsOK, RetryUpdatesJob, JobUpdated
  <2>3. CASE FailUpdatesJob(w) BY <1>1, <2>3 DEF TypeOK, RowsOK, FailUpdatesJob, JobUpdated
  <2> QED BY <2>1, <2>2, <2>3 DEF SettleJob
<1>4. WorkersOK' BY <1>2 DEF TypeOK, WorkersOK, JobUpdated
<1> QED BY <1>2, <1>3, <1>4 DEF TypeOK, AgentsOK, BudgetsOK, JobUpdated

\* ... those on runs, ...
LEMMA SettleRunTypes ==
    ASSUME TypeOK, NEW w \in Workers, SettleRun(w)
    PROVE  TypeOK'
<1>1. cur[w] \in Runs /\ result[w] \in Outcomes
  BY DEF TypeOK, WorkersOK, SettleRun, FinishRunUpdatesRun, RetryUpdatesRun, FailUpdatesRun
<1>2. RunUpdated(w) /\ pc[w] = "runUpdate"
  BY DEF SettleRun, FinishRunUpdatesRun, RetryUpdatesRun, FailUpdatesRun
<1>3. RowsOK'
  <2>1. CASE FinishRunUpdatesRun(w)
    <3>1. ExitCodeOf(result[w]) \in {"null", "zero", "nonzero"}
      BY <1>1, <2>1 DEF ExitCodeOf, FinishRunUpdatesRun
    <3> QED BY <1>1, <2>1, <3>1 DEF TypeOK, RowsOK, FinishRunUpdatesRun, RunUpdated
  <2>2. CASE RetryUpdatesRun(w) BY <1>1, <2>2 DEF TypeOK, RowsOK, RetryUpdatesRun, RunUpdated
  <2>3. CASE FailUpdatesRun(w) BY <1>1, <2>3 DEF TypeOK, RowsOK, FailUpdatesRun, RunUpdated
  <2> QED BY <2>1, <2>2, <2>3 DEF SettleRun
<1>4. WorkersOK' BY <1>2 DEF TypeOK, WorkersOK, RunUpdated, Leave
<1> QED BY <1>2, <1>3, <1>4 DEF TypeOK, AgentsOK, BudgetsOK, RunUpdated

\* ... and the rest.
LEMMA WorkerTypes ==
    ASSUME TypeOK, NEW w \in Workers, WorkerStep(w)
    PROVE  TypeOK'
<1>1. CASE ExecuteJob(w)
  <2>1. WorkersOK' BY <1>1 DEF TypeOK, WorkersOK, ExecuteJob
  <2> QED BY <1>1, <2>1 DEF TypeOK, RowsOK, AgentsOK, BudgetsOK, ExecuteJob
<1>2. CASE LoseJobUpdate(w)
  <2>1. WorkersOK' BY <1>2 DEF TypeOK, WorkersOK, LoseJobUpdate
  <2> QED BY <1>2, <2>1 DEF TypeOK, RowsOK, AgentsOK, BudgetsOK, LoseJobUpdate
<1>3. CASE LoseRunUpdate(w)
  <2>1. WorkersOK' BY <1>3 DEF TypeOK, WorkersOK, LoseRunUpdate, Leave
  <2> QED BY <1>3, <2>1 DEF TypeOK, RowsOK, AgentsOK, BudgetsOK, LoseRunUpdate
<1>4. CASE WorkerExit(w)
  <2>1. WorkersOK' BY <1>4 DEF TypeOK, WorkersOK, WorkerExit
  <2> QED BY <1>4, <2>1 DEF TypeOK, RowsOK, AgentsOK, BudgetsOK, WorkerExit
<1> QED BY <1>1, <1>2, <1>3, <1>4, ClaimTypes, SettleJobTypes, SettleRunTypes DEF WorkerStep

LEMMA AgentTypes ==
    ASSUME TypeOK, NEW a \in Agents, AgentStep(a)
    PROVE  TypeOK'
<1>1. CASE ReleaseExpiredLeases(a)
  <2>1. RowsOK' BY <1>1 DEF TypeOK, RowsOK, ReleaseExpiredLeases
  <2> QED BY <1>1, <2>1 DEF TypeOK, WorkersOK, AgentsOK, BudgetsOK, ReleaseExpiredLeases
<1>2. CASE SnapshotRows(a)
  BY <1>2 DEF TypeOK, RowsOK, WorkersOK, AgentsOK, BudgetsOK, SnapshotRows
<1>3. CASE ResetRuns(a)
  <2>1. RowsOK' BY <1>3 DEF TypeOK, RowsOK, ResetRuns
  <2> QED BY <1>3, <2>1 DEF TypeOK, WorkersOK, AgentsOK, BudgetsOK, ResetRuns
<1>4. CASE LoseReset(a)
  <2>1. BudgetsOK' BY <1>4 DEF TypeOK, BudgetsOK, LoseReset
  <2> QED BY <1>4, <2>1 DEF TypeOK, RowsOK, WorkersOK, AgentsOK, LoseReset
<1>5. CASE StopAgent(a)
  <2>1. WorkersOK' BY <1>5 DEF TypeOK, WorkersOK, AgentsOK, StopAgent
  <2> QED BY <1>5, <2>1 DEF TypeOK, RowsOK, AgentsOK, BudgetsOK, StopAgent
<1>6. CASE AgentExit(a)
  <2>1. \A w \in Workers : agent'[AgentOf[w]] = "down" => pc[w] = "exited"
    BY <1>6 DEF TypeOK, WorkersOK, AgentsOK, AgentExit, WorkersOf
  <2>2. WorkersOK' BY <1>6, <2>1 DEF TypeOK, WorkersOK, AgentExit
  <2> QED BY <1>6, <2>2 DEF TypeOK, RowsOK, AgentsOK, BudgetsOK, AgentExit
<1>7. CASE CrashAgent(a)
  <2>1. WorkersOK'
    <3>1. /\ pc' \in [Workers -> {"idle", "executing", "jobUpdate", "runUpdate", "exited"}]
          /\ cur' \in [Workers -> Runs \cup {NoRun}]
          /\ seen' \in [Workers -> Nat]
          /\ result' \in [Workers -> Outcomes \cup {"none"}]
      BY <1>7 DEF TypeOK, WorkersOK, CrashAgent
    <3>2. ASSUME NEW w \in Workers, AgentOf[w] = a
          PROVE  pc'[w] = "exited" /\ cur'[w] = NoRun /\ result'[w] = "none"
      BY <1>7, <3>2 DEF CrashAgent
    <3>3. ASSUME NEW w \in Workers, AgentOf[w] # a
          PROVE  /\ pc'[w] = pc[w] /\ cur'[w] = cur[w] /\ result'[w] = result[w]
                 /\ agent'[AgentOf[w]] = agent[AgentOf[w]]
      BY <1>7, <3>3 DEF CrashAgent, TypeOK, AgentsOK
    <3> QED BY <3>1, <3>2, <3>3 DEF TypeOK, WorkersOK
  <2>2. BudgetsOK' BY <1>7 DEF TypeOK, BudgetsOK, CrashAgent
  <2> QED BY <1>7, <2>1, <2>2 DEF TypeOK, RowsOK, AgentsOK, CrashAgent
<1>8. CASE StartAgent(a)
  <2>1. WorkersOK'
    <3>1. pc' \in [Workers -> {"idle", "executing", "jobUpdate", "runUpdate", "exited"}]
      BY <1>8 DEF TypeOK, WorkersOK, StartAgent
    <3>2. ASSUME NEW w \in Workers, AgentOf[w] = a
          PROVE  pc'[w] = "idle" /\ pc[w] = "exited" /\ agent'[AgentOf[w]] = "up"
      BY <1>8, <3>2 DEF StartAgent, TypeOK, WorkersOK, AgentsOK
    <3>3. ASSUME NEW w \in Workers, AgentOf[w] # a
          PROVE  pc'[w] = pc[w] /\ agent'[AgentOf[w]] = agent[AgentOf[w]]
      BY <1>8, <3>3 DEF StartAgent, TypeOK, AgentsOK
    <3>4. UNCHANGED <<cur, seen, result>> BY <1>8 DEF StartAgent
    <3> QED BY <3>1, <3>2, <3>3, <3>4 DEF TypeOK, WorkersOK
  <2> QED BY <1>8, <2>1 DEF TypeOK, RowsOK, AgentsOK, BudgetsOK, StartAgent
<1> QED BY <1>1, <1>2, <1>3, <1>4, <1>5, <1>6, <1>7, <1>8 DEF AgentStep

LEMMA TypeStep == TypeOK /\ [Next]_vars => TypeOK'
<1> SUFFICES ASSUME TypeOK, [Next]_vars PROVE TypeOK'
  OBVIOUS
<1>1. ASSUME NEW r \in Runs, CreateRun(r) PROVE TypeOK'
  <2>1. RowsOK' BY <1>1 DEF TypeOK, RowsOK, CreateRun
  <2> QED BY <1>1, <2>1 DEF TypeOK, WorkersOK, AgentsOK, BudgetsOK, CreateRun
<1>2. ASSUME NEW r \in Runs, LeaseExpires(r) PROVE TypeOK'
  BY <1>2 DEF TypeOK, RowsOK, WorkersOK, AgentsOK, BudgetsOK, LeaseExpires
<1>3. ASSUME NEW r \in Runs, BecomesDue(r) PROVE TypeOK'
  BY <1>3 DEF TypeOK, RowsOK, WorkersOK, AgentsOK, BudgetsOK, BecomesDue
<1>4. CASE CleanupOldJobs
  <2>1. RowsOK' BY <1>4 DEF TypeOK, RowsOK, CleanupOldJobs
  <2> QED BY <1>4, <2>1 DEF TypeOK, WorkersOK, AgentsOK, BudgetsOK, CleanupOldJobs
<1>5. CASE UNCHANGED vars
  BY <1>5 DEF vars, TypeOK, RowsOK, WorkersOK, AgentsOK, BudgetsOK
<1> QED BY <1>1, <1>2, <1>3, <1>4, <1>5, WorkerTypes, AgentTypes DEF Next

\* The variables keep their types, and a worker holds a run and a result
\* exactly while it executes or settles one.
THEOREM TypeCorrect == Spec => []TypeOK
BY TypeInit, TypeStep, PTL DEF Spec

-----------------------------------------------------------------------------
(* Attempts: the counts that claims read *)

Claim(w, r) == ProcessNextJob(w, r) \/ ClaimUnacknowledged(w, r)

\* A run without a row has no job and no history.
Fresh == \A r \in Runs : runStatus[r] = "none" => attempts[r] = 0 /\ jobStatus[r] = "none"

\* A worker's count is an earlier one than the row's.
Counted == \A w \in Workers : \A r \in Runs : AtWork(w, r) => seen[w] < attempts[r]

CountInv == TypeOK /\ Fresh /\ Counted /\ DistinctAttempts /\ NoEarlyGiveUp

\* Nobody comes to hold a job but by a claim, which alone counts.
LEMMA WithoutClaim ==
    ASSUME TypeOK, [Next]_vars,
           \A w \in Workers : \A r \in Runs : ~Claim(w, r)
    PROVE  /\ attempts' = attempts
           /\ \A w \in Workers : \A r \in Runs :
                /\ AtWork(w, r)' => AtWork(w, r) /\ seen'[w] = seen[w]
                /\ Holds(w, r)' => Holds(w, r)
<1> DEFINE Shrinks == /\ attempts' = attempts
                      /\ \A w \in Workers : \A r \in Runs :
                           /\ AtWork(w, r)' => AtWork(w, r) /\ seen'[w] = seen[w]
                           /\ Holds(w, r)' => Holds(w, r)
<1>1. ASSUME UNCHANGED <<attempts, workerVars>> PROVE Shrinks
  BY <1>1 DEF AtWork, Holds
<1>2. ASSUME NEW v \in Workers, WorkerStep(v) PROVE Shrinks
  <2>1. CASE ExecuteJob(v) BY <2>1 DEF ExecuteJob, AtWork, Holds, TypeOK, WorkersOK
  <2>2. ASSUME SettleJob(v) \/ LoseJobUpdate(v) PROVE Shrinks
    <3>1. /\ pc[v] = "jobUpdate" /\ pc' = [pc EXCEPT ![v] = "runUpdate"]
          /\ UNCHANGED <<attempts, cur, seen>>
      BY <2>2 DEF SettleJob, FinishRunUpdatesJob, RetryUpdatesJob, FailUpdatesJob,
                  JobUpdated, LoseJobUpdate
    <3> QED BY <3>1 DEF AtWork, Holds, TypeOK, WorkersOK
  <2>3. ASSUME SettleRun(v) \/ LoseRunUpdate(v) PROVE Shrinks
    <3>1. Leave(v) /\ UNCHANGED attempts
      BY <2>3 DEF SettleRun, FinishRunUpdatesRun, RetryUpdatesRun, FailUpdatesRun,
                  RunUpdated, LoseRunUpdate
    <3> QED BY <3>1 DEF Leave, AtWork, Holds, TypeOK, WorkersOK
  <2>4. CASE WorkerExit(v) BY <2>4 DEF WorkerExit, AtWork, Holds, TypeOK, WorkersOK
  <2> QED BY <1>2, <2>1, <2>2, <2>3, <2>4 DEF WorkerStep, Claim
<1>3. ASSUME NEW a \in Agents, AgentStep(a) PROVE Shrinks
  <2>1. CASE CrashAgent(a)
    <3>1. \A w \in Workers : AgentOf[w] = a => cur'[w] = NoRun
      BY <2>1 DEF CrashAgent
    <3>2. \A w \in Workers : AgentOf[w] # a
            => pc'[w] = pc[w] /\ cur'[w] = cur[w] /\ seen'[w] = seen[w]
      BY <2>1 DEF CrashAgent
    <3> QED BY <2>1, <3>1, <3>2 DEF CrashAgent, AtWork, Holds
  <2>2. CASE StartAgent(a)
    <3>1. \A w \in Workers : pc'[w] = pc[w] \/ pc'[w] = "idle"
      BY <2>2 DEF StartAgent
    <3> QED BY <2>2, <3>1 DEF StartAgent, AtWork, Holds
  <2> QED BY <1>1, <1>3, <2>1, <2>2
      DEF AgentStep, ReleaseExpiredLeases, SnapshotRows, ResetRuns, LoseReset,
          StopAgent, AgentExit
<1>4. CASE CleanupOldJobs BY <1>1, <1>4 DEF CleanupOldJobs
<1>5. ASSUME NEW r \in Runs, CreateRun(r) \/ LeaseExpires(r) \/ BecomesDue(r) PROVE Shrinks
  BY <1>1, <1>5 DEF CreateRun, LeaseExpires, BecomesDue
<1>6. CASE UNCHANGED vars BY <1>1, <1>6 DEF vars
<1> QED BY <1>2, <1>3, <1>4, <1>5, <1>6 DEF Next

\* A claim adds the claiming worker, or nobody, to the workers at the job.
LEMMA WithClaim ==
    ASSUME TypeOK, NEW v \in Workers, NEW q \in Runs, Claim(v, q)
    PROVE  /\ ClaimRows(q)
           /\ attempts[q] \in Nat
           /\ attempts'[q] = attempts[q] + 1
           /\ \A r \in Runs : r # q => attempts'[r] = attempts[r]
           /\ \A w \in Workers : \A r \in Runs :
                \/ w = v /\ r = q /\ seen'[v] = attempts[q] /\ Holds(v, q)'
                \/ /\ AtWork(w, r)' => AtWork(w, r) /\ seen'[w] = seen[w]
                   /\ Holds(w, r)' => Holds(w, r)
<1>1. ClaimRows(q) BY DEF Claim, ProcessNextJob, ClaimUnacknowledged
<1>2. /\ attempts[q] \in Nat
      /\ attempts'[q] = attempts[q] + 1
      /\ \A r \in Runs : r # q => attempts'[r] = attempts[r]
  BY <1>1 DEF ClaimRows, TypeOK, RowsOK
<1>3. CASE ProcessNextJob(v, q)
  BY <1>1, <1>2, <1>3 DEF ProcessNextJob, AtWork, Holds, TypeOK, WorkersOK
<1>4. CASE ClaimUnacknowledged(v, q)
  BY <1>1, <1>2, <1>4 DEF ClaimUnacknowledged, AtWork, Holds
<1> QED BY <1>3, <1>4 DEF Claim

LEMMA CountedStep == CountInv /\ [Next]_vars => Counted' /\ DistinctAttempts'
<1> SUFFICES ASSUME CountInv, [Next]_vars PROVE Counted' /\ DistinctAttempts'
  OBVIOUS
<1> USE DEF CountInv
<1>1. CASE \A w \in Workers : \A r \in Runs : ~Claim(w, r)
  BY <1>1, WithoutClaim DEF Counted, DistinctAttempts, Holds, AtWork
<1>2. ASSUME NEW v \in Workers, NEW q \in Runs, Claim(v, q)
      PROVE  Counted' /\ DistinctAttempts'
  <2>1. \A w \in Workers : \A r \in Runs : Holds(w, r) => AtWork(w, r)
    BY DEF Holds, AtWork
  <2>2. \A w \in Workers : \A r \in Runs : Holds(w, r)' => AtWork(w, r)'
    BY DEF Holds, AtWork
  <2>3. \A w \in Workers : seen[w] \in Nat
    BY DEF TypeOK, WorkersOK
  <2>4. \A r \in Runs : attempts[r] \in Nat
    BY DEF TypeOK, RowsOK
  <2>5. Counted' BY <1>2, <2>2, <2>3, <2>4, WithClaim DEF Counted
  <2>6. ASSUME NEW r \in Runs, NEW x \in Workers, NEW y \in Workers, x # y,
               Holds(x, r)', Holds(y, r)'
        PROVE  seen'[x] # seen'[y]
    BY <1>2, <2>1, <2>2, <2>3, <2>4, <2>6, WithClaim DEF Counted, DistinctAttempts
  <2> QED BY <2>5, <2>6 DEF DistinctAttempts
<1> QED BY <1>1, <1>2

\* Statements of a worker on jobs only touch rows whose run exists.
LEMMA FreshStep == CountInv /\ [Next]_vars => Fresh'
<1> SUFFICES ASSUME CountInv, [Next]_vars, NEW r \in Runs, runStatus'[r] = "none"
             PROVE  attempts'[r] = 0 /\ jobStatus'[r] = "none"
  BY DEF Fresh
<1> USE DEF CountInv
<1>1. runStatus[r] = "none" => /\ attempts[r] = 0 /\ jobStatus[r] = "none"
                              /\ \A w \in Workers : ~AtWork(w, r)
  <2>1. \A w \in Workers : seen[w] \in Nat BY DEF TypeOK, WorkersOK
  <2> QED BY <2>1 DEF Fresh, Counted
<1> DEFINE Untouched == runStatus[r] = "none" /\ attempts'[r] = 0 /\ jobStatus'[r] = "none"
<1>2. ASSUME UNCHANGED <<jobStatus, attempts, runStatus>> PROVE Untouched
  BY <1>1, <1>2
<1>3. ASSUME NEW v \in Workers, WorkerStep(v) PROVE Untouched
  <2>1. ASSUME NEW q \in Runs, Claim(v, q) PROVE Untouched
    <3>1. ClaimRows(q) /\ attempts'[r] = IF r = q THEN attempts[r] + 1 ELSE attempts[r]
      BY <2>1, WithClaim
    <3> QED BY <1>1, <3>1 DEF ClaimRows, Claimable, TypeOK, RowsOK
  <2>2. CASE SettleJob(v)
    <3>1. /\ AtWork(v, cur[v]) /\ UNCHANGED <<attempts, runStatus>>
          /\ \/ jobStatus' = [jobStatus EXCEPT ![cur[v]] = "done"]
             \/ jobStatus' = [jobStatus EXCEPT ![cur[v]] = "queued"]
             \/ jobStatus' = [jobStatus EXCEPT ![cur[v]] = "failed"]
      BY <2>2 DEF SettleJob, FinishRunUpdatesJob, RetryUpdatesJob, FailUpdatesJob,
                  JobUpdated, AtWork
    <3>2. runStatus[r] = "none" BY <3>1
    <3>3. cur[v] # r BY <1>1, <3>1, <3>2
    <3> QED BY <1>1, <3>1, <3>2, <3>3 DEF TypeOK, RowsOK
  <2>3. CASE SettleRun(v)
    <3>1. /\ UNCHANGED <<attempts, jobStatus>>
          /\ \/ runStatus' = [runStatus EXCEPT ![cur[v]] = result[v]] /\ result[v] # "none"
             \/ runStatus' = [runStatus EXCEPT ![cur[v]] = "pending"]
             \/ runStatus' = [runStatus EXCEPT ![cur[v]] = "error"]
      BY <2>3 DEF SettleRun, FinishRunUpdatesRun, RetryUpdatesRun, FailUpdatesRun,
                  RunUpdated, TypeOK, WorkersOK
    <3> QED BY <1>1, <3>1 DEF TypeOK, RowsOK
  <2> QED BY <1>2, <1>3, <2>1, <2>2, <2>3
      DEF WorkerStep, Claim, ExecuteJob, LoseJobUpdate, LoseRunUpdate, WorkerExit
<1>4. ASSUME NEW a \in Agents, AgentStep(a) PROVE Untouched
  <2>1. CASE ReleaseExpiredLeases(a)
    BY <1>1, <2>1 DEF ReleaseExpiredLeases, Releasable
  <2>2. CASE ResetRuns(a) BY <1>1, <2>2 DEF ResetRuns
  <2> QED BY <1>2, <1>4, <2>1, <2>2
      DEF AgentStep, SnapshotRows, LoseReset, StopAgent, AgentExit, CrashAgent, StartAgent
<1>5. CASE CleanupOldJobs BY <1>1, <1>5 DEF CleanupOldJobs
<1>6. ASSUME NEW q \in Runs, CreateRun(q) PROVE Untouched
  BY <1>1, <1>6 DEF CreateRun, TypeOK, RowsOK
<1>7. ASSUME NEW q \in Runs, LeaseExpires(q) \/ BecomesDue(q) PROVE Untouched
  BY <1>2, <1>7 DEF LeaseExpires, BecomesDue
<1>8. CASE UNCHANGED vars BY <1>2, <1>8 DEF vars
<1> QED BY <1>3, <1>4, <1>5, <1>6, <1>7, <1>8 DEF Next

\* failJob's final branch is reached with a count of max_attempts or more.
LEMMA NoEarlyGiveUpStep == CountInv /\ [Next]_vars => NoEarlyGiveUp'
<1> SUFFICES ASSUME CountInv, [Next]_vars, NEW r \in Runs,
                    jobStatus'[r] = "failed" \/ runStatus'[r] = "error"
             PROVE  attempts'[r] >= MaxAttempts
  BY DEF NoEarlyGiveUp
<1> USE DEF CountInv
<1>1. attempts'[r] >= attempts[r] /\ attempts[r] \in Nat /\ attempts'[r] \in Nat
  BY WithoutClaim, WithClaim DEF TypeOK, RowsOK
<1>2. SUFFICES ASSUME ~(jobStatus[r] = "failed" \/ runStatus[r] = "error")
               PROVE  attempts[r] >= MaxAttempts
  BY <1>1, MaxAttemptsAssumption DEF NoEarlyGiveUp
<1> DEFINE GaveUp(v) == /\ v \in Workers /\ AtWork(v, r) /\ ~MayRetry(v)
<1>3. ASSUME NEW v \in Workers, WorkerStep(v) PROVE GaveUp(v)
  <2>1. ASSUME NEW q \in Runs, Claim(v, q) PROVE FALSE
    <3>1. ClaimRows(q) BY <2>1, WithClaim
    <3> QED BY <1>2, <3>1 DEF ClaimRows, TypeOK, RowsOK
  <2>2. ASSUME SettleJob(v) PROVE FailUpdatesJob(v)
    BY <1>2, <2>2 DEF SettleJob, FinishRunUpdatesJob, RetryUpdatesJob, JobUpdated, TypeOK, RowsOK
  <2>3. ASSUME SettleRun(v) PROVE FailUpdatesRun(v)
    BY <1>2, <2>3 DEF SettleRun, FinishRunUpdatesRun, RetryUpdatesRun, RunUpdated, TypeOK, RowsOK
  <2>4. ASSUME FailUpdatesJob(v) PROVE GaveUp(v)
    BY <1>2, <2>4 DEF FailUpdatesJob, JobUpdated, AtWork, TypeOK, RowsOK
  <2>5. ASSUME FailUpdatesRun(v) PROVE GaveUp(v)
    BY <1>2, <2>5 DEF FailUpdatesRun, RunUpdated, AtWork, TypeOK, RowsOK
  <2>6. ASSUME UNCHANGED <<jobStatus, runStatus>> PROVE FALSE
    BY <1>2, <2>6
  <2> QED BY <1>3, <2>1, <2>2, <2>3, <2>4, <2>5, <2>6
      DEF WorkerStep, Claim, ExecuteJob, LoseJobUpdate, LoseRunUpdate, WorkerExit
<1>4. ASSUME NEW v \in Workers, GaveUp(v) PROVE attempts[r] >= MaxAttempts
  BY <1>1, <1>4, MaxAttemptsAssumption DEF Counted, MayRetry, TypeOK, WorkersOK
<1>5. ASSUME NEW a \in Agents, AgentStep(a) PROVE FALSE
  BY <1>2, <1>5
     DEF AgentStep, ReleaseExpiredLeases, SnapshotRows, ResetRuns, LoseReset, StopAgent,
         AgentExit, CrashAgent, StartAgent
<1>6. ASSUME NEW q \in Runs, CreateRun(q) \/ LeaseExpires(q) \/ BecomesDue(q) PROVE FALSE
  BY <1>2, <1>6 DEF CreateRun, LeaseExpires, BecomesDue, TypeOK, RowsOK
<1>7. CASE CleanupOldJobs BY <1>2, <1>7 DEF CleanupOldJobs
<1>8. CASE UNCHANGED vars BY <1>2, <1>8 DEF vars
<1> QED BY <1>3, <1>4, <1>5, <1>6, <1>7, <1>8 DEF Next

LEMMA CountInit == Init => CountInv
<1> SUFFICES ASSUME Init PROVE CountInv
  OBVIOUS
<1>1. TypeOK BY TypeInit
<1> QED BY <1>1, MaxAttemptsAssumption
    DEF Init, CountInv, Fresh, Counted, AtWork, Holds, DistinctAttempts, NoEarlyGiveUp

LEMMA CountStep == CountInv /\ [Next]_vars => CountInv'
BY TypeStep, FreshStep, CountedStep, NoEarlyGiveUpStep DEF CountInv

THEOREM CountInvariant == Spec => []CountInv
BY CountInit, CountStep, PTL DEF Spec

\* Two executions of one job never carry the same attempt number.
THEOREM AttemptsIdentifyExecutions == Spec => []DistinctAttempts
<1>1. CountInv => DistinctAttempts BY DEF CountInv
<1> QED BY <1>1, CountInvariant, PTL

\* No run is given up before max_attempts executions have begun.
THEOREM GivingUpIsLate == Spec => []NoEarlyGiveUp
<1>1. CountInv => NoEarlyGiveUp BY DEF CountInv
<1> QED BY <1>1, CountInvariant, PTL

-----------------------------------------------------------------------------
(* Attempts: their bound *)

\* The workers that would return r's job to the queue on an error.
Retriers(r) == {w \in Workers : Holds(w, r) /\ MayRetry(w)}

\* Once the attempts reach the maximum, every further one is a retry granted to
\* an execution that began before, and there were at most MaxAttempts of those.
Budget(r) ==
    LET n == Cardinality(Retriers(r)) IN
    /\ n <= attempts[r]
    /\ attempts[r] >= MaxAttempts
         => attempts[r] + n + (IF jobStatus[r] = "queued" THEN 1 ELSE 0) <= 2 * MaxAttempts

BudgetInv == CountInv /\ \A r \in Runs : Budget(r)

LEMMA RetriersCount ==
    ASSUME NEW S, S \subseteq Workers
    PROVE  /\ IsFiniteSet(S) /\ Cardinality(S) \in Nat
           /\ \A T \in SUBSET S :
                /\ Cardinality(T) \in Nat /\ Cardinality(T) <= Cardinality(S)
                /\ T # S => Cardinality(T) < Cardinality(S)
           /\ \A w \in Workers :
                /\ Cardinality(S \cup {w}) \in Nat
                /\ Cardinality(S \cup {w}) <= Cardinality(S) + 1
<1>1. IsFiniteSet(S) BY FS_Subset
<1>2. \A w \in Workers : IsFiniteSet(S \cup {w})
                         /\ Cardinality(S \cup {w}) \in {Cardinality(S), Cardinality(S) + 1}
  BY <1>1, FS_AddElement, FS_CardinalityType
<1>3. \A T \in SUBSET S : IsFiniteSet(T) /\ Cardinality(T) <= Cardinality(S)
                          /\ (Cardinality(S) = Cardinality(T) => S = T)
  BY <1>1, FS_Subset
<1>4. Cardinality(S) \in Nat BY <1>1, FS_CardinalityType
<1>5. \A T \in SUBSET S : Cardinality(T) \in Nat BY <1>3, FS_CardinalityType
<1>6. ASSUME NEW T \in SUBSET S, T # S PROVE Cardinality(T) < Cardinality(S)
  <2>1. Cardinality(T) <= Cardinality(S) /\ Cardinality(T) # Cardinality(S) BY <1>3, <1>6
  <2> QED BY <1>4, <1>5, <2>1
<1>7. ASSUME NEW w \in Workers
      PROVE  Cardinality(S \cup {w}) \in Nat /\ Cardinality(S \cup {w}) <= Cardinality(S) + 1
  <2> DEFINE c == Cardinality(S)
             d == Cardinality(S \cup {w})
  <2>1. c \in Nat /\ d \in {c, c + 1} BY <1>2, <1>4
  <2> HIDE DEF c, d
  <2>2. d \in Nat /\ d <= c + 1 BY <2>1
  <2> QED BY <2>2 DEF c, d
<1> QED BY <1>1, <1>3, <1>4, <1>5, <1>6, <1>7

\* A job enters the queue anew, with attempts left, or from a retrying worker.
LEMMA Requeue ==
    ASSUME CountInv, [Next]_vars, NEW r \in Runs,
           jobStatus[r] # "queued", jobStatus'[r] = "queued"
    PROVE  attempts[r] < MaxAttempts \/ \E w \in Retriers(r) : w \notin Retriers(r)'
<1> USE DEF CountInv
<1> DEFINE Goal == attempts[r] < MaxAttempts \/ \E w \in Retriers(r) : w \notin Retriers(r)'
<1>1. ASSUME NEW v \in Workers, WorkerStep(v) PROVE Goal
  <2>1. ASSUME NEW q \in Runs, Claim(v, q) PROVE FALSE
    <3>1. ClaimRows(q) BY <2>1, WithClaim
    <3> QED BY <3>1 DEF ClaimRows, TypeOK, RowsOK
  <2>2. ASSUME SettleJob(v) PROVE Goal
    <3>1. RetryUpdatesJob(v)
      BY <2>2 DEF SettleJob, FinishRunUpdatesJob, FailUpdatesJob, JobUpdated, TypeOK, RowsOK
    <3>2. cur[v] = r BY <3>1 DEF RetryUpdatesJob, TypeOK, RowsOK
    <3>3. v \in Retriers(r) BY <3>1, <3>2 DEF RetryUpdatesJob, Retriers, Holds
    <3>4. pc'[v] = "runUpdate"
      BY <3>1 DEF RetryUpdatesJob, JobUpdated, TypeOK, WorkersOK
    <3>5. v \notin Retriers(r)' BY <3>4 DEF Retriers, Holds
    <3> QED BY <3>3, <3>5
  <2> QED BY <1>1, <2>1, <2>2
      DEF WorkerStep, Claim, ExecuteJob, LoseJobUpdate, LoseRunUpdate, WorkerExit,
          SettleRun, FinishRunUpdatesRun, RetryUpdatesRun, FailUpdatesRun, RunUpdated
<1>2. ASSUME NEW a \in Agents, AgentStep(a) PROVE Goal
  BY <1>2 DEF AgentStep, ReleaseExpiredLeases, Releasable, SnapshotRows, ResetRuns,
              LoseReset, StopAgent, AgentExit, CrashAgent, StartAgent
<1>3. ASSUME NEW q \in Runs, CreateRun(q) PROVE Goal
  BY <1>3, MaxAttemptsAssumption DEF CreateRun, Fresh, TypeOK, RowsOK
<1>4. ASSUME NEW q \in Runs, LeaseExpires(q) \/ BecomesDue(q) PROVE FALSE
  BY <1>4 DEF LeaseExpires, BecomesDue
<1>5. CASE CleanupOldJobs BY <1>5 DEF CleanupOldJobs
<1>6. CASE UNCHANGED vars BY <1>6 DEF vars
<1> QED BY <1>1, <1>2, <1>3, <1>4, <1>5, <1>6 DEF Next

LEMMA BudgetStep == BudgetInv /\ [Next]_vars => BudgetInv'
<1> SUFFICES ASSUME BudgetInv, [Next]_vars, NEW r \in Runs PROVE Budget(r)'
  BY CountStep DEF BudgetInv
<1>1. CountInv /\ TypeOK /\ Budget(r) BY DEF BudgetInv, CountInv
<1>2. attempts[r] \in Nat BY <1>1 DEF TypeOK, RowsOK
<1>3. Retriers(r) \subseteq Workers /\ Retriers(r)' \subseteq Workers BY DEF Retriers
<1> DEFINE n == Cardinality(Retriers(r))
           m == Cardinality(Retriers(r)')
<1>4. n \in Nat /\ m \in Nat BY <1>3, RetriersCount
<1>5. SUFFICES /\ m <= attempts'[r]
               /\ attempts'[r] >= MaxAttempts
                    => attempts'[r] + m + (IF jobStatus'[r] = "queued" THEN 1 ELSE 0)
                         <= 2 * MaxAttempts
  BY DEF Budget
<1>6. /\ n <= attempts[r]
      /\ attempts[r] >= MaxAttempts
           => attempts[r] + n + (IF jobStatus[r] = "queued" THEN 1 ELSE 0) <= 2 * MaxAttempts
  BY <1>1 DEF Budget
<1> HIDE DEF n, m
<1>7. CASE \A w \in Workers : \A q \in Runs : ~Claim(w, q)
  <2>1. attempts'[r] = attempts[r] BY <1>1, <1>7, WithoutClaim
  <2>2. Retriers(r)' \subseteq Retriers(r)
    BY <1>1, <1>7, WithoutClaim DEF Retriers, MayRetry, Holds, AtWork
  <2>3. m <= n BY <1>3, <2>2, RetriersCount DEF n, m
  <2>4. CASE jobStatus'[r] = "queued" /\ jobStatus[r] # "queued"
    <3>1. attempts[r] < MaxAttempts \/ m < n
      BY <1>1, <1>3, <2>2, <2>4, Requeue, RetriersCount DEF n, m
    <3> QED BY <1>2, <1>4, <1>6, <2>1, <2>3, <2>4, <3>1, MaxAttemptsAssumption
  <2>5. CASE jobStatus'[r] = "queued" => jobStatus[r] = "queued"
    BY <1>2, <1>4, <1>6, <2>1, <2>3, <2>5, MaxAttemptsAssumption
  <2> QED BY <2>4, <2>5
<1>8. ASSUME NEW v \in Workers, NEW q \in Runs, Claim(v, q), r # q
      PROVE  /\ m <= attempts'[r]
             /\ attempts'[r] >= MaxAttempts
                  => attempts'[r] + m + (IF jobStatus'[r] = "queued" THEN 1 ELSE 0)
                       <= 2 * MaxAttempts
  <2>1. attempts'[r] = attempts[r] /\ jobStatus'[r] = jobStatus[r]
    BY <1>1, <1>8, WithClaim DEF ClaimRows, TypeOK, RowsOK
  <2>2. Retriers(r)' \subseteq Retriers(r)
    BY <1>1, <1>8, WithClaim DEF Retriers, MayRetry, Holds, AtWork
  <2>3. m <= n BY <1>3, <2>2, RetriersCount DEF n, m
  <2> QED BY <1>2, <1>4, <1>6, <2>1, <2>3, MaxAttemptsAssumption
<1>9. ASSUME NEW v \in Workers, Claim(v, r)
      PROVE  /\ m <= attempts'[r]
             /\ attempts'[r] >= MaxAttempts
                  => attempts'[r] + m + (IF jobStatus'[r] = "queued" THEN 1 ELSE 0)
                       <= 2 * MaxAttempts
  <2>1. /\ attempts'[r] = attempts[r] + 1
        /\ jobStatus[r] = "queued" /\ jobStatus'[r] = "running"
    BY <1>1, <1>9, WithClaim DEF ClaimRows, Claimable, TypeOK, RowsOK
  <2>2. \A w \in Workers : w \in Retriers(r)' =>
           w \in Retriers(r) \/ (w = v /\ attempts[r] < MaxAttempts)
    BY <1>1, <1>9, WithClaim DEF Retriers, MayRetry, Holds, AtWork
  <2>3. m <= n + 1
    <3>1. Retriers(r)' \subseteq Retriers(r) \cup {v} BY <1>3, <2>2
    <3>2. Retriers(r) \cup {v} \subseteq Workers BY <1>3
    <3>3. m <= Cardinality(Retriers(r) \cup {v}) BY <3>1, <3>2, RetriersCount DEF m
    <3>4. Cardinality(Retriers(r) \cup {v}) \in Nat
          /\ Cardinality(Retriers(r) \cup {v}) <= n + 1
      BY <1>3, RetriersCount DEF n
    <3> QED BY <1>4, <3>3, <3>4
  <2>4. attempts[r] >= MaxAttempts => m <= n
    <3> SUFFICES ASSUME attempts[r] >= MaxAttempts PROVE m <= n
      OBVIOUS
    <3>1. Retriers(r)' \subseteq Retriers(r)
      BY <1>2, <1>3, <2>2, MaxAttemptsAssumption
    <3> QED BY <1>3, <3>1, RetriersCount DEF n, m
  <2> QED BY <1>2, <1>4, <1>6, <2>1, <2>3, <2>4, MaxAttemptsAssumption
<1> QED BY <1>7, <1>8, <1>9

\* A job's executions never exceed twice max_attempts, however leases expire,
\* agents crash and statements are lost.
THEOREM AttemptsNeverExceedTwice == Spec => []AttemptsBounded
<1>1. Init => BudgetInv
  <2> SUFFICES ASSUME Init, NEW r \in Runs PROVE Budget(r)
    BY CountInit DEF BudgetInv
  <2>1. Retriers(r) = {} BY DEF Init, Retriers, Holds
  <2> QED BY <2>1, FS_EmptySet, MaxAttemptsAssumption DEF Init, Budget
<1>2. BudgetInv => AttemptsBounded
  <2> SUFFICES ASSUME BudgetInv, NEW r \in Runs PROVE attempts[r] <= 2 * MaxAttempts
    BY DEF AttemptsBounded
  <2>1. Retriers(r) \subseteq Workers BY DEF Retriers
  <2>2. Cardinality(Retriers(r)) \in Nat BY <2>1, RetriersCount
  <2>3. attempts[r] \in Nat /\ Budget(r) BY DEF BudgetInv, CountInv, TypeOK, RowsOK
  <2> QED BY <2>2, <2>3, MaxAttemptsAssumption DEF Budget
<1> QED BY <1>1, <1>2, BudgetStep, PTL DEF Spec

-----------------------------------------------------------------------------
(* Graceful stops *)

\* Without crashes and lost statements the worker of the latest claim keeps
\* the job until it has settled its row.
LEMMA HolderStays ==
    ASSUME TypeOK, [Next]_vars, crashes' = 0, faults' = 0,
           NEW r \in Runs, jobStatus[r] = "running", jobStatus'[r] = "running",
           \A q \in Runs : \A v \in Workers : ~Claim(v, q),
           NEW w \in Workers, Holds(w, r)
    PROVE  Holds(w, r)' /\ seen'[w] = seen[w]
<1> DEFINE Stays == Holds(w, r)' /\ seen'[w] = seen[w]
<1>1. faults \in Nat /\ crashes \in Nat BY DEF TypeOK, BudgetsOK
<1>2. ASSUME UNCHANGED workerVars PROVE Stays BY <1>2 DEF Holds
<1>3. ASSUME NEW v \in Workers, WorkerStep(v) PROVE Stays
  <2>1. CASE ExecuteJob(v) BY <2>1 DEF ExecuteJob, Holds, TypeOK, WorkersOK
  <2>2. CASE SettleJob(v)
    <3>1. v # w
      BY <2>2 DEF SettleJob, FinishRunUpdatesJob, RetryUpdatesJob, FailUpdatesJob,
                  Holds, TypeOK, RowsOK
    <3> QED BY <2>2, <3>1 DEF SettleJob, FinishRunUpdatesJob, RetryUpdatesJob,
                  FailUpdatesJob, JobUpdated, Holds, TypeOK, WorkersOK
  <2>3. CASE SettleRun(v)
    BY <2>3 DEF SettleRun, FinishRunUpdatesRun, RetryUpdatesRun, FailUpdatesRun, RunUpdated,
                Leave, Holds, TypeOK, WorkersOK
  <2>4. CASE WorkerExit(v) BY <2>4 DEF WorkerExit, Holds, TypeOK, WorkersOK
  <2>5. ASSUME LoseJobUpdate(v) \/ LoseRunUpdate(v) PROVE FALSE
    BY <1>1, <2>5 DEF LoseJobUpdate, LoseRunUpdate
  <2> QED BY <1>3, <2>1, <2>2, <2>3, <2>4, <2>5 DEF WorkerStep, Claim
<1>4. ASSUME NEW a \in Agents, AgentStep(a) PROVE Stays
  <2>1. ~CrashAgent(a) BY <1>1 DEF CrashAgent
  <2>2. CASE StartAgent(a)
    <3>1. AgentOf[w] # a BY <2>2 DEF StartAgent, Holds, TypeOK, WorkersOK
    <3> QED BY <2>2, <3>1 DEF StartAgent, Holds, TypeOK, WorkersOK
  <2> QED BY <1>2, <1>4, <2>1, <2>2
      DEF AgentStep, ReleaseExpiredLeases, SnapshotRows, ResetRuns, LoseReset,
          StopAgent, AgentExit
<1>5. CASE CleanupOldJobs BY <1>2, <1>5 DEF CleanupOldJobs
<1>6. ASSUME NEW q \in Runs, CreateRun(q) \/ LeaseExpires(q) \/ BecomesDue(q) PROVE Stays
  BY <1>2, <1>6 DEF CreateRun, LeaseExpires, BecomesDue
<1>7. CASE UNCHANGED vars BY <1>2, <1>7 DEF vars
<1> QED BY <1>3, <1>4, <1>5, <1>6, <1>7 DEF Next

\* A claim alone makes a job running.
LEMMA OnlyClaimsRun ==
    ASSUME TypeOK, [Next]_vars, NEW r \in Runs,
           jobStatus[r] # "running", jobStatus'[r] = "running"
    PROVE  \E v \in Workers : Claim(v, r)
<1> DEFINE Goal == \E v \in Workers : Claim(v, r)
<1>1. ASSUME NEW v \in Workers, WorkerStep(v) PROVE Goal
  <2>1. ASSUME NEW q \in Runs, Claim(v, q) PROVE Goal
    <3>1. q = r BY <2>1, WithClaim DEF ClaimRows, TypeOK, RowsOK
    <3> QED BY <2>1, <3>1
  <2>2. ~SettleJob(v)
    BY DEF SettleJob, FinishRunUpdatesJob, RetryUpdatesJob, FailUpdatesJob, TypeOK, RowsOK
  <2> QED BY <1>1, <2>1, <2>2
      DEF WorkerStep, Claim, ExecuteJob, LoseJobUpdate, LoseRunUpdate, WorkerExit,
          SettleRun, FinishRunUpdatesRun, RetryUpdatesRun, FailUpdatesRun, RunUpdated
<1>2. ASSUME NEW a \in Agents, AgentStep(a) PROVE FALSE
  BY <1>2 DEF AgentStep, ReleaseExpiredLeases, SnapshotRows, ResetRuns, LoseReset,
              StopAgent, AgentExit, CrashAgent, StartAgent
<1>3. ASSUME NEW q \in Runs, CreateRun(q) \/ LeaseExpires(q) \/ BecomesDue(q) PROVE FALSE
  BY <1>3 DEF CreateRun, LeaseExpires, BecomesDue, TypeOK, RowsOK
<1>4. CASE CleanupOldJobs BY <1>4 DEF CleanupOldJobs
<1>5. CASE UNCHANGED vars BY <1>5 DEF vars
<1> QED BY <1>1, <1>2, <1>3, <1>4, <1>5 DEF Next

LEMMA BudgetsGrow ==
    ASSUME TypeOK, [Next]_vars
    PROVE  (crashes' = 0 => crashes = 0) /\ (faults' = 0 => faults = 0)
<1>1. crashes \in Nat /\ faults \in Nat BY DEF TypeOK, BudgetsOK
<1> QED BY <1>1
    DEF Next, vars, CreateRun, LeaseExpires, BecomesDue, CleanupOldJobs, WorkerStep,
        ProcessNextJob, ClaimUnacknowledged, ExecuteJob, SettleJob, FinishRunUpdatesJob,
        RetryUpdatesJob, FailUpdatesJob, JobUpdated, LoseJobUpdate, SettleRun,
        FinishRunUpdatesRun, RetryUpdatesRun, FailUpdatesRun, RunUpdated, LoseRunUpdate,
        WorkerExit, AgentStep, ReleaseExpiredLeases, SnapshotRows, ResetRuns, LoseReset,
        StopAgent, AgentExit, CrashAgent, StartAgent

LEMMA HeldStep == TypeOK /\ RunningIsHeld /\ [Next]_vars => RunningIsHeld'
<1> SUFFICES ASSUME TypeOK, RunningIsHeld, [Next]_vars, crashes' = 0, faults' = 0,
                    NEW r \in Runs, jobStatus'[r] = "running"
             PROVE  \E w \in Workers : Holds(w, r)' /\ seen'[w] + 1 = attempts'[r]
  BY DEF RunningIsHeld, Holders
<1>1. jobStatus[r] = "running"
        => \E w \in Workers : Holds(w, r) /\ seen[w] + 1 = attempts[r]
  BY BudgetsGrow DEF RunningIsHeld, Holders
<1>2. ASSUME \A q \in Runs : \A v \in Workers : ~Claim(v, q)
      PROVE  \E w \in Workers : Holds(w, r)' /\ seen'[w] + 1 = attempts'[r]
  <2>1. jobStatus[r] = "running" BY <1>2, OnlyClaimsRun
  <2>2. PICK w \in Workers : Holds(w, r) /\ seen[w] + 1 = attempts[r] BY <1>1, <2>1
  <2> QED BY <1>2, <2>1, <2>2, HolderStays, WithoutClaim
<1>3. ASSUME NEW v \in Workers, NEW q \in Runs, Claim(v, q)
      PROVE  \E w \in Workers : Holds(w, r)' /\ seen'[w] + 1 = attempts'[r]
  <2>1. ProcessNextJob(v, q)
    <3>1. faults \in Nat BY DEF TypeOK, BudgetsOK
    <3> QED BY <1>3, <3>1 DEF Claim, ClaimUnacknowledged
  <2>2. CASE q = r
    BY <2>1, <2>2 DEF ProcessNextJob, ClaimRows, Holds, TypeOK, RowsOK, WorkersOK
  <2>3. CASE q # r
    <3>1. jobStatus[r] = "running"
      BY <2>1, <2>3 DEF ProcessNextJob, ClaimRows, TypeOK, RowsOK
    <3>2. PICK w \in Workers : Holds(w, r) /\ seen[w] + 1 = attempts[r] BY <1>1, <3>1
    <3>3. w # v BY <2>1, <3>2 DEF ProcessNextJob, Holds
    <3>4. attempts'[r] = attempts[r] BY <1>3, <2>3, WithClaim
    <3> QED BY <2>1, <3>2, <3>3, <3>4 DEF ProcessNextJob, Holds, TypeOK, WorkersOK
  <2> QED BY <2>2, <2>3
<1> QED BY <1>2, <1>3

\* However often agents are stopped and started, a running job has the worker
\* of its latest claim.
THEOREM StopsStrandNothing == Spec => []RunningIsHeld
<1>1. Init => RunningIsHeld BY DEF Init, RunningIsHeld
<1>2. TypeOK /\ TypeOK' /\ RunningIsHeld /\ [Next]_vars => RunningIsHeld' BY HeldStep
<1> QED BY <1>1, <1>2, TypeCorrect, PTL DEF Spec
=============================================================================
