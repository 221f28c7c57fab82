---------------------- MODULE JobQueueExclusionProofs ----------------------
(***************************************************************************)
(* Proofs about the job queue when no execution outlives its lease:        *)
(* exclusive execution, finality of jobs, the retry budget, and what a     *)
(* client reads from `runs` when no statement is lost.                     *)
(***************************************************************************)
EXTENDS JobQueueProofs

USE WorkersAssumption, NoRunAssumption, BudgetsAssumption
USE DEF rowVars, workerVars, agentVars, budgetVars,
        JobStatuses, RunStatuses, Terminal, Verdicts, Outcomes

\* The retry budget, strengthened to be inductive: an executing worker is the
\* latest claimant, and a queued job has been executed at most max_attempts
\* times.
Tries ==
    \A r \in Runs :
        /\ \A w \in Holders(r) : attempts[r] = seen[w] + 1
        /\ jobStatus[r] = "queued" => attempts[r] <= MaxAttempts
        /\ attempts[r] <= MaxAttempts + 1

ExclusionInv == CountInv /\ ExclusiveExecution /\ Tries

\* A row that is held, and stays so, is touched by nobody.
LEMMA HeldUntouched ==
    ASSUME ~Overruns, ExclusionInv, [Next]_vars,
           NEW w \in Workers, NEW r \in Runs, Holds(w, r), Holds(w, r)'
    PROVE  jobStatus'[r] = "running" /\ lease'[r] = "live" /\ attempts'[r] = attempts[r]
                                     /\ seen'[w] = seen[w]
<1> USE DEF ExclusionInv, CountInv
<1>1. /\ jobStatus[r] = "running" /\ lease[r] = "live"
      /\ \A v \in Workers : Holds(v, r) => v = w
  BY DEF ExclusiveExecution, Holders
<1>2. AtWork(w, r) /\ AtWork(w, r)' BY DEF Holds, AtWork
<1>3. ASSUME NEW v \in Workers, NEW q \in Runs, Claim(v, q)
      PROVE  /\ jobStatus'[r] = "running" /\ lease'[r] = "live" /\ attempts'[r] = attempts[r]
             /\ seen'[w] = seen[w]
  <2>1. q # r BY <1>1, <1>3, WithClaim DEF ClaimRows, Claimable
  <2> QED BY <1>1, <1>2, <1>3, <2>1, WithClaim DEF ClaimRows, TypeOK, RowsOK
<1>4. CASE \A v \in Workers : \A q \in Runs : ~Claim(v, q)
  <2>1. attempts'[r] = attempts[r] /\ seen'[w] = seen[w]
    BY <1>2, <1>4, WithoutClaim
  <2> DEFINE Same == jobStatus'[r] = jobStatus[r] /\ lease'[r] = lease[r]
  <2>2. ASSUME NEW v \in Workers, WorkerStep(v) PROVE Same
    <3>1. CASE SettleJob(v)
      <4>1. cur[v] \in Runs /\ Holds(v, cur[v]) /\ pc'[v] = "runUpdate"
        BY <3>1 DEF SettleJob, FinishRunUpdatesJob, RetryUpdatesJob, FailUpdatesJob,
                    JobUpdated, Holds, TypeOK, WorkersOK
      <4>2. cur[v] # r BY <1>1, <4>1 DEF Holds
      <4> QED BY <3>1, <4>2 DEF SettleJob, FinishRunUpdatesJob, RetryUpdatesJob,
                    FailUpdatesJob, JobUpdated, TypeOK, RowsOK
    <3> QED BY <1>4, <2>2, <3>1
        DEF WorkerStep, Claim, ExecuteJob, LoseJobUpdate, LoseRunUpdate, WorkerExit,
            SettleRun, FinishRunUpdatesRun, RetryUpdatesRun, FailUpdatesRun, RunUpdated
  <2>3. ASSUME NEW a \in Agents, AgentStep(a) PROVE Same
    <3>1. CASE ReleaseExpiredLeases(a)
      BY <1>1, <3>1 DEF ReleaseExpiredLeases, Releasable, TypeOK, RowsOK
    <3> QED BY <2>3, <3>1
        DEF AgentStep, SnapshotRows, ResetRuns, LoseReset, StopAgent, AgentExit,
            CrashAgent, StartAgent
  <2>4. ASSUME CleanupOldJobs PROVE Same BY <1>1, <2>4 DEF CleanupOldJobs, TypeOK, RowsOK
  <2>5. ASSUME NEW q \in Runs, CreateRun(q) PROVE Same
    <3>1. q # r BY <1>1, <2>5 DEF CreateRun, Fresh
    <3> QED BY <2>5, <3>1 DEF CreateRun, TypeOK, RowsOK
  <2>6. ASSUME NEW q \in Runs, LeaseExpires(q) PROVE Same
    <3>1. q # r BY <2>6 DEF LeaseExpires, Holders
    <3> QED BY <2>6, <3>1 DEF LeaseExpires, TypeOK, RowsOK
  <2>7. ASSUME NEW q \in Runs, BecomesDue(q) PROVE Same BY <2>7 DEF BecomesDue
  <2>8. ASSUME UNCHANGED vars PROVE Same BY <2>8 DEF vars
  <2>9. Same BY <2>2, <2>3, <2>4, <2>5, <2>6, <2>7, <2>8 DEF Next
  <2> QED BY <1>1, <2>1, <2>9
<1> QED BY <1>3, <1>4

LEMMA ExclusionStep ==
    ASSUME ~Overruns, ExclusionInv, [Next]_vars
    PROVE  ExclusiveExecution' /\ \A r \in Runs : \A w \in Workers :
                                    Holds(w, r)' => attempts'[r] = seen'[w] + 1
<1> USE DEF ExclusionInv, CountInv
<1> DEFINE HeldOk(w, r) == /\ jobStatus'[r] = "running" /\ lease'[r] = "live"
                           /\ attempts'[r] = seen'[w] + 1
<1>0. ASSUME NEW w \in Workers, NEW r \in Runs, Holds(w, r), Holds(w, r)'
      PROVE  HeldOk(w, r)
  BY <1>0, HeldUntouched DEF Tries, Holders
<1>1. CASE \A w \in Workers : \A q \in Runs : ~Claim(w, q)
  <2>1. \A w \in Workers : \A r \in Runs : Holds(w, r)' => Holds(w, r)
    BY <1>1, WithoutClaim
  <2> QED BY <1>0, <2>1 DEF ExclusiveExecution, Holders
<1>2. ASSUME NEW v \in Workers, NEW q \in Runs, Claim(v, q)
      PROVE  ExclusiveExecution' /\ \A r \in Runs : \A w \in Workers :
                                      Holds(w, r)' => attempts'[r] = seen'[w] + 1
  <2>1. \A w \in Workers : ~Holds(w, q)
    BY <1>2, WithClaim DEF ClaimRows, Claimable, ExclusiveExecution, Holders
  <2>2. \A w \in Workers : \A r \in Runs : Holds(w, r)' =>
           \/ w = v /\ r = q /\ seen'[v] = attempts[q]
           \/ Holds(w, r) /\ r # q
    BY <1>2, <2>1, WithClaim
  <2>3. jobStatus'[q] = "running" /\ lease'[q] = "live" /\ attempts'[q] = attempts[q] + 1
    BY <1>2, WithClaim DEF ClaimRows, TypeOK, RowsOK
  <2>4. seen[v] \in Nat /\ \A w \in Workers : \A r \in Runs : Holds(w, r)' => HeldOk(w, r)
    BY <1>0, <2>2, <2>3 DEF TypeOK, WorkersOK
  <2>5. \A r \in Runs : \A w, x \in Workers : Holds(w, r)' /\ Holds(x, r)' => w = x
    BY <2>2 DEF ExclusiveExecution, Holders
  <2> QED BY <2>4, <2>5 DEF ExclusiveExecution, Holders
<1> QED BY <1>1, <1>2

\* A step changes the attempts or makes a job queued as Tries allows.
LEMMA TriesStep ==
    ASSUME ~Overruns, ExclusionInv, [Next]_vars
    PROVE  Tries'
<1> USE DEF ExclusionInv, CountInv
<1> SUFFICES ASSUME NEW r \in Runs
             PROVE  /\ jobStatus'[r] = "queued" => attempts'[r] <= MaxAttempts
                    /\ attempts'[r] <= MaxAttempts + 1
  BY ExclusionStep DEF Tries, Holders
<1>1. attempts[r] \in Nat /\ attempts[r] <= MaxAttempts + 1
      /\ (jobStatus[r] = "queued" => attempts[r] <= MaxAttempts)
  BY DEF Tries, TypeOK, RowsOK
<1>2. CASE \A w \in Workers : \A q \in Runs : ~Claim(w, q)
  <2>1. attempts'[r] = attempts[r] BY <1>2, WithoutClaim
  <2>2. ASSUME jobStatus[r] # "queued", jobStatus'[r] = "queued",
               NEW w \in Workers, w \in Retriers(r)
        PROVE  attempts[r] <= MaxAttempts
    <3>1. attempts[r] = seen[w] + 1 /\ seen[w] \in Nat /\ seen[w] < MaxAttempts
      BY <2>2 DEF Retriers, MayRetry, Tries, Holders, TypeOK, WorkersOK
    <3> QED BY <3>1, MaxAttemptsAssumption
  <2>3. jobStatus[r] # "queued" /\ jobStatus'[r] = "queued" => attempts[r] <= MaxAttempts
    BY <1>1, <2>2, Requeue, MaxAttemptsAssumption DEF Retriers
  <2> QED BY <1>1, <2>1, <2>3
<1>3. ASSUME NEW v \in Workers, NEW q \in Runs, Claim(v, q)
      PROVE  /\ jobStatus'[r] = "queued" => attempts'[r] <= MaxAttempts
             /\ attempts'[r] <= MaxAttempts + 1
  <2>1. CASE r = q
    <3>1. jobStatus'[r] = "running" /\ attempts'[r] = attempts[r] + 1 /\ attempts[r] <= MaxAttempts
      BY <1>1, <1>3, <2>1, WithClaim DEF ClaimRows, Claimable, TypeOK, RowsOK
    <3> QED BY <1>1, <3>1, MaxAttemptsAssumption
  <2>2. CASE r # q
    BY <1>1, <1>3, <2>2, WithClaim DEF ClaimRows, TypeOK, RowsOK
  <2> QED BY <2>1, <2>2
<1> QED BY <1>2, <1>3

LEMMA ExclusionInit == Init => ExclusionInv
<1> SUFFICES ASSUME Init PROVE ExclusionInv
  OBVIOUS
<1>1. \A r \in Runs : Holders(r) = {} BY DEF Init, Holders, Holds
<1> QED BY <1>1, CountInit, MaxAttemptsAssumption
    DEF Init, ExclusionInv, ExclusiveExecution, Tries

THEOREM ExclusionInvariant ==
    ASSUME ~Overruns
    PROVE  Spec => []ExclusionInv
<1>1. ExclusionInv /\ [Next]_vars => ExclusionInv'
  <2> SUFFICES ASSUME ExclusionInv, [Next]_vars PROVE ExclusionInv'
    OBVIOUS
  <2>1. CountInv' BY CountStep DEF ExclusionInv
  <2> QED BY <2>1, ExclusionStep, TriesStep DEF ExclusionInv
<1> QED BY <1>1, ExclusionInit, PTL DEF Spec

\* Two workers never execute one job, and an executing worker's row is
\* running under a live lease.
THEOREM OneWorkerPerJob ==
    ASSUME ~Overruns
    PROVE  Spec => []ExclusiveExecution
<1>1. ExclusionInv => ExclusiveExecution BY DEF ExclusionInv
<1> QED BY <1>1, ExclusionInvariant, PTL

\* A job is executed at most max_attempts + 1 times.
THEOREM OneAttemptTooMany ==
    ASSUME ~Overruns
    PROVE  Spec => []TriesWithinRetryBudget
<1>1. ExclusionInv => TriesWithinRetryBudget BY DEF ExclusionInv, Tries, TriesWithinRetryBudget
<1> QED BY <1>1, ExclusionInvariant, PTL

LEMMA FinalStep ==
    ASSUME ExclusionInv, [Next]_vars, NEW r \in Runs, jobStatus[r] \in {"done", "failed"}
    PROVE  jobStatus'[r] \in {jobStatus[r], "none"}
<1> USE DEF ExclusionInv, CountInv
<1> DEFINE Kept == jobStatus'[r] \in {jobStatus[r], "none"}
<1>1. ASSUME NEW v \in Workers, WorkerStep(v) PROVE Kept
  <2>1. ASSUME NEW q \in Runs, Claim(v, q) PROVE Kept
    BY <2>1, WithClaim DEF ClaimRows, Claimable, TypeOK, RowsOK
  <2>2. CASE SettleJob(v)
    <3>1. cur[v] \in Runs /\ Holds(v, cur[v])
      BY <2>2 DEF SettleJob, FinishRunUpdatesJob, RetryUpdatesJob, FailUpdatesJob,
                  Holds, TypeOK, WorkersOK
    <3>2. cur[v] # r BY <3>1 DEF ExclusiveExecution, Holders
    <3> QED BY <2>2, <3>2 DEF SettleJob, FinishRunUpdatesJob, RetryUpdatesJob,
                  FailUpdatesJob, TypeOK, RowsOK
  <2> QED BY <1>1, <2>1, <2>2
      DEF WorkerStep, Claim, ExecuteJob, LoseJobUpdate, LoseRunUpdate, WorkerExit,
          SettleRun, FinishRunUpdatesRun, RetryUpdatesRun, FailUpdatesRun, RunUpdated
<1>2. ASSUME NEW a \in Agents, AgentStep(a) PROVE Kept
  BY <1>2 DEF AgentStep, ReleaseExpiredLeases, Releasable, SnapshotRows, ResetRuns,
              LoseReset, StopAgent, AgentExit, CrashAgent, StartAgent
<1>3. CASE CleanupOldJobs BY <1>3 DEF CleanupOldJobs
<1>4. ASSUME NEW q \in Runs, CreateRun(q) PROVE Kept
  BY <1>4 DEF CreateRun, Fresh, TypeOK, RowsOK
<1>5. ASSUME NEW q \in Runs, LeaseExpires(q) \/ BecomesDue(q) PROVE Kept
  BY <1>5 DEF LeaseExpires, BecomesDue
<1>6. CASE UNCHANGED vars BY <1>6 DEF vars
<1> QED BY <1>1, <1>2, <1>3, <1>4, <1>5, <1>6 DEF Next

\* A settled job is never claimed, retried, released or settled again.
THEOREM SettledOnce ==
    ASSUME ~Overruns
    PROVE  Spec => JobFinal
<1>1. ExclusionInv /\ [Next]_vars =>
        [\A r \in Runs : jobStatus[r] \in {"done", "failed"}
                         => jobStatus'[r] \in {jobStatus[r], "none"}]_vars
  BY FinalStep
<1> QED BY <1>1, ExclusionInvariant, PTL DEF Spec, JobFinal

-----------------------------------------------------------------------------
(* A run's outcome *)

\* The worker has settled r's job and has still to give r its final status.
Settling(w, r) ==
    cur[w] = r /\ pc[w] = "runUpdate" /\ (result[w] # "error" \/ ~MayRetry(w))

Settled(r)  == jobStatus[r] \in {"done", "failed"}
Coherent(r) ==
    /\ runStatus[r] = "passed" => exitCode[r] = "zero"
    /\ runStatus[r] = "failed" => exitCode[r] = "nonzero"
    /\ runStatus[r] \in {"timeout", "error"} => exitCode[r] = "null"

\* A job is settled by one worker, and while it is not settled, or that worker
\* is not done, the run has no outcome.
Outcome(r) ==
    /\ Coherent(r)
    /\ runStatus[r] \in Terminal => Settled(r) \/ jobStatus[r] = "none"
    /\ runStatus[r] = "none" \/ jobStatus[r] \in {"queued", "running"} => exitCode[r] = "null"
    /\ \A w \in Workers : Settling(w, r) =>
         /\ Settled(r) /\ runStatus[r] \notin Terminal /\ exitCode[r] = "null"
         /\ \A v \in Workers : Settling(v, r) => v = w

OutcomeInv == faults = 0 => \A r \in Runs : Outcome(r)

\* Steps that give the run no final status and settle no job.
LEMMA OutcomeKept ==
    ASSUME NEW r \in Runs, Outcome(r), exitCode'[r] = exitCode[r],
           runStatus'[r] = runStatus[r] \/ runStatus'[r] \in {"pending", "running"},
           \A w \in Workers : Settling(w, r)' => Settling(w, r),
           \/ jobStatus'[r] = jobStatus[r]
           \/ jobStatus[r] \in {"queued", "running"} /\ jobStatus'[r] \in {"queued", "running"}
           \/ jobStatus'[r] = "none" /\ \A w \in Workers : ~Settling(w, r)
    PROVE  Outcome(r)'
<1>1. Coherent(r)' BY DEF Outcome, Coherent
<1>2. /\ runStatus'[r] \in Terminal => Settled(r)' \/ jobStatus'[r] = "none"
      /\ runStatus'[r] = "none" \/ jobStatus'[r] \in {"queued", "running"}
           => exitCode'[r] = "null"
  BY DEF Outcome, Settled
<1>3. ASSUME NEW w \in Workers, Settling(w, r)'
      PROVE  /\ Settled(r)' /\ runStatus'[r] \notin Terminal /\ exitCode'[r] = "null"
             /\ \A v \in Workers : Settling(v, r)' => v = w
  BY <1>3 DEF Outcome, Settled
<1> QED BY <1>1, <1>2, <1>3 DEF Outcome

\* The worker that settles a job, on whose run nobody else is settling.
LEMMA SettleJobOutcome ==
    ASSUME ~Overruns, ExclusionInv, NEW r \in Runs, Outcome(r), NEW v \in Workers, SettleJob(v)
    PROVE  Outcome(r)'
<1> USE DEF ExclusionInv, CountInv
<1>1. /\ Holds(v, cur[v]) /\ cur[v] \in Runs
      /\ pc' = [pc EXCEPT ![v] = "runUpdate"] /\ UNCHANGED <<cur, seen, result, runStatus, exitCode>>
  BY DEF SettleJob, FinishRunUpdatesJob, RetryUpdatesJob, FailUpdatesJob, JobUpdated,
         Holds, TypeOK, WorkersOK
<1>2. \A w \in Workers : w # v => (Settling(w, r)' <=> Settling(w, r))
  BY <1>1 DEF Settling, MayRetry, TypeOK, WorkersOK
<1>3. ~Settling(v, r) BY <1>1 DEF Settling, Holds
<1>4. CASE cur[v] # r
  <2>1. jobStatus'[r] = jobStatus[r]
    BY <1>4 DEF SettleJob, FinishRunUpdatesJob, RetryUpdatesJob, FailUpdatesJob, TypeOK, RowsOK
  <2>2. ~Settling(v, r)' BY <1>1, <1>4 DEF Settling
  <2> QED BY <1>1, <1>2, <2>1, <2>2, OutcomeKept
<1>5. CASE cur[v] = r
  <2>1. jobStatus[r] = "running" BY <1>1, <1>5 DEF ExclusiveExecution, Holders
  <2>2. exitCode[r] = "null" /\ runStatus[r] \notin Terminal
        /\ \A w \in Workers : ~Settling(w, r)
    BY <2>1 DEF Outcome, Settled
  <2>3. CASE RetryUpdatesJob(v)
    <3>1. jobStatus'[r] = "queued" /\ ~Settling(v, r)'
      BY <1>1, <1>5, <2>3 DEF RetryUpdatesJob, Settling, MayRetry, TypeOK, RowsOK
    <3> QED BY <1>1, <1>2, <2>1, <3>1, OutcomeKept
  <2>4. CASE FinishRunUpdatesJob(v) \/ FailUpdatesJob(v)
    <3>1. Settled(r)'
      BY <1>5, <2>4 DEF FinishRunUpdatesJob, FailUpdatesJob, Settled, TypeOK, RowsOK
    <3>2. Coherent(r)' BY <1>1 DEF Outcome, Coherent
    <3>3. \A w \in Workers : Settling(w, r)' => w = v BY <1>2, <2>2
    <3>4. jobStatus'[r] \notin {"queued", "running"} BY <3>1 DEF Settled
    <3> QED BY <1>1, <2>2, <3>1, <3>2, <3>3, <3>4 DEF Outcome
  <2> QED BY <2>3, <2>4 DEF SettleJob
<1> QED BY <1>4, <1>5

\* Its second statement ends the run; a retrying worker's does not.
LEMMA SettleRunOutcome ==
    ASSUME ExclusionInv, NEW r \in Runs, Outcome(r), NEW v \in Workers, SettleRun(v)
    PROVE  Outcome(r)'
<1> USE DEF ExclusionInv, CountInv
<1>1. /\ cur[v] \in Runs /\ pc[v] = "runUpdate" /\ Leave(v) /\ UNCHANGED jobStatus
      /\ result[v] \in Outcomes
  BY DEF SettleRun, FinishRunUpdatesRun, RetryUpdatesRun, FailUpdatesRun, RunUpdated,
         TypeOK, WorkersOK
<1>2. \A w \in Workers : w # v => (Settling(w, r)' <=> Settling(w, r))
  BY <1>1 DEF Leave, Settling, MayRetry, TypeOK, WorkersOK
<1>3. ~Settling(v, r)' BY <1>1 DEF Leave, Settling, TypeOK, WorkersOK
<1>4. CASE cur[v] # r
  <2>1. runStatus'[r] = runStatus[r] /\ exitCode'[r] = exitCode[r]
    BY <1>4 DEF SettleRun, FinishRunUpdatesRun, RetryUpdatesRun, FailUpdatesRun, TypeOK, RowsOK
  <2> QED BY <1>1, <1>2, <1>3, <2>1, OutcomeKept
<1>5. CASE cur[v] = r /\ RetryUpdatesRun(v)
  <2>1. runStatus'[r] = "pending" /\ exitCode'[r] = exitCode[r]
    BY <1>5 DEF RetryUpdatesRun, TypeOK, RowsOK
  <2> QED BY <1>1, <1>2, <1>3, <2>1, OutcomeKept
<1>6. CASE cur[v] = r /\ (FinishRunUpdatesRun(v) \/ FailUpdatesRun(v))
  <2>1. Settling(v, r)
    BY <1>1, <1>6 DEF Settling, FinishRunUpdatesRun, FailUpdatesRun
  <2>2. Settled(r)' /\ exitCode[r] = "null" /\ \A w \in Workers : ~Settling(w, r)'
    BY <1>1, <1>2, <1>3, <2>1 DEF Outcome, Settled
  <2>3. Coherent(r)'
    <3>1. CASE FinishRunUpdatesRun(v)
      <4>1. /\ runStatus'[r] = result[v] /\ exitCode'[r] = ExitCodeOf(result[v])
            /\ result[v] \in Verdicts
        BY <1>1, <1>6, <3>1 DEF FinishRunUpdatesRun, TypeOK, RowsOK
      <4> QED BY <4>1 DEF Coherent, ExitCodeOf
    <3>2. CASE FailUpdatesRun(v)
      <4>1. runStatus'[r] = "error" /\ exitCode'[r] = exitCode[r]
        BY <1>6, <3>2 DEF FailUpdatesRun, TypeOK, RowsOK
      <4> QED BY <2>2, <4>1 DEF Coherent
    <3> QED BY <1>6, <3>1, <3>2
  <2>4. runStatus'[r] # "none"
    BY <1>1, <1>6 DEF FinishRunUpdatesRun, FailUpdatesRun, TypeOK, RowsOK
  <2>5. jobStatus'[r] \notin {"queued", "running"} BY <2>2 DEF Settled
  <2> QED BY <2>2, <2>3, <2>4, <2>5 DEF Outcome
<1> QED BY <1>4, <1>5, <1>6 DEF SettleRun

LEMMA WorkerOutcome ==
    ASSUME ~Overruns, ExclusionInv, NEW r \in Runs, Outcome(r), NEW v \in Workers,
           WorkerStep(v), faults' = faults
    PROVE  Outcome(r)'
<1> USE DEF ExclusionInv, CountInv
<1>1. ASSUME NEW q \in Runs, ProcessNextJob(v, q) PROVE Outcome(r)'
  <2>1. \A w \in Workers : Settling(w, r)' => Settling(w, r)
    BY <1>1 DEF ProcessNextJob, Settling, MayRetry, TypeOK, WorkersOK
  <2>2. CASE q = r
    BY <1>1, <2>1, <2>2, OutcomeKept
       DEF ProcessNextJob, ClaimRows, Claimable, TypeOK, RowsOK
  <2>3. CASE q # r
    BY <1>1, <2>1, <2>3, OutcomeKept DEF ProcessNextJob, ClaimRows, TypeOK, RowsOK
  <2> QED BY <2>2, <2>3
<1>2. CASE ExecuteJob(v)
  <2>1. \A w \in Workers : Settling(w, r)' => Settling(w, r)
    BY <1>2 DEF ExecuteJob, Settling, MayRetry, TypeOK, WorkersOK
  <2> QED BY <1>2, <2>1, OutcomeKept DEF ExecuteJob
<1>3. CASE WorkerExit(v)
  <2>1. \A w \in Workers : Settling(w, r)' => Settling(w, r)
    BY <1>3 DEF WorkerExit, Settling, MayRetry, TypeOK, WorkersOK
  <2> QED BY <1>3, <2>1, OutcomeKept DEF WorkerExit
<1>4. ASSUME LoseJobUpdate(v) \/ LoseRunUpdate(v) \/ \E q \in Runs : ClaimUnacknowledged(v, q)
      PROVE  FALSE
  <2>1. faults \in Nat BY DEF TypeOK, BudgetsOK
  <2> QED BY <1>4, <2>1 DEF LoseJobUpdate, LoseRunUpdate, ClaimUnacknowledged
<1> QED BY <1>1, <1>2, <1>3, <1>4, SettleJobOutcome, SettleRunOutcome DEF WorkerStep

LEMMA AgentOutcome ==
    ASSUME ExclusionInv, NEW r \in Runs, Outcome(r), NEW a \in Agents, AgentStep(a)
    PROVE  Outcome(r)'
<1> USE DEF ExclusionInv, CountInv
<1>1. \A w \in Workers : Settling(w, r)' => Settling(w, r)
  <2>1. CASE CrashAgent(a)
    <3>1. \A w \in Workers : AgentOf[w] = a => cur'[w] = NoRun BY <2>1 DEF CrashAgent
    <3>2. \A w \in Workers : AgentOf[w] # a => /\ pc'[w] = pc[w] /\ cur'[w] = cur[w]
                                               /\ seen'[w] = seen[w] /\ result'[w] = result[w]
      BY <2>1 DEF CrashAgent
    <3> QED BY <3>1, <3>2 DEF Settling, MayRetry
  <2>2. CASE StartAgent(a)
    <3>1. \A w \in Workers : pc'[w] = pc[w] \/ pc'[w] = "idle" BY <2>2 DEF StartAgent
    <3> QED BY <2>2, <3>1 DEF StartAgent, Settling, MayRetry
  <2>3. ASSUME UNCHANGED workerVars PROVE \A w \in Workers : Settling(w, r)' => Settling(w, r)
    BY <2>3 DEF Settling, MayRetry
  <2> QED BY <2>1, <2>2, <2>3
      DEF AgentStep, ReleaseExpiredLeases, SnapshotRows, ResetRuns, LoseReset, StopAgent, AgentExit
<1>2. CASE ReleaseExpiredLeases(a)
  BY <1>1, <1>2, OutcomeKept DEF ReleaseExpiredLeases, Releasable
<1>3. CASE ResetRuns(a) BY <1>1, <1>3, OutcomeKept DEF ResetRuns
<1>4. ASSUME UNCHANGED rowVars PROVE Outcome(r)' BY <1>1, <1>4, OutcomeKept
<1> QED BY <1>2, <1>3, <1>4
    DEF AgentStep, SnapshotRows, LoseReset, StopAgent, AgentExit, CrashAgent, StartAgent

LEMMA OutcomeStep ==
    ASSUME ~Overruns, ExclusionInv, OutcomeInv, [Next]_vars
    PROVE  OutcomeInv'
<1> USE DEF ExclusionInv, CountInv
<1> SUFFICES ASSUME faults' = 0, NEW r \in Runs PROVE Outcome(r)'
  BY DEF OutcomeInv
<1>1. faults = 0 /\ Outcome(r) BY BudgetsGrow DEF OutcomeInv
<1>2. ASSUME UNCHANGED workerVars
      PROVE  \A w \in Workers : Settling(w, r)' => Settling(w, r)
  BY <1>2 DEF Settling, MayRetry
<1>3. ASSUME NEW q \in Runs, CreateRun(q) PROVE Outcome(r)'
  <2>1. CASE q = r
    <3>1. /\ exitCode[r] = "null" /\ jobStatus[r] = "none" /\ UNCHANGED <<exitCode, workerVars>>
          /\ runStatus'[r] = "pending" /\ jobStatus'[r] = "queued"
      BY <1>1, <1>3, <2>1 DEF CreateRun, Fresh, Outcome, TypeOK, RowsOK
    <3>2. \A w \in Workers : ~Settling(w, r)' BY <1>1, <1>2, <3>1 DEF Outcome, Settled
    <3> QED BY <3>1, <3>2 DEF Outcome, Coherent
  <2>2. CASE q # r
    BY <1>1, <1>2, <1>3, <2>2, OutcomeKept DEF CreateRun, TypeOK, RowsOK
  <2> QED BY <2>1, <2>2
<1>4. ASSUME NEW q \in Runs, LeaseExpires(q) \/ BecomesDue(q) PROVE Outcome(r)'
  BY <1>1, <1>2, <1>4, OutcomeKept DEF LeaseExpires, BecomesDue
<1>5. CASE CleanupOldJobs
  <2>1. \/ jobStatus'[r] = jobStatus[r]
        \/ jobStatus'[r] = "none" /\ \A w \in Workers : ~AtWork(w, r)
    BY <1>5 DEF CleanupOldJobs
  <2>2. \A w \in Workers : Settling(w, r) => AtWork(w, r) BY DEF Settling, AtWork
  <2>3. UNCHANGED <<runStatus, exitCode, workerVars>> BY <1>5 DEF CleanupOldJobs
  <2> QED BY <1>1, <1>2, <2>1, <2>2, <2>3, OutcomeKept
<1>6. CASE UNCHANGED vars BY <1>1, <1>2, <1>6, OutcomeKept DEF vars
<1> QED BY <1>1, <1>3, <1>4, <1>5, <1>6, WorkerOutcome, AgentOutcome DEF Next

THEOREM OutcomeInvariant ==
    ASSUME ~Overruns
    PROVE  Spec => []OutcomeInv
<1>1. Init => OutcomeInv
  BY DEF Init, OutcomeInv, Outcome, Coherent, Settling
<1>2. ExclusionInv /\ OutcomeInv /\ [Next]_vars => OutcomeInv'
  BY OutcomeStep
<1> QED BY <1>1, <1>2, ExclusionInvariant, PTL DEF Spec

\* A run's final status and its exit code are those of one execution.
THEOREM ResultsAreCoherent ==
    ASSUME ~Overruns
    PROVE  Spec => []ResultCoherent
<1>1. OutcomeInv => ResultCoherent BY DEF OutcomeInv, Outcome, Coherent, ResultCoherent
<1> QED BY <1>1, OutcomeInvariant, PTL

\* The job of a run with a final status is settled.
THEOREM FinishedRunsAreSettled ==
    ASSUME ~Overruns
    PROVE  Spec => []FinishedRunSettled
<1>1. OutcomeInv => FinishedRunSettled BY DEF OutcomeInv, Outcome, Settled, FinishedRunSettled
<1> QED BY <1>1, OutcomeInvariant, PTL

\* A final status changes only by the statement of a worker of an earlier
\* execution.
THEOREM StragglersAloneReopen ==
    ASSUME ~Overruns
    PROVE  Spec => OnlyStragglersReopen
<1>1. ASSUME ExclusionInv, OutcomeInv, [Next]_vars, faults = 0, NEW r \in Runs,
             runStatus[r] \in Terminal, runStatus'[r] # runStatus[r]
      PROVE  \E w \in Workers : cur[w] = r /\ pc[w] = "runUpdate"
  <2> USE DEF ExclusionInv, CountInv
  <2>1. jobStatus[r] \in {"done", "failed", "none"} BY <1>1 DEF OutcomeInv, Outcome, Settled
  <2>2. ASSUME NEW v \in Workers, WorkerStep(v)
        PROVE  \E w \in Workers : cur[w] = r /\ pc[w] = "runUpdate"
    <3>1. ASSUME NEW q \in Runs, Claim(v, q) PROVE FALSE
      <4>1. ClaimRows(q) BY <1>1, <3>1, WithClaim
      <4> QED BY <1>1, <2>1, <4>1 DEF ClaimRows, Claimable, TypeOK, RowsOK
    <3>2. ASSUME SettleRun(v) PROVE cur[v] = r /\ pc[v] = "runUpdate"
      BY <1>1, <3>2 DEF SettleRun, FinishRunUpdatesRun, RetryUpdatesRun, FailUpdatesRun,
                  TypeOK, RowsOK
    <3> QED BY <1>1, <2>2, <3>1, <3>2
        DEF WorkerStep, Claim, ExecuteJob, LoseJobUpdate, LoseRunUpdate, WorkerExit,
            SettleJob, FinishRunUpdatesJob, RetryUpdatesJob, FailUpdatesJob, JobUpdated
  <2>3. ASSUME NEW a \in Agents, AgentStep(a) PROVE FALSE
    BY <1>1, <2>3 DEF AgentStep, ReleaseExpiredLeases, SnapshotRows, ResetRuns,
              LoseReset, StopAgent, AgentExit, CrashAgent, StartAgent
  <2>4. ASSUME NEW q \in Runs, CreateRun(q) \/ LeaseExpires(q) \/ BecomesDue(q) PROVE FALSE
    BY <1>1, <2>4 DEF CreateRun, LeaseExpires, BecomesDue, TypeOK, RowsOK
  <2> QED BY <1>1, <2>2, <2>3, <2>4 DEF Next, vars, CleanupOldJobs
<1>2. ExclusionInv /\ OutcomeInv /\ [Next]_vars =>
        [faults = 0 => \A r \in Runs :
           runStatus[r] \in Terminal /\ runStatus'[r] # runStatus[r]
           => \E w \in Workers : cur[w] = r /\ pc[w] = "runUpdate"]_vars
  BY <1>1
<1> QED BY <1>2, ExclusionInvariant, OutcomeInvariant, PTL DEF Spec, OnlyStragglersReopen
=============================================================================
