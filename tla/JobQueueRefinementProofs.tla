---------------------- MODULE JobQueueRefinementProofs ----------------------
(***************************************************************************)
(* When no execution outlives its lease, the job queue implements the      *)
(* abstract queue LeaseQueue.  With overruns or without, it implements     *)
(* Executions for each of its runs.                                        *)
(***************************************************************************)
EXTENDS JobQueueExclusionProofs

USE WorkersAssumption, NoRunAssumption, BudgetsAssumption
USE DEF rowVars, workerVars, agentVars, budgetVars,
        JobStatuses, RunStatuses, Terminal, Verdicts, Outcomes

\* The owner of a job, before ...
LEMMA OwnerBefore ==
    ASSUME ExclusionInv, NEW r \in Runs
    PROVE  /\ (\A w \in Workers : ~Holds(w, r)) => QueueOwner[r] = NoRun
           /\ \A w \in Workers : Holds(w, r) => QueueOwner[r] = w
BY DEF ExclusionInv, ExclusiveExecution, QueueOwner, Holders

\* ... and after a step.
LEMMA OwnerAfter ==
    ASSUME ExclusionInv', NEW r \in Runs
    PROVE  /\ (\A w \in Workers : ~Holds(w, r)') => QueueOwner'[r] = NoRun
           /\ \A w \in Workers : Holds(w, r)' => QueueOwner'[r] = w
BY DEF ExclusionInv, ExclusiveExecution, QueueOwner, Holders

\* QueueOwner is a function of the jobs, before and after.
LEMMA OwnerOfJobs ==
    /\ QueueOwner = [r \in Runs |-> QueueOwner[r]]
    /\ QueueOwner' = [r \in Runs |-> QueueOwner'[r]]
<1>1. QueueOwner = [r \in Runs |-> QueueOwner[r]] BY DEF QueueOwner
<1>2. QueueOwner' = [r \in Runs |-> QueueOwner'[r]] BY DEF QueueOwner
<1> QED BY <1>1, <1>2

\* A job with the same holders keeps its owner.
LEMMA OwnerKept ==
    ASSUME ExclusionInv, ExclusionInv', NEW r \in Runs,
           \A w \in Workers : Holds(w, r)' <=> Holds(w, r)
    PROVE  QueueOwner'[r] = QueueOwner[r]
<1>1. CASE \A w \in Workers : ~Holds(w, r) BY <1>1, OwnerBefore, OwnerAfter
<1>2. CASE \E w \in Workers : Holds(w, r)
  <2>1. PICK w \in Workers : Holds(w, r) BY <1>2
  <2> QED BY <2>1, OwnerBefore, OwnerAfter
<1> QED BY <1>1, <1>2

\* Steps that touch neither jobs nor holders are invisible.
LEMMA Invisible ==
    ASSUME ExclusionInv, ExclusionInv', UNCHANGED <<jobStatus, attempts>>,
           \A r \in Runs : runStatus'[r] = "none" <=> runStatus[r] = "none",
           \A w \in Workers : \A r \in Runs : Holds(w, r)' <=> Holds(w, r)
    PROVE  UNCHANGED Abstract!vars
<1>1. QueueState' = QueueState BY DEF QueueState
<1>2. \A r \in Runs : QueueOwner'[r] = QueueOwner[r] BY OwnerKept
<1>3. QueueOwner' = QueueOwner BY <1>2, OwnerOfJobs
<1> QED BY <1>1, <1>3 DEF Abstract!vars

LEMMA CreateImplements ==
    ASSUME ExclusionInv, ExclusionInv', NEW r \in Runs, CreateRun(r)
    PROVE  Abstract!Enqueue(r)
<1>1. QueueState[r] = "absent" BY DEF CreateRun, ExclusionInv, CountInv, Fresh, QueueState
<1>2. QueueState' = [QueueState EXCEPT ![r] = "waiting"]
  BY DEF CreateRun, ExclusionInv, CountInv, TypeOK, RowsOK, QueueState
<1>3. \A q \in Runs : QueueOwner'[q] = QueueOwner[q]
  BY OwnerKept DEF CreateRun, Holds
<1>4. QueueOwner' = QueueOwner BY <1>3, OwnerOfJobs
<1> QED BY <1>1, <1>2, <1>4 DEF Abstract!Enqueue, CreateRun

LEMMA ClaimImplements ==
    ASSUME ExclusionInv, ExclusionInv', NEW v \in Workers, NEW q \in Runs, Claim(v, q)
    PROVE  \E o \in Workers \cup {NoRun} : Abstract!Grant(q, o)
<1> USE DEF ExclusionInv, CountInv
<1>1. ClaimRows(q) BY WithClaim
<1>2. QueueState[q] = "waiting" BY <1>1 DEF ClaimRows, Claimable, QueueState
<1>3. QueueState' = [QueueState EXCEPT ![q] = "held"]
  BY <1>1 DEF ClaimRows, Claimable, TypeOK, RowsOK, QueueState
<1>4. \A w \in Workers : ~Holds(w, q)
  BY <1>1 DEF ClaimRows, Claimable, ExclusiveExecution, Holders
<1>5. CASE ProcessNextJob(v, q)
  <2>1. \A w \in Workers : \A r \in Runs :
          Holds(w, r)' <=> (IF w = v THEN r = q ELSE Holds(w, r))
    BY <1>5 DEF ProcessNextJob, Holds, TypeOK, WorkersOK
  <2>2. \A r \in Runs : ~Holds(v, r) BY <1>5 DEF ProcessNextJob, Holds
  <2>3. QueueOwner'[q] = v BY <2>1, OwnerAfter
  <2>4. ASSUME NEW r \in Runs, r # q PROVE QueueOwner'[r] = QueueOwner[r]
    <3>1. \A w \in Workers : Holds(w, r)' <=> Holds(w, r) BY <2>1, <2>2, <2>4
    <3> QED BY <3>1, OwnerKept
  <2>5. QueueOwner' = [QueueOwner EXCEPT ![q] = v] BY <2>3, <2>4, OwnerOfJobs
  <2> QED BY <1>1, <1>2, <1>3, <2>5 DEF ClaimRows, Abstract!Grant
<1>6. CASE ClaimUnacknowledged(v, q)
  <2>1. \A w \in Workers : \A r \in Runs : Holds(w, r)' <=> Holds(w, r)
    BY <1>6 DEF ClaimUnacknowledged, Holds
  <2>2. QueueOwner'[q] = NoRun BY <1>4, <2>1, OwnerAfter
  <2>3. \A r \in Runs : r # q => QueueOwner'[r] = QueueOwner[r] BY <2>1, OwnerKept
  <2>4. QueueOwner' = [QueueOwner EXCEPT ![q] = NoRun] BY <2>2, <2>3, OwnerOfJobs
  <2> QED BY <1>1, <1>2, <1>3, <2>4 DEF ClaimRows, Abstract!Grant
<1> QED BY <1>5, <1>6 DEF Claim

\* The worker of a job row's update owned the job and gives it away.
LEMMA Handover ==
    ASSUME ExclusionInv, ExclusionInv', NEW v \in Workers,
           pc[v] = "jobUpdate", pc' = [pc EXCEPT ![v] = "runUpdate"], cur' = cur
    PROVE  /\ cur[v] \in Runs
           /\ jobStatus[cur[v]] = "running" /\ attempts[cur[v]] = seen[v] + 1
           /\ QueueOwner[cur[v]] = v
           /\ QueueOwner' = [QueueOwner EXCEPT ![cur[v]] = NoRun]
<1> USE DEF ExclusionInv, CountInv
<1>1. cur[v] \in Runs /\ Holds(v, cur[v]) BY DEF Holds, TypeOK, WorkersOK
<1>2. jobStatus[cur[v]] = "running" /\ attempts[cur[v]] = seen[v] + 1
  BY <1>1 DEF ExclusiveExecution, Holders, Tries
<1>3. \A w \in Workers : \A r \in Runs : Holds(w, r)' <=> (w # v /\ Holds(w, r))
  BY DEF Holds, TypeOK, WorkersOK
<1>4. \A w \in Workers : ~Holds(w, cur[v])'
  BY <1>1, <1>3 DEF ExclusiveExecution, Holders
<1>5. \A r \in Runs : r # cur[v] => ~Holds(v, r) BY DEF Holds
<1>6. QueueOwner'[cur[v]] = NoRun BY <1>1, <1>4, OwnerAfter
<1>7. \A r \in Runs : r # cur[v] => QueueOwner'[r] = QueueOwner[r]
  BY <1>3, <1>5, OwnerKept
<1>8. QueueOwner' = [QueueOwner EXCEPT ![cur[v]] = NoRun] BY <1>6, <1>7, OwnerOfJobs
<1> QED BY <1>1, <1>2, <1>8, OwnerBefore

LEMMA SettleImplements ==
    ASSUME ExclusionInv, ExclusionInv', NEW v \in Workers, SettleJob(v)
    PROVE  \E r \in Runs : \/ Abstract!Complete(r, v) \/ Abstract!Return(r, v)
                           \/ Abstract!GiveUp(r, v)
<1> USE DEF ExclusionInv, CountInv
<1>1. pc[v] = "jobUpdate" /\ JobUpdated(v)
  BY DEF SettleJob, FinishRunUpdatesJob, RetryUpdatesJob, FailUpdatesJob
<1>2. /\ cur[v] \in Runs
      /\ jobStatus[cur[v]] = "running" /\ attempts[cur[v]] = seen[v] + 1
      /\ QueueOwner[cur[v]] = v
      /\ QueueOwner' = [QueueOwner EXCEPT ![cur[v]] = NoRun]
  BY <1>1, Handover DEF JobUpdated
<1>3. QueueState[cur[v]] = "held" /\ UNCHANGED attempts
  BY <1>1, <1>2 DEF QueueState, JobUpdated
<1>4. seen[v] \in Nat BY DEF TypeOK, WorkersOK
<1>5. CASE FinishRunUpdatesJob(v)
  <2>1. QueueState' = [QueueState EXCEPT ![cur[v]] = "done"]
    BY <1>2, <1>5 DEF FinishRunUpdatesJob, JobUpdated, TypeOK, RowsOK, QueueState
  <2> QED BY <1>2, <1>3, <2>1 DEF Abstract!Complete, Abstract!Settle, Abstract!OwnedBy
<1>6. CASE RetryUpdatesJob(v)
  <2>1. QueueState' = [QueueState EXCEPT ![cur[v]] = "waiting"]
    BY <1>2, <1>6 DEF RetryUpdatesJob, JobUpdated, TypeOK, RowsOK, QueueState
  <2>2. attempts[cur[v]] <= MaxAttempts
    BY <1>2, <1>4, <1>6, MaxAttemptsAssumption DEF RetryUpdatesJob, MayRetry
  <2> QED BY <1>2, <1>3, <2>1, <2>2 DEF Abstract!Return, Abstract!Settle, Abstract!OwnedBy
<1>7. CASE FailUpdatesJob(v)
  <2>1. QueueState' = [QueueState EXCEPT ![cur[v]] = "failed"]
    BY <1>2, <1>7 DEF FailUpdatesJob, JobUpdated, TypeOK, RowsOK, QueueState
  <2>2. attempts[cur[v]] > MaxAttempts
    BY <1>2, <1>4, <1>7, MaxAttemptsAssumption DEF FailUpdatesJob, MayRetry
  <2> QED BY <1>2, <1>3, <2>1, <2>2 DEF Abstract!GiveUp, Abstract!Settle, Abstract!OwnedBy
<1> QED BY <1>5, <1>6, <1>7 DEF SettleJob

\* Where the holders of a job do not change, neither do the owners.
LEMMA SameOwners ==
    ASSUME ExclusionInv, ExclusionInv',
           \A w \in Workers : \A r \in Runs : Holds(w, r)' <=> Holds(w, r)
    PROVE  QueueOwner' = QueueOwner
<1>1. \A r \in Runs : QueueOwner'[r] = QueueOwner[r] BY OwnerKept
<1> QED BY <1>1, OwnerOfJobs

LEMMA ReleaseImplements ==
    ASSUME ExclusionInv, ExclusionInv', NEW a \in Agents, ReleaseExpiredLeases(a)
    PROVE  \E s \in SUBSET Runs : Abstract!Reclaim(s)
<1> USE DEF ExclusionInv, CountInv
<1> DEFINE rows == {r \in Runs : Releasable(r)}
<1>1. QueueOwner' = QueueOwner BY SameOwners DEF ReleaseExpiredLeases, Holds
<1>2. ASSUME NEW r \in rows
      PROVE  Abstract!OwnedBy(r, NoRun) /\ attempts[r] < MaxAttempts
  <2>1. \A w \in Workers : ~Holds(w, r)
    BY <1>2 DEF Releasable, ExclusiveExecution, Holders
  <2>2. QueueOwner[r] = NoRun BY <2>1, OwnerBefore
  <2> QED BY <1>2, <2>2 DEF Releasable, QueueState, Abstract!OwnedBy
<1>3. QueueState' = [r \in Runs |-> IF r \in rows THEN "waiting" ELSE QueueState[r]]
  BY DEF ReleaseExpiredLeases, QueueState
<1>4. Abstract!Reclaim(rows)
  BY <1>1, <1>2, <1>3 DEF ReleaseExpiredLeases, Abstract!Reclaim
<1> QED BY <1>4

LEMMA CleanupImplements ==
    ASSUME ExclusionInv, ExclusionInv', CleanupOldJobs
    PROVE  \E s \in SUBSET Runs : Abstract!Forget(s)
<1> USE DEF ExclusionInv, CountInv
<1>1. PICK rows \in SUBSET Runs :
        /\ \A r \in rows : jobStatus[r] \in {"done", "failed"}
        /\ jobStatus' = [r \in Runs |-> IF r \in rows THEN "none" ELSE jobStatus[r]]
  BY DEF CleanupOldJobs
<1>2. QueueOwner' = QueueOwner BY SameOwners DEF CleanupOldJobs, Holds
<1>3. \A r \in rows : runStatus[r] # "none" BY <1>1 DEF Fresh
<1>4. QueueState' = [r \in Runs |-> IF r \in rows THEN "forgotten" ELSE QueueState[r]]
  BY <1>1, <1>3 DEF CleanupOldJobs, QueueState
<1>5. \A r \in rows : QueueState[r] \in {"done", "failed"} BY <1>1 DEF QueueState
<1>6. Abstract!Forget(rows)
  BY <1>2, <1>4, <1>5 DEF CleanupOldJobs, Abstract!Forget
<1> QED BY <1>6

LEMMA LostUpdateImplements ==
    ASSUME ExclusionInv, ExclusionInv', NEW v \in Workers, LoseJobUpdate(v)
    PROVE  \E s \in SUBSET Runs : Abstract!Abandon(s)
<1>1. /\ cur[v] \in Runs /\ jobStatus[cur[v]] = "running"
      /\ QueueOwner' = [QueueOwner EXCEPT ![cur[v]] = NoRun]
  BY Handover DEF LoseJobUpdate
<1>2. QueueState' = QueueState BY DEF LoseJobUpdate, QueueState
<1>3. QueueState[cur[v]] = "held" BY <1>1 DEF QueueState
<1>4. QueueOwner' = [r \in Runs |-> IF r \in {cur[v]} THEN NoRun ELSE QueueOwner[r]]
  BY <1>1, OwnerOfJobs
<1>5. Abstract!Abandon({cur[v]})
  BY <1>2, <1>3, <1>4 DEF LoseJobUpdate, Abstract!Abandon
<1> QED BY <1>1, <1>5

LEMMA CrashImplements ==
    ASSUME ExclusionInv, ExclusionInv', NEW a \in Agents, CrashAgent(a)
    PROVE  \E s \in SUBSET Runs : Abstract!Abandon(s)
<1> USE DEF ExclusionInv, CountInv
<1> DEFINE lost == {r \in Runs : \E w \in WorkersOf(a) : Holds(w, r)}
<1>1. \A w \in Workers : \A r \in Runs : Holds(w, r)' <=> (AgentOf[w] # a /\ Holds(w, r))
  BY DEF CrashAgent, Holds
<1>2. \A r \in lost : QueueState[r] = "held"
  BY DEF ExclusiveExecution, Holders, QueueState, WorkersOf
<1>3. ASSUME NEW r \in lost PROVE QueueOwner'[r] = NoRun
  <2>1. \A w \in Workers : ~Holds(w, r)'
    BY <1>1, <1>3 DEF ExclusiveExecution, Holders, WorkersOf
  <2> QED BY <2>1, OwnerAfter
<1>4. ASSUME NEW r \in Runs, r \notin lost PROVE QueueOwner'[r] = QueueOwner[r]
  <2>1. \A w \in Workers : Holds(w, r)' <=> Holds(w, r) BY <1>1, <1>4 DEF WorkersOf
  <2> QED BY <2>1, OwnerKept
<1>5. QueueOwner' = [r \in Runs |-> IF r \in lost THEN NoRun ELSE QueueOwner[r]]
  BY <1>3, <1>4, OwnerOfJobs
<1>6. QueueState' = QueueState BY DEF CrashAgent, QueueState
<1>7. Abstract!Abandon(lost)
  BY <1>2, <1>5, <1>6 DEF CrashAgent, Abstract!Abandon
<1> QED BY <1>7

\* A worker's other steps: executing, the update of runs, its loss, the exit.
LEMMA WorkerStutters ==
    ASSUME ExclusionInv, ExclusionInv', NEW v \in Workers,
           \/ ExecuteJob(v) \/ SettleRun(v) \/ LoseRunUpdate(v) \/ WorkerExit(v)
    PROVE  UNCHANGED Abstract!vars
<1> USE DEF ExclusionInv, CountInv, Holds
<1>1. CASE ExecuteJob(v)
  BY <1>1, Invisible DEF ExecuteJob, TypeOK, WorkersOK
<1>2. CASE WorkerExit(v)
  BY <1>2, Invisible DEF WorkerExit, TypeOK, WorkersOK
<1>3. CASE LoseRunUpdate(v)
  <2>1. \A w \in Workers : \A r \in Runs : Holds(w, r)' <=> Holds(w, r)
    BY <1>3 DEF LoseRunUpdate, Leave, TypeOK, WorkersOK
  <2> QED BY <1>3, <2>1, Invisible DEF LoseRunUpdate
<1>4. CASE SettleRun(v)
  <2>1. pc[v] = "runUpdate" /\ RunUpdated(v)
    BY <1>4 DEF SettleRun, FinishRunUpdatesRun, RetryUpdatesRun, FailUpdatesRun
  <2>2. \A w \in Workers : \A r \in Runs : Holds(w, r)' <=> Holds(w, r)
    BY <2>1 DEF RunUpdated, Leave, TypeOK, WorkersOK
  <2>3. cur[v] \in Runs /\ runStatus[cur[v]] # "none"
    <3>1. AtWork(v, cur[v]) /\ cur[v] \in Runs /\ seen[v] \in Nat
      BY <2>1 DEF AtWork, TypeOK, WorkersOK
    <3>2. attempts[cur[v]] # 0 BY <3>1 DEF Counted, TypeOK, RowsOK
    <3> QED BY <3>1, <3>2 DEF Fresh
  <2>4. result[v] # "none" /\ result[v] \in Outcomes \cup {"none"}
    BY <2>1 DEF TypeOK, WorkersOK
  <2>5. \A r \in Runs : runStatus'[r] = "none" <=> runStatus[r] = "none"
    BY <1>4, <2>3, <2>4 DEF SettleRun, FinishRunUpdatesRun, RetryUpdatesRun, FailUpdatesRun,
                       TypeOK, RowsOK
  <2> QED BY <2>1, <2>2, <2>5, Invisible DEF RunUpdated
<1> QED BY <1>1, <1>2, <1>3, <1>4

\* An agent's other steps: the reset of runs, its loss, stop, exit and start.
LEMMA AgentStutters ==
    ASSUME ExclusionInv, ExclusionInv', NEW a \in Agents,
           \/ SnapshotRows(a) \/ ResetRuns(a) \/ LoseReset(a)
           \/ StopAgent(a) \/ AgentExit(a) \/ StartAgent(a)
    PROVE  UNCHANGED Abstract!vars
<1> USE DEF ExclusionInv, CountInv, Holds
<1>1. CASE StartAgent(a)
  <2>1. \A w \in Workers : \A r \in Runs : Holds(w, r)' <=> Holds(w, r)
    BY <1>1 DEF StartAgent, TypeOK, WorkersOK
  <2> QED BY <1>1, <2>1, Invisible DEF StartAgent
<1>2. CASE ResetRuns(a)
  <2>1. \A r \in Runs : runStatus'[r] = "none" <=> runStatus[r] = "none"
    BY <1>2 DEF ResetRuns
  <2> QED BY <1>2, <2>1, Invisible DEF ResetRuns
<1>3. CASE SnapshotRows(a) BY <1>3, Invisible DEF SnapshotRows
<1>4. CASE LoseReset(a) BY <1>4, Invisible DEF LoseReset
<1>5. CASE StopAgent(a) BY <1>5, Invisible DEF StopAgent
<1>6. CASE AgentExit(a) BY <1>6, Invisible DEF AgentExit
<1> QED BY <1>1, <1>2, <1>3, <1>4, <1>5, <1>6

LEMMA StepImplements ==
    ASSUME ExclusionInv, ExclusionInv', [Next]_vars
    PROVE  [Abstract!Next]_(Abstract!vars)
<1> DEFINE Implemented == Abstract!Next \/ UNCHANGED Abstract!vars
<1>1. ASSUME NEW v \in Workers, WorkerStep(v) PROVE Implemented
  <2>1. ASSUME NEW q \in Runs, Claim(v, q) PROVE Implemented
    BY <2>1, ClaimImplements DEF Abstract!Next
  <2>2. CASE SettleJob(v) BY <2>2, SettleImplements DEF Abstract!Next
  <2>3. CASE LoseJobUpdate(v) BY <2>3, LostUpdateImplements DEF Abstract!Next
  <2>4. CASE \/ ExecuteJob(v) \/ SettleRun(v) \/ LoseRunUpdate(v) \/ WorkerExit(v)
    BY <2>4, WorkerStutters
  <2> QED BY <1>1, <2>1, <2>2, <2>3, <2>4 DEF WorkerStep, Claim
<1>2. ASSUME NEW a \in Agents, AgentStep(a) PROVE Implemented
  <2>1. CASE ReleaseExpiredLeases(a) BY <2>1, ReleaseImplements DEF Abstract!Next
  <2>2. CASE CrashAgent(a) BY <2>2, CrashImplements DEF Abstract!Next
  <2> QED BY <1>2, <2>1, <2>2, AgentStutters DEF AgentStep
<1>3. CASE CleanupOldJobs BY <1>3, CleanupImplements DEF Abstract!Next
<1>4. ASSUME NEW r \in Runs, CreateRun(r) PROVE Implemented
  BY <1>4, CreateImplements DEF Abstract!Next
<1>5. ASSUME NEW r \in Runs, LeaseExpires(r) \/ BecomesDue(r) PROVE Implemented
  BY <1>5, Invisible DEF LeaseExpires, BecomesDue, Holds
<1>6. CASE UNCHANGED vars BY <1>6, Invisible DEF vars, Holds
<1>7. Implemented BY <1>1, <1>2, <1>3, <1>4, <1>5, <1>6 DEF Next
<1> QED BY <1>7

LEMMA InitImplements == Init => Abstract!Init
<1> SUFFICES ASSUME Init PROVE Abstract!Init
  OBVIOUS
<1>1. QueueState = [r \in Runs |-> "absent"] BY DEF Init, QueueState
<1>2. \A r \in Runs : Holders(r) = {} BY DEF Init, Holders, Holds
<1>3. QueueOwner = [r \in Runs |-> NoRun] BY <1>2 DEF QueueOwner
<1> QED BY <1>1, <1>3 DEF Init, Abstract!Init

\* The rows, leases and statements of the job queue implement the abstract
\* queue: every job has one owner at a time, who alone settles it.
THEOREM ImplementsLeaseQueue ==
    ASSUME ~Overruns
    PROVE  Spec => RefinesLeaseQueue
<1>1. ExclusionInv /\ ExclusionInv' /\ [Next]_vars => [Abstract!Next]_(Abstract!vars)
  BY StepImplements
<1> QED BY <1>1, InitImplements, ExclusionInvariant, PTL
    DEF Spec, RefinesLeaseQueue, Abstract!Spec

-----------------------------------------------------------------------------
(* Executions, run by run *)

\* Without overruns an expired lease is nobody's.
ReleaseInv == CountInv /\ (Overruns \/ ExclusiveExecution)

LEMMA ReleaseInvariant == Spec => []ReleaseInv
<1>1. CASE ~Overruns
  <2>1. ExclusionInv => ReleaseInv BY DEF ExclusionInv, ReleaseInv
  <2>2. Spec => []ExclusionInv BY <1>1, ExclusionInvariant
  <2> QED BY <2>1, <2>2, PTL
<1>2. CASE Overruns
  <2>1. CountInv => ReleaseInv BY <1>2 DEF ReleaseInv
  <2> QED BY <2>1, CountInvariant, PTL
<1> QED BY <1>1, <1>2

\* What a step leaves to its executions of a run whose row it does not touch.
Unseen(r) ==
    /\ jobStatus'[r] = jobStatus[r] /\ attempts'[r] = attempts[r]
    /\ runStatus'[r] = "none" <=> runStatus[r] = "none"
    /\ \A w \in Workers : /\ Holds(w, r)' <=> Holds(w, r)
                          /\ Holds(w, r) => seen'[w] = seen[w]

\* The state of one run in Executions.
Seen(r) == <<JobSeen(r), attempts[r], Living(r)>>

LEMMA LivingKept ==
    ASSUME NEW r \in Runs,
           \A w \in Workers : /\ Holds(w, r)' <=> Holds(w, r)
                              /\ Holds(w, r) => seen'[w] = seen[w]
    PROVE  Living(r)' = Living(r)
BY DEF Living, Holders

LEMMA UnseenStutters ==
    ASSUME NEW r \in Runs, Unseen(r) PROVE UNCHANGED Seen(r)
<1>1. JobSeen(r)' = JobSeen(r) BY DEF Unseen, JobSeen
<1>2. Living(r)' = Living(r) BY LivingKept DEF Unseen
<1> QED BY <1>1, <1>2 DEF Unseen, Seen

LEMMA ClaimSeen ==
    ASSUME CountInv, NEW v \in Workers, NEW r \in Runs, Claim(v, r)
    PROVE  ExecutionsOf(r)!Begin \/ ExecutionsOf(r)!Forfeit
<1> USE DEF CountInv
<1>1. ClaimRows(r) /\ attempts'[r] = attempts[r] + 1 BY WithClaim
<1>2. JobSeen(r) = "queued" /\ JobSeen(r)' = "taken"
  BY <1>1 DEF ClaimRows, Claimable, TypeOK, RowsOK, JobSeen
<1>3. ExecutionsOf(r)!Take BY <1>1, <1>2 DEF ExecutionsOf!Take
<1>4. CASE ProcessNextJob(v, r)
  <2>1. /\ ~Holds(v, r) /\ Holds(v, r)' /\ seen'[v] = attempts[r]
        /\ \A w \in Workers \ {v} : seen'[w] = seen[w] /\ (Holds(w, r)' <=> Holds(w, r))
    BY <1>4 DEF ProcessNextJob, Holds, TypeOK, WorkersOK
  <2>2. Living(r)' = Living(r) \cup {attempts[r] + 1} BY <2>1 DEF Living, Holders
  <2> QED BY <1>3, <2>2 DEF ExecutionsOf!Begin
<1>5. CASE ClaimUnacknowledged(v, r)
  <2>1. Living(r)' = Living(r)
    BY <1>5, LivingKept DEF ClaimUnacknowledged, Holds
  <2> QED BY <1>3, <2>1 DEF ExecutionsOf!Forfeit
<1> QED BY <1>4, <1>5 DEF Claim

\* The other jobs of a claim.
LEMMA ClaimUnseen ==
    ASSUME CountInv, NEW v \in Workers, NEW q \in Runs, Claim(v, q), NEW r \in Runs, r # q
    PROVE  Unseen(r)
<1> USE DEF CountInv
<1>1. ClaimRows(q) BY WithClaim
<1>2. /\ jobStatus'[r] = jobStatus[r] /\ attempts'[r] = attempts[r]
      /\ runStatus'[r] = runStatus[r]
  BY <1>1 DEF ClaimRows, TypeOK, RowsOK
<1>3. \A w \in Workers : (Holds(w, r)' <=> Holds(w, r)) /\ (Holds(w, r) => seen'[w] = seen[w])
  BY DEF Claim, ProcessNextJob, ClaimUnacknowledged, Holds, TypeOK, WorkersOK
<1> QED BY <1>2, <1>3 DEF Unseen

\* The worker of an update of jobs, or of its loss, ceases to hold the job: its
\* number goes, and no other, as executions of a job differ in their numbers.
LEMMA NumberGoes ==
    ASSUME CountInv, NEW v \in Workers, NEW r \in Runs, cur[v] = r,
           pc[v] = "jobUpdate", pc' = [pc EXCEPT ![v] = "runUpdate"], UNCHANGED <<cur, seen>>
    PROVE  seen[v] + 1 \in Living(r) /\ Living(r)' = Living(r) \ {seen[v] + 1}
<1> USE DEF CountInv
<1>1. Holds(v, r) /\ ~Holds(v, r)' /\ \A w \in Workers \ {v} : Holds(w, r)' <=> Holds(w, r)
  BY DEF Holds, TypeOK, WorkersOK
<1>2. \A w \in Workers : seen[w] \in Nat /\ seen'[w] = seen[w] BY DEF TypeOK, WorkersOK
<1>3. \A w \in Workers \ {v} : Holds(w, r) => seen[w] # seen[v]
  BY <1>1 DEF DistinctAttempts
<1>4. \A w \in Workers \ {v} : Holds(w, r) => seen[w] + 1 # seen[v] + 1 BY <1>2, <1>3
<1> QED BY <1>1, <1>2, <1>4 DEF Living, Holders

LEMMA SettleSeen ==
    ASSUME CountInv, NEW v \in Workers, SettleJob(v)
    PROVE  LET r == cur[v]  t == seen[v] + 1 IN
             /\ r \in Runs
             /\ \/ ExecutionsOf(r)!Complete(t) \/ ExecutionsOf(r)!Retry(t)
                \/ ExecutionsOf(r)!GiveUp(t)
<1> USE DEF CountInv
<1>1. cur[v] \in Runs /\ seen[v] \in Nat
  BY DEF SettleJob, FinishRunUpdatesJob, RetryUpdatesJob, FailUpdatesJob, TypeOK, WorkersOK
<1>2. JobUpdated(v) /\ pc[v] = "jobUpdate"
  BY DEF SettleJob, FinishRunUpdatesJob, RetryUpdatesJob, FailUpdatesJob
<1>3. PICK r \in Runs : cur[v] = r BY <1>1
<1>4. /\ seen[v] + 1 \in Living(r) /\ Living(r)' = Living(r) \ {seen[v] + 1}
      /\ attempts'[r] = attempts[r]
  BY <1>2, <1>3, NumberGoes DEF JobUpdated
<1>5. SUFFICES \/ ExecutionsOf(r)!Complete(seen[v] + 1) \/ ExecutionsOf(r)!Retry(seen[v] + 1)
               \/ ExecutionsOf(r)!GiveUp(seen[v] + 1)
  BY <1>3
<1>6. CASE FinishRunUpdatesJob(v)
  <2>1. JobSeen(r)' = "done" BY <1>3, <1>6 DEF FinishRunUpdatesJob, TypeOK, RowsOK, JobSeen
  <2> QED BY <1>4, <2>1 DEF ExecutionsOf!Complete, ExecutionsOf!Answer
<1>7. CASE RetryUpdatesJob(v)
  <2>1. JobSeen(r)' = "queued" BY <1>3, <1>7 DEF RetryUpdatesJob, TypeOK, RowsOK, JobSeen
  <2>2. seen[v] + 1 <= MaxAttempts
    BY <1>1, <1>7, MaxAttemptsAssumption DEF RetryUpdatesJob, MayRetry
  <2> QED BY <1>4, <2>1, <2>2 DEF ExecutionsOf!Retry, ExecutionsOf!Answer
<1>8. CASE FailUpdatesJob(v)
  <2>1. JobSeen(r)' = "failed" BY <1>3, <1>8 DEF FailUpdatesJob, TypeOK, RowsOK, JobSeen
  <2>2. seen[v] + 1 > MaxAttempts
    BY <1>1, <1>8, MaxAttemptsAssumption DEF FailUpdatesJob, MayRetry
  <2> QED BY <1>4, <2>1, <2>2 DEF ExecutionsOf!GiveUp, ExecutionsOf!Answer
<1> QED BY <1>6, <1>7, <1>8 DEF SettleJob

\* A worker's steps on a run that it has not claimed, ...
LEMMA OthersUnseen ==
    ASSUME CountInv, NEW v \in Workers, SettleJob(v) \/ LoseJobUpdate(v),
           NEW r \in Runs, r # cur[v]
    PROVE  Unseen(r)
<1> USE DEF CountInv
<1>1. /\ pc[v] = "jobUpdate" /\ pc' = [pc EXCEPT ![v] = "runUpdate"]
      /\ UNCHANGED <<cur, seen, attempts, runStatus>>
  BY DEF SettleJob, FinishRunUpdatesJob, RetryUpdatesJob, FailUpdatesJob, JobUpdated, LoseJobUpdate
<1>2. jobStatus'[r] = jobStatus[r]
  BY DEF SettleJob, FinishRunUpdatesJob, RetryUpdatesJob, FailUpdatesJob, LoseJobUpdate, TypeOK, RowsOK
<1>3. \A w \in Workers : Holds(w, r)' <=> Holds(w, r)
  BY <1>1 DEF Holds, TypeOK, WorkersOK
<1> QED BY <1>1, <1>2, <1>3 DEF Unseen

\* ... and those that touch no row of jobs.
LEMMA WorkerUnseen ==
    ASSUME CountInv, NEW v \in Workers, NEW r \in Runs,
           ExecuteJob(v) \/ SettleRun(v) \/ LoseRunUpdate(v) \/ WorkerExit(v)
    PROVE  Unseen(r)
<1> USE DEF CountInv
<1>1. CASE ExecuteJob(v) BY <1>1 DEF ExecuteJob, Unseen, Holds, TypeOK, WorkersOK
<1>2. CASE WorkerExit(v) BY <1>2 DEF WorkerExit, Unseen, Holds, TypeOK, WorkersOK
<1>3. ASSUME Leave(v), pc[v] = "runUpdate"
      PROVE  \A w \in Workers : /\ Holds(w, r)' <=> Holds(w, r)
                                /\ Holds(w, r) => seen'[w] = seen[w]
  BY <1>3 DEF Leave, Holds, TypeOK, WorkersOK
<1>4. CASE LoseRunUpdate(v) BY <1>3, <1>4 DEF LoseRunUpdate, Unseen
<1>5. CASE SettleRun(v)
  <2>1. pc[v] = "runUpdate" /\ RunUpdated(v)
    BY <1>5 DEF SettleRun, FinishRunUpdatesRun, RetryUpdatesRun, FailUpdatesRun
  <2>2. cur[v] \in Runs /\ runStatus[cur[v]] # "none"
    <3>1. AtWork(v, cur[v]) /\ cur[v] \in Runs /\ seen[v] \in Nat
      BY <2>1 DEF AtWork, TypeOK, WorkersOK
    <3>2. attempts[cur[v]] # 0 BY <3>1 DEF Counted, TypeOK, RowsOK
    <3> QED BY <3>1, <3>2 DEF Fresh
  <2>3. result[v] # "none" BY <2>1 DEF TypeOK, WorkersOK
  <2>4. runStatus'[r] = "none" <=> runStatus[r] = "none"
    BY <1>5, <2>2, <2>3 DEF SettleRun, FinishRunUpdatesRun, RetryUpdatesRun, FailUpdatesRun,
                       TypeOK, RowsOK
  <2> QED BY <1>3, <2>1, <2>4 DEF RunUpdated, Unseen
<1> QED BY <1>1, <1>2, <1>4, <1>5

LEMMA LostUpdateSeen ==
    ASSUME CountInv, NEW v \in Workers, LoseJobUpdate(v), NEW r \in Runs, r = cur[v]
    PROVE  ExecutionsOf(r)!Lose({seen[v] + 1})
<1>1. seen[v] + 1 \in Living(r) /\ Living(r)' = Living(r) \ {seen[v] + 1}
  BY NumberGoes DEF LoseJobUpdate
<1>2. JobSeen(r)' = JobSeen(r) BY DEF LoseJobUpdate, JobSeen
<1> QED BY <1>1, <1>2 DEF LoseJobUpdate, ExecutionsOf!Lose

LEMMA CrashSeen ==
    ASSUME CountInv, NEW a \in Agents, CrashAgent(a), NEW r \in Runs
    PROVE  \E lost \in SUBSET Living(r) : ExecutionsOf(r)!Lose(lost)
<1> USE DEF CountInv
<1> DEFINE lost == {seen[w] + 1 : w \in {v \in Holders(r) : AgentOf[v] = a}}
<1>1. \A w \in Workers : /\ Holds(w, r)' <=> (AgentOf[w] # a /\ Holds(w, r))
                         /\ AgentOf[w] # a => seen'[w] = seen[w]
  BY DEF CrashAgent, Holds
<1>2. \A w \in Workers : seen[w] \in Nat BY DEF TypeOK, WorkersOK
<1>3. \A v, w \in Holders(r) : v # w => seen[v] + 1 # seen[w] + 1
  BY <1>2 DEF DistinctAttempts, Holders
<1>4. lost \subseteq Living(r) BY DEF Living
<1>5. Living(r)' = {seen[w] + 1 : w \in {v \in Holders(r) : AgentOf[v] # a}}
  BY <1>1 DEF Living, Holders
<1>6. Living(r)' = Living(r) \ lost BY <1>3, <1>5 DEF Living
<1>7. JobSeen(r)' = JobSeen(r) BY DEF CrashAgent, JobSeen
<1>8. ExecutionsOf(r)!Lose(lost) BY <1>4, <1>6, <1>7 DEF CrashAgent, ExecutionsOf!Lose
<1> QED BY <1>4, <1>8

\* The lease cleanup takes back what Executions lets it take back.
LEMMA ReleaseSeen ==
    ASSUME ReleaseInv, NEW a \in Agents, ReleaseExpiredLeases(a), NEW r \in Runs
    PROVE  ExecutionsOf(r)!Release \/ Unseen(r)
<1> USE DEF ReleaseInv, CountInv
<1>1. Living(r)' = Living(r) BY DEF ReleaseExpiredLeases, Living, Holders, Holds
<1>2. CASE Releasable(r)
  <2>1. jobStatus'[r] = "queued" /\ attempts' = attempts BY <1>2 DEF ReleaseExpiredLeases
  <2>2. JobSeen(r) = "taken" /\ JobSeen(r)' = "queued" BY <1>2, <2>1 DEF Releasable, JobSeen
  <2>3. Overruns \/ Living(r) = {} BY <1>2 DEF ExclusiveExecution, Releasable, Living
  <2> QED BY <1>1, <1>2, <2>1, <2>2, <2>3 DEF Releasable, ExecutionsOf!Release
<1>3. CASE ~Releasable(r)
  BY <1>3 DEF ReleaseExpiredLeases, Unseen, Holds
<1> QED BY <1>2, <1>3

\* The garbage collector forgets settled jobs, nobody being at work on them.
LEMMA ForgetSeen ==
    ASSUME CountInv, CleanupOldJobs, NEW r \in Runs
    PROVE  ExecutionsOf(r)!Forget \/ Unseen(r)
<1> USE DEF CountInv
<1>1. UNCHANGED <<attempts, runStatus, pc, cur, seen>> BY DEF CleanupOldJobs
<1>2. CASE jobStatus'[r] = jobStatus[r] BY <1>1, <1>2 DEF Unseen, Holds
<1>3. CASE jobStatus'[r] # jobStatus[r]
  <2>1. /\ jobStatus[r] \in {"done", "failed"} /\ jobStatus'[r] = "none"
        /\ \A w \in Workers : ~AtWork(w, r)
    BY <1>3 DEF CleanupOldJobs
  <2>2. JobSeen(r) \in {"done", "failed"} BY <2>1 DEF JobSeen
  <2>3. runStatus[r] # "none" BY <2>1 DEF Fresh
  <2>4. JobSeen(r)' = "forgotten" BY <1>1, <2>1, <2>3 DEF JobSeen
  <2>5. Living(r) = {} BY <2>1 DEF Living, Holders, Holds, AtWork
  <2>6. Living(r)' = Living(r) BY <1>1 DEF Living, Holders, Holds
  <2> QED BY <1>1, <2>2, <2>4, <2>5, <2>6 DEF ExecutionsOf!Forget
<1> QED BY <1>2, <1>3

\* A job that nobody has claimed is queued, its row written or not.
LEMMA CreateSeen ==
    ASSUME CountInv, NEW q \in Runs, CreateRun(q), NEW r \in Runs
    PROVE  UNCHANGED Seen(r)
<1> USE DEF CountInv
<1>1. UNCHANGED <<attempts, pc, cur, seen>> BY DEF CreateRun
<1>2. Living(r)' = Living(r) BY <1>1 DEF Living, Holders, Holds
<1>3. CASE r = q
  <2>1. JobSeen(r) = "queued" BY <1>3 DEF CreateRun, Fresh, JobSeen
  <2>2. JobSeen(r)' = "queued" BY <1>3 DEF CreateRun, TypeOK, RowsOK, JobSeen
  <2> QED BY <1>1, <1>2, <2>1, <2>2 DEF Seen
<1>4. CASE r # q
  <2>1. JobSeen(r)' = JobSeen(r) BY <1>4 DEF CreateRun, TypeOK, RowsOK, JobSeen
  <2> QED BY <1>1, <1>2, <2>1 DEF Seen
<1> QED BY <1>3, <1>4

\* The rest touches neither jobs nor who executes them.
LEMMA TimeUnseen ==
    ASSUME NEW r \in Runs,
           \/ \E q \in Runs : LeaseExpires(q) \/ BecomesDue(q)
           \/ UNCHANGED vars
    PROVE  Unseen(r)
BY DEF LeaseExpires, BecomesDue, vars, Unseen, Holds

LEMMA AgentUnseen ==
    ASSUME CountInv, NEW r \in Runs, NEW a \in Agents,
           \/ SnapshotRows(a) \/ ResetRuns(a) \/ LoseReset(a)
           \/ StopAgent(a) \/ AgentExit(a) \/ StartAgent(a)
    PROVE  Unseen(r)
<1> USE DEF CountInv
<1>1. CASE SnapshotRows(a) BY <1>1 DEF SnapshotRows, Unseen, Holds
<1>2. CASE ResetRuns(a) BY <1>2 DEF ResetRuns, Unseen, Holds
<1>3. CASE LoseReset(a) BY <1>3 DEF LoseReset, Unseen, Holds
<1>4. CASE StopAgent(a) BY <1>4 DEF StopAgent, Unseen, Holds
<1>5. CASE AgentExit(a) BY <1>5 DEF AgentExit, Unseen, Holds
<1>6. CASE StartAgent(a) BY <1>6 DEF StartAgent, Unseen, Holds, TypeOK, WorkersOK
<1> QED BY <1>1, <1>2, <1>3, <1>4, <1>5, <1>6

\* Every step of the queue is, for every run, one of Executions or a stutter.
LEMMA WorkerSeen ==
    ASSUME CountInv, NEW v \in Workers, WorkerStep(v), NEW r \in Runs
    PROVE  \/ ExecutionsOf(r)!Next \/ UNCHANGED Seen(r)
<1>1. ASSUME NEW q \in Runs, ProcessNextJob(v, q) \/ ClaimUnacknowledged(v, q)
      PROVE  ExecutionsOf(r)!Next \/ UNCHANGED Seen(r)
  <2>1. Claim(v, q) BY <1>1 DEF Claim
  <2>2. CASE r = q BY <2>1, <2>2, ClaimSeen DEF ExecutionsOf!Next
  <2>3. CASE r # q BY <2>1, <2>3, ClaimUnseen, UnseenStutters
  <2> QED BY <2>2, <2>3
<1>2. CASE SettleJob(v)
  <2>1. CASE r = cur[v]
    <3> DEFINE t == seen[v] + 1
    <3>1. \/ ExecutionsOf(r)!Complete(t) \/ ExecutionsOf(r)!Retry(t)
          \/ ExecutionsOf(r)!GiveUp(t)
      BY <1>2, <2>1, SettleSeen
    <3>2. t \in Living(r)
      BY <3>1 DEF ExecutionsOf!Complete, ExecutionsOf!Retry, ExecutionsOf!GiveUp,
                  ExecutionsOf!Answer
    <3> QED BY <3>1, <3>2 DEF ExecutionsOf!Next
  <2>2. CASE r # cur[v] BY <1>2, <2>2, OthersUnseen, UnseenStutters
  <2> QED BY <2>1, <2>2
<1>3. CASE LoseJobUpdate(v)
  <2>1. CASE r = cur[v]
    <3>1. ExecutionsOf(r)!Lose({seen[v] + 1}) BY <1>3, <2>1, LostUpdateSeen
    <3>2. {seen[v] + 1} \in SUBSET Living(r) BY <3>1 DEF ExecutionsOf!Lose
    <3> QED BY <3>1, <3>2 DEF ExecutionsOf!Next
  <2>2. CASE r # cur[v] BY <1>3, <2>2, OthersUnseen, UnseenStutters
  <2> QED BY <2>1, <2>2
<1>4. CASE ExecuteJob(v) \/ SettleRun(v) \/ LoseRunUpdate(v) \/ WorkerExit(v)
  BY <1>4, WorkerUnseen, UnseenStutters
<1> QED BY <1>1, <1>2, <1>3, <1>4 DEF WorkerStep

LEMMA AgentSeen ==
    ASSUME ReleaseInv, NEW a \in Agents, AgentStep(a), NEW r \in Runs
    PROVE  \/ ExecutionsOf(r)!Next \/ UNCHANGED Seen(r)
<1>1. CASE ReleaseExpiredLeases(a)
  BY <1>1, ReleaseSeen, UnseenStutters DEF ExecutionsOf!Next
<1>2. CASE CrashAgent(a)
  BY <1>2, CrashSeen DEF ReleaseInv, ExecutionsOf!Next
<1>3. CASE ~ReleaseExpiredLeases(a) /\ ~CrashAgent(a)
  BY <1>3, AgentUnseen, UnseenStutters DEF ReleaseInv, AgentStep
<1> QED BY <1>1, <1>2, <1>3

LEMMA StepSeen ==
    ASSUME ReleaseInv, [Next]_vars, NEW r \in Runs
    PROVE  [ExecutionsOf(r)!Next]_(ExecutionsOf(r)!vars)
<1>1. SUFFICES ExecutionsOf(r)!Next \/ UNCHANGED Seen(r)
  BY DEF Seen, ExecutionsOf!vars
<1>2. CASE \E q \in Runs : CreateRun(q) BY <1>2, CreateSeen DEF ReleaseInv
<1>3. CASE (\E q \in Runs : LeaseExpires(q) \/ BecomesDue(q)) \/ UNCHANGED vars
  BY <1>3, TimeUnseen, UnseenStutters
<1>4. CASE CleanupOldJobs
  BY <1>4, ForgetSeen, UnseenStutters DEF ReleaseInv, ExecutionsOf!Next
<1>5. CASE \E v \in Workers : WorkerStep(v) BY <1>5, WorkerSeen DEF ReleaseInv
<1>6. CASE \E a \in Agents : AgentStep(a) BY <1>6, AgentSeen
<1> QED BY <1>2, <1>3, <1>4, <1>5, <1>6 DEF Next

LEMMA InitSeen == Init => \A r \in Runs : ExecutionsOf(r)!Init
<1> SUFFICES ASSUME Init, NEW r \in Runs PROVE ExecutionsOf(r)!Init
  OBVIOUS
<1>1. JobSeen(r) = "queued" BY DEF Init, JobSeen
<1>2. Living(r) = {} BY DEF Init, Living, Holders, Holds
<1> QED BY <1>1, <1>2 DEF Init, ExecutionsOf!Init

\* Every run's job goes through its executions as Executions says, whatever
\* workers, agents, leases and lost statements do: it is the queue that Containers
\* runs on.
THEOREM RunsFollowExecutions == Spec => RunsAsExecutions
<1>1. Init => \A r \in Runs : ExecutionsOf(r)!Init BY InitSeen
<1>2. ReleaseInv /\ [Next]_vars
      => [\A r \in Runs : [ExecutionsOf(r)!Next]_(ExecutionsOf(r)!vars)]_vars
  BY StepSeen
<1>3. Spec => []ReleaseInv BY ReleaseInvariant
<1> QED BY <1>1, <1>2, <1>3, PTL DEF Spec, RunsAsExecutions
=============================================================================
