------------------------------ MODULE JobQueue ------------------------------
(***************************************************************************)
(* The job queue of qtiva-cloud: the rows of the tables `jobs` and `runs`, *)
(* the worker goroutines of the agents that claim, execute and settle      *)
(* them, and the goroutine of every agent that releases expired leases.    *)
(*                                                                         *)
(* Every statement of the source that commits on its own is one action; a  *)
(* transaction is one action.  A job has its own row but shares its key    *)
(* with its run (jobs.run_id is UNIQUE), so both are indexed by the run.   *)
(*                                                                         *)
(* Abstracted: ids, time stamps that no guard reads, log paths, error      *)
(* texts, `leased_by` (written, never read).  A time that a guard compares *)
(* with now() is kept as the answer of that comparison: `lease` and `due`. *)
(* `ORDER BY available_at` is abstracted to "some due row": SKIP LOCKED    *)
(* may skip any prefix of the order.                                       *)
(***************************************************************************)
EXTENDS Naturals, FiniteSets

CONSTANTS
    Runs,         \* run ids that clients may create
    Agents,       \* qtiva-agent processes
    Workers,      \* worker goroutines, of all agents
    AgentOf,      \* the agent that starts each worker
    NoRun,        \* neither a run nor a worker: "executes nothing"
    MaxAttempts,  \* jobs.max_attempts
    Overruns,     \* may an execution outlive its lease (MaxTimeout + 30s)?
    MaxStops,     \* bound: graceful stops of agents
    MaxCrashes,   \* bound: crashes of agents
    MaxFaults     \* bound: database statements whose error is ignored

ASSUME WorkersAssumption ==
    /\ IsFiniteSet(Workers)
    /\ AgentOf \in [Workers -> Agents]
ASSUME NoRunAssumption == NoRun \notin Runs \cup Workers
ASSUME MaxAttemptsAssumption == MaxAttempts \in Nat \ {0}
ASSUME OverrunsAssumption == Overruns \in BOOLEAN
ASSUME BudgetsAssumption == MaxStops \in Nat /\ MaxCrashes \in Nat /\ MaxFaults \in Nat

VARIABLES
    jobStatus,  \* jobs.status; "none": no row
    attempts,   \* jobs.attempts (kept as history when the row is deleted)
    lease,      \* jobs.lease_until: "null", or "live"/"expired" against now()
    due,        \* jobs.available_at <= now()
    runStatus,  \* runs.status; "none": no row
    exitCode,   \* runs.exit_code: "null", "zero" or "nonzero"
    pc,         \* where each worker goroutine is
    cur,        \* the run of the job a worker has claimed
    seen,       \* job.Attempts as the claim's SELECT read it, before the UPDATE
    result,     \* what RunContainer returned to the worker
    agent,      \* the agent process: "up", "stopping" (Stop called) or "down"
    cleanPc,    \* where each agent's cleanupExpiredLeases goroutine is
    cleanRows,  \* the runs its second UPDATE selected from its snapshot
    stops, crashes, faults  \* budgets used

rowVars    == <<jobStatus, attempts, lease, due, runStatus, exitCode>>
workerVars == <<pc, cur, seen, result>>
agentVars  == <<agent, cleanPc, cleanRows>>
budgetVars == <<stops, crashes, faults>>
vars       == <<rowVars, workerVars, agentVars, budgetVars>>

JobStatuses == {"none", "queued", "running", "done", "failed"}
Verdicts    == {"passed", "failed", "timeout"}
Terminal    == Verdicts \cup {"error"}
RunStatuses == {"none", "pending", "running"} \cup Terminal
Outcomes    == Verdicts \cup {"error"}   \* "error": result.Error # nil

WorkersOf(a) == {w \in Workers : AgentOf[w] = a}

\* The worker has claimed r's job and its job row is not yet settled.
Holds(w, r) == cur[w] = r /\ pc[w] \in {"executing", "jobUpdate"}

Holders(r) == {w \in Workers : Holds(w, r)}

\* A worker still has a statement of r's job or run to issue.
AtWork(w, r) == cur[w] = r /\ pc[w] \in {"executing", "jobUpdate", "runUpdate"}

-----------------------------------------------------------------------------
(* Types *)

RowsOK ==
    /\ jobStatus \in [Runs -> JobStatuses]
    /\ attempts \in [Runs -> Nat]
    /\ lease \in [Runs -> {"null", "live", "expired"}]
    /\ due \in [Runs -> BOOLEAN]
    /\ runStatus \in [Runs -> RunStatuses]
    /\ exitCode \in [Runs -> {"null", "zero", "nonzero"}]

WorkersOK ==
    /\ pc \in [Workers -> {"idle", "executing", "jobUpdate", "runUpdate", "exited"}]
    /\ cur \in [Workers -> Runs \cup {NoRun}]
    /\ seen \in [Workers -> Nat]
    /\ result \in [Workers -> Outcomes \cup {"none"}]
    /\ \A w \in Workers :
         /\ pc[w] \in {"executing", "jobUpdate", "runUpdate"} <=> cur[w] \in Runs
         /\ pc[w] \in {"jobUpdate", "runUpdate"} <=> result[w] # "none"
         /\ agent[AgentOf[w]] = "down" => pc[w] = "exited"

AgentsOK ==
    /\ agent \in [Agents -> {"up", "stopping", "down"}]
    /\ cleanPc \in [Agents -> {"idle", "released", "resetting"}]
    /\ cleanRows \in [Agents -> SUBSET Runs]

BudgetsOK == stops \in 0..MaxStops /\ crashes \in 0..MaxCrashes /\ faults \in 0..MaxFaults

TypeOK == RowsOK /\ WorkersOK /\ AgentsOK /\ BudgetsOK

-----------------------------------------------------------------------------
Init ==
    /\ jobStatus = [r \in Runs |-> "none"]
    /\ attempts = [r \in Runs |-> 0]
    /\ lease = [r \in Runs |-> "null"]
    /\ due = [r \in Runs |-> FALSE]
    /\ runStatus = [r \in Runs |-> "none"]
    /\ exitCode = [r \in Runs |-> "null"]
    /\ pc = [w \in Workers |-> "idle"]
    /\ cur = [w \in Workers |-> NoRun]
    /\ seen = [w \in Workers |-> 0]
    /\ result = [w \in Workers |-> "none"]
    /\ agent = [a \in Agents |-> "up"]
    /\ cleanPc = [a \in Agents |-> "idle"]
    /\ cleanRows = [a \in Agents |-> {}]
    /\ stops = 0 /\ crashes = 0 /\ faults = 0

\* handleCreateRun's transaction: one row in runs, one in jobs.
CreateRun(r) ==
    /\ runStatus[r] = "none"
    /\ jobStatus' = [jobStatus EXCEPT ![r] = "queued"]
    /\ due' = [due EXCEPT ![r] = TRUE]
    /\ runStatus' = [runStatus EXCEPT ![r] = "pending"]
    /\ UNCHANGED <<attempts, lease, exitCode, workerVars, agentVars, budgetVars>>

-----------------------------------------------------------------------------
(* Workers *)

\* WHERE of the claim's SELECT ... FOR UPDATE OF j SKIP LOCKED.
Claimable(r) == jobStatus[r] = "queued" /\ due[r] /\ lease[r] # "live"

\* Variant of ClaimRows: the claim does not count the attempt.
ClaimRowsUncounted(r) ==
    /\ Claimable(r)
    /\ jobStatus' = [jobStatus EXCEPT ![r] = "running"]
    /\ lease' = [lease EXCEPT ![r] = "live"]
    /\ runStatus' = [runStatus EXCEPT ![r] = "running"]
    /\ UNCHANGED <<attempts, due, exitCode>>

\* The rows a committed claim leaves behind.
ClaimRows(r) ==
    /\ Claimable(r)
    /\ jobStatus' = [jobStatus EXCEPT ![r] = "running"]
    /\ lease' = [lease EXCEPT ![r] = "live"]
    /\ attempts' = [attempts EXCEPT ![r] = @ + 1]
    /\ runStatus' = [runStatus EXCEPT ![r] = "running"]
    /\ UNCHANGED <<due, exitCode>>

\* processNextJob's transaction.  The loop's select may still take a tick
\* after stopCh is closed: only a worker that has returned polls no more.
ProcessNextJob(w, r) ==
    /\ pc[w] = "idle"
    /\ ClaimRows(r)
    /\ pc' = [pc EXCEPT ![w] = "executing"]
    /\ cur' = [cur EXCEPT ![w] = r]
    /\ seen' = [seen EXCEPT ![w] = attempts[r]]
    /\ UNCHANGED <<result, agentVars, budgetVars>>

\* The COMMIT takes effect but its acknowledgement is lost: processNextJob
\* returns the error and executes nothing.
ClaimUnacknowledged(w, r) ==
    /\ pc[w] = "idle"
    /\ faults < MaxFaults
    /\ ClaimRows(r)
    /\ faults' = faults + 1
    /\ UNCHANGED <<workerVars, agentVars, stops, crashes>>

\* executeJob up to the call of failJob ("error") or of finishRun.
ExecuteJob(w) ==
    /\ pc[w] = "executing"
    /\ \E res \in Outcomes : result' = [result EXCEPT ![w] = res]
    /\ pc' = [pc EXCEPT ![w] = "jobUpdate"]
    /\ UNCHANGED <<rowVars, cur, seen, agentVars, budgetVars>>

\* Variant of MayRetry: an off-by-one.
MayRetryOneMore(w) == seen[w] <= MaxAttempts

\* job.Attempts < job.MaxAttempts, on the value read before the increment.
MayRetry(w) == seen[w] < MaxAttempts

JobUpdated(w) ==
    /\ pc' = [pc EXCEPT ![w] = "runUpdate"]
    /\ UNCHANGED <<attempts, runStatus, exitCode, cur, seen, result,
                   agentVars, budgetVars>>

\* Variant of Leave: the next job starts with the last one's result.
LeaveKeepsResult(w) ==
    /\ pc' = [pc EXCEPT ![w] = "idle"]
    /\ cur' = [cur EXCEPT ![w] = NoRun]
    /\ seen' = [seen EXCEPT ![w] = 0]
    /\ UNCHANGED result

\* The worker is done with the job; the variables of the call are gone.
Leave(w) ==
    /\ pc' = [pc EXCEPT ![w] = "idle"]
    /\ cur' = [cur EXCEPT ![w] = NoRun]
    /\ seen' = [seen EXCEPT ![w] = 0]
    /\ result' = [result EXCEPT ![w] = "none"]

RunUpdated(w) ==
    /\ Leave(w)
    /\ UNCHANGED <<jobStatus, attempts, lease, due, agentVars, budgetVars>>

\* finishRun, first statement.
FinishRunUpdatesJob(w) ==
    /\ pc[w] = "jobUpdate" /\ result[w] # "error"
    /\ jobStatus' = [jobStatus EXCEPT ![cur[w]] = "done"]
    /\ UNCHANGED <<lease, due>>
    /\ JobUpdated(w)

ExitCodeOf(res) == CASE res = "passed"  -> "zero"
                     [] res = "failed"  -> "nonzero"
                     [] res = "timeout" -> "null"

\* finishRun, second statement.
FinishRunUpdatesRun(w) ==
    /\ pc[w] = "runUpdate" /\ result[w] # "error"
    /\ runStatus' = [runStatus EXCEPT ![cur[w]] = result[w]]
    /\ exitCode' = [exitCode EXCEPT ![cur[w]] = ExitCodeOf(result[w])]
    /\ RunUpdated(w)

\* Variant of RetryUpdatesJob: clears the lease, forgets the status.
RetryUpdatesJobKeepsStatus(w) ==
    /\ pc[w] = "jobUpdate" /\ result[w] = "error" /\ MayRetry(w)
    /\ lease' = [lease EXCEPT ![cur[w]] = "null"]
    /\ due' = [due EXCEPT ![cur[w]] = (seen[w] = 0)]
    /\ UNCHANGED jobStatus
    /\ JobUpdated(w)

\* failJob, the retry branch: the delay is job.Attempts * 30s, so none at first.
RetryUpdatesJob(w) ==
    /\ pc[w] = "jobUpdate" /\ result[w] = "error" /\ MayRetry(w)
    /\ jobStatus' = [jobStatus EXCEPT ![cur[w]] = "queued"]
    /\ lease' = [lease EXCEPT ![cur[w]] = "null"]
    /\ due' = [due EXCEPT ![cur[w]] = (seen[w] = 0)]
    /\ JobUpdated(w)

RetryUpdatesRun(w) ==
    /\ pc[w] = "runUpdate" /\ result[w] = "error" /\ MayRetry(w)
    /\ runStatus' = [runStatus EXCEPT ![cur[w]] = "pending"]
    /\ UNCHANGED exitCode
    /\ RunUpdated(w)

\* Variant of FailUpdatesJob: does not ask whether a retry is left.
FailUpdatesJobAtOnce(w) ==
    /\ pc[w] = "jobUpdate" /\ result[w] = "error"
    /\ jobStatus' = [jobStatus EXCEPT ![cur[w]] = "failed"]
    /\ UNCHANGED <<lease, due>>
    /\ JobUpdated(w)

\* failJob, the final branch.
FailUpdatesJob(w) ==
    /\ pc[w] = "jobUpdate" /\ result[w] = "error" /\ ~MayRetry(w)
    /\ jobStatus' = [jobStatus EXCEPT ![cur[w]] = "failed"]
    /\ UNCHANGED <<lease, due>>
    /\ JobUpdated(w)

FailUpdatesRun(w) ==
    /\ pc[w] = "runUpdate" /\ result[w] = "error" /\ ~MayRetry(w)
    /\ runStatus' = [runStatus EXCEPT ![cur[w]] = "error"]
    /\ UNCHANGED exitCode
    /\ RunUpdated(w)

\* Both ExecContext calls of failJob and of finishRun discard their error:
\* the worker goes on as if the statement had taken effect.
LoseJobUpdate(w) ==
    /\ pc[w] = "jobUpdate" /\ faults < MaxFaults
    /\ pc' = [pc EXCEPT ![w] = "runUpdate"]
    /\ faults' = faults + 1
    /\ UNCHANGED <<rowVars, cur, seen, result, agentVars, stops, crashes>>

LoseRunUpdate(w) ==
    /\ pc[w] = "runUpdate" /\ faults < MaxFaults
    /\ Leave(w)
    /\ faults' = faults + 1
    /\ UNCHANGED <<rowVars, agentVars, stops, crashes>>

SettleJob(w) == FinishRunUpdatesJob(w) \/ RetryUpdatesJob(w) \/ FailUpdatesJob(w)
SettleRun(w) == FinishRunUpdatesRun(w) \/ RetryUpdatesRun(w) \/ FailUpdatesRun(w)

-----------------------------------------------------------------------------
(* The cleanup goroutine of an agent *)

\* Variants of Releasable: without the lease, without the status, and with
\* the attempts compared one too high and one too low.
ReleasableLive(r) == jobStatus[r] = "running" /\ attempts[r] < MaxAttempts
ReleasableSettled(r) == lease[r] = "expired" /\ attempts[r] < MaxAttempts
ReleasableAtLimit(r) ==
    jobStatus[r] = "running" /\ lease[r] = "expired" /\ attempts[r] <= MaxAttempts
ReleasableEarlier(r) ==
    jobStatus[r] = "running" /\ lease[r] = "expired" /\ attempts[r] + 1 < MaxAttempts

\* WHERE of the first UPDATE of releaseExpiredLeases.
Releasable(r) == jobStatus[r] = "running" /\ lease[r] = "expired" /\ attempts[r] < MaxAttempts

\* First UPDATE.  With no row affected the call changes nothing.
ReleaseExpiredLeases(a) ==
    LET rows == {r \in Runs : Releasable(r)} IN
    /\ agent[a] = "up" /\ cleanPc[a] = "idle" /\ rows # {}
    /\ jobStatus' = [r \in Runs |-> IF r \in rows THEN "queued" ELSE jobStatus[r]]
    /\ lease' = [r \in Runs |-> IF r \in rows THEN "null" ELSE lease[r]]
    /\ cleanPc' = [cleanPc EXCEPT ![a] = "released"]
    /\ UNCHANGED <<attempts, due, runStatus, exitCode, workerVars, agent,
                   cleanRows, budgetVars>>

\* Second UPDATE: under READ COMMITTED its join is evaluated on a snapshot ...
SnapshotRows(a) ==
    /\ cleanPc[a] = "released"
    /\ cleanPc' = [cleanPc EXCEPT ![a] = "resetting"]
    /\ cleanRows' = [cleanRows EXCEPT ![a] =
                       {r \in Runs : jobStatus[r] = "queued" /\ runStatus[r] = "running"}]
    /\ UNCHANGED <<rowVars, workerVars, agent, budgetVars>>

\* Variant of ResetRuns: does not re-check the row.
ResetRunsUnchecked(a) ==
    /\ cleanPc[a] = "resetting"
    /\ runStatus' = [r \in Runs |-> IF r \in cleanRows[a] THEN "pending" ELSE runStatus[r]]
    /\ cleanPc' = [cleanPc EXCEPT ![a] = "idle"]
    /\ cleanRows' = [cleanRows EXCEPT ![a] = {}]
    /\ UNCHANGED <<jobStatus, attempts, lease, due, exitCode, workerVars, agent, budgetVars>>

\* ... and a row of runs that changed meanwhile is re-checked, one of jobs is not.
ResetRuns(a) ==
    /\ cleanPc[a] = "resetting"
    /\ runStatus' = [r \in Runs |-> IF r \in cleanRows[a] /\ runStatus[r] = "running"
                                    THEN "pending" ELSE runStatus[r]]
    /\ cleanPc' = [cleanPc EXCEPT ![a] = "idle"]
    /\ cleanRows' = [cleanRows EXCEPT ![a] = {}]
    /\ UNCHANGED <<jobStatus, attempts, lease, due, exitCode, workerVars, agent, budgetVars>>

\* The second UPDATE's error is discarded as well; a stopping agent has
\* cancelled its context, which makes it fail.
LoseReset(a) ==
    /\ cleanPc[a] # "idle"
    /\ \/ agent[a] = "stopping" /\ UNCHANGED faults
       \/ faults < MaxFaults /\ faults' = faults + 1
    /\ cleanPc' = [cleanPc EXCEPT ![a] = "idle"]
    /\ cleanRows' = [cleanRows EXCEPT ![a] = {}]
    /\ UNCHANGED <<rowVars, workerVars, agent, stops, crashes>>

-----------------------------------------------------------------------------
(* Time, and the manager's garbage collector *)

\* lease_until passes.  RunContainer stops the container after MaxTimeout and
\* some seconds: it outlives the lease only when docker, the clock or the
\* process is delayed, which Overruns allows.
LeaseExpires(r) ==
    /\ lease[r] = "live"
    /\ Overruns \/ Holders(r) = {}
    /\ lease' = [lease EXCEPT ![r] = "expired"]
    /\ UNCHANGED <<jobStatus, attempts, due, runStatus, exitCode, workerVars,
                   agentVars, budgetVars>>

\* available_at passes.
BecomesDue(r) ==
    /\ jobStatus[r] = "queued" /\ ~due[r]
    /\ due' = [due EXCEPT ![r] = TRUE]
    /\ UNCHANGED <<jobStatus, attempts, lease, runStatus, exitCode, workerVars,
                   agentVars, budgetVars>>

\* cleanupOldJobs deletes rows done or failed for 24 hours: no worker is
\* still busy with them.
CleanupOldJobs ==
    LET old == {r \in Runs : /\ jobStatus[r] \in {"done", "failed"}
                             /\ \A w \in Workers : ~AtWork(w, r)}
    IN \E rows \in (SUBSET old) \ {{}} :
         /\ jobStatus' = [r \in Runs |-> IF r \in rows THEN "none" ELSE jobStatus[r]]
         /\ UNCHANGED <<attempts, lease, due, runStatus, exitCode, workerVars,
                        agentVars, budgetVars>>

-----------------------------------------------------------------------------
(* Agent processes *)

\* SIGTERM: cancel() and agent.Stop() closes stopCh.
StopAgent(a) ==
    /\ agent[a] = "up" /\ stops < MaxStops
    /\ agent' = [agent EXCEPT ![a] = "stopping"]
    /\ stops' = stops + 1
    /\ UNCHANGED <<rowVars, workerVars, cleanPc, cleanRows, crashes, faults>>

\* run() sees stopCh closed between two jobs.
WorkerExit(w) ==
    /\ agent[AgentOf[w]] = "stopping" /\ pc[w] = "idle"
    /\ pc' = [pc EXCEPT ![w] = "exited"]
    /\ UNCHANGED <<rowVars, cur, seen, result, agentVars, budgetVars>>

\* Variant of AgentExit: does not wait for its workers.
AgentExitUnawaited(a) ==
    /\ agent[a] = "stopping"
    /\ agent' = [agent EXCEPT ![a] = "down"]
    /\ cleanPc' = [cleanPc EXCEPT ![a] = "idle"]
    /\ cleanRows' = [cleanRows EXCEPT ![a] = {}]
    /\ UNCHANGED <<rowVars, workerVars, budgetVars>>

\* wg.Wait() returns and the process ends; it does not wait for the cleanup
\* goroutine.
AgentExit(a) ==
    /\ agent[a] = "stopping"
    /\ \A w \in WorkersOf(a) : pc[w] = "exited"
    /\ agent' = [agent EXCEPT ![a] = "down"]
    /\ cleanPc' = [cleanPc EXCEPT ![a] = "idle"]
    /\ cleanRows' = [cleanRows EXCEPT ![a] = {}]
    /\ UNCHANGED <<rowVars, workerVars, budgetVars>>

CrashAgent(a) ==
    /\ agent[a] # "down" /\ crashes < MaxCrashes
    /\ agent' = [agent EXCEPT ![a] = "down"]
    /\ cleanPc' = [cleanPc EXCEPT ![a] = "idle"]
    /\ cleanRows' = [cleanRows EXCEPT ![a] = {}]
    /\ pc' = [w \in Workers |-> IF AgentOf[w] = a THEN "exited" ELSE pc[w]]
    /\ cur' = [w \in Workers |-> IF AgentOf[w] = a THEN NoRun ELSE cur[w]]
    /\ seen' = [w \in Workers |-> IF AgentOf[w] = a THEN 0 ELSE seen[w]]
    /\ result' = [w \in Workers |-> IF AgentOf[w] = a THEN "none" ELSE result[w]]
    /\ crashes' = crashes + 1
    /\ UNCHANGED <<rowVars, stops, faults>>

\* Agent.Start after a stop or a crash.
StartAgent(a) ==
    /\ agent[a] = "down"
    /\ agent' = [agent EXCEPT ![a] = "up"]
    /\ pc' = [w \in Workers |-> IF AgentOf[w] = a THEN "idle" ELSE pc[w]]
    /\ UNCHANGED <<rowVars, cur, seen, result, cleanPc, cleanRows, budgetVars>>

-----------------------------------------------------------------------------
WorkerStep(w) ==
    \/ \E r \in Runs : ProcessNextJob(w, r) \/ ClaimUnacknowledged(w, r)
    \/ ExecuteJob(w)
    \/ SettleJob(w) \/ LoseJobUpdate(w)
    \/ SettleRun(w) \/ LoseRunUpdate(w)
    \/ WorkerExit(w)

AgentStep(a) ==
    \/ ReleaseExpiredLeases(a) \/ SnapshotRows(a) \/ ResetRuns(a) \/ LoseReset(a)
    \/ StopAgent(a) \/ AgentExit(a) \/ CrashAgent(a) \/ StartAgent(a)

Next ==
    \/ \E r \in Runs : CreateRun(r) \/ LeaseExpires(r) \/ BecomesDue(r)
    \/ CleanupOldJobs
    \/ \E w \in Workers : WorkerStep(w)
    \/ \E a \in Agents : AgentStep(a)

\* Tickers tick, statements and RunContainer return, time passes, a stopped
\* agent is started again.  Clients, crashes, faults and the GC owe nothing.
Fairness ==
    /\ \A w \in Workers :
         /\ WF_vars(\E r \in Runs : ProcessNextJob(w, r))
         /\ WF_vars(ExecuteJob(w))
         /\ WF_vars(SettleJob(w))
         /\ WF_vars(SettleRun(w))
         /\ WF_vars(WorkerExit(w))
    /\ \A a \in Agents :
         /\ WF_vars(ReleaseExpiredLeases(a))
         /\ WF_vars(SnapshotRows(a))
         /\ WF_vars(ResetRuns(a))
         /\ WF_vars(AgentExit(a))
         /\ WF_vars(StartAgent(a))
    /\ \A r \in Runs : WF_vars(LeaseExpires(r)) /\ WF_vars(BecomesDue(r))

Spec == Init /\ [][Next]_vars

FairSpec == Spec /\ Fairness
=============================================================================
