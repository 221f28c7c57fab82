------------------------- MODULE JobQueueProperties -------------------------
(***************************************************************************)
(* What should be true of the job queue.  Each property names the runs'    *)
(* assumptions it needs; the README says which run checks it.              *)
(***************************************************************************)
EXTENDS JobQueue

-----------------------------------------------------------------------------
(* Safety, whatever docker, clocks, crashes and lost statements do *)

\* However often executions overlap, a job is executed at most twice as often
\* as max_attempts says: the worker's retry guard compares the count read
\* before its own increment and the lease cleanup the current one
\* (worker.go:244, agent.go:105).
AttemptsBounded == \A r \in Runs : attempts[r] <= 2 * MaxAttempts

\* Two workers that execute the same job at once do so for different attempt
\* numbers: the number a claim reads identifies the execution, so it could
\* serve as the fencing token that failJob and finishRun do not check.
DistinctAttempts ==
    \A r \in Runs : \A v, w \in Workers :
        Holds(v, r) /\ Holds(w, r) /\ v # w => seen[v] # seen[w]

\* A run is given up (failJob's final branch) only after max_attempts
\* executions, even when stale workers report errors of old executions.
NoEarlyGiveUp ==
    \A r \in Runs : jobStatus[r] = "failed" \/ runStatus[r] = "error"
                    => attempts[r] >= MaxAttempts

\* A run's job as its executions see it: Executions, numbered by the counts that
\* their claims read.
JobSeen(r) ==
    CASE jobStatus[r] = "running" -> "taken"
      [] jobStatus[r] = "none"    -> IF runStatus[r] = "none" THEN "queued" ELSE "forgotten"
      [] OTHER                    -> jobStatus[r]

Living(r) == {seen[w] + 1 : w \in Holders(r)}

ExecutionsOf(r) == INSTANCE Executions WITH
    Overlap <- Overruns, job <- JobSeen(r), tries <- attempts[r], running <- Living(r)

\* Whatever leases, stale workers, crashes and lost statements do, a run's job
\* goes from one execution to the next as RunContainer may rely on: the answer of
\* an execution, however late, is retried if its own number is one of the first
\* max_attempts, and the job is taken back from one that lives only with
\* overruns (processNextJob, failJob, finishRun, releaseExpiredLeases).
RunsAsExecutions ==
    /\ \A r \in Runs : ExecutionsOf(r)!Init
    /\ [][\A r \in Runs : [ExecutionsOf(r)!Next]_(ExecutionsOf(r)!vars)]_vars

-----------------------------------------------------------------------------
(* Safety when no execution outlives its lease *)

\* Claims (FOR UPDATE SKIP LOCKED), leases and their release never give one
\* job to two workers, and a worker that executes a job owns its live lease.
ExclusiveExecution ==
    \A r \in Runs : \A w \in Holders(r) :
        /\ jobStatus[r] = "running" /\ lease[r] = "live"
        /\ \A v \in Holders(r) : v = w

\* A settled job stays settled: no claim, retry or release revives it, the
\* garbage collector alone deletes it.
JobFinal ==
    [][\A r \in Runs : jobStatus[r] \in {"done", "failed"}
                       => jobStatus'[r] \in {jobStatus[r], "none"}]_vars

\* Executions per job: the retry guard of failJob lets one more than
\* max_attempts begin, and never two.
TriesWithinRetryBudget == \A r \in Runs : attempts[r] <= MaxAttempts + 1

\* The queue as its users see it: LeaseQueue, the owner of a job being the
\* worker that holds it.
QueueState ==
    [r \in Runs |->
       CASE jobStatus[r] = "queued"  -> "waiting"
         [] jobStatus[r] = "running" -> "held"
         [] jobStatus[r] = "none"    -> IF runStatus[r] = "none" THEN "absent" ELSE "forgotten"
         [] OTHER                    -> jobStatus[r]]

QueueOwner ==
    [r \in Runs |-> IF Holders(r) = {} THEN NoRun ELSE CHOOSE w \in Workers : Holds(w, r)]

Abstract == INSTANCE LeaseQueue WITH
    Jobs <- Runs, Nobody <- NoRun, MaxTries <- MaxAttempts,
    state <- QueueState, owner <- QueueOwner, tries <- attempts

\* Without overruns the rows and statements implement that queue, crashes,
\* lost statements and lost acknowledgements of claims included.
RefinesLeaseQueue == Abstract!Spec

-----------------------------------------------------------------------------
(* What a client reads from runs *)

\* A final status and exit_code of a run come from the same execution,
\* unless a statement was lost or executions overlapped.
ResultCoherent ==
    faults = 0 => \A r \in Runs :
        /\ runStatus[r] = "passed" => exitCode[r] = "zero"
        /\ runStatus[r] = "failed" => exitCode[r] = "nonzero"
        /\ runStatus[r] \in {"timeout", "error"} => exitCode[r] = "null"

\* The job of a finished run is settled, unless a statement was lost: no claim
\* and no lease release can touch the run any more.
FinishedRunSettled ==
    faults = 0 => \A r \in Runs :
        runStatus[r] \in Terminal => jobStatus[r] \in {"done", "failed", "none"}

\* A run that a client has seen passed, failed, error or timeout keeps that
\* status, unless an older execution of it has still to issue its second
\* statement: claims, lease releases and agents that restart never reopen it.
OnlyStragglersReopen ==
    [][faults = 0 => \A r \in Runs :
         runStatus[r] \in Terminal /\ runStatus'[r] # runStatus[r]
         => \E w \in Workers : cur[w] = r /\ pc[w] = "runUpdate"]_vars

\* Agents that only stop gracefully strand no job: one marked running is
\* being executed, by the worker of the latest claim (Agent.Stop waits).
RunningIsHeld ==
    crashes = 0 /\ faults = 0 =>
        \A r \in Runs : jobStatus[r] = "running"
            => \E w \in Holders(r) : seen[w] + 1 = attempts[r]

-----------------------------------------------------------------------------
(* Liveness *)

\* Every created run reaches a final status.
RunSettles == \A r \in Runs : runStatus[r] = "pending" ~> runStatus[r] \in Terminal

\* Without crashes and lost statements every run ends, leases expiring under
\* executions or not, as long as two workers are never at work on one run.
RunSettlesAlone ==
    [](crashes = 0 /\ faults = 0 /\ \A r \in Runs : \A v, w \in Workers :
         AtWork(v, r) /\ AtWork(w, r) => v = w)
    => RunSettles

\* What the queue guarantees in spite of crashes and lost statements: a
\* queued job is settled, or it was lost with all its attempts used.
JobSettlesOrExhausted ==
    \A r \in Runs : jobStatus[r] = "queued" ~>
        \/ jobStatus[r] \in {"done", "failed", "none"}
        \/ /\ jobStatus[r] = "running" /\ Holders(r) = {}
           /\ attempts[r] >= MaxAttempts

-----------------------------------------------------------------------------
(* What documents and comments say, and the code does not do *)

\* The outcome of a run is final: pending -> running -> passed, failed, error
\* or timeout (README.md, docs/endpoints.md).
OutcomeFinal ==
    [][\A r \in Runs : runStatus[r] \in Terminal => runStatus'[r] = runStatus[r]]_vars

\* max_attempts limits the executions of a job (worker.go:243).
AttemptsWithinMax == \A r \in Runs : attempts[r] <= MaxAttempts

\* A job whose lease expired returns to the queue (agent.go:95).
ExpiredLeaseRequeued ==
    \A r \in Runs :
        jobStatus[r] = "running" /\ lease[r] = "expired" ~> jobStatus[r] = "queued"
=============================================================================
