----------------------------- MODULE RunStorage -----------------------------
(***************************************************************************)
(* What the manager keeps on disk, against what its tables say: uploaded   *)
(* archives and their rows in `artifacts`, run logs and their links in     *)
(* `runs`.  The actors are the HTTP handlers (one upload per artifact, one *)
(* POST /runs per run, some downloads), the garbage collector's goroutine  *)
(* and the agents.  A statement or a file operation is one action.         *)
(*                                                                         *)
(* Abstracted: contents, sizes and manifests (an upload is accepted or     *)
(* not), clients (all requests are of one), empty directories, and the     *)
(* job queue, of which only the claims and the outcomes are left: one      *)
(* execution at a time, any number of retries (see JobQueue).              *)
(***************************************************************************)
EXTENDS Naturals

CONSTANTS
    Artifacts,     \* artifact ids, one per upload
    Runs,          \* run ids, one per POST /runs
    Downloads,     \* concurrent GET /runs/{id}/log
    Nothing,       \* neither an artifact nor a run
    MaxDownloads,  \* bound: downloads begun
    MaxCrashes,    \* bound: crashes of the manager
    MaxFaults      \* bound: file removals and statements of the GC that fail

ASSUME NothingAssumption == Nothing \notin Artifacts \cup Runs
ASSUME DisjointAssumption == Artifacts \cap Runs = {}
ASSUME StorageBudgets == MaxDownloads \in Nat /\ MaxCrashes \in Nat /\ MaxFaults \in Nat

VARIABLES
    upload,     \* where each upload's handler is
    artFile,    \* the archive on disk: "none", "tmp" (app.tar.gz.tmp) or "stored"
    artRow,     \* row in artifacts: "none", "fresh", "consumed" or "deleted" (after use)
    aged,       \* consumed_at < now() - 1 hour
    request,    \* where each POST /runs handler is
    artOf,      \* runs.artifact_id, or the handler's req.ArtifactID
    runStatus,  \* runs.status; "finished" stands for passed, failed and timeout
    worker,     \* the run's execution by an agent
    logFile,    \* run.log is on disk
    logPath,    \* runs.log_path is not NULL
    expired,    \* runs.delete_after < now()
    deleted,    \* runs.deleted_at is not NULL
    download,   \* the run whose open log a download copies
    gcPc,       \* the cleanup the garbage collector is in
    gcRows,     \* the rows its query returned and it has not come to
    gcPaths,    \* those runs among them whose log_path was not NULL
    gcCur,      \* the row whose file it has removed and which it marks next
    downloads, crashes, faults  \* budgets used

artVars  == <<upload, artFile, artRow, aged>>
runVars  == <<request, artOf, runStatus, worker>>
logVars  == <<logFile, logPath, expired, deleted>>
gcVars   == <<gcPc, gcRows, gcPaths, gcCur>>
useVars  == <<downloads, crashes, faults>>
vars     == <<artVars, runVars, logVars, download, gcVars, useVars>>

Ended == {"finished", "error"}

Unfinished(r) == runStatus[r] \in {"pending", "running"}

\* logAvailable of handleGetRun, for a run it does not answer 404 for.
LogAvailable(r) == ~deleted[r] /\ runStatus[r] \in Ended /\ logPath[r]

-----------------------------------------------------------------------------
Init ==
    /\ upload = [a \in Artifacts |-> "none"]
    /\ artFile = [a \in Artifacts |-> "none"]
    /\ artRow = [a \in Artifacts |-> "none"]
    /\ aged = [a \in Artifacts |-> FALSE]
    /\ request = [r \in Runs |-> "none"]
    /\ artOf = [r \in Runs |-> Nothing]
    /\ runStatus = [r \in Runs |-> "none"]
    /\ worker = [r \in Runs |-> "none"]
    /\ logFile = [r \in Runs |-> FALSE]
    /\ logPath = [r \in Runs |-> FALSE]
    /\ expired = [r \in Runs |-> FALSE]
    /\ deleted = [r \in Runs |-> FALSE]
    /\ download = [d \in Downloads |-> Nothing]
    /\ gcPc = "idle" /\ gcRows = {} /\ gcPaths = {} /\ gcCur = Nothing
    /\ downloads = 0 /\ crashes = 0 /\ faults = 0

-----------------------------------------------------------------------------
(* POST /artifacts *)

\* The request is well formed and SaveMultipartFile has opened its file.
BeginUpload(a) ==
    /\ upload[a] = "none"
    /\ upload' = [upload EXCEPT ![a] = "saving"]
    /\ artFile' = [artFile EXCEPT ![a] = "tmp"]
    /\ UNCHANGED <<artRow, aged, runVars, logVars, download, gcVars, useVars>>

\* SaveMultipartFile renames the complete file ...
SaveFile(a) ==
    /\ upload[a] = "saving"
    /\ upload' = [upload EXCEPT ![a] = "saved"]
    /\ artFile' = [artFile EXCEPT ![a] = "stored"]
    /\ UNCHANGED <<artRow, aged, runVars, logVars, download, gcVars, useVars>>

\* Variant of SaveFails: the handler goes on.
SaveFailsUnnoticed(a) ==
    /\ upload[a] = "saving"
    /\ upload' = [upload EXCEPT ![a] = "saved"]
    /\ artFile' = [artFile EXCEPT ![a] = "none"]
    /\ UNCHANGED <<artRow, aged, runVars, logVars, download, gcVars, useVars>>

\* ... or fails (too large, broken body, disk) and removes it.
SaveFails(a) ==
    /\ upload[a] = "saving"
    /\ upload' = [upload EXCEPT ![a] = "ended"]
    /\ artFile' = [artFile EXCEPT ![a] = "none"]
    /\ UNCHANGED <<artRow, aged, runVars, logVars, download, gcVars, useVars>>

\* The manifest is missing or invalid, or the INSERT fails: the file stays.
RejectArtifact(a) ==
    /\ upload[a] = "saved"
    /\ upload' = [upload EXCEPT ![a] = "ended"]
    /\ UNCHANGED <<artFile, artRow, aged, runVars, logVars, download, gcVars, useVars>>

InsertArtifact(a) ==
    /\ upload[a] = "saved"
    /\ upload' = [upload EXCEPT ![a] = "ended"]
    /\ artRow' = [artRow EXCEPT ![a] = "fresh"]
    /\ UNCHANGED <<artFile, aged, runVars, logVars, download, gcVars, useVars>>

-----------------------------------------------------------------------------
(* POST /runs *)

\* Variant of Usable: a used artifact may be used again.
UsableAgain(a) == artRow[a] \in {"fresh", "consumed"}

\* WHERE of the artifact check: deleted_at IS NULL AND consumed_at IS NULL.
Usable(a) == artRow[a] = "fresh"

\* The check, outside the transaction (an unusable artifact ends the request).
CheckArtifact(r, a) ==
    /\ request[r] = "none" /\ Usable(a)
    /\ request' = [request EXCEPT ![r] = "checked"]
    /\ artOf' = [artOf EXCEPT ![r] = a]
    /\ UNCHANGED <<artVars, runStatus, worker, logVars, download, gcVars, useVars>>

\* The transaction: run, job, and consumed_at = now() whatever the row was.
SubmitRun(r) ==
    LET a == artOf[r] IN
    /\ request[r] = "checked"
    /\ request' = [request EXCEPT ![r] = "ended"]
    /\ runStatus' = [runStatus EXCEPT ![r] = "pending"]
    /\ artRow' = [artRow EXCEPT ![a] = IF @ = "fresh" THEN "consumed" ELSE @]
    /\ aged' = [aged EXCEPT ![a] = FALSE]
    /\ UNCHANGED <<upload, artFile, artOf, worker, logVars, download, gcVars, useVars>>

\* One of its statements, or COMMIT, fails: nothing remains of the run.
RollbackRun(r) ==
    /\ request[r] = "checked"
    /\ request' = [request EXCEPT ![r] = "ended"]
    /\ UNCHANGED <<artVars, artOf, runStatus, worker, logVars, download, gcVars, useVars>>

-----------------------------------------------------------------------------
(* The agents *)

ClaimRun(r) ==
    /\ runStatus[r] = "pending" /\ worker[r] = "none"
    /\ runStatus' = [runStatus EXCEPT ![r] = "running"]
    /\ worker' = [worker EXCEPT ![r] = "claimed"]
    /\ UNCHANGED <<artVars, request, artOf, logVars, download, gcVars, useVars>>

\* The bind mount of the archive needs the file: ContainerCreate fails
\* without it.
StartContainer(r) ==
    /\ worker[r] = "claimed" /\ artFile[artOf[r]] = "stored"
    /\ worker' = [worker EXCEPT ![r] = "executing"]
    /\ UNCHANGED <<artVars, request, artOf, runStatus, logVars, download, gcVars, useVars>>

\* runner.sh appends to /artifacts/run.log.
WriteLog(r) ==
    /\ worker[r] = "executing" /\ ~logFile[r]
    /\ logFile' = [logFile EXCEPT ![r] = TRUE]
    /\ UNCHANGED <<artVars, runVars, logPath, expired, deleted, download, gcVars, useVars>>

\* Variant of StatLog: trusts that there is a log.
StatLogTrusting(r) ==
    /\ worker[r] = "executing"
    /\ worker' = [worker EXCEPT ![r] = "logFound"]
    /\ UNCHANGED <<artVars, request, artOf, runStatus, logVars, download, gcVars, useVars>>

\* finishRun looks for the log ...
StatLog(r) ==
    /\ worker[r] = "executing"
    /\ worker' = [worker EXCEPT ![r] = IF logFile[r] THEN "logFound" ELSE "logMissing"]
    /\ UNCHANGED <<artVars, request, artOf, runStatus, logVars, download, gcVars, useVars>>

\* ... and updates the run, even one that was deleted meanwhile.
FinishRun(r) ==
    /\ worker[r] \in {"logFound", "logMissing"}
    /\ worker' = [worker EXCEPT ![r] = "none"]
    /\ runStatus' = [runStatus EXCEPT ![r] = "finished"]
    /\ logPath' = [logPath EXCEPT ![r] = (worker[r] = "logFound")]
    /\ UNCHANGED <<artVars, request, artOf, logFile, expired, deleted, download, gcVars, useVars>>

\* Variant of FailRun: executeJob does not return after failJob.
FailRunGoesOn(r) ==
    /\ worker[r] \in {"claimed", "executing"}
    /\ \E s \in {"pending", "error"} : runStatus' = [runStatus EXCEPT ![r] = s]
    /\ UNCHANGED <<artVars, request, artOf, worker, logVars, download, gcVars, useVars>>

\* failJob: back to the queue, or the end; log_path is not written.
FailRun(r) ==
    /\ worker[r] \in {"claimed", "executing"}
    /\ worker' = [worker EXCEPT ![r] = "none"]
    /\ \E s \in {"pending", "error"} : runStatus' = [runStatus EXCEPT ![r] = s]
    /\ UNCHANGED <<artVars, request, artOf, logVars, download, gcVars, useVars>>

-----------------------------------------------------------------------------
(* GET /runs/{id}/log *)

OpenLog(d, r) ==
    /\ download[d] = Nothing /\ downloads < MaxDownloads
    /\ LogAvailable(r) /\ logFile[r]
    /\ download' = [download EXCEPT ![d] = r]
    /\ downloads' = downloads + 1
    /\ UNCHANGED <<artVars, runVars, logVars, gcVars, crashes, faults>>

\* All bytes are sent: markLogAsReceived moves delete_after to the future.
ReceiveLog(d) ==
    /\ download[d] # Nothing
    /\ expired' = [expired EXCEPT ![download[d]] = FALSE]
    /\ download' = [download EXCEPT ![d] = Nothing]
    /\ UNCHANGED <<artVars, runVars, logFile, logPath, deleted, gcVars, useVars>>

\* The copy fails, or the UPDATE does and its error is discarded.
AbortDownload(d) ==
    /\ download[d] # Nothing
    /\ download' = [download EXCEPT ![d] = Nothing]
    /\ UNCHANGED <<artVars, runVars, logVars, gcVars, useVars>>

-----------------------------------------------------------------------------
(* The garbage collector: cleanupExpiredRuns, then cleanupConsumedArtifacts *)

Fault == faults < MaxFaults /\ faults' = faults + 1

\* Variant of ExpiredRuns: leaves runs alone that have not ended.
ExpiredEndedRuns == {r \in Runs : runStatus[r] \in Ended /\ expired[r] /\ ~deleted[r]}

\* Variant of ExpiredRuns: ended is enough.
EndedRuns == {r \in Runs : runStatus[r] \in Ended /\ ~deleted[r]}

\* delete_after < now() AND deleted_at IS NULL.
ExpiredRuns == {r \in Runs : runStatus[r] # "none" /\ expired[r] /\ ~deleted[r]}

UsedArtifacts == {a \in Artifacts : artRow[a] = "consumed" /\ aged[a]}

\* The query; when it fails there is nothing to clean.
SelectRuns ==
    /\ gcPc = "idle"
    /\ gcPc' = "runs"
    /\ \/ gcRows' = ExpiredRuns /\ UNCHANGED faults
       \/ gcRows' = {} /\ Fault
    /\ gcPaths' = {r \in gcRows' : logPath[r]}
    /\ UNCHANGED <<artVars, runVars, logVars, download, gcCur, downloads, crashes>>

\* os.Remove of the path in the row, for its outcome see MarkRunDeleted.
RemoveLog(r) ==
    /\ gcPc = "runs" /\ gcCur = Nothing /\ r \in gcRows
    /\ gcCur' = r
    /\ gcRows' = gcRows \ {r}
    /\ \/ logFile' = [logFile EXCEPT ![r] = @ /\ r \notin gcPaths] /\ UNCHANGED faults
       \/ r \in gcPaths /\ UNCHANGED logFile /\ Fault
    /\ UNCHANGED <<artVars, runVars, logPath, expired, deleted, download, gcPc, gcPaths,
                   downloads, crashes>>

\* The row is marked even if the file could not be removed; an UPDATE that
\* fails leaves it to the next cleanup.
MarkRunDeleted(r) ==
    /\ gcPc = "runs" /\ gcCur = r
    /\ gcCur' = Nothing
    /\ \/ /\ deleted' = [deleted EXCEPT ![r] = TRUE]
          /\ logPath' = [logPath EXCEPT ![r] = FALSE]
          /\ UNCHANGED faults
       \/ UNCHANGED <<deleted, logPath>> /\ Fault
    /\ UNCHANGED <<artVars, runVars, logFile, expired, download, gcPc, gcRows, gcPaths,
                   downloads, crashes>>

SelectArtifacts ==
    /\ gcPc = "runs" /\ gcRows = {} /\ gcCur = Nothing
    /\ gcPc' = "artifacts"
    /\ \/ gcRows' = UsedArtifacts /\ UNCHANGED faults
       \/ gcRows' = {} /\ Fault
    /\ gcPaths' = {}
    /\ UNCHANGED <<artVars, runVars, logVars, download, gcCur, downloads, crashes>>

\* Variant of RemoveArtifact: takes a missing file for a failure and goes on
\* to the next row.
RemoveArtifactPresent(a) ==
    /\ gcPc = "artifacts" /\ gcCur = Nothing /\ a \in gcRows
    /\ gcCur' = IF artFile[a] = "stored" THEN a ELSE Nothing
    /\ gcRows' = gcRows \ {a}
    /\ artFile' = [artFile EXCEPT ![a] = "none"]
    /\ UNCHANGED <<upload, artRow, aged, runVars, logVars, download, gcPc, gcPaths, useVars>>

RemoveArtifact(a) ==
    /\ gcPc = "artifacts" /\ gcCur = Nothing /\ a \in gcRows
    /\ gcCur' = a
    /\ gcRows' = gcRows \ {a}
    /\ \/ artFile' = [artFile EXCEPT ![a] = "none"] /\ UNCHANGED faults
       \/ UNCHANGED artFile /\ Fault
    /\ UNCHANGED <<upload, artRow, aged, runVars, logVars, download, gcPc, gcPaths,
                   downloads, crashes>>

MarkArtifactDeleted(a) ==
    /\ gcPc = "artifacts" /\ gcCur = a
    /\ gcCur' = Nothing
    /\ \/ artRow' = [artRow EXCEPT ![a] = "deleted"] /\ UNCHANGED faults
       \/ UNCHANGED artRow /\ Fault
    /\ UNCHANGED <<upload, artFile, aged, runVars, logVars, download, gcPc, gcRows, gcPaths,
                   downloads, crashes>>

\* cleanupOldJobs (see JobQueue) touches none of this; then the ticker waits.
EndCleanup ==
    /\ gcPc = "artifacts" /\ gcRows = {} /\ gcCur = Nothing
    /\ gcPc' = "idle"
    /\ UNCHANGED <<artVars, runVars, logVars, download, gcRows, gcPaths, gcCur, useVars>>

-----------------------------------------------------------------------------
(* Time, and the manager process *)

\* delete_after passes: a run may well wait in the queue that long.
RunExpires(r) ==
    /\ runStatus[r] # "none" /\ ~expired[r] /\ ~deleted[r]
    /\ expired' = [expired EXCEPT ![r] = TRUE]
    /\ UNCHANGED <<artVars, runVars, logFile, logPath, deleted, download, gcVars, useVars>>

\* An hour since consumed_at: longer than any request, not than any job.
HourPasses(a) ==
    /\ artRow[a] = "consumed" /\ ~aged[a]
    /\ \A r \in Runs : request[r] = "checked" => artOf[r] # a
    /\ aged' = [aged EXCEPT ![a] = TRUE]
    /\ UNCHANGED <<upload, artFile, artRow, runVars, logVars, download, gcVars, useVars>>

\* The manager dies and is started again: every handler and the garbage
\* collector's progress are gone.
CrashManager ==
    /\ crashes < MaxCrashes
    /\ crashes' = crashes + 1
    /\ upload' = [a \in Artifacts |-> IF upload[a] = "none" THEN "none" ELSE "ended"]
    /\ request' = [r \in Runs |-> IF request[r] = "none" THEN "none" ELSE "ended"]
    /\ download' = [d \in Downloads |-> Nothing]
    /\ gcPc' = "idle" /\ gcRows' = {} /\ gcPaths' = {} /\ gcCur' = Nothing
    /\ UNCHANGED <<artFile, artRow, aged, artOf, runStatus, worker, logVars, downloads, faults>>

-----------------------------------------------------------------------------
Upload(a) ==
    BeginUpload(a) \/ SaveFile(a) \/ SaveFails(a) \/ RejectArtifact(a) \/ InsertArtifact(a)

Request(r) == (\E a \in Artifacts : CheckArtifact(r, a)) \/ SubmitRun(r) \/ RollbackRun(r)

Execution(r) ==
    \/ ClaimRun(r) \/ StartContainer(r) \/ WriteLog(r)
    \/ StatLog(r) \/ FinishRun(r) \/ FailRun(r)

Download(d) == (\E r \in Runs : OpenLog(d, r)) \/ ReceiveLog(d) \/ AbortDownload(d)

Cleanup ==
    \/ SelectRuns \/ (\E r \in Runs : RemoveLog(r) \/ MarkRunDeleted(r))
    \/ SelectArtifacts \/ (\E a \in Artifacts : RemoveArtifact(a) \/ MarkArtifactDeleted(a))
    \/ EndCleanup

Next ==
    \/ \E a \in Artifacts : Upload(a) \/ HourPasses(a)
    \/ \E r \in Runs : Request(r) \/ Execution(r) \/ RunExpires(r)
    \/ \E d \in Downloads : Download(d)
    \/ Cleanup
    \/ CrashManager

\* Time passes, handlers return, and the ticker starts one cleanup after the
\* other.  Clients and agents owe nothing.
Fairness ==
    /\ WF_vars(Cleanup)
    /\ \A r \in Runs : WF_vars(RunExpires(r)) /\ WF_vars(SubmitRun(r) \/ RollbackRun(r))
    /\ \A a \in Artifacts : WF_vars(HourPasses(a))

Spec == Init /\ [][Next]_vars

FairSpec == Spec /\ Fairness
=============================================================================
