------------------------ MODULE RunStorageProperties ------------------------
(***************************************************************************)
(* What should be true of files and rows, however handlers, the garbage    *)
(* collector, agents and a crash of the manager interleave.                *)
(***************************************************************************)
EXTENDS RunStorage, FiniteSets

ArtifactsOK ==
    /\ upload \in [Artifacts -> {"none", "saving", "saved", "ended"}]
    /\ artFile \in [Artifacts -> {"none", "tmp", "stored"}]
    /\ artRow \in [Artifacts -> {"none", "fresh", "consumed", "deleted"}]
    /\ aged \in [Artifacts -> BOOLEAN]

RunsOK ==
    /\ request \in [Runs -> {"none", "checked", "ended"}]
    /\ artOf \in [Runs -> Artifacts \cup {Nothing}]
    /\ runStatus \in [Runs -> {"none", "pending", "running"} \cup Ended]
    /\ worker \in [Runs -> {"none", "claimed", "executing", "logFound", "logMissing"}]
    /\ \A r \in Runs : /\ request[r] = "none" <=> artOf[r] = Nothing
                       /\ worker[r] # "none" <=> runStatus[r] = "running"
                       /\ runStatus[r] # "none" => request[r] = "ended"

LogsOK ==
    /\ logFile \in [Runs -> BOOLEAN] /\ logPath \in [Runs -> BOOLEAN]
    /\ expired \in [Runs -> BOOLEAN] /\ deleted \in [Runs -> BOOLEAN]
    /\ download \in [Downloads -> Runs \cup {Nothing}]

CollectorOK ==
    /\ \/ gcPc = "idle" /\ gcRows = {} /\ gcCur = Nothing
       \/ gcPc = "runs" /\ gcRows \subseteq Runs /\ gcCur \in Runs \cup {Nothing}
       \/ gcPc = "artifacts" /\ gcRows \subseteq Artifacts /\ gcCur \in Artifacts \cup {Nothing}
    /\ gcPaths \subseteq Runs

UsesOK == downloads \in 0..MaxDownloads /\ crashes \in 0..MaxCrashes /\ faults \in 0..MaxFaults

\* Types, and what couples the handlers, the workers and the collector to
\* the rows.
TypeOK == ArtifactsOK /\ RunsOK /\ LogsOK /\ CollectorOK /\ UsesOK

\* A client that uploads an archive can use it: until its first run, its row
\* has a complete file, whatever uploads failed, crashed or were collected
\* (handleUploadArtifact, cleanupConsumedArtifacts).
FreshArtifactStored == \A a \in Artifacts : artRow[a] = "fresh" => artFile[a] = "stored"

\* An archive as Custody sees it.
SeenRow(a) == IF artRow[a] = "consumed" /\ aged[a] THEN "spent" ELSE artRow[a]

CustodyOf(a) == INSTANCE Custody WITH
    file <- artFile[a], row <- SeenRow(a),
    held <- upload[a] \in {"saving", "saved"}, ended <- crashes > 0

\* Handlers, collector and crashes pass each archive on as Custody says: its
\* upload cleans up or hands a complete file to the row, runs are given files
\* that are there, and the collector takes only what was used and an hour old,
\* though its query, its removal and its mark are steps apart
\* (handleUploadArtifact, handleCreateRun, cleanupConsumedArtifacts).
KeepsCustody ==
    /\ \A a \in Artifacts : CustodyOf(a)!Init
    /\ [][\A a \in Artifacts : [CustodyOf(a)!Next]_(CustodyOf(a)!vars)]_vars

\* The archive of a run that is not finished is there as long as less than an
\* hour has passed since it was (last) put to use, also when two requests
\* passed the check for one artifact (handleCreateRun, cleanupConsumedArtifacts).
InputPresent ==
    \A r \in Runs : Unfinished(r) /\ artFile[artOf[r]] # "stored" => aged[artOf[r]]

\* A log that GET /runs/{id} offers exists, or the collector is about to mark
\* its run deleted, unless a mark was lost in a failure.
OfferedLogExists ==
    crashes = 0 /\ faults = 0 =>
        \A r \in Runs : LogAvailable(r) => logFile[r] \/ gcCur = r

\* Runs are deleted before their delete_after only when a complete download
\* moved it while the collector was at work on them: at most one run for each
\* download (cleanupExpiredRuns, markLogAsReceived).
DeletedInTime == Cardinality({r \in Runs : deleted[r] /\ ~expired[r]}) <= downloads

\* Every run is deleted in the end, whatever becomes of its job and of the
\* downloads.
RunsCollected == \A r \in Runs : runStatus[r] = "pending" ~> deleted[r]

\* Every artifact that was put to use is deleted in the end.
ArtifactsCollected == \A a \in Artifacts : artRow[a] = "consumed" ~> artRow[a] = "deleted"

-----------------------------------------------------------------------------
(* What documents and comments say, and the code does not do *)

\* An artifact is kept until its test was executed (docs/ToR.md:13).
InputKept == \A r \in Runs : Unfinished(r) => artFile[artOf[r]] = "stored"

\* The data of a run with an expired TTL are removed with it (gc.go:72), at
\* least when it had ended.
LogsCollected == \A r \in Runs : deleted[r] /\ runStatus[r] \in Ended => ~logFile[r]
=============================================================================
