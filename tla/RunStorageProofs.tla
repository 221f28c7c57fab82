-------------------------- MODULE RunStorageProofs --------------------------
(***************************************************************************)
(* Proofs about the manager's storage, for any number of artifacts, runs,  *)
(* downloads, crashes and faults.                                          *)
(***************************************************************************)
EXTENDS RunStorageProperties, FiniteSetTheorems, TLAPS

USE NothingAssumption, DisjointAssumption, StorageBudgets
USE DEF artVars, runVars, logVars, gcVars, useVars, Ended

\* Every action, by the actor that takes it.
UploadActs == \E a \in Artifacts : Upload(a)
RequestActs == \E r \in Runs : Request(r)
ExecutionActs == \E r \in Runs : Execution(r)
DownloadActs == \E d \in Downloads : Download(d)
TimeActs == (\E a \in Artifacts : HourPasses(a)) \/ \E r \in Runs : RunExpires(r)

LEMMA NextActs ==
    [Next]_vars <=> \/ UploadActs \/ RequestActs \/ ExecutionActs \/ DownloadActs
                    \/ TimeActs \/ Cleanup \/ CrashManager \/ UNCHANGED vars
BY DEF Next, UploadActs, RequestActs, ExecutionActs, DownloadActs, TimeActs

-----------------------------------------------------------------------------
(* Types *)

LEMMA TypeInit == Init => TypeOK
BY DEF Init, TypeOK, ArtifactsOK, RunsOK, LogsOK, CollectorOK, UsesOK

LEMMA ArtifactsStep == ASSUME TypeOK, [Next]_vars PROVE ArtifactsOK'
<1> USE DEF TypeOK, ArtifactsOK
<1>1. CASE UploadActs
  BY <1>1 DEF UploadActs, Upload, BeginUpload, SaveFile, SaveFails, RejectArtifact, InsertArtifact
<1>2. CASE RequestActs
  <2>1. ASSUME NEW r \in Runs, SubmitRun(r) PROVE ArtifactsOK'
    <3>1. artOf[r] \in Artifacts BY <2>1 DEF SubmitRun, RunsOK
    <3> QED BY <2>1, <3>1 DEF SubmitRun
  <2> QED BY <1>2, <2>1 DEF RequestActs, Request, CheckArtifact, RollbackRun
<1>3. CASE ExecutionActs
  BY <1>3 DEF ExecutionActs, Execution, ClaimRun, StartContainer, WriteLog, StatLog,
              FinishRun, FailRun
<1>4. CASE DownloadActs
  BY <1>4 DEF DownloadActs, Download, OpenLog, ReceiveLog, AbortDownload
<1>5. CASE TimeActs BY <1>5 DEF TimeActs, HourPasses, RunExpires
<1>6. CASE Cleanup
  BY <1>6 DEF Cleanup, SelectRuns, RemoveLog, MarkRunDeleted, SelectArtifacts,
              RemoveArtifact, MarkArtifactDeleted, EndCleanup
<1>7. CASE CrashManager BY <1>7 DEF CrashManager
<1>8. CASE UNCHANGED vars BY <1>8 DEF vars
<1> QED BY <1>1, <1>2, <1>3, <1>4, <1>5, <1>6, <1>7, <1>8, NextActs

LEMMA RunsStep == ASSUME TypeOK, [Next]_vars PROVE RunsOK'
<1> USE DEF TypeOK, RunsOK
<1>1. CASE UploadActs
  BY <1>1 DEF UploadActs, Upload, BeginUpload, SaveFile, SaveFails, RejectArtifact, InsertArtifact
<1>2. CASE RequestActs
  BY <1>2 DEF RequestActs, Request, CheckArtifact, SubmitRun, RollbackRun
<1>3. CASE ExecutionActs
  BY <1>3 DEF ExecutionActs, Execution, ClaimRun, StartContainer, WriteLog, StatLog,
              FinishRun, FailRun
<1>4. CASE DownloadActs
  BY <1>4 DEF DownloadActs, Download, OpenLog, ReceiveLog, AbortDownload
<1>5. CASE TimeActs BY <1>5 DEF TimeActs, HourPasses, RunExpires
<1>6. CASE Cleanup
  BY <1>6 DEF Cleanup, SelectRuns, RemoveLog, MarkRunDeleted, SelectArtifacts,
              RemoveArtifact, MarkArtifactDeleted, EndCleanup
<1>7. CASE CrashManager BY <1>7 DEF CrashManager
<1>8. CASE UNCHANGED vars BY <1>8 DEF vars
<1> QED BY <1>1, <1>2, <1>3, <1>4, <1>5, <1>6, <1>7, <1>8, NextActs

LEMMA LogsStep == ASSUME TypeOK, [Next]_vars PROVE LogsOK'
<1> USE DEF TypeOK, LogsOK
<1>1. CASE UploadActs
  BY <1>1 DEF UploadActs, Upload, BeginUpload, SaveFile, SaveFails, RejectArtifact, InsertArtifact
<1>2. CASE RequestActs
  BY <1>2 DEF RequestActs, Request, CheckArtifact, SubmitRun, RollbackRun
<1>3. CASE ExecutionActs
  BY <1>3 DEF ExecutionActs, Execution, ClaimRun, StartContainer, WriteLog, StatLog,
              FinishRun, FailRun
<1>4. CASE DownloadActs
  BY <1>4 DEF DownloadActs, Download, OpenLog, ReceiveLog, AbortDownload
<1>5. CASE TimeActs BY <1>5 DEF TimeActs, HourPasses, RunExpires
<1>6. CASE Cleanup
  BY <1>6 DEF Cleanup, SelectRuns, RemoveLog, MarkRunDeleted, SelectArtifacts,
              RemoveArtifact, MarkArtifactDeleted, EndCleanup
<1>7. CASE CrashManager BY <1>7 DEF CrashManager
<1>8. CASE UNCHANGED vars BY <1>8 DEF vars
<1> QED BY <1>1, <1>2, <1>3, <1>4, <1>5, <1>6, <1>7, <1>8, NextActs

LEMMA CollectorStep == ASSUME TypeOK, [Next]_vars PROVE CollectorOK' /\ UsesOK'
<1> USE DEF TypeOK, CollectorOK, UsesOK
<1>1. CASE UploadActs
  BY <1>1 DEF UploadActs, Upload, BeginUpload, SaveFile, SaveFails, RejectArtifact, InsertArtifact
<1>2. CASE RequestActs
  BY <1>2 DEF RequestActs, Request, CheckArtifact, SubmitRun, RollbackRun
<1>3. CASE ExecutionActs
  BY <1>3 DEF ExecutionActs, Execution, ClaimRun, StartContainer, WriteLog, StatLog,
              FinishRun, FailRun
<1>4. CASE DownloadActs
  BY <1>4 DEF DownloadActs, Download, OpenLog, ReceiveLog, AbortDownload
<1>5. CASE TimeActs BY <1>5 DEF TimeActs, HourPasses, RunExpires
<1>6. CASE Cleanup
  <2> USE DEF Fault
  <2>1. ExpiredRuns \subseteq Runs /\ UsedArtifacts \subseteq Artifacts
    BY DEF ExpiredRuns, UsedArtifacts
  <2>2. CASE SelectRuns BY <2>1, <2>2 DEF SelectRuns
  <2>3. CASE SelectArtifacts BY <2>1, <2>3 DEF SelectArtifacts
  <2>4. ASSUME NEW r \in Runs, RemoveLog(r) PROVE CollectorOK' /\ UsesOK'
    BY <2>4 DEF RemoveLog
  <2>5. ASSUME NEW r \in Runs, MarkRunDeleted(r) PROVE CollectorOK' /\ UsesOK'
    BY <2>5 DEF MarkRunDeleted
  <2>6. ASSUME NEW a \in Artifacts, RemoveArtifact(a) PROVE CollectorOK' /\ UsesOK'
    BY <2>6 DEF RemoveArtifact
  <2>7. ASSUME NEW a \in Artifacts, MarkArtifactDeleted(a) PROVE CollectorOK' /\ UsesOK'
    BY <2>7 DEF MarkArtifactDeleted
  <2>8. CASE EndCleanup BY <2>8 DEF EndCleanup
  <2> QED BY <1>6, <2>2, <2>3, <2>4, <2>5, <2>6, <2>7, <2>8 DEF Cleanup
<1>7. CASE CrashManager BY <1>7 DEF CrashManager
<1>8. CASE UNCHANGED vars BY <1>8 DEF vars
<1> QED BY <1>1, <1>2, <1>3, <1>4, <1>5, <1>6, <1>7, <1>8, NextActs

LEMMA TypeStep == TypeOK /\ [Next]_vars => TypeOK'
BY ArtifactsStep, RunsStep, LogsStep, CollectorStep DEF TypeOK

\* Handlers, workers and the collector stay coupled to the rows they work on.
THEOREM StorageTypeCorrect == Spec => []TypeOK
BY TypeInit, TypeStep, PTL DEF Spec

-----------------------------------------------------------------------------
(* Archives *)

\* Before its row is inserted an archive belongs to its upload, which inserts
\* only what it has stored.
Uploading ==
    \A a \in Artifacts :
        /\ upload[a] # "ended" => artRow[a] = "none"
        /\ upload[a] = "none" => artFile[a] = "none"
        /\ upload[a] = "saving" => artFile[a] = "tmp"
        /\ upload[a] = "saved" => artFile[a] = "stored"

\* The collector holds archives that were used an hour ago and more and are not
\* marked yet; such an archive is past being checked, and no request that checked
\* it is left.
Aging ==
    \A a \in Artifacts :
        /\ a \in gcRows \/ gcCur = a => aged[a] /\ artRow[a] = "consumed"
        /\ ~(a \in gcRows /\ gcCur = a)
        /\ aged[a] => /\ artRow[a] \in {"consumed", "deleted"}
                      /\ \A r \in Runs : ~(request[r] = "checked" /\ artOf[r] = a)

\* The archive of a request that passed the check, or of a run, was inserted;
\* it is on disk until the collector's hour has come.
Kept ==
    /\ \A a \in Artifacts : artRow[a] # "none" /\ artFile[a] # "stored" => aged[a]
    /\ \A a \in Artifacts : artRow[a] = "deleted" => aged[a]
    /\ \A r \in Runs : artOf[r] # Nothing => artRow[artOf[r]] # "none"

ArchiveInv == TypeOK /\ Uploading /\ Aging /\ Kept

LEMMA ArchiveInit == Init => ArchiveInv
BY TypeInit DEF Init, ArchiveInv, Uploading, Aging, Kept

LEMMA ArchiveStep ==
    ASSUME ArchiveInv, [Next]_vars
    PROVE  Uploading' /\ Aging' /\ Kept'
<1> USE DEF ArchiveInv, TypeOK, ArtifactsOK, RunsOK, Uploading, Aging, Kept
<1> DEFINE Goal == Uploading' /\ Aging' /\ Kept'
<1>0. CollectorOK BY DEF ArchiveInv, TypeOK
<1>1. CASE UploadActs
  <2>1. ASSUME NEW a \in Artifacts, BeginUpload(a) PROVE Goal BY <2>1 DEF BeginUpload
  <2>2. ASSUME NEW a \in Artifacts, SaveFile(a) PROVE Goal BY <2>2 DEF SaveFile
  <2>3. ASSUME NEW a \in Artifacts, SaveFails(a) PROVE Goal BY <2>3 DEF SaveFails
  <2>4. ASSUME NEW a \in Artifacts, RejectArtifact(a) PROVE Goal BY <2>4 DEF RejectArtifact
  <2>5. ASSUME NEW a \in Artifacts, InsertArtifact(a) PROVE Goal BY <2>5 DEF InsertArtifact
  <2> QED BY <1>1, <2>1, <2>2, <2>3, <2>4, <2>5 DEF UploadActs, Upload
<1>2. CASE RequestActs
  <2>1. ASSUME NEW r \in Runs, NEW a \in Artifacts, CheckArtifact(r, a) PROVE Goal
    BY <2>1 DEF CheckArtifact, Usable
  <2>2. ASSUME NEW r \in Runs, SubmitRun(r) PROVE Goal
    <3>1. artOf[r] \in Artifacts /\ ~aged[artOf[r]] BY <2>2 DEF SubmitRun
    <3>2. artRow[artOf[r]] \in {"fresh", "consumed"} BY <3>1
    <3>3. artRow' = [artRow EXCEPT ![artOf[r]] = "consumed"] /\ aged' = aged
      <4>1. artRow' = [artRow EXCEPT ![artOf[r]] = "consumed"]
        BY <2>2, <3>1, <3>2 DEF SubmitRun
      <4>2. aged[artOf[r]] = FALSE BY <3>1
      <4>3. aged' = [aged EXCEPT ![artOf[r]] = FALSE] BY <2>2 DEF SubmitRun
      <4> QED BY <4>1, <4>2, <4>3
    <3>4. /\ UNCHANGED <<upload, artFile, artOf, gcRows, gcCur>>
          /\ request' = [request EXCEPT ![r] = "ended"]
      BY <2>2 DEF SubmitRun
    <3>5. Uploading' BY <3>1, <3>2, <3>3, <3>4
    <3>6. Aging' BY <3>1, <3>2, <3>3, <3>4
    <3>7. \A a \in Artifacts : artRow'[a] # artRow[a] => a = artOf[r] /\ artRow[a] = "fresh"
      BY <3>2, <3>3
    <3>8. \A q \in Runs : artOf[q] # Nothing => artRow'[artOf[q]] # "none"
      BY <3>1, <3>3
    <3>9. Kept' BY <3>1, <3>2, <3>3, <3>4, <3>7, <3>8
    <3> QED BY <3>5, <3>6, <3>9
  <2>3. ASSUME NEW r \in Runs, RollbackRun(r) PROVE Goal BY <2>3 DEF RollbackRun
  <2> QED BY <1>2, <2>1, <2>2, <2>3 DEF RequestActs, Request
<1>3. CASE ExecutionActs
  BY <1>3 DEF ExecutionActs, Execution, ClaimRun, StartContainer, WriteLog, StatLog,
              FinishRun, FailRun
<1>4. CASE DownloadActs
  BY <1>4 DEF DownloadActs, Download, OpenLog, ReceiveLog, AbortDownload
<1>5. CASE TimeActs
  <2>1. ASSUME NEW a \in Artifacts, HourPasses(a) PROVE Goal BY <2>1 DEF HourPasses
  <2>2. ASSUME NEW r \in Runs, RunExpires(r) PROVE Goal BY <2>2 DEF RunExpires
  <2> QED BY <1>5, <2>1, <2>2 DEF TimeActs
<1>6. CASE Cleanup
  <2> USE DEF CollectorOK
  <2>1. CASE SelectRuns
    BY <1>0, <2>1 DEF SelectRuns, ExpiredRuns
  <2>2. CASE SelectArtifacts
    BY <1>0, <2>2 DEF SelectArtifacts, UsedArtifacts
  <2>3. ASSUME NEW r \in Runs, RemoveLog(r) PROVE Goal BY <1>0, <2>3 DEF RemoveLog
  <2>4. ASSUME NEW r \in Runs, MarkRunDeleted(r) PROVE Goal BY <1>0, <2>4 DEF MarkRunDeleted
  <2>5. ASSUME NEW a \in Artifacts, RemoveArtifact(a) PROVE Goal
    BY <1>0, <2>5 DEF RemoveArtifact
  <2>6. ASSUME NEW a \in Artifacts, MarkArtifactDeleted(a) PROVE Goal
    BY <1>0, <2>6 DEF MarkArtifactDeleted
  <2>7. CASE EndCleanup BY <1>0, <2>7 DEF EndCleanup
  <2> QED BY <1>6, <2>1, <2>2, <2>3, <2>4, <2>5, <2>6, <2>7 DEF Cleanup
<1>7. CASE CrashManager BY <1>7 DEF CrashManager
<1>8. CASE UNCHANGED vars BY <1>8 DEF vars
<1> QED BY <1>1, <1>2, <1>3, <1>4, <1>5, <1>6, <1>7, <1>8, NextActs

THEOREM ArchiveInvariant == Spec => []ArchiveInv
<1>1. ArchiveInv /\ [Next]_vars => ArchiveInv' BY ArchiveStep, TypeStep DEF ArchiveInv
<1> QED BY <1>1, ArchiveInit, PTL DEF Spec

\* Uploads, requests and the collector take part in an archive's life as Custody
\* says ...
LEMMA CustodyInit == Init => \A a \in Artifacts : CustodyOf(a)!Init
<1> SUFFICES ASSUME Init, NEW a \in Artifacts PROVE CustodyOf(a)!Init
  OBVIOUS
<1>1. artFile[a] = "none" /\ SeenRow(a) = "none" BY DEF Init, SeenRow
<1>2. ~(upload[a] \in {"saving", "saved"}) BY DEF Init
<1>3. ~(crashes > 0) BY DEF Init
<1> QED BY <1>1, <1>2, <1>3 DEF CustodyOf!Init

LEMMA CustodyKept ==
    ASSUME NEW a \in Artifacts,
           artFile'[a] = artFile[a], artRow'[a] = artRow[a], aged'[a] = aged[a],
           upload'[a] = upload[a], crashes' = crashes
    PROVE  UNCHANGED CustodyOf(a)!vars
BY DEF CustodyOf!vars, SeenRow

LEMMA UploadFollowsCustody ==
    ASSUME ArchiveInv, NEW b \in Artifacts, Upload(b), NEW a \in Artifacts
    PROVE  [CustodyOf(a)!Next]_(CustodyOf(a)!vars)
<1>1. ArtifactsOK /\ Uploading BY DEF ArchiveInv, TypeOK
<1>2. /\ aged' = aged /\ crashes' = crashes
      /\ a # b => artFile'[a] = artFile[a] /\ artRow'[a] = artRow[a] /\ upload'[a] = upload[a]
  BY <1>1 DEF Upload, BeginUpload, SaveFile, SaveFails, RejectArtifact, InsertArtifact, ArtifactsOK
<1>3. CASE a # b BY <1>2, <1>3, CustodyKept
<1>4. CASE a = b
  <2> USE <1>1, <1>4 DEF ArtifactsOK, Uploading, SeenRow
  <2>1. CASE BeginUpload(a)
    <3>1. CustodyOf(a)!Receive BY <2>1 DEF BeginUpload, CustodyOf!Receive
    <3> QED BY <3>1 DEF CustodyOf!Next
  <2>2. CASE SaveFile(a)
    <3>1. CustodyOf(a)!Store BY <2>2 DEF SaveFile, CustodyOf!Store
    <3> QED BY <3>1 DEF CustodyOf!Next
  <2>3. CASE SaveFails(a)
    <3>1. CustodyOf(a)!Abandon BY <2>3 DEF SaveFails, CustodyOf!Abandon
    <3> QED BY <3>1 DEF CustodyOf!Next
  <2>4. CASE RejectArtifact(a)
    <3>1. CustodyOf(a)!Leave BY <2>4 DEF RejectArtifact, CustodyOf!Leave
    <3> QED BY <3>1 DEF CustodyOf!Next
  <2>5. CASE InsertArtifact(a)
    <3>1. CustodyOf(a)!Offer BY <2>5 DEF InsertArtifact, CustodyOf!Offer
    <3> QED BY <3>1 DEF CustodyOf!Next
  <2> QED BY <2>1, <2>2, <2>3, <2>4, <2>5 DEF Upload
<1> QED BY <1>3, <1>4

LEMMA RequestFollowsCustody ==
    ASSUME ArchiveInv, NEW r \in Runs, Request(r), NEW a \in Artifacts
    PROVE  [CustodyOf(a)!Next]_(CustodyOf(a)!vars)
<1>1. CASE SubmitRun(r)
  <2>1. ArtifactsOK /\ RunsOK /\ Aging /\ Kept BY DEF ArchiveInv, TypeOK
  <2>2. CASE a # artOf[r]
    <3>1. /\ artFile' = artFile /\ artRow'[a] = artRow[a] /\ aged'[a] = aged[a]
          /\ upload' = upload /\ crashes' = crashes
      BY <1>1, <2>1, <2>2 DEF SubmitRun, ArtifactsOK
    <3> QED BY <3>1, CustodyKept
  <2>3. CASE a = artOf[r]
    <3>1. ~aged[a] /\ artRow[a] \in {"fresh", "consumed"} /\ artFile[a] = "stored"
      <4>1. ~aged[a] BY <1>1, <2>1, <2>3 DEF SubmitRun, Aging
      <4>2. artRow[a] # "none" BY <2>1, <2>3, NothingAssumption DEF Kept
      <4> QED BY <2>1, <4>1, <4>2 DEF Kept, ArtifactsOK
    <3>2. /\ artRow'[a] = "consumed" /\ ~aged'[a]
          /\ UNCHANGED <<artFile, upload, crashes>>
      BY <1>1, <2>1, <2>3, <3>1 DEF SubmitRun, ArtifactsOK
    <3>3. CustodyOf(a)!Use BY <3>1, <3>2 DEF CustodyOf!Use, SeenRow
    <3> QED BY <3>3 DEF CustodyOf!Next
  <2> QED BY <2>2, <2>3
<1>2. CASE (\E b \in Artifacts : CheckArtifact(r, b)) \/ RollbackRun(r)
  BY <1>2, CustodyKept DEF CheckArtifact, RollbackRun
<1> QED BY <1>1, <1>2 DEF Request

LEMMA CleanupFollowsCustody ==
    ASSUME ArchiveInv, Cleanup, NEW a \in Artifacts
    PROVE  [CustodyOf(a)!Next]_(CustodyOf(a)!vars)
<1>1. ArtifactsOK /\ Aging BY DEF ArchiveInv, TypeOK
<1>2. ASSUME NEW b \in Artifacts, RemoveArtifact(b)
      PROVE  [CustodyOf(a)!Next]_(CustodyOf(a)!vars)
  <2>1. UNCHANGED <<artRow, aged, upload, crashes>> BY <1>2 DEF RemoveArtifact
  <2>2. CASE artFile'[a] = artFile[a] BY <2>1, <2>2, CustodyKept
  <2>3. CASE artFile'[a] # artFile[a]
    <3>1. a = b /\ artFile'[a] = "none" BY <1>1, <1>2, <2>3 DEF RemoveArtifact, ArtifactsOK
    <3>2. aged[a] /\ artRow[a] = "consumed" BY <1>1, <1>2, <3>1 DEF RemoveArtifact, Aging
    <3>3. CustodyOf(a)!Remove BY <2>1, <3>1, <3>2 DEF CustodyOf!Remove, SeenRow
    <3> QED BY <3>3 DEF CustodyOf!Next
  <2> QED BY <2>2, <2>3
<1>3. ASSUME NEW b \in Artifacts, MarkArtifactDeleted(b)
      PROVE  [CustodyOf(a)!Next]_(CustodyOf(a)!vars)
  <2>1. UNCHANGED <<artFile, aged, upload, crashes>> BY <1>3 DEF MarkArtifactDeleted
  <2>2. CASE artRow'[a] = artRow[a] BY <2>1, <2>2, CustodyKept
  <2>3. CASE artRow'[a] # artRow[a]
    <3>1. a = b /\ artRow'[a] = "deleted" BY <1>1, <1>3, <2>3 DEF MarkArtifactDeleted, ArtifactsOK
    <3>2. aged[a] /\ artRow[a] = "consumed" BY <1>1, <1>3, <3>1 DEF MarkArtifactDeleted, Aging
    <3>3. CustodyOf(a)!Forget BY <2>1, <3>1, <3>2 DEF CustodyOf!Forget, SeenRow
    <3> QED BY <3>3 DEF CustodyOf!Next
  <2> QED BY <2>2, <2>3
<1>4. ASSUME UNCHANGED <<artVars, crashes>>
      PROVE  [CustodyOf(a)!Next]_(CustodyOf(a)!vars)
  BY <1>4, CustodyKept
<1>5. \/ UNCHANGED <<artVars, crashes>>
      \/ \E b \in Artifacts : RemoveArtifact(b) \/ MarkArtifactDeleted(b)
  BY DEF Cleanup, SelectRuns, RemoveLog, MarkRunDeleted, SelectArtifacts, EndCleanup
<1> QED BY <1>2, <1>3, <1>4, <1>5

LEMMA StepFollowsCustody ==
    ASSUME ArchiveInv, [Next]_vars, NEW a \in Artifacts
    PROVE  [CustodyOf(a)!Next]_(CustodyOf(a)!vars)
<1>1. CASE UploadActs BY <1>1, UploadFollowsCustody DEF UploadActs
<1>2. CASE RequestActs BY <1>2, RequestFollowsCustody DEF RequestActs
<1>3. CASE ExecutionActs
  BY <1>3, CustodyKept DEF ExecutionActs, Execution, ClaimRun, StartContainer, WriteLog,
                           StatLog, FinishRun, FailRun
<1>4. CASE DownloadActs
  BY <1>4, CustodyKept DEF DownloadActs, Download, OpenLog, ReceiveLog, AbortDownload
<1>5. CASE TimeActs
  <2>1. ASSUME NEW b \in Artifacts, HourPasses(b)
        PROVE  [CustodyOf(a)!Next]_(CustodyOf(a)!vars)
    <3>1. ArtifactsOK BY DEF ArchiveInv, TypeOK
    <3>2. CASE a # b BY <2>1, <3>1, <3>2, CustodyKept DEF HourPasses, ArtifactsOK
    <3>3. CASE a = b
      <4>1. /\ artRow[a] = "consumed" /\ ~aged[a] /\ aged'[a]
            /\ UNCHANGED <<artFile, artRow, upload, crashes>>
        BY <2>1, <3>1, <3>3 DEF HourPasses, ArtifactsOK
      <4>2. CustodyOf(a)!Age BY <4>1 DEF CustodyOf!Age, SeenRow
      <4> QED BY <4>2 DEF CustodyOf!Next
    <3> QED BY <3>2, <3>3
  <2>2. ASSUME NEW r \in Runs, RunExpires(r) PROVE UNCHANGED CustodyOf(a)!vars
    BY <2>2, CustodyKept DEF RunExpires
  <2> QED BY <1>5, <2>1, <2>2 DEF TimeActs
<1>6. CASE Cleanup BY <1>6, CleanupFollowsCustody
<1>7. CASE CrashManager
  <2>1. /\ upload'[a] \in {"none", "ended"} /\ crashes' > 0
        /\ UNCHANGED <<artFile, artRow, aged>>
    BY <1>7 DEF CrashManager, ArchiveInv, TypeOK, UsesOK
  <2>2. CustodyOf(a)!ProcessEnds BY <2>1 DEF CustodyOf!ProcessEnds, SeenRow
  <2> QED BY <2>2 DEF CustodyOf!Next
<1>8. CASE UNCHANGED vars BY <1>8, CustodyKept DEF vars
<1> QED BY <1>1, <1>2, <1>3, <1>4, <1>5, <1>6, <1>7, <1>8, NextActs

\* ... whatever the interleaving, the crashes and the failures.
THEOREM StorageKeepsCustody == Spec => KeepsCustody
<1>1. ArchiveInv /\ [Next]_vars
      => [\A a \in Artifacts : [CustodyOf(a)!Next]_(CustodyOf(a)!vars)]_vars
  BY StepFollowsCustody
<1> QED BY <1>1, CustodyInit, ArchiveInvariant, PTL DEF Spec, KeepsCustody

\* What Custody says is enough for this: an archive that may be used is stored,
\* and a temporary file is of a running upload or left by a crash.
LEMMA CustodyAnswersOnce ==
    ASSUME NEW a \in Artifacts, CustodyOf(a)!Answered,
           [CustodyOf(a)!Next]_(CustodyOf(a)!vars)
    PROVE  CustodyOf(a)!Answered'
BY DEF CustodyOf!Answered, CustodyOf!Next, CustodyOf!vars, CustodyOf!Receive, CustodyOf!Store,
       CustodyOf!Abandon, CustodyOf!Leave, CustodyOf!Offer, CustodyOf!Use, CustodyOf!Age,
       CustodyOf!Remove, CustodyOf!Forget, CustodyOf!ProcessEnds

LEMMA CustodyAnswers == KeepsCustody => [](\A a \in Artifacts : CustodyOf(a)!Answered)
<1> DEFINE Inv == \A a \in Artifacts : CustodyOf(a)!Answered
<1>1. (\A a \in Artifacts : CustodyOf(a)!Init) => Inv
  BY DEF CustodyOf!Init, CustodyOf!Answered
<1>2. Inv /\ [\A a \in Artifacts : [CustodyOf(a)!Next]_(CustodyOf(a)!vars)]_vars => Inv'
  <2>1. UNCHANGED vars => \A a \in Artifacts : UNCHANGED CustodyOf(a)!vars
    BY CustodyKept DEF vars
  <2> QED BY <2>1, CustodyAnswersOnce
<1> QED BY <1>1, <1>2, PTL DEF KeepsCustody

THEOREM ArchivesAreAnsweredFor == Spec => [](\A a \in Artifacts : CustodyOf(a)!Answered)
BY StorageKeepsCustody, CustodyAnswers, PTL

\* A client can use what it has uploaded.
THEOREM FreshArtifactsAreStored == Spec => []FreshArtifactStored
<1>1. (\A a \in Artifacts : CustodyOf(a)!Answered) => FreshArtifactStored
  BY DEF CustodyOf!Answered, FreshArtifactStored, SeenRow
<1> QED BY <1>1, ArchivesAreAnsweredFor, PTL

\* Within its hour no unfinished run loses its archive, though two requests
\* may have been given the same one.
THEOREM InputsArePresent == Spec => []InputPresent
<1>1. ArchiveInv => InputPresent
  <2> SUFFICES ASSUME ArchiveInv, NEW r \in Runs, Unfinished(r), artFile[artOf[r]] # "stored"
               PROVE  aged[artOf[r]]
    BY DEF InputPresent
  <2>1. artOf[r] \in Artifacts
    BY DEF ArchiveInv, TypeOK, RunsOK, Unfinished
  <2> QED BY <2>1 DEF ArchiveInv, Kept
<1> QED BY <1>1, ArchiveInvariant, PTL

-----------------------------------------------------------------------------
(* Logs *)

\* Links belong to finished runs, whose logs nobody writes or looks for any
\* more; the collector has the paths of such runs only.
Linked ==
    /\ \A r \in Runs : logPath[r] \/ r \in gcPaths => runStatus[r] = "finished"
    /\ \A r \in Runs : worker[r] = "logFound" => logFile[r]

\* Without failures a link leads to a log or the collector is at its run.
Unbroken ==
    crashes = 0 /\ faults = 0 => \A r \in Runs : logPath[r] => logFile[r] \/ gcCur = r

LogInv == TypeOK /\ Linked /\ Unbroken

LEMMA LogInit == Init => LogInv
BY TypeInit DEF Init, LogInv, Linked, Unbroken

LEMMA LinkedStep ==
    ASSUME TypeOK, Linked, [Next]_vars
    PROVE  Linked'
<1> USE DEF Linked
<1>0. RunsOK /\ LogsOK /\ CollectorOK BY DEF TypeOK
<1>1. CASE UploadActs
  BY <1>1 DEF UploadActs, Upload, BeginUpload, SaveFile, SaveFails, RejectArtifact, InsertArtifact
<1>2. CASE RequestActs
  <2>1. ASSUME NEW r \in Runs, SubmitRun(r) PROVE Linked'
    <3>1. runStatus[r] = "none" BY <1>0, <2>1 DEF SubmitRun, RunsOK
    <3> QED BY <1>0, <2>1, <3>1 DEF SubmitRun, RunsOK
  <2> QED BY <1>2, <2>1 DEF RequestActs, Request, CheckArtifact, RollbackRun
<1>3. CASE ExecutionActs
  <2> USE DEF RunsOK, LogsOK
  <2>1. ASSUME NEW r \in Runs, ClaimRun(r) PROVE Linked' BY <1>0, <2>1 DEF ClaimRun
  <2>2. ASSUME NEW r \in Runs, StartContainer(r) PROVE Linked' BY <1>0, <2>2 DEF StartContainer
  <2>3. ASSUME NEW r \in Runs, WriteLog(r) PROVE Linked' BY <1>0, <2>3 DEF WriteLog
  <2>4. ASSUME NEW r \in Runs, StatLog(r) PROVE Linked' BY <1>0, <2>4 DEF StatLog
  <2>5. ASSUME NEW r \in Runs, FinishRun(r) PROVE Linked' BY <1>0, <2>5 DEF FinishRun
  <2>6. ASSUME NEW r \in Runs, FailRun(r) PROVE Linked' BY <1>0, <2>6 DEF FailRun
  <2> QED BY <1>3, <2>1, <2>2, <2>3, <2>4, <2>5, <2>6 DEF ExecutionActs, Execution
<1>4. CASE DownloadActs
  BY <1>4 DEF DownloadActs, Download, OpenLog, ReceiveLog, AbortDownload
<1>5. CASE TimeActs BY <1>5 DEF TimeActs, HourPasses, RunExpires
<1>6. CASE Cleanup
  <2> USE DEF RunsOK, LogsOK, CollectorOK
  <2>1. CASE SelectRuns BY <1>0, <2>1 DEF SelectRuns
  <2>2. CASE SelectArtifacts BY <1>0, <2>2 DEF SelectArtifacts
  <2>3. ASSUME NEW r \in Runs, RemoveLog(r) PROVE Linked'
    <3>1. \A q \in Runs : logFile[q] /\ ~logFile'[q] => q = r /\ r \in gcPaths
      BY <1>0, <2>3 DEF RemoveLog
    <3>2. worker' = worker /\ runStatus' = runStatus /\ logPath' = logPath /\ gcPaths' = gcPaths
      BY <2>3 DEF RemoveLog
    <3>3. r \in gcPaths => worker[r] = "none" BY <1>0
    <3> QED BY <3>1, <3>2, <3>3
  <2>4. ASSUME NEW r \in Runs, MarkRunDeleted(r) PROVE Linked' BY <1>0, <2>4 DEF MarkRunDeleted
  <2> QED BY <1>6, <2>1, <2>2, <2>3, <2>4
      DEF Cleanup, RemoveArtifact, MarkArtifactDeleted, EndCleanup
<1>7. CASE CrashManager BY <1>7 DEF CrashManager
<1>8. CASE UNCHANGED vars BY <1>8 DEF vars
<1> QED BY <1>1, <1>2, <1>3, <1>4, <1>5, <1>6, <1>7, <1>8, NextActs

LEMMA UnbrokenStep ==
    ASSUME LogInv, [Next]_vars
    PROVE  Unbroken'
<1> USE DEF LogInv, Unbroken
<1>0. RunsOK /\ LogsOK /\ CollectorOK /\ UsesOK BY DEF TypeOK
<1>1. CASE UploadActs
  BY <1>1 DEF UploadActs, Upload, BeginUpload, SaveFile, SaveFails, RejectArtifact, InsertArtifact
<1>2. CASE RequestActs
  BY <1>2 DEF RequestActs, Request, CheckArtifact, SubmitRun, RollbackRun
<1>3. CASE ExecutionActs
  <2> USE DEF LogsOK
  <2>1. ASSUME NEW r \in Runs, WriteLog(r) PROVE Unbroken' BY <1>0, <2>1 DEF WriteLog
  <2>2. ASSUME NEW r \in Runs, FinishRun(r) PROVE Unbroken'
    BY <1>0, <2>2 DEF FinishRun, Linked
  <2> QED BY <1>3, <2>1, <2>2
      DEF ExecutionActs, Execution, ClaimRun, StartContainer, StatLog, FailRun
<1>4. CASE DownloadActs
  BY <1>4 DEF DownloadActs, Download, OpenLog, ReceiveLog, AbortDownload
<1>5. CASE TimeActs BY <1>5 DEF TimeActs, HourPasses, RunExpires
<1>6. CASE Cleanup
  <2> USE DEF LogsOK, CollectorOK, UsesOK, Fault
  <2>1. CASE SelectRuns BY <1>0, <2>1 DEF SelectRuns
  <2>2. CASE SelectArtifacts BY <1>0, <2>2 DEF SelectArtifacts
  <2>3. ASSUME NEW r \in Runs, RemoveLog(r) PROVE Unbroken' BY <1>0, <2>3 DEF RemoveLog
  <2>4. ASSUME NEW r \in Runs, MarkRunDeleted(r) PROVE Unbroken'
    BY <1>0, <2>4 DEF MarkRunDeleted
  <2>5. ASSUME NEW a \in Artifacts, RemoveArtifact(a) PROVE Unbroken'
    BY <1>0, <2>5 DEF RemoveArtifact
  <2>6. ASSUME NEW a \in Artifacts, MarkArtifactDeleted(a) PROVE Unbroken'
    BY <1>0, <2>6 DEF MarkArtifactDeleted
  <2>7. CASE EndCleanup BY <1>0, <2>7 DEF EndCleanup
  <2> QED BY <1>6, <2>1, <2>2, <2>3, <2>4, <2>5, <2>6, <2>7 DEF Cleanup
<1>7. CASE CrashManager BY <1>0, <1>7 DEF CrashManager, UsesOK
<1>8. CASE UNCHANGED vars BY <1>8 DEF vars
<1> QED BY <1>1, <1>2, <1>3, <1>4, <1>5, <1>6, <1>7, <1>8, NextActs

\* Unless the collector failed half-way, a log that is offered can be read or
\* its run is being deleted.
THEOREM OfferedLogsExist == Spec => []OfferedLogExists
<1>1. LogInv /\ [Next]_vars => LogInv'
  BY LinkedStep, UnbrokenStep, TypeStep DEF LogInv
<1>2. LogInv => OfferedLogExists BY DEF LogInv, Unbroken, OfferedLogExists, LogAvailable
<1> QED BY <1>1, <1>2, LogInit, PTL DEF Spec
-----------------------------------------------------------------------------
(* Deletion in time *)

\* Runs that are deleted early, or will be: the collector has them in hand.
Early ==
    {r \in Runs : /\ ~expired[r]
                  /\ deleted[r] \/ (gcPc = "runs" /\ (r \in gcRows \/ gcCur = r))}

Active == {d \in Downloads : download[d] # Nothing}

\* Every download has moved the delete_after of one such run, or still may.
DownloadInv ==
    /\ TypeOK
    /\ IsFiniteSet(Early) /\ IsFiniteSet(Active)
    /\ Cardinality(Early) + Cardinality(Active) <= downloads

LEMMA DownloadInit == Init => DownloadInv
<1> SUFFICES ASSUME Init PROVE DownloadInv OBVIOUS
<1>1. Early = {} /\ Active = {} /\ downloads = 0 BY DEF Init, Early, Active
<1> QED BY <1>1, TypeInit, FS_EmptySet DEF DownloadInv

\* What a step may do to the two sets: nothing is added to them ...
LEMMA SetsShrink ==
    ASSUME NEW E, NEW A, NEW E2 \in SUBSET E, NEW A2 \in SUBSET A,
           IsFiniteSet(E), IsFiniteSet(A)
    PROVE  /\ IsFiniteSet(E2) /\ IsFiniteSet(A2)
           /\ Cardinality(E2) + Cardinality(A2) <= Cardinality(E) + Cardinality(A)
<1>1. IsFiniteSet(E2) /\ Cardinality(E2) <= Cardinality(E) BY FS_Subset
<1>2. IsFiniteSet(A2) /\ Cardinality(A2) <= Cardinality(A) BY FS_Subset
<1> QED BY <1>1, <1>2, FS_CardinalityType

\* ... or a download ends and its run is added ...
LEMMA MemberMoves ==
    ASSUME NEW E, NEW A, NEW r, NEW d \in A, NEW E2 \in SUBSET (E \cup {r}),
           IsFiniteSet(E), IsFiniteSet(A)
    PROVE  /\ IsFiniteSet(E2) /\ IsFiniteSet(A \ {d})
           /\ Cardinality(E2) + Cardinality(A \ {d}) <= Cardinality(E) + Cardinality(A)
<1>1. IsFiniteSet(E \cup {r}) /\ Cardinality(E \cup {r}) <= Cardinality(E) + 1
  <2>1. /\ IsFiniteSet(E \cup {r})
        /\ Cardinality(E \cup {r}) = IF r \in E THEN Cardinality(E) ELSE Cardinality(E) + 1
    BY FS_AddElement
  <2>2. Cardinality(E) \in Nat BY FS_CardinalityType
  <2> QED BY <2>1, <2>2
<1>2. IsFiniteSet(E2) /\ Cardinality(E2) <= Cardinality(E \cup {r}) BY <1>1, FS_Subset
<1>3. IsFiniteSet(A \ {d}) /\ Cardinality(A \ {d}) = Cardinality(A) - 1 BY FS_RemoveElement
<1>4. /\ Cardinality(E) \in Nat /\ Cardinality(A) \in Nat
      /\ Cardinality(E \cup {r}) \in Nat /\ Cardinality(E2) \in Nat
  BY <1>1, <1>2, FS_CardinalityType
<1> QED BY <1>1, <1>2, <1>3, <1>4

\* ... or a download begins.
LEMMA MemberJoins ==
    ASSUME NEW E, NEW A, NEW d, IsFiniteSet(E), IsFiniteSet(A)
    PROVE  /\ IsFiniteSet(A \cup {d})
           /\ Cardinality(E) + Cardinality(A \cup {d}) <= Cardinality(E) + Cardinality(A) + 1
<1>1. /\ IsFiniteSet(A \cup {d})
      /\ Cardinality(A \cup {d}) = IF d \in A THEN Cardinality(A) ELSE Cardinality(A) + 1
  BY FS_AddElement
<1>2. Cardinality(E) \in Nat /\ Cardinality(A) \in Nat BY FS_CardinalityType
<1> QED BY <1>1, <1>2

LEMMA CollectorMarksItsRuns ==
    ASSUME TypeOK, Cleanup
    PROVE  Early' \subseteq Early /\ Active' = Active /\ downloads' = downloads
<1> USE DEF Early, Active
<1>0. LogsOK /\ CollectorOK BY DEF TypeOK
<1>1. CASE SelectRuns
  BY <1>0, <1>1 DEF SelectRuns, ExpiredRuns, CollectorOK, LogsOK
<1>2. ASSUME NEW r \in Runs, RemoveLog(r) PROVE Early' \subseteq Early
  BY <1>0, <1>2 DEF RemoveLog
<1>3. ASSUME NEW r \in Runs, MarkRunDeleted(r) PROVE Early' \subseteq Early
  BY <1>0, <1>3 DEF MarkRunDeleted, LogsOK
<1>4. CASE SelectArtifacts BY <1>0, <1>4 DEF SelectArtifacts
<1>5. ASSUME NEW a \in Artifacts, RemoveArtifact(a) \/ MarkArtifactDeleted(a)
      PROVE Early' \subseteq Early
  BY <1>0, <1>5 DEF RemoveArtifact, MarkArtifactDeleted
<1>6. CASE EndCleanup BY <1>0, <1>6 DEF EndCleanup
<1>7. download' = download /\ downloads' = downloads
  BY DEF Cleanup, SelectRuns, RemoveLog, MarkRunDeleted, SelectArtifacts,
         RemoveArtifact, MarkArtifactDeleted, EndCleanup
<1> QED BY <1>1, <1>2, <1>3, <1>4, <1>5, <1>6, <1>7 DEF Cleanup

LEMMA DownloadStep == ASSUME DownloadInv, [Next]_vars PROVE DownloadInv'
<1>0. RunsOK /\ LogsOK /\ CollectorOK /\ UsesOK BY DEF DownloadInv, TypeOK
<1>1. TypeOK' BY TypeStep DEF DownloadInv
<1>2. Cardinality(Early) \in Nat /\ Cardinality(Active) \in Nat /\ downloads \in Nat
  BY <1>0, FS_CardinalityType DEF DownloadInv, UsesOK
<1>3. ASSUME Early' \subseteq Early, Active' \subseteq Active, downloads' = downloads
      PROVE  DownloadInv'
  <2>1. /\ IsFiniteSet(Early') /\ IsFiniteSet(Active')
        /\ Cardinality(Early') + Cardinality(Active') <= Cardinality(Early) + Cardinality(Active)
    BY <1>3, SetsShrink DEF DownloadInv
  <2> QED BY <1>1, <1>2, <1>3, <2>1, FS_CardinalityType DEF DownloadInv
<1>4. CASE UploadActs
  BY <1>3, <1>4 DEF UploadActs, Upload, BeginUpload, SaveFile, SaveFails, RejectArtifact,
                    InsertArtifact, Early, Active
<1>5. CASE RequestActs
  BY <1>3, <1>5 DEF RequestActs, Request, CheckArtifact, SubmitRun, RollbackRun, Early, Active
<1>6. CASE ExecutionActs
  BY <1>3, <1>6 DEF ExecutionActs, Execution, ClaimRun, StartContainer, WriteLog, StatLog,
                    FinishRun, FailRun, Early, Active
<1>7. CASE DownloadActs
  <2>1. ASSUME NEW d \in Downloads, NEW r \in Runs, OpenLog(d, r) PROVE DownloadInv'
    <3>1. Early' = Early BY <2>1 DEF OpenLog, Early
    <3>2. Active' = Active \cup {d} /\ downloads' = downloads + 1
      BY <1>0, <2>1 DEF OpenLog, Active, LogsOK
    <3>3. /\ IsFiniteSet(Active \cup {d})
          /\ Cardinality(Early) + Cardinality(Active \cup {d})
               <= Cardinality(Early) + Cardinality(Active) + 1
      BY MemberJoins DEF DownloadInv
    <3>4. Cardinality(Active \cup {d}) \in Nat BY <3>3, FS_CardinalityType
    <3> QED BY <1>1, <1>2, <3>1, <3>2, <3>3, <3>4 DEF DownloadInv
  <2>2. ASSUME NEW d \in Downloads, ReceiveLog(d) PROVE DownloadInv'
    <3> DEFINE r == download[d]
    <3>1. Early' \subseteq Early \cup {r} /\ downloads' = downloads
      BY <1>0, <2>2 DEF ReceiveLog, Early, LogsOK
    <3>2. d \in Active /\ Active' = Active \ {d}
      BY <1>0, <2>2 DEF ReceiveLog, Active, LogsOK
    <3>3. /\ IsFiniteSet(Early') /\ IsFiniteSet(Active \ {d})
          /\ Cardinality(Early') + Cardinality(Active \ {d})
               <= Cardinality(Early) + Cardinality(Active)
      BY <3>1, <3>2, MemberMoves DEF DownloadInv
    <3>4. Cardinality(Early') \in Nat /\ Cardinality(Active \ {d}) \in Nat
      BY <3>3, FS_CardinalityType
    <3> QED BY <1>1, <1>2, <3>1, <3>2, <3>3, <3>4 DEF DownloadInv
  <2>3. ASSUME NEW d \in Downloads, AbortDownload(d) PROVE DownloadInv'
    <3>1. Early' = Early /\ Active' \subseteq Active /\ downloads' = downloads
      BY <1>0, <2>3 DEF AbortDownload, Early, Active, LogsOK
    <3> QED BY <1>3, <3>1
  <2> QED BY <1>7, <2>1, <2>2, <2>3 DEF DownloadActs, Download
<1>8. CASE TimeActs
  <2>1. Early' \subseteq Early
    BY <1>0, <1>8 DEF TimeActs, HourPasses, RunExpires, Early, LogsOK
  <2>2. Active' = Active /\ downloads' = downloads
    BY <1>8 DEF TimeActs, HourPasses, RunExpires, Active
  <2> QED BY <1>3, <2>1, <2>2
<1>9. CASE Cleanup BY <1>3, <1>9, CollectorMarksItsRuns DEF DownloadInv
<1>10. CASE CrashManager
  <2>1. Early' \subseteq Early /\ Active' = {} /\ downloads' = downloads
    BY <1>10 DEF CrashManager, Early, Active
  <2> QED BY <1>3, <2>1
<1>11. CASE UNCHANGED vars
  BY <1>3, <1>11 DEF vars, Early, Active
<1> QED BY <1>4, <1>5, <1>6, <1>7, <1>8, <1>9, <1>10, <1>11, NextActs

\* However many runs and downloads there are: the collector deletes a run
\* before its time only if a download has moved it.
THEOREM RunsAreDeletedInTime == Spec => []DeletedInTime
<1>1. DownloadInv => DeletedInTime
  <2> SUFFICES ASSUME DownloadInv PROVE DeletedInTime OBVIOUS
  <2> DEFINE D == {r \in Runs : deleted[r] /\ ~expired[r]}
  <2>1. D \in SUBSET Early BY DEF Early
  <2>2. IsFiniteSet(D) /\ Cardinality(D) <= Cardinality(Early)
    BY <2>1, FS_Subset DEF DownloadInv
  <2>3. /\ Cardinality(D) \in Nat /\ Cardinality(Early) \in Nat
        /\ Cardinality(Active) \in Nat /\ downloads \in Nat
    BY <2>2, FS_CardinalityType DEF DownloadInv, TypeOK, UsesOK
  <2> QED BY <2>2, <2>3 DEF DownloadInv, DeletedInTime
<1>2. DownloadInv /\ [Next]_vars => DownloadInv' BY DownloadStep
<1> QED BY <1>1, <1>2, DownloadInit, PTL DEF Spec
=============================================================================
