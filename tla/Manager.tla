------------------------------- MODULE Manager -------------------------------
(***************************************************************************)
(* The manager process: the two servers of HttpServers and, on them, the   *)
(* handlers of POST /artifacts (upload server) and of POST /runs (main     *)
(* server), from the start of `serve` to its exit.  What the handlers have *)
(* written when the process ends stays.                                    *)
(*                                                                         *)
(* Abstracted: authorization (Accounts), the race of two runs for one      *)
(* archive and its collection (RunStorage), the job (JobQueue).            *)
(***************************************************************************)
EXTENDS HttpServers, Submission

CONSTANTS
    Uploads,      \* requests POST /artifacts
    RunRequests,  \* requests POST /runs
    Archives,     \* archives that clients upload
    Params,       \* parameters of runs that clients ask for
    Nothing       \* no archive, no parameters, no upload

MainServer   == 1
UploadServer == 2

ASSUME ManagerAssumption ==
    /\ NumServers = 2
    /\ Requests = Uploads \cup RunRequests /\ Uploads \cap RunRequests = {}
    /\ \A q \in Uploads : ServerOf[q] = UploadServer
    /\ \A q \in RunRequests : ServerOf[q] = MainServer
ASSUME NothingAssumption == Nothing \notin Uploads \cup Archives \cup Params
ASSUME ArchivesAssumption == Archives \subseteq Seq(Entries)

VARIABLES
    step,     \* where each request's handler is
    archive,  \* the archive of an upload whose manifest was accepted
    file,     \* app.tar.gz: "none", "tmp" or "stored"
    artRow,   \* the upload has a row in artifacts
    runOf,    \* the upload whose artifact the run that a request created executes
    params    \* os, display and qt_version of that run

handlerVars == <<step, archive, file, artRow, runOf, params>>
vars        == <<serveVars, handlerVars>>

ManagerInit ==
    /\ Init
    /\ step = [q \in Requests |-> "none"]
    /\ archive = [q \in Uploads |-> Nothing]
    /\ file = [q \in Uploads |-> "none"]
    /\ artRow = [q \in Uploads |-> FALSE]
    /\ params = [q \in RunRequests |-> Nothing]
    /\ runOf = [q \in RunRequests |-> Nothing]

\* The handler of q goes from one place to another, in a process that lives.
Goes(q, from, to) ==
    /\ Alive /\ request[q] = "active"
    /\ step[q] = from
    /\ step' = [step EXCEPT ![q] = to]
    /\ UNCHANGED serveVars

\* Variant of Answer: the client has its answer before the handler is done.
AnswerEarly(q) ==
    /\ AnswerRequest(q)
    /\ UNCHANGED handlerVars

\* The handler returns, whatever its answer is.
Answer(q) ==
    /\ step[q] = "done"
    /\ AnswerRequest(q)
    /\ UNCHANGED handlerVars

\* A request comes in; what it carries is looked at later.
Begin(q) ==
    /\ AcceptRequest(q)
    /\ step' = [step EXCEPT ![q] = "parsing"]
    /\ UNCHANGED <<archive, file, artRow, runOf, params>>

-----------------------------------------------------------------------------
(* POST /artifacts *)

\* Not multipart, no part `file`, or an incomplete configuration.
RefuseUpload(q) ==
    /\ Goes(q, "parsing", "done")
    /\ UNCHANGED <<archive, file, artRow, runOf, params>>

\* SaveMultipartFile opens app.tar.gz.tmp and copies the part to it ...
CreateFile(q) ==
    /\ Goes(q, "parsing", "saving")
    /\ file' = [file EXCEPT ![q] = "tmp"]
    /\ UNCHANGED <<archive, artRow, runOf, params>>

\* Variant of SaveFails: the file is left.
SaveFailsLeavesFile(q) ==
    /\ Goes(q, "saving", "done")
    /\ UNCHANGED <<archive, file, artRow, runOf, params>>

\* ... and removes it if the client, the size limit or the disk ends the copy ...
SaveFails(q) ==
    /\ Goes(q, "saving", "done")
    /\ file' = [file EXCEPT ![q] = "none"]
    /\ UNCHANGED <<archive, artRow, runOf, params>>

\* ... or renames it.
SaveFile(q) ==
    /\ Goes(q, "saving", "saved")
    /\ file' = [file EXCEPT ![q] = "stored"]
    /\ UNCHANGED <<archive, artRow, runOf, params>>

\* ReadManifestFromTarGz, ParseManifestJSON, ValidateManifest.
CheckManifest(q, arch) ==
    /\ \/ /\ AcceptsArchive(arch) /\ Goes(q, "saved", "valid")
          /\ archive' = [archive EXCEPT ![q] = arch]
       \/ /\ ~AcceptsArchive(arch) /\ Goes(q, "saved", "done")
          /\ UNCHANGED archive
    /\ UNCHANGED <<file, artRow, runOf, params>>

\* The INSERT; an error may have lost its acknowledgement only.
InsertArtifact(q) ==
    /\ Goes(q, "valid", "done")
    /\ \E stored \in BOOLEAN : artRow' = [artRow EXCEPT ![q] = stored]
    /\ UNCHANGED <<archive, file, runOf, params>>

-----------------------------------------------------------------------------
(* POST /runs *)

\* Invalid values, no such artifact, or an error of the database.
RefuseRun(q) ==
    /\ Goes(q, "parsing", "done")
    /\ UNCHANGED <<archive, file, artRow, runOf, params>>

\* The transaction, for an artifact that exists and is not used.
SubmitRun(q, p, u) ==
    /\ Goes(q, "parsing", "done")
    /\ AcceptsParams(p)
    /\ artRow[u] /\ \A r \in RunRequests : runOf[r] # u
    /\ runOf' = [runOf EXCEPT ![q] = u]
    /\ params' = [params EXCEPT ![q] = p]
    /\ UNCHANGED <<archive, file, artRow>>

-----------------------------------------------------------------------------
UploadStep(q) ==
    \/ RefuseUpload(q) \/ CreateFile(q) \/ SaveFails(q) \/ SaveFile(q)
    \/ (\E arch \in Archives : CheckManifest(q, arch)) \/ InsertArtifact(q)

RunStep(q) ==
    \/ RefuseRun(q)
    \/ \E p \in Params, u \in Uploads : SubmitRun(q, p, u)

ManagerNext ==
    \/ ServersNext /\ UNCHANGED handlerVars
    \/ \E q \in Uploads : UploadStep(q)
    \/ \E q \in RunRequests : RunStep(q)
    \/ \E q \in Requests : Begin(q) \/ Answer(q)

ManagerSpec == ManagerInit /\ [][ManagerNext]_vars

FairManagerSpec == ManagerSpec /\ Fairness
=============================================================================
