-------------------------- MODULE ManagerProperties --------------------------
(***************************************************************************)
(* What should be true of the manager process, however its servers fail,   *)
(* signals arrive and requests are cut; and of what it has accepted.       *)
(***************************************************************************)
EXTENDS Manager

ServersOK ==
    /\ serving \in [Servers -> {"starting", "bound", "open", "ended", "queued", "received"}]
    /\ verdict \in [Servers -> {"none", "nil", "err"}]
    /\ inShutdown \in [Servers -> BOOLEAN]
    /\ \A s \in Servers :
         verdict[s] # "none" <=> serving[s] \in {"ended", "queued", "received"}

MainOK ==
    /\ main \in {"select", "shutdown", "drain", "exited"}
    /\ turn \in 1..(NumServers + 1)
    /\ owed \in Nat /\ ret \in {"nil", "err"}
    /\ deadline \in {"unset", "running", "passed"}
    /\ pending \in BOOLEAN /\ signals \in 0..MaxSignals
    /\ request \in [Requests -> {"none", "active", "answered", "cut"}]
    /\ main = "select" <=> deadline = "unset"
    /\ main = "select" => turn = 1 /\ owed = 0 /\ ret = "nil"
    /\ main = "shutdown" <=> main # "select" /\ turn \in Servers
    /\ \A s \in Servers : inShutdown[s] => main # "select" /\ s <= turn

HandlersOK ==
    /\ step \in [Requests -> {"none", "parsing", "saving", "saved", "valid", "done"}]
    /\ archive \in [Uploads -> Archives \cup {Nothing}]
    /\ file \in [Uploads -> {"none", "tmp", "stored"}]
    /\ artRow \in [Uploads -> BOOLEAN]
    /\ params \in [RunRequests -> Params \cup {Nothing}]
    /\ runOf \in [RunRequests -> Uploads \cup {Nothing}]
    /\ \A q \in Requests : request[q] \in {"none", "answered"} => step[q] \in {"none", "done"}
    /\ \A q \in Uploads : step[q] = "valid" \/ artRow[q] => archive[q] # Nothing

\* Types, and how far the main goroutine and the handlers have come.
TypeOK == ServersOK /\ MainOK /\ HandlersOK

-----------------------------------------------------------------------------
(* The servers *)

\* The process exits with success exactly if every server has answered, none
\* with a failure - whether the select took a signal or a failure first, and
\* whichever server failed, before or in the shutdown (RunHTTPServers,
\* firstNonNil).
FailureReported ==
    main = "exited" =>
        (ret = "nil" <=> \A s \in Servers : serving[s] = "received" /\ verdict[s] = "nil")

\* s has, in the ten seconds, nothing left to answer, and loses nothing any more.
LosesNothing(s) == \A q \in Requests : ServerOf[q] = s => request[q] \notin {"active", "cut"}

\* Whatever ends the servers, no request is cut before shutdownTimeout has passed
\* since the select was left: one under way then has all of it, also when the other
\* server has failed.  And a server whose Shutdown has returned in time loses
\* nothing, however long those after it hang.  (The time is one for all servers:
\* a request accepted in the shutdown, by a server whose turn has not come, has
\* what the servers before leave of it, which may be nothing.)  (RunHTTPServers,
\* shutdownAll)
CutAfterDeadline ==
    /\ [][\A q \in Requests : request[q] = "active" /\ request'[q] = "cut"
                              => deadline = "passed"]_vars
    /\ \A s \in Servers : [](turn > s /\ deadline # "passed" => []LosesNothing(s))

\* A signal, and a failed listener, end the process, though handlers may hang,
\* other servers have failed and further signals arrive: as many answers are
\* awaited as are sent.
ServeEnds == pending \/ (\E s \in Servers : verdict[s] = "err") ~> main = "exited"

-----------------------------------------------------------------------------
(* What it accepts *)

\* A temporary file outlives its request only if the process was ended.
TmpOnlyFromCut == \A q \in Uploads : file[q] = "tmp" => request[q] \in {"active", "cut"}

\* An upload's archive as Custody sees it; its hour never comes here.
SeenRow(q) ==
    CASE ~artRow[q]                            -> "none"
      [] \E r \in RunRequests : runOf[r] = q   -> "consumed"
      [] OTHER                                 -> "fresh"

CustodyOf(q) == INSTANCE Custody WITH
    file <- file[q], row <- SeenRow(q),
    held <- request[q] = "active" /\ step[q] \in {"saving", "saved", "valid"},
    ended <- main = "exited"

\* Whatever the servers do, and wherever shutdown cuts the handlers, uploads and
\* runs pass each archive on as Custody says (RunHTTPServers,
\* handleUploadArtifact, SaveMultipartFile, handleCreateRun).
KeepsCustody ==
    /\ \A q \in Uploads : CustodyOf(q)!Init
    /\ [][\A q \in Uploads : [CustodyOf(q)!Next]_(CustodyOf(q)!vars)]_vars

\* What the manager has accepted passes the checks the others make again: the
\* run's parameters name an image of the agent's, and runner.sh accepts the
\* manifest of an ordinary archive.
AcceptedStarts ==
    \A q \in RunRequests : runOf[q] # Nothing =>
        /\ HasImage(params[q])
        /\ Ordinary(archive[runOf[q]]) => RunnerAccepts(archive[runOf[q]])

\* The test is given the timeout the manager has stored and checked against
\* the limit, if the manifest's was positive or missing.
TimeoutAgrees ==
    \A q \in Uploads : artRow[q] /\ Ordinary(archive[q]) =>
        LET d == Unpacked(archive[q]) IN
        d.timeout_sec = Absent \/ d.timeout_sec > 0 =>
            RunnerTimeout(d) = StoredTimeout(d) /\ RunnerTimeout(d) <= MaxTimeoutSec
=============================================================================
