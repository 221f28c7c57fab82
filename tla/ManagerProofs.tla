---------------------------- MODULE ManagerProofs ----------------------------
(***************************************************************************)
(* Proofs about the manager process: RunHTTPServers for any number of      *)
(* servers and requests, and the handlers on top of it.                    *)
(***************************************************************************)
EXTENDS ManagerProperties, FiniteSetTheorems, TLAPS

USE ServersAssumption, RequestsAssumption, SignalsAssumption
USE DEF serverVars, mainVars, signalVars, Servers

-----------------------------------------------------------------------------
(* The servers: types *)

LEMMA ServeTypeInit == Init => ServersOK /\ MainOK
<1> SUFFICES ASSUME Init PROVE ServersOK /\ MainOK
  OBVIOUS
<1>1. ServersOK BY DEF Init, ServersOK
<1>2. turn \in 1..(NumServers + 1) BY DEF Init
<1>3. \A s \in Servers : ~inShutdown[s] BY DEF Init
<1>4. request \in [Requests -> {"none", "active", "answered", "cut"}] BY DEF Init
<1>5. pending \in BOOLEAN BY Zenon DEF Init
<1>6. signals \in 0..MaxSignals BY DEF Init
<1>7. main = "select" /\ turn = 1 /\ owed = 0 /\ ret = "nil" /\ deadline = "unset"
  BY DEF Init
<1> QED BY <1>1, <1>2, <1>3, <1>4, <1>5, <1>6, <1>7 DEF MainOK

\* A server's goroutine.
LEMMA ServerTypes ==
    ASSUME ServersOK, MainOK, NEW s \in Servers, ServerStep(s) \/ ServeFails(s)
    PROVE  ServersOK' /\ MainOK'
<1>1. MainOK' /\ inShutdown' = inShutdown
  BY DEF ServerStep, ServeFails, Listen, Serve, ServeClosed, SendAnswer, Ends, MainOK
<1>2. ServersOK'
  BY DEF ServerStep, ServeFails, Listen, Serve, ServeClosed, SendAnswer, Ends, ServersOK
<1> QED BY <1>1, <1>2

\* The main goroutine.
LEMMA MainTypes ==
    ASSUME ServersOK, MainOK, NEW s \in Servers, MainStep(s)
    PROVE  ServersOK' /\ MainOK'
<1>1. CASE SelectError(s)
  <2>1. ServersOK' BY <1>1 DEF SelectError, ServersOK
  <2> QED BY <1>1, <2>1 DEF SelectError, BeginShutdown, MainOK
<1>2. CASE CallShutdown(s)
  <2>1. ServersOK' BY <1>2 DEF CallShutdown, ServersOK
  <2>2. \A t \in Servers : inShutdown'[t] => main # "select" /\ t <= turn
    BY <1>2 DEF CallShutdown, ServersOK, MainOK
  <2> QED BY <1>2, <2>1, <2>2 DEF CallShutdown, MainOK
<1>3. CASE ShutdownReturns(s)
  <2>1. ServersOK' BY <1>3 DEF ShutdownReturns, ServersOK
  <2>2. /\ turn' = s + 1 /\ turn' \in 1..(NumServers + 1) /\ turn = s
        /\ main' = IF s = NumServers THEN "drain" ELSE "shutdown"
        /\ main = "shutdown"
        /\ UNCHANGED <<inShutdown, owed, ret, deadline, pending, signals, request>>
    BY <1>3 DEF ShutdownReturns
  <2>3. main' = "shutdown" <=> main' # "select" /\ turn' \in Servers
    BY <2>2
  <2>4. \A t \in Servers : inShutdown'[t] => main' # "select" /\ t <= turn'
    BY <2>2 DEF MainOK
  <2> QED BY <2>1, <2>2, <2>3, <2>4 DEF MainOK
<1>4. CASE ReceiveAnswer(s)
  <2>1. ServersOK' BY <1>4 DEF ReceiveAnswer, ServersOK
  <2> QED BY <1>4, <2>1 DEF ReceiveAnswer, MainOK
<1> QED BY <1>1, <1>2, <1>3, <1>4 DEF MainStep

LEMMA ServeTypeStep == ServersOK /\ MainOK /\ [Next]_serveVars => ServersOK' /\ MainOK'
<1> SUFFICES ASSUME ServersOK, MainOK, [Next]_serveVars PROVE ServersOK' /\ MainOK'
  OBVIOUS
<1>1. CASE ReceiveSignal BY <1>1 DEF ReceiveSignal, ServersOK, MainOK
<1>2. CASE SelectSignal
  <2>1. ServersOK' BY <1>2 DEF SelectSignal, ServersOK
  <2>2. turn' \in Servers /\ main' = "shutdown" BY <1>2 DEF SelectSignal, BeginShutdown, MainOK
  <2> QED BY <1>2, <2>1, <2>2 DEF SelectSignal, BeginShutdown, MainOK
<1>3. CASE DeadlinePasses BY <1>3 DEF DeadlinePasses, ServersOK, MainOK
<1>4. CASE Exit
  <2>1. request' \in [Requests -> {"none", "active", "answered", "cut"}]
    BY <1>4 DEF Exit, MainOK
  <2> QED BY <1>4, <2>1 DEF Exit, ServersOK, MainOK
<1>5. ASSUME NEW q \in Requests, AcceptRequest(q) \/ AnswerRequest(q)
      PROVE  ServersOK' /\ MainOK'
  BY <1>5 DEF AcceptRequest, AnswerRequest, ServersOK, MainOK
<1>6. CASE UNCHANGED serveVars BY <1>6 DEF serveVars, ServersOK, MainOK
<1> QED BY <1>1, <1>2, <1>3, <1>4, <1>5, <1>6, ServerTypes, MainTypes DEF Next, ServersNext

-----------------------------------------------------------------------------
(* The servers: answers and requests *)

Unreceived == {s \in Servers : serving[s] # "received"}

\* A failure has been received: the process will report one.
SomeFailure == \E s \in Servers : serving[s] = "received" /\ verdict[s] = "err"

\* As many answers are awaited as have not been received, but for the path on
\* which a failure came first.
Accounted ==
    /\ main = "select" => \A s \in Servers : serving[s] # "received"
    /\ main = "exited" => owed = 0
    /\ ret = "err" <=> SomeFailure
    /\ main # "select" => owed = Cardinality(Unreceived) \/ (owed = 0 /\ ret = "err")

\* Servers whose shutdown has returned accept nothing, and until the deadline
\* they have nothing left to answer.
Drained ==
    \A s \in Servers : s < turn =>
        /\ inShutdown[s]
        /\ deadline = "passed" \/ \A q \in Requests : ServerOf[q] = s => request[q] # "active"

ServeInv == ServersOK /\ MainOK /\ Accounted /\ Drained

\* Steps that receive no answer.
LEMMA AccountedKept ==
    ASSUME Accounted, UNCHANGED <<main, owed, ret>>,
           \A s \in Servers : serving'[s] = "received" <=> serving[s] = "received",
           \A s \in Servers : serving[s] = "received" => verdict'[s] = verdict[s]
    PROVE  Accounted'
<1>1. Unreceived' = Unreceived BY DEF Unreceived
<1>2. SomeFailure' <=> SomeFailure BY DEF SomeFailure
<1> QED BY <1>1, <1>2 DEF Accounted

LEMMA AllUnreceived ==
    ASSUME NEW S, S = Servers
    PROVE  IsFiniteSet(S) /\ Cardinality(S) = NumServers
BY FS_Interval

LEMMA OneReceived ==
    ASSUME NEW s \in Unreceived
    PROVE  /\ Cardinality(Unreceived) \in Nat \ {0}
           /\ Cardinality(Unreceived \ {s}) = Cardinality(Unreceived) - 1
<1>1. IsFiniteSet(Unreceived)
  <2>1. Unreceived \subseteq Servers BY DEF Unreceived
  <2> QED BY <2>1, AllUnreceived, FS_Subset
<1>2. Cardinality(Unreceived \ {s}) = Cardinality(Unreceived) - 1 BY <1>1, FS_RemoveElement
<1>3. Cardinality(Unreceived) \in Nat /\ Cardinality(Unreceived) # 0
  BY <1>1, FS_CardinalityType, FS_EmptySet
<1> QED BY <1>2, <1>3

LEMMA AccountedStep == ServeInv /\ [Next]_serveVars => Accounted'
<1> SUFFICES ASSUME ServeInv, [Next]_serveVars PROVE Accounted'
  OBVIOUS
<1> USE DEF ServeInv
<1>1. ASSUME NEW s \in Servers, ServerStep(s) \/ ServeFails(s) PROVE Accounted'
  <2>1. /\ UNCHANGED <<main, owed, ret>>
        /\ \A t \in Servers : t # s => serving'[t] = serving[t] /\ verdict'[t] = verdict[t]
        /\ serving[s] # "received" /\ serving'[s] # "received"
    BY <1>1 DEF ServerStep, ServeFails, Listen, Serve, ServeClosed, SendAnswer, Ends, ServersOK
  <2> QED BY <2>1, AccountedKept
<1>2. ASSUME NEW s \in Servers, MainStep(s) PROVE Accounted'
  <2>1. CASE SelectError(s)
    <3>1. /\ main' = "shutdown" /\ owed' = 0 /\ ret' = "err"
          /\ serving'[s] = "received" /\ verdict'[s] = "err"
      BY <2>1 DEF SelectError, BeginShutdown, ServersOK
    <3> QED BY <3>1 DEF Accounted, SomeFailure
  <2>2. CASE CallShutdown(s) BY <2>2, AccountedKept DEF CallShutdown
  <2>3. CASE ShutdownReturns(s)
    <3>1. main' \notin {"select", "exited"} /\ main # "select"
          /\ UNCHANGED <<serving, verdict, owed, ret>>
      BY <2>3 DEF ShutdownReturns
    <3>2. Unreceived' = Unreceived BY <3>1 DEF Unreceived
    <3>3. SomeFailure' <=> SomeFailure BY <3>1 DEF SomeFailure
    <3> QED BY <3>1, <3>2, <3>3 DEF Accounted
  <2>4. CASE ReceiveAnswer(s)
    <3>1. /\ main = "drain" /\ main' = main /\ owed > 0 /\ serving[s] = "queued"
          /\ serving' = [serving EXCEPT ![s] = "received"]
          /\ owed' = owed - 1 /\ UNCHANGED verdict
          /\ ret' = IF verdict[s] = "err" THEN "err" ELSE ret
      BY <2>4 DEF ReceiveAnswer
    <3>2. s \in Unreceived /\ Unreceived' = Unreceived \ {s}
      BY <3>1 DEF Unreceived, ServersOK
    <3>3. owed = Cardinality(Unreceived) BY <3>1 DEF Accounted
    <3>4. owed' = Cardinality(Unreceived') BY <3>1, <3>2, <3>3, OneReceived
    <3>5. ret' = "err" <=> SomeFailure'
      BY <3>1 DEF Accounted, SomeFailure, ServersOK
    <3> QED BY <3>1, <3>4, <3>5 DEF Accounted
  <2> QED BY <1>2, <2>1, <2>2, <2>3, <2>4 DEF MainStep
<1>3. CASE SelectSignal
  <2>1. /\ main = "select" /\ main' = "shutdown" /\ owed' = NumServers
        /\ UNCHANGED <<serving, verdict, ret>>
    BY <1>3 DEF SelectSignal, BeginShutdown
  <2>2. Unreceived' = Servers BY <2>1 DEF Unreceived, Accounted
  <2>3. owed' = Cardinality(Unreceived') BY <2>1, <2>2, AllUnreceived
  <2>4. SomeFailure' <=> SomeFailure BY <2>1 DEF SomeFailure
  <2> QED BY <2>1, <2>3, <2>4 DEF Accounted
<1>4. CASE Exit
  <2>1. /\ main = "drain" /\ main' = "exited" /\ owed = 0
        /\ UNCHANGED <<serving, verdict, owed, ret>>
    BY <1>4 DEF Exit
  <2>2. Unreceived' = Unreceived BY <2>1 DEF Unreceived
  <2>3. SomeFailure' <=> SomeFailure BY <2>1 DEF SomeFailure
  <2> QED BY <2>1, <2>2, <2>3 DEF Accounted
<1>5. ASSUME UNCHANGED <<serving, verdict, main, owed, ret>> PROVE Accounted'
  BY <1>5, AccountedKept
<1> QED BY <1>1, <1>2, <1>3, <1>4, <1>5
    DEF Next, ServersNext, ReceiveSignal, DeadlinePasses, AcceptRequest, AnswerRequest, serveVars

LEMMA DrainedStep == ServeInv /\ [Next]_serveVars => Drained'
<1> SUFFICES ASSUME ServeInv, [Next]_serveVars PROVE Drained'
  OBVIOUS
<1> USE DEF ServeInv
<1>1. ASSUME UNCHANGED <<inShutdown, turn, deadline, request>> PROVE Drained'
  BY <1>1 DEF Drained
<1>2. ASSUME NEW s \in Servers, MainStep(s) PROVE Drained'
  <2>1. CASE SelectError(s)
    BY <2>1 DEF SelectError, BeginShutdown, MainOK, Drained
  <2>2. CASE CallShutdown(s)
    BY <2>2 DEF CallShutdown, ServersOK, Drained
  <2>3. CASE ShutdownReturns(s)
    <3>1. /\ turn = s /\ turn' = s + 1 /\ inShutdown[s]
          /\ (\A q \in Requests : ServerOf[q] = s => request[q] # "active") \/ deadline = "passed"
          /\ UNCHANGED <<inShutdown, deadline, request>>
      BY <2>3 DEF ShutdownReturns, ActiveAt
    <3>2. \A t \in Servers : t < turn' => t = s \/ t < turn BY <3>1
    <3> QED BY <3>1, <3>2 DEF Drained
  <2>4. CASE ReceiveAnswer(s) BY <1>1, <2>4 DEF ReceiveAnswer
  <2> QED BY <1>2, <2>1, <2>2, <2>3, <2>4 DEF MainStep
<1>3. CASE SelectSignal BY <1>3 DEF SelectSignal, BeginShutdown, MainOK, Drained
<1>4. CASE DeadlinePasses BY <1>4 DEF DeadlinePasses, Drained
<1>5. CASE Exit
  <2>1. \A q \in Requests : request'[q] # "active" BY <1>5 DEF Exit
  <2> QED BY <1>5, <2>1 DEF Exit, Drained
<1>6. ASSUME NEW q \in Requests, AcceptRequest(q) PROVE Drained'
  <2>1. \A p \in Requests : p # q => request'[p] = request[p]
    BY <1>6 DEF AcceptRequest, MainOK
  <2> QED BY <1>6, <2>1 DEF AcceptRequest, Drained
<1>7. ASSUME NEW q \in Requests, AnswerRequest(q) PROVE Drained'
  <2>1. \A p \in Requests : request'[p] = "active" => request[p] = "active"
    BY <1>7 DEF AnswerRequest, MainOK
  <2> QED BY <1>7, <2>1 DEF AnswerRequest, Drained
<1> QED BY <1>1, <1>2, <1>3, <1>4, <1>5, <1>6, <1>7
    DEF Next, ServersNext, ServerStep, ServeFails, Listen, Serve, ServeClosed, SendAnswer, Ends,
        ReceiveSignal, serveVars

LEMMA ServeInvInit == Init => ServeInv
<1> SUFFICES ASSUME Init PROVE ServeInv
  OBVIOUS
<1>1. Accounted BY DEF Init, Accounted, SomeFailure
<1>2. Drained BY DEF Init, Drained
<1> QED BY <1>1, <1>2, ServeTypeInit DEF ServeInv

LEMMA ServeInvStep == ServeInv /\ [Next]_serveVars => ServeInv'
BY ServeTypeStep, AccountedStep, DrainedStep DEF ServeInv

THEOREM ServeInvariant == Spec => []ServeInv
BY ServeInvInit, ServeInvStep, PTL DEF Spec

LEMMA AccountedReports == ServeInv => FailureReported
<1> SUFFICES ASSUME ServeInv, main = "exited"
             PROVE  ret = "nil" <=> \A s \in Servers : serving[s] = "received" /\ verdict[s] = "nil"
  BY DEF FailureReported
<1> USE DEF ServeInv
<1>1. ASSUME ret = "nil", NEW s \in Servers PROVE serving[s] = "received" /\ verdict[s] = "nil"
  <2>1. Cardinality(Unreceived) = 0 BY <1>1 DEF Accounted
  <2>2. s \notin Unreceived BY <2>1, OneReceived
  <2>3. serving[s] = "received" BY <2>2 DEF Unreceived
  <2> QED BY <1>1, <2>3 DEF Accounted, SomeFailure, ServersOK
<1>2. ASSUME \A s \in Servers : serving[s] = "received" /\ verdict[s] = "nil" PROVE ret = "nil"
  BY <1>2 DEF Accounted, SomeFailure, MainOK
<1> QED BY <1>1, <1>2

\* Whichever server fails, and however signals and failures race, the exit
\* status is that of the servers' answers.
THEOREM FailuresAreReported == Spec => []FailureReported
BY ServeInvariant, AccountedReports, PTL

-----------------------------------------------------------------------------
(* The manager: its servers are those of HttpServers *)

LEMMA ManagerServes == [ManagerNext]_vars => [Next]_serveVars
BY DEF ManagerNext, Next, UploadStep, RefuseUpload, CreateFile, SaveFails, SaveFile,
       CheckManifest, InsertArtifact, RunStep, RefuseRun, SubmitRun, Goes, Begin, Answer, vars

\* What is proved of the servers holds in the manager.
THEOREM ManagerImplementsServers == ManagerSpec => Spec
<1>1. ManagerInit => Init BY DEF ManagerInit
<1> QED BY <1>1, ManagerServes, PTL DEF ManagerSpec, Spec

THEOREM ManagerReportsFailures == ManagerSpec => []FailureReported
BY ManagerImplementsServers, FailuresAreReported, PTL

\* Only the end of the process cuts, when every server's turn is over.
LEMMA CutsAreLate ==
    ASSUME ServeInv, [Next]_serveVars, NEW q \in Requests, request[q] # "cut", request'[q] = "cut"
    PROVE  deadline = "passed"
<1> USE DEF ServeInv, MainOK
<1>1. ASSUME NEW p \in Requests, AcceptRequest(p) \/ AnswerRequest(p) PROVE FALSE
  BY <1>1 DEF AcceptRequest, AnswerRequest
<1>2. Exit
  BY <1>1 DEF Next, ServersNext, ServerStep, ServeFails, Listen, Serve, ServeClosed, SendAnswer,
              MainStep, SelectError, CallShutdown, ShutdownReturns, ReceiveAnswer, ReceiveSignal,
              SelectSignal, DeadlinePasses, serveVars
<1>3. request[q] = "active" BY <1>2 DEF Exit
<1>4. ServerOf[q] \in Servers /\ turn \notin Servers /\ turn \in 1..(NumServers + 1)
  BY <1>2, RequestsAssumption DEF Exit, Servers
<1>5. ServerOf[q] < turn BY <1>4, ServersAssumption DEF Servers
<1> QED BY <1>3, <1>4, <1>5 DEF Drained

Uncut == \A q \in Requests : request[q] = "cut" => deadline = "passed"

LEMMA UncutStep == ServeInv /\ Uncut /\ [Next]_serveVars => Uncut'
<1> SUFFICES ASSUME ServeInv, Uncut, [Next]_serveVars, NEW q \in Requests, request'[q] = "cut"
             PROVE  deadline' = "passed"
  BY DEF Uncut
<1>1. deadline = "passed" BY CutsAreLate DEF Uncut
<1>2. main # "select" BY <1>1 DEF ServeInv, MainOK
<1> QED BY <1>1, <1>2
    DEF Next, ServersNext, ServerStep, ServeFails, Listen, Serve, ServeClosed, SendAnswer, MainStep,
        SelectError, BeginShutdown, CallShutdown, ShutdownReturns, ReceiveAnswer, ReceiveSignal,
        SelectSignal, DeadlinePasses, Exit, AcceptRequest, AnswerRequest, serveVars

\* A server whose Shutdown has returned in time loses nothing from then on.
Safe(s) == turn > s /\ inShutdown[s] /\ LosesNothing(s)

LEMMA SafeStep ==
    ASSUME NEW s \in Servers
    PROVE  ServeInv /\ Safe(s) /\ [Next]_serveVars => Safe(s)'
<1> SUFFICES ASSUME ServeInv, Safe(s), [Next]_serveVars PROVE Safe(s)'
  OBVIOUS
<1> USE DEF Safe, LosesNothing, ServeInv
<1>1. ASSUME UNCHANGED <<inShutdown, turn, request>> PROVE Safe(s)'
  BY <1>1
<1>2. ASSUME NEW t \in Servers, MainStep(t) PROVE Safe(s)'
  <2>1. turn' = turn \/ turn' = turn + 1
    BY <1>2 DEF MainStep, SelectError, BeginShutdown, CallShutdown, ShutdownReturns, ReceiveAnswer
  <2>2. turn' > s BY <2>1, ServersAssumption DEF MainOK, Servers
  <2>3. inShutdown'[s] /\ request' = request
    BY <1>2 DEF MainStep, SelectError, BeginShutdown, CallShutdown, ShutdownReturns, ReceiveAnswer,
                ServersOK
  <2> QED BY <2>2, <2>3
<1>3. CASE SelectSignal BY <1>3 DEF SelectSignal, BeginShutdown
<1>4. CASE Exit BY <1>4 DEF Exit
<1>5. ASSUME NEW q \in Requests, AcceptRequest(q) \/ AnswerRequest(q) PROVE Safe(s)'
  BY <1>5 DEF AcceptRequest, AnswerRequest, MainOK
<1> QED BY <1>1, <1>2, <1>3, <1>4, <1>5
    DEF Next, ServersNext, ServerStep, ServeFails, Listen, Serve, ServeClosed, SendAnswer, Ends,
        ReceiveSignal, DeadlinePasses, serveVars

\* Until the deadline a server whose Shutdown has returned is such a one.
LEMMA SafeInTime ==
    ASSUME NEW s \in Servers
    PROVE  ServeInv /\ Uncut /\ turn > s /\ deadline # "passed" => Safe(s)
<1> SUFFICES ASSUME ServeInv, Uncut, turn > s, deadline # "passed" PROVE Safe(s)
  OBVIOUS
<1>1. s < turn BY ServersAssumption DEF ServeInv, MainOK, Servers
<1> QED BY <1>1 DEF ServeInv, Uncut, Drained, Safe, LosesNothing

\* No request is cut before the ten seconds, which all servers share, have passed
\* since the shutdown began; and a server whose Shutdown has returned in time loses
\* none, however long the others hang.
THEOREM CutsAwaitTheDeadline == ManagerSpec => CutAfterDeadline
<1>1. ManagerSpec => [](ServeInv /\ Uncut)
  <2>1. ManagerInit => Uncut BY DEF ManagerInit, Init, Uncut
  <2>2. ServeInv /\ Uncut /\ [ManagerNext]_vars => Uncut' BY UncutStep, ManagerServes
  <2> QED BY <2>1, <2>2, ServeInvariant, ManagerImplementsServers, PTL DEF ManagerSpec
<1>2. ServeInv /\ [ManagerNext]_vars =>
        [\A q \in Requests : request[q] = "active" /\ request'[q] = "cut"
                             => deadline = "passed"]_vars
  BY CutsAreLate, ManagerServes
<1>3. ASSUME NEW s \in Servers
      PROVE  ManagerSpec => [](turn > s /\ deadline # "passed" => []LosesNothing(s))
  <2>1. ServeInv /\ Safe(s) /\ [ManagerNext]_vars => Safe(s)' BY SafeStep, ManagerServes
  <2>2. ServeInv /\ Uncut /\ turn > s /\ deadline # "passed" => Safe(s) BY SafeInTime
  <2>3. Safe(s) => LosesNothing(s) BY DEF Safe
  <2> QED BY <1>1, <2>1, <2>2, <2>3, PTL DEF ManagerSpec
<1>4. ManagerSpec =>
        [][\A q \in Requests : request[q] = "active" /\ request'[q] = "cut"
                               => deadline = "passed"]_vars
  BY <1>1, <1>2, PTL DEF ManagerSpec
<1> QED BY <1>3, <1>4 DEF CutAfterDeadline

-----------------------------------------------------------------------------
(* The manager: its handlers *)

\* A file is where its handler has left it; one with a row is complete.
FilesAsSteps ==
    \A q \in Uploads :
        /\ file[q] = "tmp" <=> step[q] = "saving"
        /\ request[q] = "none" \/ step[q] \in {"none", "parsing"} => file[q] = "none"
        /\ step[q] \in {"saved", "valid"} \/ artRow[q] => file[q] = "stored"

\* What the handlers have accepted; a row is inserted by a handler's last step.
Accepted ==
    /\ \A q \in Uploads : artRow[q] => step[q] = "done" /\ request[q] # "none"
    /\ \A q \in Uploads : archive[q] # Nothing => AcceptsArchive(archive[q])
    /\ \A q \in RunRequests : runOf[q] # Nothing =>
         /\ step[q] = "done" /\ request[q] # "none"
         /\ artRow[runOf[q]] /\ AcceptsParams(params[q])

HandlersInv == HandlersOK /\ FilesAsSteps /\ Accepted

USE ManagerAssumption, NothingAssumption
USE DEF handlerVars

LEMMA HandlersInit == ManagerInit => HandlersInv
<1> SUFFICES ASSUME ManagerInit PROVE HandlersInv
  OBVIOUS
<1>1. HandlersOK
  <2>1. artRow \in [Uploads -> BOOLEAN] /\ \A q \in Uploads : ~artRow[q]
    BY DEF ManagerInit
  <2> QED BY <2>1 DEF ManagerInit, HandlersOK
<1>2. FilesAsSteps BY DEF ManagerInit, FilesAsSteps
<1>3. Accepted BY DEF ManagerInit, Accepted
<1> QED BY <1>1, <1>2, <1>3 DEF HandlersInv

LEMMA UploadHandled ==
    ASSUME MainOK, HandlersInv, NEW q \in Uploads, UploadStep(q)
    PROVE  HandlersInv'
<1> USE DEF HandlersInv, Goes
<1>1. CASE RefuseUpload(q)
  BY <1>1 DEF RefuseUpload, HandlersOK, FilesAsSteps, Accepted, serveVars
<1>2. CASE CreateFile(q)
  BY <1>2 DEF CreateFile, HandlersOK, FilesAsSteps, Accepted, serveVars
<1>3. CASE SaveFails(q)
  BY <1>3 DEF SaveFails, HandlersOK, FilesAsSteps, Accepted, serveVars
<1>4. CASE SaveFile(q)
  BY <1>4 DEF SaveFile, HandlersOK, FilesAsSteps, Accepted, serveVars
<1>5. ASSUME NEW arch \in Archives, CheckManifest(q, arch) PROVE HandlersInv'
  BY <1>5 DEF CheckManifest, HandlersOK, FilesAsSteps, Accepted, serveVars
<1>6. CASE InsertArtifact(q)
  <2>1. PICK stored \in BOOLEAN : artRow' = [artRow EXCEPT ![q] = stored]
    BY <1>6 DEF InsertArtifact
  <2>2. ~artRow[q] /\ request[q] = "active" BY <1>6 DEF InsertArtifact, Accepted
  <2>3. HandlersOK' BY <1>6, <2>1 DEF InsertArtifact, HandlersOK, serveVars
  <2>4. FilesAsSteps'
    BY <1>6, <2>1, <2>2 DEF InsertArtifact, HandlersOK, FilesAsSteps, serveVars
  <2>5. Accepted' BY <1>6, <2>1, <2>2 DEF InsertArtifact, HandlersOK, Accepted, serveVars
  <2> QED BY <2>3, <2>4, <2>5
<1> QED BY <1>1, <1>2, <1>3, <1>4, <1>5, <1>6 DEF UploadStep

LEMMA RunHandled ==
    ASSUME MainOK, HandlersInv, NEW q \in RunRequests, RunStep(q)
    PROVE  HandlersInv'
<1> USE DEF HandlersInv, Goes
<1>1. CASE RefuseRun(q)
  BY <1>1 DEF RefuseRun, HandlersOK, FilesAsSteps, Accepted, serveVars
<1>2. ASSUME NEW p \in Params, NEW u \in Uploads, SubmitRun(q, p, u) PROVE HandlersInv'
  BY <1>2 DEF SubmitRun, HandlersOK, FilesAsSteps, Accepted, serveVars
<1> QED BY <1>1, <1>2 DEF RunStep

LEMMA HandlersStep == ServeInv /\ HandlersInv /\ [ManagerNext]_vars => HandlersInv'
<1> SUFFICES ASSUME ServeInv, HandlersInv, [ManagerNext]_vars PROVE HandlersInv'
  OBVIOUS
<1> USE DEF HandlersInv, ServeInv
<1>1. ASSUME UNCHANGED handlerVars,
             \A q \in Requests : request'[q] \in {"none", "answered"} => step[q] \in {"none", "done"},
             \A q \in Requests : request'[q] = "none" => request[q] = "none"
      PROVE  HandlersInv'
  BY <1>1 DEF HandlersOK, FilesAsSteps, Accepted
<1>2. CASE ServersNext /\ UNCHANGED handlerVars
  <2>1. \A q \in Requests : request'[q] = request[q] \/ request'[q] = "cut"
    BY <1>2 DEF ServersNext, ServerStep, ServeFails, Listen, Serve, ServeClosed, SendAnswer,
            MainStep, SelectError, CallShutdown, ShutdownReturns, ReceiveAnswer, ReceiveSignal,
            SelectSignal, DeadlinePasses, Exit
  <2> QED BY <1>1, <1>2, <2>1 DEF HandlersOK
<1>3. ASSUME NEW q \in Requests, Begin(q) PROVE HandlersInv'
  <2>1. /\ step' = [step EXCEPT ![q] = "parsing"] /\ step[q] \in {"none", "done"}
        /\ request[q] = "none" /\ request' = [request EXCEPT ![q] = "active"]
        /\ UNCHANGED <<archive, file, artRow, runOf, params>>
    BY <1>3 DEF Begin, AcceptRequest, HandlersOK
  <2>2. q \in Uploads => file[q] = "none" /\ ~artRow[q]
    BY <2>1 DEF FilesAsSteps, Accepted
  <2>3. HandlersOK' BY <2>1 DEF HandlersOK, MainOK
  <2>4. FilesAsSteps' BY <2>1, <2>2 DEF HandlersOK, MainOK, FilesAsSteps
  <2>5. q \in RunRequests => runOf[q] = Nothing
    BY <2>1 DEF Accepted
  <2>6. Accepted' BY <2>1, <2>2, <2>5 DEF HandlersOK, MainOK, Accepted
  <2> QED BY <2>3, <2>4, <2>6
<1>4. ASSUME NEW q \in Requests, Answer(q) PROVE HandlersInv'
  <2>1. \A p \in Requests : p # q => request'[p] = request[p]
    BY <1>4 DEF Answer, AnswerRequest, MainOK
  <2>2. request'[q] = "answered" BY <1>4 DEF Answer, AnswerRequest, MainOK
  <2> QED BY <1>1, <1>4, <2>1, <2>2 DEF Answer, HandlersOK
<1>5. CASE UNCHANGED vars BY <1>1, <1>5 DEF vars, serveVars, HandlersOK
<1> QED BY <1>2, <1>3, <1>4, <1>5, UploadHandled, RunHandled DEF ManagerNext

THEOREM ManagerInvariant == ManagerSpec => [](ServeInv /\ HandlersInv)
<1>1. ServeInv /\ ServeInv' /\ HandlersInv /\ [ManagerNext]_vars => HandlersInv'
  BY HandlersStep
<1> QED BY <1>1, HandlersInit, ServeInvariant, ManagerImplementsServers, PTL DEF ManagerSpec

\* Types, and the order of the main goroutine's and the handlers' steps.
THEOREM ManagerTypeCorrect == ManagerSpec => []TypeOK
<1>1. ServeInv /\ HandlersInv => TypeOK BY DEF ServeInv, HandlersInv, TypeOK
<1> QED BY <1>1, ManagerInvariant, PTL

\* Handlers, servers and the end of the process take part in an archive's life as
\* Custody says ...
LEMMA CustodyInit == ManagerInit => \A q \in Uploads : CustodyOf(q)!Init
<1> SUFFICES ASSUME ManagerInit, NEW q \in Uploads PROVE CustodyOf(q)!Init
  OBVIOUS
<1>1. file[q] = "none" /\ SeenRow(q) = "none" BY DEF ManagerInit, SeenRow
<1>2. ~(request[q] = "active" /\ step[q] \in {"saving", "saved", "valid"})
  BY DEF ManagerInit, Init
<1>3. ~(main = "exited") BY DEF ManagerInit, Init
<1> QED BY <1>1, <1>2, <1>3 DEF CustodyOf!Init

LEMMA CustodyKept ==
    ASSUME NEW q \in Uploads,
           UNCHANGED <<artRow, runOf>>, file'[q] = file[q], step'[q] = step[q],
           request'[q] = request[q], main' = main
    PROVE  UNCHANGED CustodyOf(q)!vars
BY DEF CustodyOf!vars, SeenRow

\* A handler's step is one of its own upload's.
LEMMA UploadFollowsCustody ==
    ASSUME ServeInv, HandlersInv, NEW q \in Uploads, UploadStep(q), NEW u \in Uploads
    PROVE  [CustodyOf(u)!Next]_(CustodyOf(u)!vars)
<1>1. HandlersOK /\ FilesAsSteps /\ Accepted BY DEF HandlersInv
<1>2. /\ request[q] = "active" /\ UNCHANGED <<request, main, runOf>>
      /\ u # q => /\ file'[u] = file[u] /\ step'[u] = step[u] /\ artRow'[u] = artRow[u]
  BY <1>1 DEF UploadStep, RefuseUpload, CreateFile, SaveFails, SaveFile, CheckManifest,
              InsertArtifact, Goes, HandlersOK, serveVars
<1>3. CASE u # q BY <1>2, <1>3 DEF CustodyOf!vars, SeenRow
<1>4. CASE u = q
  <2> DEFINE Held == request[u] = "active" /\ step[u] \in {"saving", "saved", "valid"}
  <2>1. ~artRow[u] /\ SeenRow(u) = "none"
    BY <1>1, <1>4 DEF Accepted, UploadStep, RefuseUpload, CreateFile, SaveFails, SaveFile,
                      CheckManifest, InsertArtifact, Goes, SeenRow
  <2>2. ~InsertArtifact(u) => SeenRow(u)' = SeenRow(u)
    BY <1>2, <1>4 DEF UploadStep, RefuseUpload, CreateFile, SaveFails, SaveFile,
                      CheckManifest, SeenRow
  <2>3. CASE RefuseUpload(u)
    <3>1. ~Held /\ ~Held' /\ file' = file /\ SeenRow(u)' = SeenRow(u)
      BY <1>1, <2>3 DEF RefuseUpload, Goes, HandlersOK, SeenRow
    <3> QED BY <1>2, <3>1 DEF CustodyOf!vars
  <2>4. CASE CreateFile(u)
    <3>1. /\ ~Held /\ Held' /\ file[u] = "none" /\ file'[u] = "tmp"
          /\ SeenRow(u)' = SeenRow(u)
      BY <1>1, <1>2, <1>4, <2>4
         DEF CreateFile, Goes, HandlersOK, FilesAsSteps, SeenRow
    <3>2. CustodyOf(u)!Receive BY <1>2, <2>1, <3>1 DEF CustodyOf!Receive
    <3> QED BY <3>2 DEF CustodyOf!Next
  <2>5. CASE SaveFails(u)
    <3>1. /\ Held /\ ~Held' /\ file[u] = "tmp" /\ file'[u] = "none"
          /\ SeenRow(u)' = SeenRow(u)
      BY <1>1, <1>2, <1>4, <2>5
         DEF SaveFails, Goes, HandlersOK, FilesAsSteps, SeenRow
    <3>2. CustodyOf(u)!Abandon BY <1>2, <3>1 DEF CustodyOf!Abandon
    <3> QED BY <3>2 DEF CustodyOf!Next
  <2>6. CASE SaveFile(u)
    <3>1. /\ Held /\ Held' /\ file[u] = "tmp" /\ file'[u] = "stored"
          /\ SeenRow(u)' = SeenRow(u)
      BY <1>1, <1>2, <1>4, <2>6
         DEF SaveFile, Goes, HandlersOK, FilesAsSteps, SeenRow
    <3>2. CustodyOf(u)!Store BY <1>2, <3>1 DEF CustodyOf!Store
    <3> QED BY <3>2 DEF CustodyOf!Next
  <2>7. ASSUME NEW arch \in Archives, CheckManifest(u, arch)
        PROVE  [CustodyOf(u)!Next]_(CustodyOf(u)!vars)
    <3>1. /\ Held /\ file[u] = "stored" /\ file' = file /\ SeenRow(u)' = SeenRow(u)
      BY <1>1, <1>2, <1>4, <2>7
         DEF CheckManifest, Goes, FilesAsSteps, SeenRow
    <3>2. CASE Held' BY <1>2, <3>1, <3>2 DEF CustodyOf!vars
    <3>3. CASE ~Held'
      <4>1. CustodyOf(u)!Leave BY <1>2, <3>1, <3>3 DEF CustodyOf!Leave
      <4> QED BY <4>1 DEF CustodyOf!Next
    <3> QED BY <3>2, <3>3
  <2>8. CASE InsertArtifact(u)
    <3>1. Held /\ ~Held' /\ file[u] = "stored" /\ file' = file
      BY <1>1, <1>2, <1>4, <2>8 DEF InsertArtifact, Goes, HandlersOK, FilesAsSteps
    <3>2. \A r \in RunRequests : runOf[r] # u
      BY <1>1, <2>1 DEF Accepted, HandlersOK
    <3>3. SeenRow(u)' \in {"none", "fresh"} BY <1>2, <3>2 DEF SeenRow
    <3>4. CASE SeenRow(u)' = "none"
      <4>1. CustodyOf(u)!Leave BY <1>2, <2>1, <3>1, <3>4 DEF CustodyOf!Leave
      <4> QED BY <4>1 DEF CustodyOf!Next
    <3>5. CASE SeenRow(u)' = "fresh"
      <4>1. CustodyOf(u)!Offer BY <1>2, <2>1, <3>1, <3>5 DEF CustodyOf!Offer
      <4> QED BY <4>1 DEF CustodyOf!Next
    <3> QED BY <3>3, <3>4, <3>5
  <2> QED BY <1>2, <1>4, <2>3, <2>4, <2>5, <2>6, <2>7, <2>8 DEF UploadStep
<1> QED BY <1>3, <1>4

LEMMA RunFollowsCustody ==
    ASSUME ServeInv, HandlersInv, NEW q \in RunRequests, RunStep(q), NEW u \in Uploads
    PROVE  [CustodyOf(u)!Next]_(CustodyOf(u)!vars)
<1>1. HandlersOK /\ FilesAsSteps BY DEF HandlersInv
<1>2. UNCHANGED <<request, main, file, artRow>> /\ step'[u] = step[u]
  BY <1>1 DEF RunStep, RefuseRun, SubmitRun, Goes, HandlersOK, serveVars
<1>3. CASE RefuseRun(q) BY <1>2, <1>3, CustodyKept DEF RefuseRun
<1>4. ASSUME NEW p \in Params, NEW v \in Uploads, SubmitRun(q, p, v)
      PROVE  [CustodyOf(u)!Next]_(CustodyOf(u)!vars)
  <2>1. /\ artRow[v] /\ \A r \in RunRequests : runOf[r] # v
        /\ runOf' = [runOf EXCEPT ![q] = v] /\ runOf[q] \notin Uploads
    <3>1. step[q] = "parsing" BY <1>4 DEF SubmitRun, Goes
    <3>2. runOf[q] = Nothing BY <1>1, <3>1 DEF HandlersInv, Accepted
    <3> QED BY <1>4, <3>2 DEF SubmitRun
  <2>2. CASE u = v
    <3>1. SeenRow(u) = "fresh" BY <2>1, <2>2 DEF SeenRow
    <3>2. SeenRow(u)' = "consumed"
      BY <1>1, <1>2, <2>1, <2>2 DEF SeenRow, HandlersOK
    <3>3. file[u] = "stored" BY <1>1, <2>1, <2>2 DEF FilesAsSteps
    <3>4. CustodyOf(u)!Use BY <1>2, <3>1, <3>2, <3>3 DEF CustodyOf!Use
    <3> QED BY <3>4 DEF CustodyOf!Next
  <2>3. CASE u # v
    <3>1. \A r \in RunRequests : runOf'[r] = u <=> runOf[r] = u
      BY <1>1, <2>1, <2>3 DEF HandlersOK
    <3>2. SeenRow(u)' = SeenRow(u) BY <1>2, <3>1 DEF SeenRow
    <3> QED BY <1>2, <3>2 DEF CustodyOf!vars
  <2> QED BY <2>2, <2>3
<1> QED BY <1>3, <1>4 DEF RunStep

LEMMA StepFollowsCustody ==
    ASSUME ServeInv, HandlersInv, [ManagerNext]_vars, NEW u \in Uploads
    PROVE  [CustodyOf(u)!Next]_(CustodyOf(u)!vars)
<1>0. MainOK /\ HandlersOK BY DEF ServeInv, HandlersInv
<1>1. CASE ServersNext /\ UNCHANGED handlerVars
  <2>1. CASE Exit
    <3>1. main' = "exited" /\ request'[u] # "active"
      BY <1>0, <2>1 DEF Exit, MainOK
    <3>2. SeenRow(u)' = SeenRow(u) /\ file' = file BY <1>1 DEF SeenRow
    <3>3. CustodyOf(u)!ProcessEnds BY <3>1, <3>2 DEF CustodyOf!ProcessEnds
    <3> QED BY <3>3 DEF CustodyOf!Next
  <2>2. CASE ~Exit
    <3>1. request' = request
      BY <1>1, <2>2 DEF ServersNext, ServerStep, ServeFails, Listen, Serve, ServeClosed,
              SendAnswer, MainStep, SelectError, CallShutdown, ShutdownReturns, ReceiveAnswer,
              ReceiveSignal, SelectSignal, DeadlinePasses
    <3>2. main' = main \/ (main # "exited" /\ main' # "exited")
      BY <1>1, <2>2 DEF ServersNext, ServerStep, ServeFails, Listen, Serve, ServeClosed,
              SendAnswer, MainStep, SelectError, CallShutdown, ShutdownReturns, ReceiveAnswer,
              ReceiveSignal, SelectSignal, DeadlinePasses, BeginShutdown, Ends
    <3> QED BY <1>1, <3>1, <3>2 DEF CustodyOf!vars, SeenRow
  <2> QED BY <2>1, <2>2
<1>2. ASSUME NEW q \in Requests, Begin(q) PROVE UNCHANGED CustodyOf(u)!vars
  <2>1. UNCHANGED <<file, artRow, runOf, main>> /\ request[q] = "none" /\ step'[q] = "parsing"
    BY <1>0, <1>2 DEF Begin, AcceptRequest, HandlersOK, mainVars
  <2>2. q # u => request'[u] = request[u] /\ step'[u] = step[u]
    BY <1>0, <1>2 DEF Begin, AcceptRequest, HandlersOK, MainOK
  <2> QED BY <2>1, <2>2 DEF CustodyOf!vars, SeenRow
<1>3. ASSUME NEW q \in Requests, Answer(q) PROVE UNCHANGED CustodyOf(u)!vars
  <2>1. UNCHANGED <<file, artRow, runOf, step, main>> /\ step[q] = "done"
    BY <1>3 DEF Answer, AnswerRequest
  <2>2. q # u => request'[u] = request[u]
    BY <1>0, <1>3 DEF Answer, AnswerRequest, MainOK
  <2> QED BY <2>1, <2>2 DEF CustodyOf!vars, SeenRow
<1>4. CASE UNCHANGED vars BY <1>4, CustodyKept DEF vars, serveVars
<1> QED BY <1>1, <1>2, <1>3, <1>4, UploadFollowsCustody, RunFollowsCustody DEF ManagerNext

\* ... wherever the shutdown cuts them.
THEOREM ManagerKeepsCustody == ManagerSpec => KeepsCustody
<1>1. ServeInv /\ HandlersInv /\ [ManagerNext]_vars
      => [\A q \in Uploads : [CustodyOf(q)!Next]_(CustodyOf(q)!vars)]_vars
  BY StepFollowsCustody
<1> QED BY <1>1, CustodyInit, ManagerInvariant, PTL DEF ManagerSpec, KeepsCustody

\* A temporary file without an active request was left by the process's end.
THEOREM TmpFilesAreFromCuts == ManagerSpec => []TmpOnlyFromCut
<1>1. ServeInv /\ HandlersInv => TmpOnlyFromCut
  BY DEF ServeInv, HandlersInv, MainOK, HandlersOK, FilesAsSteps, TmpOnlyFromCut
<1> QED BY <1>1, ManagerInvariant, PTL

-----------------------------------------------------------------------------
(* What the manager accepts, the agent and the runner accept *)

\* Each system, display and Qt version that POST /runs takes has an image.
LEMMA AcceptedHasImage ==
    ASSUME NEW p, AcceptsParams(p)
    PROVE  HasImage(p)
<1>1. p.os \in {"manjaro", "ubuntu"} /\ p.display \in {"wayland", "x11"} /\ p.qt = "5.15"
  BY DEF AcceptsParams, OSes, Displays, Versions
<1>2. DOMAIN Images = {"manjaro", "ubuntu"} BY DEF Images
<1>3. /\ Images["manjaro"] = [v \in {"5.15"} |-> [wayland |-> "manjaro-qt5.15-wayland",
                                                  x11     |-> "manjaro-qt5.15-x11"]]
      /\ Images["ubuntu"] = [v \in {"5.15"} |-> [wayland |-> "ubuntu-qt5.15-wayland",
                                                 x11     |-> "ubuntu-qt5.15-x11"]]
  BY DEF Images
<1>4. \A os \in {"manjaro", "ubuntu"} :
        "5.15" \in DOMAIN Images[os] /\ DOMAIN Images[os]["5.15"] = {"wayland", "x11"}
  BY <1>3
<1> QED BY <1>1, <1>2, <1>4 DEF HasImage

\* In an ordinary archive the manager and the runner read one manifest.
LEMMA OneManifest ==
    ASSUME NEW arch \in Seq(Entries), Ordinary(arch), AcceptsArchive(arch)
    PROVE  /\ FirstManifest(arch) \in DOMAIN arch /\ FirstManifest(arch) = LastUnpacked(arch)
           /\ IsManifest(arch[FirstManifest(arch)]) /\ Lands(arch[FirstManifest(arch)])
<1>1. PICK i \in DOMAIN arch : IsManifest(arch[i]) BY DEF AcceptsArchive, ReadsManifest
<1>2. i \in Nat BY <1>1
<1>3. \A j \in DOMAIN arch : IsManifest(arch[j]) => Lands(arch[j]) BY DEF IsManifest, Lands
<1>4. \A j \in DOMAIN arch : Lands(arch[j]) => j = i BY <1>1, <1>3 DEF Ordinary
<1>5. FirstManifest(arch) = i
  <2>1. \A j \in DOMAIN arch : IsManifest(arch[j]) => i <= j BY <1>2, <1>3, <1>4
  <2> QED BY <1>1, <1>3, <1>4, <2>1 DEF FirstManifest
<1>6. LastUnpacked(arch) = i
  <2>1. \A j \in DOMAIN arch : Lands(arch[j]) => j <= i BY <1>2, <1>4
  <2> QED BY <1>1, <1>3, <1>4, <2>1 DEF LastUnpacked
<1> QED BY <1>1, <1>3, <1>5, <1>6

LEMMA AcceptedRuns ==
    ASSUME NEW arch \in Seq(Entries), Ordinary(arch), AcceptsArchive(arch)
    PROVE  RunnerAccepts(arch) /\ Unpacked(arch) = Uploaded(arch)
<1> DEFINE i == FirstManifest(arch)
<1>1. /\ i \in DOMAIN arch /\ LastUnpacked(arch) = i
      /\ IsManifest(arch[i]) /\ Lands(arch[i])
  BY OneManifest
<1>2. /\ arch[i].size = "fits" /\ ValidateManifest(arch[i].doc)
  BY DEF AcceptsArchive, ReadsManifest, Uploaded
<1>3. arch[i].regular /\ arch[i].doc.plain BY <1>1 DEF IsManifest, Ordinary
<1> HIDE DEF i
<1>4. Unpacks(arch) BY <1>1, <1>3 DEF Unpacks
<1>5. Unpacked(arch) = arch[i].doc BY <1>1 DEF Unpacked
<1>6. RunnerAccepts(arch)
  BY <1>1, <1>2, <1>3, <1>4, <1>5 DEF RunnerAccepts, ValidateManifest
<1> QED BY <1>5, <1>6 DEF Uploaded, i

\* A run that POST /runs has created finds an image, and its manifest passes
\* the runner's checks.
THEOREM AcceptedRunsStart == ManagerSpec => []AcceptedStarts
<1>1. ASSUME HandlersInv, NEW q \in RunRequests, runOf[q] # Nothing
      PROVE  /\ HasImage(params[q])
             /\ Ordinary(archive[runOf[q]]) => RunnerAccepts(archive[runOf[q]])
  <2>1. runOf[q] \in Uploads /\ artRow[runOf[q]] /\ AcceptsParams(params[q])
    BY <1>1 DEF HandlersInv, HandlersOK, Accepted
  <2>2. archive[runOf[q]] \in Seq(Entries) /\ AcceptsArchive(archive[runOf[q]])
    BY <1>1, <2>1, ArchivesAssumption DEF HandlersInv, HandlersOK, Accepted
  <2> QED BY <2>1, <2>2, AcceptedHasImage, AcceptedRuns
<1>2. HandlersInv => AcceptedStarts BY <1>1 DEF AcceptedStarts
<1> QED BY <1>2, ManagerInvariant, PTL

\* The runner gives a test the timeout that the manager has stored.
THEOREM TimeoutsAgree == ManagerSpec => []TimeoutAgrees
<1>1. ASSUME HandlersInv, NEW q \in Uploads, artRow[q], Ordinary(archive[q]),
             NEW d, d = Unpacked(archive[q]), d.timeout_sec = Absent \/ d.timeout_sec > 0
      PROVE  RunnerTimeout(d) = StoredTimeout(d) /\ RunnerTimeout(d) <= MaxTimeoutSec
  <2>1. archive[q] \in Seq(Entries) /\ AcceptsArchive(archive[q])
    BY <1>1, ArchivesAssumption DEF HandlersInv, HandlersOK, Accepted
  <2>2. d = Uploaded(archive[q]) BY <1>1, <2>1, AcceptedRuns
  <2>3. StoredTimeout(d) <= MaxTimeoutSec
    BY <2>1, <2>2 DEF AcceptsArchive, ValidateManifest
  <2>4. d.timeout_sec \in Int \cup {Absent}
    <3> DEFINE i == FirstManifest(archive[q])
    <3>1. i \in DOMAIN archive[q] BY <1>1, <2>1, OneManifest
    <3>2. archive[q][i] \in Entries BY <2>1, <3>1
    <3>3. archive[q][i].doc \in Documents BY <3>2 DEF Entries
    <3> QED BY <2>2, <3>3 DEF Uploaded, Documents
  <2>5. RunnerTimeout(d) = StoredTimeout(d)
    BY <1>1, <2>4, AbsentAssumption DEF RunnerTimeout, StoredTimeout
  <2> QED BY <2>3, <2>5
<1>2. HandlersInv => TimeoutAgrees BY <1>1 DEF TimeoutAgrees
<1> QED BY <1>2, ManagerInvariant, PTL
=============================================================================
