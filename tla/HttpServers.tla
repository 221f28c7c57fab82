----------------------------- MODULE HttpServers -----------------------------
(***************************************************************************)
(* RunHTTPServers: the manager's HTTP servers, the goroutine of each, and  *)
(* the main goroutine that waits for a signal or for a server's end, shuts *)
(* the servers down one after the other and leaves the process.            *)
(*                                                                         *)
(* `errCh` has room for every server's answer, so a sender never waits and *)
(* the order in it decides nothing: it is the set of servers whose         *)
(* `serving` is "queued".  The select's `err == nil` branch is no action:  *)
(* a server ends with nil only after Shutdown, which only main calls, when *)
(* it has left the select.                                                 *)
(*                                                                         *)
(* Abstracted: addresses, timeouts of connections, keep-alive (a request   *)
(* is its connection), logging.  net/http is modelled as far as its        *)
(* outcomes matter here.                                                   *)
(***************************************************************************)
EXTENDS Naturals

CONSTANTS
    NumServers,  \* len(servers)
    Requests,    \* requests that clients may send
    ServerOf,    \* the server each is sent to
    MaxSignals   \* bound: SIGINT and SIGTERM received

ASSUME ServersAssumption == NumServers \in Nat \ {0}
ASSUME RequestsAssumption == ServerOf \in [Requests -> 1..NumServers]
ASSUME SignalsAssumption == MaxSignals \in Nat

Servers == 1..NumServers

VARIABLES
    serving,     \* where each server's goroutine is
    verdict,     \* what its ListenAndServe returned: "nil" stands for ErrServerClosed
    inShutdown,  \* http.Server.inShutdown
    main,        \* the main goroutine: "select", "shutdown", "drain" or "exited"
    turn,        \* the server that shutdownAll has come to
    owed,        \* answers main will take from errCh before it returns
    ret,         \* the error it returns, as far as it knows
    deadline,    \* shutdownTimeout: "unset", "running" or "passed"
    pending,     \* a signal is in the channel `stop`
    signals,     \* signals received
    request      \* each request: "none", "active", "answered" or "cut" at exit

serverVars == <<serving, verdict, inShutdown>>
mainVars   == <<main, turn, owed, ret, deadline>>
signalVars == <<pending, signals>>
serveVars  == <<serverVars, mainVars, signalVars, request>>

Alive == main # "exited"

ActiveAt(s) == {q \in Requests : ServerOf[q] = s /\ request[q] = "active"}

-----------------------------------------------------------------------------
Init ==
    /\ serving = [s \in Servers |-> "starting"]
    /\ verdict = [s \in Servers |-> "none"]
    /\ inShutdown = [s \in Servers |-> FALSE]
    /\ main = "select" /\ turn = 1 /\ owed = 0 /\ ret = "nil" /\ deadline = "unset"
    /\ pending = FALSE /\ signals = 0
    /\ request = [q \in Requests |-> "none"]

-----------------------------------------------------------------------------
(* A server's goroutine *)

\* ListenAndServe returns err; errors.Is(err, ErrServerClosed) makes it nil.
Ends(s, err) ==
    /\ serving' = [serving EXCEPT ![s] = "ended"]
    /\ verdict' = [verdict EXCEPT ![s] = err]
    /\ UNCHANGED inShutdown

\* net.Listen, unless Shutdown came first.
Listen(s) ==
    /\ Alive /\ serving[s] = "starting"
    /\ \/ /\ ~inShutdown[s]
          /\ serving' = [serving EXCEPT ![s] = "bound"]
          /\ UNCHANGED <<verdict, inShutdown>>
       \/ ~inShutdown[s] /\ Ends(s, "err")
       \/ inShutdown[s] /\ Ends(s, "nil")
    /\ UNCHANGED <<mainVars, signalVars, request>>

\* Serve registers the listener, and finds a Shutdown that came in between.
Serve(s) ==
    /\ Alive /\ serving[s] = "bound"
    /\ \/ /\ ~inShutdown[s]
          /\ serving' = [serving EXCEPT ![s] = "open"]
          /\ UNCHANGED <<verdict, inShutdown>>
       \/ inShutdown[s] /\ Ends(s, "nil")
    /\ UNCHANGED <<mainVars, signalVars, request>>

\* Accept returns an error: Shutdown has closed the listener ...
ServeClosed(s) ==
    /\ Alive /\ serving[s] = "open" /\ inShutdown[s]
    /\ Ends(s, "nil")
    /\ UNCHANGED <<mainVars, signalVars, request>>

\* ... or it is broken.
ServeFails(s) ==
    /\ Alive /\ serving[s] = "open" /\ ~inShutdown[s]
    /\ Ends(s, "err")
    /\ UNCHANGED <<mainVars, signalVars, request>>

\* errCh <- err, or errCh <- nil.
SendAnswer(s) ==
    /\ Alive /\ serving[s] = "ended"
    /\ serving' = [serving EXCEPT ![s] = "queued"]
    /\ UNCHANGED <<verdict, inShutdown, mainVars, signalVars, request>>

-----------------------------------------------------------------------------
(* The main goroutine *)

\* The channel `stop` has room for one signal; a further one is dropped.
ReceiveSignal ==
    /\ Alive /\ signals < MaxSignals
    /\ signals' = signals + 1
    /\ pending' = TRUE
    /\ UNCHANGED <<serverVars, mainVars, request>>

\* Both branches make the context with shutdownTimeout and call shutdownAll.
BeginShutdown ==
    /\ main = "select"
    /\ main' = "shutdown"
    /\ deadline' = "running"
    /\ UNCHANGED turn

\* Variant of SelectSignal: awaits one answer more than there are servers.
SelectSignalOneMore ==
    /\ pending /\ BeginShutdown
    /\ pending' = FALSE
    /\ owed' = NumServers + 1
    /\ UNCHANGED <<serverVars, ret, signals, request>>

\* case <-stop.  When an answer is in errCh too, either branch may be taken.
SelectSignal ==
    /\ pending /\ BeginShutdown
    /\ pending' = FALSE
    /\ owed' = NumServers
    /\ UNCHANGED <<serverVars, ret, signals, request>>

\* case err := <-errCh, err # nil: what the others answer is not awaited.
SelectError(s) ==
    /\ serving[s] = "queued" /\ verdict[s] = "err" /\ BeginShutdown
    /\ serving' = [serving EXCEPT ![s] = "received"]
    /\ ret' = "err"
    /\ owed' = 0
    /\ UNCHANGED <<verdict, inShutdown, signalVars, request>>

\* shutdownAll calls Shutdown(s): no further request is accepted ...
CallShutdown(s) ==
    /\ main = "shutdown" /\ turn = s /\ ~inShutdown[s]
    /\ inShutdown' = [inShutdown EXCEPT ![s] = TRUE]
    /\ UNCHANGED <<serving, verdict, mainVars, signalVars, request>>

\* Variant of ShutdownReturns: waits for no request.
ShutdownReturnsAtOnce(s) ==
    /\ main = "shutdown" /\ turn = s /\ inShutdown[s] /\ serving[s] # "open"
    /\ turn' = turn + 1
    /\ main' = IF s = NumServers THEN "drain" ELSE "shutdown"
    /\ UNCHANGED <<serverVars, owed, ret, deadline, signalVars, request>>

\* ... and it returns when Serve has returned and no request is active, or
\* with the context's error.  Then the next server's turn comes.
ShutdownReturns(s) ==
    /\ main = "shutdown" /\ turn = s /\ inShutdown[s] /\ serving[s] # "open"
    /\ ActiveAt(s) = {} \/ deadline = "passed"
    /\ turn' = turn + 1
    /\ main' = IF s = NumServers THEN "drain" ELSE "shutdown"
    /\ UNCHANGED <<serverVars, owed, ret, deadline, signalVars, request>>

\* 10 seconds since the select, for all servers together.
DeadlinePasses ==
    /\ Alive /\ deadline = "running"
    /\ deadline' = "passed"
    /\ UNCHANGED <<serverVars, main, turn, owed, ret, signalVars, request>>

\* Variant of ReceiveAnswer: the last answer counts.
ReceiveLastAnswer(s) ==
    /\ main = "drain" /\ owed > 0 /\ serving[s] = "queued"
    /\ serving' = [serving EXCEPT ![s] = "received"]
    /\ owed' = owed - 1
    /\ ret' = verdict[s]
    /\ UNCHANGED <<verdict, inShutdown, main, turn, deadline, signalVars, request>>

\* firstNonNil's loop.
ReceiveAnswer(s) ==
    /\ main = "drain" /\ owed > 0 /\ serving[s] = "queued"
    /\ serving' = [serving EXCEPT ![s] = "received"]
    /\ owed' = owed - 1
    /\ ret' = IF verdict[s] = "err" THEN "err" ELSE ret
    /\ UNCHANGED <<verdict, inShutdown, main, turn, deadline, signalVars, request>>

\* RunHTTPServers returns; gc.Stop and db.Close, which serve deferred, wait
\* for nobody, and the process ends with whatever it was doing.
Exit ==
    /\ main = "drain" /\ owed = 0
    /\ main' = "exited"
    /\ request' = [q \in Requests |-> IF request[q] = "active" THEN "cut" ELSE request[q]]
    /\ UNCHANGED <<serverVars, turn, owed, ret, deadline, signalVars>>

-----------------------------------------------------------------------------
(* Requests *)

\* A server accepts until its own Shutdown, also when another's has begun.
AcceptRequest(q) ==
    /\ Alive /\ request[q] = "none"
    /\ serving[ServerOf[q]] = "open" /\ ~inShutdown[ServerOf[q]]
    /\ request' = [request EXCEPT ![q] = "active"]
    /\ UNCHANGED <<serverVars, mainVars, signalVars>>

\* The handler has written its answer.
AnswerRequest(q) ==
    /\ Alive /\ request[q] = "active"
    /\ request' = [request EXCEPT ![q] = "answered"]
    /\ UNCHANGED <<serverVars, mainVars, signalVars>>

-----------------------------------------------------------------------------
ServerStep(s) == Listen(s) \/ Serve(s) \/ ServeClosed(s) \/ SendAnswer(s)

MainStep(s) == SelectError(s) \/ CallShutdown(s) \/ ShutdownReturns(s) \/ ReceiveAnswer(s)

ServersNext ==
    \/ \E s \in Servers : ServerStep(s) \/ ServeFails(s) \/ MainStep(s)
    \/ ReceiveSignal \/ SelectSignal \/ DeadlinePasses \/ Exit

Next ==
    \/ ServersNext
    \/ \E q \in Requests : AcceptRequest(q) \/ AnswerRequest(q)

\* The goroutines run and ten seconds pass.  Handlers and clients owe
\* nothing, and no listener needs to break.
Fairness ==
    /\ \A s \in Servers : WF_serveVars(ServerStep(s)) /\ WF_serveVars(MainStep(s))
    /\ WF_serveVars(SelectSignal) /\ WF_serveVars(DeadlinePasses) /\ WF_serveVars(Exit)

Spec == Init /\ [][Next]_serveVars
=============================================================================
