----------------------------- MODULE Containers -----------------------------
(***************************************************************************)
(* RunContainer: the executions of one run's job, one after the other or,  *)
(* when a lease expires under one, side by side, and the containers they   *)
(* make in the docker daemon.  All containers of a run want the name       *)
(* qtiva-run-<id>, so runs do not meet and one is enough.  There is one    *)
(* daemon: an agent uses that of its own host, and the agents of this      *)
(* model share a host.                                                     *)
(*                                                                         *)
(* A call to the daemon is one action: it succeeds, is refused, or its     *)
(* answer is lost with or without its effect.  A refused or lost call may  *)
(* leave a container that RunContainer does nothing more for: its          *)
(* execution is in `abandoned`.  The queue is Executions, which JobQueue   *)
(* implements.                                                             *)
(***************************************************************************)
EXTENDS Naturals

CONSTANTS MaxAttempts,  \* jobs.max_attempts
          Overlap       \* may a lease expire under a living execution?

ASSUME MaxAttemptsAssumption == MaxAttempts \in Nat \ {0}
ASSUME OverlapAssumption == Overlap \in BOOLEAN

\* As many executions as there can be (AttemptsBounded of JobQueue).
Tries == 1..(2 * MaxAttempts)

VARIABLES
    job, tries, running,  \* of Executions
    pc,          \* the call each execution has come to, or what RunContainer returned
    container,   \* each execution's container: "none" yet, "created", "running",
                 \* "exited" while the daemon removes it (AutoRemove), or "gone"
    abandoned,   \* executions that have returned from a call to remove, stop or wait
                 \* for their container that failed, or from a create that took effect
                 \* and gave no answer: whatever container there is stays as it is
    overlapped   \* a lease expired under a living execution

queueVars == <<job, tries, running>>
vars      == <<queueVars, pc, container, abandoned, overlapped>>

Queue == INSTANCE Executions

Exists(t) == container[t] \in {"created", "running", "exited"}

\* Variant of NameTaken: a name of its own for each attempt.
NameNeverTaken == FALSE

NameTaken == \E t \in Tries : Exists(t)

Init ==
    /\ Queue!Init
    /\ pc = [t \in Tries |-> "none"]
    /\ container = [t \in Tries |-> "none"]
    /\ abandoned = {} /\ overlapped = FALSE

Goto(t, call) == pc' = [pc EXCEPT ![t] = call] /\ UNCHANGED <<queueVars, overlapped>>
Becomes(t, state) == container' = [container EXCEPT ![t] = state]

\* RunContainer returns "exit", "timeout" or "error".
Return(t, result) == Goto(t, result)

\* After a failed call it returns whatever has become of the container.
Abandon(t) == Return(t, "error") /\ abandoned' = abandoned \cup {t}

-----------------------------------------------------------------------------
\* The queue: a worker claims the job, ...
Begin ==
    /\ Queue!Begin
    /\ pc' = [pc EXCEPT ![tries + 1] = "begun"]
    /\ UNCHANGED <<container, abandoned, overlapped>>

\* ... or the claim's acknowledgement is lost and nothing is executed, ...
ClaimUnacknowledged ==
    /\ Queue!Forfeit
    /\ UNCHANGED <<pc, container, abandoned, overlapped>>

\* ... the worker settles the job: an exit status or a timeout ends the run, an
\* error is retried as long as attempts are left; ...
Settle(t) ==
    /\ \/ pc[t] \in {"exit", "timeout"} /\ Queue!Complete(t)
       \/ pc[t] = "error" /\ (Queue!Retry(t) \/ Queue!GiveUp(t))
    /\ pc' = [pc EXCEPT ![t] = "ended"]
    /\ UNCHANGED <<container, abandoned, overlapped>>

\* ... or the statement is lost.
LoseSettlement(t) ==
    /\ pc[t] \in {"exit", "timeout", "error"} /\ Queue!Lose({t})
    /\ pc' = [pc EXCEPT ![t] = "unsettled"]
    /\ UNCHANGED <<container, abandoned, overlapped>>

\* The lease cleanup, and the collector's of old jobs.
ReleaseLease ==
    /\ Queue!Release
    /\ overlapped' = (overlapped \/ running # {})
    /\ UNCHANGED <<pc, container, abandoned>>

CleanupOldJobs == Queue!Forget /\ UNCHANGED <<pc, container, abandoned, overlapped>>

\* What the call that an execution is in makes of its container.
AfterCall(t) ==
    CASE pc[t] = "begun" /\ ~NameTaken -> "created"
      [] pc[t] = "created"             -> "running"
      [] pc[t] = "removing"            -> "gone"
      [] OTHER                         -> container[t]

\* The agent of some executions dies.  Their containers do not, and the calls they
\* were in may have their effect: one of them at most comes by the name.
Die(dead) ==
    /\ Queue!Lose(dead)
    /\ pc' = [t \in Tries |-> IF t \in dead THEN "dead" ELSE pc[t]]
    /\ \E done \in SUBSET dead :
          /\ \A t, u \in done : pc[t] = "begun" /\ pc[u] = "begun" => t = u
          /\ container' = [t \in Tries |-> IF t \in done THEN AfterCall(t) ELSE container[t]]
    /\ UNCHANGED <<abandoned, overlapped>>

-----------------------------------------------------------------------------
\* Variant of Create: goes on as if there were no errors.
CreateUnchecked(t) ==
    /\ pc[t] = "begun"
    /\ Goto(t, "created")
    /\ IF NameTaken THEN UNCHANGED container ELSE Becomes(t, "created")
    /\ UNCHANGED abandoned

\* ContainerCreate: refused while a container has the name, or for another reason.
Create(t) ==
    /\ pc[t] = "begun"
    /\ \/ ~NameTaken /\ Becomes(t, "created") /\ Goto(t, "created") /\ UNCHANGED abandoned
       \/ Return(t, "error") /\ UNCHANGED <<container, abandoned>>
       \/ ~NameTaken /\ Becomes(t, "created") /\ Abandon(t)

\* Variant of Start: an execution whose start is refused is given up at once.
StartUnremoved(t) ==
    /\ pc[t] = "created"
    /\ \/ Becomes(t, "running") /\ Goto(t, "started") /\ UNCHANGED abandoned
       \/ Return(t, "error") /\ UNCHANGED <<container, abandoned>>

\* ContainerStart; after any error the container is to be removed.
Start(t) ==
    /\ pc[t] = "created"
    /\ \/ Becomes(t, "running") /\ Goto(t, "started") /\ UNCHANGED abandoned
       \/ Goto(t, "removing") /\ UNCHANGED <<container, abandoned>>
       \/ Becomes(t, "running") /\ Goto(t, "removing") /\ UNCHANGED abandoned

\* ContainerRemove with Force; if it is refused RunContainer returns all the same.
Remove(t) ==
    /\ pc[t] = "removing"
    /\ \/ Becomes(t, "gone") /\ Return(t, "error") /\ UNCHANGED abandoned
       \/ Exists(t) /\ UNCHANGED container /\ Abandon(t)

\* ContainerWait reaches the daemon: a container removed already is an error.
Wait(t) ==
    /\ pc[t] = "started"
    /\ \/ Exists(t) /\ Goto(t, "waiting")
       \/ ~Exists(t) /\ Return(t, "error")
    /\ UNCHANGED <<container, abandoned>>

ReceiveExit(t) ==
    /\ pc[t] = "waiting" /\ container[t] # "running"
    /\ Return(t, "exit")
    /\ UNCHANGED <<container, abandoned>>

\* The daemon answers the wait with an error, or its connection ends.
ReceiveError(t) == pc[t] = "waiting" /\ Abandon(t) /\ UNCHANGED container

\* Variant of Deadline: the timeout is reported and the container left alone.
DeadlineUnstopped(t) ==
    /\ pc[t] = "waiting"
    /\ Return(t, "timeout")
    /\ UNCHANGED <<container, abandoned>>

\* The deadline of the wait, which an exit may be about to answer.
Deadline(t) ==
    /\ pc[t] = "waiting"
    /\ Goto(t, "stopping")
    /\ UNCHANGED <<container, abandoned>>

\* Variant of Stop: a stop that fails is not looked at.
StopUnchecked(t) ==
    /\ pc[t] = "stopping"
    /\ Return(t, "timeout")
    /\ \/ Exists(t) /\ Becomes(t, "exited") /\ UNCHANGED abandoned
       \/ ~Exists(t) /\ UNCHANGED <<container, abandoned>>
       \/ UNCHANGED container /\ abandoned' = abandoned \cup {t}

\* ContainerStop: of an exited container it succeeds, of a removed one it does not;
\* that of a container which exists may be refused, too, or its answer be lost.
Stop(t) ==
    /\ pc[t] = "stopping"
    /\ \/ Exists(t) /\ Becomes(t, "exited") /\ Return(t, "timeout") /\ UNCHANGED abandoned
       \/ ~Exists(t) /\ Return(t, "error") /\ UNCHANGED <<container, abandoned>>
       \/ Exists(t) /\ (UNCHANGED container \/ Becomes(t, "exited")) /\ Abandon(t)

-----------------------------------------------------------------------------
\* The daemon: the program in the container ends, and AutoRemove follows.
ContainerExits(t) ==
    /\ container[t] = "running"
    /\ Becomes(t, "exited")
    /\ UNCHANGED <<queueVars, pc, abandoned, overlapped>>

AutoRemove(t) ==
    /\ container[t] = "exited"
    /\ Becomes(t, "gone")
    /\ UNCHANGED <<queueVars, pc, abandoned, overlapped>>

-----------------------------------------------------------------------------
RunContainer(t) ==
    Create(t) \/ Start(t) \/ Remove(t) \/ Wait(t) \/ ReceiveExit(t) \/ ReceiveError(t)
        \/ Deadline(t) \/ Stop(t)

Next ==
    \/ Begin \/ ClaimUnacknowledged \/ ReleaseLease \/ CleanupOldJobs
    \/ \E t \in Tries : \/ RunContainer(t) \/ Settle(t) \/ LoseSettlement(t)
                       \/ ContainerExits(t) \/ AutoRemove(t)
    \/ \E dead \in (SUBSET Tries) \ {{}} : Die(dead)

Spec == Init /\ [][Next]_vars

\* An execution goes on (every call returns, the wait by its deadline), and the
\* daemon removes what has exited.  The program under test owes nothing: it may hang.
Fairness == \A t \in Tries : WF_vars(RunContainer(t)) /\ WF_vars(AutoRemove(t))

FairSpec == Spec /\ Fairness

=============================================================================
