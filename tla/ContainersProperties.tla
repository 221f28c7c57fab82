------------------------ MODULE ContainersProperties ------------------------
(***************************************************************************)
(* What RunContainer promises about the containers of one run.             *)
(***************************************************************************)
EXTENDS Containers, FiniteSets

Results == {"exit", "timeout", "error"}

Calls == {"begun", "created", "removing", "started", "waiting", "stopping"}

\* Types; an execution that lives has a call or a result, and a call tells what
\* container there is.
TypeOK ==
    /\ job \in {"queued", "taken", "done", "failed", "forgotten"}
    /\ tries \in 0..(2 * MaxAttempts)
    /\ running \in SUBSET (1..tries)
    /\ pc \in [Tries -> Calls \cup Results \cup {"none", "ended", "unsettled", "dead"}]
    /\ container \in [Tries -> {"none", "created", "running", "exited", "gone"}]
    /\ abandoned \in SUBSET Tries /\ overlapped \in BOOLEAN
    /\ \A t \in Tries :
          /\ t \in running <=> pc[t] \in Calls \cup Results
          /\ t > tries => pc[t] = "none"
          /\ pc[t] \in {"none", "begun"} => container[t] = "none"
          /\ pc[t] = "created" => container[t] = "created"
          /\ pc[t] \in {"started", "waiting", "stopping"} =>
                container[t] \in {"running", "exited", "gone"}

\* The container has exited, and the statement that was to say so is lost.
ExitUnsettled(t) == pc[t] = "unsettled" /\ container[t] = "exited"

\* A run never has two containers, not even when its lease expires under an
\* execution and another begins: the second is refused the name (RunContainer).
OneContainer == \A t, u \in Tries : Exists(t) /\ Exists(u) => t = u

\* What can have the name when the job is queued again: the container of an
\* execution whose own call to remove, stop or wait for it failed (or whose create
\* gave no answer), of one whose agent died, or of one that ended and whose result
\* was lost, until AutoRemove has removed it.  No other error, and no retry, leaves
\* a container behind (RunContainer, executeJob).
RetryFindsName ==
    ~overlapped /\ job = "queued" => \A t \in Tries :
        Exists(t) => t \in abandoned \/ pc[t] = "dead" \/ ExitUnsettled(t)

\* When a run has passed, failed or timed out nothing of it is running, also
\* after executions that lost sight of their containers, or whose result was
\* lost (RunContainer, executeJob).
EndedRunIsStill ==
    ~overlapped /\ job = "done" =>
        \A t \in Tries : container[t] \notin {"created", "running"}

\* Every container is removed, even if its program hangs or its start is refused,
\* unless its own execution's call to remove, stop or wait for it failed (or its
\* create gave no answer) or its own agent died (RunContainer).
ContainersRemoved ==
    \A t \in Tries : Exists(t) ~> (container[t] = "gone" \/ t \in abandoned \/ pc[t] = "dead")

-----------------------------------------------------------------------------
(* What makes the types inductive: how many executions there can be. *)

\* Once the attempts reach the maximum, every further one is a retry granted to
\* an execution that began before, and there were at most MaxAttempts of those.
TriesBudget ==
    tries >= MaxAttempts =>
        tries + Cardinality(running \cap (1..MaxAttempts))
              + (IF job = "queued" THEN 1 ELSE 0) <= 2 * MaxAttempts

-----------------------------------------------------------------------------
(* What makes the last two invariants inductive, all of it for executions  *)
(* whose leases did not expire under them.                                 *)

\* One execution at a time, and the job is taken as long as it lasts.
Sequential == ~overlapped => \A t \in running : t = tries /\ job = "taken"

Holds(t) == pc[t] \in Calls \ {"begun"}

\* While an execution has come by a container, there is no other.
HolderAlone == ~overlapped => \A t, u \in Tries : Holds(t) /\ u # t => ~Exists(u)

\* One that has returned a verdict leaves nothing running.
VerdictIsStill ==
    ~overlapped => \A t, u \in Tries :
        pc[t] \in {"exit", "timeout"} => container[u] \notin {"created", "running"}

\* A container that exists and is not left by a failed call or a dead agent is held,
\* or has led to a verdict.
HeldOrJudged ==
    ~overlapped => \A t \in Tries :
        Exists(t) => \/ t \in abandoned \/ pc[t] = "dead"
                     \/ Holds(t) \/ pc[t] \in {"exit", "timeout"} \/ ExitUnsettled(t)
                     \/ job \in {"done", "forgotten"}

StillInv == Sequential /\ HolderAlone /\ VerdictIsStill /\ HeldOrJudged /\ EndedRunIsStill
=============================================================================
