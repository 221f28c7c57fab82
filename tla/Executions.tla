----------------------------- MODULE Executions -----------------------------
(***************************************************************************)
(* The job of one run as its executions see it.  It is what RunContainer   *)
(* relies on: Containers runs on this queue, and JobQueue implements it    *)
(* for each of its runs.                                                   *)
(*                                                                         *)
(* Executions are numbered as they begin.  The answer of each changes the  *)
(* job, whatever others have made of it in the meantime.                   *)
(***************************************************************************)
EXTENDS Naturals

CONSTANTS MaxAttempts,  \* jobs.max_attempts
          Overlap       \* may a job be taken back from an execution that lives?

VARIABLES
    job,     \* "queued", "taken", "done", "failed" or "forgotten"
    tries,   \* executions begun
    running  \* the numbers of those that have still to answer

vars == <<job, tries, running>>

Init == job = "queued" /\ tries = 0 /\ running = {}

Take == job = "queued" /\ job' = "taken" /\ tries' = tries + 1

Begin == Take /\ running' = running \cup {tries + 1}

\* The job is handed out and nobody learns of it.
Forfeit == Take /\ UNCHANGED running

Answer(t, status) ==
    /\ t \in running
    /\ job' = status
    /\ running' = running \ {t}
    /\ UNCHANGED tries

\* What an error leads to goes by the number of its execution.
Complete(t) == Answer(t, "done")
Retry(t)    == t <= MaxAttempts /\ Answer(t, "queued")
GiveUp(t)   == t > MaxAttempts /\ Answer(t, "failed")

\* Executions end together and their answers never come.
Lose(lost) ==
    /\ lost \subseteq running
    /\ running' = running \ lost
    /\ UNCHANGED <<job, tries>>

\* The job is taken back, with attempts left.
Release ==
    /\ job = "taken" /\ tries < MaxAttempts
    /\ Overlap \/ running = {}
    /\ job' = "queued"
    /\ UNCHANGED <<tries, running>>

Forget ==
    /\ job \in {"done", "failed"} /\ running = {}
    /\ job' = "forgotten"
    /\ UNCHANGED <<tries, running>>

Next ==
    \/ Begin \/ Forfeit \/ Release \/ Forget
    \/ \E t \in running : Complete(t) \/ Retry(t) \/ GiveUp(t)
    \/ \E lost \in SUBSET running : Lose(lost)

Spec == Init /\ [][Next]_vars
=============================================================================
