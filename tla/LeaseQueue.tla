----------------------------- MODULE LeaseQueue -----------------------------
(***************************************************************************)
(* What the job queue promises, without rows, leases and statements: a     *)
(* job is executed by one worker at a time, comes back to the queue a      *)
(* bounded number of times, and is settled once.                           *)
(***************************************************************************)
EXTENDS Naturals

CONSTANTS Jobs, Workers, MaxTries,
          Nobody  \* not a worker

VARIABLES
    state,  \* "absent", "waiting", "held", "done", "failed" or "forgotten"
    owner,  \* the worker that executes a held job, Nobody when it was lost
    tries   \* executions begun

vars == <<state, owner, tries>>

Init ==
    /\ state = [j \in Jobs |-> "absent"]
    /\ owner = [j \in Jobs |-> Nobody]
    /\ tries = [j \in Jobs |-> 0]

OwnedBy(j, w) == state[j] = "held" /\ owner[j] = w

\* The owner, and nobody else, decides what becomes of a held job.
Settle(j, w, s) ==
    /\ OwnedBy(j, w)
    /\ state' = [state EXCEPT ![j] = s]
    /\ owner' = [owner EXCEPT ![j] = Nobody]
    /\ UNCHANGED tries

Enqueue(j) ==
    /\ state[j] = "absent"
    /\ state' = [state EXCEPT ![j] = "waiting"]
    /\ UNCHANGED <<owner, tries>>

\* o = Nobody: the job is handed out and the worker never learns of it.
Grant(j, o) ==
    /\ state[j] = "waiting"
    /\ state' = [state EXCEPT ![j] = "held"]
    /\ owner' = [owner EXCEPT ![j] = o]
    /\ tries' = [tries EXCEPT ![j] = @ + 1]

Complete(j, w) == Settle(j, w, "done")
Return(j, w)   == tries[j] <= MaxTries /\ Settle(j, w, "waiting")
GiveUp(j, w)   == tries[j] > MaxTries /\ Settle(j, w, "failed")

\* Workers that vanish lose their jobs, all at once.
Abandon(lost) ==
    /\ \A j \in lost : state[j] = "held"
    /\ owner' = [j \in Jobs |-> IF j \in lost THEN Nobody ELSE owner[j]]
    /\ UNCHANGED <<state, tries>>

\* Only lost jobs are taken back, and only those with tries left.
Reclaim(found) ==
    /\ \A j \in found : OwnedBy(j, Nobody) /\ tries[j] < MaxTries
    /\ state' = [j \in Jobs |-> IF j \in found THEN "waiting" ELSE state[j]]
    /\ UNCHANGED <<owner, tries>>

Forget(old) ==
    /\ \A j \in old : state[j] \in {"done", "failed"}
    /\ state' = [j \in Jobs |-> IF j \in old THEN "forgotten" ELSE state[j]]
    /\ UNCHANGED <<owner, tries>>

Next ==
    \/ \E j \in Jobs :
         \/ Enqueue(j)
         \/ \E o \in Workers \cup {Nobody} : Grant(j, o)
         \/ \E w \in Workers : Complete(j, w) \/ Return(j, w) \/ GiveUp(j, w)
    \/ \E s \in SUBSET Jobs : Abandon(s) \/ Reclaim(s) \/ Forget(s)

Spec == Init /\ [][Next]_vars
=============================================================================
