----------------------------- MODULE MCJobQueue -----------------------------
(***************************************************************************)
(* Small instances of the job queue for TLC.                               *)
(***************************************************************************)
EXTENDS JobQueueProperties, TLC

CONSTANTS w1, w2, a1, a2

\* Both workers belong to one agent (QTIVA_AGENT_CONCURRENCY=2) ...
OneAgent == (w1 :> a1) @@ (w2 :> a1)
\* ... or to an agent each.
TwoAgents == (w1 :> a1) @@ (w2 :> a2)
\* QTIVA_AGENT_CONCURRENCY=1.
OneWorker == w1 :> a1

=============================================================================
