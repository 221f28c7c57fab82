---------------------------- MODULE MCContainers ----------------------------
(***************************************************************************)
(* The containers of a run for TLC.  The configuration takes MaxAttempts   *)
(* = 2, so there are up to four executions, some of which overlap when     *)
(* leases expire under them.                                               *)
(***************************************************************************)
EXTENDS ContainersProperties
=============================================================================
