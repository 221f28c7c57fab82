------------------------------- MODULE Custody -------------------------------
(***************************************************************************)
(* One archive from its upload to its removal: who answers for its file at *)
(* each moment.  RunStorage implements it for each of its artifacts, with  *)
(* the garbage collector and crashes, and Manager for each of its uploads, *)
(* with the servers and their shutdown.                                    *)
(***************************************************************************)
VARIABLES
    file,   \* "none", "tmp" (being written) or "stored"
    row,    \* "none", "fresh", "consumed", "spent" (may be removed) or "deleted"
    held,   \* the file is its upload's
    ended   \* a process that was the manager has ended

vars == <<file, row, held, ended>>

Init == file = "none" /\ row = "none" /\ ~held /\ ~ended

-----------------------------------------------------------------------------
(* The upload *)

Receive ==
    /\ file = "none" /\ row = "none" /\ ~held
    /\ file' = "tmp" /\ held' = TRUE
    /\ UNCHANGED <<row, ended>>

Store ==
    /\ held /\ file = "tmp"
    /\ file' = "stored"
    /\ UNCHANGED <<row, held, ended>>

\* An upload that breaks off leaves nothing.
Abandon ==
    /\ held /\ file = "tmp"
    /\ file' = "none" /\ held' = FALSE
    /\ UNCHANGED <<row, ended>>

\* One that is refused leaves the file, to nobody.
Leave ==
    /\ held /\ file = "stored"
    /\ held' = FALSE
    /\ UNCHANGED <<file, row, ended>>

\* From now on the file is the row's.
Offer ==
    /\ held /\ file = "stored" /\ row = "none"
    /\ row' = "fresh" /\ held' = FALSE
    /\ UNCHANGED <<file, ended>>

-----------------------------------------------------------------------------
(* The row *)

\* A run is given the archive, which is there; several runs may be.
Use ==
    /\ row \in {"fresh", "consumed"} /\ file = "stored"
    /\ row' = "consumed"
    /\ UNCHANGED <<file, held, ended>>

Age ==
    /\ row = "consumed"
    /\ row' = "spent"
    /\ UNCHANGED <<file, held, ended>>

Remove ==
    /\ row = "spent"
    /\ file' = "none"
    /\ UNCHANGED <<row, held, ended>>

\* The file is removed first, or stays for ever.
Forget ==
    /\ row = "spent"
    /\ row' = "deleted"
    /\ UNCHANGED <<file, held, ended>>

-----------------------------------------------------------------------------
\* An upload under way is over, and its file stays as it is.
ProcessEnds ==
    /\ held' = FALSE /\ ended' = TRUE
    /\ UNCHANGED <<file, row>>

Next ==
    \/ Receive \/ Store \/ Abandon \/ Leave \/ Offer
    \/ Use \/ Age \/ Remove \/ Forget
    \/ ProcessEnds

Spec == Init /\ [][Next]_vars

-----------------------------------------------------------------------------
(* What it promises *)

\* Who answers for a file in each of its states: a temporary file is its
\* upload's, unless a process has ended; an archive that may be used is there,
\* and no longer its upload's.
Answered ==
    /\ file = "tmp" => row = "none" /\ (held \/ ended)
    /\ row \in {"fresh", "consumed"} => file = "stored"
    /\ held => row = "none" /\ file # "none"
=============================================================================
