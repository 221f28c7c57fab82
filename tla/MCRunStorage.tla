---------------------------- MODULE MCRunStorage ----------------------------
(***************************************************************************)
(* Small instances of the manager's storage for TLC: two runs that may be  *)
(* given the same archive, and one download.                               *)
(***************************************************************************)
EXTENDS RunStorageProperties

CONSTANTS a1, r1, r2, d1

OneArchive  == {a1}
TwoRuns     == {r1, r2}
OneDownload == {d1}
=============================================================================
