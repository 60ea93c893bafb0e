---------------------------- MODULE MCJobManager ----------------------------
(* Small instances of JobManager for TLC. *)
EXTENDS JobManager

CONSTANTS j1, j2, r1, r2, k1
=============================================================================
