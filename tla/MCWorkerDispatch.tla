-------------------------- MODULE MCWorkerDispatch --------------------------
(* Small instances of WorkerDispatch for TLC. *)
EXTENDS WorkerDispatch, TLC

CONSTANTS j1, j2, cloud

JobSymmetry == Permutations(Jobs)
=============================================================================
