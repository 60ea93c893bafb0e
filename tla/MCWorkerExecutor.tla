--------------------------- MODULE MCWorkerExecutor ---------------------------
(* A small instance of WorkerExecutor for TLC. *)
EXTENDS WorkerExecutor

CONSTANTS a1, a2
=============================================================================
