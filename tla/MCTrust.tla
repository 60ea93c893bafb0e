------------------------------ MODULE MCTrust ------------------------------
(* Small instances of Trust for TLC. *)
EXTENDS Trust, TLC

CONSTANTS route, package, r1, r2, main

RequestSymmetry == Permutations(Requests)
=============================================================================
