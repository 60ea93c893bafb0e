---------------------------- MODULE MCSubmitDedup -----------------------------
(* Small instances of SubmitDedup for TLC. *)
EXTENDS SubmitDedup, TLC

CONSTANTS s1, s2, s3, p1, p2, k1, e1, i1, i2

Symmetry == Permutations(Submits) \cup Permutations(Intents)
=============================================================================
