----------------------------- MODULE MCAuditLog -----------------------------
(* Small instances of AuditLog for TLC. *)
EXTENDS AuditLog, TLC

CONSTANTS d1, d2, b1

EventSymmetry == Permutations(Durable)
=============================================================================
