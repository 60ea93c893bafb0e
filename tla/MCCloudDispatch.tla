---------------------------- MODULE MCCloudDispatch ----------------------------
(* A small instance of CloudDispatch for TLC. *)
EXTENDS CloudDispatch, FiniteSetsExt

CONSTANTS c1, c2, MaxSpans

Matches == {s \in Span : s.start < s.end /\ s.text = s.end}

UpTo == UNION {kSubset(n, Matches) : n \in 0..MaxSpans}
=============================================================================
