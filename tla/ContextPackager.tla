--------------------------- MODULE ContextPackager ---------------------------
(***************************************************************************)
(* ContextPackager.package: what of a prompt may leave for the cloud.  The *)
(* deny list's matches (spans) are merged, the text is rewritten from left *)
(* to right, and every rewriting is declared in the audit log before the   *)
(* caller gets the payload.                                                *)
(*                                                                         *)
(* A text is the positions of its characters; one action is one iteration  *)
(* of a loop or the code between two awaits.  The regular expressions and  *)
(* allowlists decide which spans are found: any set.  The replacement      *)
(* strings and the record on disk are left out: that a generalizer changes *)
(* what it is given is so for the patterns of config/sensitivity.json, and *)
(* not for every string (_generalize_date returns other forms unchanged).  *)
(***************************************************************************)
EXTENDS Integers

CONSTANTS
  Length,     \* of the text
  Scans       \* the sets of spans the scan may find

Positions == 0..(Length - 1)

Actions == {"strip", "generalize", "pass"}

\* DetectedSpan: [start, end), and the end of matched_text, which stays when
\* the span is extended.
Span == [start: Positions, end: 1..Length, text: 1..Length, action: Actions]

ASSUME PackagerAssumption ==
  /\ Length \in Nat
  /\ \A spans \in Scans :
       /\ spans \subseteq Span
       /\ \A s \in spans : s.start < s.end /\ s.text = s.end

VARIABLES
  step,       \* program point of package()
  found,      \* spans of _scan (kept for the properties)
  todo,       \* spans, of found or merged, the loop has still to look at
  merged,     \* spans of _merge_overlapping_spans; the last one may still grow
  copied,     \* positions of the text that are in the payload as they are
  general,    \* positions handed to a generalizer, whose answer is in the payload
  passed,     \* positions in the payload because their action is "pass"
  lastEnd,    \* where the rewriting has got to
  declared    \* spans with a context.strip_detail event in the log

packagerVars == <<step, found, todo, merged, copied, general, passed, lastEnd, declared>>

Steps == {"idle", "merge", "transform", "packaged", "details", "done"}

PackagerTypeOK ==
  /\ step \in Steps
  /\ found \subseteq Span
  /\ todo \subseteq Span
  /\ merged \subseteq Span
  /\ copied \subseteq Positions /\ general \subseteq Positions
  /\ passed \subseteq Positions
  /\ lastEnd \in 0..Length
  /\ declared \subseteq Span

PackagerInit ==
  /\ step = "idle" /\ found = {} /\ todo = {} /\ merged = {}
  /\ copied = {} /\ general = {} /\ passed = {}
  /\ lastEnd = 0 /\ declared = {}

\* ACTION_PRECEDENCE: the smaller, the more restrictive.
Precedence == [a \in Actions |-> CASE a = "strip" -> 0
                                   [] a = "generalize" -> 1
                                   [] a = "pass" -> 2]

Larger(m, n) == IF m > n THEN m ELSE n

\* The order of the sort, (start, precedence); a tie may be broken any way.
Before(s, t) ==
  \/ s.start < t.start
  \/ s.start = t.start /\ Precedence[s.action] <= Precedence[t.action]

First(s, spans) == s \in spans /\ \A t \in spans : Before(s, t)

\* merged[-1]
Last(m) == m \in merged /\ \A n \in merged : n.start <= m.start

-----------------------------------------------------------------------------

Scan ==
  /\ step = "idle"
  /\ \E spans \in Scans : found' = spans /\ todo' = spans
  /\ step' = "merge"
  /\ UNCHANGED <<merged, copied, general, passed, lastEnd, declared>>

\* Mutant: the first action is kept.
Grown(prev, span) ==
  [prev EXCEPT !.end = Larger(prev.end, span.end)]

\* Mutant: prev grows by the length of span.
GrownBeyond(prev, span) ==
  [prev EXCEPT !.end = prev.end + (span.end - span.start)]

\* prev, extended to the end of span, with the more restrictive action.
Extended(prev, span) ==
  [prev EXCEPT
     !.end = Larger(prev.end, span.end),
     !.action = IF Precedence[span.action] < Precedence[prev.action]
                THEN span.action ELSE prev.action]

Overlaps(prev, span) == span.start < prev.end

AddSpan ==
  /\ step = "merge"
  /\ \E span \in todo :
       /\ First(span, todo)
       /\ \A prev \in merged : Last(prev) => ~Overlaps(prev, span)
       /\ merged' = merged \cup {span}
       /\ todo' = todo \ {span}
  /\ UNCHANGED <<step, found, copied, general, passed, lastEnd, declared>>

ExtendSpan ==
  /\ step = "merge"
  /\ \E span \in todo, prev \in merged :
       /\ First(span, todo) /\ Last(prev) /\ Overlaps(prev, span)
       /\ merged' = (merged \ {prev}) \cup {Extended(prev, span)}
       /\ todo' = todo \ {span}
  /\ UNCHANGED <<step, found, copied, general, passed, lastEnd, declared>>

Merged ==
  /\ step = "merge" /\ todo = {}
  /\ step' = "transform"
  /\ todo' = merged
  /\ UNCHANGED <<found, merged, copied, general, passed, lastEnd, declared>>

\* _apply_transform: matched_text is that of the first span merged.
Shown(span, action) == IF span.action = action THEN span.start..(span.text - 1) ELSE {}

Transform ==
  /\ step = "transform"
  /\ \E span \in todo :
       /\ First(span, todo)
       /\ copied' = copied \cup lastEnd..(span.start - 1)
       /\ general' = general \cup Shown(span, "generalize")
       /\ passed' = passed \cup Shown(span, "pass")
       /\ lastEnd' = span.end
       /\ todo' = todo \ {span}
  /\ UNCHANGED <<step, found, merged, declared>>

\* The rest of the text; the context object is written to disk.
Assemble ==
  /\ step = "transform" /\ todo = {}
  /\ copied' = copied \cup lastEnd..(Length - 1)
  /\ lastEnd' = Length
  /\ step' = "packaged"
  /\ UNCHANGED <<found, todo, merged, general, passed, declared>>

\* context.packaged emitted.
Packaged ==
  /\ step = "packaged"
  /\ step' = "details"
  /\ todo' = merged
  /\ UNCHANGED <<found, merged, copied, general, passed, lastEnd, declared>>

\* Mutant: the loop over the details stops at the first one.
StopsEarly(left) == TRUE

AllDeclared(left) == left = {}

\* context.strip_detail emitted.
Detail ==
  /\ step = "details" /\ todo # {}
  /\ \E span \in todo :
       /\ First(span, todo)
       /\ declared' = declared \cup {span}
       /\ todo' = todo \ {span}
  /\ UNCHANGED <<step, found, merged, copied, general, passed, lastEnd>>

Return ==
  /\ step = "details" /\ AllDeclared(todo)
  /\ step' = "done"
  /\ UNCHANGED <<found, todo, merged, copied, general, passed, lastEnd, declared>>

Package ==
  \/ Scan \/ AddSpan \/ ExtendSpan \/ Merged \/ Transform \/ Assemble
  \/ Packaged \/ Detail \/ Return

\* The caller goes on to another job, or the call has raised.
Forget ==
  /\ step' = "idle" /\ found' = {} /\ todo' = {} /\ merged' = {}
  /\ copied' = {} /\ general' = {} /\ passed' = {}
  /\ lastEnd' = 0 /\ declared' = {}

-----------------------------------------------------------------------------
(* What the payload is compared with.                                      *)

Covered(spans) == UNION {s.start..(s.end - 1) : s \in spans}

WithAction(action) == {s \in found : s.action = action}

\* Nothing that a strip span matched is left, in whatever form, and nothing
\* that a generalize span matched is left as it was; every character outside
\* the spans is there.
Filtered ==
  /\ Covered(WithAction("strip")) \cap (copied \cup general \cup passed) = {}
  /\ Covered(WithAction("generalize")) \cap (copied \cup passed) = {}
  /\ copied = Positions \ Covered(found)

\* Every match lies in a declared span, of an action at least as restrictive.
FullyDeclared ==
  \A s \in found : \E d \in declared :
    /\ d.start <= s.start /\ s.end <= d.end
    /\ Precedence[d.action] <= Precedence[s.action]
=============================================================================
