-------------------------- MODULE CloudDispatchProofs --------------------------
(***************************************************************************)
(* What reaches a provider is filtered and declared, the provider is not   *)
(* asked more often than the route allows, and a success is an answer:     *)
(* for every length of text, every set of matches, every number of calls,  *)
(* every rate, and any number of crashes, restarts and failures.           *)
(***************************************************************************)
EXTENDS CloudDispatch, FiniteSetTheorems, TLAPS

-----------------------------------------------------------------------------
(* The invariant.                                                          *)

Inside(s, m) ==
  /\ m.start <= s.start /\ s.end <= m.end
  /\ Precedence[m.action] <= Precedence[s.action]

\* Merged spans are proper, apart from each other, and made of matches only.
Apart ==
  /\ \A s \in found : s.start < s.end /\ s.text = s.end
  /\ \A m \in merged : m.start < m.end /\ m.text <= m.end
  /\ \A m, n \in merged : m = n \/ m.end <= n.start \/ n.end <= m.start
  /\ \A m \in merged : \A p \in m.start..(m.end - 1) :
       \E s \in found : s.start <= p /\ p < s.end

\* While merging: the matches done are inside merged spans, the others are to
\* the right of them.
Merging ==
  /\ todo \subseteq found
  /\ \A s \in found \ todo : \E m \in merged : Inside(s, m)
  /\ merged = {} \/ \E m \in merged : Last(m)
  /\ \A m \in merged, t \in todo : m.start <= t.start

Absorbed == \A s \in found : \E m \in merged : Inside(s, m)

\* While rewriting: the text up to lastEnd is done.
Rewriting ==
  /\ todo \subseteq merged
  /\ \A t \in todo : lastEnd <= t.start
  /\ \A m \in merged \ todo : m.end <= lastEnd

Written ==
  /\ copied = {p \in Positions : p < lastEnd /\ \A m \in merged : ~(m.start <= p /\ p < m.end)}
  /\ \A p \in general : \E m \in merged :
       m.action = "generalize" /\ m.start <= p /\ p < m.end
  /\ \A p \in passed : \E m \in merged : m.action = "pass" /\ m.start <= p /\ p < m.end

PackagerInv ==
  /\ step = "idle" =>
       /\ found = {} /\ todo = {} /\ merged = {} /\ lastEnd = 0
       /\ copied = {} /\ general = {} /\ passed = {} /\ declared = {}
  /\ step = "merge" =>
       Merging /\ lastEnd = 0 /\ copied = {} /\ general = {} /\ passed = {} /\ declared = {}
  /\ step \notin {"idle", "merge"} => Absorbed /\ Written
  /\ step = "transform" => Rewriting /\ declared = {}
  /\ step \in {"packaged", "details", "done"} => lastEnd = Length
  /\ step = "details" => todo \subseteq merged /\ merged \ todo \subseteq declared
  /\ step = "done" => merged \subseteq declared
  /\ Apart

\* The packager runs within a call only, and has returned before the dispatch.
CallerInv ==
  /\ pc \in {"idle", "posted"} => step = "idle"
  /\ pc = "package" => step # "done"
  /\ pc = "dispatch" => step = "done"
  /\ pc = "idle" <=> current = NoCall
  /\ \A c \in Calls : outcome[c] = "running" <=> c = current

\* The replies tell whether the token was right.
ReplyInv ==
  \A c \in Calls :
    /\ reply[c] # "none" => handler[c] = "done"
    /\ handler[c] = "calling" => token
    /\ reply[c] \in {"blocked", "error", "broken", "ok"} => token
    /\ reply[c] = "refused" => ~token

\* The limiter knows of every recent request to the provider.
WindowInv ==
  /\ \A c \in spent : age[c] < Window => c \in window
  /\ Cardinality(Pruned) <= Rpm

Inv == TypeOK /\ PackagerInv /\ CallerInv /\ ReplyInv /\ SuccessIsAnswered /\ WindowInv

-----------------------------------------------------------------------------
(* Type correctness.                                                       *)

\* The three actions in the order of _ACTION_PRECEDENCE.
LEMMA PrecedenceValues ==
  /\ Precedence["strip"] = 0 /\ Precedence["generalize"] = 1 /\ Precedence["pass"] = 2
BY DEF Precedence, Actions

\* What the last span becomes when a match is merged into it.
LEMMA ExtendedType ==
  ASSUME NEW prev \in Span, NEW span \in Span
  PROVE  /\ Extended(prev, span) \in Span
         /\ Extended(prev, span).start = prev.start
         /\ Extended(prev, span).text = prev.text
         /\ Extended(prev, span).end = Larger(prev.end, span.end)
         /\ Extended(prev, span).action \in {prev.action, span.action}
         /\ Precedence[Extended(prev, span).action] <= Precedence[prev.action]
         /\ Precedence[Extended(prev, span).action] <= Precedence[span.action]
<1>1. Length \in Nat
  BY PackagerAssumption DEF PackagerAssumption
<1>2. Larger(prev.end, span.end) \in 1..Length
  BY <1>1 DEF Larger, Span
<1>3. \A x \in Actions : Precedence[x] \in 0..2
  BY PrecedenceValues DEF Actions
<1> DEFINE act == IF Precedence[span.action] < Precedence[prev.action]
                  THEN span.action ELSE prev.action
           e == [prev EXCEPT !.end = Larger(prev.end, span.end), !.action = act]
<1>4. Extended(prev, span) = e
  BY DEF Extended
<1>5. /\ act \in {prev.action, span.action} /\ act \in Actions
      /\ Precedence[act] <= Precedence[prev.action]
      /\ Precedence[act] <= Precedence[span.action]
  BY <1>3 DEF Span
<1> HIDE DEF act
<1>6. /\ e \in Span
      /\ e.start = prev.start /\ e.text = prev.text
      /\ e.end = Larger(prev.end, span.end) /\ e.action = act
  BY <1>2, <1>5 DEF Span
<1> HIDE DEF e
<1>7. QED
  BY <1>4, <1>5, <1>6

\* Every step of package() keeps the type.
LEMMA PackagerType ==
  ASSUME PackagerTypeOK, Package PROVE PackagerTypeOK'
<1> USE PackagerAssumption DEF PackagerAssumption, PackagerTypeOK, Steps
<1>1. CASE Scan
  BY <1>1 DEF Scan
<1>2. CASE AddSpan
  BY <1>2 DEF AddSpan
<1>3. CASE ExtendSpan
  BY <1>3, ExtendedType DEF ExtendSpan
<1>4. CASE Merged \/ Packaged \/ Return
  BY <1>4 DEF Merged, Packaged, Return
<1>5. CASE Transform
  <2>1. PICK span \in todo :
          /\ copied' = copied \cup lastEnd..(span.start - 1)
          /\ general' = general \cup Shown(span, "generalize")
          /\ passed' = passed \cup Shown(span, "pass")
          /\ lastEnd' = span.end
          /\ todo' = todo \ {span}
    BY <1>5 DEF Transform
  <2>2. span.start \in Positions /\ span.end \in 1..Length /\ span.text \in 1..Length
    BY <2>1 DEF Span
  <2>3. /\ lastEnd..(span.start - 1) \subseteq Positions
        /\ span.start..(span.text - 1) \subseteq Positions
    BY <2>2 DEF Positions
  <2>4. QED
    BY <1>5, <2>1, <2>2, <2>3 DEF Transform, Shown
<1>6. CASE Assemble
  BY <1>6 DEF Assemble, Positions
<1>7. CASE Detail
  BY <1>7 DEF Detail
<1> QED
  BY <1>1, <1>2, <1>3, <1>4, <1>5, <1>6, <1>7 DEF Package

\* A death of the orchestrator keeps the type.
LEMMA ForgetType == Forget => PackagerTypeOK'
BY PackagerAssumption DEF PackagerAssumption, Forget, PackagerTypeOK, Steps

-----------------------------------------------------------------------------
(* Merging.                                                                *)

\* The fields of a match lie within the text.
LEMMA SpanValues ==
  ASSUME NEW s \in Span
  PROVE  /\ s.start \in Nat /\ s.end \in Nat /\ s.text \in Nat
         /\ s.start < Length /\ s.end <= Length
         /\ s.action \in Actions /\ Precedence[s.action] \in Nat
<1>1. \A x \in Actions : Precedence[x] \in Nat
  BY PrecedenceValues DEF Actions
<1>2. QED
  BY <1>1, PackagerAssumption DEF Span, Positions, PackagerAssumption

\* A match that starts a span of its own.
LEMMA AddKeeps ==
  ASSUME PackagerTypeOK, Apart, Merging, AddSpan
  PROVE  Apart' /\ Merging'
<1>1. PICK span \in todo :
        /\ First(span, todo)
        /\ \A prev \in merged : Last(prev) => ~Overlaps(prev, span)
        /\ merged' = merged \cup {span}
        /\ todo' = todo \ {span}
  BY DEF AddSpan
<1>2. span \in found /\ found' = found
  BY <1>1 DEF Merging, AddSpan
<1>3. /\ found \subseteq Span /\ merged \subseteq Span /\ todo \subseteq Span
      /\ \A s \in Span : s.start \in Nat /\ s.end \in Nat /\ Precedence[s.action] \in Nat
  BY SpanValues DEF PackagerTypeOK
<1>4. ASSUME NEW m \in merged PROVE m.end <= span.start
  <2>1. PICK last \in merged : Last(last)
    BY DEF Merging
  <2>2. last.end <= span.start
    BY <1>1, <1>3, <2>1 DEF Overlaps
  <2>3. m = last \/ m.end <= last.start
    BY <1>3, <2>1 DEF Apart, Last
  <2>4. QED
    BY <1>3, <2>1, <2>2, <2>3 DEF Apart
<1>5. Apart'
  BY <1>1, <1>2, <1>3, <1>4 DEF Apart
<1>6. \A t \in todo : span.start <= t.start
  BY <1>1, <1>3 DEF First, Before
<1>7. Last(span)'
  BY <1>1, <1>2, <1>3 DEF Last, Merging
<1>8. Inside(span, span)
  BY <1>2, <1>3 DEF Inside
<1>9. Merging'
  <2>1. \A s \in found' \ todo' : \E m \in merged' : Inside(s, m)
    BY <1>1, <1>2, <1>8 DEF Merging
  <2>2. QED
    BY <1>1, <1>2, <1>6, <1>7, <2>1 DEF Merging
<1>10. QED
  BY <1>5, <1>9

\* A match that makes the last span longer.
LEMMA ExtendKeeps ==
  ASSUME PackagerTypeOK, Apart, Merging, ExtendSpan
  PROVE  Apart' /\ Merging'
<1>1. PICK span \in todo, prev \in merged :
        /\ First(span, todo) /\ Last(prev) /\ Overlaps(prev, span)
        /\ merged' = (merged \ {prev}) \cup {Extended(prev, span)}
        /\ todo' = todo \ {span}
  BY DEF ExtendSpan
<1> DEFINE e == Extended(prev, span)
<1>2. span \in found /\ found' = found /\ prev.start <= span.start
  BY <1>1 DEF Merging, ExtendSpan
<1>3. /\ found \subseteq Span /\ merged \subseteq Span /\ todo \subseteq Span
      /\ \A s \in Span :
           s.start \in Nat /\ s.end \in Nat /\ s.text \in Nat /\ Precedence[s.action] \in Nat
  BY SpanValues DEF PackagerTypeOK
<1>4. /\ e \in Span /\ e.start = prev.start /\ e.text = prev.text
      /\ prev.end <= e.end /\ span.end <= e.end
      /\ e.end = prev.end \/ e.end = span.end
      /\ Precedence[e.action] <= Precedence[prev.action]
      /\ Precedence[e.action] <= Precedence[span.action]
  BY <1>1, <1>2, <1>3, ExtendedType DEF Larger
<1> HIDE DEF e
<1>5. merged' = (merged \ {prev}) \cup {e}
  BY <1>1 DEF e
<1>6. ASSUME NEW m \in merged, m # prev PROVE m.end <= prev.start
  BY <1>1, <1>3, <1>6 DEF Apart, Last
<1>7. \A p \in e.start..(e.end - 1) : \E s \in found : s.start <= p /\ p < s.end
  <2> SUFFICES ASSUME NEW p \in e.start..(e.end - 1)
               PROVE  \E s \in found : s.start <= p /\ p < s.end
    OBVIOUS
  <2>1. CASE p < prev.end
    BY <1>1, <1>3, <1>4, <2>1 DEF Apart
  <2>2. CASE prev.end <= p
    BY <1>1, <1>2, <1>3, <1>4, <2>2 DEF Overlaps
  <2>3. QED
    BY <1>1, <1>3, <1>4, <2>1, <2>2
<1>8. Apart'
  <2>1. e.start < e.end /\ e.text <= e.end
    BY <1>1, <1>3, <1>4 DEF Apart
  <2>2. QED
    BY <1>2, <1>3, <1>4, <1>5, <1>6, <1>7, <2>1 DEF Apart
<1>9. Last(e)'
  BY <1>1, <1>4, <1>5, <1>3 DEF Last
<1>10. Inside(span, e) /\ \A s \in found : Inside(s, prev) => Inside(s, e)
  BY <1>1, <1>2, <1>3, <1>4 DEF Inside
<1>11. \A s \in found' \ todo' : \E m \in merged' : Inside(s, m)
  BY <1>1, <1>2, <1>5, <1>10 DEF Merging
<1>12. Merging'
  BY <1>1, <1>2, <1>4, <1>5, <1>9, <1>11 DEF Merging
<1>13. QED
  BY <1>8, <1>12

-----------------------------------------------------------------------------
(* Rewriting.                                                              *)

\* One span is replaced.
LEMMA TransformKeeps ==
  ASSUME PackagerTypeOK, Apart, Rewriting, Written, Transform
  PROVE  Rewriting' /\ Written'
<1>1. PICK span \in todo :
        /\ First(span, todo)
        /\ copied' = copied \cup lastEnd..(span.start - 1)
        /\ general' = general \cup Shown(span, "generalize")
        /\ passed' = passed \cup Shown(span, "pass")
        /\ lastEnd' = span.end
        /\ todo' = todo \ {span}
  BY DEF Transform
<1>2. span \in merged /\ merged' = merged
  BY <1>1 DEF Rewriting, Transform
<1>3. /\ merged \subseteq Span /\ todo \subseteq Span
      /\ \A s \in Span :
           s.start \in Nat /\ s.end \in Nat /\ s.text \in Nat /\ s.start < Length /\ s.end <= Length
      /\ lastEnd \in Nat /\ Length \in Nat
  BY SpanValues, PackagerAssumption DEF PackagerTypeOK, PackagerAssumption
<1>4. \A t \in todo : span.start <= t.start
  BY <1>1, <1>3 DEF First, Before
<1>5. lastEnd <= span.start /\ span.start < span.end /\ span.text <= span.end
  BY <1>1, <1>2 DEF Rewriting, Apart
<1>6. ASSUME NEW t \in todo, t # span PROVE span.end <= t.start
  BY <1>2, <1>3, <1>4, <1>5, <1>6 DEF Apart, Rewriting
<1>7. Rewriting'
  BY <1>1, <1>2, <1>3, <1>5, <1>6 DEF Rewriting
<1>8. ASSUME NEW m \in merged, NEW p \in lastEnd..(span.start - 1)
      PROVE  ~(m.start <= p /\ p < m.end)
  BY <1>3, <1>4, <1>5, <1>8 DEF Rewriting
<1>9. copied' = {p \in Positions : p < lastEnd' /\ \A m \in merged' : ~(m.start <= p /\ p < m.end)}
  <2>1. ASSUME NEW p \in copied'
        PROVE  p \in Positions /\ p < lastEnd' /\ \A m \in merged' : ~(m.start <= p /\ p < m.end)
    BY <1>1, <1>2, <1>3, <1>5, <1>8 DEF Written, Positions
  <2>2. ASSUME NEW p \in Positions, p < span.end,
               \A m \in merged : ~(m.start <= p /\ p < m.end)
        PROVE  p \in copied'
    BY <1>1, <1>2, <1>3, <1>5, <2>2 DEF Written, Positions
  <2>3. QED
    BY <1>1, <1>2, <2>1, <2>2
<1>10. /\ \A p \in Shown(span, "generalize") :
            span.action = "generalize" /\ span.start <= p /\ p < span.end
       /\ \A p \in Shown(span, "pass") : span.action = "pass" /\ span.start <= p /\ p < span.end
  BY <1>2, <1>3, <1>5 DEF Shown
<1>11. Written'
  BY <1>1, <1>2, <1>9, <1>10 DEF Written
<1>12. QED
  BY <1>7, <1>11

\* The rest of the text.
LEMMA AssembleKeeps ==
  ASSUME PackagerTypeOK, Rewriting, Written, Assemble
  PROVE  Written'
<1>1. /\ \A m \in merged : m.end <= lastEnd
      /\ copied' = copied \cup lastEnd..(Length - 1)
      /\ UNCHANGED <<merged, general, passed>> /\ lastEnd' = Length
  BY DEF Rewriting, Assemble
<1>2. /\ \A m \in merged : m.start \in Nat /\ m.end \in Nat
      /\ lastEnd \in Nat /\ Length \in Nat
  BY SpanValues, PackagerAssumption DEF PackagerTypeOK, PackagerAssumption
<1>3. QED
  BY <1>1, <1>2 DEF Written, Positions

\* The packager's invariant.
LEMMA PackageKeeps ==
  ASSUME PackagerTypeOK, PackagerInv, Package
  PROVE  PackagerInv'
<1> USE DEF PackagerInv
<1>1. CASE Scan
  <2>1. PICK spans \in Scans : found' = spans /\ todo' = spans
    BY <1>1 DEF Scan
  <2>2. \A s \in spans : s.start < s.end /\ s.text = s.end
    BY PackagerAssumption DEF PackagerAssumption
  <2>3. QED
    BY <1>1, <2>1, <2>2 DEF Scan, Merging, Apart
<1>2. CASE AddSpan
  <2>1. Apart' /\ Merging'
    BY <1>2, AddKeeps DEF AddSpan
  <2>2. QED
    BY <1>2, <2>1 DEF AddSpan
<1>3. CASE ExtendSpan
  <2>1. Apart' /\ Merging'
    BY <1>3, ExtendKeeps DEF ExtendSpan
  <2>2. QED
    BY <1>3, <2>1 DEF ExtendSpan
<1>4. CASE Merged
  <2>1. Absorbed' /\ Apart'
    BY <1>4 DEF Merged, Merging, Absorbed, Apart
  <2>2. \A m \in merged : m.start \in Nat
    BY SpanValues DEF PackagerTypeOK
  <2>3. Rewriting'
    BY <1>4, <2>2 DEF Merged, Rewriting
  <2>4. Written'
    BY <1>4 DEF Merged, Written, Positions
  <2>5. QED
    BY <1>4, <2>1, <2>3, <2>4 DEF Merged
<1>5. CASE Transform
  <2>1. Rewriting' /\ Written'
    BY <1>5, TransformKeeps DEF Transform
  <2>2. Absorbed' /\ Apart'
    BY <1>5 DEF Transform, Absorbed, Apart
  <2>3. QED
    BY <1>5, <2>1, <2>2 DEF Transform
<1>6. CASE Assemble
  <2>1. Written'
    BY <1>6, AssembleKeeps DEF Assemble
  <2>2. Absorbed' /\ Apart'
    BY <1>6 DEF Assemble, Absorbed, Apart
  <2>3. QED
    BY <1>6, <2>1, <2>2 DEF Assemble
<1>7. CASE Packaged \/ Detail \/ Return
  <2>1. Written' /\ Absorbed' /\ Apart'
    BY <1>7 DEF Packaged, Detail, Return, Written, Absorbed, Apart
  <2>2. QED
    BY <1>7, <2>1 DEF Packaged, Detail, Return, AllDeclared
<1> QED
  BY <1>1, <1>2, <1>3, <1>4, <1>5, <1>6, <1>7 DEF Package

\* A death leaves nothing of a half-packaged text.
LEMMA ForgetKeeps == Forget => PackagerInv'
BY DEF Forget, PackagerInv, Apart

\* What the packager returns is what the properties ask for.
LEMMA Faithful ==
  ASSUME PackagerTypeOK, PackagerInv, step = "done"
  PROVE  Filtered /\ FullyDeclared
<1>1. Absorbed /\ Written /\ Apart /\ lastEnd = Length /\ merged \subseteq declared
  BY DEF PackagerInv
<1>2. /\ found \subseteq Span /\ merged \subseteq Span /\ Length \in Nat
      /\ \A s \in Span :
           /\ s.start \in Nat /\ s.end \in Nat /\ s.start < Length /\ s.end <= Length
           /\ s.action \in Actions
  BY SpanValues, PackagerAssumption DEF PackagerTypeOK, PackagerAssumption
<1>3. FullyDeclared
  BY <1>1 DEF FullyDeclared, Absorbed, Inside
<1>4. ASSUME NEW p \in Positions, NEW m \in merged, NEW n \in merged,
             m.start <= p /\ p < m.end, n.start <= p /\ p < n.end
      PROVE  m = n
  BY <1>1, <1>2, <1>4 DEF Apart, Positions
<1>5. ASSUME NEW p \in Positions, NEW s \in found, s.start <= p /\ p < s.end
      PROVE  \E m \in merged : /\ m.start <= p /\ p < m.end
                               /\ Precedence[m.action] <= Precedence[s.action]
  BY <1>1, <1>2, <1>5 DEF Absorbed, Inside, Positions
<1>6. ASSUME NEW s \in found, NEW p \in s.start..(s.end - 1)
      PROVE  p \in Positions /\ s.start <= p /\ p < s.end
  BY <1>2 DEF Positions
<1>7. copied \cap Covered(found) = {}
  BY <1>1, <1>5, <1>6 DEF Written, Covered
<1>8. ASSUME NEW p \in Positions, p \notin copied PROVE p \in Covered(found)
  <2>1. PICK m \in merged : m.start <= p /\ p < m.end
    BY <1>1, <1>2, <1>8 DEF Written, Positions
  <2>2. p \in m.start..(m.end - 1)
    BY <1>2, <2>1 DEF Positions
  <2>3. PICK s \in found : s.start <= p /\ p < s.end
    BY <1>1, <2>2 DEF Apart
  <2>4. p \in s.start..(s.end - 1)
    BY <1>2, <2>3 DEF Positions
  <2>5. QED
    BY <2>4 DEF Covered
<1>9. copied = Positions \ Covered(found)
  BY <1>7, <1>8 DEF PackagerTypeOK
<1>10. \A s \in found : s.start..(s.end - 1) \subseteq Covered(found)
  BY DEF Covered
<1>11. ASSUME NEW s \in found, NEW p \in s.start..(s.end - 1)
       PROVE  /\ p \notin copied
              /\ s.action \in {"strip", "generalize"} => p \notin passed
              /\ s.action = "strip" => p \notin general
  <2>1. p \in Positions /\ s.start <= p /\ p < s.end
    BY <1>6
  <2>2. PICK m \in merged : /\ m.start <= p /\ p < m.end
                            /\ Precedence[m.action] <= Precedence[s.action]
    BY <1>5, <2>1
  <2>3. p \in general => m.action = "generalize"
    BY <1>1, <1>4, <2>1, <2>2 DEF Written
  <2>4. p \in passed => m.action = "pass"
    BY <1>1, <1>4, <2>1, <2>2 DEF Written
  <2>5. p \notin copied
    BY <1>7, <1>10
  <2>6. QED
    BY <2>2, <2>3, <2>4, <2>5, PrecedenceValues
<1>12. Filtered
  BY <1>9, <1>11 DEF Filtered, Covered, WithAction
<1>13. QED
  BY <1>3, <1>12

-----------------------------------------------------------------------------
(* The gateway.                                                            *)

\* The limiter's list, pruned to the window, is finite.
LEMMA PrunedFinite ==
  ASSUME GatewayTypeOK
  PROVE  IsFiniteSet(Pruned) /\ Cardinality(Pruned) \in Nat
<1>1. Pruned \subseteq Calls /\ IsFiniteSet(Calls)
  BY GatewayAssumption DEF Pruned, GatewayTypeOK, GatewayAssumption
<1>2. QED
  BY <1>1, FS_Subset, FS_CardinalityType

\* A window that does not get younger calls gets no more of them.
LEMMA WindowShrinks ==
  ASSUME GatewayTypeOK, WindowInv, Pruned' \subseteq Pruned
  PROVE  Cardinality(Pruned') <= Rpm
<1>1. Cardinality(Pruned') <= Cardinality(Pruned) /\ Cardinality(Pruned') \in Nat
  BY PrunedFinite, FS_Subset, FS_CardinalityType
<1>2. QED
  BY <1>1, PrunedFinite, GatewayAssumption DEF WindowInv, GatewayAssumption

\* An admitted call is stamped before the provider is called.
LEMMA StampKeeps ==
  ASSUME GatewayTypeOK, WindowInv, Allowed, NEW c \in Calls, Stamp(c),
         spent' \subseteq spent \cup {c}
  PROVE  WindowInv'
<1>1. Pruned' \subseteq Pruned \cup {c}
  BY DEF Stamp, Pruned, Recent, GatewayTypeOK
<1>2. /\ IsFiniteSet(Pruned \cup {c})
      /\ Cardinality(Pruned \cup {c}) <= Cardinality(Pruned) + 1
      /\ Cardinality(Pruned \cup {c}) \in Nat
  <2>1. IsFiniteSet(Pruned) /\ Cardinality(Pruned) \in Nat
    BY PrunedFinite
  <2>2. /\ IsFiniteSet(Pruned \cup {c})
        /\ \/ Cardinality(Pruned \cup {c}) = Cardinality(Pruned)
           \/ Cardinality(Pruned \cup {c}) = Cardinality(Pruned) + 1
    BY <2>1, FS_AddElement
  <2>3. QED
    BY <2>1, <2>2
<1>3. Cardinality(Pruned') <= Cardinality(Pruned \cup {c}) /\ Cardinality(Pruned') \in Nat
  BY <1>1, <1>2, FS_Subset, FS_CardinalityType
<1>4. Cardinality(Pruned) < Rpm
  BY DEF Allowed, Below
<1>5. Cardinality(Pruned') <= Rpm
  BY <1>2, <1>3, <1>4, PrunedFinite, GatewayAssumption DEF GatewayAssumption
<1>6. \A b \in spent' : age'[b] < Window => b \in window'
  BY DEF Stamp, Pruned, Recent, WindowInv, GatewayTypeOK
<1>7. QED
  BY <1>5, <1>6 DEF WindowInv

\* A request is refused, blocked or on its way to the provider.
LEMMA DispatchKeeps ==
  ASSUME GatewayTypeOK, ReplyInv, WindowInv, NEW c \in Calls, Dispatch(c)
  PROVE  /\ GatewayTypeOK' /\ ReplyInv' /\ WindowInv'
         /\ UNCHANGED token
         /\ \A b \in Calls \ {c} : reply'[b] = reply[b]
<1> USE GatewayAssumption DEF GatewayAssumption, GatewayTypeOK, Reply
<1>1. CASE Refused(c)
  <2>1. GatewayTypeOK' /\ ReplyInv'
    BY <1>1 DEF Dispatch, Refused, ReplyInv
  <2>2. WindowInv'
    BY <1>1 DEF Dispatch, Refused, WindowInv, Pruned, Recent
  <2>3. QED
    BY <1>1, <2>1, <2>2 DEF Dispatch, Refused
<1>2. CASE Blocked(c)
  <2>1. GatewayTypeOK'
    BY <1>2 DEF Dispatch, Blocked, Stamp, Pruned
  <2>2. ReplyInv'
    BY <1>2 DEF Dispatch, Blocked, ReplyInv
  <2>3. WindowInv'
    <3>1. CASE UNCHANGED <<window, age>>
      BY <1>2, <3>1 DEF Blocked, WindowInv, Pruned, Recent
    <3>2. CASE window' = Pruned /\ UNCHANGED age
      <4>1. Pruned' \subseteq Pruned
        BY <3>2 DEF Pruned, Recent
      <4>2. QED
        BY <1>2, <3>2, <4>1, WindowShrinks DEF Blocked, WindowInv, Pruned, Recent
    <3>3. CASE Allowed /\ Stamp(c)
      BY <1>2, <3>3, StampKeeps DEF Blocked
    <3>4. QED
      BY <1>2, <3>1, <3>2, <3>3 DEF Blocked
  <2>4. QED
    BY <1>2, <2>1, <2>2, <2>3 DEF Dispatch, Blocked
<1>3. CASE Called(c)
  <2>1. GatewayTypeOK'
    BY <1>3 DEF Dispatch, Called, Stamp, Pruned
  <2>2. ReplyInv'
    BY <1>3 DEF Dispatch, Called, ReplyInv
  <2>3. WindowInv'
    BY <1>3, StampKeeps DEF Called
  <2>4. QED
    BY <1>3, <2>1, <2>2, <2>3 DEF Dispatch, Called
<1>4. QED
  BY <1>1, <1>2, <1>3 DEF Dispatch

\* Every step of the gateway keeps types, replies and window.
LEMMA GatewayKeeps ==
  ASSUME GatewayTypeOK, ReplyInv, WindowInv, Gateway
  PROVE  /\ GatewayTypeOK' /\ ReplyInv' /\ WindowInv'
         /\ UNCHANGED token
         /\ \A c \in Calls : handler[c] = "done" => reply'[c] = reply[c]
         /\ \A c \in Calls : handler'[c] = "calling" => handler[c] = "calling"
<1> USE GatewayAssumption DEF GatewayAssumption, GatewayTypeOK, Reply
<1>1. ASSUME NEW c \in Calls, ProviderAnswers(c)
      PROVE  /\ GatewayTypeOK' /\ ReplyInv' /\ UNCHANGED <<token, window, age, spent>>
             /\ \A b \in Calls : handler[b] = "done" => reply'[b] = reply[b]
             /\ \A b \in Calls : handler'[b] = "calling" => handler[b] = "calling"
  <2>1. PICK r \in {"ok", "error", "broken"} : reply' = [reply EXCEPT ![c] = r]
    BY <1>1 DEF ProviderAnswers
  <2>2. /\ handler[c] = "calling" /\ handler' = [handler EXCEPT ![c] = "done"]
        /\ UNCHANGED <<token, admits, equipped, window, age, spent, starts>>
    BY <1>1 DEF ProviderAnswers
  <2>3. GatewayTypeOK'
    BY <2>1, <2>2
  <2>4. QED
    BY <2>1, <2>2, <2>3 DEF ReplyInv
<1>2. UNCHANGED <<window, age, spent>> => WindowInv'
  BY DEF WindowInv, Pruned, Recent
<1>3. CASE Tick
  <2>1. age' \in [Calls -> 0..Window] /\ \A c \in spent : age'[c] < Window => age[c] < Window
    BY <1>3 DEF Tick
  <2>2. GatewayTypeOK' /\ ReplyInv'
    BY <1>3, <2>1 DEF Tick, ReplyInv
  <2>3. Pruned' \subseteq Pruned
    BY <1>3 DEF Tick, Pruned, Recent
  <2>4. WindowInv'
    BY <1>3, <2>1, <2>3, WindowShrinks DEF Tick, WindowInv
  <2>5. QED
    BY <1>3, <2>2, <2>4 DEF Tick
<1>4. CASE GatewayRestarts
  <2>1. GatewayTypeOK' /\ ReplyInv'
    BY <1>4 DEF GatewayRestarts, ReplyInv
  <2>2. Pruned' = {} /\ spent' = {}
    BY <1>4 DEF GatewayRestarts, Pruned
  <2>3. WindowInv'
    BY <2>2, FS_EmptySet DEF WindowInv
  <2>4. QED
    BY <1>4, <2>1, <2>3 DEF GatewayRestarts
<1>5. QED
  BY <1>1, <1>2, <1>3, <1>4 DEF Gateway

-----------------------------------------------------------------------------
(* The pipeline and the gateway together.                                  *)

\* The invariant holds at the start.
LEMMA InitInv == Init => Inv
<1> SUFFICES ASSUME Init PROVE Inv
  OBVIOUS
<1>1. TypeOK
  BY CloudAssumption, GatewayAssumption, PackagerAssumption
     DEF Init, PackagerInit, GatewayInit, TypeOK, PackagerTypeOK, GatewayTypeOK, Reply, Steps,
         CloudAssumption, GatewayAssumption, PackagerAssumption
<1>2. PackagerInv /\ CallerInv
  BY CloudAssumption DEF CloudAssumption, Init, PackagerInit, PackagerInv, Apart, CallerInv
<1>3. ReplyInv /\ SuccessIsAnswered
  BY DEF Init, GatewayInit, ReplyInv, SuccessIsAnswered
<1>4. WindowInv
  <2>1. Pruned = {} /\ spent = {}
    BY DEF Init, GatewayInit, Pruned
  <2>2. QED
    BY <2>1, FS_EmptySet, GatewayAssumption DEF WindowInv, GatewayAssumption
<1>5. QED
  BY <1>1, <1>2, <1>3, <1>4 DEF Inv

\* Every step of packager, pipeline and gateway keeps the invariant.
LEMMA NextInv ==
  ASSUME Inv, [Next]_vars PROVE Inv'
<1>1. /\ PackagerTypeOK /\ GatewayTypeOK /\ PackagerInv /\ CallerInv /\ ReplyInv
      /\ SuccessIsAnswered /\ WindowInv
      /\ pc \in {"idle", "package", "dispatch", "posted"} /\ current \in Calls \cup {NoCall}
      /\ outcome \in [Calls -> {"new", "running", "succeeded", "failed", "lost"}]
      /\ text \in [Calls -> {"none", "answer", "empty"}]
      /\ crashes \in Nat /\ failures \in Nat /\ NoCall \notin Calls
  BY CloudAssumption DEF Inv, TypeOK, CloudAssumption
<1>2. UNCHANGED packagerVars => PackagerTypeOK' /\ PackagerInv'
  BY <1>1 DEF packagerVars, PackagerTypeOK, PackagerInv, Apart, Merging, Absorbed, Rewriting,
     Written, Last
<1>3. UNCHANGED gatewayVars => GatewayTypeOK' /\ ReplyInv' /\ WindowInv' /\ UNCHANGED <<token, reply>>
  BY <1>1 DEF gatewayVars, GatewayTypeOK, ReplyInv, WindowInv, Pruned, Recent
<1>4. Forget => PackagerTypeOK' /\ PackagerInv' /\ step' = "idle"
  BY ForgetType, ForgetKeeps DEF Forget
<1>5. ASSUME NEW c \in Calls, Begin(c) PROVE Inv'
  BY <1>1, <1>2, <1>3, <1>5 DEF Begin, Inv, TypeOK, CallerInv, SuccessIsAnswered, packagerVars
<1>6. CASE Packaging
  <2>1. PackagerTypeOK' /\ PackagerInv' /\ step' # "idle"
    <3>1. Package
      BY <1>6 DEF Packaging
    <3>2. step' # "idle"
      BY <1>1, <3>1 DEF Package, Scan, AddSpan, ExtendSpan, Merged, Transform, Assemble, Packaged,
         Detail, Return
    <3>3. QED
      BY <1>1, <3>1, <3>2, PackagerType, PackageKeeps
  <2>2. QED
    BY <1>1, <1>3, <1>6, <2>1 DEF Packaging, Inv, TypeOK, CallerInv, SuccessIsAnswered
<1>7. CASE EmitRaises \/ PostFails \/ Crash
  <2>1. /\ Forget /\ (Ends("failed") \/ Ends("lost"))
        /\ UNCHANGED gatewayVars /\ UNCHANGED text
        /\ crashes' \in Nat /\ failures' \in Nat
    BY <1>1, <1>7 DEF EmitRaises, PostFails, Crash
  <2>2. QED
    BY <1>1, <1>3, <1>4, <2>1 DEF Inv, TypeOK, CallerInv, SuccessIsAnswered, Ends
<1>8. CASE Post
  <2>1. current \in Calls
    BY <1>1, <1>8 DEF Post, CallerInv
  <2>2. /\ GatewayTypeOK' /\ ReplyInv' /\ WindowInv' /\ UNCHANGED token
        /\ \A b \in Calls \ {current} : reply'[b] = reply[b]
    BY <1>1, <1>8, <2>1, DispatchKeeps DEF Post
  <2>3. outcome[current] # "succeeded"
    BY <1>1, <2>1 DEF CallerInv
  <2>4. QED
    BY <1>1, <1>4, <1>8, <2>1, <2>2, <2>3 DEF Post, Inv, TypeOK, CallerInv, SuccessIsAnswered
<1>9. CASE Answered
  <2>1. current \in Calls
    BY <1>1, <1>9 DEF Answered, CallerInv
  <2>2. SuccessIsAnswered'
    BY <1>1, <1>3, <1>9, <2>1 DEF Answered, Ends, Unsuccessful, SuccessIsAnswered, ReplyInv,
       GatewayTypeOK, Reply
  <2>3. QED
    BY <1>1, <1>2, <1>3, <1>9, <2>1, <2>2 DEF Answered, Ends, Inv, TypeOK, CallerInv, packagerVars
<1>10. CASE Gateway /\ UNCHANGED <<packagerVars, pipelineVars>>
  <2>1. /\ GatewayTypeOK' /\ ReplyInv' /\ WindowInv' /\ UNCHANGED token
        /\ \A c \in Calls : handler[c] = "done" => reply'[c] = reply[c]
    BY <1>1, <1>10, GatewayKeeps
  <2>2. QED
    BY <1>1, <1>2, <1>10, <2>1 DEF pipelineVars, packagerVars, Inv, TypeOK, CallerInv,
       SuccessIsAnswered, ReplyInv
<1>11. CASE UNCHANGED vars
  BY <1>1, <1>2, <1>3, <1>11 DEF vars, pipelineVars, packagerVars, Inv, TypeOK, CallerInv,
     SuccessIsAnswered
<1> QED
  BY <1>5, <1>6, <1>7, <1>8, <1>9, <1>10, <1>11 DEF Next

\* The invariant holds in every reachable state.
THEOREM Invariance == Spec => []Inv
<1>1. Inv /\ [Next]_vars => Inv'
  BY NextInv
<1>2. QED
  BY InitInv, <1>1, PTL DEF Spec

\* TypeOK of CloudDispatch.
THEOREM TypeCorrect == Spec => []TypeOK
BY Invariance, PTL DEF Inv

\* SuccessIsAnswered: a success is the provider's answer to this call, or the
\* empty text of a refused token.
THEOREM SuccessAnswered == Spec => []SuccessIsAnswered
BY Invariance, PTL DEF Inv

\* RateBounded: no provider gets more than its route allows in any window.
THEOREM RateIsBounded == Spec => []RateBounded
<1>1. ASSUME Inv PROVE RateBounded
  <2> DEFINE recent == {c \in spent : age[c] < Window}
  <2>1. /\ IsFiniteSet(Pruned) /\ Cardinality(Pruned) \in Nat /\ recent \subseteq Pruned
        /\ Cardinality(Pruned) <= Rpm /\ Rpm \in Nat
    BY <1>1, PrunedFinite, GatewayAssumption
       DEF Inv, TypeOK, WindowInv, Pruned, Recent, GatewayAssumption
  <2>2. Cardinality(recent) <= Cardinality(Pruned) /\ Cardinality(recent) \in Nat
    BY <2>1, FS_Subset, FS_CardinalityType
  <2>3. QED
    BY <2>1, <2>2 DEF RateBounded
<1>2. QED
  BY Invariance, <1>1, PTL

\* A payload reaches the provider only after package() has returned it.
LEMMA ReachesFiltered ==
  ASSUME Inv, [Next]_vars, NEW c \in Calls, Reaches(c)
  PROVE  Filtered /\ FullyDeclared
<1>1. Post
  <2>1. ~(Gateway /\ UNCHANGED <<packagerVars, pipelineVars>>)
    BY GatewayKeeps DEF Inv, TypeOK, Reaches
  <2>2. UNCHANGED handler \/ Post
    BY <2>1 DEF Next, vars, gatewayVars, Begin, Packaging, EmitRaises, PostFails, Answered, Crash
  <2>3. QED
    BY <2>2 DEF Reaches
<1>2. step = "done"
  <2>1. CASE pc = "dispatch"
    BY <2>1 DEF Inv, CallerInv
  <2>2. QED
    BY <1>1, <2>1 DEF Post
<1>3. QED
  BY <1>2, Faithful DEF Inv, TypeOK

\* ProviderSeesFiltered: the payload that reaches a provider has nothing of a
\* strip match, nothing of a generalize match as it was, and all the rest.
THEOREM SeenIsFiltered == Spec => ProviderSeesFiltered
<1>1. Inv /\ [Next]_vars => \A c \in Calls : Reaches(c) => Filtered
  <2> SUFFICES ASSUME Inv, [Next]_vars, NEW c \in Calls, Reaches(c) PROVE Filtered
    OBVIOUS
  <2> QED
    BY ReachesFiltered
<1>2. QED
  BY Invariance, <1>1, PTL DEF Spec, ProviderSeesFiltered

\* SentIsDeclared: every match of a payload that reaches a provider is in the
\* audit log before.
THEOREM SeenIsDeclared == Spec => SentIsDeclared
<1>1. Inv /\ [Next]_vars => \A c \in Calls : Reaches(c) => FullyDeclared
  <2> SUFFICES ASSUME Inv, [Next]_vars, NEW c \in Calls, Reaches(c) PROVE FullyDeclared
    OBVIOUS
  <2> QED
    BY ReachesFiltered
<1>2. QED
  BY Invariance, <1>1, PTL DEF Spec, SentIsDeclared
=============================================================================
