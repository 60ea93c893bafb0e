------------------------------ MODULE TrustProofs ------------------------------
(***************************************************************************)
(* Trust levels, for any number of capabilities, callers, deaths and       *)
(* failing events: levels rise only as granted, evidence belongs to the    *)
(* level, an answered change of the model demotes everything, and without  *)
(* deaths or failing events only the job manager's overrides separate the  *)
(* audit log from the levels.                                              *)
(***************************************************************************)
EXTENDS Trust, SequenceTheorems, FiniteSetTheorems, TLAPS

-----------------------------------------------------------------------------
(* The state file, one capability at a time.                               *)

Ring == Seq([good : BOOLEAN, at : Levels])

StateOK(s) ==
  /\ s \in [caps : [Caps -> CapState], hash : Configs \cup {<<>>}, model : Known \cup {None}]
  /\ \A c \in Caps : Len(s.caps[c].outcomes) <= RingMax

\* s with the capability c replaced.
Put(s, c, level, status, outcomes, failures) ==
  [caps |-> [s.caps EXCEPT ![c] = [level |-> level, status |-> status,
                                   outcomes |-> outcomes, failures |-> failures]],
   hash |-> s.hash, model |-> s.model]

StatusAt(level) == IF level = -1 THEN "suspended" ELSE "active"

\* t is s after a mutator, with c at level and outcomes.
Changed(s, t, c, level, outcomes) ==
  /\ StateOK(t)
  /\ t.hash = s.hash /\ t.model = s.model
  /\ t.caps[c].outcomes = outcomes
  /\ Eff(t, c) = level
  /\ \A x \in Caps \ {c} : t.caps[x].outcomes = s.caps[x].outcomes /\ Eff(t, x) = Eff(s, x)

\* A capability of a well-formed state file is a record of four typed fields.
LEMMA CapOf ==
  ASSUME NEW s, StateOK(s), NEW c \in Caps
  PROVE  /\ s.caps[c] = [level |-> s.caps[c].level, status |-> s.caps[c].status,
                         outcomes |-> s.caps[c].outcomes, failures |-> s.caps[c].failures]
         /\ s.caps[c].level \in Levels /\ s.caps[c].status \in {"active", "suspended"}
         /\ s.caps[c].outcomes \in Ring /\ Len(s.caps[c].outcomes) <= RingMax
         /\ s.caps[c].failures \in Nat
         /\ Eff(s, c) \in Levels
<1>1. s.caps[c] \in CapState
  BY DEF StateOK
<1>2. QED
  BY <1>1 DEF StateOK, CapState, Ring, Eff, Levels

\* Replacing one capability by a well-formed one changes that one only.
LEMMA PutOK ==
  ASSUME NEW s, StateOK(s), NEW c \in Caps, NEW level \in Levels,
         NEW status \in {"active", "suspended"}, NEW outcomes \in Ring,
         Len(outcomes) <= RingMax, NEW failures \in Nat
  PROVE  Changed(s, Put(s, c, level, status, outcomes, failures), c,
                 IF status = "suspended" THEN -1 ELSE level, outcomes)
<1> DEFINE k == [level |-> level, status |-> status, outcomes |-> outcomes, failures |-> failures]
           t == Put(s, c, level, status, outcomes, failures)
<1>1. k \in CapState
  BY DEF CapState, Ring
<1>2. s.caps \in [Caps -> CapState] /\ s.hash \in Configs \cup {<<>>} /\ s.model \in Known \cup {None}
  BY DEF StateOK
<1>3. t.caps = [s.caps EXCEPT ![c] = k] /\ t.hash = s.hash /\ t.model = s.model
  BY DEF Put
<1>4. t.caps \in [Caps -> CapState] /\ t.caps[c] = k /\ \A x \in Caps \ {c} : t.caps[x] = s.caps[x]
  BY <1>1, <1>2, <1>3
<1>5. t \in [caps : [Caps -> CapState], hash : Configs \cup {<<>>}, model : Known \cup {None}]
  BY <1>2, <1>3, <1>4 DEF Put
<1>6. \A x \in Caps : Len(t.caps[x].outcomes) <= RingMax
  BY <1>4 DEF StateOK
<1> HIDE DEF t
<1>7. StateOK(t)
  BY <1>5, <1>6 DEF StateOK
<1>8. QED
  BY <1>3, <1>4, <1>7 DEF Eff, Changed, t

\* Every mutator of the state manager, as a replacement of one capability.
LEMMA Mutators ==
  ASSUME NEW s, StateOK(s), NEW c \in Caps, NEW v
  PROVE  LET k == s.caps[c]
             new == Append(k.outcomes, [good |-> v, at |-> Eff(s, c)]) IN
         /\ Demoted(s, c, v) = Put(s, c, v, StatusAt(v), k.outcomes, k.failures)
         /\ Reset(s, c) = Put(s, c, k.level, k.status, <<>>, 0)
         /\ Recorded(s, c, v) = Put(s, c, k.level, k.status,
              IF Len(new) > RingMax THEN Tail(new) ELSE new, k.failures)
         /\ Failed(s, c, v) = Put(s, c, k.level, k.status, k.outcomes, v + 1)
         /\ Raised(s, c, v) = Put(s, c, v, k.status, k.outcomes, k.failures)
         /\ Activated(s, c) = Put(s, c, k.level, "active", k.outcomes, k.failures)
<1> DEFINE k == s.caps[c]
           new == Append(k.outcomes, [good |-> v, at |-> Eff(s, c)])
<1>1. s.caps \in [Caps -> CapState] /\ k \in CapState
  BY DEF StateOK
<1>2. s = [caps |-> s.caps, hash |-> s.hash, model |-> s.model]
  BY DEF StateOK
<1>3. \A w : [s EXCEPT !.caps[c] = w] = [caps |-> [s.caps EXCEPT ![c] = w], hash |-> s.hash, model |-> s.model]
  BY <1>2
<1>4. \A w : /\ [s EXCEPT !.caps[c].level = w] = Put(s, c, w, k.status, k.outcomes, k.failures)
             /\ [s EXCEPT !.caps[c].status = w] = Put(s, c, k.level, w, k.outcomes, k.failures)
             /\ [s EXCEPT !.caps[c].outcomes = w] = Put(s, c, k.level, k.status, w, k.failures)
             /\ [s EXCEPT !.caps[c].failures = w] = Put(s, c, k.level, k.status, k.outcomes, w)
  <2> TAKE w
  <2>1. /\ [k EXCEPT !.level = w] = [level |-> w, status |-> k.status, outcomes |-> k.outcomes, failures |-> k.failures]
        /\ [k EXCEPT !.status = w] = [level |-> k.level, status |-> w, outcomes |-> k.outcomes, failures |-> k.failures]
        /\ [k EXCEPT !.outcomes = w] = [level |-> k.level, status |-> k.status, outcomes |-> w, failures |-> k.failures]
        /\ [k EXCEPT !.failures = w] = [level |-> k.level, status |-> k.status, outcomes |-> k.outcomes, failures |-> w]
    BY <1>1 DEF CapState
  <2>2. /\ [s EXCEPT !.caps[c].level = w] = [s EXCEPT !.caps[c] = [k EXCEPT !.level = w]]
        /\ [s EXCEPT !.caps[c].status = w] = [s EXCEPT !.caps[c] = [k EXCEPT !.status = w]]
        /\ [s EXCEPT !.caps[c].outcomes = w] = [s EXCEPT !.caps[c] = [k EXCEPT !.outcomes = w]]
        /\ [s EXCEPT !.caps[c].failures = w] = [s EXCEPT !.caps[c] = [k EXCEPT !.failures = w]]
    BY <1>1, <1>2
  <2>3. QED
    BY <1>3, <2>1, <2>2 DEF Put
<1>5. Demoted(s, c, v) = Put(s, c, v, StatusAt(v), k.outcomes, k.failures)
  BY <1>1, <1>2, <1>3 DEF Demoted, StatusAt, Put
<1>6. Reset(s, c) = Put(s, c, k.level, k.status, <<>>, 0)
  BY <1>1, <1>2, <1>3 DEF Reset, Put
<1>7. QED
  BY <1>4, <1>5, <1>6 DEF Recorded, Failed, Raised, Activated

-----------------------------------------------------------------------------
\* The things whose number is bounded.
LEMMA BoundsKinds ==
  DOMAIN Bounds = {"edits", "crashes", "outages", "emitFailures", "outcomes", "calls"}
BY DEF Bounds

\* A bounded thing that happens is counted, the others are not.
LEMMA OnceType ==
  ASSUME TypeOK, NEW k \in DOMAIN Bounds, Once(k)
  PROVE  /\ count' \in [DOMAIN Bounds -> Nat]
         /\ \A x \in DOMAIN Bounds : count'[x] <= Bounds[x]
         /\ count'[k] > 0
         /\ \A x \in DOMAIN Bounds \ {k} : count'[x] = count[x]
<1>1. count \in [DOMAIN Bounds -> Nat] /\ \A x \in DOMAIN Bounds : count[x] <= Bounds[x]
  BY DEF TypeOK
<1>2. count' = [count EXCEPT ![k] = count[k] + 1] /\ count[k] < Bounds[k]
  BY DEF Once
<1>3. \A x \in DOMAIN Bounds : Bounds[x] \in Nat
  BY TrustAssumption DEF Bounds
<1>4. QED
  BY <1>1, <1>2, <1>3

-----------------------------------------------------------------------------
(* What each mutator leaves.                                               *)

\* demote, with reset_counters after it or not, leaves the level asked for.
LEMMA Lowering ==
  ASSUME NEW s, StateOK(s), NEW c \in Caps, NEW to \in Levels
  PROVE  /\ Changed(s, Demoted(s, c, to), c, to, s.caps[c].outcomes)
         /\ Changed(s, DemotedAndReset(s, c, to), c, to, <<>>)
<1> DEFINE k == s.caps[c]
           d == Demoted(s, c, to)
           t == DemotedAndReset(s, c, to)
<1>1. StatusAt(to) \in {"active", "suspended"} /\ to = IF StatusAt(to) = "suspended" THEN -1 ELSE to
  BY DEF StatusAt
<1>2. k.outcomes \in Ring /\ Len(k.outcomes) <= RingMax /\ k.failures \in Nat
  BY CapOf
<1>3. Changed(s, Put(s, c, to, StatusAt(to), k.outcomes, k.failures), c,
              IF StatusAt(to) = "suspended" THEN -1 ELSE to, k.outcomes)
  BY <1>1, <1>2, PutOK
<1>4. Changed(s, d, c, to, k.outcomes)
  BY <1>1, <1>3, Mutators
<1>5. <<>> \in Ring /\ Len(<<>>) <= RingMax
  BY TrustAssumption DEF Ring
<1>6. t = Reset(d, c)
  BY DEF DemotedAndReset
<1> HIDE DEF d, t
<1>7. StateOK(d) /\ Eff(d, c) = to
  BY <1>4 DEF Changed
<1>8. d.caps[c].level \in Levels /\ d.caps[c].status \in {"active", "suspended"}
  BY <1>7, CapOf
<1>9. Changed(d, Put(d, c, d.caps[c].level, d.caps[c].status, <<>>, 0), c,
              IF d.caps[c].status = "suspended" THEN -1 ELSE d.caps[c].level, <<>>)
  BY <1>5, <1>7, <1>8, PutOK
<1>10. Changed(d, t, c, to, <<>>)
  BY <1>6, <1>7, <1>9, Mutators DEF Eff
<1>11. QED
  BY <1>4, <1>10 DEF Changed, d, t

\* set_effective_wal leaves a suspended capability suspended until its status is set.
LEMMA Raising ==
  ASSUME NEW s, StateOK(s), NEW c \in Caps, NEW to \in Levels
  PROVE  LET t == Raised(s, c, to) IN
         /\ Changed(s, t, c, IF s.caps[c].status = "suspended" THEN -1 ELSE to, s.caps[c].outcomes)
         /\ Changed(s, Activated(t, c), c, to, s.caps[c].outcomes)
<1> DEFINE k == s.caps[c]
           t == Raised(s, c, to)
           a == Activated(t, c)
<1>1. t = Put(s, c, to, k.status, k.outcomes, k.failures)
  BY Mutators
<1>2. /\ k.status \in {"active", "suspended"} /\ k.outcomes \in Ring
      /\ Len(k.outcomes) <= RingMax /\ k.failures \in Nat
  BY CapOf
<1>3. Changed(s, t, c, IF k.status = "suspended" THEN -1 ELSE to, k.outcomes)
  BY <1>1, <1>2, PutOK
<1>4. t.caps[c].level = to
  BY <1>1 DEF Put, StateOK
<1> HIDE DEF t
<1>5. StateOK(t)
  BY <1>3 DEF Changed
<1>6. /\ t.caps[c].outcomes \in Ring
      /\ Len(t.caps[c].outcomes) <= RingMax /\ t.caps[c].failures \in Nat
  BY <1>5, CapOf
<1>7. a = Put(t, c, to, "active", t.caps[c].outcomes, t.caps[c].failures)
  BY <1>4, <1>5, Mutators
<1>8. Changed(t, Put(t, c, to, "active", t.caps[c].outcomes, t.caps[c].failures), c,
              IF "active" = "suspended" THEN -1 ELSE to, t.caps[c].outcomes)
  BY <1>5, <1>6, PutOK
<1>9. Changed(t, a, c, to, t.caps[c].outcomes)
  BY <1>7, <1>8
<1>10. QED
  BY <1>3, <1>9 DEF Changed, t

Longer(s, c, good) == Append(s.caps[c].outcomes, [good |-> good, at |-> Eff(s, c)])
Evicted(ring) == IF Len(ring) > RingMax THEN Tail(ring) ELSE ring

\* record_outcome keeps the level and the limit of the ring.
LEMMA Recording ==
  ASSUME NEW s, StateOK(s), NEW c \in Caps, NEW good \in BOOLEAN
  PROVE  /\ Longer(s, c, good) \in Ring
         /\ Len(Longer(s, c, good)) > RingMax => Tail(Longer(s, c, good)) \in Ring
         /\ Changed(s, Recorded(s, c, good), c, Eff(s, c), Evicted(Longer(s, c, good)))
<1> DEFINE k == s.caps[c]
           all == Append(k.outcomes, [good |-> good, at |-> Eff(s, c)])
           new == IF Len(all) > RingMax THEN Tail(all) ELSE all
<1>1. Recorded(s, c, good) = Put(s, c, k.level, k.status, new, k.failures)
  BY Mutators
<1>2. [good |-> good, at |-> Eff(s, c)] \in [good : BOOLEAN, at : Levels]
  BY CapOf
<1>3. /\ k.outcomes \in Seq([good : BOOLEAN, at : Levels]) /\ Len(k.outcomes) <= RingMax
      /\ k.level \in Levels /\ k.status \in {"active", "suspended"} /\ k.failures \in Nat
  BY CapOf DEF Ring
<1>4. all \in Seq([good : BOOLEAN, at : Levels]) /\ Len(all) = Len(k.outcomes) + 1
  BY <1>2, <1>3, AppendProperties
<1>5. ASSUME Len(all) > RingMax
      PROVE  Tail(all) \in Seq([good : BOOLEAN, at : Levels]) /\ Len(Tail(all)) = Len(all) - 1
  <2> HIDE DEF all
  <2>1. Len(all) # 0
    BY <1>5, TrustAssumption
  <2>2. all # <<>>
    BY <2>1
  <2>3. QED
    BY <1>4, <2>2, HeadTailProperties
<1>6. new \in Ring /\ Len(new) <= RingMax
  <2> HIDE DEF all
  <2>1. Len(all) \in Nat /\ RingMax \in Nat /\ Len(k.outcomes) \in Nat
    BY <1>3, <1>4, TrustAssumption, LenProperties
  <2>2. QED
    BY <1>3, <1>4, <1>5, <2>1 DEF Ring
<1>7. Changed(s, Put(s, c, k.level, k.status, new, k.failures), c,
              IF k.status = "suspended" THEN -1 ELSE k.level, new)
  <2> HIDE DEF new
  <2> QED  BY <1>3, <1>6, PutOK
<1>8. Eff(s, c) = IF k.status = "suspended" THEN -1 ELSE k.level
  BY DEF Eff
<1>9. all \in Ring /\ (Len(all) > RingMax => Tail(all) \in Ring)
  <2> HIDE DEF all
  <2> QED  BY <1>4, <1>5 DEF Ring
<1>10. Changed(s, Recorded(s, c, good), c, Eff(s, c), new)
  <2> HIDE DEF new
  <2> QED  BY <1>1, <1>7, <1>8
<1>11. all = Longer(s, c, good) /\ new = Evicted(all)
  BY DEF Longer, Evicted
<1> HIDE DEF all, new
<1>12. QED
  BY <1>9, <1>10, <1>11

\* record_failure keeps level and outcomes.
LEMMA Failing ==
  ASSUME NEW s, StateOK(s), NEW c \in Caps, NEW kept \in Nat
  PROVE  Changed(s, Failed(s, c, kept), c, Eff(s, c), s.caps[c].outcomes)
<1> DEFINE k == s.caps[c]
<1>1. Failed(s, c, kept) = Put(s, c, k.level, k.status, k.outcomes, kept + 1)
  BY Mutators
<1>2. /\ k.level \in Levels /\ k.status \in {"active", "suspended"} /\ k.outcomes \in Ring
      /\ Len(k.outcomes) <= RingMax
  BY CapOf
<1>3. Changed(s, Put(s, c, k.level, k.status, k.outcomes, kept + 1), c,
              IF k.status = "suspended" THEN -1 ELSE k.level, k.outcomes)
  <2>1. kept + 1 \in Nat
    OBVIOUS
  <2>2. QED
    BY <1>2, <2>1, PutOK
<1>4. QED
  BY <1>1, <1>3 DEF Eff

-----------------------------------------------------------------------------
Evidence(s) ==
  \A c \in Caps : \A i \in DOMAIN s.caps[c].outcomes : s.caps[c].outcomes[i].at <= Eff(s, c)

\* A ring that is emptied, or a level that does not sink, keeps evidence fresh.
LEMMA EvidenceKept ==
  ASSUME NEW s, StateOK(s), Evidence(s), NEW t, NEW c \in Caps, NEW level \in Levels,
         NEW outcomes, Changed(s, t, c, level, outcomes),
         \/ outcomes = <<>>
         \/ outcomes = s.caps[c].outcomes /\ level >= Eff(s, c)
  PROVE  Evidence(t)
<1> SUFFICES ASSUME NEW x \in Caps, NEW i \in DOMAIN t.caps[x].outcomes
             PROVE  t.caps[x].outcomes[i].at <= Eff(t, x)
  BY DEF Evidence
<1>1. CASE x # c
  BY <1>1 DEF Changed, Evidence
<1>2. CASE x = c /\ outcomes = <<>>
  BY <1>2 DEF Changed
<1>3. CASE x = c /\ outcomes = s.caps[c].outcomes /\ level >= Eff(s, c)
  <2>1. t.caps[x].outcomes = s.caps[c].outcomes /\ Eff(t, x) = level
    BY <1>3 DEF Changed
  <2>2. s.caps[c].outcomes[i].at <= Eff(s, c) /\ Eff(s, c) \in Levels
    BY <2>1, CapOf DEF Evidence
  <2>3. s.caps[c].outcomes \in Seq([good : BOOLEAN, at : Levels])
    BY CapOf DEF Ring
  <2>4. i \in 1 .. Len(s.caps[c].outcomes)
    BY <2>1, <2>3, LenProperties
  <2>5. s.caps[c].outcomes[i] \in [good : BOOLEAN, at : Levels]
    BY <2>3, <2>4, ElementOfSeq
  <2>6. QED
    BY <1>3, <2>1, <2>2, <2>5 DEF Levels
<1>4. QED
  BY <1>1, <1>2, <1>3

\* One more outcome at most at this level, behind others that are.
LEMMA AppendedAt ==
  ASSUME NEW S, NEW q \in Seq(S), NEW e \in S, NEW level, e.at <= level,
         \A i \in 1 .. Len(q) : q[i].at <= level
  PROVE  \A i \in 1 .. Len(Append(q, e)) : Append(q, e)[i].at <= level
<1>1. /\ Len(Append(q, e)) = Len(q) + 1 /\ Len(q) \in Nat
      /\ \A i \in 1 .. Len(q) : Append(q, e)[i] = q[i]
      /\ Append(q, e)[Len(q) + 1] = e
  BY AppendProperties, LenProperties
<1>2. QED
  BY <1>1

\* An outcome is recorded at the level held.
LEMMA EvidenceRecorded ==
  ASSUME NEW s, StateOK(s), Evidence(s), NEW c \in Caps, NEW good \in BOOLEAN
  PROVE  Evidence(Recorded(s, c, good))
<1> DEFINE k == s.caps[c]
           o == [good |-> good, at |-> Eff(s, c)]
           all == Append(k.outcomes, o)
           t == Recorded(s, c, good)
<1>1. Changed(s, t, c, Eff(s, c), Evicted(all))
  BY Recording DEF Longer
<1>2. k.outcomes \in Seq([good : BOOLEAN, at : Levels]) /\ o \in [good : BOOLEAN, at : Levels]
      /\ Eff(s, c) \in Levels
  BY CapOf DEF Ring
<1>3. all \in Seq([good : BOOLEAN, at : Levels]) /\ Len(all) = Len(k.outcomes) + 1
      /\ \A i \in 1 .. Len(k.outcomes) : all[i] = k.outcomes[i]
      /\ all[Len(k.outcomes) + 1] = o
  <2> HIDE DEF o
  <2> QED  BY <1>2, AppendProperties
<1>4. \A i \in 1 .. Len(all) : all[i].at <= Eff(s, c)
  <2>1. o.at <= Eff(s, c)
    <3>1. o.at = Eff(s, c)
      BY Zenon
    <3> HIDE DEF o
    <3>2. QED
      BY <1>2, <3>1 DEF Levels
  <2>2. \A i \in 1 .. Len(k.outcomes) : k.outcomes[i].at <= Eff(s, c)
    <3>1. DOMAIN k.outcomes = 1 .. Len(k.outcomes)
      BY <1>2, LenProperties
    <3>2. QED
      BY <3>1 DEF Evidence
  <2> HIDE DEF k, o
  <2>3. QED
    BY <1>2, <2>1, <2>2, AppendedAt
<1>5. \A i \in DOMAIN Evicted(all) : Evicted(all)[i].at <= Eff(s, c)
  <2> HIDE DEF all
  <2> SUFFICES ASSUME NEW i \in DOMAIN Evicted(all)
               PROVE  Evicted(all)[i].at <= Eff(s, c)
    OBVIOUS
  <2>1. CASE Len(all) > RingMax
    <3>1. all # <<>> /\ Len(all) \in Nat
      BY <1>3, <2>1, TrustAssumption, LenProperties
    <3>2. Tail(all) \in Seq([good : BOOLEAN, at : Levels]) /\ Len(Tail(all)) = Len(all) - 1
          /\ \A j \in 1 .. Len(all) - 1 : Tail(all)[j] = all[j + 1]
      BY <1>3, <3>1, HeadTailProperties
    <3>3. i \in 1 .. Len(all) - 1 /\ Evicted(all)[i] = all[i + 1]
      BY <2>1, <3>2 DEF Evicted
    <3>4. QED
      BY <1>4, <3>1, <3>3
  <2>2. CASE ~(Len(all) > RingMax)
    BY <1>3, <1>4, <2>2 DEF Evicted
  <2>3. QED
    BY <2>1, <2>2
<1> HIDE DEF all, t
<1>6. QED
  BY <1>1, <1>5 DEF Changed, Evidence, t

-----------------------------------------------------------------------------
(* The invariant.                                                          *)

Call == [busy : BOOLEAN, cap : Caps \cup {None}, from : Levels, to : Levels, todo : SUBSET Caps]
Entry == [net : Int, grant : Levels \cup {None}]
Phase == {"off", "reconcile", "apply", "model", "change", "serving"}

CountOK(n) == n \in [DOMAIN Bounds -> Nat] /\ \A k \in DOMAIN Bounds : n[k] <= Bounds[k]

\* When calls of the demotion engine can be in flight, and what startup.reconcile
\* has already logged when it sets a level.
Phases ==
  /\ pc \notin {"change", "serving"} => \A r \in Callers : ~call[r].busy
  /\ pc = "change" => \A r \in Requests : ~call[r].busy
  /\ \A r \in Callers : ~call[r].busy => call[r] = Idle
  /\ pc = "apply" => /\ todo # {}
                     /\ Wanted # Actual
                     /\ Wanted > Actual => log[Visited].grant = Wanted

\* While every startup was told the model, the state file holds the last one; and
\* once startup saw it change, what is not at level 0 is still to be visited.
ModelSeen ==
  /\ count["outages"] = 0 => st.model = lastKnown /\ (pc = "change" => seen # None)
  /\ pc = "change" /\ seen # None /\ st.model \notin {None, seen}
       => \A c \in Caps : Eff(st, c) = 0 \/ (call[Main].busy /\ c \in call[Main].todo)

Inv == TypeOK /\ Phases /\ ModelSeen /\ EvidenceFresh

Rise == \A c \in Caps : Eff(st', c) > Eff(st, c) /\ Eff(st', c) > 0
                          => log'[c].grant = Eff(st', c)
Answered == pc' = "serving" /\ pc = "change" /\ seen # None /\ lastKnown \notin {None, seen}
              /\ count.outages = 0
              => \A c \in Caps : Eff(st', c) <= 0

\* TypeOK in the names of this module.
LEMMA TypeParts ==
  TypeOK <=> /\ config \in Configs /\ model \in Known /\ StateOK(st)
             /\ pc \in Phase /\ todo \in SUBSET Caps /\ reg \in Configs
             /\ seen \in Known \cup {None} /\ call \in [Callers -> Call]
             /\ log \in [Caps -> Entry] /\ lastKnown \in Known \cup {None}
             /\ torn \in BOOLEAN /\ CountOK(count) /\ overrides \in [Caps -> Nat]
BY DEF TypeOK, StateOK, Phase, Call, Entry, CountOK

\* The same of the next state.
LEMMA TypeNext ==
  TypeOK' <=> /\ config' \in Configs /\ model' \in Known /\ StateOK(st')
              /\ pc' \in Phase /\ todo' \in SUBSET Caps /\ reg' \in Configs
              /\ seen' \in Known \cup {None} /\ call' \in [Callers -> Call]
              /\ log' \in [Caps -> Entry] /\ lastKnown' \in Known \cup {None}
              /\ torn' \in BOOLEAN /\ CountOK(count') /\ overrides' \in [Caps -> Nat]
BY DEF TypeOK, StateOK, Phase, Call, Entry, CountOK

\* EvidenceFresh speaks of the state file only.
LEMMA EvidenceIs == EvidenceFresh <=> (torn \/ Evidence(st))
BY DEF EvidenceFresh, Evidence

\* The two calls that have no capability in flight are well-formed.
LEMMA IdleOK ==
  /\ Idle \in Call /\ ~Idle.busy
  /\ \A a \in SUBSET Caps :
       Announced(a) \in Call /\ Announced(a).busy /\ Announced(a).todo = a
BY DEF Idle, Announced, Call, Levels

\* An event in the log keeps its type, and grants what it promotes to.
LEMMA LoggedOK ==
  ASSUME log \in [Caps -> Entry], NEW c \in Caps, NEW from \in Levels, NEW to \in Levels
  PROVE  /\ Logged(c, from, to) \in [Caps -> Entry]
         /\ pc = "reconcile" /\ to > from => Logged(c, from, to)[c].grant = to
<1> DEFINE e == [net |-> log[c].net + to - from,
                 grant |-> IF pc = "reconcile" /\ to > from THEN to ELSE None]
<1>1. log[c].net \in Int
  BY DEF Entry
<1>2. log[c].net + to - from \in Int
  BY <1>1 DEF Levels
<1>3. e \in Entry
  BY <1>2 DEF Entry
<1>4. Logged(c, from, to) = [log EXCEPT ![c] = e]
  BY DEF Logged
<1>5. Logged(c, from, to)[c] = e
  BY <1>4
<1>6. QED
  BY <1>3, <1>4, <1>5

\* The capability startup.reconcile is at, and its two levels.
LEMMA VisitedOK ==
  ASSUME TypeOK, todo # {}
  PROVE  Visited \in todo /\ Visited \in Caps /\ Wanted \in Levels /\ Wanted # -1 /\ Actual \in Levels
<1>1. Visited \in todo /\ Visited \in Caps
  BY DEF Visited, TypeOK
<1>2. Wanted \in Desired
  BY <1>1 DEF Wanted, TypeOK, Configs
<1>3. Actual \in Levels
  BY <1>1, TypeParts, CapOf DEF Actual
<1>4. QED
  BY <1>1, <1>2, <1>3, TrustAssumption DEF Levels

\* A bounded thing that happens keeps the counters typed.
LEMMA CountKept ==
  ASSUME TypeOK, NEW k \in DOMAIN Bounds, Once(k)
  PROVE  CountOK(count') /\ (count'["outages"] = 0 => k # "outages" /\ count["outages"] = 0)
<1>1. "outages" \in DOMAIN Bounds
  BY BoundsKinds
<1>2. QED
  BY <1>1, OnceType DEF CountOK

\* The invariant holds before the first startup.
LEMMA InitInv ==
  Init => Inv
<1> SUFFICES ASSUME Init  PROVE Inv
  OBVIOUS
<1>1. /\ config \in Configs /\ reg \in Configs
      /\ model \in Known /\ seen \in Known \cup {None} /\ lastKnown \in Known \cup {None}
  <2>1. config \in Configs /\ reg = config
    BY DEF Init, Configs
  <2>2. model = 1 /\ seen = None /\ lastKnown = None
    BY DEF Init
  <2>3. 1 \in Known
    BY TrustAssumption DEF Known
  <2>4. QED
    BY <2>1, <2>2, <2>3
<1>2. Fresh \in CapState /\ Len(Fresh.outcomes) <= RingMax /\ DOMAIN Fresh.outcomes = {}
  <2>1. Fresh.outcomes = <<>>
    BY DEF Fresh
  <2>2. <<>> \in Seq([good : BOOLEAN, at : Levels])
    OBVIOUS
  <2>3. Fresh \in CapState
    BY <2>2 DEF Fresh, CapState, Levels
  <2>4. QED
    BY <2>1, <2>3, TrustAssumption
<1>3. StateOK(st) /\ \A c \in Caps : st.caps[c] = Fresh
  BY <1>2 DEF Init, StateOK
<1>4. call \in [Callers -> Call] /\ \A r \in Callers : call[r] = Idle
  BY IdleOK DEF Init
<1>5. log \in [Caps -> Entry]
  BY DEF Init, Entry
<1>6. CountOK(count)
  BY BoundsKinds, TrustAssumption DEF Init, CountOK, Bounds
<1>7. TypeOK
  <2>1. /\ pc \in Phase /\ todo \in SUBSET Caps /\ torn \in BOOLEAN
        /\ overrides \in [Caps -> Nat]
    BY DEF Init, Phase
  <2>2. QED
    BY <1>1, <1>3, <1>4, <1>5, <1>6, <2>1, TypeParts
<1>8. Phases
  BY <1>4 DEF Phases, Init, Idle
<1>9. ModelSeen
  BY DEF ModelSeen, Init
<1>10. EvidenceFresh
  BY <1>2, <1>3, EvidenceIs DEF Evidence
<1>11. QED
  BY <1>7, <1>8, <1>9, <1>10 DEF Inv

-----------------------------------------------------------------------------
(* Every step keeps the invariant and does what the properties ask.        *)

Kept == Inv' /\ Rise /\ Answered

\* A step that leaves the state file alone.
LEMMA StKept ==
  ASSUME Inv, st' = st, torn' = torn
  PROVE  StateOK(st') /\ EvidenceFresh' /\ Rise
<1>1. StateOK(st)
  BY TypeParts DEF Inv
<1>2. StateOK(st')
  BY <1>1
<1>3. EvidenceFresh'
  BY DEF Inv, EvidenceFresh, Eff
<1>4. \A c \in Caps : Eff(st', c) = Eff(st, c) /\ Eff(st, c) \in Levels
  BY <1>1, CapOf
<1>5. Rise
  BY <1>4 DEF Rise, Levels
<1>6. QED
  BY <1>2, <1>3, <1>5

\* A step that lowers one capability and empties its ring.
LEMMA StLowered ==
  ASSUME Inv, torn' = torn, NEW c \in Caps, NEW to \in Levels,
         to <= 0 \/ to <= Eff(st, c), Changed(st, st', c, to, <<>>)
  PROVE  StateOK(st') /\ EvidenceFresh' /\ Rise
<1>1. StateOK(st)
  BY TypeParts DEF Inv
<1>2. StateOK(st') /\ Eff(st', c) = to /\ \A x \in Caps \ {c} : Eff(st', x) = Eff(st, x)
  BY DEF Changed
<1>3. EvidenceFresh'
  <2>1. ASSUME Evidence(st)  PROVE Evidence(st')
    BY <1>1, <2>1, EvidenceKept
  <2>2. torn \/ Evidence(st)
    BY EvidenceIs DEF Inv
  <2>3. torn' \/ Evidence(st')
    BY <2>1, <2>2
  <2>4. QED
    BY <2>3 DEF EvidenceFresh, Evidence
<1>4. \A x \in Caps : Eff(st, x) \in Levels
  BY <1>1, CapOf
<1>5. Rise
  <2> SUFFICES ASSUME NEW x \in Caps, Eff(st', x) > Eff(st, x), Eff(st', x) > 0
               PROVE  FALSE
    BY DEF Rise
  <2>1. CASE x = c
    BY <1>2, <1>4, <2>1 DEF Levels
  <2>2. CASE x # c
    BY <1>2, <1>4, <2>2 DEF Levels
  <2>3. QED
    BY <2>1, <2>2
<1>6. QED
  BY <1>2, <1>3, <1>5

\* Steps of startup and of the operator that touch neither the state file, nor
\* the log, nor a call.
LEMMA QuietKept ==
  ASSUME Inv, UNCHANGED <<st, seen, call, log, lastKnown, torn, overrides>>,
         \/ Boot \/ ReconcileSame \/ ReconcileDone
         \/ \E e \in Configs : EditConfig(e)
         \/ \E m \in Known : ReplaceModel(m)
  PROVE  Kept
<1>1. StateOK(st') /\ EvidenceFresh' /\ Rise
  BY StKept
<1>2. CountOK(count') /\ (count'["outages"] = 0 => count["outages"] = 0)
  <2>1. CASE UNCHANGED count
    BY <2>1, TypeParts DEF Inv
  <2>2. CASE Once("edits")
    <3>1. "edits" \in DOMAIN Bounds
      BY BoundsKinds
    <3>2. QED
      BY <2>2, <3>1, CountKept DEF Inv
  <2>3. QED
    BY <2>1, <2>2 DEF Boot, ReconcileSame, ReconcileDone, EditConfig, ReplaceModel
<1>3. /\ config' \in Configs /\ model' \in Known /\ pc' \in Phase
      /\ todo' \in SUBSET Caps /\ reg' \in Configs
  BY TypeParts DEF Inv, Boot, ReconcileSame, ReconcileDone, EditConfig, ReplaceModel, Phase
<1>4. TypeOK'
  BY <1>1, <1>2, <1>3, TypeParts DEF Inv, TypeOK, StateOK, Phase, CountOK
<1>5. \/ pc' = pc /\ pc # "apply"
      \/ pc \notin {"change", "serving"} /\ pc' \notin {"change", "serving", "apply"}
  BY DEF Boot, ReconcileSame, ReconcileDone, EditConfig, ReplaceModel
<1>6. Phases'
  BY <1>5 DEF Inv, Phases
<1>7. ModelSeen'
  BY <1>2, <1>5 DEF Inv, ModelSeen, Eff
<1>8. Answered
  BY <1>5 DEF Answered
<1>9. QED
  BY <1>1, <1>4, <1>6, <1>7, <1>8 DEF Kept, Inv

\* startup.reconcile logs the level it is about to set.
LEMMA ReconcileEmitKept ==
  ASSUME Inv, ReconcileEmit
  PROVE  Kept
<1>1. /\ pc = "reconcile" /\ todo # {} /\ Wanted # Actual /\ pc' = "apply"
      /\ log' = Logged(Visited, Actual, Wanted)
      /\ UNCHANGED <<config, model, st, todo, reg, seen, call, lastKnown, torn, count, overrides>>
  BY DEF ReconcileEmit
<1>2. Visited \in Caps /\ Wanted \in Levels /\ Actual \in Levels
  BY <1>1, VisitedOK DEF Inv
<1>3. log \in [Caps -> Entry]
  BY TypeParts DEF Inv
<1>4. log' \in [Caps -> Entry] /\ (Wanted > Actual => log'[Visited].grant = Wanted)
  BY <1>1, <1>2, <1>3, LoggedOK
<1>5. StateOK(st') /\ EvidenceFresh' /\ Rise
  BY <1>1, StKept
<1>6. TypeOK'
  BY <1>1, <1>4, <1>5, TypeParts, TypeNext DEF Inv, Phase
<1>7. Phases'
  <2>1. \A r \in Callers : ~call[r].busy /\ call[r] = Idle
    BY <1>1 DEF Inv, Phases
  <2>2. Visited' = Visited /\ Wanted' = Wanted /\ Actual' = Actual
    BY <1>1 DEF Visited, Wanted, Actual, Eff
  <2>3. QED
    BY <1>1, <1>4, <2>1, <2>2 DEF Phases
<1>8. ModelSeen'
  BY <1>1 DEF Inv, ModelSeen, Eff
<1>9. Answered
  BY <1>1 DEF Answered
<1>10. QED
  BY <1>5, <1>6, <1>7, <1>8, <1>9 DEF Kept, Inv

\* What startup.reconcile then sets.
LEMMA AppliedIs ==
  ASSUME Inv, pc = "apply"
  PROVE  /\ Visited \in Caps
         /\ Wanted > Actual => Changed(st, Applied, Visited, Wanted, st.caps[Visited].outcomes)
                               /\ log[Visited].grant = Wanted
         /\ ~(Wanted > Actual) => Changed(st, Applied, Visited, Wanted, <<>>)
                                  /\ Wanted <= Actual
<1>1. todo # {} /\ (Wanted > Actual => log[Visited].grant = Wanted)
  BY DEF Inv, Phases
<1>2. Visited \in Caps /\ Wanted \in Levels /\ Wanted # -1 /\ Actual \in Levels
  BY <1>1, VisitedOK DEF Inv
<1>3. StateOK(st)
  BY TypeParts DEF Inv
<1>4. ASSUME Wanted > Actual
      PROVE  Changed(st, Applied, Visited, Wanted, st.caps[Visited].outcomes)
  <2>1. CASE Actual = -1
    BY <1>2, <1>3, <1>4, <2>1, Raising DEF Applied
  <2>2. CASE Actual # -1
    <3>1. st.caps[Visited].status # "suspended"
      BY <2>2 DEF Actual, Eff
    <3>2. Applied = Raised(st, Visited, Wanted)
      BY <1>4, <2>2 DEF Applied
    <3>3. Changed(st, Applied, Visited,
                  IF st.caps[Visited].status = "suspended" THEN -1 ELSE Wanted,
                  st.caps[Visited].outcomes)
      BY <1>2, <1>3, <3>2, Raising
    <3>4. QED
      BY <3>1, <3>3
  <2>3. QED
    BY <2>1, <2>2
<1>5. ASSUME ~(Wanted > Actual)
      PROVE  Changed(st, Applied, Visited, Wanted, <<>>)
  BY <1>2, <1>3, <1>5, Lowering DEF Applied
<1>6. ~(Wanted > Actual) => Wanted <= Actual
  BY <1>2 DEF Levels
<1>7. QED
  BY <1>1, <1>2, <1>4, <1>5, <1>6

\* Setting it raises no more than was granted.
LEMMA ReconcileApplyKept ==
  ASSUME Inv, ReconcileApply
  PROVE  Kept
<1>1. /\ pc = "apply" /\ pc' = "reconcile" /\ st' = Applied /\ todo' = todo \ {Visited}
      /\ UNCHANGED <<config, model, reg, seen, call, log, lastKnown, torn, count, overrides>>
  BY DEF ReconcileApply
<1>2. StateOK(st) /\ Visited \in Caps /\ Wanted \in Levels
  <2>1. todo # {}
    BY <1>1 DEF Inv, Phases
  <2>2. QED
    BY <2>1, VisitedOK, TypeParts DEF Inv
<1>3. \A x \in Caps : Eff(st, x) \in Levels
  BY <1>2, CapOf
<1>4. StateOK(st') /\ st'.model = st.model /\ EvidenceFresh' /\ Rise
  <2>1. CASE Wanted > Actual
    <3>1. Changed(st, st', Visited, Wanted, st.caps[Visited].outcomes) /\ log'[Visited].grant = Wanted
      BY <1>1, <2>1, AppliedIs
    <3>2. Wanted >= Eff(st, Visited)
      BY <1>2, <1>3, <2>1 DEF Actual, Levels
    <3>3. Evidence(st) => Evidence(st')
      BY <1>2, <3>1, <3>2, EvidenceKept
    <3>4. EvidenceFresh'
      <4>1. torn' \/ Evidence(st')
        BY <1>1, <3>3, EvidenceIs DEF Inv
      <4>2. QED
        BY <4>1 DEF EvidenceFresh, Evidence
    <3>5. Rise
      <4> SUFFICES ASSUME NEW x \in Caps, Eff(st', x) > Eff(st, x), Eff(st', x) > 0
                   PROVE  log'[x].grant = Eff(st', x)
        BY DEF Rise
      <4>1. CASE x = Visited
        BY <3>1, <4>1 DEF Changed
      <4>2. CASE x # Visited
        BY <1>3, <3>1, <4>2 DEF Changed, Levels
      <4>3. QED
        BY <4>1, <4>2
    <3>6. QED
      BY <3>1, <3>4, <3>5 DEF Changed
  <2>2. CASE ~(Wanted > Actual)
    <3>1. Changed(st, st', Visited, Wanted, <<>>) /\ Wanted <= Eff(st, Visited)
      BY <1>1, <2>2, AppliedIs DEF Actual
    <3>2. StateOK(st') /\ EvidenceFresh' /\ Rise
      BY <1>1, <1>2, <3>1, StLowered
    <3>3. QED
      BY <3>1, <3>2 DEF Changed
  <2>3. QED
    BY <2>1, <2>2
<1>5. TypeOK'
  BY <1>1, <1>4, TypeParts, TypeNext DEF Inv, Phase
<1>6. Phases'
  BY <1>1 DEF Inv, Phases
<1>7. ModelSeen'
  BY <1>1, <1>4 DEF Inv, ModelSeen
<1>8. Answered
  BY <1>1 DEF Answered
<1>9. QED
  BY <1>4, <1>5, <1>6, <1>7, <1>8 DEF Kept, Inv

\* A startup that is told another model announces every capability.
LEMMA ReadModelKept ==
  ASSUME Inv, NEW m \in Known \cup {None}, ReadModel(m)
  PROVE  Kept
<1>1. /\ pc = "model" /\ pc' = "change" /\ seen' = m
      /\ call' = IF st.model # None /\ m # None /\ st.model # m
                 THEN [call EXCEPT ![Main] = Announced(Caps)] ELSE call
      /\ UNCHANGED <<config, model, st, todo, reg, log, lastKnown, torn, overrides>>
  BY DEF ReadModel
<1>2. CountOK(count') /\ (count'["outages"] = 0 => count["outages"] = 0 /\ m # None)
  <2>1. CASE m = model /\ UNCHANGED count
    <3>1. model # None
      BY TrustAssumption DEF Inv, TypeOK, Known
    <3>2. QED
      BY <2>1, <3>1, TypeParts DEF Inv
  <2>2. CASE m = None /\ Once("outages")
    <3>1. "outages" \in DOMAIN Bounds
      BY BoundsKinds
    <3>2. QED
      BY <2>2, <3>1, CountKept DEF Inv
  <2>3. QED
    BY <2>1, <2>2 DEF ReadModel
<1>3. StateOK(st') /\ EvidenceFresh' /\ Rise
  BY <1>1, StKept
<1>4. Announced(Caps) \in Call /\ Announced(Caps).busy /\ Announced(Caps).todo = Caps
  BY IdleOK
<1>5. call \in [Callers -> Call] /\ Main \in Callers /\ Main \notin Requests
  BY TypeParts, TrustAssumption DEF Inv, Callers
<1>6. /\ call' \in [Callers -> Call] /\ \A r \in Requests : call'[r] = call[r]
      /\ call'[Main] = call[Main] \/ call'[Main] = Announced(Caps)
  BY <1>1, <1>4, <1>5 DEF Callers
<1>7. TypeOK'
  BY <1>1, <1>2, <1>3, <1>6, TypeParts, TypeNext DEF Inv, Phase
<1>8. Phases'
  BY <1>1, <1>4, <1>6 DEF Inv, Phases, Callers
<1>9. ModelSeen'
  <2>1. count'["outages"] = 0 => st'.model = lastKnown' /\ seen' # None
    BY <1>1, <1>2 DEF Inv, ModelSeen
  <2>2. ASSUME seen' # None, st'.model \notin {None, seen'}
        PROVE  call'[Main].busy /\ call'[Main].todo = Caps
    BY <1>1, <1>4, <1>5, <2>2
  <2>3. QED
    BY <1>1, <2>1, <2>2 DEF ModelSeen
<1>10. Answered
  BY <1>1 DEF Answered
<1>11. QED
  BY <1>3, <1>7, <1>8, <1>9, <1>10 DEF Kept, Inv

\* Recording hash and model at the end of a startup.
LEMMA FinishKept ==
  ASSUME Inv, Finish
  PROVE  Kept
<1>1. /\ pc = "change" /\ pc' = "serving" /\ ~call[Main].busy
      /\ st' = [caps |-> st.caps, hash |-> reg, model |-> seen]
      /\ lastKnown' = IF seen = None THEN lastKnown ELSE seen
      /\ UNCHANGED <<config, model, todo, reg, seen, call, log, torn, count, overrides>>
  BY DEF Finish
<1>2. StateOK(st) /\ reg \in Configs /\ seen \in Known \cup {None}
  BY TypeParts DEF Inv
<1>3. st'.caps = st.caps /\ st'.hash = reg /\ st'.model = seen
  BY <1>1
<1>4. StateOK(st')
  BY <1>1, <1>2, <1>3 DEF StateOK
<1>5. \A c \in Caps : Eff(st', c) = Eff(st, c) /\ Eff(st, c) \in Levels
  BY <1>2, <1>3, CapOf DEF Eff
<1>6. EvidenceFresh'
  BY <1>1, <1>3, <1>5 DEF Inv, EvidenceFresh
<1>7. Rise
  BY <1>5 DEF Rise, Levels
<1>8. TypeOK'
  BY <1>1, <1>2, <1>4, TypeParts, TypeNext DEF Inv, Phase
<1>9. Phases'
  BY <1>1 DEF Inv, Phases
<1>10. ModelSeen'
  BY <1>1, <1>3 DEF Inv, ModelSeen
<1>11. Answered
  <2> SUFFICES ASSUME seen # None, lastKnown \notin {None, seen}, count.outages = 0, NEW c \in Caps
               PROVE  Eff(st', c) <= 0
    BY DEF Answered
  <2>1. count["outages"] = 0
    OBVIOUS
  <2>2. st.model = lastKnown
    BY <2>1 DEF Inv, ModelSeen
  <2>3. Eff(st, c) = 0
    BY <1>1, <2>2 DEF Inv, ModelSeen
  <2>4. QED
    BY <1>5, <2>3
<1>12. QED
  BY <1>6, <1>7, <1>8, <1>9, <1>10, <1>11 DEF Kept, Inv

-----------------------------------------------------------------------------
\* _execute_demotion up to its await.
LEMMA DemoteDoes ==
  ASSUME Inv, torn' = torn, NEW r \in Callers, NEW c \in Caps, NEW to \in Levels,
         to <= 0 \/ to <= Eff(st, c), NEW rest \in SUBSET Caps, Demote(r, c, to, rest)
  PROVE  /\ Changed(st, st', c, to, <<>>)
         /\ StateOK(st') /\ EvidenceFresh' /\ Rise
         /\ call' \in [Callers -> Call] /\ call'[r].busy /\ call'[r].todo = rest
         /\ \A x \in Callers \ {r} : call'[x] = call[x]
<1>1. StateOK(st) /\ call \in [Callers -> Call]
  BY TypeParts DEF Inv
<1>2. Changed(st, st', c, to, <<>>)
  BY <1>1, Lowering DEF Demote
<1>3. StateOK(st') /\ EvidenceFresh' /\ Rise
  BY <1>2, StLowered
<1> DEFINE k == [busy |-> TRUE, cap |-> c, from |-> Eff(st, c), to |-> to, todo |-> rest]
<1>4. Eff(st, c) \in Levels
  BY <1>1, CapOf
<1>5. k \in Call /\ k.busy /\ k.todo = rest
  BY <1>4 DEF Call
<1>6. call' = [call EXCEPT ![r] = k]
  BY DEF Demote
<1> HIDE DEF k
<1>7. QED
  BY <1>1, <1>2, <1>3, <1>5, <1>6

\* An answered event, and the next demotion of a model change.
LEMMA EmitDoneKept ==
  ASSUME Inv, NEW r \in Callers, EmitDone(r)
  PROVE  Kept
<1> DEFINE left == {c \in call[r].todo : Eff(st, c) # 0}
<1>1. /\ call[r].busy
      /\ log' = IF call[r].cap = None THEN log ELSE Logged(call[r].cap, call[r].from, call[r].to)
      /\ UNCHANGED <<config, model, pc, todo, reg, seen, lastKnown, torn, count, overrides>>
  BY DEF EmitDone
<1>2. StateOK(st) /\ call \in [Callers -> Call] /\ log \in [Caps -> Entry]
  BY TypeParts DEF Inv
<1>3. pc \in {"change", "serving"} /\ (pc = "change" => r = Main)
  BY <1>1 DEF Inv, Phases, Callers
<1>4. log' \in [Caps -> Entry]
  <2>1. call[r].cap \in Caps \cup {None} /\ call[r].from \in Levels /\ call[r].to \in Levels
    BY <1>2 DEF Call
  <2>2. QED
    BY <1>1, <1>2, <2>1, LoggedOK
<1>5. call[r].todo \in SUBSET Caps
  BY <1>2 DEF Call
<1>6. /\ StateOK(st') /\ EvidenceFresh' /\ Rise /\ st'.model = st.model
      /\ call' \in [Callers -> Call] /\ \A x \in Callers \ {r} : call'[x] = call[x]
      /\ ~call'[r].busy => call'[r] = Idle
      /\ \A x \in Caps : Eff(st, x) = 0 \/ x \in call[r].todo
                           => Eff(st', x) = 0 \/ (call'[r].busy /\ x \in call'[r].todo)
  <2>1. CASE left = {} /\ call' = [call EXCEPT ![r] = Idle] /\ UNCHANGED st
    <3>1. StateOK(st') /\ EvidenceFresh' /\ Rise
      BY <1>1, <2>1, StKept
    <3>2. call' \in [Callers -> Call] /\ call'[r] = Idle /\ \A x \in Callers \ {r} : call'[x] = call[x]
      BY <1>2, <2>1, IdleOK
    <3>3. \A x \in Caps : Eff(st', x) = Eff(st, x)
      BY <2>1
    <3>4. \A x \in call[r].todo : Eff(st, x) = 0
      BY <2>1
    <3>5. QED
      BY <2>1, <3>1, <3>2, <3>3, <3>4
  <2>2. CASE \E c \in left : \E passed \in SUBSET (call[r].todo \ left) :
               Demote(r, c, 0, call[r].todo \ (passed \cup {c}))
    <3>1. PICK c \in left, passed \in SUBSET (call[r].todo \ left) :
            Demote(r, c, 0, call[r].todo \ (passed \cup {c}))
      BY <2>2
    <3> DEFINE rest == call[r].todo \ (passed \cup {c})
    <3>2. c \in Caps /\ rest \in SUBSET Caps /\ 0 \in Levels
      BY <1>5 DEF Levels
    <3>3. /\ Changed(st, st', c, 0, <<>>)
          /\ StateOK(st') /\ EvidenceFresh' /\ Rise
          /\ call' \in [Callers -> Call] /\ call'[r].busy /\ call'[r].todo = rest
          /\ \A x \in Callers \ {r} : call'[x] = call[x]
      <4>1. Demote(r, c, 0, rest)
        BY <3>1
      <4> HIDE DEF left, rest
      <4> QED  BY <1>1, <3>2, <4>1, DemoteDoes
    <3>4. st'.model = st.model /\ Eff(st', c) = 0 /\ \A x \in Caps \ {c} : Eff(st', x) = Eff(st, x)
      BY <3>3 DEF Changed
    <3>5. QED
      BY <3>3, <3>4
  <2>3. QED
    BY <2>1, <2>2 DEF EmitDone
<1>7. TypeOK'
  BY <1>1, <1>4, <1>6, TypeParts, TypeNext DEF Inv
<1>8. Phases'
  BY <1>1, <1>3, <1>6 DEF Inv, Phases, Callers
<1>9. ModelSeen'
  BY <1>1, <1>3, <1>6 DEF Inv, ModelSeen
<1>10. Answered
  BY <1>1 DEF Answered
<1>11. QED
  BY <1>6, <1>7, <1>8, <1>9, <1>10 DEF Kept, Inv

\* A failed event ends the call, the demotion stays.
LEMMA EmitFailsKept ==
  ASSUME Inv, NEW r \in Callers, EmitFails(r)
  PROVE  Kept
<1>1. /\ call[r].busy /\ r # Main /\ Once("emitFailures")
      /\ call' = [call EXCEPT ![r] = Idle]
      /\ UNCHANGED <<config, model, st, pc, todo, reg, seen, log, lastKnown, torn, overrides>>
  BY DEF EmitFails
<1>2. CountOK(count') /\ (count'["outages"] = 0 => count["outages"] = 0)
  <2>1. "emitFailures" \in DOMAIN Bounds
    BY BoundsKinds
  <2>2. QED
    BY <1>1, <2>1, CountKept DEF Inv
<1>3. StateOK(st') /\ EvidenceFresh' /\ Rise
  BY <1>1, StKept
<1>4. call \in [Callers -> Call] /\ Idle \in Call
  BY TypeParts, IdleOK DEF Inv
<1>5. call' \in [Callers -> Call] /\ call'[r] = Idle /\ \A x \in Callers \ {r} : call'[x] = call[x]
  BY <1>1, <1>4
<1>6. TypeOK'
  BY <1>1, <1>2, <1>3, <1>5, TypeParts, TypeNext DEF Inv
<1>7. pc = "serving"
  BY <1>1 DEF Inv, Phases, Callers
<1>8. Phases' /\ ModelSeen' /\ Answered
  BY <1>1, <1>2, <1>5, <1>7 DEF Inv, Phases, ModelSeen, Answered
<1>9. QED
  BY <1>3, <1>6, <1>8 DEF Kept, Inv

\* A request while serving, whatever it did to the state file.
LEMMA ServingKept ==
  ASSUME Inv, pc = "serving", NEW k \in DOMAIN Bounds, k # "outages", Once(k),
         UNCHANGED <<config, model, pc, todo, reg, seen, lastKnown, log, torn>>,
         overrides' \in [Caps -> Nat],
         StateOK(st'), st'.model = st.model, EvidenceFresh', Rise,
         call' \in [Callers -> Call], \A x \in Callers : ~call'[x].busy => call'[x] = Idle
  PROVE  Kept
<1>1. CountOK(count') /\ (count'["outages"] = 0 => count["outages"] = 0)
  BY CountKept DEF Inv
<1>2. TypeOK'
  BY <1>1, TypeParts, TypeNext DEF Inv
<1>3. Phases' /\ ModelSeen' /\ Answered
  BY <1>1 DEF Inv, Phases, ModelSeen, Answered
<1>4. QED
  BY <1>2, <1>3 DEF Kept, Inv

\* A request that demotes at once.
LEMMA DemotionKept ==
  ASSUME Inv, NEW r \in Requests, Serving(r), NEW c \in Caps, NEW to \in Levels,
         to <= 0 \/ to <= Eff(st, c), Demote(r, c, to, {})
  PROVE  Kept
<1>1. pc = "serving" /\ Once("calls")
      /\ UNCHANGED <<config, model, pc, todo, reg, seen, log, lastKnown, torn, overrides>>
  BY DEF Serving
<1>2. "calls" \in DOMAIN Bounds /\ "calls" # "outages" /\ r \in Callers /\ {} \in SUBSET Caps
  BY BoundsKinds DEF Callers
<1>3. /\ Changed(st, st', c, to, <<>>)
      /\ StateOK(st') /\ EvidenceFresh' /\ Rise
      /\ call' \in [Callers -> Call] /\ call'[r].busy
      /\ \A x \in Callers \ {r} : call'[x] = call[x]
  BY <1>1, <1>2, DemoteDoes
<1>4. \A x \in Callers : ~call'[x].busy => call'[x] = Idle
  BY <1>3 DEF Inv, Phases
<1>5. st'.model = st.model /\ overrides' \in [Caps -> Nat]
  BY <1>1, <1>3, TypeParts DEF Inv, Changed
<1>6. QED
  BY <1>1, <1>2, <1>3, <1>4, <1>5, ServingKept

\* The job manager's own demotion event, which leaves the state file alone.
LEMMA DemoteForOverrideKept ==
  ASSUME Inv, NEW r \in Requests, NEW c \in Caps, DemoteForOverride(r, c)
  PROVE  Kept
<1> DEFINE k == [busy |-> TRUE, cap |-> c, from |-> 0, to |-> -1, todo |-> {}]
<1>1. /\ pc = "serving" /\ Once("calls") /\ call' = [call EXCEPT ![r] = k]
      /\ overrides' = [overrides EXCEPT ![c] = overrides[c] + 1]
      /\ UNCHANGED <<config, model, st, pc, todo, reg, seen, log, lastKnown, torn>>
  BY DEF DemoteForOverride
<1>2. "calls" \in DOMAIN Bounds /\ "calls" # "outages" /\ r \in Callers
  BY BoundsKinds DEF Callers
<1>3. call \in [Callers -> Call] /\ overrides \in [Caps -> Nat]
  BY TypeParts DEF Inv
<1>4. k \in Call /\ k.busy
  BY DEF Call, Levels
<1>5. call' \in [Callers -> Call] /\ \A x \in Callers : ~call'[x].busy => call'[x] = Idle
  <2> HIDE DEF k
  <2>1. call'[r] = k /\ \A x \in Callers \ {r} : call'[x] = call[x]
    BY <1>1, <1>2, <1>3
  <2>2. QED
    BY <1>1, <1>3, <1>4, <2>1 DEF Inv, Phases
<1>6. overrides' \in [Caps -> Nat]
  BY <1>1, <1>3
<1>7. StateOK(st') /\ EvidenceFresh' /\ Rise /\ st'.model = st.model
  BY <1>1, StKept
<1>8. QED
  BY <1>1, <1>2, <1>5, <1>6, <1>7, ServingKept

\* A request that demotes nothing at once.
LEMMA RequestKept ==
  ASSUME Inv, NEW r \in Requests, Serving(r), StateOK(st'), st'.model = st.model,
         EvidenceFresh', Rise,
         call' = call \/ \E a \in SUBSET Caps : call' = [call EXCEPT ![r] = Announced(a)]
  PROVE  Kept
<1>1. pc = "serving" /\ Once("calls")
      /\ UNCHANGED <<config, model, pc, todo, reg, seen, log, lastKnown, torn, overrides>>
  BY DEF Serving
<1>2. "calls" \in DOMAIN Bounds /\ "calls" # "outages" /\ r \in Callers
  BY BoundsKinds DEF Callers
<1>3. call \in [Callers -> Call]
  BY TypeParts DEF Inv
<1>4. call' \in [Callers -> Call] /\ \A x \in Callers : ~call'[x].busy => call'[x] = Idle
  <2>1. CASE call' = call
    BY <1>3, <2>1 DEF Inv, Phases
  <2>2. CASE \E a \in SUBSET Caps : call' = [call EXCEPT ![r] = Announced(a)]
    <3>1. PICK a \in SUBSET Caps : call' = [call EXCEPT ![r] = Announced(a)]
      BY <2>2
    <3>2. Announced(a) \in Call /\ Announced(a).busy
      BY IdleOK
    <3>3. call'[r] = Announced(a) /\ \A x \in Callers \ {r} : call'[x] = call[x]
      BY <1>2, <1>3, <3>1
    <3>4. QED
      BY <1>2, <1>3, <3>1, <3>2, <3>3 DEF Inv, Phases
  <2>3. QED
    BY <2>1, <2>2
<1>5. overrides' \in [Caps -> Nat]
  BY <1>1, TypeParts DEF Inv
<1>6. QED
  BY <1>1, <1>2, <1>4, <1>5, ServingKept

\* One level below a level above 0.
LEMMA OneLower ==
  ASSUME Inv, NEW c \in Caps, Eff(st, c) >= 1
  PROVE  Eff(st, c) - 1 \in Levels /\ Eff(st, c) - 1 <= Eff(st, c)
<1>1. Eff(st, c) \in Levels
  BY TypeParts, CapOf DEF Inv
<1>2. QED
  BY <1>1 DEF Levels

\* Every handler keeps the invariant.
LEMMA HandlersKept ==
  ASSUME Inv, Handlers
  PROVE  Kept
<1>1. CASE \E r \in Callers : EmitDone(r)
  BY <1>1, EmitDoneKept
<1>2. CASE \E r \in Callers : EmitFails(r)
  BY <1>2, EmitFailsKept
<1>3. ASSUME NEW r \in Requests, NEW c \in Caps, Override(r, c)
      PROVE  Kept
  BY <1>3, OneLower, DemotionKept DEF Override
<1>4. ASSUME NEW r \in Requests, NEW c \in Caps, JobFailure(r, c)
      PROVE  Kept
  <2>1. StateOK(st) /\ Eff(st, c) \in Levels /\ st.caps[c].failures \in Nat
    BY TypeParts, CapOf DEF Inv
  <2>2. Serving(r)
    BY <1>4 DEF JobFailure
  <2>3. PICK kept \in 0 .. st.caps[c].failures :
          IF kept + 1 >= Threshold /\ Eff(st, c) > 0
          THEN Demote(r, c, Eff(st, c) - 1, {})
          ELSE st' = Failed(st, c, kept) /\ UNCHANGED call
    BY <1>4 DEF JobFailure
  <2>4. CASE Eff(st, c) > 0 /\ Demote(r, c, Eff(st, c) - 1, {})
    <3>1. Eff(st, c) >= 1
      BY <2>1, <2>4 DEF Levels
    <3>2. QED
      BY <2>2, <2>4, <3>1, OneLower, DemotionKept
  <2>5. CASE st' = Failed(st, c, kept) /\ UNCHANGED call
    <3>1. kept \in Nat
      BY <2>1
    <3>2. Changed(st, st', c, Eff(st, c), st.caps[c].outcomes)
      BY <2>1, <2>5, <3>1, Failing
    <3>3. StateOK(st') /\ st'.model = st.model /\ \A x \in Caps : Eff(st', x) = Eff(st, x)
      BY <3>2 DEF Changed
    <3>4. Evidence(st) => Evidence(st')
      <4>1. Eff(st, c) >= Eff(st, c)
        BY <2>1 DEF Levels
      <4>2. QED
        BY <2>1, <3>2, <4>1, EvidenceKept
    <3>5. EvidenceFresh'
      <4>1. torn' \/ Evidence(st')
        BY <2>2, <3>4, EvidenceIs DEF Inv, Serving
      <4>2. QED
        BY <4>1 DEF EvidenceFresh, Evidence
    <3>6. Rise
      <4>1. \A x \in Caps : Eff(st, x) \in Levels
        BY <2>1, CapOf
      <4>2. QED
        BY <3>3, <4>1 DEF Rise, Levels
    <3>7. QED
      BY <2>2, <2>5, <3>3, <3>5, <3>6, RequestKept
  <2>6. QED
    BY <2>3, <2>4, <2>5
<1>5. ASSUME NEW r \in Requests, Strip(r)
      PROVE  Kept
  <2>1. Packager \in Caps /\ -1 \in Levels /\ -1 <= 0
    BY TrustAssumption DEF Levels
  <2>2. QED
    BY <1>5, <2>1, DemotionKept DEF Strip
<1>6. ASSUME NEW r \in Requests, NEW c \in Caps, Decay(r, c)
      PROVE  Kept
  <2>1. Serving(r) /\ Eff(st, c) = 3 /\ Demote(r, c, 2, {})
    BY <1>6 DEF Decay
  <2>2. 2 \in Levels /\ 2 <= Eff(st, c)
    BY <2>1 DEF Levels
  <2>3. QED
    BY <2>1, <2>2, DemotionKept
<1>7. ASSUME NEW r \in Requests, NEW a \in SUBSET Caps, ModelChange(r, a)
      PROVE  Kept
  <2>1. Serving(r) /\ call' = [call EXCEPT ![r] = Announced(a)] /\ st' = st /\ torn' = torn
    BY <1>7 DEF ModelChange, Serving
  <2>2. StateOK(st') /\ EvidenceFresh' /\ Rise
    BY <2>1, StKept
  <2>3. QED
    BY <2>1, <2>2, RequestKept
<1>8. ASSUME NEW c \in Caps, NEW good \in BOOLEAN, RecordOutcome(c, good)
      PROVE  Kept
  <2>1. /\ pc = "serving" /\ Once("outcomes") /\ st' = Recorded(st, c, good)
        /\ UNCHANGED <<config, model, pc, todo, reg, seen, call, log, lastKnown, torn, overrides>>
    BY <1>8 DEF RecordOutcome
  <2>2. StateOK(st) /\ call \in [Callers -> Call] /\ \A x \in Caps : Eff(st, x) \in Levels
    BY TypeParts, CapOf DEF Inv
  <2>3. StateOK(st') /\ st'.model = st.model /\ \A x \in Caps : Eff(st', x) = Eff(st, x)
    BY <2>1, <2>2, Recording DEF Changed
  <2>4. EvidenceFresh'
    <3>1. torn' \/ Evidence(st')
      BY <2>1, <2>2, EvidenceRecorded, EvidenceIs DEF Inv
    <3>2. QED
      BY <3>1 DEF EvidenceFresh, Evidence
  <2>5. Rise
    BY <2>2, <2>3 DEF Rise, Levels
  <2>6. "outcomes" \in DOMAIN Bounds /\ "outcomes" # "outages"
    BY BoundsKinds
  <2>7. /\ \A x \in Callers : ~call'[x].busy => call'[x] = Idle
        /\ overrides' \in [Caps -> Nat]
    BY <2>1, TypeParts DEF Inv, Phases
  <2>8. QED
    BY <2>1, <2>2, <2>3, <2>4, <2>5, <2>6, <2>7, ServingKept
<1>9. ASSUME NEW r \in Requests, NEW c \in Caps, DemoteForOverride(r, c)
      PROVE  Kept
  BY <1>9, DemoteForOverrideKept
<1>10. QED
  BY <1>1, <1>2, <1>3, <1>4, <1>5, <1>6, <1>7, <1>8, <1>9 DEF Handlers

-----------------------------------------------------------------------------
\* A death that leaves s in the file.
LEMMA DieKept ==
  ASSUME Inv, NEW s, StateOK(s), s.model = st.model, Die(s),
         EvidenceFresh', Rise, torn' \in BOOLEAN
  PROVE  Kept
<1>1. /\ st' = s /\ pc' = "off" /\ todo' = {} /\ seen' = None
      /\ call' = [r \in Callers |-> Idle] /\ Once("crashes")
      /\ UNCHANGED <<config, model, reg, log, lastKnown, overrides>>
  BY DEF Die
<1>2. CountOK(count') /\ (count'["outages"] = 0 => count["outages"] = 0)
  <2>1. "crashes" \in DOMAIN Bounds
    BY BoundsKinds
  <2>2. QED
    BY <1>1, <2>1, CountKept DEF Inv
<1>3. call' \in [Callers -> Call] /\ \A r \in Callers : call'[r] = Idle /\ ~call'[r].busy
  BY <1>1, IdleOK
<1>4. TypeOK'
  BY <1>1, <1>2, <1>3, TypeParts, TypeNext DEF Inv, Phase
<1>5. Phases' /\ Answered
  BY <1>1, <1>3 DEF Phases, Answered
<1>6. ModelSeen'
  BY <1>1, <1>2 DEF Inv, ModelSeen
<1>7. QED
  BY <1>4, <1>5, <1>6 DEF Kept, Inv

\* What a death could interrupt never raises.
LEMMA DemotingLowers ==
  ASSUME Inv, NEW c \in Caps, NEW to \in Levels, Demoting(c, to)
  PROVE  to <= 0 \/ to <= Eff(st, c)
<1>1. Eff(st, c) \in Levels
  BY TypeParts, CapOf DEF Inv
<1>2. CASE Eff(st, c) >= 1 /\ to = Eff(st, c) - 1
  BY <1>1, <1>2 DEF Levels
<1>3. CASE to = -1 \/ to = 0
  BY <1>3
<1>4. CASE c = Visited /\ Wanted < Actual /\ to = Wanted
  BY <1>1, <1>4 DEF Actual, Levels
<1>5. QED
  BY <1>2, <1>3, <1>4 DEF Demoting

\* Deaths, those between two saves included, keep the invariant.
LEMMA DeathsKept ==
  ASSUME Inv, Crash \/ TornDemotion \/ TornPromotion
  PROVE  Kept
<1>1. StateOK(st) /\ torn \in BOOLEAN /\ \A x \in Caps : Eff(st, x) \in Levels
  BY TypeParts, CapOf DEF Inv
<1>2. CASE Crash
  <2>1. Die(st) /\ st' = st /\ torn' = torn
    BY <1>2 DEF Crash, Die
  <2>2. QED
    BY <1>1, <2>1, StKept, DieKept
<1>3. CASE TornDemotion
  <2>1. PICK c \in Caps, to \in Levels : Demoting(c, to) /\ Die(Demoted(st, c, to))
    BY <1>3 DEF TornDemotion
  <2>2. torn' = TRUE /\ st' = Demoted(st, c, to)
    BY <1>3, <2>1 DEF TornDemotion, Die
  <2>3. Changed(st, st', c, to, st.caps[c].outcomes)
    BY <1>1, <2>2, Lowering
  <2>4. to <= 0 \/ to <= Eff(st, c)
    BY <2>1, DemotingLowers
  <2>5. Rise
    <3> SUFFICES ASSUME NEW x \in Caps, Eff(st', x) > Eff(st, x), Eff(st', x) > 0
                 PROVE  FALSE
      BY DEF Rise
    <3>1. CASE x = c
      BY <1>1, <2>3, <2>4, <3>1 DEF Changed, Levels
    <3>2. CASE x # c
      BY <1>1, <2>3, <3>2 DEF Changed, Levels
    <3>3. QED
      BY <3>1, <3>2
  <2>6. EvidenceFresh' /\ torn' \in BOOLEAN
    BY <2>2 DEF EvidenceFresh
  <2>7. StateOK(Demoted(st, c, to)) /\ Demoted(st, c, to).model = st.model
    BY <2>2, <2>3 DEF Changed
  <2>8. QED
    BY <2>1, <2>5, <2>6, <2>7, DieKept
<1>4. CASE TornPromotion
  <2>1. /\ pc = "apply" /\ Wanted > Actual /\ torn' = TRUE
        /\ Die(Raised(st, Visited, Wanted)) /\ st' = Raised(st, Visited, Wanted) /\ log' = log
    BY <1>4 DEF TornPromotion, Die
  <2>2. todo # {} /\ log[Visited].grant = Wanted
    BY <2>1 DEF Inv, Phases
  <2>3. Visited \in Caps /\ Wanted \in Levels
    BY <2>2, VisitedOK DEF Inv
  <2>4. Changed(st, st', Visited, IF st.caps[Visited].status = "suspended" THEN -1 ELSE Wanted,
                st.caps[Visited].outcomes)
    BY <1>1, <2>1, <2>3, Raising
  <2>5. Rise
    <3> SUFFICES ASSUME NEW x \in Caps, Eff(st', x) > Eff(st, x), Eff(st', x) > 0
                 PROVE  log'[x].grant = Eff(st', x)
      BY DEF Rise
    <3>1. CASE x = Visited
      BY <2>1, <2>2, <2>4, <3>1 DEF Changed
    <3>2. CASE x # Visited
      BY <1>1, <2>4, <3>2 DEF Changed, Levels
    <3>3. QED
      BY <3>1, <3>2
  <2>6. EvidenceFresh' /\ torn' \in BOOLEAN
    BY <2>1 DEF EvidenceFresh
  <2>7. StateOK(Raised(st, Visited, Wanted)) /\ Raised(st, Visited, Wanted).model = st.model
    BY <2>1, <2>4 DEF Changed
  <2>8. QED
    BY <2>1, <2>5, <2>6, <2>7, DieKept
<1>5. QED
  BY <1>2, <1>3, <1>4

\* Every step of startup.run keeps the invariant.
LEMMA StartupKept ==
  ASSUME Inv, Startup
  PROVE  Kept
<1>1. CASE Boot \/ ReconcileSame \/ ReconcileDone
  <2>1. UNCHANGED <<st, seen, call, log, lastKnown, torn, overrides>>
    BY <1>1 DEF Boot, ReconcileSame, ReconcileDone
  <2>2. QED
    BY <1>1, <2>1, QuietKept
<1>2. CASE ReconcileEmit
  BY <1>2, ReconcileEmitKept
<1>3. CASE ReconcileApply
  BY <1>3, ReconcileApplyKept
<1>4. CASE \E m \in Known \cup {None} : ReadModel(m)
  BY <1>4, ReadModelKept
<1>5. CASE Finish
  BY <1>5, FinishKept
<1>6. QED
  BY <1>1, <1>2, <1>3, <1>4, <1>5 DEF Startup

\* Edits, new models and deaths keep the invariant.
LEMMA EnvironmentKept ==
  ASSUME Inv, Environment
  PROVE  Kept
<1>1. config \in Configs
  BY TypeParts DEF Inv
<1>2. CASE \E e \in Configs : EditConfig(e)
  <2>1. UNCHANGED <<st, seen, call, log, lastKnown, torn, overrides>>
    BY <1>2 DEF EditConfig
  <2>2. QED
    BY <1>2, <2>1, QuietKept
<1>3. CASE \E m \in Known : ReplaceModel(m)
  <2>1. UNCHANGED <<st, seen, call, log, lastKnown, torn, overrides>>
    BY <1>3 DEF ReplaceModel
  <2>2. QED
    BY <1>3, <2>1, QuietKept
<1>4. \A c \in Caps, level \in Desired : <<[config[1] EXCEPT ![c] = level], config[2]>> \in Configs
  BY <1>1 DEF Configs
<1>5. <<config[1], ~config[2]>> \in Configs
  BY <1>1 DEF Configs
<1>6. QED
  BY <1>2, <1>3, <1>4, <1>5, DeathsKept DEF Environment

\* Every step keeps the invariant and does what the properties ask.
LEMMA StepKept ==
  ASSUME Inv, [Next]_vars
  PROVE  Inv' /\ (UNCHANGED vars \/ (Rise /\ Answered))
<1>1. CASE Next
  BY <1>1, StartupKept, HandlersKept, EnvironmentKept DEF Next, Kept
<1>2. CASE UNCHANGED vars
  <2>1. TypeOK'
    BY <1>2 DEF Inv, TypeOK, vars
  <2>2. Phases'
    BY <1>2 DEF Inv, Phases, Visited, Wanted, Actual, Eff, vars
  <2>3. ModelSeen' /\ EvidenceFresh'
    BY <1>2 DEF Inv, ModelSeen, EvidenceFresh, Eff, vars
  <2>4. QED
    BY <1>2, <2>1, <2>2, <2>3 DEF Inv
<1>3. QED
  BY <1>1, <1>2

-----------------------------------------------------------------------------
(* The audit log and the levels: how many levels the calls in flight have  *)
(* climbed, as one call is replaced by another.                            *)

RisingRow(r, k) == {r} \X (k.from .. k.to - 1)
FallingRow(r, k) == {r} \X (k.to .. k.from - 1)
\* What the call k takes c up by.
Height(k, c) == IF k.cap = c THEN k.to - k.from ELSE 0

\* Of the calls f, the levels climbed with c, and those lost.
RisingOf(f, c) == {p \in Callers \X Levels : f[p[1]].cap = c /\ f[p[1]].from <= p[2] /\ p[2] < f[p[1]].to}
FallingOf(f, c) == {p \in Callers \X Levels : f[p[1]].cap = c /\ f[p[1]].to <= p[2] /\ p[2] < f[p[1]].from}
FlightOf(f, c) == Cardinality(RisingOf(f, c)) - Cardinality(FallingOf(f, c))

\* Finitely many calls climb or lose finitely many levels.
LEMMA FiniteFlights ==
  ASSUME NEW f, NEW c
  PROVE  /\ IsFiniteSet(RisingOf(f, c)) /\ IsFiniteSet(FallingOf(f, c))
         /\ Cardinality(RisingOf(f, c)) \in Nat /\ Cardinality(FallingOf(f, c)) \in Nat
<1>1. IsFiniteSet(Callers)
  <2>1. IsFiniteSet(Requests) /\ IsFiniteSet({Main})
    BY TrustAssumption, FS_Singleton
  <2>2. QED
    BY <2>1, FS_Union DEF Callers
<1>2. IsFiniteSet(Levels)
  <2>1. -1 \in Int /\ 3 \in Int
    OBVIOUS
  <2>2. QED
    BY <2>1, FS_Interval DEF Levels
<1>3. IsFiniteSet(Callers \X Levels)
  BY <1>1, <1>2, FS_Product
<1>4. RisingOf(f, c) \in SUBSET (Callers \X Levels) /\ FallingOf(f, c) \in SUBSET (Callers \X Levels)
  BY DEF RisingOf, FallingOf
<1>5. IsFiniteSet(RisingOf(f, c)) /\ IsFiniteSet(FallingOf(f, c))
  BY <1>3, <1>4, FS_Subset
<1>6. QED
  BY <1>5, FS_CardinalityType

\* The part of a set of crossed levels that is the caller r's own.
LEMMA RowSize ==
  ASSUME NEW r, NEW a \in Levels, NEW b \in Levels
  PROVE  /\ IsFiniteSet({r} \X (a .. b - 1))
         /\ Cardinality({r} \X (a .. b - 1)) = IF a < b THEN b - a ELSE 0
<1>1. a \in Int /\ b - 1 \in Int /\ b \in Int
  BY DEF Levels
<1>2. IsFiniteSet(a .. b - 1) /\ Cardinality(a .. b - 1) = IF a > b - 1 THEN 0 ELSE (b - 1) - a + 1
  BY <1>1, FS_Interval
<1>3. IsFiniteSet({r}) /\ Cardinality({r}) = 1
  BY FS_Singleton
<1>4. /\ IsFiniteSet({r} \X (a .. b - 1))
      /\ Cardinality({r} \X (a .. b - 1)) = Cardinality({r}) * Cardinality(a .. b - 1)
  BY <1>2, <1>3, FS_Product
<1>5. QED
  BY <1>1, <1>2, <1>3, <1>4

\* The calls other than r's, and r's own.
LEMMA FlightSplits ==
  ASSUME NEW f \in [Callers -> Call], NEW r \in Callers, NEW c \in Caps
  PROVE  LET rest == {p \in RisingOf(f, c) : p[1] # r}
             lost == {p \in FallingOf(f, c) : p[1] # r}
         IN  /\ Cardinality(rest) \in Nat /\ Cardinality(lost) \in Nat
             /\ FlightOf(f, c) = Cardinality(rest) - Cardinality(lost) + Height(f[r], c)
<1> DEFINE rest == {p \in RisingOf(f, c) : p[1] # r}
           lost == {p \in FallingOf(f, c) : p[1] # r}
           k == f[r]
           up == IF k.cap = c THEN RisingRow(r, k) ELSE {}
           down == IF k.cap = c THEN FallingRow(r, k) ELSE {}
<1>1. k.from \in Levels /\ k.to \in Levels
  BY DEF Call
<1>2. rest \in SUBSET RisingOf(f, c) /\ lost \in SUBSET FallingOf(f, c)
  OBVIOUS
<1>3. IsFiniteSet(rest) /\ IsFiniteSet(lost) /\ Cardinality(rest) \in Nat /\ Cardinality(lost) \in Nat
  <2> HIDE DEF rest, lost
  <2>1. IsFiniteSet(rest) /\ IsFiniteSet(lost)
    BY <1>2, FiniteFlights, FS_Subset
  <2>2. QED
    BY <2>1, FS_CardinalityType
<1>4. RisingOf(f, c) = rest \cup up /\ rest \cap up = {}
  BY <1>1 DEF RisingOf, RisingRow, Levels
<1>5. FallingOf(f, c) = lost \cup down /\ lost \cap down = {}
  BY <1>1 DEF FallingOf, FallingRow, Levels
<1>6. /\ IsFiniteSet(up) /\ IsFiniteSet(down)
      /\ Cardinality(up) = IF k.cap = c /\ k.from < k.to THEN k.to - k.from ELSE 0
      /\ Cardinality(down) = IF k.cap = c /\ k.to < k.from THEN k.from - k.to ELSE 0
  <2> HIDE DEF k
  <2>1. CASE k.cap = c
    BY <1>1, <2>1, RowSize, ZenonT(40) DEF RisingRow, FallingRow
  <2>2. CASE k.cap # c
    BY <2>2, FS_EmptySet
  <2>3. QED
    BY <2>1, <2>2
<1>7. /\ Cardinality(RisingOf(f, c)) = Cardinality(rest) + Cardinality(up)
      /\ Cardinality(FallingOf(f, c)) = Cardinality(lost) + Cardinality(down)
  <2> HIDE DEF rest, lost, up, down
  <2>1. Cardinality({}) = 0
    BY FS_EmptySet
  <2>2. /\ Cardinality(rest \cup up) = Cardinality(rest) + Cardinality(up) - Cardinality(rest \cap up)
        /\ Cardinality(lost \cup down) = Cardinality(lost) + Cardinality(down) - Cardinality(lost \cap down)
    BY <1>3, <1>6, FS_Union
  <2>3. Cardinality(up) \in Nat /\ Cardinality(down) \in Nat
    BY <1>6, FS_CardinalityType
  <2>4. Cardinality(rest \cap up) = 0 /\ Cardinality(lost \cap down) = 0
    BY <1>4, <1>5, <2>1
  <2>5. /\ Cardinality(rest \cup up) = Cardinality(rest) + Cardinality(up)
        /\ Cardinality(lost \cup down) = Cardinality(lost) + Cardinality(down)
    BY <1>3, <2>2, <2>3, <2>4
  <2>6. QED
    BY <1>4, <1>5, <2>5
<1>8. QED
  <2> HIDE DEF rest, lost, up, down, k
  <2>1. FlightOf(f, c) = Cardinality(rest) + Cardinality(up) - (Cardinality(lost) + Cardinality(down))
    <3>1. FlightOf(f, c) = Cardinality(RisingOf(f, c)) - Cardinality(FallingOf(f, c))
      BY DEF FlightOf
    <3>2. QED
      BY <1>3, <1>7, <3>1, FiniteFlights, FS_CardinalityType, <1>6
  <2>2. Cardinality(up) - Cardinality(down) = Height(k, c)
    BY <1>1, <1>6 DEF Height, Levels
  <2>3. Cardinality(up) \in Nat /\ Cardinality(down) \in Nat
    BY <1>6, FS_CardinalityType
  <2>4. FlightOf(f, c) = Cardinality(rest) - Cardinality(lost) + Height(k, c)
    <3>1. Height(k, c) \in Int
      BY <2>2, <2>3
    <3>2. QED
      BY <1>3, <2>1, <2>2, <2>3, <3>1
  <2>5. QED
    BY <1>3, <2>4 DEF rest, lost, k

\* One call replaced: what is in flight changes by the difference of the two.
LEMMA FlightReplaced ==
  ASSUME NEW f \in [Callers -> Call], NEW g \in [Callers -> Call], NEW r \in Callers,
         NEW c \in Caps, \A x \in Callers \ {r} : g[x] = f[x]
  PROVE  /\ FlightOf(f, c) \in Int
         /\ FlightOf(g, c) = FlightOf(f, c) + Height(g[r], c) - Height(f[r], c)
<1> DEFINE rest(h) == {p \in RisingOf(h, c) : p[1] # r}
           lost(h) == {p \in FallingOf(h, c) : p[1] # r}
<1>1. rest(f) = rest(g) /\ lost(f) = lost(g)
  BY DEF RisingOf, FallingOf
<1>2. /\ Cardinality(rest(f)) \in Nat /\ Cardinality(lost(f)) \in Nat
      /\ FlightOf(f, c) = Cardinality(rest(f)) - Cardinality(lost(f)) + Height(f[r], c)
      /\ FlightOf(g, c) = Cardinality(rest(g)) - Cardinality(lost(g)) + Height(g[r], c)
  BY FlightSplits
<1>3. Height(f[r], c) \in Int /\ Height(g[r], c) \in Int
  BY DEF Height, Call, Levels
<1> HIDE DEF rest, lost
<1>4. QED
  BY <1>1, <1>2, <1>3

\* InFlight, as a function of the calls.
LEMMA FlightIs ==
  \A c : InFlight(c) = FlightOf(call, c) /\ InFlight(c)' = FlightOf(call', c)
BY DEF InFlight, Rising, Falling, FlightOf, RisingOf, FallingOf

\* startup.reconcile logs a level first and sets it after: in between the log is
\* ahead of the file.
Told(c) == IF pc = "apply" /\ c = Visited THEN Wanted ELSE Eff(st, c)
Clean == count["crashes"] = 0 /\ count["emitFailures"] = 0
Accounts == Clean => \A c \in Caps : log[c].net + InFlight(c) = Told(c) - overrides[c]

\* Where no death and no failed event is counted after a step, it was neither.
LEMMA CleanBefore ==
  ASSUME Inv, [Next]_vars, Clean'
  PROVE  Clean /\ ~(Crash \/ TornDemotion \/ TornPromotion) /\ \A r \in Callers : ~EmitFails(r)
<1>1. ASSUME NEW k \in DOMAIN Bounds, Once(k)
      PROVE  Clean /\ k \notin {"crashes", "emitFailures"}
  <2>1. "crashes" \in DOMAIN Bounds /\ "emitFailures" \in DOMAIN Bounds
    BY BoundsKinds
  <2>2. count'["crashes"] = 0 /\ count'["emitFailures"] = 0
    BY DEF Clean
  <2>3. count'[k] > 0 /\ \A x \in DOMAIN Bounds \ {k} : count'[x] = count[x]
    BY <1>1, OnceType DEF Inv
  <2>4. QED
    BY <2>1, <2>2, <2>3 DEF Clean
<1>2. ASSUME Crash \/ TornDemotion \/ TornPromotion
      PROVE  FALSE
  <2>1. Once("crashes")
    BY <1>2 DEF Crash, TornDemotion, TornPromotion, Die
  <2>2. QED
    BY <1>1, <2>1, BoundsKinds
<1>3. ASSUME NEW r \in Callers, EmitFails(r)
      PROVE  FALSE
  BY <1>1, <1>3, BoundsKinds DEF EmitFails
<1>4. Clean
  <2>1. CASE UNCHANGED count
    BY <2>1 DEF Clean
  <2>2. CASE \E k \in DOMAIN Bounds : Once(k)
    BY <1>1, <2>2
  <2>3. QED
    <3>1. /\ "edits" \in DOMAIN Bounds /\ "outages" \in DOMAIN Bounds
          /\ "outcomes" \in DOMAIN Bounds /\ "calls" \in DOMAIN Bounds
      BY BoundsKinds
    <3>2. Startup => UNCHANGED count \/ Once("outages")
      BY DEF Startup, Boot, ReconcileSame, ReconcileEmit, ReconcileApply, ReconcileDone,
             ReadModel, Finish
    <3>3. Handlers => UNCHANGED count \/ Once("calls") \/ Once("outcomes")
      BY <1>3 DEF Handlers, EmitDone, DemoteForOverride, Override, JobFailure, Strip, Decay, ModelChange,
             RecordOutcome, Serving
    <3>4. Environment => Once("edits")
      BY <1>2 DEF Environment, EditConfig, ReplaceModel
    <3>5. QED
      BY <2>1, <2>2, <3>1, <3>2, <3>3, <3>4 DEF Next, vars
<1>5. QED
  BY <1>2, <1>3, <1>4

\* An event moves the net of its own capability only.
LEMMA NetLogged ==
  ASSUME log \in [Caps -> Entry], NEW a \in Caps, NEW from \in Levels, NEW to \in Levels
  PROVE  \A c \in Caps : /\ log[c].net \in Int
                         /\ Logged(a, from, to)[c].net = log[c].net + (IF c = a THEN to - from ELSE 0)
<1> TAKE c \in Caps
<1>1. log[c].net \in Int /\ log[c].net + 0 = log[c].net
  BY DEF Entry
<1>2. c = a => Logged(a, from, to)[c].net = log[c].net + to - from
  BY DEF Logged
<1>3. c # a => Logged(a, from, to)[c].net = log[c].net
  BY DEF Logged
<1>4. QED
  BY <1>1, <1>2, <1>3 DEF Levels

\* A step that logs nothing and sets no level.
LEMMA AccountsAsBefore ==
  ASSUME Inv, Accounts, Clean' => Clean, log' = log, overrides' = overrides,
         \A c \in Caps : Told(c)' = Told(c) /\ InFlight(c)' = InFlight(c)
  PROVE  Accounts'
BY DEF Accounts

\* _execute_demotion up to its await: the level sinks by what is then in flight.
LEMMA AccountsDemote ==
  ASSUME Inv, Accounts, Clean, torn' = torn, overrides' = overrides, NEW r \in Callers, NEW a \in Caps,
         NEW to \in Levels, to <= 0 \/ to <= Eff(st, a), NEW rest \in SUBSET Caps,
         Demote(r, a, to, rest), pc # "apply", pc' # "apply",
         \A c \in Caps : log'[c].net = log[c].net + Height(call[r], c)
  PROVE  Accounts'
<1> SUFFICES ASSUME NEW c \in Caps
             PROVE  log'[c].net + InFlight(c)' = Told(c)' - overrides'[c]
  BY DEF Accounts
<1>1. StateOK(st) /\ call \in [Callers -> Call] /\ log \in [Caps -> Entry]
  BY TypeParts DEF Inv
<1>2. /\ Changed(st, st', a, to, <<>>) /\ call' \in [Callers -> Call]
      /\ \A x \in Callers \ {r} : call'[x] = call[x]
  BY DemoteDoes
<1>3. call'[r].cap = a /\ call'[r].from = Eff(st, a) /\ call'[r].to = to
  BY <1>1 DEF Demote
<1>4. /\ FlightOf(call, c) \in Int
      /\ FlightOf(call', c) = FlightOf(call, c) + Height(call'[r], c) - Height(call[r], c)
  BY <1>1, <1>2, FlightReplaced
<1>5. log[c].net + FlightOf(call, c) = Eff(st, c) - overrides[c]
  BY FlightIs DEF Accounts, Told
<1>6. Eff(st', c) = IF c = a THEN to ELSE Eff(st, c)
  BY <1>2 DEF Changed
<1>7. Height(call'[r], c) = IF c = a THEN to - Eff(st, a) ELSE 0
  BY <1>3 DEF Height
<1>8. /\ log[c].net \in Int /\ Height(call[r], c) \in Int /\ to \in Int
      /\ Eff(st, c) \in Int /\ Eff(st, a) \in Int /\ overrides[c] \in Nat
  <2>1. call[r] \in Call /\ log[c] \in Entry /\ Eff(st, c) \in Levels /\ Eff(st, a) \in Levels
    BY <1>1, CapOf
  <2>2. overrides \in [Caps -> Nat]
    BY TypeParts DEF Inv
  <2>3. QED
    BY <2>1, <2>2 DEF Entry, Height, Call, Levels
<1>9. log'[c].net + FlightOf(call', c) = Eff(st', c) - overrides[c]
  <2>1. CASE c = a
    BY <1>4, <1>5, <1>6, <1>7, <1>8, <2>1
  <2>2. CASE c # a
    BY <1>4, <1>5, <1>6, <1>7, <1>8, <2>2
  <2>3. QED
    BY <2>1, <2>2
<1>10. QED
  BY <1>9, FlightIs DEF Told

\* What was in flight arrives in the log.
LEMMA AccountsEmitDone ==
  ASSUME Inv, Accounts, Clean, NEW r \in Callers, EmitDone(r)
  PROVE  Accounts'
<1> DEFINE left == {c \in call[r].todo : Eff(st, c) # 0}
<1>1. /\ call[r].busy
      /\ log' = IF call[r].cap = None THEN log ELSE Logged(call[r].cap, call[r].from, call[r].to)
      /\ UNCHANGED <<config, model, pc, todo, reg, seen, lastKnown, torn, count, overrides>>
  BY DEF EmitDone
<1>2. call \in [Callers -> Call] /\ log \in [Caps -> Entry] /\ call[r] \in Call
  BY TypeParts DEF Inv
<1>3. pc # "apply" /\ pc' # "apply"
  BY <1>1 DEF Inv, Phases
<1>4. /\ call[r].cap \in Caps \cup {None} /\ call[r].from \in Levels /\ call[r].to \in Levels
      /\ call[r].todo \in SUBSET Caps
  BY <1>2 DEF Call
<1>5. \A c \in Caps : log'[c].net = log[c].net + Height(call[r], c)
  <2> TAKE c \in Caps
  <2>1. CASE call[r].cap = None
    <3>1. call[r].cap # c
      BY <2>1, TrustAssumption
    <3>2. log[c].net \in Int
      BY <1>2 DEF Entry
    <3>3. QED
      BY <1>1, <2>1, <3>1, <3>2 DEF Height
  <2>2. CASE call[r].cap # None
    <3>1. log' = Logged(call[r].cap, call[r].from, call[r].to) /\ call[r].cap \in Caps
      BY <1>1, <1>4, <2>2
    <3>2. log'[c].net = log[c].net + (IF c = call[r].cap THEN call[r].to - call[r].from ELSE 0)
      BY <1>2, <1>4, <3>1, NetLogged
    <3>3. QED
      BY <3>2 DEF Height
  <2>3. QED
    BY <2>1, <2>2
<1>6. CASE \E a \in left : \E passed \in SUBSET (call[r].todo \ left) :
             Demote(r, a, 0, call[r].todo \ (passed \cup {a}))
  <2>1. PICK a \in left, passed \in SUBSET (call[r].todo \ left) :
          Demote(r, a, 0, call[r].todo \ (passed \cup {a}))
    BY <1>6
  <2> DEFINE rest == call[r].todo \ (passed \cup {a})
  <2>2. a \in Caps /\ rest \in SUBSET Caps /\ 0 \in Levels
    BY <1>4 DEF Levels
  <2>3. Demote(r, a, 0, rest)
    BY <2>1
  <2>4. QED
    <3> HIDE DEF left, rest
    <3> QED  BY <1>1, <1>3, <1>5, <2>2, <2>3, AccountsDemote
<1>7. CASE call' = [call EXCEPT ![r] = Idle] /\ UNCHANGED st
  <2> SUFFICES ASSUME NEW c \in Caps
               PROVE  log'[c].net + InFlight(c)' = Told(c)' - overrides'[c]
    BY DEF Accounts
  <2>1. call' \in [Callers -> Call] /\ call'[r] = Idle /\ \A x \in Callers \ {r} : call'[x] = call[x]
    BY <1>2, <1>7, IdleOK
  <2>2. /\ FlightOf(call, c) \in Int
        /\ FlightOf(call', c) = FlightOf(call, c) + Height(Idle, c) - Height(call[r], c)
    BY <1>2, <2>1, FlightReplaced
  <2>3. /\ Height(Idle, c) = 0 /\ Height(call[r], c) \in Int /\ log[c].net \in Int
        /\ overrides[c] \in Nat /\ overrides' = overrides
    BY <1>1, <1>2, <1>4, TypeParts DEF Inv, Height, Idle, Levels, Entry
  <2>4. log[c].net + FlightOf(call, c) = Eff(st, c) - overrides[c]
    BY <1>3, FlightIs DEF Accounts, Told
  <2>5. Eff(st', c) = Eff(st, c)
    BY <1>7
  <2>6. log'[c].net + FlightOf(call', c) = Eff(st', c) - overrides[c]
    BY <1>5, <2>2, <2>3, <2>4, <2>5
  <2>7. QED
    BY <1>3, <2>3, <2>6, FlightIs DEF Told
<1>8. QED
  BY <1>6, <1>7 DEF EmitDone

\* startup.reconcile moves the log first and the level after.
LEMMA AccountsReconcile ==
  ASSUME Inv, Accounts, Clean, ReconcileEmit \/ ReconcileApply
  PROVE  Accounts'
<1>1. StateOK(st) /\ log \in [Caps -> Entry] /\ call' = call /\ todo # {}
  BY TypeParts DEF Inv, Phases, ReconcileEmit, ReconcileApply
<1>2. Visited \in Caps /\ Wanted \in Levels /\ Actual \in Levels
  BY <1>1, VisitedOK DEF Inv
<1> SUFFICES ASSUME NEW c \in Caps
             PROVE  log'[c].net + InFlight(c)' = Told(c)' - overrides'[c]
  BY DEF Accounts
<1>3. /\ log[c].net + FlightOf(call, c) = Told(c) - overrides[c]
      /\ InFlight(c)' = FlightOf(call, c)
      /\ overrides[c] \in Nat /\ overrides' = overrides
  BY <1>1, FlightIs, TypeParts DEF Inv, Accounts, ReconcileEmit, ReconcileApply
<1>4. FlightOf(call, c) \in Int
  <2>1. Cardinality(RisingOf(call, c)) \in Nat /\ Cardinality(FallingOf(call, c)) \in Nat
    BY FiniteFlights
  <2>2. QED
    BY <2>1 DEF FlightOf
<1>5. CASE ReconcileEmit
  <2>1. /\ pc = "reconcile" /\ pc' = "apply" /\ log' = Logged(Visited, Actual, Wanted)
        /\ st' = st /\ todo' = todo /\ reg' = reg
    BY <1>5 DEF ReconcileEmit
  <2>2. /\ log[c].net \in Int
        /\ log'[c].net = log[c].net + (IF c = Visited THEN Wanted - Actual ELSE 0)
    BY <1>1, <1>2, <2>1, NetLogged
  <2>3. Visited' = Visited /\ Wanted' = Wanted
    BY <2>1 DEF Visited, Wanted
  <2>4. Told(c) = Eff(st, c) /\ Told(c)' = IF c = Visited THEN Wanted ELSE Eff(st, c)
    BY <2>1, <2>3 DEF Told, Eff
  <2>5. CASE c = Visited
    <3>1. Told(c) = Actual /\ Told(c)' = Wanted
      BY <2>4, <2>5 DEF Actual
    <3>2. Wanted \in Int /\ Actual \in Int
      BY <1>2 DEF Levels
    <3>3. QED
      BY <1>3, <1>4, <2>2, <2>5, <3>1, <3>2
  <2>6. CASE c # Visited
    BY <1>3, <1>4, <2>2, <2>4, <2>6
  <2>7. QED
    BY <2>5, <2>6
<1>6. CASE ReconcileApply
  <2>1. pc = "apply" /\ pc' = "reconcile" /\ st' = Applied /\ log' = log
    BY <1>6 DEF ReconcileApply
  <2>2. \E ring : Changed(st, st', Visited, Wanted, ring)
    BY <2>1, AppliedIs
  <2>3. Eff(st', Visited) = Wanted /\ \A x \in Caps \ {Visited} : Eff(st', x) = Eff(st, x)
    BY <2>2 DEF Changed
  <2>4. Told(c)' = Told(c)
    BY <2>1, <2>3 DEF Told
  <2>5. QED
    BY <1>3, <2>1, <2>4
<1>7. QED
  BY <1>5, <1>6

\* A request of the demotion engine: it finds its call idle.
LEMMA AccountsRequest ==
  ASSUME Inv, Accounts, Clean, NEW r \in Requests, Serving(r),
         \/ \E c \in Caps, to \in Levels : (to <= 0 \/ to <= Eff(st, c)) /\ Demote(r, c, to, {})
         \/ call' = call /\ \A c \in Caps : Eff(st', c) = Eff(st, c)
         \/ st' = st /\ \E a \in SUBSET Caps : call' = [call EXCEPT ![r] = Announced(a)]
  PROVE  Accounts'
<1>1. /\ pc = "serving" /\ pc' = "serving" /\ log' = log /\ torn' = torn /\ ~call[r].busy
      /\ overrides' = overrides
  BY DEF Serving
<1>2. r \in Callers /\ call \in [Callers -> Call] /\ log \in [Caps -> Entry]
  BY TypeParts DEF Inv, Callers
<1>3. call[r] = Idle
  BY <1>1, <1>2 DEF Inv, Phases
<1>4. \A c \in Caps : Height(Idle, c) = 0 /\ \A a \in SUBSET Caps : Height(Announced(a), c) = 0
  BY DEF Height, Idle, Announced
<1>5. ASSUME NEW c \in Caps, NEW to \in Levels, to <= 0 \/ to <= Eff(st, c), Demote(r, c, to, {})
      PROVE  Accounts'
  <2>1. \A x \in Caps : log'[x].net = log[x].net + Height(call[r], x)
    <3>1. \A x \in Caps : log[x].net \in Int
      BY <1>2 DEF Entry
    <3>2. QED
      BY <1>1, <1>3, <1>4, <3>1
  <2>2. {} \in SUBSET Caps
    OBVIOUS
  <2>3. QED
    BY <1>1, <1>2, <1>5, <2>1, <2>2, AccountsDemote
<1>6. CASE call' = call /\ \A c \in Caps : Eff(st', c) = Eff(st, c)
  <2>1. \A c \in Caps : Told(c)' = Told(c) /\ InFlight(c)' = InFlight(c)
    BY <1>1, <1>6, FlightIs DEF Told
  <2>2. QED
    BY <1>1, <2>1, AccountsAsBefore
<1>7. ASSUME st' = st, NEW a \in SUBSET Caps, call' = [call EXCEPT ![r] = Announced(a)]
      PROVE  Accounts'
  <2>1. call' \in [Callers -> Call] /\ call'[r] = Announced(a) /\ \A x \in Callers \ {r} : call'[x] = call[x]
    BY <1>2, <1>7, IdleOK
  <2>2. \A c \in Caps : InFlight(c)' = InFlight(c)
    <3> TAKE c \in Caps
    <3>1. /\ FlightOf(call, c) \in Int
          /\ FlightOf(call', c) = FlightOf(call, c) + Height(call'[r], c) - Height(call[r], c)
      BY <1>2, <2>1, FlightReplaced
    <3>2. Height(call'[r], c) = 0 /\ Height(call[r], c) = 0
      BY <1>3, <1>4, <2>1
    <3>3. QED
      BY <3>1, <3>2, FlightIs
  <2>3. \A c \in Caps : Told(c)' = Told(c)
    BY <1>1, <1>7 DEF Told
  <2>4. QED
    BY <1>1, <2>2, <2>3, AccountsAsBefore
<1>8. QED
  BY <1>5, <1>6, <1>7

\* The job manager's event takes the log one level further from the level.
LEMMA AccountsOverride ==
  ASSUME Inv, Accounts, Clean, NEW r \in Requests, NEW a \in Caps, DemoteForOverride(r, a)
  PROVE  Accounts'
<1> DEFINE k == [busy |-> TRUE, cap |-> a, from |-> 0, to |-> -1, todo |-> {}]
<1>1. /\ pc = "serving" /\ ~call[r].busy /\ call' = [call EXCEPT ![r] = k]
      /\ overrides' = [overrides EXCEPT ![a] = overrides[a] + 1]
      /\ UNCHANGED <<config, model, st, pc, todo, reg, seen, log, lastKnown, torn>>
  BY DEF DemoteForOverride
<1>2. /\ r \in Callers /\ call \in [Callers -> Call] /\ log \in [Caps -> Entry]
      /\ overrides \in [Caps -> Nat] /\ StateOK(st)
  BY TypeParts DEF Inv, Callers
<1>3. call[r] = Idle
  BY <1>1, <1>2 DEF Inv, Phases
<1>4. k \in Call
  BY DEF Call, Levels
<1> SUFFICES ASSUME NEW c \in Caps
             PROVE  log'[c].net + InFlight(c)' = Told(c)' - overrides'[c]
  BY DEF Accounts
<1>5. Height(k, c) = (IF c = a THEN -1 ELSE 0) /\ Height(Idle, c) = 0
  BY DEF Height, Idle
<1> HIDE DEF k
<1>6. call' \in [Callers -> Call] /\ call'[r] = k /\ \A x \in Callers \ {r} : call'[x] = call[x]
  BY <1>1, <1>2, <1>4
<1>7. /\ FlightOf(call, c) \in Int
      /\ FlightOf(call', c) = FlightOf(call, c) + Height(k, c) - Height(Idle, c)
  BY <1>2, <1>3, <1>6, FlightReplaced
<1>8. overrides'[c] = overrides[c] + (IF c = a THEN 1 ELSE 0) /\ overrides[c] \in Nat
  BY <1>1, <1>2
<1>9. log[c].net + FlightOf(call, c) = Eff(st, c) - overrides[c]
  BY <1>1, FlightIs DEF Accounts, Told
<1>10. log[c].net \in Int /\ Eff(st, c) \in Int
  <2>1. log[c] \in Entry /\ Eff(st, c) \in Levels
    BY <1>2, CapOf
  <2>2. QED
    BY <2>1 DEF Entry, Levels
<1>11. log[c].net + FlightOf(call', c) = Eff(st, c) - overrides'[c]
  BY <1>5, <1>7, <1>8, <1>9, <1>10
<1>12. QED
  BY <1>1, <1>11, FlightIs DEF Told

\* Every step keeps the account.
LEMMA AccountsStep ==
  ASSUME Inv, Accounts, [Next]_vars
  PROVE  Accounts'
<1> SUFFICES ASSUME Clean'  PROVE Accounts'
  BY DEF Accounts
<1>1. Clean /\ ~(Crash \/ TornDemotion \/ TornPromotion) /\ \A r \in Callers : ~EmitFails(r)
  BY CleanBefore
<1>2. StateOK(st) /\ call \in [Callers -> Call] /\ \A c \in Caps : Eff(st, c) \in Levels
  BY TypeParts, CapOf DEF Inv
<1>3. ASSUME pc # "apply", pc' # "apply", log' = log, call' = call, overrides' = overrides,
             \A c \in Caps : Eff(st', c) = Eff(st, c)
      PROVE  Accounts'
  <2>1. \A c \in Caps : Told(c)' = Told(c) /\ InFlight(c)' = InFlight(c)
    BY <1>3, FlightIs DEF Told
  <2>2. QED
    BY <1>1, <1>3, <2>1, AccountsAsBefore
<1>4. CASE UNCHANGED vars
  <2>1. \A c \in Caps : Told(c)' = Told(c) /\ InFlight(c)' = InFlight(c)
    BY <1>4, FlightIs DEF vars, Told, Visited, Wanted
  <2>2. QED
    BY <1>1, <1>4, <2>1, AccountsAsBefore DEF vars
<1>5. CASE Boot \/ ReconcileSame \/ ReconcileDone
  BY <1>3, <1>5 DEF Boot, ReconcileSame, ReconcileDone
<1>6. CASE ReconcileEmit \/ ReconcileApply
  BY <1>1, <1>6, AccountsReconcile
<1>7. ASSUME NEW m \in Known \cup {None}, ReadModel(m)
      PROVE  Accounts'
  <2>1. /\ pc = "model" /\ pc' = "change" /\ st' = st /\ log' = log /\ overrides' = overrides
        /\ call' = call \/ call' = [call EXCEPT ![Main] = Announced(Caps)]
    BY <1>7 DEF ReadModel
  <2>2. Main \in Callers /\ call[Main] = Idle
    BY <2>1 DEF Inv, Phases, Callers
  <2>3. \A c \in Caps : InFlight(c)' = InFlight(c)
    <3> TAKE c \in Caps
    <3>1. CASE call' = [call EXCEPT ![Main] = Announced(Caps)]
      <4>1. /\ call' \in [Callers -> Call] /\ call'[Main] = Announced(Caps)
            /\ \A x \in Callers \ {Main} : call'[x] = call[x]
        BY <1>2, <2>2, <3>1, IdleOK
      <4>2. /\ FlightOf(call, c) \in Int
            /\ FlightOf(call', c) = FlightOf(call, c) + Height(call'[Main], c) - Height(call[Main], c)
        BY <1>2, <2>2, <4>1, FlightReplaced
      <4>3. Height(call'[Main], c) = 0 /\ Height(call[Main], c) = 0
        BY <2>2, <4>1 DEF Height, Idle, Announced
      <4>4. QED
        BY <4>2, <4>3, FlightIs
    <3>2. CASE call' = call
      BY <3>2, FlightIs
    <3>3. QED
      BY <2>1, <3>1, <3>2
  <2>4. \A c \in Caps : Told(c)' = Told(c)
    BY <2>1 DEF Told
  <2>5. QED
    BY <1>1, <2>1, <2>3, <2>4, AccountsAsBefore
<1>8. CASE Finish
  <2>1. /\ st'.caps = st.caps /\ pc = "change" /\ pc' = "serving" /\ log' = log /\ call' = call
        /\ overrides' = overrides
    BY <1>8 DEF Finish
  <2>2. \A c \in Caps : Eff(st', c) = Eff(st, c)
    BY <2>1 DEF Eff
  <2>3. QED
    BY <1>3, <2>1, <2>2
<1>9. CASE \E r \in Callers : EmitDone(r)
  BY <1>1, <1>9, AccountsEmitDone
<1>10. ASSUME NEW r \in Requests, NEW c \in Caps, Override(r, c)
       PROVE  Accounts'
  <2>1. Serving(r) /\ Eff(st, c) - 1 \in Levels /\ Eff(st, c) - 1 <= Eff(st, c)
        /\ Demote(r, c, Eff(st, c) - 1, {})
    BY <1>10, OneLower DEF Override
  <2>2. QED
    BY <1>1, <2>1, AccountsRequest
<1>11. ASSUME NEW r \in Requests, NEW c \in Caps, JobFailure(r, c)
       PROVE  Accounts'
  <2>1. Serving(r) /\ st.caps[c].failures \in Nat
    BY <1>2, <1>11, CapOf DEF JobFailure
  <2>2. PICK kept \in 0 .. st.caps[c].failures :
          IF kept + 1 >= Threshold /\ Eff(st, c) > 0
          THEN Demote(r, c, Eff(st, c) - 1, {})
          ELSE st' = Failed(st, c, kept) /\ UNCHANGED call
    BY <1>11 DEF JobFailure
  <2>3. CASE Eff(st, c) > 0 /\ Demote(r, c, Eff(st, c) - 1, {})
    <3>1. Eff(st, c) >= 1
      BY <1>2, <2>3 DEF Levels
    <3>2. Eff(st, c) - 1 \in Levels /\ Eff(st, c) - 1 <= Eff(st, c)
      BY <3>1, OneLower
    <3>3. QED
      BY <1>1, <2>1, <2>3, <3>2, AccountsRequest
  <2>4. CASE st' = Failed(st, c, kept) /\ UNCHANGED call
    <3>1. kept \in Nat
      BY <2>1
    <3>2. Changed(st, st', c, Eff(st, c), st.caps[c].outcomes)
      BY <1>2, <2>4, <3>1, Failing
    <3>3. \A x \in Caps : Eff(st', x) = Eff(st, x)
      BY <3>2 DEF Changed
    <3>4. QED
      BY <1>1, <2>1, <2>4, <3>3, AccountsRequest
  <2>5. QED
    BY <2>2, <2>3, <2>4
<1>12. ASSUME NEW r \in Requests, Strip(r)
       PROVE  Accounts'
  <2>1. Packager \in Caps /\ -1 \in Levels /\ -1 <= 0
    BY TrustAssumption DEF Levels
  <2>2. Serving(r) /\ Demote(r, Packager, -1, {})
    BY <1>12 DEF Strip
  <2>3. QED
    BY <1>1, <2>1, <2>2, AccountsRequest
<1>13. ASSUME NEW r \in Requests, NEW c \in Caps, Decay(r, c)
       PROVE  Accounts'
  <2>1. Serving(r) /\ Eff(st, c) = 3 /\ Demote(r, c, 2, {})
    BY <1>13 DEF Decay
  <2>2. 2 \in Levels /\ 2 <= Eff(st, c)
    BY <2>1 DEF Levels
  <2>3. QED
    BY <1>1, <2>1, <2>2, AccountsRequest
<1>14. ASSUME NEW r \in Requests, NEW a \in SUBSET Caps, ModelChange(r, a)
       PROVE  Accounts'
  <2>1. Serving(r) /\ st' = st /\ call' = [call EXCEPT ![r] = Announced(a)]
    BY <1>14 DEF ModelChange
  <2>2. QED
    BY <1>1, <2>1, AccountsRequest
<1>15. ASSUME NEW c \in Caps, NEW good \in BOOLEAN, RecordOutcome(c, good)
       PROVE  Accounts'
  <2>1. /\ pc = "serving" /\ pc' = pc /\ log' = log /\ call' = call
        /\ st' = Recorded(st, c, good) /\ overrides' = overrides
    BY <1>15 DEF RecordOutcome
  <2>2. Changed(st, st', c, Eff(st, c), Evicted(Longer(st, c, good)))
    BY <1>2, <2>1, Recording
  <2>3. \A x \in Caps : Eff(st', x) = Eff(st, x)
    BY <2>2 DEF Changed
  <2>4. QED
    BY <1>3, <2>1, <2>3
<1>16. CASE Environment
  <2>1. /\ pc \in {"off", "serving"} /\ UNCHANGED <<st, pc, call, log, overrides>>
    BY <1>1, <1>16 DEF Environment, EditConfig, ReplaceModel
  <2>2. QED
    BY <1>3, <2>1
<1>17. ASSUME NEW r \in Requests, NEW c \in Caps, DemoteForOverride(r, c)
       PROVE  Accounts'
  BY <1>1, <1>17, AccountsOverride
<1>18. CASE Startup
  BY <1>5, <1>6, <1>7, <1>8, <1>18 DEF Startup
<1>19. CASE Handlers
  BY <1>1, <1>9, <1>10, <1>11, <1>12, <1>13, <1>14, <1>15, <1>17, <1>19 DEF Handlers
<1>20. QED
  BY <1>4, <1>16, <1>18, <1>19 DEF Next

\* At the start log and levels are at 0.
LEMMA AccountsInit ==
  Init => Accounts
<1> SUFFICES ASSUME Init, NEW c \in Caps  PROVE log[c].net + InFlight(c) = Told(c) - overrides[c]
  BY DEF Accounts
<1>1. \A r \in Callers : call[r] = Idle
  BY DEF Init
<1>2. RisingOf(call, c) = {} /\ FallingOf(call, c) = {}
  <2>1. \A p \in Callers \X Levels : call[p[1]].from = 0 /\ call[p[1]].to = 0
    BY <1>1 DEF Idle
  <2>2. \A k \in Levels : ~(0 <= k /\ k < 0)
    BY DEF Levels
  <2>3. \A p \in Callers \X Levels : p[2] \in Levels
    OBVIOUS
  <2>4. QED
    BY <2>1, <2>2, <2>3 DEF RisingOf, FallingOf
<1>3. FlightOf(call, c) = 0
  BY <1>2, FS_EmptySet DEF FlightOf
<1>4. log[c].net = 0 /\ Told(c) = 0 /\ overrides[c] = 0
  BY DEF Init, Told, Eff, Fresh
<1>5. QED
  BY <1>3, <1>4, FlightIs

-----------------------------------------------------------------------------
(* Results.                                                                *)

\* The invariant of this module is one.
LEMMA Invariance ==
  Spec => []Inv
<1>1. QED
  BY InitInv, StepKept, PTL DEF Spec

\* Type correctness: every capability's level stays between -1 and 3 and its
\* ring of outcomes within EVALUABLE_OUTCOMES_MAX, whatever calls, deaths and
\* failing events interleave.
THEOREM TypeCorrect ==
  Spec => []TypeOK
<1>1. Inv => TypeOK
  BY DEF Inv
<1>2. QED
  BY <1>1, Invariance, PTL

\* Every promotion evidence is of the level held (record_outcome,
\* _execute_demotion, reconcile), unless a death fell between two saves.
THEOREM EvidenceIsFresh ==
  Spec => []EvidenceFresh
<1>1. Inv => EvidenceFresh
  BY DEF Inv
<1>2. QED
  BY <1>1, Invariance, PTL

\* A level above 0 is reached from below only after startup.reconcile has
\* logged wal.promoted for it, torn saves included.
THEOREM RiseGranted ==
  Spec => RiseIsGranted
<1>1. Inv /\ [Next]_vars => [Rise]_vars
  BY StepKept
<1>2. QED
  BY <1>1, Invariance, PTL DEF Spec, RiseIsGranted, Rise

\* While Ollama answered at every startup, one that is told another model opens
\* with everything at level 0 or below, however earlier ones were interrupted.
THEOREM AnsweredChangeDemotes ==
  Spec => AnsweredModelChangeDemotes
<1>1. Inv /\ [Next]_vars => [Answered]_vars
  BY StepKept
<1>2. QED
  BY <1>1, Invariance, PTL DEF Spec, AnsweredModelChangeDemotes, Answered

\* While no death and no failed event intervenes, the wal.demoted events of
\* cancels and redirects (JobManager._demote_for_override, which sets no level)
\* are all that separates log and level, one level each: what startup and the
\* demotion engine log leads from 0 to the level held, however calls interleave
\* (the level before and after is read ahead of the await).
THEOREM LogOff ==
  Spec => []LogOffByOverrides
<1>1. Init => Inv /\ Accounts
  BY InitInv, AccountsInit
<1>2. Inv /\ Accounts /\ [Next]_vars => Inv' /\ Accounts'
  BY StepKept, AccountsStep
<1>3. Accounts => LogOffByOverrides
  BY DEF Accounts, Clean, Told, LogOffByOverrides
<1>4. QED
  BY <1>1, <1>2, <1>3, PTL DEF Spec
=============================================================================
