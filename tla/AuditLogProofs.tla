---------------------------- MODULE AuditLogProofs ----------------------------
(***************************************************************************)
(* The audit trail for any number of events, attempts, days, crashes and   *)
(* faults.  Under every fault: what the repair tool takes away is in       *)
(* quarantine, and it never makes a log unrepairable.  Without a fault:    *)
(* the files verify at every moment and no event is logged twice.          *)
(***************************************************************************)
EXTENDS AuditLog, SequenceTheorems, FiniteSetTheorems, WellFoundedInduction, TLAPS

-----------------------------------------------------------------------------
(* The invariant. *)

\* Every line written or owed, in the order the files get them.
All == disk \o Owed

EmitCalls == [st : {"new", "wait", "retry", "ok", "failed"},
              tries : 0 .. MaxRetries, late : BOOLEAN]

\* An emit call's count of attempts agrees with its state.
Counts(c, e) ==
  /\ c.st = "new" => c.tries = 0
  /\ c.st = "retry" => c.tries < Attempts(e)
  /\ c.st = "wait" => c.tries \in 1 .. Attempts(e)

CallsOK(c) == c \in [Events -> EmitCalls] /\ \A e \in Events : Counts(c[e], e)

\* A writer that is down owes nothing, and the repair tool runs only then.
Quiet ==
  /\ pc = "down" => be_buffer = <<>> /\ queue = <<>> /\ seen = {}
  /\ rep.pc # "none" => pc = "down"

\* Days ascend and are not in the future.
Calendar(s, t) ==
  \A i \in DOMAIN s : s[i].day <= t /\ \A j \in 1 .. i : s[j].day <= s[i].day

\* The tool works on the break it saw; what it will take away is copied.
RepairOK ==
  /\ rep.pc \in {"plan", "copied"} =>
       /\ Classify(disk) = "broken_tail"
       /\ rep.at = FirstBreak(disk)
       /\ rep.file = disk[rep.at].day
  /\ rep.pc = "copied" => Suffix(disk, rep.at) \subseteq quarantine.newest
  /\ rep.pc = "cut" =>
       \A i \in DOMAIN disk : disk[i].day > rep.file => disk[i] \in quarantine.newest

TypeInv == TypeOK /\ CallsOK(cl) /\ Quiet

FaultyInv == TypeInv /\ Calendar(All, today) /\ RepairOK

Chain(s) == \A i \in DOMAIN s : Links(s, i)
Distinct(s) == \A i, j \in DOMAIN s : s[i].id[1] = s[j].id[1] => i = j
EventsOf(s) == {s[i].id[1] : i \in DOMAIN s}

\* What the next line may be chained to.
Anchors(h, s, t) ==
  \/ s # <<>> /\ h = s[Len(s)].id
  \/ h = Genesis /\ (s # <<>> => s[Len(s)].day < t)

\* An event that may still arrive, if it is in the files, is in a file that a
\* restart reads; and a call that has not begun left no trace.
Remembered ==
  /\ \A e \in Events, i \in DOMAIN All :
       Ongoing(e) /\ All[i].id[1] = e =>
         today - 1 <= All[i].day /\ (~cl[e].late => All[i].day = today)
  /\ \A e \in Events : cl[e].st = "new" =>
       e \notin EventsOf(All) /\ \A i \in DOMAIN queue : queue[i][1] # e

\* seen is what is in the files and in the buffer, as far as it matters.
SeenOK ==
  /\ seen \subseteq EventsOf(disk \o be_buffer)
  /\ pc # "down" =>
       \A e \in EventsOf(disk \o be_buffer) : Ongoing(e) => e \in seen

\* Only best-effort events are buffered; a durable event is in the files before
\* its emit call is told so.
DurableOK ==
  /\ \A i \in DOMAIN be_buffer : be_buffer[i].id[1] \notin Durable
  /\ pc = "ack" => cur.id[1] \in EventsOf(disk)
  /\ \A e \in Durable : cl[e].st = "ok" => e \in EventsOf(disk)

SoundInv ==
  /\ rep.pc = "none"
  /\ Chain(All)
  /\ Distinct(All)
  /\ pc \in {"idle", "ack"} => Anchors(prev_hash, All, today)
  /\ Remembered
  /\ SeenOK
  /\ DurableOK

AuditInv == FaultyInv /\ (faults = 0 => SoundInv)

-----------------------------------------------------------------------------
(* Reading: the first break, the verifier's verdict, and the gate's. *)

\* A nonempty set of numbers has a least element.
LEMMA Least ==
  ASSUME NEW T, T \subseteq Nat, T # {}
  PROVE  \E x \in T : \A y \in T : x <= y
<1> DEFINE R == {ss \in Nat \X Nat : ss[1] < ss[2]}
<1>1. IsWellFoundedOn(R, Nat)
  BY NatLessThanWellFounded DEF OpToRel
<1>2. PICK x \in T : \A y \in T : ~ (<<y, x>> \in R)
  <2> HIDE DEF R
  <2> QED
    BY <1>1, WFMin
<1>3. \A y \in T : ~(y < x)
  BY <1>2
<1>4. QED
  BY <1>3

\* A nonempty set of line numbers has a greatest element.
LEMMA Greatest ==
  ASSUME NEW n \in Nat, NEW T, T \subseteq 1 .. n, T # {}
  PROVE  \E x \in T : \A y \in T : y <= x
<1> DEFINE U == {n - x : x \in T}
<1>1. U \subseteq Nat /\ U # {}
  <2>1. PICK x \in T : TRUE
    OBVIOUS
  <2>2. n - x \in U
    BY <2>1
  <2>3. \A x1 \in T : n - x1 \in Nat
    OBVIOUS
  <2>4. QED
    BY <2>2, <2>3
<1>2. PICK u \in U : \A v \in U : u <= v
  <2> HIDE DEF U
  <2> QED
    BY <1>1, Least
<1>3. PICK x \in T : u = n - x
  BY <1>2
<1>4. \A y \in T : n - x <= n - y
  BY <1>2, <1>3
<1>5. \A y \in T : y <= x
  BY <1>4
<1>6. QED
  BY <1>5

\* _first_break stops at the first line that continues nothing.
LEMMA FirstBreakIs ==
  ASSUME NEW d \in Seq(Records), Broken(d) # {}
  PROVE  /\ FirstBreak(d) \in DOMAIN d
         /\ ~Links(d, FirstBreak(d))
         /\ \A j \in Broken(d) : FirstBreak(d) <= j
<1>1. Broken(d) \subseteq DOMAIN d /\ DOMAIN d \subseteq Nat
  BY DEF Broken
<1>2. \E i \in Broken(d) : \A j \in Broken(d) : i <= j
  BY <1>1, Least
<1>3. FirstBreak(d) \in Broken(d) /\ \A j \in Broken(d) : FirstBreak(d) <= j
  BY <1>2 DEF FirstBreak
<1>4. QED
  BY <1>3 DEF Broken

\* The verdict, verdict by verdict.
LEMMA ClassifyIs ==
  ASSUME NEW d \in Seq(Records)
  PROVE  /\ Classify(d) \in {"empty", "valid"} <=> Broken(d) = {}
         /\ Classify(d) = "interior_corruption" <=>
              Broken(d) # {} /\ (FirstBreak(d) = 1 \/ CoherentContinuation(d, FirstBreak(d)))
         /\ Classify(d) = "broken_tail" <=>
              Broken(d) # {} /\ FirstBreak(d) # 1
                /\ ~CoherentContinuation(d, FirstBreak(d))
<1>1. d = <<>> => Broken(d) = {}
  BY DEF Broken
<1>2. CASE d = <<>>
  BY <1>1, <1>2 DEF Classify
<1>3. CASE d # <<>> /\ Broken(d) = {}
  BY <1>3 DEF Classify
<1>4. CASE d # <<>> /\ Broken(d) # {}
  BY <1>4 DEF Classify
<1>5. QED
  BY <1>1, <1>2, <1>3, <1>4

\* Valid is: every line links.
LEMMA ChainIsValid ==
  ASSUME NEW d \in Seq(Records)
  PROVE  Chain(d) <=> Classify(d) \in {"empty", "valid"}
<1>1. Chain(d) <=> Broken(d) = {}
  BY DEF Chain, Broken
<1>2. QED
  BY <1>1, ClassifyIs

-----------------------------------------------------------------------------
(* Writing: what the files hold after lines were appended. *)

\* The lines that were there keep their place and their ids; a torn last line
\* swallows the first new one.
LEMMA LinesShape ==
  ASSUME NEW d \in Seq(Records), NEW s \in Seq(Records)
  PROVE  LET a == AppendLines(d, s)
             k == Len(d) + Len(s) - Len(a)
         IN /\ a \in Seq(Records)
            /\ k \in {0, 1}
            /\ \A i \in 1 .. Len(d) : a[i].id = d[i].id /\ a[i].day = d[i].day
            /\ \A i \in (Len(d) + 1) .. Len(a) : a[i] = s[i - Len(d) + k]
<1> DEFINE a == AppendLines(d, s)
<1>1. CASE s # <<>> /\ Glues(d, s[1])
  <2> DEFINE n == Len(d)
             r == [d[n] EXCEPT !.kind = "junk"]
             g == [d EXCEPT ![n] = r]
  <2>1. n \in 1 .. n /\ d # <<>> /\ s # <<>>
    BY <1>1 DEF Glues
  <2>2. d[n] \in Records
    BY <2>1
  <2>3. r \in Records /\ r.id = d[n].id /\ r.day = d[n].day
    BY <2>2 DEF Records, Kinds
  <2>4. g \in Seq(Records) /\ Len(g) = n
           /\ \A j \in 1 .. n : g[j] = IF j = n THEN r ELSE d[j]
    BY <2>1, <2>3, ExceptSeq
  <2>5. Tail(s) \in Seq(Records) /\ Len(Tail(s)) = Len(s) - 1
           /\ \A i \in 1 .. Len(Tail(s)) : Tail(s)[i] = s[i + 1]
    BY <2>1, HeadTailProperties
  <2>6. a = g \o Tail(s)
    BY <1>1 DEF AppendLines
  <2>7. a \in Seq(Records) /\ Len(a) = n + Len(s) - 1
           /\ \A i \in 1 .. Len(a) : a[i] = IF i <= n THEN g[i] ELSE Tail(s)[i - n]
    <3> HIDE DEF g, a
    <3> QED
      BY <2>4, <2>5, <2>6, ConcatProperties
  <2>8. \A i \in 1 .. n : a[i].id = d[i].id /\ a[i].day = d[i].day
    <3> HIDE DEF g, a, r
    <3> QED
      BY <2>3, <2>4, <2>5, <2>7
  <2>9. \A i \in (n + 1) .. Len(a) : a[i] = s[i - n + 1]
    <3> HIDE DEF g, a, r
    <3> QED
      BY <2>5, <2>7
  <2>10. Len(d) + Len(s) - Len(a) = 1
    <3> HIDE DEF g, a, r
    <3> QED
      BY <2>7
  <2>11. QED
    <3> HIDE DEF g, r
    <3> QED
      BY <2>7, <2>8, <2>9, <2>10
<1>2. CASE ~(s # <<>> /\ Glues(d, s[1]))
  <2>1. a = d \o s
    BY <1>2 DEF AppendLines
  <2>2. QED
    BY <2>1, ConcatProperties
<1>3. QED
  BY <1>1, <1>2

\* Half a line is nothing to a reader but a last line that does not parse.
LEMMA HalfShape ==
  ASSUME NEW d \in Seq(Records), NEW r \in Records
  PROVE  LET a == AppendHalf(d, r)
         IN /\ a \in Seq(Records)
            /\ \A i \in 1 .. Len(d) : a[i] = d[i]
            /\ \/ Len(a) = Len(d)
               \/ Len(a) = Len(d) + 1 /\ a[Len(a)].day = r.day
<1> DEFINE h == [r EXCEPT !.kind = "torn"]
<1>1. h \in Records /\ h.day = r.day
  BY DEF Records, Kinds
<1>2. AppendHalf(d, r) = IF Glues(d, r) THEN d ELSE Append(d, h)
  BY DEF AppendHalf
<1> HIDE DEF h
<1>3. QED
  BY <1>1, <1>2, AppendProperties

\* Without a torn line nothing is swallowed.
LEMMA LinesPlain ==
  ASSUME NEW d \in Seq(Records), NEW s, \A i \in DOMAIN d : Whole(d[i])
  PROVE  AppendLines(d, s) = d \o s
<1>1. d # <<>> => d[Len(d)].kind = "whole"
  BY DEF Whole
<1>2. ~Glues(d, s[1])
  BY <1>1 DEF Glues
<1>3. QED
  BY <1>2 DEF AppendLines

\* The buffer and the line in hand come one after the other.
LEMMA OwedInOrder ==
  ASSUME NEW d \in Seq(Records), NEW s \in Seq(Records), NEW r \in Records
  PROVE  d \o Append(s, r) = Append(d \o s, r)
<1>1. d \o Append(s, r) \in Seq(Records) /\ Append(d \o s, r) \in Seq(Records)
  BY AppendProperties, ConcatProperties
<1>2. Len(d \o Append(s, r)) = Len(Append(d \o s, r))
  BY AppendProperties, ConcatProperties
<1>3. \A i \in 1 .. Len(d \o Append(s, r)) : (d \o Append(s, r))[i] = Append(d \o s, r)[i]
  <2> SUFFICES ASSUME NEW i \in 1 .. Len(d) + Len(s) + 1
               PROVE  (d \o Append(s, r))[i] = Append(d \o s, r)[i]
    BY AppendProperties, ConcatProperties
  <2>1. CASE i <= Len(d) + Len(s)
    BY <2>1, AppendProperties, ConcatProperties
  <2>2. CASE i = Len(d) + Len(s) + 1
    BY <2>2, AppendProperties, ConcatProperties
  <2>3. QED
    BY <2>1, <2>2
<1>4. QED
  BY <1>1, <1>2, <1>3, SeqEqual

\* A writer that dies hands over a prefix.
LEMMA OwedInPart ==
  ASSUME NEW d \in Seq(Records), NEW s \in Seq(Records), NEW n \in 0 .. Len(s)
  PROVE  /\ SubSeq(s, 1, n) \in Seq(Records)
         /\ Len(SubSeq(s, 1, n)) = n
         /\ d \o SubSeq(s, 1, n) = SubSeq(d \o s, 1, Len(d) + n)
<1> DEFINE p == SubSeq(s, 1, n)
           q == SubSeq(d \o s, 1, Len(d) + n)
<1>1. p \in Seq(Records) /\ Len(p) = n /\ \A i \in 1 .. n : p[i] = s[i]
  BY SubSeqProperties, ElementOfSeq
<1>2. d \o s \in Seq(Records) /\ Len(d \o s) = Len(d) + Len(s)
         /\ \A i \in 1 .. Len(d) + Len(s) :
              (d \o s)[i] = IF i <= Len(d) THEN d[i] ELSE s[i - Len(d)]
  BY ConcatProperties
<1>3. q \in Seq(Records) /\ Len(q) = Len(d) + n
         /\ \A i \in 1 .. Len(d) + n : q[i] = (d \o s)[i]
  <2> \A i \in 1 .. Len(d) + n : (d \o s)[i] \in Records
    BY <1>2, ElementOfSeq
  <2> QED
    BY SubSeqProperties
<1>4. d \o p \in Seq(Records) /\ Len(d \o p) = Len(d) + n
         /\ \A i \in 1 .. Len(d) + n :
              (d \o p)[i] = IF i <= Len(d) THEN d[i] ELSE p[i - Len(d)]
  <2> HIDE DEF p
  <2> QED
    BY <1>1, ConcatProperties
<1>5. ASSUME NEW i \in 1 .. Len(d) + n
      PROVE  (d \o p)[i] = q[i]
  <2> HIDE DEF p, q
  <2>1. CASE i <= Len(d)
    BY <1>2, <1>3, <1>4, <2>1
  <2>2. CASE ~(i <= Len(d))
    <3>1. i - Len(d) \in 1 .. n /\ i \in 1 .. Len(d) + Len(s)
      BY <2>2, LenProperties
    <3>2. (d \o p)[i] = p[i - Len(d)] /\ q[i] = s[i - Len(d)]
      BY <1>2, <1>3, <1>4, <2>2, <3>1
    <3>3. QED
      BY <1>1, <3>1, <3>2
  <2>3. QED
    BY <2>1, <2>2
<1>6. d \o p = q
  <2> HIDE DEF p, q
  <2> QED
    BY <1>3, <1>4, <1>5, SeqEqual
<1>7. QED
  BY <1>1, <1>6

-----------------------------------------------------------------------------
(* The days of the lines. *)

\* A prefix.
LEMMA CalendarPrefix ==
  ASSUME NEW s \in Seq(Records), NEW t \in Nat, Calendar(s, t), NEW n \in 0 .. Len(s)
  PROVE  Calendar(SubSeq(s, 1, n), t)
<1>1. SubSeq(s, 1, n) \in Seq(Records) /\ Len(SubSeq(s, 1, n)) = n
         /\ \A i \in 1 .. n : SubSeq(s, 1, n)[i] = s[i]
  BY SubSeqProperties, ElementOfSeq
<1>2. QED
  BY <1>1 DEF Calendar

\* A line of today.
LEMMA CalendarAppend ==
  ASSUME NEW s \in Seq(Records), NEW t \in Nat, Calendar(s, t),
         NEW r \in Records, r.day = t
  PROVE  Calendar(Append(s, r), t)
<1> DEFINE a == Append(s, r)
<1>1. a \in Seq(Records) /\ Len(a) = Len(s) + 1
         /\ (\A i \in 1 .. Len(s) : a[i] = s[i]) /\ a[Len(s) + 1] = r
  BY AppendProperties
<1> HIDE DEF a
<1>2. \A i \in 1 .. Len(s) : a[i].day <= t /\ \A j \in 1 .. i : a[j].day <= a[i].day
  BY <1>1 DEF Calendar
<1>3. Calendar(a, t)
  BY <1>1, <1>2 DEF Calendar
<1>4. QED
  BY <1>3 DEF a

\* Lines and what they are appended to, taken together or apart.
LEMMA CalendarOf ==
  ASSUME NEW d \in Seq(Records), NEW s \in Seq(Records), NEW t \in Nat
  PROVE  Calendar(d \o s, t) <=>
           /\ Calendar(d, t)
           /\ Calendar(s, t)
           /\ \A i \in 1 .. Len(d), j \in 1 .. Len(s) : d[i].day <= s[j].day
<1> DEFINE a == d \o s
<1>1. a \in Seq(Records) /\ Len(a) = Len(d) + Len(s)
         /\ \A i \in 1 .. Len(d) + Len(s) : a[i] = IF i <= Len(d) THEN d[i] ELSE s[i - Len(d)]
  BY ConcatProperties
<1>2. (\A i \in 1 .. Len(d) : a[i] = d[i]) /\ \A j \in 1 .. Len(s) : a[Len(d) + j] = s[j]
  BY <1>1
<1> HIDE DEF a
<1>3. ASSUME Calendar(a, t)
      PROVE  /\ Calendar(d, t)
             /\ Calendar(s, t)
             /\ \A i \in 1 .. Len(d), j \in 1 .. Len(s) : d[i].day <= s[j].day
  <2>1. Calendar(d, t)
    BY <1>1, <1>2, <1>3 DEF Calendar
  <2>2. ASSUME NEW j \in 1 .. Len(s)
        PROVE  /\ s[j].day <= t
               /\ \A i \in 1 .. j : s[i].day <= s[j].day
               /\ \A i \in 1 .. Len(d) : d[i].day <= s[j].day
    <3>1. Len(d) + j \in DOMAIN a /\ a[Len(d) + j] = s[j]
      BY <1>1, <1>2
    <3>2. s[j].day <= t /\ \A i \in 1 .. (Len(d) + j) : a[i].day <= s[j].day
      BY <1>3, <3>1 DEF Calendar
    <3>3. \A i \in 1 .. j : Len(d) + i \in 1 .. (Len(d) + j) /\ a[Len(d) + i] = s[i]
      BY <1>2
    <3>4. \A i \in 1 .. j : s[i].day <= s[j].day
      BY <3>2, <3>3
    <3>5. ASSUME NEW i \in 1 .. Len(d)
          PROVE  d[i].day <= s[j].day
      <4>1. i \in 1 .. (Len(d) + j) /\ a[i] = d[i]
        BY <1>2
      <4>2. QED
        BY <3>2, <4>1
    <3>6. QED
      BY <3>2, <3>4, <3>5
  <2>3. QED
    BY <2>1, <2>2 DEF Calendar
<1>4. ASSUME Calendar(d, t), Calendar(s, t),
             \A i \in 1 .. Len(d), j \in 1 .. Len(s) : d[i].day <= s[j].day
      PROVE  Calendar(a, t)
  <2> SUFFICES ASSUME NEW i \in 1 .. (Len(d) + Len(s))
               PROVE  a[i].day <= t /\ \A j \in 1 .. i : a[j].day <= a[i].day
    BY <1>1 DEF Calendar
  <2>1. CASE i <= Len(d)
    <3>1. i \in DOMAIN d /\ a[i] = d[i] /\ \A j \in 1 .. i : a[j] = d[j]
      BY <1>2, <2>1
    <3>2. QED
      BY <1>4, <3>1 DEF Calendar
  <2>2. CASE i > Len(d)
    <3>1. i - Len(d) \in 1 .. Len(s) /\ a[i] = s[i - Len(d)]
      BY <1>1, <2>2
    <3>2. \A j \in 1 .. Len(d) : a[j].day <= a[i].day
      BY <1>2, <1>4, <3>1
    <3>3. \A j \in 1 .. i : j > Len(d) =>
            j - Len(d) \in 1 .. (i - Len(d)) /\ a[j] = s[j - Len(d)]
      BY <1>1, <2>2
    <3>4. a[i].day <= t /\ \A j \in 1 .. (i - Len(d)) : s[j].day <= a[i].day
      BY <1>4, <3>1 DEF Calendar
    <3>5. QED
      BY <3>2, <3>3, <3>4
  <2>3. QED
    BY <2>1, <2>2
<1>5. QED
  BY <1>3, <1>4 DEF a

\* Lines appended to the files, one of them swallowed or not.
LEMMA CalendarLines ==
  ASSUME NEW d \in Seq(Records), NEW s \in Seq(Records), NEW t \in Nat,
         Calendar(d \o s, t)
  PROVE  Calendar(AppendLines(d, s), t)
<1> DEFINE a == AppendLines(d, s)
           k == Len(d) + Len(s) - Len(a)
<1>1. /\ a \in Seq(Records)
      /\ k \in {0, 1}
      /\ \A i \in 1 .. Len(d) : a[i].day = d[i].day
      /\ \A i \in (Len(d) + 1) .. Len(a) : a[i] = s[i - Len(d) + k]
  BY LinesShape
<1>2. /\ Calendar(d, t)
      /\ Calendar(s, t)
      /\ \A i \in 1 .. Len(d), j \in 1 .. Len(s) : d[i].day <= s[j].day
  BY CalendarOf
<1> HIDE DEF a
<1>3. SUFFICES ASSUME NEW i \in 1 .. Len(a)
               PROVE  a[i].day <= t /\ \A j \in 1 .. i : a[j].day <= a[i].day
  BY <1>1 DEF Calendar, a
<1>4. CASE i <= Len(d)
  <2>1. i \in DOMAIN d /\ a[i].day = d[i].day /\ \A j \in 1 .. i : a[j].day = d[j].day
    BY <1>1, <1>4
  <2>2. QED
    BY <1>2, <2>1 DEF Calendar
<1>5. CASE ~(i <= Len(d))
  <2> DEFINE m == i - Len(d) + k
  <2>1. m \in 1 .. Len(s) /\ a[i] = s[m]
    BY <1>1, <1>5, LenProperties
  <2>2. \A j \in 1 .. i : j <= Len(d) => a[j].day = d[j].day /\ j \in 1 .. Len(d)
    BY <1>1
  <2>3. \A j \in 1 .. i : ~(j <= Len(d)) =>
          j - Len(d) + k \in 1 .. m /\ a[j] = s[j - Len(d) + k]
    BY <1>1, <1>5, LenProperties
  <2>4. a[i].day <= t /\ (\A j \in 1 .. m : s[j].day <= a[i].day)
           /\ \A j \in 1 .. Len(d) : d[j].day <= a[i].day
    BY <1>2, <2>1 DEF Calendar
  <2> HIDE DEF m, k
  <2>5. ASSUME NEW j \in 1 .. i
        PROVE  a[j].day <= a[i].day
    <3>1. CASE j <= Len(d)
      BY <2>2, <2>4, <3>1
    <3>2. CASE ~(j <= Len(d))
      BY <2>3, <2>4, <3>2
    <3>3. QED
      BY <3>1, <3>2
  <2>6. QED
    BY <2>4, <2>5
<1>6. QED
  BY <1>4, <1>5

\* Half a line handed over by a crash.
LEMMA CalendarHalf ==
  ASSUME NEW d \in Seq(Records), NEW r \in Records, NEW t \in Nat,
         Calendar(Append(d, r), t)
  PROVE  Calendar(AppendHalf(d, r), t)
<1> DEFINE a == AppendHalf(d, r)
           b == Append(d, r)
<1>1. /\ a \in Seq(Records)
      /\ \A i \in 1 .. Len(d) : a[i] = d[i]
      /\ \/ Len(a) = Len(d)
         \/ Len(a) = Len(d) + 1 /\ a[Len(a)].day = r.day
  BY HalfShape
<1>2. /\ b \in Seq(Records)
      /\ Len(b) = Len(d) + 1
      /\ \A i \in 1 .. Len(d) : b[i] = d[i]
      /\ b[Len(b)] = r
  BY AppendProperties
<1> HIDE DEF a, b
<1>3. Calendar(b, t)
  BY DEF b
<1>4. \A i \in 1 .. Len(a) : i \in 1 .. Len(b) /\ a[i].day = b[i].day
  <2>1. Len(a) <= Len(b)
    BY <1>1, <1>2, LenProperties
  <2>2. ASSUME NEW i \in 1 .. Len(a)
        PROVE  i \in 1 .. Len(b) /\ a[i].day = b[i].day
    <3>1. i \in 1 .. Len(d) \/ (i = Len(a) /\ Len(a) = Len(b))
      BY <1>1, <1>2, LenProperties
    <3>2. QED
      BY <1>1, <1>2, <2>1, <3>1, LenProperties
  <2>3. QED
    BY <2>2
<1>5. Calendar(a, t)
  BY <1>1, <1>2, <1>3, <1>4 DEF Calendar
<1>6. QED
  BY <1>5 DEF a

\* Removing lines from the middle.
LEMMA CutShape ==
  ASSUME NEW d \in Seq(Records), NEW k \in 0 .. Len(d), NEW n \in k .. Len(d)
  PROVE  LET a == SubSeq(d, 1, k) \o SubSeq(d, n + 1, Len(d))
         IN /\ a \in Seq(Records)
            /\ Len(a) = Len(d) - (n - k)
            /\ \A i \in 1 .. Len(a) : a[i] = IF i <= k THEN d[i] ELSE d[i + (n - k)]
<1> DEFINE p == SubSeq(d, 1, k)
           q == SubSeq(d, n + 1, Len(d))
           a == p \o q
<1>1. p \in Seq(Records) /\ Len(p) = k /\ \A i \in 1 .. k : p[i] = d[i]
  BY SubSeqProperties, ElementOfSeq
<1>2. q \in Seq(Records) /\ Len(q) = Len(d) - n
         /\ \A i \in 1 .. Len(d) - n : q[i] = d[n + i]
  <2>1. \A i \in (n + 1) .. Len(d) : d[i] \in Records
    BY ElementOfSeq
  <2>2. q \in Seq(Records)
           /\ Len(q) = (IF n + 1 <= Len(d) THEN Len(d) - (n + 1) + 1 ELSE 0)
           /\ \A i \in 1 .. Len(d) - (n + 1) + 1 : q[i] = d[(n + 1) + i - 1]
    BY <2>1, SubSeqProperties, LenProperties
  <2> HIDE DEF q
  <2>3. QED
    BY <2>2, LenProperties
<1> HIDE DEF p, q
<1>3. a \in Seq(Records) /\ Len(a) = k + (Len(d) - n)
         /\ \A i \in 1 .. k + (Len(d) - n) : a[i] = IF i <= k THEN p[i] ELSE q[i - k]
  <2>1. a \in Seq(Records) /\ Len(a) = Len(p) + Len(q)
           /\ \A i \in 1 .. Len(p) + Len(q) : a[i] = IF i <= Len(p) THEN p[i] ELSE q[i - Len(p)]
    BY <1>1, <1>2, ConcatProperties
  <2> HIDE DEF a
  <2>2. QED
    BY <1>1, <1>2, <2>1
<1> HIDE DEF a
<1>4. \A i \in 1 .. Len(a) : a[i] = IF i <= k THEN d[i] ELSE d[i + (n - k)]
  <2> SUFFICES ASSUME NEW i \in 1 .. Len(a)
               PROVE  a[i] = IF i <= k THEN d[i] ELSE d[i + (n - k)]
    OBVIOUS
  <2>1. CASE i <= k
    BY <1>1, <1>3, <2>1
  <2>2. CASE ~(i <= k)
    <3>1. i - k \in 1 .. Len(d) - n /\ n + (i - k) = i + (n - k)
      BY <1>3, <2>2, LenProperties
    <3>2. QED
      BY <1>2, <1>3, <2>2, <3>1
  <2>3. QED
    BY <2>1, <2>2
<1>5. Len(a) = Len(d) - (n - k)
  BY <1>3, LenProperties
<1>6. QED
  BY <1>3, <1>4, <1>5 DEF a, p, q

\* The days of what remains.
LEMMA CalendarCut ==
  ASSUME NEW d \in Seq(Records), NEW t \in Nat, Calendar(d, t),
         NEW k \in 0 .. Len(d), NEW n \in k .. Len(d)
  PROVE  Calendar(SubSeq(d, 1, k) \o SubSeq(d, n + 1, Len(d)), t)
<1> DEFINE a == SubSeq(d, 1, k) \o SubSeq(d, n + 1, Len(d))
           f(i) == IF i <= k THEN i ELSE i + (n - k)
<1>1. /\ a \in Seq(Records)
      /\ Len(a) = Len(d) - (n - k)
      /\ \A i \in 1 .. Len(a) : a[i] = IF i <= k THEN d[i] ELSE d[i + (n - k)]
  BY CutShape
<1> HIDE DEF a
<1>2. \A i \in 1 .. Len(a) : f(i) \in 1 .. Len(d) /\ a[i] = d[f(i)]
         /\ \A j \in 1 .. i : f(j) \in 1 .. f(i)
  BY <1>1, LenProperties
<1> HIDE DEF f
<1>3. ASSUME NEW i \in 1 .. Len(a)
      PROVE  a[i].day <= t /\ \A j \in 1 .. i : a[j].day <= a[i].day
  <2>1. a[i].day <= t /\ \A m \in 1 .. f(i) : d[m].day <= a[i].day
    BY <1>2 DEF Calendar
  <2>2. \A j \in 1 .. i : j \in 1 .. Len(a)
    BY <1>1, LenProperties
  <2>3. QED
    BY <1>2, <2>1, <2>2
<1>4. Calendar(a, t)
  BY <1>1, <1>3 DEF Calendar
<1>5. QED
  BY <1>4 DEF a

-----------------------------------------------------------------------------
(* What the repair does to the verdict. *)

\* Whether a line links depends on it and on the line before it.
LEMMA LinksAlike ==
  ASSUME NEW d \in Seq(Records), NEW e \in Seq(Records), NEW i \in DOMAIN d,
         e[i] = d[i], i > 1 => e[i - 1] = d[i - 1]
  PROVE  Links(e, i) <=> Links(d, i)
<1>1. CASE i = 1
  BY <1>1 DEF Links, SegmentStart
<1>2. CASE i # 1
  <2>1. e[i - 1] = d[i - 1]
    BY <1>2, LenProperties
  <2>2. QED
    BY <1>2, <2>1 DEF Links, SegmentStart
<1>3. QED
  BY <1>1, <1>2

\* What CoherentContinuation looks for.
Coheres(d, i) ==
  /\ Whole(d[i])
  /\ \/ SegmentStart(d, i) /\ d[i].prev = Genesis
     \/ Whole(d[i - 1]) /\ d[i].prev = d[i - 1].id

\* In a prefix the same lines link.
LEMMA PrefixLinks ==
  ASSUME NEW d \in Seq(Records), NEW n \in 0 .. Len(d)
  PROVE  /\ SubSeq(d, 1, n) \in Seq(Records)
         /\ Len(SubSeq(d, 1, n)) = n
         /\ \A i \in 1 .. n : SubSeq(d, 1, n)[i] = d[i]
         /\ \A i \in 1 .. n : Links(SubSeq(d, 1, n), i) <=> Links(d, i)
         /\ Broken(SubSeq(d, 1, n)) = Broken(d) \cap (1 .. n)
<1> DEFINE p == SubSeq(d, 1, n)
<1>1. p \in Seq(Records) /\ Len(p) = n /\ \A i \in 1 .. n : p[i] = d[i]
  BY SubSeqProperties, ElementOfSeq
<1> HIDE DEF p
<1>2. ASSUME NEW i \in 1 .. n
      PROVE  Links(p, i) <=> Links(d, i)
  <2>1. i \in DOMAIN d /\ p[i] = d[i] /\ (i > 1 => p[i - 1] = d[i - 1])
    BY <1>1, LenProperties
  <2>2. QED
    BY <1>1, <2>1, LinksAlike
<1>3. Broken(p) = Broken(d) \cap (1 .. n)
  <2>1. DOMAIN p = 1 .. n /\ (1 .. n) \subseteq DOMAIN d
    BY <1>1, LenProperties
  <2>2. QED
    BY <1>2, <2>1 DEF Broken
<1>4. QED
  BY <1>1, <1>2, <1>3 DEF p

\* A prefix of a chain is one.
LEMMA ChainPrefix ==
  ASSUME NEW d \in Seq(Records), NEW n \in 0 .. Len(d), Chain(d)
  PROVE  Chain(SubSeq(d, 1, n))
<1>1. (1 .. n) \subseteq DOMAIN d
  BY LenProperties
<1>2. QED
  BY <1>1, PrefixLinks DEF Chain

\* A prefix of a repairable log is one.
LEMMA PrefixVerdict ==
  ASSUME NEW d \in Seq(Records), NEW n \in 0 .. Len(d),
         Classify(d) # "interior_corruption"
  PROVE  Classify(SubSeq(d, 1, n)) # "interior_corruption"
<1> DEFINE p == SubSeq(d, 1, n)
<1>1. /\ p \in Seq(Records) /\ Len(p) = n
      /\ \A i \in 1 .. n : p[i] = d[i]
      /\ Broken(p) = Broken(d) \cap (1 .. n)
  BY PrefixLinks
<1> HIDE DEF p
<1>2. SUFFICES ASSUME Broken(p) # {}
               PROVE  FirstBreak(p) # 1 /\ ~CoherentContinuation(p, FirstBreak(p))
  BY <1>1, ClassifyIs DEF p
<1>3. Broken(d) # {} /\ FirstBreak(d) # 1 /\ ~CoherentContinuation(d, FirstBreak(d))
  BY <1>1, <1>2, ClassifyIs
<1>4. FirstBreak(p) = FirstBreak(d)
  <2>1. FirstBreak(p) \in Broken(p) /\ \A j \in Broken(p) : FirstBreak(p) <= j
    BY <1>1, <1>2, FirstBreakIs DEF Broken
  <2>2. FirstBreak(d) \in Broken(d) /\ \A j \in Broken(d) : FirstBreak(d) <= j
    BY <1>3, FirstBreakIs DEF Broken
  <2>3. FirstBreak(p) \in 1 .. n /\ FirstBreak(d) \in DOMAIN d
    BY <1>1, <2>1, <2>2 DEF Broken
  <2>4. FirstBreak(d) <= FirstBreak(p) /\ FirstBreak(d) \in 1 .. n
    BY <1>1, <2>1, <2>2, <2>3, LenProperties
  <2>5. QED
    BY <1>1, <2>1, <2>2, <2>3, <2>4
<1>5. ASSUME NEW i \in (FirstBreak(p) + 1) .. n, Coheres(p, i)
      PROVE  FALSE
  <2>1. FirstBreak(p) \in 1 .. n
    BY <1>1, <1>2, FirstBreakIs, LenProperties
  <2>2. i # 1 /\ p[i] = d[i] /\ p[i - 1] = d[i - 1]
    BY <1>1, <2>1
  <2>3. Coheres(d, i)
    BY <1>5, <2>2 DEF Coheres, SegmentStart
  <2>4. i \in (FirstBreak(d) + 1) .. Len(d)
    BY <1>4, <2>1, LenProperties
  <2>5. QED
    BY <1>3, <2>3, <2>4 DEF CoherentContinuation, Coheres
<1>6. QED
  BY <1>1, <1>3, <1>4, <1>5 DEF CoherentContinuation, Coheres

\* Cutting the file of a torn tail leaves a repairable log: the lines of the
\* newer files keep the line before them, except the first.
LEMMA CutVerdict ==
  ASSUME NEW d \in Seq(Records), Classify(d) = "broken_tail",
         NEW n \in FirstBreak(d) .. Len(d)
  PROVE  Classify(SubSeq(d, 1, FirstBreak(d) - 1) \o SubSeq(d, n + 1, Len(d)))
           # "interior_corruption"
<1> DEFINE k == FirstBreak(d) - 1
           a == SubSeq(d, 1, k) \o SubSeq(d, n + 1, Len(d))
<1>1. /\ Broken(d) # {} /\ FirstBreak(d) # 1
      /\ ~CoherentContinuation(d, FirstBreak(d))
  BY ClassifyIs
<1>2. /\ FirstBreak(d) \in 1 .. Len(d)
      /\ \A j \in Broken(d) : FirstBreak(d) <= j
  BY <1>1, FirstBreakIs, LenProperties
<1>3. k \in 1 .. Len(d) /\ n \in k .. Len(d) /\ n > k /\ FirstBreak(d) = k + 1
  BY <1>1, <1>2
<1> HIDE DEF k
<1>4. /\ a \in Seq(Records)
      /\ Len(a) = Len(d) - (n - k)
      /\ \A i \in 1 .. Len(a) : a[i] = IF i <= k THEN d[i] ELSE d[i + (n - k)]
  <2>1. k \in 0 .. Len(d) /\ n \in k .. Len(d)
    BY <1>3, LenProperties
  <2>2. Len(a) = Len(d) - (n - k) /\ a \in Seq(Records)
           /\ \A i \in 1 .. Len(a) : a[i] = IF i <= k THEN d[i] ELSE d[i + (n - k)]
    BY <2>1, CutShape
  <2>3. QED
    BY <2>2
<1> HIDE DEF a
<1>5. SUFFICES ASSUME Broken(a) # {}
               PROVE  FirstBreak(a) # 1 /\ ~CoherentContinuation(a, FirstBreak(a))
  BY <1>4, ClassifyIs DEF a, k
<1>6. FirstBreak(a) \in DOMAIN a /\ ~Links(a, FirstBreak(a))
  BY <1>4, <1>5, FirstBreakIs
<1>7. FirstBreak(a) > k
  <2> DEFINE f == FirstBreak(a)
  <2>1. f \in 1 .. Len(a) /\ Len(a) \in Nat /\ ~Links(a, f)
    BY <1>4, <1>6, LenProperties
  <2> HIDE DEF f
  <2>2. ASSUME f <= k
        PROVE  FALSE
    <3>1. f \in DOMAIN d /\ a[f] = d[f] /\ (f > 1 => a[f - 1] = d[f - 1])
      BY <1>3, <1>4, <2>1, <2>2, LenProperties
    <3>2. ~Links(d, f)
      BY <1>4, <2>1, <3>1, LinksAlike
    <3>3. f \in Broken(d)
      BY <3>1, <3>2 DEF Broken
    <3>4. k + 1 <= f
      BY <1>2, <1>3, <3>3
    <3>5. QED
      BY <1>3, <2>1, <2>2, <3>4
  <2>3. f > k
    BY <1>3, <2>1, <2>2
  <2>4. QED
    BY <2>3 DEF f
<1>8. ASSUME NEW i \in (FirstBreak(a) + 1) .. Len(a), Coheres(a, i)
      PROVE  FALSE
  <2>1. FirstBreak(a) \in 1 .. Len(a)
    BY <1>4, <1>6, LenProperties
  <2> DEFINE j == i + (n - k)
  <2>2. i # 1 /\ j # 1 /\ j \in (FirstBreak(d) + 1) .. Len(d)
    BY <1>3, <1>4, <1>7, <2>1, LenProperties
  <2>3. a[i] = d[j]
    BY <1>3, <1>4, <1>7, <2>1
  <2>4. a[i - 1] = d[j - 1]
    <3>1. i - 1 \in 1 .. Len(a) /\ ~(i - 1 <= k) /\ (i - 1) + (n - k) = j - 1
      BY <1>3, <1>4, <1>7, <2>1, LenProperties
    <3>2. QED
      BY <1>4, <3>1
  <2> HIDE DEF j
  <2>5. Coheres(d, j)
    BY <1>8, <2>2, <2>3, <2>4 DEF Coheres, SegmentStart
  <2>6. QED
    BY <1>1, <2>2, <2>5 DEF CoherentContinuation, Coheres
<1>9. QED
  BY <1>3, <1>6, <1>7, <1>8 DEF CoherentContinuation, Coheres

-----------------------------------------------------------------------------
(* The emit calls. *)

\* The calls end or go on, as the late ones they are; none begins.
Settles(c, b) ==
  \A e \in Events :
    /\ b[e].late = c[e].late
    /\ b[e].st \in {"wait", "retry"} => c[e].st \in {"wait", "retry"}
    /\ b[e].st = "new" <=> c[e].st = "new"

\* A call makes at least one attempt and at most MAX_RETRIES.
LEMMA AttemptsBound == \A e : Attempts(e) \in 1 .. MaxRetries
BY AuditAssumption DEF Attempts

\* A call's own moves.
LEMMA CallMoves ==
  ASSUME NEW e \in Events, NEW c \in EmitCalls, Counts(c, e)
  PROVE  /\ \A s \in {"ok", "failed"} :
              /\ Ended(c, s) \in EmitCalls /\ Counts(Ended(c, s), e)
              /\ Ended(c, s).st = s /\ Ended(c, s).late = c.late
         /\ c.st = "wait" =>
              /\ Failed(c, e) \in EmitCalls /\ Counts(Failed(c, e), e)
              /\ Failed(c, e).st \in {"retry", "failed"} /\ Failed(c, e).late = c.late
<1> DEFINE r == [c EXCEPT !.st = "retry"]
<1>1. \A s \in {"ok", "failed"} :
        /\ Ended(c, s) \in EmitCalls /\ Counts(Ended(c, s), e)
        /\ Ended(c, s).st = s /\ Ended(c, s).late = c.late
  <2> SUFFICES ASSUME NEW s \in {"ok", "failed"}
               PROVE  /\ Ended(c, s) \in EmitCalls /\ Counts(Ended(c, s), e)
                      /\ Ended(c, s).st = s /\ Ended(c, s).late = c.late
    OBVIOUS
  <2>1. Ended(c, s) \in EmitCalls
    <3> DEFINE b == [c EXCEPT !.st = s]
    <3>1. b \in EmitCalls /\ 0 \in 0 .. MaxRetries
      BY AuditAssumption DEF EmitCalls
    <3>2. Ended(c, s) = [b EXCEPT !.tries = 0]
      BY DEF Ended
    <3> HIDE DEF b
    <3>3. QED
      BY <3>1, <3>2 DEF EmitCalls
  <2>2. Ended(c, s).st = s /\ Ended(c, s).late = c.late
    BY DEF Ended, EmitCalls
  <2>3. QED
    BY <2>1, <2>2 DEF Counts
<1>2. c.tries < Attempts(e) =>
        /\ r \in EmitCalls /\ Counts(r, e)
        /\ r.st = "retry" /\ r.late = c.late
  BY DEF EmitCalls, Counts
<1> HIDE DEF r
<1>3. Failed(c, e) = IF c.tries < Attempts(e) THEN r ELSE Ended(c, "failed")
  BY DEF Failed, r
<1>4. QED
  BY <1>1, <1>2, <1>3

\* An answer ends at most the call it is for.
LEMMA AnsweredMoves ==
  ASSUME CallsOK(cl), NEW e \in Events, NEW n
  PROVE  /\ CallsOK(Answered(e, n))
         /\ Settles(cl, Answered(e, n))
         /\ \A f \in Events : Answered(e, n)[f].st = "ok" => cl[f].st = "ok" \/ f = e
<1> DEFINE q == Ended(cl[e], "ok")
<1>1. cl \in [Events -> EmitCalls] /\ \A f \in Events : Counts(cl[f], f)
  BY DEF CallsOK
<1>2. q \in EmitCalls /\ Counts(q, e) /\ q.st = "ok" /\ q.late = cl[e].late
  BY <1>1, CallMoves
<1> HIDE DEF q
<1>3. Answered(e, n) = IF Waits(e, n) THEN [cl EXCEPT ![e] = q] ELSE cl
  BY <1>1 DEF Answered, q
<1>4. CASE Waits(e, n)
  <2>1. Answered(e, n) \in [Events -> EmitCalls]
           /\ \A f \in Events : Answered(e, n)[f] = IF f = e THEN q ELSE cl[f]
    BY <1>1, <1>2, <1>3, <1>4
  <2>2. cl[e].st = "wait"
    BY <1>4 DEF Waits
  <2>3. QED
    BY <1>1, <1>2, <2>1, <2>2 DEF CallsOK, Settles
<1>5. CASE ~Waits(e, n)
  BY <1>1, <1>3, <1>5 DEF CallsOK, Settles
<1>6. QED
  BY <1>4, <1>5

\* So does a connection closed without one; it reports no success.
LEMMA CutOffMoves ==
  ASSUME NEW c, CallsOK(c), NEW e \in Events, NEW n
  PROVE  /\ CallsOK(CutOff(c, e, n))
         /\ Settles(c, CutOff(c, e, n))
         /\ \A f \in Events : CutOff(c, e, n)[f].st = "ok" => c[f].st = "ok"
<1> DEFINE q == Ended(c[e], "failed")
<1>1. c \in [Events -> EmitCalls] /\ \A f \in Events : Counts(c[f], f)
  BY DEF CallsOK
<1>2. q \in EmitCalls /\ Counts(q, e) /\ q.st = "failed" /\ q.late = c[e].late
  BY <1>1, CallMoves
<1> HIDE DEF q
<1>3. CutOff(c, e, n) =
        IF c[e].st = "wait" /\ c[e].tries = n THEN [c EXCEPT ![e] = q] ELSE c
  BY <1>1 DEF CutOff, q
<1>4. CASE c[e].st = "wait" /\ c[e].tries = n
  <2>1. CutOff(c, e, n) \in [Events -> EmitCalls]
           /\ \A f \in Events : CutOff(c, e, n)[f] = IF f = e THEN q ELSE c[f]
    BY <1>1, <1>2, <1>3, <1>4
  <2>2. QED
    BY <1>1, <1>2, <1>4, <2>1 DEF CallsOK, Settles
<1>5. CASE ~(c[e].st = "wait" /\ c[e].tries = n)
  BY <1>1, <1>3, <1>5 DEF CallsOK, Settles
<1>6. QED
  BY <1>4, <1>5

\* Resetting the backlog ends or retries what waits in it.
LEMMA ResetMoves ==
  ASSUME NEW c, CallsOK(c)
  PROVE  /\ CallsOK(Reset(c))
         /\ Settles(c, Reset(c))
         /\ \A f \in Events : Reset(c)[f].st = "ok" => c[f].st = "ok"
<1>1. c \in [Events -> EmitCalls] /\ \A f \in Events : Counts(c[f], f)
  BY DEF CallsOK
<1>2. ASSUME NEW f \in Events
      PROVE  /\ Reset(c)[f] \in EmitCalls /\ Counts(Reset(c)[f], f)
             /\ Reset(c)[f].late = c[f].late
             /\ \/ Reset(c)[f] = c[f]
                \/ c[f].st = "wait" /\ Reset(c)[f].st \in {"retry", "failed"}
  <2>1. Reset(c)[f] = c[f] \/ (c[f].st = "wait" /\ Reset(c)[f] = Failed(c[f], f))
    BY DEF Reset
  <2>2. c[f].st = "wait" =>
          /\ Failed(c[f], f) \in EmitCalls /\ Counts(Failed(c[f], f), f)
          /\ Failed(c[f], f).st \in {"retry", "failed"} /\ Failed(c[f], f).late = c[f].late
    BY <1>1, CallMoves
  <2>3. QED
    BY <1>1, <2>1, <2>2
<1>3. Reset(c) \in [Events -> EmitCalls]
  <2>1. Reset(c) = [f \in Events |-> Reset(c)[f]]
    BY DEF Reset
  <2>2. QED
    BY <1>2, <2>1
<1>4. QED
  BY <1>2, <1>3 DEF CallsOK, Settles

\* The clients of a writer that dies.
LEMMA BereftMoves ==
  ASSUME TypeOK, CallsOK(cl)
  PROVE  /\ CallsOK(Bereft)
         /\ Settles(cl, Bereft)
         /\ \A f \in Events : Bereft[f].st = "ok" => cl[f].st = "ok"
<1>1. CASE cur = NoRecord
  BY <1>1, ResetMoves DEF Bereft
<1>2. CASE cur # NoRecord
  <2> DEFINE c == CutOff(cl, cur.id[1], cur.id[2])
  <2>1. cur.id[1] \in Events
    BY <1>2 DEF TypeOK, Records, Messages
  <2>2. /\ CallsOK(c)
        /\ Settles(cl, c)
        /\ \A f \in Events : c[f].st = "ok" => cl[f].st = "ok"
    BY <2>1, CutOffMoves
  <2> HIDE DEF c
  <2>3. /\ CallsOK(Reset(c))
        /\ Settles(c, Reset(c))
        /\ \A f \in Events : Reset(c)[f].st = "ok" => c[f].st = "ok"
    BY <2>2, ResetMoves
  <2>4. Bereft = Reset(c)
    BY <1>2 DEF Bereft, c
  <2>5. QED
    BY <2>2, <2>3, <2>4 DEF Settles
<1>3. QED
  BY <1>1, <1>2

-----------------------------------------------------------------------------
(* Types. *)

\* The line in hand is a line, and the buffer and it are lines.
LEMMA OwedType ==
  ASSUME TypeOK
  PROVE  /\ Owed \in Seq(Records)
         /\ pc \in {"write", "ack"} => cur \in Records
         /\ pc # "write" => Owed = be_buffer
         /\ pc = "write" => Owed = Append(be_buffer, cur)
<1>1. pc \in {"write", "ack"} => cur \in Records
  BY DEF TypeOK
<1>2. be_buffer \in Seq(Records)
  BY DEF TypeOK
<1>3. QED
  BY <1>1, <1>2, AppendProperties DEF Owed

\* What recovery chains to is an id.
LEMMA RecoveredType ==
  ASSUME TypeOK
  PROVE  /\ RecoveredHash(disk) \in Hashes
         /\ RecoveredIds(disk) \subseteq Events
<1>1. \A i \in Recent(disk) : i \in DOMAIN disk /\ disk[i] \in Records
  BY DEF TypeOK, Recent
<1>2. \A i \in Recent(disk) : disk[i].id \in Messages /\ disk[i].id[1] \in Events
  BY <1>1 DEF Records, Messages
<1>3. RecoveredIds(disk) \subseteq Events
  BY <1>2 DEF RecoveredIds
<1>4. CASE Recent(disk) = {}
  BY <1>3, <1>4 DEF RecoveredHash, Hashes
<1>5. CASE Recent(disk) # {}
  <2>1. Recent(disk) \subseteq 1 .. Len(disk)
    BY LenProperties DEF TypeOK, Recent
  <2>2. \E i \in Recent(disk) : \A j \in Recent(disk) : j <= i
    <3>1. Len(disk) \in Nat
      BY LenProperties DEF TypeOK
    <3> QED
      BY <1>5, <2>1, <3>1, Greatest
  <2>3. (CHOOSE i \in Recent(disk) : \A j \in Recent(disk) : j <= i) \in Recent(disk)
    BY <2>2
  <2>4. RecoveredHash(disk) \in Messages
    BY <1>2, <1>5, <2>3 DEF RecoveredHash
  <2>5. QED
    BY <1>3, <2>4 DEF Hashes
<1>6. QED
  BY <1>4, <1>5

\* The line _commit_event makes of a message.
LEMMA CommittedType ==
  ASSUME TypeOK, NEW m \in Messages
  PROVE  /\ Committed(m) \in Records
         /\ Committed(m) # NoRecord
         /\ Committed(m).id = m
         /\ Committed(m).day = today
         /\ Committed(m).prev = prev_hash
         /\ Whole(Committed(m))
<1>1. Committed(m) \in Records
  BY DEF TypeOK, Committed, Records, Kinds
<1>2. m # <<>>
  <2>1. PICK e \in Events, n \in 1 .. MaxRetries : m = <<e, n>>
    BY DEF Messages
  <2>2. Len(<<e, n>>) = 2 /\ Len(<<>>) = 0
    OBVIOUS
  <2>3. QED
    BY <2>1, <2>2
<1>3. Committed(m).id = m /\ NoRecord.id = <<>>
  BY DEF Committed, NoRecord, Genesis
<1>4. QED
  BY <1>1, <1>2, <1>3 DEF Committed, Whole

\* The files once _commit_event has dealt with a rollover.
LEMMA CarryType ==
  ASSUME TypeOK
  PROVE  /\ Carry \in Seq(Records)
         /\ Carried \in Seq(Records)
         /\ \/ Carry = AppendLines(disk, be_buffer) /\ Carried = <<>>
            \/ Carry = disk /\ Carried = be_buffer
<1>1. disk \in Seq(Records) /\ be_buffer \in Seq(Records)
  BY DEF TypeOK
<1>2. AppendLines(disk, be_buffer) \in Seq(Records) /\ <<>> \in Seq(Records)
  BY <1>1, LinesShape, EmptySeq
<1>3. QED
  BY <1>1, <1>2 DEF Carry, Carried

\* The first of the backlog.
LEMMA QueueFirst ==
  ASSUME TypeOK, queue # <<>>
  PROVE  /\ queue[1] \in Messages
         /\ queue[1][1] \in Events
         /\ Tail(queue) \in Seq(Messages)
         /\ \A i \in DOMAIN Tail(queue) :
              i + 1 \in DOMAIN queue /\ Tail(queue)[i] = queue[i + 1]
<1>1. queue \in Seq(Messages)
  BY DEF TypeOK
<1>2. Len(queue) \in Nat \ {0} /\ Tail(queue) \in Seq(Messages)
         /\ Len(Tail(queue)) = Len(queue) - 1
         /\ \A i \in 1 .. Len(Tail(queue)) : Tail(queue)[i] = queue[i + 1]
  BY <1>1, HeadTailProperties, EmptySeq
<1>3. queue[1] \in Messages
  BY <1>1, <1>2
<1>4. \A i \in DOMAIN Tail(queue) : i + 1 \in DOMAIN queue
  BY <1>1, <1>2, LenProperties
<1>5. QED
  BY <1>2, <1>3, <1>4, LenProperties DEF Messages

\* Taking a best-effort or a durable event: the same files and buffer.
LEMMA TakenType ==
  ASSUME TypeInv, queue # <<>>
  PROVE  /\ Committed(queue[1]) \in Records
         /\ Committed(queue[1]) # NoRecord
         /\ queue[1] \in Hashes
         /\ Append(Carried, Committed(queue[1])) \in Seq(Records)
<1>1. queue[1] \in Messages
  BY QueueFirst DEF TypeInv
<1>2. QED
  BY <1>1, CommittedType, CarryType, AppendProperties DEF TypeInv, Hashes

\* The types hold at first.
LEMMA InitType == Init => TypeInv
<1> SUFFICES ASSUME Init PROVE TypeInv
  OBVIOUS
<1> DEFINE c == [st |-> "new", tries |-> 0, late |-> FALSE]
<1>1. c \in EmitCalls /\ c.st = "new" /\ c.tries = 0
  BY AuditAssumption DEF EmitCalls
<1> HIDE DEF c
<1>2. cl = [e \in Events |-> c]
  BY DEF Init, c
<1>3. CallsOK(cl)
  BY <1>1, <1>2 DEF CallsOK, Counts
<1>4. rep \in [pc : {"none", "plan", "copied", "cut"}, at : Nat, file : 0 .. Days]
  BY AuditAssumption DEF Init, NoRepair
<1>5. <<>> \in Seq(Records) /\ <<>> \in Seq(Messages)
  BY EmptySeq
<1>6. TypeOK
  BY <1>3, <1>4, <1>5, AuditAssumption DEF Init, TypeOK, CallsOK, EmitCalls, Hashes
<1>7. Quiet
  BY DEF Init, Quiet, NoRepair
<1>8. QED
  BY <1>3, <1>6, <1>7 DEF TypeInv

\* The client's steps.
LEMMA ClientType ==
  ASSUME TypeInv, NEW e \in Events, Connect(e) \/ Timeout(e)
  PROVE  TypeInv'
<1>1. cl \in [Events -> EmitCalls] /\ Counts(cl[e], e) /\ \A f \in Events : Counts(cl[f], f)
  BY DEF TypeInv, CallsOK
<1>2. CASE Timeout(e)
  <2> DEFINE q == Failed(cl[e], e)
  <2>1. q \in EmitCalls /\ Counts(q, e)
    BY <1>1, <1>2, CallMoves DEF Timeout
  <2> HIDE DEF q
  <2>2. cl' = [cl EXCEPT ![e] = q]
    BY <1>1, <1>2 DEF Timeout, q
  <2>3. CallsOK(cl')
    BY <1>1, <2>1, <2>2 DEF CallsOK
  <2>4. QED
    BY <1>2, <2>3 DEF TypeInv, TypeOK, CallsOK, EmitCalls, Quiet, Timeout, writer, repair
<1>3. CASE Connect(e)
  <2> DEFINE c == [cl[e] EXCEPT !.st = "wait", !.tries = @ + 1]
             q == Failed(c, e)
  <2>1. c \in EmitCalls /\ Counts(c, e) /\ c.st = "wait"
           /\ c.tries \in 1 .. MaxRetries
    <3>1. cl[e].tries \in 0 .. MaxRetries /\ cl[e].tries + 1 \in 1 .. Attempts(e)
      BY <1>1, <1>3, AttemptsBound, AuditAssumption DEF Connect, Counts, EmitCalls
    <3>2. Attempts(e) \in 1 .. MaxRetries
      BY AttemptsBound
    <3>3. cl[e].tries + 1 \in 0 .. MaxRetries
      BY <3>1, <3>2, AuditAssumption
    <3> DEFINE b == [cl[e] EXCEPT !.st = "wait"]
               t == cl[e].tries + 1
    <3>4. b \in EmitCalls /\ b.st = "wait"
      BY <1>1 DEF EmitCalls
    <3>5. c = [b EXCEPT !.tries = t]
      BY <1>1 DEF EmitCalls
    <3>6. t \in 1 .. Attempts(e) /\ t \in 0 .. MaxRetries /\ t \in 1 .. MaxRetries
      BY <3>1, <3>2, <3>3, AuditAssumption
    <3> HIDE DEF b, t, c
    <3>7. c \in EmitCalls /\ c.st = "wait" /\ c.tries = t
      BY <3>4, <3>5, <3>6 DEF EmitCalls
    <3>8. QED
      BY <3>6, <3>7 DEF Counts
  <2>2. q \in EmitCalls /\ Counts(q, e)
    <3> HIDE DEF c
    <3> QED
      BY <2>1, CallMoves
  <2>3. \/ cl' = [cl EXCEPT ![e] = c] /\ queue' = Append(queue, <<e, c.tries>>) /\ pc # "down"
        \/ cl' = [cl EXCEPT ![e] = q] /\ queue' = queue
    BY <1>3 DEF Connect
  <2> HIDE DEF c, q
  <2>4. CallsOK(cl')
    BY <1>1, <2>1, <2>2, <2>3 DEF CallsOK
  <2>5. <<e, c.tries>> \in Messages
    BY <2>1 DEF Messages
  <2>6. queue' \in Seq(Messages) /\ (pc = "down" => queue' = queue)
    <3>1. queue \in Seq(Messages)
      BY DEF TypeInv, TypeOK
    <3>2. Append(queue, <<e, c.tries>>) \in Seq(Messages)
      BY <2>5, <3>1, AppendProperties
    <3>3. QED
      BY <2>3, <3>1, <3>2
  <2>7. QED
    BY <1>3, <2>4, <2>6 DEF TypeInv, TypeOK, CallsOK, EmitCalls, Quiet, Connect, writer, repair
<1>4. QED
  BY <1>2, <1>3

\* The writer's steps.
LEMMA WriterType ==
  ASSUME TypeInv,
         Start \/ TakeDuplicate \/ TakeBestEffort \/ TakeDurable
           \/ WriteDurable \/ Ack \/ Flush \/ SyncFails
  PROVE  TypeInv'
<1>1. /\ disk \in Seq(Records) /\ be_buffer \in Seq(Records) /\ queue \in Seq(Messages)
      /\ Owed \in Seq(Records) /\ <<>> \in Seq(Records)
      /\ seen \subseteq Events
  BY OwedType, EmptySeq DEF TypeInv, TypeOK
<1>2. \A s \in Seq(Records) : AppendLines(disk, s) \in Seq(Records)
  BY <1>1, LinesShape
<1>3. CASE Start
  BY <1>3, RecoveredType DEF TypeInv, TypeOK, Quiet, Start, repair
<1>4. CASE TakeDuplicate
  <2>1. CallsOK(cl') /\ queue' \in Seq(Messages)
    BY <1>4, QueueFirst, AnsweredMoves DEF TypeInv, TakeDuplicate
  <2>2. QED
    BY <1>4, <2>1 DEF TypeInv, TypeOK, CallsOK, EmitCalls, Quiet, TakeDuplicate, writer, repair
<1>5. CASE TakeBestEffort
  <2> DEFINE r == Committed(queue[1])
  <2>1. CallsOK(cl') /\ queue' \in Seq(Messages)
    BY <1>5, QueueFirst, AnsweredMoves DEF TypeInv, TakeBestEffort
  <2>2. Append(Carried, r) \in Seq(Records) /\ r.id \in Hashes /\ r.id[1] \in Events
           /\ Carry \in Seq(Records)
    BY <1>5, TakenType, QueueFirst, CommittedType, CarryType DEF TypeInv, TakeBestEffort
  <2>3. be_buffer' = Append(Carried, r) /\ prev_hash' = r.id
           /\ seen' = seen \cup {r.id[1]} /\ disk' = Carry
    BY <1>5 DEF TakeBestEffort, Chained
  <2> HIDE DEF r
  <2>4. QED
    BY <1>1, <1>5, <2>1, <2>2, <2>3
    DEF TypeInv, TypeOK, CallsOK, EmitCalls, Quiet, TakeBestEffort, repair
<1>6. CASE TakeDurable
  <2>1. cur' \in Records /\ cur' # NoRecord /\ queue' \in Seq(Messages)
           /\ disk' \in Seq(Records) /\ be_buffer' \in Seq(Records)
    BY <1>6, TakenType, QueueFirst, CarryType DEF TypeInv, TakeDurable
  <2>2. QED
    BY <1>6, <2>1 DEF TypeInv, TypeOK, CallsOK, Quiet, TakeDurable, repair
<1>7. CASE WriteDurable
  <2>1. cur \in Records /\ cur # NoRecord
    BY <1>7, OwedType DEF TypeInv, TypeOK, WriteDurable
  <2>2. cur.id \in Hashes /\ cur.id[1] \in Events
    BY <2>1 DEF Records, Hashes, Messages
  <2>3. disk' \in Seq(Records) /\ seen' \subseteq Events /\ prev_hash' \in Hashes
    BY <1>1, <1>2, <1>7, <2>2 DEF WriteDurable, Chained
  <2>4. QED
    BY <1>1, <1>7, <2>1, <2>3 DEF TypeInv, TypeOK, CallsOK, Quiet, WriteDurable, repair
<1>8. CASE Ack
  <2>1. cur.id[1] \in Events
    BY <1>8, OwedType DEF TypeInv, Ack, Records, Messages
  <2>2. CallsOK(cl')
    BY <1>8, <2>1, AnsweredMoves DEF TypeInv, Ack
  <2>3. QED
    BY <1>8, <2>2 DEF TypeInv, TypeOK, CallsOK, EmitCalls, Quiet, Ack, repair
<1>9. CASE Flush
  BY <1>1, <1>2, <1>9 DEF TypeInv, TypeOK, CallsOK, Quiet, Flush, repair
<1>10. CASE SyncFails
  <2>1. cur.id[1] \in Events
    BY <1>10, OwedType DEF TypeInv, SyncFails, Records, Messages
  <2>2. CallsOK(cl')
    BY <1>10, <2>1, CutOffMoves DEF TypeInv, SyncFails
  <2>3. faults' \in 0 .. MaxFaults
    BY <1>10, AuditAssumption DEF TypeInv, TypeOK, SyncFails
  <2>4. disk' \in Seq(Records)
    BY <1>1, <1>2, <1>10 DEF SyncFails
  <2>5. QED
    BY <1>1, <1>10, <2>2, <2>3, <2>4
    DEF TypeInv, TypeOK, CallsOK, EmitCalls, Quiet, SyncFails, repair
<1>11. QED
  BY <1>3, <1>4, <1>5, <1>6, <1>7, <1>8, <1>9, <1>10

\* Its deaths.
LEMMA DeathType ==
  ASSUME TypeInv,
         \/ Stop
         \/ \E n \in 0 .. Len(Owed) : Crash(n)
         \/ \E n \in 0 .. Len(Owed) - 1 : CrashTorn(n)
  PROVE  TypeInv'
<1>1. /\ disk \in Seq(Records) /\ be_buffer \in Seq(Records) /\ Owed \in Seq(Records)
      /\ <<>> \in Seq(Records) /\ <<>> \in Seq(Messages)
  BY OwedType, EmptySeq DEF TypeInv, TypeOK
<1>2. \A s \in Seq(Records) : AppendLines(disk, s) \in Seq(Records)
  BY <1>1, LinesShape
<1>3. ASSUME Down, CallsOK(cl'), disk' \in Seq(Records), pc # "down", crashes < MaxCrashes,
             crashes' = crashes + 1, faults' \in 0 .. MaxFaults, UNCHANGED <<today, repair>>
      PROVE  TypeInv'
  <2>1. crashes' \in 0 .. MaxCrashes
    BY <1>3, AuditAssumption DEF TypeInv, TypeOK
  <2>2. rep.pc = "none"
    BY <1>3 DEF TypeInv, Quiet
  <2>3. QED
    BY <1>1, <1>3, <2>1, <2>2 DEF TypeInv, TypeOK, CallsOK, EmitCalls, Quiet, Down, repair, Hashes
<1>4. faults \in 0 .. MaxFaults /\ (faults < MaxFaults => faults + 1 \in 0 .. MaxFaults)
  BY AuditAssumption DEF TypeInv, TypeOK
<1>5. CallsOK(Reset(cl)) /\ CallsOK(Bereft)
  BY ResetMoves, BereftMoves DEF TypeInv
<1>6. CASE Stop
  <2>1. disk' \in Seq(Records)
    BY <1>1, <1>2, <1>6 DEF Stop
  <2>2. QED
    BY <1>3, <1>4, <1>5, <1>6, <2>1 DEF Stop
<1>7. ASSUME NEW n \in 0 .. Len(Owed), Crash(n)
      PROVE  TypeInv'
  <2>1. SubSeq(Owed, 1, n) \in Seq(Records)
    BY <1>1, OwedInPart
  <2>2. disk' \in Seq(Records)
    BY <1>2, <1>7, <2>1 DEF Crash
  <2>3. QED
    BY <1>3, <1>4, <1>5, <1>7, <2>2 DEF Crash
<1>8. ASSUME NEW n \in 0 .. Len(Owed) - 1, CrashTorn(n)
      PROVE  TypeInv'
  <2>1. n \in 0 .. Len(Owed) /\ n + 1 \in 1 .. Len(Owed)
    BY <1>1, LenProperties
  <2>2. SubSeq(Owed, 1, n) \in Seq(Records) /\ Owed[n + 1] \in Records
    BY <1>1, <2>1, OwedInPart, ElementOfSeq
  <2>3. disk' \in Seq(Records)
    BY <1>2, <1>8, <2>2, HalfShape DEF CrashTorn
  <2>4. QED
    BY <1>3, <1>4, <1>5, <1>8, <2>3 DEF CrashTorn
<1>9. QED
  BY <1>6, <1>7, <1>8

\* A midnight.
LEMMA MidnightMoves ==
  ASSUME TypeInv, Midnight
  PROVE  /\ TypeInv'
         /\ \A e \in Events : cl'[e].st = cl[e].st /\ (cl'[e].late <=> Ongoing(e))
<1>1. cl \in [Events -> EmitCalls] /\ \A e \in Events : Counts(cl[e], e)
  BY DEF TypeInv, CallsOK
<1>2. ASSUME NEW e \in Events
      PROVE  /\ cl'[e] \in EmitCalls
             /\ cl'[e].st = cl[e].st /\ cl'[e].tries = cl[e].tries
             /\ cl'[e].late <=> Ongoing(e)
  <2> DEFINE b == Ongoing(e)
             q == [cl[e] EXCEPT !.late = b]
  <2>1. b \in BOOLEAN
    BY DEF Ongoing
  <2>2. cl'[e] = q
    BY DEF Midnight
  <2> HIDE DEF b
  <2>3. q \in EmitCalls /\ q.st = cl[e].st /\ q.tries = cl[e].tries
    BY <1>1, <2>1 DEF EmitCalls
  <2>4. q.late = b
    BY <1>1 DEF EmitCalls
  <2> HIDE DEF q
  <2>5. cl'[e].late <=> b
    BY <2>2, <2>4, Zenon
  <2>6. QED
    BY <2>2, <2>3, <2>5 DEF b
<1>3. cl' = [e \in Events |-> cl'[e]]
  BY DEF Midnight
<1>4. cl' \in [Events -> EmitCalls]
  BY <1>2, <1>3
<1>5. CallsOK(cl')
  BY <1>1, <1>2, <1>4 DEF CallsOK, Counts
<1>6. today' \in 1 .. Days
  BY AuditAssumption DEF TypeInv, TypeOK, Midnight
<1>7. QED
  BY <1>2, <1>5, <1>6 DEF TypeInv, TypeOK, CallsOK, EmitCalls, Quiet, Midnight, writer, repair

\* A line's day.
LEMMA DayOf ==
  ASSUME NEW d \in Seq(Records), NEW i \in DOMAIN d
  PROVE  d[i] \in Records /\ d[i].day \in 1 .. Days /\ d[i].day \in Nat
<1>1. d[i] \in Records
  BY ElementOfSeq, LenProperties
<1>2. d[i].day \in 1 .. Days
  BY <1>1 DEF Records
<1>3. QED
  BY <1>1, <1>2, AuditAssumption

\* What the tool works on.
LEMMA RepairShape ==
  ASSUME TypeInv, RepairOK, rep.pc \in {"plan", "copied"}
  PROVE  /\ disk \in Seq(Records)
         /\ rep.at \in 2 .. Len(disk)
         /\ rep.at = FirstBreak(disk)
         /\ disk[rep.at].day = rep.file
         /\ \A n \in Through(disk, rep.file) : n \in rep.at .. Len(disk)
<1>1. disk \in Seq(Records)
  BY DEF TypeInv, TypeOK
<1>2. Broken(disk) # {} /\ FirstBreak(disk) # 1 /\ rep.at = FirstBreak(disk)
         /\ disk[rep.at].day = rep.file
  BY <1>1, ClassifyIs DEF RepairOK
<1>3. rep.at \in 2 .. Len(disk)
  BY <1>1, <1>2, FirstBreakIs, LenProperties
<1>4. disk[rep.at].day \in 1 .. Days
  BY <1>1, <1>3, DayOf, LenProperties
<1>5. ASSUME NEW n \in Through(disk, rep.file)
      PROVE  n \in rep.at .. Len(disk)
  <2>1. n \in 0 .. Len(disk)
           /\ (rep.at \in DOMAIN disk => (rep.at <= n <=> disk[rep.at].day <= rep.file))
    BY DEF Through
  <2>2. disk[rep.at].day <= rep.file
    BY <1>2, <1>4, AuditAssumption
  <2>3. QED
    BY <1>1, <1>3, <2>1, <2>2, LenProperties
<1>6. QED
  BY <1>1, <1>2, <1>3, <1>5

\* The tool's steps keep the types and what it knows.
LEMMA RepairStep ==
  ASSUME FaultyInv,
         RepairPlan \/ RepairCopy \/ RepairCut \/ RepairRemove \/ RepairAbort
  PROVE  FaultyInv'
<1>1. /\ TypeInv /\ RepairOK /\ disk \in Seq(Records) /\ today \in Nat
      /\ rep \in [pc : {"none", "plan", "copied", "cut"}, at : Nat, file : 0 .. Days]
  BY AuditAssumption DEF FaultyInv, TypeInv, TypeOK
<1>2. NoRepair \in [pc : {"none", "plan", "copied", "cut"}, at : Nat, file : 0 .. Days]
         /\ NoRepair.pc = "none"
  BY AuditAssumption DEF NoRepair
<1>3. Calendar(disk \o Owed, today) => Calendar(disk, today)
  BY <1>1, OwedType, CalendarOf DEF TypeInv
<1>4. CASE RepairPlan
  <2> DEFINE q == [pc |-> "plan", at |-> FirstBreak(disk), file |-> disk[FirstBreak(disk)].day]
  <2>1. FirstBreak(disk) \in DOMAIN disk
    BY <1>1, <1>4, ClassifyIs, FirstBreakIs DEF RepairPlan
  <2>2. disk[FirstBreak(disk)].day \in 0 .. Days /\ FirstBreak(disk) \in Nat
    <3>1. disk[FirstBreak(disk)].day \in 1 .. Days
      BY <1>1, <2>1, DayOf
    <3>2. FirstBreak(disk) \in Nat
      BY <1>1, <2>1, LenProperties
    <3>3. QED
      BY <3>1, <3>2, AuditAssumption
  <2>3. q \in [pc : {"none", "plan", "copied", "cut"}, at : Nat, file : 0 .. Days]
    BY <2>2
  <2>4. rep' = q
    BY <1>4 DEF RepairPlan
  <2>5. TypeInv'
    BY <1>1, <1>4, <2>3, <2>4 DEF TypeInv, TypeOK, CallsOK, Quiet, RepairPlan, writer
  <2>6. RepairOK'
    BY <1>4 DEF RepairOK, RepairPlan
  <2>7. Calendar(All, today)'
    BY <1>4 DEF FaultyInv, All, Owed, RepairPlan, writer
  <2>8. QED
    BY <2>5, <2>6, <2>7 DEF FaultyInv
<1>5. CASE RepairCopy
  <2> DEFINE q == [rep EXCEPT !.pc = "copied"]
  <2>1. q \in [pc : {"none", "plan", "copied", "cut"}, at : Nat, file : 0 .. Days]
           /\ q.pc = "copied" /\ q.at = rep.at /\ q.file = rep.file
    BY <1>1
  <2>2. rep' = q
    BY <1>5 DEF RepairCopy
  <2>3. Suffix(disk, rep.at) \subseteq Records
    BY <1>1 DEF Suffix
  <2>4. /\ quarantine' \in [earlier : SUBSET Records, newest : SUBSET Records]
        /\ quarantine'.newest = Suffix(disk, rep.at)
    <3> DEFINE copy == Suffix(disk, rep.at)
    <3>1. quarantine \in [earlier : SUBSET Records, newest : SUBSET Records]
      BY <1>1 DEF TypeInv, TypeOK
    <3>2. \/ quarantine' = [earlier |-> Copies(quarantine), newest |-> copy]
          \/ quarantine' = [quarantine EXCEPT !.newest = copy]
      BY <1>5 DEF RepairCopy, Stored
    <3>3. Copies(quarantine) \subseteq Records /\ copy \subseteq Records
      BY <2>3, <3>1 DEF Copies
    <3> HIDE DEF copy
    <3>4. /\ quarantine' \in [earlier : SUBSET Records, newest : SUBSET Records]
          /\ quarantine'.newest = copy
      BY <3>1, <3>2, <3>3
    <3> QED
      BY <3>4 DEF copy
  <2> HIDE DEF q
  <2>5. TypeInv'
    BY <1>1, <1>5, <2>1, <2>2, <2>4 DEF TypeInv, TypeOK, CallsOK, Quiet, RepairCopy, writer
  <2>6. RepairOK'
    BY <1>1, <1>5, <2>1, <2>2, <2>4 DEF RepairOK, RepairCopy
  <2>7. Calendar(All, today)'
    BY <1>5 DEF FaultyInv, All, Owed, RepairCopy, writer
  <2>8. QED
    BY <2>5, <2>6, <2>7 DEF FaultyInv
<1>6. CASE RepairCut
  <2> DEFINE q == [rep EXCEPT !.pc = "cut"]
             k == rep.at - 1
  <2>1. q \in [pc : {"none", "plan", "copied", "cut"}, at : Nat, file : 0 .. Days]
           /\ q.pc = "cut" /\ q.file = rep.file
    BY <1>1
  <2>2. rep' = q
    BY <1>6 DEF RepairCut
  <2>3. PICK n \in Through(disk, rep.file) :
          disk' = SubSeq(disk, 1, k) \o SubSeq(disk, n + 1, Len(disk))
    BY <1>6 DEF RepairCut
  <2>4. rep.at \in 2 .. Len(disk) /\ n \in rep.at .. Len(disk)
           /\ disk[rep.at].day = rep.file
    BY <1>1, <1>6, RepairShape DEF RepairCut
  <2>5. k \in 0 .. Len(disk) /\ n \in k .. Len(disk) /\ n > k
    BY <1>1, <2>4, LenProperties
  <2>6. /\ disk' \in Seq(Records)
        /\ Len(disk') = Len(disk) - (n - k)
        /\ \A i \in 1 .. Len(disk') : disk'[i] = IF i <= k THEN disk[i] ELSE disk[i + (n - k)]
        /\ Calendar(disk', today)
    <3> HIDE DEF k
    <3> DEFINE a == SubSeq(disk, 1, k) \o SubSeq(disk, n + 1, Len(disk))
    <3>1. Calendar(disk, today)
      BY <1>3 DEF FaultyInv, All
    <3>2. Calendar(a, today)
      BY <1>1, <2>5, <3>1, CalendarCut
    <3>3. /\ a \in Seq(Records)
          /\ Len(a) = Len(disk) - (n - k)
          /\ \A i \in 1 .. Len(a) : a[i] = IF i <= k THEN disk[i] ELSE disk[i + (n - k)]
      BY <1>1, <2>5, CutShape
    <3> HIDE DEF a
    <3>4. disk' = a
      BY <2>3 DEF a
    <3>5. QED
      BY <3>2, <3>3, <3>4
  <2>7. pc = "down" /\ be_buffer = <<>>
    BY <1>1, <1>6 DEF TypeInv, Quiet, RepairCut
  <2> HIDE DEF q
  <2>8. TypeInv'
    BY <1>1, <1>6, <2>1, <2>2, <2>6, <2>7 DEF TypeInv, TypeOK, CallsOK, Quiet, RepairCut, writer
  <2>9. Calendar(All, today)'
    <3>1. All' = disk' \o <<>>
      BY <1>6, <2>7 DEF All, Owed, RepairCut, writer
    <3>2. All' = disk' /\ today' = today
      BY <1>6, <2>6, <3>1, ConcatEmptySeq DEF RepairCut
    <3>3. QED
      BY <2>6, <3>2
  <2>10. ASSUME NEW i \in DOMAIN disk', disk'[i].day > rep.file
         PROVE  disk'[i] \in quarantine.newest
    <3>1. i \in 1 .. Len(disk')
      BY <2>6, LenProperties
    <3>2. CASE i <= k
      <4>1. disk'[i] = disk[i] /\ i \in 1 .. rep.at /\ rep.at \in DOMAIN disk
        <5>1. disk'[i] = disk[i]
          BY <2>6, <3>1, <3>2
        <5>2. Len(disk) \in Nat /\ DOMAIN disk = 1 .. Len(disk) /\ Len(disk') \in Nat
          BY <1>1, <2>6, LenProperties
        <5>3. i \in 1 .. rep.at
          BY <2>4, <3>1, <3>2, <5>2
        <5>4. QED
          BY <2>4, <5>1, <5>2, <5>3
      <4>2. disk[i].day <= disk[rep.at].day
        BY <1>3, <4>1 DEF FaultyInv, All, Calendar
      <4>3. disk[i].day \in Nat /\ rep.file \in Nat
        <5>1. i \in DOMAIN disk
          BY <1>1, <2>4, <4>1, LenProperties
        <5>2. QED
          BY <1>1, <2>4, <4>1, <5>1, DayOf
      <4>4. QED
        BY <2>4, <2>10, <4>1, <4>2, <4>3
    <3>3. CASE ~(i <= k)
      <4> DEFINE j == i + (n - k)
      <4>1. disk'[i] = disk[j] /\ j \in DOMAIN disk /\ j >= rep.at
        <5>1. disk'[i] = disk[j]
          BY <2>6, <3>1, <3>3
        <5>2. Len(disk) \in Nat /\ i \in 1 .. Len(disk) - (n - k) /\ k = rep.at - 1
          BY <1>1, <2>6, <3>1, LenProperties
        <5>3. j \in 1 .. Len(disk) /\ j >= rep.at
          <6> HIDE DEF k
          <6>1. i \in Nat /\ i > k /\ k \in Nat /\ n \in Nat /\ n >= k
            BY <2>5, <3>3, <5>2
          <6>2. i <= Len(disk) - (n - k)
            BY <2>5, <5>2
          <6>3. j <= Len(disk) /\ j >= i /\ j \in Int
            BY <5>2, <6>1, <6>2
          <6> HIDE DEF j
          <6>4. rep.at = k + 1
            BY <2>4, <5>2, <6>1
          <6>5. QED
            BY <5>2, <6>1, <6>3, <6>4
        <5>4. QED
          BY <1>1, <5>1, <5>3, LenProperties
      <4> HIDE DEF j
      <4>2. disk[j] \in Suffix(disk, rep.at)
        BY <4>1 DEF Suffix
      <4>3. QED
        BY <1>1, <1>6, <4>1, <4>2 DEF RepairOK, RepairCut
    <3>4. QED
      BY <3>2, <3>3
  <2>11. RepairOK'
    <3>1. quarantine' = quarantine
      BY <1>6 DEF RepairCut
    <3>2. QED
      BY <2>1, <2>2, <2>10, <3>1 DEF RepairOK
  <2>12. QED
    BY <2>8, <2>9, <2>11 DEF FaultyInv
<1>7. CASE RepairRemove
  <2>1. PICK n \in Through(disk, rep.file) : disk' = SubSeq(disk, 1, n)
    BY <1>7 DEF RepairRemove
  <2>2. n \in 0 .. Len(disk)
    BY <2>1 DEF Through
  <2>3. disk' \in Seq(Records) /\ Calendar(disk', today)
    BY <1>1, <1>3, <2>1, <2>2, PrefixLinks, CalendarPrefix DEF FaultyInv, All
  <2>4. pc = "down" /\ be_buffer = <<>>
    BY <1>1, <1>7 DEF TypeInv, Quiet, RepairRemove
  <2>5. TypeInv'
    BY <1>1, <1>2, <1>7, <2>3, <2>4 DEF TypeInv, TypeOK, CallsOK, Quiet, RepairRemove, writer
  <2>6. Calendar(All, today)'
    <3>1. All' = disk' \o <<>>
      BY <1>7, <2>4 DEF All, Owed, RepairRemove, writer
    <3>2. All' = disk' /\ today' = today
      BY <1>7, <2>3, <3>1, ConcatEmptySeq DEF RepairRemove
    <3>3. QED
      BY <2>3, <3>2
  <2>7. QED
    BY <1>2, <1>7, <2>5, <2>6 DEF FaultyInv, RepairOK, RepairRemove
<1>8. CASE RepairAbort
  <2>1. TypeInv'
    BY <1>1, <1>2, <1>8 DEF TypeInv, TypeOK, CallsOK, Quiet, RepairAbort, writer
  <2>2. Calendar(All, today)'
    BY <1>8 DEF FaultyInv, All, Owed, RepairAbort, writer
  <2>3. QED
    BY <1>2, <1>8, <2>1, <2>2 DEF FaultyInv, RepairOK, RepairAbort
<1>9. QED
  BY <1>4, <1>5, <1>6, <1>7, <1>8

-----------------------------------------------------------------------------
(* The files under every fault. *)

\* Time passes.
LEMMA CalendarLater ==
  ASSUME NEW s \in Seq(Records), NEW t \in Nat, NEW u \in Nat, t <= u, Calendar(s, t)
  PROVE  Calendar(s, u)
<1>1. \A i \in DOMAIN s : s[i].day \in Nat
  BY DayOf
<1>2. QED
  BY <1>1 DEF Calendar

\* Taking an event: the files and the buffer are as they were, but for a
\* rollover's flush, and the new line comes last.
LEMMA TakenShape ==
  ASSUME TypeInv, pc = "idle", queue # <<>>
  PROVE  /\ Carry \o Append(Carried, Committed(queue[1]))
              = Append(Carry \o Carried, Committed(queue[1]))
         /\ Carry \o Carried \in Seq(Records)
         /\ Carry \o Carried \in {AppendLines(disk, be_buffer), disk \o be_buffer}
         /\ All = disk \o be_buffer
<1>1. Committed(queue[1]) \in Records
  BY TakenType
<1>2. Carry \in Seq(Records) /\ Carried \in Seq(Records)
         /\ \/ Carry = AppendLines(disk, be_buffer) /\ Carried = <<>>
            \/ Carry = disk /\ Carried = be_buffer
  BY CarryType DEF TypeInv
<1>3. Carry \o Carried \in Seq(Records)
  BY <1>2, ConcatProperties
<1>4. Carry \o Carried \in {AppendLines(disk, be_buffer), disk \o be_buffer}
  BY <1>2, ConcatEmptySeq
<1>5. All = disk \o be_buffer
  BY OwedType DEF TypeInv, All
<1>6. QED
  BY <1>1, <1>2, <1>3, <1>4, <1>5, OwedInOrder

\* The writer's steps keep the calendar.
LEMMA WriterCalendar ==
  ASSUME FaultyInv, TypeInv',
         Start \/ TakeDuplicate \/ TakeBestEffort \/ TakeDurable
           \/ WriteDurable \/ Ack \/ Flush \/ SyncFails
  PROVE  Calendar(All, today)'
<1>1. /\ TypeInv /\ disk \in Seq(Records) /\ be_buffer \in Seq(Records)
      /\ Owed \in Seq(Records) /\ today \in Nat
      /\ Calendar(disk \o Owed, today) /\ All = disk \o Owed
  <2>1. TypeInv /\ TypeOK /\ Calendar(All, today)
    BY DEF FaultyInv, TypeInv
  <2>2. disk \in Seq(Records) /\ be_buffer \in Seq(Records) /\ today \in Nat
    BY <2>1, AuditAssumption DEF TypeOK
  <2>3. QED
    BY <2>1, <2>2, OwedType DEF All
<1>2. disk' \in Seq(Records) /\ today' = today
  BY DEF TypeInv, TypeOK, Start, TakeDuplicate, TakeBestEffort, TakeDurable,
     WriteDurable, Ack, Flush, SyncFails, writer
<1>3. CASE Start \/ TakeDuplicate
  BY <1>1, <1>3 DEF All, Owed, Start, TakeDuplicate, writer
<1>4. CASE Ack
  BY <1>1, <1>4 DEF All, Owed, Ack
<1>5. CASE TakeBestEffort \/ TakeDurable
  <2> DEFINE r == Committed(queue[1])
             c == Carry \o Carried
  <2>1. pc = "idle" /\ queue # <<>>
    BY <1>5 DEF TakeBestEffort, TakeDurable
  <2>2. /\ Carry \o Append(Carried, r) = Append(c, r)
        /\ c \in Seq(Records) /\ c \in {AppendLines(disk, be_buffer), disk \o be_buffer}
        /\ All = disk \o be_buffer
    BY <1>1, <2>1, TakenShape
  <2>3. r \in Records /\ r.day = today
    BY <1>1, <2>1, TakenType DEF Committed
  <2>4. Calendar(c, today)
    BY <1>1, <2>2, CalendarLines
  <2>5. All' = Carry \o Append(Carried, r)
    BY <1>5 DEF All, Owed, TakeBestEffort, TakeDurable
  <2> HIDE DEF r, c
  <2>6. Calendar(Append(c, r), today)
    BY <1>1, <2>2, <2>3, <2>4, CalendarAppend
  <2>7. QED
    BY <1>2, <2>2, <2>5, <2>6
<1>6. CASE WriteDurable \/ Flush \/ SyncFails
  <2>1. disk' = AppendLines(disk, Owed) /\ Owed' = <<>>
    BY <1>1, <1>6, OwedType DEF TypeInv, WriteDurable, Flush, SyncFails, Owed
  <2>2. All' = disk'
    BY <1>2, <2>1, ConcatEmptySeq DEF All
  <2>3. QED
    BY <1>1, <1>2, <2>1, <2>2, CalendarLines
<1>7. QED
  BY <1>3, <1>4, <1>5, <1>6

\* So do its deaths.
LEMMA DeathCalendar ==
  ASSUME FaultyInv, TypeInv',
         \/ Stop
         \/ \E n \in 0 .. Len(Owed) : Crash(n)
         \/ \E n \in 0 .. Len(Owed) - 1 : CrashTorn(n)
  PROVE  Calendar(All, today)'
<1>1. /\ TypeInv /\ disk \in Seq(Records) /\ Owed \in Seq(Records) /\ today \in Nat
      /\ Calendar(disk \o Owed, today)
  <2>1. TypeInv /\ TypeOK /\ Calendar(All, today)
    BY DEF FaultyInv, TypeInv
  <2>2. disk \in Seq(Records) /\ be_buffer \in Seq(Records) /\ today \in Nat
    BY <2>1, AuditAssumption DEF TypeOK
  <2>3. QED
    BY <2>1, <2>2, OwedType DEF All
<1>2. Calendar(disk', today) => Calendar(All, today)'
  <2>1. Owed' = <<>> /\ today' = today /\ disk' \in Seq(Records)
    BY DEF Stop, Crash, CrashTorn, Down, Owed, TypeInv, TypeOK
  <2>2. All' = disk'
    BY <2>1, ConcatEmptySeq DEF All
  <2>3. QED
    BY <2>1, <2>2
<1>3. CASE Stop
  <2>1. disk' = AppendLines(disk, Owed)
    BY <1>1, <1>3, OwedType DEF TypeInv, Stop
  <2>2. QED
    BY <1>1, <1>2, <2>1, CalendarLines
<1>4. ASSUME NEW n \in 0 .. Len(Owed)
      PROVE  /\ SubSeq(Owed, 1, n) \in Seq(Records)
             /\ disk \o SubSeq(Owed, 1, n) \in Seq(Records)
             /\ disk \o SubSeq(Owed, 1, n) = SubSeq(disk \o Owed, 1, Len(disk) + n)
             /\ Calendar(disk \o SubSeq(Owed, 1, n), today)
  <2>1. SubSeq(Owed, 1, n) \in Seq(Records)
           /\ disk \o SubSeq(Owed, 1, n) = SubSeq(disk \o Owed, 1, Len(disk) + n)
    BY <1>1, OwedInPart
  <2>2. disk \o Owed \in Seq(Records) /\ Len(disk) + n \in 0 .. Len(disk \o Owed)
    BY <1>1, ConcatProperties, LenProperties
  <2>3. Calendar(SubSeq(disk \o Owed, 1, Len(disk) + n), today)
    BY <1>1, <2>2, CalendarPrefix
  <2>4. QED
    BY <1>1, <2>1, <2>3, ConcatProperties
<1>5. ASSUME NEW n \in 0 .. Len(Owed), Crash(n)
      PROVE  Calendar(All, today)'
  <2>1. disk' = AppendLines(disk, SubSeq(Owed, 1, n))
    BY <1>5 DEF Crash
  <2>2. QED
    BY <1>1, <1>2, <1>4, <2>1, CalendarLines
<1>6. ASSUME NEW n \in 0 .. Len(Owed) - 1, CrashTorn(n)
      PROVE  Calendar(All, today)'
  <2> DEFINE p == SubSeq(Owed, 1, n)
             r == Owed[n + 1]
             a == AppendLines(disk, p)
             m == Len(disk) + n
             s == disk \o Owed
  <2>1. n \in 0 .. Len(Owed) /\ n + 1 \in 1 .. Len(Owed)
    BY <1>1, LenProperties
  <2>2. disk' = AppendHalf(a, r) /\ r \in Records /\ p \in Seq(Records)
    BY <1>1, <1>4, <1>6, <2>1, ElementOfSeq DEF CrashTorn
  <2>3. r.day \in Nat /\ r.day \in 1 .. Days
    BY <1>1, <2>1, DayOf, LenProperties
  <2>4. s \in Seq(Records) /\ m + 1 \in 1 .. Len(s) /\ s[m + 1] = r /\ m \in 0 .. Len(s)
    <3>1. s \in Seq(Records) /\ Len(s) = Len(disk) + Len(Owed)
             /\ \A i \in 1 .. Len(disk) + Len(Owed) :
                  s[i] = IF i <= Len(disk) THEN disk[i] ELSE Owed[i - Len(disk)]
      BY <1>1, ConcatProperties
    <3>2. m + 1 \in 1 .. Len(disk) + Len(Owed) /\ ~(m + 1 <= Len(disk))
             /\ (m + 1) - Len(disk) = n + 1
      BY <1>1, <2>1, LenProperties
    <3> HIDE DEF s, m
    <3>3. s[m + 1] = Owed[n + 1]
      BY <3>1, <3>2
    <3>4. m \in 0 .. Len(s)
      BY <1>1, <2>1, <3>1, LenProperties DEF m
    <3>5. QED
      BY <3>1, <3>2, <3>3, <3>4
  <2>5. r.day <= today /\ \A i \in 1 .. (m + 1) : s[i].day <= r.day
    <3> HIDE DEF s, m, r
    <3> QED
      BY <1>1, <2>4, LenProperties DEF Calendar, s
  <2>6. Calendar(SubSeq(s, 1, m), r.day)
    <3>1. Calendar(SubSeq(s, 1, m), today)
      <4> HIDE DEF s, m
      <4> QED
        BY <1>1, <2>4, CalendarPrefix DEF s
    <3>2. SubSeq(s, 1, m) \in Seq(Records) /\ Len(SubSeq(s, 1, m)) = m
             /\ \A i \in 1 .. m : SubSeq(s, 1, m)[i] = s[i]
      <4> HIDE DEF s, m
      <4> QED
        BY <2>4, PrefixLinks
    <3>3. m \in Nat /\ \A i \in 1 .. m : i \in 1 .. (m + 1)
      BY <1>1, LenProperties
    <3> HIDE DEF s, m
    <3>4. QED
      BY <2>5, <3>1, <3>2, <3>3 DEF Calendar
  <2>7. disk \o p = SubSeq(s, 1, m)
    BY <1>4, <2>1
  <2>8. a \in Seq(Records) /\ Calendar(a, r.day)
    <3> HIDE DEF s, m, r, p
    <3>1. Calendar(disk \o p, r.day)
      BY <2>6, <2>7
    <3>2. QED
      BY <1>1, <2>2, <2>3, <3>1, CalendarLines, LinesShape
  <2> HIDE DEF a, r, p, m, s
  <2>9. Calendar(Append(a, r), r.day)
    BY <2>2, <2>3, <2>8, CalendarAppend
  <2>10. Calendar(disk', r.day)
    BY <2>2, <2>3, <2>8, <2>9, CalendarHalf
  <2>11. disk' \in Seq(Records)
    BY DEF TypeInv, TypeOK
  <2>12. Calendar(disk', today)
    BY <1>1, <2>3, <2>5, <2>10, <2>11, CalendarLater
  <2>13. QED
    BY <1>2, <2>12
<1>7. QED
  BY <1>3, <1>5, <1>6

\* What holds whatever faults there are.
LEMMA FaultyStep == FaultyInv /\ [Next]_vars => FaultyInv'
<1> SUFFICES ASSUME FaultyInv, [Next]_vars PROVE FaultyInv'
  OBVIOUS
<1>1. TypeInv /\ RepairOK
  BY DEF FaultyInv
<1>2. ASSUME TypeInv', rep.pc = "none", rep' = rep, Calendar(All, today)'
      PROVE  FaultyInv'
  BY <1>2 DEF FaultyInv, RepairOK
<1>3. pc # "down" => rep.pc = "none"
  BY <1>1 DEF TypeInv, Quiet
<1>4. ASSUME NEW e \in Events, Connect(e) \/ Timeout(e)
      PROVE  FaultyInv'
  BY <1>1, <1>4, ClientType
  DEF FaultyInv, RepairOK, All, Owed, Connect, Timeout, writer, repair
<1>5. CASE Start \/ TakeDuplicate \/ TakeBestEffort \/ TakeDurable
             \/ WriteDurable \/ Ack \/ Flush \/ SyncFails
  <2>1. rep.pc = "none" /\ rep' = rep
    BY <1>3, <1>5 DEF Start, TakeDuplicate, TakeBestEffort, TakeDurable, WriteDurable,
       Ack, Flush, SyncFails, repair
  <2>2. QED
    BY <1>1, <1>2, <1>5, <2>1, WriterType, WriterCalendar
<1>6. CASE \/ Stop
           \/ \E n \in 0 .. Len(Owed) : Crash(n)
           \/ \E n \in 0 .. Len(Owed) - 1 : CrashTorn(n)
  <2>1. rep.pc = "none" /\ rep' = rep
    BY <1>3, <1>6 DEF Stop, Crash, CrashTorn, repair
  <2>2. QED
    BY <1>1, <1>2, <1>6, <2>1, DeathType, DeathCalendar
<1>7. CASE Midnight
  <2>1. TypeInv' /\ All' = All /\ today' = today + 1 /\ today \in Nat
           /\ rep' = rep /\ disk' = disk /\ quarantine' = quarantine
    BY <1>1, <1>7, MidnightMoves, AuditAssumption, SMTT(30)
    DEF TypeInv, TypeOK, All, Owed, Midnight, writer, repair
  <2>2. All \in Seq(Records)
    BY <1>1, OwedType, ConcatProperties DEF TypeInv, TypeOK, All
  <2>3. Calendar(All, today + 1)
    BY <2>1, <2>2, CalendarLater DEF FaultyInv
  <2>4. QED
    BY <1>1, <2>1, <2>3 DEF FaultyInv, RepairOK
<1>8. CASE RepairPlan \/ RepairCopy \/ RepairCut \/ RepairRemove \/ RepairAbort
  BY <1>8, RepairStep
<1>9. CASE UNCHANGED vars
  BY <1>9 DEF vars, FaultyInv, TypeInv, TypeOK, CallsOK, Counts, Attempts, EmitCalls, Quiet,
     RepairOK, All, Owed, writer, repair
<1>10. QED
  BY <1>4, <1>5, <1>6, <1>7, <1>8, <1>9 DEF Next

\* At first nothing is written.
LEMMA InitFaulty == Init => FaultyInv
<1> SUFFICES ASSUME Init PROVE FaultyInv
  OBVIOUS
<1>1. TypeInv
  BY InitType
<1>2. All = <<>>
  BY DEF Init, All, Owed
<1>3. Calendar(All, today)
  BY <1>2 DEF Calendar
<1>4. RepairOK
  BY DEF Init, NoRepair, RepairOK
<1>5. QED
  BY <1>1, <1>3, <1>4 DEF FaultyInv

\* The invariant that holds under every fault.
LEMMA Faulty == Spec => []FaultyInv
<1>1. QED
  BY InitFaulty, FaultyStep, PTL DEF Spec

\* The writer, the client and the repair tool keep their types.
THEOREM TypeCorrect == Spec => []TypeOK
<1>1. FaultyInv => TypeOK
  BY DEF FaultyInv, TypeInv
<1>2. QED
  BY <1>1, Faulty, PTL

\* The startup gate, which looks at the last Window lines only, lets every log
\* pass that the verifier finds valid.
THEOREM GateNoFalseAlarm == Spec => []GateAgrees
<1>1. ASSUME FaultyInv
      PROVE  GateAgrees
  <2>1. disk \in Seq(Records)
    BY <1>1 DEF FaultyInv, TypeInv, TypeOK
  <2>2. SUFFICES ASSUME Chain(disk)
                 PROVE  GatePasses(disk)
    BY <2>1, ChainIsValid DEF GateAgrees
  <2>3. ASSUME NEW i \in DOMAIN disk, i > 1
        PROVE  /\ Whole(disk[i])
               /\ \/ SegmentStart(disk, i) /\ disk[i].prev = Genesis
                  \/ Whole(disk[i - 1]) /\ disk[i].prev = disk[i - 1].id
    <3>1. Links(disk, i) /\ Links(disk, i - 1) /\ i # 1
      BY <2>1, <2>2, <2>3, LenProperties DEF Chain
    <3>2. QED
      BY <3>1 DEF Links
  <2>4. QED
    BY <2>3 DEF GatePasses
<1>2. QED
  BY <1>1, Faulty, PTL

\* Nothing but the repair tool takes a line out of the files.
LEMMA WriterErasesNothing ==
  ASSUME FaultyInv, [Next]_vars, NEW i \in DOMAIN disk,
         ~(RepairCut \/ RepairRemove)
  PROVE  i \in DOMAIN disk' /\ disk'[i].id = disk[i].id
<1> DEFINE Keeps(d) == i \in DOMAIN d /\ d[i].id = disk[i].id
<1>1. TypeInv /\ disk \in Seq(Records) /\ be_buffer \in Seq(Records) /\ Owed \in Seq(Records)
  BY OwedType DEF FaultyInv, TypeInv, TypeOK
<1>2. ASSUME NEW s \in Seq(Records)
      PROVE  Keeps(AppendLines(disk, s)) /\ Len(AppendLines(disk, s)) >= Len(disk)
               /\ AppendLines(disk, s) \in Seq(Records)
  <2> DEFINE a == AppendLines(disk, s)
             k == Len(disk) + Len(s) - Len(a)
  <2>1. /\ a \in Seq(Records) /\ k \in {0, 1}
        /\ \A j \in 1 .. Len(disk) : a[j].id = disk[j].id
    BY <1>1, LinesShape
  <2>2. s # <<>> \/ a = disk
    BY <1>1, ConcatEmptySeq DEF AppendLines
  <2>3. Len(s) \in Nat /\ Len(a) \in Nat /\ Len(disk) \in Nat /\ (s # <<>> => Len(s) > 0)
    BY <1>1, <2>1, EmptySeq, LenProperties
  <2> HIDE DEF a
  <2>4. Len(a) >= Len(disk)
    BY <2>1, <2>2, <2>3
  <2>5. i \in 1 .. Len(disk) /\ i \in DOMAIN a
    BY <1>1, <2>1, <2>3, <2>4, LenProperties
  <2>6. QED
    BY <2>1, <2>4, <2>5 DEF a
<1> HIDE DEF Keeps
<1>3. CASE disk' = disk
  BY <1>3
<1>4. CASE Carry = disk' \/ disk' = AppendLines(disk, Owed) \/ disk' = AppendLines(disk, be_buffer)
  <2>1. Carry = disk \/ Carry = AppendLines(disk, be_buffer)
    BY DEF Carry
  <2>2. Keeps(disk)
    BY DEF Keeps
  <2>3. Keeps(disk')
    BY <1>1, <1>2, <1>4, <2>1, <2>2
  <2>4. QED
    BY <2>3 DEF Keeps
<1>5. ASSUME NEW n \in 0 .. Len(Owed), Crash(n)
      PROVE  Keeps(disk')
  <2>1. SubSeq(Owed, 1, n) \in Seq(Records)
    BY <1>1, OwedInPart
  <2>2. QED
    BY <1>2, <1>5, <2>1 DEF Crash
<1>6. ASSUME NEW n \in 0 .. Len(Owed) - 1, CrashTorn(n)
      PROVE  Keeps(disk')
  <2> DEFINE a == AppendLines(disk, SubSeq(Owed, 1, n))
             h == AppendHalf(a, Owed[n + 1])
  <2>1. n \in 0 .. Len(Owed) /\ n + 1 \in 1 .. Len(Owed)
    BY <1>1, LenProperties
  <2>2. SubSeq(Owed, 1, n) \in Seq(Records) /\ Owed[n + 1] \in Records
    BY <1>1, <2>1, OwedInPart, ElementOfSeq
  <2>3. a \in Seq(Records) /\ Keeps(a)
    BY <1>2, <2>2
  <2> HIDE DEF a
  <2>4. /\ h \in Seq(Records)
        /\ \A j \in 1 .. Len(a) : h[j] = a[j]
        /\ Len(h) \in {Len(a), Len(a) + 1}
    BY <2>2, <2>3, HalfShape
  <2>5. disk' = h
    BY <1>6 DEF CrashTorn, a
  <2> HIDE DEF h
  <2>6. i \in 1 .. Len(a) /\ a[i].id = disk[i].id
    BY <2>3, LenProperties DEF Keeps
  <2>7. i \in 1 .. Len(h)
    BY <2>3, <2>4, <2>6, LenProperties
  <2>8. Keeps(h)
    BY <2>4, <2>6, <2>7, LenProperties DEF Keeps
  <2>9. QED
    BY <2>5, <2>8
<1>7. QED
  <2>1. ASSUME NEW e \in Events, Connect(e) \/ Timeout(e)
        PROVE  disk' = disk
    BY <2>1 DEF Connect, Timeout
  <2>2. CASE Start \/ TakeDuplicate \/ Ack \/ Midnight
               \/ RepairPlan \/ RepairCopy \/ RepairAbort \/ UNCHANGED vars
    BY <1>3, <2>2 DEF Start, TakeDuplicate, Ack, Midnight,
       RepairPlan, RepairCopy, RepairAbort, vars
  <2>3. CASE TakeBestEffort \/ TakeDurable \/ WriteDurable \/ SyncFails \/ Flush \/ Stop
    BY <1>4, <2>3 DEF TakeBestEffort, TakeDurable, WriteDurable, SyncFails, Flush, Stop
  <2>4. QED
    BY <1>3, <1>5, <1>6, <2>1, <2>2, <2>3 DEF Next, Keeps

\* Whatever leaves the files is in quarantine, at whichever step a repair dies.
THEOREM Quarantined == Spec => NothingErased
<1> DEFINE Ids(d) == {d[i].id : i \in DOMAIN d}
<1>1. ASSUME FaultyInv, [Next]_vars
      PROVE  Ids(disk) \subseteq Ids(disk') \cup {r.id : r \in Copies(quarantine')}
  <2>1. TypeInv /\ RepairOK /\ disk \in Seq(Records)
    BY <1>1 DEF FaultyInv, TypeInv, TypeOK
  <2>2. ASSUME NEW i \in DOMAIN disk
        PROVE  \/ \E j \in DOMAIN disk' : disk'[j].id = disk[i].id
               \/ disk[i] \in Copies(quarantine')
    <3>1. i \in 1 .. Len(disk) /\ Len(disk) \in Nat
      BY <2>1, LenProperties
    <3>2. CASE RepairCut
      <4> DEFINE k == rep.at - 1
      <4>1. PICK n \in Through(disk, rep.file) :
              disk' = SubSeq(disk, 1, k) \o SubSeq(disk, n + 1, Len(disk))
        BY <3>2 DEF RepairCut
      <4>2. rep.at \in 2 .. Len(disk) /\ n \in rep.at .. Len(disk)
        BY <2>1, <3>2, RepairShape DEF RepairCut
      <4>3. k \in 0 .. Len(disk) /\ n \in k .. Len(disk)
        BY <3>1, <4>2
      <4>4. /\ disk' \in Seq(Records)
            /\ Len(disk') = Len(disk) - (n - k)
            /\ \A j \in 1 .. Len(disk') :
                 disk'[j] = IF j <= k THEN disk[j] ELSE disk[j + (n - k)]
        <5> HIDE DEF k
        <5> QED
          BY <2>1, <4>1, <4>3, CutShape
      <4>5. CASE i <= k
        <5>1. i \in 1 .. Len(disk') /\ disk'[i] = disk[i]
          BY <3>1, <4>2, <4>4, <4>5
        <5>2. QED
          BY <4>4, <5>1, LenProperties
      <4>6. CASE i > n
        <5> DEFINE j == i - (n - k)
        <5>1. j \in 1 .. Len(disk') /\ ~(j <= k) /\ j + (n - k) = i
          BY <3>1, <4>2, <4>4, <4>6
        <5> HIDE DEF j, k
        <5>2. disk'[j] = disk[i]
          BY <4>4, <5>1
        <5>3. QED
          BY <4>4, <5>1, <5>2, LenProperties
      <4>7. CASE ~(i <= k) /\ ~(i > n)
        <5>1. i >= rep.at
          BY <3>1, <4>2, <4>7
        <5>2. disk[i] \in Suffix(disk, rep.at)
          BY <5>1 DEF Suffix
        <5>3. QED
          BY <2>1, <3>2, <5>2 DEF RepairOK, RepairCut, Copies
      <4>8. QED
        BY <4>5, <4>6, <4>7
    <3>3. CASE RepairRemove
      <4>1. PICK n \in Through(disk, rep.file) : disk' = SubSeq(disk, 1, n)
        BY <3>3 DEF RepairRemove
      <4>2. n \in 0 .. Len(disk) /\ (i <= n <=> disk[i].day <= rep.file)
        BY <4>1 DEF Through
      <4>3. CASE i <= n
        <5>1. i \in 1 .. n /\ Len(disk') = n /\ disk' \in Seq(Records) /\ disk'[i] = disk[i]
          BY <2>1, <3>1, <4>1, <4>2, <4>3, PrefixLinks
        <5>2. QED
          BY <5>1, LenProperties
      <4>4. CASE ~(i <= n)
        <5>1. disk[i].day \in Nat /\ rep.file \in Nat
          BY <2>1, DayOf, AuditAssumption DEF TypeInv, TypeOK
        <5>2. disk[i].day > rep.file
          BY <4>2, <4>4, <5>1
        <5>3. QED
          BY <2>1, <3>3, <5>2 DEF RepairOK, RepairRemove, Copies
      <4>5. QED
        BY <4>3, <4>4
    <3>4. CASE ~(RepairCut \/ RepairRemove)
      BY <1>1, <3>4, WriterErasesNothing
    <3>5. QED
      BY <3>2, <3>3, <3>4
  <2>3. QED
    BY <2>2
<1>2. QED
  BY <1>1, Faulty, PTL DEF Spec, NothingErased

\* While a repair is in hand, no step makes a log unrepairable that was not.
THEOREM RepairSafe == Spec => RepairNeverWorsens
<1>1. ASSUME FaultyInv, [Next]_vars, rep.pc # "none",
             Classify(disk) # "interior_corruption"
      PROVE  Classify(disk') # "interior_corruption"
  <2>1. TypeInv /\ RepairOK /\ disk \in Seq(Records) /\ pc = "down"
    BY <1>1 DEF FaultyInv, TypeInv, TypeOK, Quiet
  <2>2. CASE RepairCut
    <3>1. PICK n \in Through(disk, rep.file) :
            disk' = SubSeq(disk, 1, rep.at - 1) \o SubSeq(disk, n + 1, Len(disk))
      BY <2>2 DEF RepairCut
    <3>2. rep.at = FirstBreak(disk) /\ n \in FirstBreak(disk) .. Len(disk)
      BY <2>1, <2>2, RepairShape DEF RepairCut
    <3>3. Classify(disk) = "broken_tail"
      BY <2>1, <2>2 DEF RepairOK, RepairCut
    <3>4. QED
      BY <2>1, <3>1, <3>2, <3>3, CutVerdict
  <2>3. CASE RepairRemove
    <3>1. PICK n \in 0 .. Len(disk) : disk' = SubSeq(disk, 1, n)
      BY <2>3 DEF RepairRemove, Through
    <3>2. QED
      BY <1>1, <2>1, <3>1, PrefixVerdict
  <2>4. CASE ~(RepairCut \/ RepairRemove)
    <3>1. disk' = disk
      BY <1>1, <2>1, <2>4 DEF Next, vars, Connect, Timeout, Start, TakeDuplicate, TakeBestEffort,
         TakeDurable, WriteDurable, Ack, Flush, Stop, Crash, CrashTorn, SyncFails, Midnight,
         RepairPlan, RepairCopy, RepairAbort
    <3>2. QED
      BY <1>1, <3>1
  <2>5. QED
    BY <2>2, <2>3, <2>4
<1>2. QED
  BY <1>1, Faulty, PTL DEF Spec, RepairNeverWorsens

-----------------------------------------------------------------------------
(* The files without a fault. *)

\* A new last line that continues the chain or starts the day.
LEMMA ChainAppend ==
  ASSUME NEW s \in Seq(Records), Chain(s), NEW r \in Records, Whole(r),
         Anchors(r.prev, s, r.day)
  PROVE  Chain(Append(s, r))
<1> DEFINE a == Append(s, r)
           n == Len(s) + 1
<1>1. a \in Seq(Records) /\ Len(a) = n /\ n \in Nat \ {0} /\ Len(s) \in Nat
         /\ (\A i \in 1 .. Len(s) : a[i] = s[i]) /\ a[n] = r
  BY AppendProperties, LenProperties
<1> HIDE DEF a
<1>2. ASSUME NEW i \in 1 .. Len(s)
      PROVE  Links(a, i)
  <2>1. i \in DOMAIN s /\ a[i] = s[i] /\ (i > 1 => a[i - 1] = s[i - 1])
    BY <1>1, LenProperties
  <2>2. QED
    BY <1>1, <2>1, LinksAlike DEF Chain
<1>3. Links(a, n)
  <2>1. CASE s # <<>> /\ r.prev = s[Len(s)].id
    <3>1. n # 1 /\ n - 1 = Len(s) /\ a[n - 1] = s[Len(s)]
      BY <1>1, <2>1, EmptySeq
    <3>2. QED
      BY <1>1, <2>1, <3>1 DEF Links
  <2>2. CASE r.prev = Genesis /\ (s # <<>> => s[Len(s)].day < r.day)
    <3>1. CASE s = <<>>
      BY <1>1, <2>2, <3>1, EmptySeq DEF Links
    <3>2. CASE s # <<>>
      <4>1. n # 1 /\ n - 1 = Len(s) /\ a[n - 1] = s[Len(s)] /\ Len(s) \in DOMAIN s
        BY <1>1, <3>2, EmptySeq, LenProperties
      <4>2. s[Len(s)].day \in Nat /\ r.day \in Nat
        <5>1. r.day \in 1 .. Days
          BY DEF Records
        <5>2. QED
          BY <4>1, <5>1, DayOf, AuditAssumption
      <4>3. a[n - 1].day # a[n].day
        BY <1>1, <2>2, <3>2, <4>1, <4>2
      <4>4. QED
        BY <1>1, <2>2, <4>3 DEF Links, SegmentStart
    <3>3. QED
      BY <3>1, <3>2
  <2>3. QED
    BY <2>1, <2>2 DEF Anchors
<1>4. Chain(a)
  BY <1>1, <1>2, <1>3, LenProperties DEF Chain
<1>5. QED
  BY <1>4 DEF a

\* A new line adds its event.
LEMMA EventsOfAppend ==
  ASSUME NEW s \in Seq(Records), NEW r \in Records
  PROVE  EventsOf(Append(s, r)) = EventsOf(s) \cup {r.id[1]}
<1> DEFINE a == Append(s, r)
           n == Len(s) + 1
<1>1. a \in Seq(Records) /\ DOMAIN a = 1 .. n /\ DOMAIN s = 1 .. Len(s) /\ Len(s) \in Nat
         /\ (\A i \in 1 .. Len(s) : a[i] = s[i]) /\ a[n] = r
  BY AppendProperties, LenProperties
<1> HIDE DEF a
<1>2. \A i \in 1 .. n : i \in DOMAIN s \/ i = n
  BY <1>1
<1>3. \A i \in DOMAIN s : a[i] = s[i] /\ i \in DOMAIN a
  BY <1>1
<1>4. n \in DOMAIN a
  BY <1>1
<1>5. EventsOf(a) = EventsOf(s) \cup {r.id[1]}
  BY <1>1, <1>2, <1>3, <1>4 DEF EventsOf
<1>6. QED
  BY <1>5 DEF a

\* A line of a new event.
LEMMA DistinctAppend ==
  ASSUME NEW s \in Seq(Records), Distinct(s), NEW r \in Records, r.id[1] \notin EventsOf(s)
  PROVE  Distinct(Append(s, r))
<1> DEFINE a == Append(s, r)
           n == Len(s) + 1
<1>1. a \in Seq(Records) /\ DOMAIN a = 1 .. n /\ DOMAIN s = 1 .. Len(s) /\ Len(s) \in Nat
         /\ (\A i \in 1 .. Len(s) : a[i] = s[i]) /\ a[n] = r
  BY AppendProperties, LenProperties
<1> HIDE DEF a
<1>2. \A i \in 1 .. n : i \in DOMAIN s \/ i = n
  BY <1>1
<1>3. \A i \in DOMAIN s : a[i] = s[i] /\ i # n /\ i \in DOMAIN a
  BY <1>1
<1>4. Distinct(a)
  <2>1. ASSUME NEW i \in DOMAIN a, NEW j \in DOMAIN a, a[i].id[1] = a[j].id[1]
        PROVE  i = j
    BY <1>1, <1>2, <1>3, <2>1 DEF Distinct, EventsOf
  <2>2. QED
    BY <2>1 DEF Distinct
<1>5. QED
  BY <1>4 DEF a

\* A prefix has no duplicate that the whole has not.
LEMMA DistinctPrefix ==
  ASSUME NEW s \in Seq(Records), Distinct(s), NEW n \in 0 .. Len(s)
  PROVE  Distinct(SubSeq(s, 1, n))
<1> DEFINE p == SubSeq(s, 1, n)
<1>1. p \in Seq(Records) /\ Len(p) = n /\ \A i \in 1 .. n : p[i] = s[i]
  BY PrefixLinks
<1> HIDE DEF p
<1>2. \A i \in DOMAIN p : i \in DOMAIN s /\ p[i] = s[i]
  BY <1>1, LenProperties
<1>3. Distinct(p)
  BY <1>2 DEF Distinct
<1>4. QED
  BY <1>3 DEF p

\* The events of two runs of lines.
LEMMA EventsOfConcat ==
  ASSUME NEW d \in Seq(Records), NEW s \in Seq(Records)
  PROVE  EventsOf(d \o s) = EventsOf(d) \cup EventsOf(s)
<1> DEFINE a == d \o s
<1>1. a \in Seq(Records) /\ Len(a) = Len(d) + Len(s) /\ Len(d) \in Nat /\ Len(s) \in Nat
         /\ \A i \in 1 .. Len(d) + Len(s) : a[i] = IF i <= Len(d) THEN d[i] ELSE s[i - Len(d)]
  BY ConcatProperties, LenProperties
<1>2. DOMAIN a = 1 .. Len(d) + Len(s) /\ DOMAIN d = 1 .. Len(d) /\ DOMAIN s = 1 .. Len(s)
  BY <1>1, LenProperties
<1> HIDE DEF a
<1>3. \A i \in DOMAIN d : i \in DOMAIN a /\ a[i] = d[i]
  BY <1>1, <1>2
<1>4. \A i \in DOMAIN s : Len(d) + i \in DOMAIN a /\ a[Len(d) + i] = s[i]
  BY <1>1, <1>2
<1>5. \A i \in DOMAIN a :
        \/ i \in DOMAIN d /\ a[i] = d[i]
        \/ i - Len(d) \in DOMAIN s /\ a[i] = s[i - Len(d)]
  BY <1>1, <1>2
<1>6. EventsOf(a) = EventsOf(d) \cup EventsOf(s)
  BY <1>3, <1>4, <1>5 DEF EventsOf
<1>7. QED
  BY <1>6 DEF a

\* Without a fault every line is whole, so appending is appending; what is in the
\* files or in the buffer is in All.
LEMMA Plain ==
  ASSUME FaultyInv, Chain(All)
  PROVE  /\ disk \in Seq(Records) /\ be_buffer \in Seq(Records)
         /\ Owed \in Seq(Records) /\ All \in Seq(Records)
         /\ \A s : AppendLines(disk, s) = disk \o s
         /\ Chain(disk)
         /\ EventsOf(All) = EventsOf(disk) \cup EventsOf(Owed)
         /\ EventsOf(disk \o be_buffer) = EventsOf(disk) \cup EventsOf(be_buffer)
         /\ EventsOf(be_buffer) \subseteq EventsOf(Owed)
<1>1. /\ disk \in Seq(Records) /\ be_buffer \in Seq(Records) /\ Owed \in Seq(Records)
      /\ TypeOK
  BY OwedType DEF FaultyInv, TypeInv, TypeOK
<1>2. All \in Seq(Records) /\ Len(All) = Len(disk) + Len(Owed)
         /\ \A i \in 1 .. Len(disk) : All[i] = disk[i]
  BY <1>1, ConcatProperties, LenProperties DEF All
<1>3. ASSUME NEW i \in DOMAIN disk
      PROVE  Links(disk, i)
  <2>1. i \in DOMAIN All /\ disk[i] = All[i] /\ (i > 1 => disk[i - 1] = All[i - 1])
    <3>1. i \in 1 .. Len(disk) /\ Len(disk) \in Nat /\ Len(Owed) \in Nat
      BY <1>1, LenProperties
    <3>2. i \in 1 .. Len(All) /\ (i > 1 => i - 1 \in 1 .. Len(disk))
      BY <1>2, <3>1
    <3>3. QED
      BY <1>2, <3>1, <3>2, LenProperties
  <2>2. QED
    BY <1>1, <1>2, <2>1, LinksAlike DEF Chain
<1>4. Chain(disk)
  BY <1>3 DEF Chain
<1>5. \A i \in DOMAIN disk : Whole(disk[i])
  BY <1>3 DEF Links
<1>6. \A s : AppendLines(disk, s) = disk \o s
  BY <1>1, <1>5, LinesPlain
<1>7. EventsOf(be_buffer) \subseteq EventsOf(Owed)
  <2>1. CASE pc # "write"
    BY <1>1, <2>1, OwedType
  <2>2. CASE pc = "write"
    <3>1. cur \in Records /\ Owed = Append(be_buffer, cur)
      BY <1>1, <2>2, OwedType
    <3>2. \A i \in DOMAIN be_buffer : i \in DOMAIN Owed /\ Owed[i] = be_buffer[i]
      BY <1>1, <3>1, AppendProperties, LenProperties
    <3>3. QED
      BY <3>2 DEF EventsOf
  <2>3. QED
    BY <2>1, <2>2
<1>8. QED
  BY <1>1, <1>2, <1>4, <1>6, <1>7, EventsOfConcat DEF All

\* No message joins the backlog.
Drains == \A i \in DOMAIN queue' : \E j \in DOMAIN queue : queue'[i] = queue[j]

\* Every line is an old one, or a line of today whose emit call has begun.
OldOrNew ==
  \A i \in DOMAIN All' :
    \/ \E j \in DOMAIN All : All'[i].id = All[j].id /\ All'[i].day = All[j].day
    \/ All'[i].day = today /\ \A e \in Events : All'[i].id[1] = e => cl[e].st # "new"

\* While no call begins, nothing becomes ongoing.
LEMMA OngoingKept ==
  ASSUME Settles(cl, cl'), Drains
  PROVE  \A e \in Events : Ongoing(e)' => Ongoing(e)
<1> SUFFICES ASSUME NEW e \in Events, Ongoing(e)'
             PROVE  Ongoing(e)
  OBVIOUS
<1>1. CASE cl'[e].st \in {"wait", "retry"}
  BY <1>1 DEF Settles, Ongoing
<1>2. CASE e \in {queue'[i][1] : i \in DOMAIN queue'}
  BY <1>2 DEF Drains, Ongoing
<1>3. QED
  BY <1>1, <1>2 DEF Ongoing

\* What may still arrive stays in reach of a restart while no call begins and no day ends.
LEMMA RememberedKept ==
  ASSUME TypeInv, Remembered, Settles(cl, cl'), Drains, OldOrNew, today' = today
  PROVE  Remembered'
<1>1. ASSUME NEW e \in Events, NEW i \in DOMAIN All', Ongoing(e)', All'[i].id[1] = e
      PROVE  today - 1 <= All'[i].day /\ (~cl'[e].late => All'[i].day = today)
  <2>1. Ongoing(e) /\ cl'[e].late = cl[e].late
    BY <1>1, OngoingKept DEF Settles
  <2>2. today \in Nat
    BY AuditAssumption DEF TypeInv, TypeOK
  <2>3. CASE All'[i].day = today
    BY <2>2, <2>3
  <2>4. CASE \E j \in DOMAIN All : All'[i].id = All[j].id /\ All'[i].day = All[j].day
    <3>1. PICK j \in DOMAIN All : All'[i].id = All[j].id /\ All'[i].day = All[j].day
      BY <2>4
    <3>2. All[j].id[1] = e
      BY <1>1, <3>1
    <3>3. today - 1 <= All[j].day /\ (~cl[e].late => All[j].day = today)
      BY <2>1, <3>2 DEF Remembered
    <3>4. QED
      BY <2>1, <3>1, <3>3
  <2>5. QED
    BY <2>3, <2>4 DEF OldOrNew
<1>2. ASSUME NEW e \in Events, cl'[e].st = "new"
      PROVE  e \notin EventsOf(All') /\ \A i \in DOMAIN queue' : queue'[i][1] # e
  <2>1. cl[e].st = "new"
    BY <1>2 DEF Settles
  <2>2. e \notin EventsOf(All) /\ \A i \in DOMAIN queue : queue[i][1] # e
    BY <2>1 DEF Remembered
  <2>3. \A i \in DOMAIN queue' : queue'[i][1] # e
    BY <2>2 DEF Drains
  <2>4. \A i \in DOMAIN All' : All'[i].id[1] # e
    BY <2>1, <2>2 DEF OldOrNew, EventsOf
  <2>5. QED
    BY <2>3, <2>4 DEF EventsOf
<1>3. QED
  BY <1>1, <1>2 DEF Remembered, EventsOf

\* The backlog loses its first message.
LEMMA TailDrains ==
  ASSUME TypeInv, queue # <<>>, queue' = Tail(queue)
  PROVE  Drains
BY QueueFirst DEF TypeInv, Drains

-----------------------------------------------------------------------------
(* Step by step. *)

\* An emit call connects or times out.
LEMMA ClientSound ==
  ASSUME FaultyInv, SoundInv, NEW e \in Events, Connect(e) \/ Timeout(e)
  PROVE  SoundInv'
<1>1. TypeInv /\ CallsOK(cl) /\ queue \in Seq(Messages)
  BY DEF FaultyInv, TypeInv, TypeOK
<1>2. /\ All' = All /\ disk' = disk /\ be_buffer' = be_buffer /\ pc' = pc /\ cur' = cur
      /\ prev_hash' = prev_hash /\ seen' = seen /\ today' = today /\ rep' = rep
  BY DEF All, Owed, Connect, Timeout, writer, repair
<1>3. EventsOf(disk \o be_buffer) \subseteq EventsOf(All)
  BY Plain DEF SoundInv
<1>4. cl \in [Events -> EmitCalls] /\ Counts(cl[e], e)
  BY <1>1 DEF CallsOK
<1>5. /\ \A f \in Events : f # e => cl'[f] = cl[f]
      /\ cl'[e].late = cl[e].late
      /\ cl'[e].st \notin {"new", "ok"}
      /\ cl[e].st \in {"new", "wait", "retry"}
      /\ Timeout(e) => cl[e].st = "wait" /\ queue' = queue
      /\ Connect(e) => cl[e].st \in {"new", "retry"}
           /\ \/ queue' = queue
              \/ \E n : queue' = Append(queue, <<e, n>>) /\ <<e, n>> \in Messages
  <2>1. CASE Timeout(e)
    <3> DEFINE q == Failed(cl[e], e)
    <3>1. q.st \in {"retry", "failed"} /\ q.late = cl[e].late
      BY <1>4, <2>1, CallMoves DEF Timeout
    <3> HIDE DEF q
    <3>2. cl' = [cl EXCEPT ![e] = q] /\ queue' = queue /\ cl[e].st = "wait"
      BY <1>4, <2>1 DEF Timeout, q
    <3>3. ~Connect(e)
      BY <3>2 DEF Connect
    <3>4. QED
      BY <1>4, <3>1, <3>2, <3>3
  <2>2. CASE Connect(e)
    <3> DEFINE c == [cl[e] EXCEPT !.st = "wait", !.tries = @ + 1]
               q == Failed(c, e)
    <3>1. cl[e].st \in {"new", "retry"}
      BY <2>2 DEF Connect
    <3>2. c.st = "wait" /\ c.late = cl[e].late /\ c.tries = cl[e].tries + 1
      BY <1>4 DEF EmitCalls
    <3>3. q.st \in {"retry", "failed"} /\ q.late = cl[e].late
      <4>1. [c EXCEPT !.st = "retry"].st = "retry" /\ [c EXCEPT !.st = "retry"].late = c.late
        BY <1>4 DEF EmitCalls
      <4>2. Ended(c, "failed").st = "failed" /\ Ended(c, "failed").late = c.late
        BY <1>4 DEF EmitCalls, Ended
      <4> HIDE DEF c
      <4>3. QED
        BY <3>2, <4>1, <4>2 DEF Failed
    <3>4. \/ cl' = [cl EXCEPT ![e] = c] /\ queue' = Append(queue, <<e, c.tries>>)
          \/ cl' = [cl EXCEPT ![e] = q] /\ queue' = queue
      BY <2>2 DEF Connect
    <3>5. <<e, c.tries>> \in Messages
      <4>1. cl[e].tries \in 0 .. MaxRetries /\ cl[e].tries + 1 \in 1 .. Attempts(e)
        BY <1>4, <3>1, AttemptsBound, AuditAssumption DEF Counts, EmitCalls
      <4>2. c.tries \in 1 .. MaxRetries
        BY <3>2, <4>1, AttemptsBound, AuditAssumption
      <4>3. QED
        BY <4>2 DEF Messages
    <3> HIDE DEF c, q
    <3>6. ~Timeout(e)
      BY <3>1 DEF Timeout
    <3>7. QED
      BY <1>4, <3>1, <3>2, <3>3, <3>4, <3>5, <3>6
  <2>3. QED
    BY <2>1, <2>2
<1>6. \A i \in DOMAIN queue' : (\E j \in DOMAIN queue : queue'[i] = queue[j]) \/ queue'[i][1] = e
  <2>1. CASE queue' = queue
    BY <2>1
  <2>2. CASE \E n : queue' = Append(queue, <<e, n>>) /\ <<e, n>> \in Messages
    <3>1. PICK n : queue' = Append(queue, <<e, n>>) /\ <<e, n>> \in Messages
      BY <2>2
    <3>2. \A i \in DOMAIN queue' :
            (i \in DOMAIN queue /\ queue'[i] = queue[i]) \/ queue'[i] = <<e, n>>
      BY <1>1, <3>1, AppendProperties, LenProperties
    <3>3. QED
      BY <3>2
  <2>3. QED
    BY <1>5, <2>1, <2>2
<1>7. ASSUME NEW f \in Events, Ongoing(f)'
      PROVE  Ongoing(f) \/ (f = e /\ cl[e].st = "new")
  <2>1. CASE f = e
    BY <1>5, <2>1 DEF Ongoing
  <2>2. CASE f # e
    BY <1>5, <1>6, <1>7, <2>2 DEF Ongoing
  <2>3. QED
    BY <2>1, <2>2
<1>8. cl[e].st = "new" => e \notin EventsOf(All)
  BY DEF SoundInv, Remembered
<1>9. Remembered'
  <2>1. ASSUME NEW f \in Events, NEW i \in DOMAIN All, Ongoing(f)', All[i].id[1] = f
        PROVE  today - 1 <= All[i].day /\ (~cl'[f].late => All[i].day = today)
    <3>1. f \in EventsOf(All)
      BY <2>1 DEF EventsOf
    <3>2. Ongoing(f) /\ cl'[f].late = cl[f].late
      BY <1>5, <1>7, <1>8, <2>1, <3>1
    <3>3. QED
      BY <2>1, <3>2 DEF SoundInv, Remembered
  <2>2. ASSUME NEW f \in Events, cl'[f].st = "new"
        PROVE  f \notin EventsOf(All) /\ \A i \in DOMAIN queue' : queue'[i][1] # f
    BY <1>5, <1>6, <2>2 DEF SoundInv, Remembered
  <2>3. QED
    BY <1>2, <2>1, <2>2 DEF Remembered, EventsOf
<1>10. SeenOK'
  <2>1. ASSUME pc # "down", NEW f \in EventsOf(disk \o be_buffer), Ongoing(f)'
        PROVE  f \in seen
    <3>1. f \in EventsOf(All)
      BY <1>3
    <3>2. f \in Events
      <4>1. All \in Seq(Records)
        BY Plain DEF SoundInv
      <4>2. QED
        BY <3>1, <4>1, DayOf DEF EventsOf, Records, Messages
    <3>3. Ongoing(f)
      BY <1>7, <1>8, <2>1, <3>1, <3>2
    <3>4. QED
      BY <2>1, <3>3 DEF SoundInv, SeenOK
  <2>2. QED
    BY <1>2, <2>1 DEF SoundInv, SeenOK, EventsOf
<1>11. DurableOK'
  <2>1. \A f \in Durable : f \in Events /\ (cl'[f].st = "ok" => cl[f].st = "ok")
    BY <1>5, AuditAssumption
  <2>2. QED
    BY <1>2, <2>1 DEF SoundInv, DurableOK, EventsOf
<1>12. QED
  BY <1>2, <1>9, <1>10, <1>11 DEF SoundInv, Chain, Distinct, Links, Whole, SegmentStart, Anchors

\* What recovery chains to is the last line, or the files ended before today.
LEMMA RecoveryAnchors ==
  ASSUME FaultyInv, Chain(All), pc = "down"
  PROVE  /\ Anchors(RecoveredHash(disk), disk, today)
         /\ \A i \in DOMAIN disk : today - 1 <= disk[i].day => disk[i].id[1] \in RecoveredIds(disk)
         /\ RecoveredIds(disk) \subseteq EventsOf(disk)
<1>1. disk \in Seq(Records) /\ Len(disk) \in Nat /\ DOMAIN disk = 1 .. Len(disk) /\ today \in Nat
         /\ Chain(disk) /\ be_buffer = <<>> /\ Owed \in Seq(Records)
  BY Plain, LenProperties, AuditAssumption DEF FaultyInv, TypeInv, TypeOK, Quiet
<1>2. Calendar(disk, today)
  BY <1>1, CalendarOf DEF FaultyInv, All
<1>3. \A i \in DOMAIN disk : Whole(disk[i]) /\ disk[i].day \in Nat /\ disk[i].day <= today
  BY <1>1, <1>2, DayOf DEF Chain, Links, Calendar
<1>4. \A i \in DOMAIN disk : today - 1 <= disk[i].day => i \in Recent(disk)
  <2>1. \A i \in DOMAIN disk : today - 1 <= disk[i].day => disk[i].day \in {today - 1, today}
    BY <1>1, <1>3
  <2>2. QED
    BY <1>3, <2>1 DEF Recent
<1>5. Recent(disk) \subseteq 1 .. Len(disk)
  BY <1>1 DEF Recent
<1>6. Anchors(RecoveredHash(disk), disk, today)
  <2>1. CASE disk = <<>>
    <3>1. Recent(disk) = {}
      BY <2>1 DEF Recent
    <3>2. QED
      BY <2>1, <3>1 DEF RecoveredHash, Anchors
  <2>2. CASE disk # <<>> /\ Recent(disk) = {}
    <3>1. Len(disk) \in DOMAIN disk
      BY <1>1, <2>2, EmptySeq
    <3>2. ~(today - 1 <= disk[Len(disk)].day)
      BY <1>4, <2>2, <3>1
    <3>3. disk[Len(disk)].day < today
      BY <1>1, <1>3, <3>1, <3>2
    <3>4. QED
      BY <2>2, <3>3 DEF RecoveredHash, Anchors
  <2>3. CASE Recent(disk) # {}
    <3> DEFINE n == Len(disk)
    <3>1. PICK i \in Recent(disk) : \A j \in Recent(disk) : j <= i
      BY <1>1, <1>5, <2>3, Greatest
    <3>2. n \in DOMAIN disk /\ i \in 1 .. n /\ today - 1 <= disk[i].day
      BY <1>1, <1>5, <3>1 DEF Recent
    <3>3. disk[i].day <= disk[n].day /\ disk[i].day \in Nat /\ disk[n].day \in Nat
      BY <1>2, <1>3, <3>2 DEF Calendar
    <3>4. n \in Recent(disk)
      BY <1>1, <1>4, <3>2, <3>3
    <3>5. \A j \in Recent(disk) : j <= n
      BY <1>1, <1>5
    <3>6. \A m \in Recent(disk) : (\A j \in Recent(disk) : j <= m) => m = n
      BY <1>1, <1>5, <3>4, <3>5
    <3>7. (CHOOSE m \in Recent(disk) : \A j \in Recent(disk) : j <= m) = n
      BY <3>4, <3>5, <3>6
    <3>8. RecoveredHash(disk) = disk[n].id
      BY <2>3, <3>7 DEF RecoveredHash
    <3>9. disk # <<>>
      BY <1>1, <3>2
    <3>10. QED
      BY <3>8, <3>9 DEF Anchors
  <2>4. QED
    BY <2>1, <2>2, <2>3
<1>7. \A i \in DOMAIN disk : today - 1 <= disk[i].day => disk[i].id[1] \in RecoveredIds(disk)
  BY <1>4 DEF RecoveredIds
<1>8. RecoveredIds(disk) \subseteq EventsOf(disk)
  BY <1>1, <1>5 DEF RecoveredIds, EventsOf
<1>9. QED
  BY <1>6, <1>7, <1>8

\* The writer recovers.
LEMMA StartSound ==
  ASSUME FaultyInv, SoundInv, Start
  PROVE  SoundInv'
<1>1. /\ All = disk /\ All' = disk /\ disk \o be_buffer = disk /\ disk \in Seq(Records)
      /\ be_buffer = <<>> /\ Owed = <<>> /\ Owed' = <<>>
  <2>1. be_buffer = <<>> /\ disk \in Seq(Records) /\ pc = "down"
    BY DEF FaultyInv, TypeInv, TypeOK, Quiet, Start
  <2>2. Owed = <<>> /\ Owed' = <<>>
    BY <2>1 DEF Owed, Start
  <2>3. QED
    BY <2>1, <2>2, ConcatEmptySeq DEF All, Start
<1>2. /\ pc = "down" /\ pc' = "idle" /\ disk' = disk /\ be_buffer' = be_buffer /\ cl' = cl
      /\ queue' = queue /\ today' = today /\ rep' = rep
      /\ prev_hash' = RecoveredHash(disk) /\ seen' = RecoveredIds(disk)
  BY DEF Start, repair
<1>3. /\ Anchors(RecoveredHash(disk), disk, today)
      /\ \A i \in DOMAIN disk : today - 1 <= disk[i].day => disk[i].id[1] \in RecoveredIds(disk)
      /\ RecoveredIds(disk) \subseteq EventsOf(disk)
  BY <1>2, RecoveryAnchors DEF SoundInv
<1>4. SeenOK'
  <2>1. ASSUME NEW e \in EventsOf(disk), Ongoing(e)
        PROVE  e \in RecoveredIds(disk)
    <3>1. PICK i \in DOMAIN disk : disk[i].id[1] = e
      BY DEF EventsOf
    <3>2. e \in Events
      BY <1>1, <3>1, DayOf DEF Records, Messages
    <3>3. today - 1 <= disk[i].day
      BY <1>1, <2>1, <3>1, <3>2 DEF SoundInv, Remembered
    <3>4. QED
      BY <1>3, <3>1, <3>3
  <2>2. \A e : Ongoing(e)' <=> Ongoing(e)
    BY <1>2 DEF Ongoing
  <2>3. (disk \o be_buffer)' = disk
    BY <1>1, <1>2
  <2>4. QED
    BY <1>2, <1>3, <2>1, <2>2, <2>3 DEF SeenOK, EventsOf
<1>5. Remembered'
  BY <1>1, <1>2 DEF SoundInv, Remembered, Ongoing, EventsOf
<1>6. DurableOK'
  BY <1>2 DEF SoundInv, DurableOK, EventsOf
<1>7. Chain(All)' /\ Distinct(All)' /\ Anchors(prev_hash, All, today)'
  BY <1>1, <1>2, <1>3 DEF SoundInv, Chain, Distinct, Links, Whole, SegmentStart, Anchors
<1>8. QED
  BY <1>2, <1>4, <1>5, <1>6, <1>7 DEF SoundInv

\* The steps that move lines along without making one: flushing, writing the
\* line in hand, answering, dropping a duplicate.
LEMMA MovesSound ==
  ASSUME FaultyInv, SoundInv, All' = All, today' = today, rep' = rep,
         Settles(cl, cl'), Drains,
         pc' \in {"idle", "ack"}, Anchors(prev_hash', All, today),
         EventsOf(disk) \subseteq EventsOf(disk'),
         EventsOf((disk \o be_buffer)') = EventsOf(All),
         seen' \subseteq EventsOf(All),
         \A e \in EventsOf(All) : Ongoing(e) => e \in seen',
         be_buffer' \in {<<>>, be_buffer},
         pc' = "ack" => cur'.id[1] \in EventsOf(disk'),
         \A e \in Durable : cl'[e].st = "ok" => cl[e].st = "ok" \/ e \in EventsOf(disk')
  PROVE  SoundInv'
<1>1. OldOrNew
  BY DEF OldOrNew
<1>2. Remembered'
  BY <1>1, RememberedKept DEF FaultyInv, SoundInv
<1>3. \A e \in Events : Ongoing(e)' => Ongoing(e)
  BY OngoingKept
<1>4. EventsOf(All) \subseteq Events
  <2>1. All \in Seq(Records)
    BY Plain DEF SoundInv
  <2>2. QED
    BY <2>1, DayOf, ZenonT(40) DEF EventsOf, Records, Messages
<1>5. SeenOK'
  BY <1>3, <1>4 DEF SeenOK
<1>6. DurableOK'
  BY DEF SoundInv, DurableOK
<1>7. Chain(All)' /\ Distinct(All)'
  BY DEF SoundInv, Chain, Distinct, Links, Whole, SegmentStart
<1>8. QED
  BY <1>2, <1>5, <1>6, <1>7 DEF SoundInv, Anchors

\* A step of the message loop that makes no line.
LEMMA QuietSound ==
  ASSUME FaultyInv, SoundInv, TakeDuplicate \/ Ack \/ Flush \/ WriteDurable
  PROVE  SoundInv'
<1>1. /\ disk \in Seq(Records) /\ be_buffer \in Seq(Records) /\ Owed \in Seq(Records)
      /\ All \in Seq(Records)
      /\ \A s : AppendLines(disk, s) = disk \o s
      /\ EventsOf(All) = EventsOf(disk) \cup EventsOf(Owed)
      /\ EventsOf(disk \o be_buffer) = EventsOf(disk) \cup EventsOf(be_buffer)
      /\ EventsOf(be_buffer) \subseteq EventsOf(Owed)
  BY Plain DEF SoundInv
<1>2. TypeInv /\ TypeOK /\ CallsOK(cl)
  BY DEF FaultyInv, TypeInv
<1>3. /\ seen \subseteq EventsOf(disk \o be_buffer)
      /\ pc # "down" => \A e \in EventsOf(disk \o be_buffer) : Ongoing(e) => e \in seen
      /\ pc \in {"idle", "ack"} => Anchors(prev_hash, All, today)
      /\ \A i \in DOMAIN be_buffer : be_buffer[i].id[1] \notin Durable
      /\ pc = "ack" => cur.id[1] \in EventsOf(disk)
  BY DEF SoundInv, SeenOK, DurableOK
<1>4. pc # "write" => All = disk \o be_buffer
  BY <1>2, OwedType DEF All
<1>5. CASE TakeDuplicate
  <2> DEFINE e == queue[1][1]
  <2>1. /\ pc = "idle" /\ queue # <<>> /\ e \in seen /\ cl' = Answered(e, queue[1][2])
        /\ queue' = Tail(queue) /\ All' = All /\ today' = today /\ rep' = rep /\ pc' = pc
        /\ disk' = disk /\ be_buffer' = be_buffer /\ seen' = seen /\ prev_hash' = prev_hash
    BY <1>5 DEF TakeDuplicate, All, Owed, writer, repair
  <2>2. e \in Events
    BY <1>2, <2>1, QueueFirst
  <2>3. Settles(cl, cl') /\ \A f \in Events : cl'[f].st = "ok" => cl[f].st = "ok" \/ f = e
    BY <1>2, <2>1, <2>2, AnsweredMoves
  <2>4. Drains
    BY <1>2, <2>1, TailDrains
  <2>5. e \in Durable => e \in EventsOf(disk)
    BY <1>1, <1>3, <2>1, ZenonT(40) DEF EventsOf
  <2> HIDE DEF e
  <2>6. \A f \in Durable : cl'[f].st = "ok" => cl[f].st = "ok" \/ f \in EventsOf(disk')
    BY <2>1, <2>3, <2>5, AuditAssumption
  <2>7. (disk \o be_buffer)' = All
    BY <1>4, <2>1
  <2>8. QED
    BY <1>3, <1>4, <2>1, <2>3, <2>4, <2>6, <2>7, MovesSound
<1>6. CASE Ack
  <2> DEFINE e == cur.id[1]
  <2>1. /\ pc = "ack" /\ cl' = Answered(e, cur.id[2]) /\ pc' = "idle"
        /\ queue' = queue /\ All' = All /\ today' = today /\ rep' = rep
        /\ disk' = disk /\ be_buffer' = be_buffer /\ seen' = seen /\ prev_hash' = prev_hash
    BY <1>6 DEF Ack, All, Owed, repair
  <2>2. e \in Events
    BY <1>2, <2>1, OwedType DEF Records, Messages
  <2>3. Settles(cl, cl') /\ \A f \in Events : cl'[f].st = "ok" => cl[f].st = "ok" \/ f = e
    BY <1>2, <2>1, <2>2, AnsweredMoves
  <2>4. Drains
    BY <2>1 DEF Drains
  <2>5. e \in EventsOf(disk)
    BY <1>3, <2>1
  <2> HIDE DEF e
  <2>6. \A f \in Durable : cl'[f].st = "ok" => cl[f].st = "ok" \/ f \in EventsOf(disk')
    BY <2>1, <2>3, <2>5, AuditAssumption
  <2>7. (disk \o be_buffer)' = All
    BY <1>4, <2>1
  <2>8. QED
    BY <1>3, <1>4, <2>1, <2>3, <2>4, <2>6, <2>7, MovesSound
<1>7. CASE Flush
  <2>1. /\ pc = "idle" /\ cl' = cl /\ pc' = pc /\ queue' = queue /\ today' = today
        /\ rep' = rep /\ disk' = disk \o be_buffer /\ be_buffer' = <<>> /\ seen' = seen
        /\ prev_hash' = prev_hash
    BY <1>1, <1>7 DEF Flush, repair
  <2>2. All' = disk' \o <<>> /\ disk' = All
    BY <1>4, <2>1 DEF All, Owed
  <2>3. All' = All /\ (disk \o be_buffer)' = All
    BY <1>1, <2>1, <2>2, ConcatEmptySeq
  <2>4. Settles(cl, cl') /\ Drains
    BY <2>1 DEF Settles, Drains
  <2>5. EventsOf(disk) \subseteq EventsOf(disk')
    BY <1>1, <2>2
  <2>6. QED
    BY <1>3, <1>4, <2>1, <2>3, <2>4, <2>5, MovesSound
<1>8. CASE WriteDurable
  <2>1. /\ pc = "write" /\ cl' = cl /\ pc' = "ack" /\ queue' = queue /\ today' = today
        /\ rep' = rep /\ disk' = disk \o Owed /\ be_buffer' = <<>> /\ cur' = cur
        /\ prev_hash' = cur.id /\ seen' = seen \cup {cur.id[1]}
    BY <1>1, <1>8 DEF WriteDurable, Chained, repair
  <2>2. All' = disk' \o <<>> /\ disk' = All
    BY <2>1 DEF All, Owed
  <2>3. All' = All /\ (disk \o be_buffer)' = All
    BY <1>1, <2>1, <2>2, ConcatEmptySeq
  <2>4. Settles(cl, cl') /\ Drains
    BY <2>1 DEF Settles, Drains
  <2>5. cur \in Records /\ All = Append(disk \o be_buffer, cur)
    BY <1>1, <1>2, <2>1, OwedType, OwedInOrder DEF All
  <2>6. disk \o be_buffer \in Seq(Records)
    BY <1>1, ConcatProperties
  <2>7. EventsOf(All) = EventsOf(disk \o be_buffer) \cup {cur.id[1]}
    BY <2>5, <2>6, EventsOfAppend
  <2>8. Anchors(prev_hash', All, today)
    <3>1. All # <<>> /\ Len(All) = Len(disk \o be_buffer) + 1
             /\ All[Len(disk \o be_buffer) + 1] = cur
      BY <2>5, <2>6, AppendProperties
    <3>2. QED
      BY <2>1, <3>1 DEF Anchors
  <2>9. EventsOf(disk) \subseteq EventsOf(disk')
    BY <1>1, <2>2
  <2>10. QED
    BY <1>3, <2>1, <2>2, <2>3, <2>4, <2>7, <2>8, <2>9, MovesSound
<1>9. QED
  BY <1>5, <1>6, <1>7, <1>8

\* A line is made of a message: it continues the chain, and no line carries its
\* event yet.
LEMMA TakenSound ==
  ASSUME FaultyInv, SoundInv, TakeBestEffort \/ TakeDurable
  PROVE  SoundInv'
<1> DEFINE r == Committed(queue[1])
           e == queue[1][1]
<1>1. /\ TypeInv /\ TypeOK /\ CallsOK(cl) /\ disk \in Seq(Records) /\ be_buffer \in Seq(Records)
      /\ All \in Seq(Records)
      /\ AppendLines(disk, be_buffer) = disk \o be_buffer
      /\ EventsOf(disk \o be_buffer) = EventsOf(disk) \cup EventsOf(be_buffer)
  BY Plain DEF FaultyInv, TypeInv, SoundInv
<1>2. /\ pc = "idle" /\ queue # <<>> /\ e \notin seen
      /\ queue' = Tail(queue) /\ disk' = Carry /\ today' = today /\ rep' = rep
  BY DEF TakeBestEffort, TakeDurable, repair
<1>3. r \in Records /\ Whole(r) /\ r.id = queue[1] /\ r.id[1] = e /\ e \in Events
         /\ r.prev = prev_hash /\ r.day = today
  BY <1>1, <1>2, QueueFirst, CommittedType
<1>4. All = disk \o be_buffer /\ Carry \o Carried = All
         /\ Carry \o Append(Carried, r) = Append(All, r)
  BY <1>1, <1>2, TakenShape
<1>5. All' = Append(All, r)
  BY <1>4 DEF All, Owed, TakeBestEffort, TakeDurable
<1>6. e \notin EventsOf(All)
  <2>1. Ongoing(e)
    <3>1. 1 \in DOMAIN queue
      BY <1>1, <1>2, EmptySeq, LenProperties DEF TypeOK
    <3>2. QED
      BY <3>1 DEF Ongoing
  <2>2. QED
    BY <1>2, <1>4, <2>1 DEF SoundInv, SeenOK
<1>7. cl[e].st # "new"
  <2>1. 1 \in DOMAIN queue
    BY <1>1, <1>2, EmptySeq, LenProperties DEF TypeOK
  <2>2. QED
    BY <1>3, <2>1 DEF SoundInv, Remembered
<1>8. Settles(cl, cl') /\ \A f \in Durable : cl'[f].st = "ok" => cl[f].st = "ok"
  <2>1. CASE TakeBestEffort
    <3>1. cl' = Answered(e, queue[1][2]) /\ e \notin Durable
      BY <2>1 DEF TakeBestEffort
    <3> HIDE DEF e
    <3>2. QED
      BY <1>1, <1>3, <3>1, AnsweredMoves, AuditAssumption
  <2>2. CASE TakeDurable
    BY <2>2 DEF TakeDurable, Settles
  <2>3. QED
    BY <2>1, <2>2
<1>9. Drains
  BY <1>1, <1>2, TailDrains
<1> HIDE DEF r, e
<1>10. Chain(All)'
  BY <1>1, <1>2, <1>3, <1>5, ChainAppend DEF SoundInv, Chain
<1>11. Distinct(All)'
  BY <1>1, <1>3, <1>5, <1>6, DistinctAppend DEF SoundInv, Distinct
<1>12. Len(All') = Len(All) + 1 /\ All' # <<>> /\ All'[Len(All) + 1] = r
          /\ (\A i \in 1 .. Len(All) : All'[i] = All[i])
          /\ All' \in Seq(Records)
  <2> DEFINE a == Append(All, r)
  <2>1. Len(a) = Len(All) + 1 /\ a # <<>> /\ a[Len(All) + 1] = r
          /\ (\A i \in 1 .. Len(All) : a[i] = All[i]) /\ a \in Seq(Records)
    BY <1>1, <1>3, AppendProperties
  <2> HIDE DEF a
  <2>2. All' = a
    BY <1>5 DEF a
  <2>3. QED
    BY <2>1, <2>2
<1>13. EventsOf(All') = EventsOf(All) \cup {e}
  BY <1>1, <1>3, <1>5, EventsOfAppend
<1>14. OldOrNew
  <2>1. ASSUME NEW i \in DOMAIN All'
        PROVE  (i \in DOMAIN All /\ All'[i] = All[i]) \/ All'[i] = r
    <3>1. i \in 1 .. Len(All) + 1 /\ Len(All) \in Nat
      BY <1>1, <1>12, LenProperties
    <3>2. i \in 1 .. Len(All) \/ i = Len(All) + 1
      BY <3>1
    <3>3. QED
      BY <1>1, <1>12, <3>2, LenProperties
  <2>2. QED
    BY <1>3, <1>7, <2>1 DEF OldOrNew
<1>15. Remembered'
  BY <1>1, <1>2, <1>8, <1>9, <1>14, RememberedKept DEF SoundInv
<1>16. \A f \in Events : Ongoing(f)' => Ongoing(f)
  BY <1>8, <1>9, OngoingKept
<1>17. EventsOf(All) \subseteq Events
  BY <1>1, DayOf DEF EventsOf, Records, Messages
<1>18. SeenOK'
  <2>1. seen \subseteq EventsOf(All) /\ \A f \in EventsOf(All) : Ongoing(f) => f \in seen
    BY <1>2, <1>4 DEF SoundInv, SeenOK
  <2>2. CASE TakeBestEffort
    <3>1. (disk \o be_buffer)' = All' /\ seen' = seen \cup {e} /\ pc' = "idle"
      BY <1>2, <1>3, <1>4, <1>5, <2>2 DEF TakeBestEffort, Chained, r
    <3>2. QED
      BY <1>3, <1>13, <1>16, <1>17, <2>1, <3>1 DEF SeenOK
  <2>3. CASE TakeDurable
    <3>1. (disk \o be_buffer)' = All /\ seen' = seen /\ pc' = "write"
      BY <1>2, <1>4, <2>3 DEF TakeDurable
    <3>2. QED
      BY <1>16, <1>17, <2>1, <3>1 DEF SeenOK
  <2>4. QED
    BY <2>2, <2>3
<1>19. EventsOf(disk) \subseteq EventsOf(disk')
  <2>1. Carry = disk \/ Carry = disk \o be_buffer
    BY <1>1 DEF Carry
  <2>2. QED
    BY <1>1, <1>2, <2>1
<1>20. DurableOK'
  <2>1. Carried \in Seq(Records) /\ \A i \in DOMAIN Carried : Carried[i].id[1] \notin Durable
    BY <1>1, CarryType DEF Carried, SoundInv, DurableOK
  <2>2. \A i \in DOMAIN be_buffer' : be_buffer'[i].id[1] \notin Durable
    <3>1. CASE TakeBestEffort
      <4>1. be_buffer' = Append(Carried, r) /\ e \notin Durable
        BY <3>1 DEF TakeBestEffort, r, e
      <4>2. \A i \in DOMAIN be_buffer' :
              (i \in DOMAIN Carried /\ be_buffer'[i] = Carried[i]) \/ be_buffer'[i] = r
        BY <1>3, <2>1, <4>1, AppendProperties, LenProperties
      <4>3. QED
        BY <1>3, <2>1, <4>1, <4>2
    <3>2. CASE TakeDurable
      BY <2>1, <3>2 DEF TakeDurable
    <3>3. QED
      BY <3>1, <3>2
  <2>3. pc' # "ack"
    BY <1>2 DEF TakeBestEffort, TakeDurable
  <2>4. QED
    BY <1>8, <1>19, <2>2, <2>3 DEF SoundInv, DurableOK
<1>21. pc' \in {"idle", "ack"} => Anchors(prev_hash, All, today)'
  <2>1. pc' \in {"idle", "ack"} => prev_hash' = r.id
    BY <1>2, <1>3 DEF TakeBestEffort, TakeDurable, Chained, r
  <2>2. QED
    BY <1>12, <2>1 DEF Anchors
<1>22. QED
  BY <1>2, <1>10, <1>11, <1>15, <1>18, <1>20, <1>21 DEF SoundInv

\* A stop or a crash: the files get a prefix of what they are owed.
LEMMA DeathSound ==
  ASSUME FaultyInv, SoundInv, Stop \/ \E n \in 0 .. Len(Owed) : Crash(n)
  PROVE  SoundInv'
<1>1. /\ TypeInv /\ TypeOK /\ CallsOK(cl) /\ disk \in Seq(Records) /\ Owed \in Seq(Records)
      /\ All \in Seq(Records) /\ All = disk \o Owed
      /\ \A s : AppendLines(disk, s) = disk \o s
  BY Plain DEF FaultyInv, TypeInv, SoundInv, All
<1>2. /\ pc' = "down" /\ be_buffer' = <<>> /\ queue' = <<>> /\ seen' = {}
      /\ today' = today /\ rep' = rep /\ Owed' = <<>>
  BY DEF Stop, Crash, Down, Owed, repair
<1>3. \E n \in 0 .. Len(Owed) : disk' = disk \o SubSeq(Owed, 1, n)
  <2>1. CASE Stop
    <3>1. disk' = disk \o Owed
      BY <1>1, <2>1, OwedType DEF Stop
    <3>2. SubSeq(Owed, 1, Len(Owed)) = Owed /\ Len(Owed) \in 0 .. Len(Owed)
      BY <1>1, SubSeqFull, LenProperties
    <3>3. QED
      BY <3>1, <3>2
  <2>2. CASE \E n \in 0 .. Len(Owed) : Crash(n)
    BY <1>1, <2>2 DEF Crash
  <2>3. QED
    BY <2>1, <2>2
<1>4. PICK n \in 0 .. Len(Owed) : disk' = disk \o SubSeq(Owed, 1, n)
  BY <1>3
<1> DEFINE m == Len(disk) + n
           p == SubSeq(All, 1, m)
<1>5. SubSeq(Owed, 1, n) \in Seq(Records) /\ disk' = p
  BY <1>1, <1>4, OwedInPart
<1>6. m \in 0 .. Len(All)
  BY <1>1, <1>4, ConcatProperties, LenProperties
<1> HIDE DEF m
<1>7. /\ p \in Seq(Records) /\ Len(p) = m /\ (\A i \in 1 .. m : p[i] = All[i])
      /\ Chain(p) /\ Distinct(p)
  BY <1>1, <1>6, PrefixLinks, ChainPrefix, DistinctPrefix DEF SoundInv
<1> HIDE DEF p
<1>8. All' = p /\ (disk \o be_buffer)' = p
  BY <1>2, <1>5, <1>7, ConcatEmptySeq DEF All
<1>9. Settles(cl, cl') /\ \A f \in Events : cl'[f].st = "ok" => cl[f].st = "ok"
  BY <1>1, ResetMoves, BereftMoves DEF Stop, Crash
<1>10. Drains
  BY <1>2 DEF Drains
<1>11. OldOrNew
  <2>1. \A i \in DOMAIN p : i \in DOMAIN All /\ p[i] = All[i]
    <3>1. DOMAIN p = 1 .. m /\ DOMAIN All = 1 .. Len(All) /\ Len(All) \in Nat
      BY <1>1, <1>7, LenProperties
    <3>2. \A i \in 1 .. m : i \in 1 .. Len(All)
      BY <1>6, <3>1
    <3>3. QED
      BY <1>7, <3>1, <3>2
  <2>2. QED
    BY <1>8, <2>1 DEF OldOrNew
<1>12. Remembered'
  BY <1>1, <1>2, <1>9, <1>10, <1>11, RememberedKept DEF SoundInv
<1>13. SeenOK'
  BY <1>2 DEF SeenOK
<1>14. EventsOf(disk) \subseteq EventsOf(disk')
  BY <1>1, <1>4, <1>5, EventsOfConcat
<1>15. DurableOK'
  <2>1. \A f \in Durable : cl'[f].st = "ok" => cl[f].st = "ok"
    BY <1>9, AuditAssumption
  <2>2. QED
    BY <1>2, <1>14, <2>1 DEF SoundInv, DurableOK
<1>16. Chain(All)' /\ Distinct(All)'
  BY <1>7, <1>8 DEF Chain, Distinct
<1>17. QED
  BY <1>2, <1>12, <1>13, <1>15, <1>16 DEF SoundInv

\* Midnight: what may still arrive was logged the day before at the earliest.
LEMMA MidnightSound ==
  ASSUME FaultyInv, SoundInv, Midnight
  PROVE  SoundInv'
<1>1. /\ All' = All /\ disk' = disk /\ be_buffer' = be_buffer /\ pc' = pc /\ cur' = cur
      /\ prev_hash' = prev_hash /\ seen' = seen /\ today' = today + 1 /\ rep' = rep
      /\ queue' = queue
      /\ \A e \in Events : Ongoing(e) => ~cl[e].late
  BY DEF All, Owed, Midnight, writer, repair
<1>2. \A e \in Events : cl'[e].st = cl[e].st /\ (cl'[e].late <=> Ongoing(e))
  BY MidnightMoves DEF FaultyInv
<1>3. today \in Nat /\ All \in Seq(Records) /\ EventsOf(All) \subseteq Events
         /\ EventsOf(disk \o be_buffer) \subseteq EventsOf(All)
  <2>1. today \in Nat
    BY AuditAssumption DEF FaultyInv, TypeInv, TypeOK
  <2>2. All \in Seq(Records) /\ EventsOf(disk \o be_buffer) \subseteq EventsOf(All)
    BY Plain DEF SoundInv
  <2>3. EventsOf(All) \subseteq Events
    BY <2>2, DayOf DEF EventsOf, Records, Messages
  <2>4. QED
    BY <2>1, <2>2, <2>3
<1>4. \A e \in Events : Ongoing(e)' <=> Ongoing(e)
  BY <1>1, <1>2 DEF Ongoing
<1>5. Remembered'
  <2>1. ASSUME NEW e \in Events, NEW i \in DOMAIN All, Ongoing(e)', All[i].id[1] = e
        PROVE  (today + 1) - 1 <= All[i].day /\ (~cl'[e].late => All[i].day = today + 1)
    <3>1. Ongoing(e) /\ ~cl[e].late /\ cl'[e].late
      BY <1>1, <1>2, <1>4, <2>1
    <3>2. All[i].day = today
      BY <2>1, <3>1 DEF SoundInv, Remembered
    <3>3. QED
      BY <1>3, <3>1, <3>2
  <2>2. QED
    BY <1>1, <1>2, <2>1 DEF SoundInv, Remembered, EventsOf
<1>6. SeenOK'
  BY <1>1, <1>3, <1>4, ZenonT(40) DEF SoundInv, SeenOK, EventsOf
<1>7. DurableOK'
  <2>1. \A f \in Durable : cl'[f].st = cl[f].st
    BY <1>2, AuditAssumption
  <2>2. QED
    BY <1>1, <2>1 DEF SoundInv, DurableOK, EventsOf
<1>8. Anchors(prev_hash, All, today) => Anchors(prev_hash, All, today)'
  <2>1. All # <<>> => All[Len(All)].day \in Nat
    <3>1. All # <<>> => Len(All) \in DOMAIN All
      BY <1>3, EmptySeq, LenProperties
    <3>2. QED
      BY <1>3, <3>1, DayOf
  <2>2. All # <<>> /\ All[Len(All)].day < today => All[Len(All)].day < today + 1
    BY <1>3, <2>1
  <2>3. QED
    BY <1>1, <2>2 DEF Anchors
<1>9. Chain(All)' /\ Distinct(All)'
  BY <1>1 DEF SoundInv, Chain, Distinct, Links, Whole, SegmentStart
<1>10. QED
  BY <1>1, <1>5, <1>6, <1>7, <1>8, <1>9 DEF SoundInv

\* Every step without a fault.
LEMMA SoundStep ==
  ASSUME FaultyInv, faults = 0 => SoundInv, [Next]_vars, faults' = 0
  PROVE  SoundInv'
<1>1. faults \in Nat
  BY DEF FaultyInv, TypeInv, TypeOK
<1>2. CASE faults' = faults
  <2>1. SoundInv /\ faults = 0
    BY <1>2
  <2>2. ~RepairPlan /\ ~RepairCopy /\ ~RepairCut /\ ~RepairRemove /\ ~RepairAbort
    <3>1. rep.pc = "none"
      BY <2>1 DEF SoundInv
    <3>2. Classify(disk) # "broken_tail"
      <4>1. disk \in Seq(Records) /\ Chain(disk)
        BY <2>1, Plain DEF SoundInv
      <4>2. QED
        BY <4>1, ChainIsValid
    <3>3. QED
      BY <3>1, <3>2 DEF RepairPlan, RepairCopy, RepairCut, RepairRemove, RepairAbort
  <2>3. ~SyncFails /\ \A n \in 0 .. Len(Owed) - 1 : ~CrashTorn(n)
    BY <1>1, <1>2 DEF SyncFails, CrashTorn
  <2>4. CASE UNCHANGED vars
    <3>1. /\ All' = All /\ disk' = disk /\ be_buffer' = be_buffer /\ pc' = pc /\ cur' = cur
          /\ prev_hash' = prev_hash /\ seen' = seen /\ today' = today /\ rep' = rep
          /\ queue' = queue /\ cl' = cl
      BY <2>4 DEF vars, All, Owed, writer, repair
    <3>2. Chain(All)' /\ Distinct(All)' /\ (Anchors(prev_hash, All, today)' <=> Anchors(prev_hash, All, today))
      BY <2>1, <3>1 DEF SoundInv, Chain, Distinct, Links, Whole, SegmentStart, Anchors
    <3>3. Remembered' /\ SeenOK' /\ DurableOK'
      BY <2>1, <3>1 DEF SoundInv, Remembered, SeenOK, DurableOK, Ongoing, EventsOf
    <3>4. QED
      BY <2>1, <3>1, <3>2, <3>3 DEF SoundInv
  <2>5. QED
    BY <2>1, <2>2, <2>3, <2>4, ClientSound, StartSound, QuietSound, TakenSound, DeathSound,
       MidnightSound DEF Next
<1>3. CASE faults' # faults
  <2>1. faults' = faults + 1
    BY <1>3 DEF Next, vars, Connect, Timeout, Start, TakeDuplicate, TakeBestEffort,
       TakeDurable, WriteDurable, Ack, Flush, Stop, Crash, CrashTorn, SyncFails, Midnight,
       RepairPlan, RepairCopy, RepairCut, RepairRemove, RepairAbort
  <2>2. QED
    BY <1>1, <2>1
<1>4. QED
  BY <1>2, <1>3

\* The invariant without a fault holds at first.
LEMMA InitSound == Init => SoundInv
<1> SUFFICES ASSUME Init PROVE SoundInv
  OBVIOUS
<1>1. disk = <<>> /\ be_buffer = <<>> /\ queue = <<>> /\ pc = "down" /\ seen = {} /\ rep.pc = "none"
  BY DEF Init, NoRepair
<1>2. All = <<>> /\ disk \o be_buffer = <<>>
  BY <1>1 DEF All, Owed
<1>3. \A e \in Events : cl[e].st = "new"
  BY DEF Init
<1>4. Chain(All) /\ Distinct(All) /\ Remembered /\ SeenOK
  BY <1>1, <1>2, <1>3 DEF Chain, Distinct, Remembered, SeenOK, EventsOf
<1>5. DurableOK
  BY <1>1, <1>3, AuditAssumption DEF DurableOK
<1>6. QED
  BY <1>1, <1>4, <1>5 DEF SoundInv

\* The whole invariant.
LEMMA Audited == Spec => []AuditInv
<1>1. Init => AuditInv
  BY InitFaulty, InitSound DEF AuditInv
<1>2. AuditInv /\ [Next]_vars => AuditInv'
  BY FaultyStep, SoundStep DEF AuditInv
<1>3. QED
  BY <1>1, <1>2, PTL DEF Spec

\* Without a fault the files verify at every moment: deaths, restarts, midnights
\* and idle days leave no gap in the chain.
THEOREM AlwaysVerifies == Spec => []LogVerifies
<1>1. ASSUME AuditInv
      PROVE  LogVerifies
  <2>1. SUFFICES ASSUME SoundInv
                 PROVE  Classify(disk) \in {"empty", "valid"}
    BY <1>1 DEF AuditInv, LogVerifies
  <2>2. disk \in Seq(Records) /\ Chain(disk)
    BY <1>1, <2>1, Plain DEF AuditInv, SoundInv
  <2>3. QED
    BY <2>2, ChainIsValid
<1>2. QED
  BY <1>1, Audited, PTL

\* Without a fault a durable emit call that returned True is in the files, and no
\* event is in them twice.
THEOREM ExactlyOnce == Spec => []LoggedExactlyOnce
<1>1. ASSUME AuditInv
      PROVE  LoggedExactlyOnce
  <2>1. SUFFICES ASSUME SoundInv
                 PROVE  /\ \A e \in Durable : cl[e].st = "ok" => e \in LoggedEvents(disk)
                        /\ Cardinality(Readable(disk)) = Cardinality(LoggedEvents(disk))
    BY <1>1 DEF AuditInv, LoggedExactlyOnce
  <2>2. disk \in Seq(Records) /\ Chain(disk) /\ FaultyInv
    BY <1>1, <2>1, Plain DEF AuditInv, SoundInv
  <2>3. Readable(disk) = {disk[i].id : i \in DOMAIN disk}
    BY <2>2 DEF Readable, Chain, Links
  <2>4. LoggedEvents(disk) = EventsOf(disk)
    BY <2>3 DEF LoggedEvents, EventsOf
  <2>5. \A i, j \in DOMAIN disk : disk[i].id[1] = disk[j].id[1] => i = j
    <3>1. Owed \in Seq(Records)
      BY <2>2, OwedType DEF FaultyInv, TypeInv
    <3>2. \A i \in DOMAIN disk : i \in DOMAIN All /\ All[i] = disk[i]
      BY <2>2, <3>1, ConcatProperties, LenProperties DEF All
    <3>3. QED
      BY <2>1, <3>2 DEF SoundInv, Distinct
  <2>6. IsFiniteSet(Readable(disk))
    <3>1. IsFiniteSet(1 .. Len(disk))
      BY <2>2, FS_Interval, LenProperties
    <3> DEFINE g == [i \in 1 .. Len(disk) |-> disk[i].id]
    <3>2. Readable(disk) = {disk[i].id : i \in 1 .. Len(disk)}
      BY <2>2, <2>3, LenProperties
    <3>3. g \in Surjection(1 .. Len(disk), Readable(disk))
      BY <3>2 DEF Surjection
    <3>4. QED
      BY <3>1, <3>3, FS_Surjection
  <2>7. Cardinality(Readable(disk)) = Cardinality(LoggedEvents(disk))
    <3> DEFINE A == Readable(disk)
               B == LoggedEvents(disk)
               f == [m \in A |-> m[1]]
    <3>1. B = {m[1] : m \in A}
      BY DEF LoggedEvents
    <3>2. \A m, o \in A : m[1] = o[1] => m = o
      BY <2>3, <2>5
    <3> HIDE DEF A, B
    <3>3. f \in Bijection(A, B)
      BY <3>1, <3>2 DEF Bijection, Injection, Surjection, IsInjective
    <3>4. ExistsBijection(A, B)
      BY <3>3 DEF ExistsBijection
    <3>5. QED
      BY <2>6, <3>4, FS_Bijection DEF A, B
  <2>8. QED
    BY <2>1, <2>4, <2>7 DEF SoundInv, DurableOK
<1>2. QED
  BY <1>1, Audited, PTL
=============================================================================
