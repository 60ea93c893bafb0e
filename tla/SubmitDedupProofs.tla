-------------------------- MODULE SubmitDedupProofs --------------------------
(***************************************************************************)
(* One source event is one job, for ever: proofs over any number of        *)
(* submissions, processes, crashes and failing emits.                      *)
(*                                                                         *)
(* OneJobPerEvent is not inductive: it does not say which submission may   *)
(* still store a job.  IdentInv adds the mapping: whoever is about to emit *)
(* for an event, and whoever has stored a job of it, is the job the        *)
(* srcevent: row names, and a submission that is not answered yet has      *)
(* stored nothing.  That no failure poisons an event needs one fact more:  *)
(* a mapping names a job that is stored, a submission that still emits, or *)
(* one whose answer was lost with its process, for good.                   *)
(***************************************************************************)
EXTENDS SubmitDedup, TLAPS

\* The submission names a source event.
Evented(j) == sub[j].event # None

\* A submission that has not been answered, or not arrived, stored nothing.
Unstored ==
  \A r \in Submits : sub[r].pc \in {"new", "wait", "emit"} =>
    row[r] = "absent" /\ \A p \in Processes : mem[p][r] = "absent"

\* An event and a client key exclude each other, so nobody's INSERT OR REPLACE
\* deletes the row of a job with an event.
Keyless == \A r \in Submits : Evented(r) => sub[r].key = None

\* A submission that has not arrived names no event.
Arrived == \A r \in Submits : sub[r].pc = "new" => ~Evented(r)

\* A job with an event is in the table as soon as it is in any memory.
RowFirst ==
  \A j \in Submits : Evented(j) =>
    \A p \in Processes : mem[p][j] # "absent" => row[j] # "absent"

\* Whoever emits for an event, or has stored a job of it, is the job it maps to.
Mapped ==
  \A j \in Submits :
    Evented(j) /\ (row[j] # "absent" \/ sub[j].pc = "emit") =>
      srcRow[sub[j].event].job = j

\* A mapping carries the event and the intent of its submission.
RecordOK ==
  \A e \in Events : srcRow[e] # NoRecord =>
    /\ srcRow[e].job \in Submits
    /\ sub[srcRow[e].job].event = e
    /\ sub[srcRow[e].job].intent = srcRow[e].intent

\* So does the job a poll waits for.
PollOK ==
  \A r \in Submits : sub[r].pc = "poll" =>
    /\ sub[r].job \in Submits
    /\ Evented(r)
    /\ sub[sub[r].job].event = sub[r].event
    /\ sub[sub[r].job].intent = sub[r].intent

\* A submission that waits for the lock has an event and an intent.
Waiting ==
  \A r \in Submits : sub[r].pc = "wait" => sub[r].event \in Events /\ sub[r].intent \in Intents

\* IdentInv names who may store a job of an event, and who has.
IdentInv == Unstored /\ Keyless /\ Arrived /\ RowFirst /\ Mapped /\ RecordOK /\ PollOK /\ Waiting

Inv == TypeOK /\ IdentInv

-----------------------------------------------------------------------------
(* Types                                                                   *)

\* The empty store satisfies the invariant.
LEMMA InitDedup == Init => Inv
  BY DedupAssumption
     DEF Init, Inv, TypeOK, IdentInv, Unstored, Keyless, Arrived, RowFirst, Mapped, RecordOK,
         PollOK, Waiting, Evented, Submission, FreshSubmission, SubmitPc, Reply, Record, NoRecord,
         Jobs, Status

\* A submission that is answered.
LEMMA FinishType ==
  ASSUME TypeOK, NEW r \in Submits, NEW reply \in Reply, NEW j \in Jobs \cup {None},
         Finish(r, reply, j)
  PROVE  sub' \in [Submits -> Submission]
  <1>1. sub[r] \in Submission /\ "done" \in SubmitPc
    BY DEF TypeOK, SubmitPc
  <1>2. [sub[r] EXCEPT !.pc = "done", !.reply = reply, !.job = j] \in Submission
    BY <1>1 DEF Submission
  <1> QED BY <1>2 DEF TypeOK, Finish

\* A submission that moves on.
LEMMA GotoType ==
  ASSUME TypeOK, NEW r \in Submits, NEW pc \in SubmitPc, Goto(r, pc)
  PROVE  sub' \in [Submits -> Submission]
  <1>1. sub[r] \in Submission
    BY DEF TypeOK
  <1>2. [sub[r] EXCEPT !.pc = pc] \in Submission
    BY <1>1 DEF Submission
  <1> QED BY <1>2 DEF TypeOK, Goto

\* A write to the jobs table.
LEMMA PersistType ==
  ASSUME TypeOK, NEW j \in Jobs, NEW s \in Status, Persist(j, s)
  PROVE  row' \in [Jobs -> Status]
  BY DEF TypeOK, Persist, Status

\* A write to the memory of a process.
LEMMA RememberType ==
  ASSUME TypeOK, NEW p \in Processes, NEW j \in Jobs, NEW s \in Status, Remember(p, j, s)
  PROVE  mem' \in [Processes -> [Jobs -> Status]]
  BY DEF TypeOK, Remember

\* A mapping that is given back, or kept.
LEMMA ReleaseType ==
  ASSUME TypeOK, NEW r \in Submits, sub[r].proc \in Processes, Release(r)
  PROVE  /\ src' \in [Processes -> [Events -> Record]]
         /\ srcRow' \in [Events -> Record]
  <1>1. NoRecord \in Record
    BY DEF Record
  <1>2. sub[r].event \in Events \cup {None}
    BY DEF TypeOK, Submission
  <1>3. CASE sub[r].event # None /\ NeverStored(sub[r].proc, r)
    <2> DEFINE p == sub[r].proc
               e == sub[r].event
               mine == IF src[p][e].job = r THEN NoRecord ELSE src[p][e]
               mineRow == IF srcRow[e].job = r THEN NoRecord ELSE srcRow[e]
    <2>1. p \in Processes /\ e \in Events
      BY <1>2, <1>3
    <2>2. mine \in Record /\ mineRow \in Record
      BY <1>1, <2>1 DEF TypeOK
    <2>3. src' = [src EXCEPT ![p][e] = mine] /\ srcRow' = [srcRow EXCEPT ![e] = mineRow]
      BY <1>3 DEF Release
    <2> HIDE DEF p, e, mine, mineRow
    <2> QED BY <2>1, <2>2, <2>3 DEF TypeOK
  <1>4. CASE ~(sub[r].event # None /\ NeverStored(sub[r].proc, r))
    BY <1>4 DEF TypeOK, Release
  <1> QED BY <1>3, <1>4

\* An emit that raises.
LEMMA EmitFailsType ==
  ASSUME TypeOK, NEW r \in Submits,
         NEW kind \in {"submitted", "source_event_conflict"}, EmitFails(kind, r)
  PROVE  /\ trail' \subseteq {"submitted", "source_event_conflict"} \X Submits
         /\ failures' \in Nat
  BY DEF TypeOK, EmitFails

\* A handler that runs has a process.
LEMMA RunningProcess ==
  ASSUME TypeOK, NEW r \in Submits, Running(r)
  PROVE  sub[r].proc \in Processes /\ sub[r].job \in Jobs \cup {None}
  BY DEF TypeOK, Running, Submission

\* A POST that enters its handler keeps the types.
LEMMA ArriveType == ASSUME TypeOK, NEW r \in Submits, Arrive(r) PROVE TypeOK'
  <1>1. ASSUME NEW p \in Processes, NEW k \in Keys, SubmitWithKey(r, p, k) PROVE TypeOK'
    <2>1. idem[p][k] \in Jobs \cup {None}
      BY DEF TypeOK
    <2>2. sub' \in [Submits -> Submission]
      BY <1>1, <2>1, DedupAssumption
         DEF SubmitWithKey, TypeOK, Submission, FreshSubmission, SubmitPc, Reply, Jobs
    <2>3. /\ idem' \in [Processes -> [Keys -> Jobs \cup {None}]]
          /\ idemRow' \in [Keys -> Jobs \cup {None}]
      <3>1. r \in Jobs \cup {None}
        BY DEF Jobs
      <3>2. CASE idem[p][k] = None
        <4>1. idem' = [idem EXCEPT ![p][k] = r] /\ idemRow' = [idemRow EXCEPT ![k] = r]
          BY <1>1, <3>2 DEF SubmitWithKey
        <4>2. /\ idem \in [Processes -> [Keys -> Jobs \cup {None}]]
              /\ idemRow \in [Keys -> Jobs \cup {None}]
          BY DEF TypeOK
        <4> QED BY <3>1, <4>1, <4>2
      <3>3. CASE idem[p][k] # None
        BY <1>1, <3>3 DEF SubmitWithKey, TypeOK
      <3> QED BY <3>2, <3>3
    <2> QED BY <1>1, <2>2, <2>3 DEF SubmitWithKey, TypeOK
  <1>2. ASSUME NEW p \in Processes, NEW e \in Events, NEW i \in Intents,
               SubmitSourceEvent(r, p, e, i)
        PROVE  TypeOK'
    <2>1. sub' \in [Submits -> Submission]
      BY <1>2 DEF SubmitSourceEvent, TypeOK, Submission, FreshSubmission, SubmitPc, Reply
    <2> QED BY <1>2, <2>1 DEF SubmitSourceEvent, TypeOK, store
  <1> QED BY <1>1, <1>2 DEF Arrive

\* Every stretch of the handler between two awaits keeps them.
LEMMA HandleType == ASSUME TypeOK, Waiting, NEW r \in Submits, Handle(r) PROVE TypeOK'
  <1>1. CASE Reserve(r)
    <2>1. sub' \in [Submits -> Submission]
      BY <1>1, GotoType DEF Reserve, SubmitPc
    <2>2. /\ sub[r].intent \in Intents /\ sub[r].event \in Events
          /\ sub[r].proc \in Processes
      BY <1>1, RunningProcess DEF Reserve, Waiting
    <2>3. [job |-> r, intent |-> sub[r].intent] \in Record
      BY <2>2 DEF Record, Jobs
    <2> QED BY <1>1, <2>1, <2>2, <2>3 DEF Reserve, TypeOK
  <1>2. CASE FindReserved(r)
    <2> DEFINE known == srcRow[sub[r].event]
               next == IF ~SameIntent(known, sub[r].intent) THEN "conflict"
                       ELSE IF JobLoadable(sub[r].proc, known.job) THEN "done" ELSE "poll"
    <2>1. sub[r] \in Submission /\ sub[r].event \in Events /\ sub[r].proc \in Processes
      BY <1>2, RunningProcess DEF FindReserved, Waiting, TypeOK
    <2>2. known \in Record /\ known.job \in Jobs \cup {None}
      BY <2>1 DEF TypeOK, Record, NoRecord
    <2>3. next \in SubmitPc /\ (IF next = "done" THEN "accepted" ELSE None) \in Reply
      BY DEF SubmitPc, Reply
    <2>4. src' = [src EXCEPT ![sub[r].proc][sub[r].event] = known]
      BY <1>2 DEF FindReserved
    <2>5. sub' = [sub EXCEPT ![r] = [@ EXCEPT !.pc = next, !.job = known.job,
                     !.reply = IF next = "done" THEN "accepted" ELSE None]]
      BY <1>2 DEF FindReserved
    <2> HIDE DEF known, next
    <2>6. [sub[r] EXCEPT !.pc = next, !.job = known.job,
                     !.reply = IF next = "done" THEN "accepted" ELSE None] \in Submission
      BY <2>1, <2>2, <2>3 DEF Submission
    <2>7. sub' \in [Submits -> Submission]
      BY <2>5, <2>6 DEF TypeOK
    <2>8. src' \in [Processes -> [Events -> Record]]
      BY <2>1, <2>2, <2>4 DEF TypeOK
    <2> QED BY <1>2, <2>7, <2>8 DEF FindReserved, TypeOK
  <1>3. CASE Poll(r)
    <2>1. sub' \in [Submits -> Submission]
      BY <1>3, RunningProcess, FinishType DEF Poll, Reply
    <2> QED BY <1>3, <2>1 DEF Poll, TypeOK, store
  <1>4. CASE ConflictEmitted(r)
    <2>1. sub' \in [Submits -> Submission]
      BY <1>4, RunningProcess, FinishType DEF ConflictEmitted, Reply
    <2> QED BY <1>4, <2>1 DEF ConflictEmitted, TypeOK, store
  <1>5. CASE ConflictRaises(r)
    <2>1. sub' \in [Submits -> Submission]
      BY <1>5, FinishType DEF ConflictRaises, Reply
    <2> QED BY <1>5, <2>1, EmitFailsType DEF ConflictRaises, TypeOK, store
  <1>6. CASE Accept(r)
    <2>1. sub' \in [Submits -> Submission]
      BY <1>6, FinishType DEF Accept, Reply, Jobs
    <2>2. row' \in [Jobs -> Status] /\ mem' \in [Processes -> [Jobs -> Status]]
      BY <1>6, RunningProcess, PersistType, RememberType DEF Accept, Status, Jobs
    <2> QED BY <1>6, <2>1, <2>2 DEF Accept, TypeOK, store
  <1>7. CASE AcceptQueueFull(r)
    <2>1. sub' \in [Submits -> Submission]
      BY <1>7, FinishType DEF AcceptQueueFull, Reply
    <2>2. row' \in [Jobs -> Status] /\ mem' \in [Processes -> [Jobs -> Status]]
      BY <1>7, RunningProcess, PersistType, RememberType DEF AcceptQueueFull, Status, Jobs
    <2>3. src' \in [Processes -> [Events -> Record]] /\ srcRow' \in [Events -> Record]
      BY <1>7, RunningProcess, ReleaseType DEF AcceptQueueFull
    <2> QED BY <1>7, <2>1, <2>2, <2>3 DEF AcceptQueueFull, TypeOK
  <1>8. CASE SubmitRaises(r)
    <2>1. sub' \in [Submits -> Submission]
      BY <1>8, FinishType DEF SubmitRaises, Reply
    <2>2. src' \in [Processes -> [Events -> Record]] /\ srcRow' \in [Events -> Record]
      BY <1>8, RunningProcess, ReleaseType DEF SubmitRaises
    <2> QED BY <1>8, <2>1, <2>2, EmitFailsType DEF SubmitRaises, TypeOK
  <1> QED BY <1>1, <1>2, <1>3, <1>4, <1>5, <1>6, <1>7, <1>8 DEF Handle

\* So does a job that advances,
LEMMA ProgressType ==
  ASSUME TypeOK, NEW p \in Processes, NEW j \in Jobs, NEW s \in Status, Progress(p, j, s)
  PROVE  TypeOK'
  <1>1. row' \in [Jobs -> Status] /\ mem' \in [Processes -> [Jobs -> Status]]
    BY PersistType, RememberType DEF Progress
  <1> QED BY <1>1 DEF Progress, TypeOK, store

\* a process that dies,
LEMMA CrashType == ASSUME TypeOK, NEW p \in Processes, Crash(p) PROVE TypeOK'
  <1>1. \A r \in Submits : [sub[r] EXCEPT !.pc = "done", !.reply = "lost"] \in Submission
    <2>1. TAKE r \in Submits
    <2>2. sub[r] \in Submission /\ "done" \in SubmitPc /\ "lost" \in Reply
      BY DEF TypeOK, SubmitPc, Reply
    <2> QED BY <2>2 DEF Submission
  <1>2. sub' \in [Submits -> Submission]
    BY <1>1 DEF Crash, TypeOK
  <1>3. \A e \in Events : NoRecord \in Record
    BY DEF Record
  <1>4. src' \in [Processes -> [Events -> Record]]
    BY <1>3 DEF Crash, TypeOK
  <1>5. mem' \in [Processes -> [Jobs -> Status]] /\ idem' \in [Processes -> [Keys -> Jobs \cup {None}]]
    BY DEF Crash, TypeOK, Status
  <1>6. up' \subseteq Processes
    BY DEF Crash, TypeOK
  <1>8. crashes' \in Nat
    <2>1. crashes' = crashes + 1 /\ crashes \in Nat
      BY DEF Crash, TypeOK
    <2> QED BY <2>1
  <1>7. UNCHANGED <<idemRow, srcRow, row, trail, failures>>
    BY DEF Crash
  <1> QED BY <1>2, <1>4, <1>5, <1>6, <1>7, <1>8 DEF TypeOK

\* and one that starts.
LEMMA BootType == ASSUME TypeOK, NEW p \in Processes, Boot(p) PROVE TypeOK'
  <1>1. idemRow' \in [Keys -> Jobs \cup {None}]
    BY DEF Boot, TypeOK
  <1>2. srcRow' = srcRow
    BY DEF Boot, TypeOK, PurgedEvent
  <1>3. idem' \in [Processes -> [Keys -> Jobs \cup {None}]]
    BY <1>1 DEF Boot, TypeOK
  <1>4. src' \in [Processes -> [Events -> Record]]
    BY <1>2 DEF Boot, TypeOK
  <1>5. mem' \in [Processes -> [Jobs -> Status]]
    BY DEF Boot, TypeOK, Status
  <1> QED BY <1>1, <1>2, <1>3, <1>4, <1>5 DEF Boot, TypeOK

\* Every step keeps the types of the state.
LEMMA NextType == ASSUME Inv, [Next]_vars PROVE TypeOK'
  <1>1. TypeOK /\ Waiting
    BY DEF Inv, IdentInv
  <1>2. CASE \E r \in Submits : Arrive(r) \/ Handle(r)
    BY <1>1, <1>2, ArriveType, HandleType
  <1>3. CASE \E p \in Processes, j \in Jobs, s \in Status : Progress(p, j, s)
    BY <1>1, <1>3, ProgressType
  <1>4. CASE \E p \in Processes : Crash(p) \/ Boot(p)
    BY <1>1, <1>4, CrashType, BootType
  <1>5. CASE Quiescent \/ UNCHANGED vars
    BY <1>1, <1>5 DEF Quiescent, vars, TypeOK
  <1> QED BY <1>2, <1>3, <1>4, <1>5 DEF Next

-----------------------------------------------------------------------------
(* What a step does to the submissions and to the table.                   *)

\* The other submissions stand still, and this one keeps its arguments.
OthersSame(r) == \A s \in Submits \ {r} : sub'[s] = sub[s]

KeepsArgs(r) ==
  /\ sub'[r].event = sub[r].event /\ sub'[r].intent = sub[r].intent
  /\ sub'[r].key = sub[r].key /\ sub'[r].proc = sub[r].proc

\* An answer changes the reply, the job and the program point of one submission.
LEMMA FinishEffect ==
  ASSUME TypeOK, NEW r \in Submits, NEW reply, NEW j, Finish(r, reply, j)
  PROVE  /\ OthersSame(r) /\ KeepsArgs(r)
         /\ sub'[r].pc = "done" /\ sub'[r].reply = reply /\ sub'[r].job = j
  <1>1. sub[r] \in Submission /\ DOMAIN sub = Submits
    BY DEF TypeOK
  <1>2. sub'[r] = [sub[r] EXCEPT !.pc = "done", !.reply = reply, !.job = j]
    BY <1>1 DEF Finish
  <1>3. OthersSame(r)
    BY <1>1 DEF Finish, OthersSame
  <1> QED BY <1>1, <1>2, <1>3 DEF KeepsArgs, Submission

\* A move changes the program point of one submission.
LEMMA GotoEffect ==
  ASSUME TypeOK, NEW r \in Submits, NEW pc, Goto(r, pc)
  PROVE  /\ OthersSame(r) /\ KeepsArgs(r)
         /\ sub'[r].pc = pc /\ sub'[r].reply = sub[r].reply /\ sub'[r].job = sub[r].job
  <1>1. sub[r] \in Submission /\ DOMAIN sub = Submits
    BY DEF TypeOK
  <1>2. sub'[r] = [sub[r] EXCEPT !.pc = pc]
    BY <1>1 DEF Goto
  <1>3. OthersSame(r)
    BY <1>1 DEF Goto, OthersSame
  <1> QED BY <1>1, <1>2, <1>3 DEF KeepsArgs, Submission

\* A submission that loses the reservation takes the job of the winner, and
\* answers with it only if the intents agree and the job can be loaded.
LEMMA FindEffect ==
  ASSUME TypeOK, NEW r \in Submits, FindReserved(r)
  PROVE  LET known == srcRow[sub[r].event] IN
         /\ OthersSame(r) /\ KeepsArgs(r) /\ sub'[r].pc \in {"done", "conflict", "poll"}
         /\ sub'[r].job = known.job
         /\ sub'[r].pc = "poll" => SameIntent(known, sub[r].intent)
         /\ sub'[r].reply = "accepted" =>
              SameIntent(known, sub[r].intent) /\ JobLoadable(sub[r].proc, known.job)
  <1>1. sub[r] \in Submission /\ DOMAIN sub = Submits
    BY DEF TypeOK
  <1> QED BY <1>1, DedupAssumption DEF FindReserved, OthersSame, KeepsArgs, Submission

\* The row of a job with an event is deleted by nobody.
LEMMA PersistEffect ==
  ASSUME Inv, NEW j \in Jobs, NEW s \in Status, Persist(j, s)
  PROVE  /\ row'[j] = s
         /\ \A i \in Jobs \ {j} : row'[i] \in {"absent", row[i]}
         /\ \A i \in Jobs \ {j} : Evented(i) => row'[i] = row[i]
  BY DEF Inv, IdentInv, Keyless, Persist, Evented, Jobs

\* One entry of one memory changes.
LEMMA RememberEffect ==
  ASSUME TypeOK, NEW p \in Processes, NEW j \in Jobs, NEW s \in Status, Remember(p, j, s)
  PROVE  /\ mem'[p][j] = s
         /\ \A q \in Processes, i \in Jobs : q # p \/ i # j => mem'[q][i] = mem[q][i]
  BY DEF TypeOK, Remember

\* Release deletes no mapping but that of a job nobody has stored.
LEMMA ReleaseEffect ==
  ASSUME TypeOK, NEW r \in Submits, sub[r].proc \in Processes, Release(r)
  PROVE  /\ \A e \in Events : srcRow'[e] # srcRow[e] =>
              srcRow'[e] = NoRecord /\ srcRow[e].job = r
         /\ ~NeverStored(sub[r].proc, r) => srcRow' = srcRow
  <1>1. sub[r].event \in Events \cup {None}
    BY DEF TypeOK, Submission
  <1>2. CASE sub[r].event # None /\ NeverStored(sub[r].proc, r)
    <2> DEFINE e == sub[r].event
               mineRow == IF srcRow[e].job = r THEN NoRecord ELSE srcRow[e]
    <2>1. srcRow' = [srcRow EXCEPT ![e] = mineRow]
      BY <1>2 DEF Release
    <2>2. srcRow \in [Events -> Record]
      BY DEF TypeOK
    <2>3. \A d \in Events : srcRow'[d] = IF d = e THEN mineRow ELSE srcRow[d]
      BY <2>1, <2>2
    <2> QED BY <1>2, <2>3
  <1>3. CASE ~(sub[r].event # None /\ NeverStored(sub[r].proc, r))
    <2>1. srcRow' = srcRow
      BY <1>3 DEF Release
    <2> QED BY <2>1
  <1> QED BY <1>2, <1>3

-----------------------------------------------------------------------------
(* Who owns an event.                                                      *)

\* A submission that leaves its program point without having stored anything,
\* giving back at most its own mapping.
LEMMA Unchanging ==
  ASSUME Inv, NEW r \in Submits, OthersSame(r), KeepsArgs(r),
         sub[r].pc # "new", sub'[r].pc \in {"done", "conflict", "poll"},
         UNCHANGED <<mem, row>>,
         \A e \in Events : srcRow'[e] # srcRow[e] =>
            srcRow'[e] = NoRecord /\ srcRow[e].job = r,
         srcRow' # srcRow => sub[r].pc = "emit",
         sub'[r].pc = "poll" =>
           /\ sub'[r].job \in Submits
           /\ Evented(r)
           /\ sub[sub'[r].job].event = sub[r].event
           /\ sub[sub'[r].job].intent = sub[r].intent
  PROVE  IdentInv'
  <1> USE DEF Inv, IdentInv, OthersSame, KeepsArgs, Evented
  <1>1. \A s \in Submits : sub'[s].event = sub[s].event /\ sub'[s].intent = sub[s].intent
                           /\ sub'[s].key = sub[s].key
    OBVIOUS
  <1>2. Unstored' /\ Keyless' /\ Arrived' /\ RowFirst' /\ Waiting'
    BY <1>1 DEF Unstored, Keyless, Arrived, RowFirst, Waiting
  <1>3. RecordOK'
    BY <1>1 DEF RecordOK, NoRecord
  <1>4. PollOK'
    BY <1>1 DEF PollOK
  <1>5. Mapped'
    <2> SUFFICES ASSUME NEW j \in Submits, Evented(j)', row'[j] # "absent" \/ sub'[j].pc = "emit"
                 PROVE  srcRow'[sub'[j].event].job = j
      BY DEF Mapped
    <2>1. sub[j].event \in Events
      BY <1>1 DEF TypeOK, Submission
    <2>2. srcRow[sub[j].event].job = j
      BY <1>1 DEF Mapped
    <2>3. srcRow' # srcRow => j # r
      BY <1>1 DEF Unstored
    <2> QED BY <1>1, <2>1, <2>2, <2>3
  <1> QED BY <1>2, <1>3, <1>4, <1>5

\* A job that nobody has stored gets its row: its mapping is its own, and no
\* row of another job with an event is touched.
LEMMA Storing ==
  ASSUME Inv, NEW r \in Submits, sub[r].pc = "emit", Running(r), OthersSame(r), KeepsArgs(r),
         sub'[r].pc = "done", srcRow' = srcRow, NEW s \in Status \ {"absent"},
         Persist(r, s), Remember(sub[r].proc, r, s)
  PROVE  IdentInv'
  <1> USE DEF Inv, IdentInv, OthersSame, KeepsArgs, Evented
  <1>1. \A i \in Submits : sub'[i].event = sub[i].event /\ sub'[i].intent = sub[i].intent
                           /\ sub'[i].key = sub[i].key
    OBVIOUS
  <1>2. /\ row'[r] = s
        /\ \A i \in Submits \ {r} : row'[i] \in {"absent", row[i]}
        /\ \A i \in Submits \ {r} : Evented(i) => row'[i] = row[i]
    BY PersistEffect DEF Jobs
  <1>3. \A q \in Processes, i \in Submits : i # r => mem'[q][i] = mem[q][i]
    BY RunningProcess, RememberEffect DEF Jobs
  <1>4. Unstored'
    BY <1>2, <1>3 DEF Unstored
  <1>5. RowFirst'
    BY <1>1, <1>2, <1>3 DEF RowFirst
  <1>6. Keyless' /\ Arrived' /\ RecordOK' /\ PollOK' /\ Waiting'
    BY <1>1 DEF Keyless, Arrived, RecordOK, PollOK, Waiting
  <1>7. Mapped'
    BY <1>1, <1>2 DEF Mapped
  <1> QED BY <1>4, <1>5, <1>6, <1>7

\* A POST on its way in owns nothing yet.
LEMMA ArriveOwner == ASSUME Inv, NEW r \in Submits, Arrive(r) PROVE IdentInv'
  <1> USE DEF Inv, IdentInv, Evented
  <1>1. /\ sub[r].pc = "new" /\ UNCHANGED <<mem, row, srcRow>> /\ OthersSame(r)
        /\ sub'[r].pc \in {"done", "emit", "wait"}
        /\ sub'[r].pc = "wait" => sub'[r].event \in Events /\ sub'[r].intent \in Intents
        /\ sub'[r].pc = "emit" => sub'[r].event = None
        /\ sub'[r].event # None => sub'[r].key = None
    <2>1. DOMAIN sub = Submits
      BY DEF TypeOK
    <2>2. ASSUME NEW p \in Processes, NEW k \in Keys, SubmitWithKey(r, p, k)
          PROVE  /\ sub[r].pc = "new" /\ UNCHANGED <<mem, row, srcRow>> /\ OthersSame(r)
                 /\ sub'[r].pc \in {"done", "emit"} /\ sub'[r].event = None
      BY <2>1, <2>2 DEF SubmitWithKey, OthersSame, FreshSubmission
    <2>3. ASSUME NEW p \in Processes, NEW e \in Events, NEW i \in Intents,
                 SubmitSourceEvent(r, p, e, i)
          PROVE  /\ sub[r].pc = "new" /\ UNCHANGED <<mem, row, srcRow>> /\ OthersSame(r)
                 /\ sub'[r].pc = "wait" /\ sub'[r].event = e /\ sub'[r].intent = i
                 /\ sub'[r].key = None
      BY <2>1, <2>3 DEF SubmitSourceEvent, OthersSame, FreshSubmission, store
    <2> QED BY <2>2, <2>3 DEF Arrive
  <1>2. row[r] = "absent" /\ \A p \in Processes : mem[p][r] = "absent"
    BY <1>1 DEF Unstored
  <1>3. \A s \in Submits : Evented(s) => s # r
    BY <1>1 DEF Arrived
  <1>4. Unstored' /\ Keyless' /\ Arrived' /\ RowFirst' /\ Waiting'
    BY <1>1, <1>2 DEF OthersSame, Unstored, Keyless, Arrived, RowFirst, Waiting
  <1>5. Mapped'
    BY <1>1, <1>2 DEF OthersSame, Mapped
  <1>6. RecordOK'
    <2>1. ASSUME NEW e \in Events, srcRow[e] # NoRecord
          PROVE  srcRow[e].job \in Submits \ {r}
      BY <1>3, <2>1, DedupAssumption DEF RecordOK
    <2> QED BY <1>1, <2>1 DEF OthersSame, RecordOK
  <1>7. PollOK'
    <2>1. ASSUME NEW s \in Submits, sub[s].pc = "poll"
          PROVE  sub[s].job \in Submits \ {r} /\ s # r
      BY <1>1, <1>3, <2>1 DEF PollOK
    <2> QED BY <1>1, <2>1 DEF OthersSame, PollOK
  <1> QED BY <1>4, <1>5, <1>6, <1>7

\* The winner of the reservation owns the event until it is answered, and for
\* ever once its job is stored.
LEMMA HandleOwner == ASSUME Inv, NEW r \in Submits, Handle(r) PROVE IdentInv'
  <1>1. TypeOK /\ Waiting
    BY DEF Inv, IdentInv
  <1>2. CASE Reserve(r)
    <2> USE DEF Inv, IdentInv, Evented
    <2> DEFINE e == sub[r].event
    <2>1. OthersSame(r) /\ KeepsArgs(r) /\ sub'[r].pc = "emit"
      BY <1>1, <1>2, GotoEffect DEF Reserve
    <2>2. e \in Events /\ e # None /\ sub[r].pc = "wait" /\ srcRow[e] = NoRecord
      BY <1>1, <1>2, DedupAssumption DEF Waiting, Reserve
    <2>3. srcRow' = [srcRow EXCEPT ![e] = [job |-> r, intent |-> sub[r].intent]]
      BY <1>2 DEF Reserve
    <2>4. UNCHANGED <<mem, row>>
      BY <1>2 DEF Reserve
    <2>5. \A s \in Submits : sub'[s].event = sub[s].event /\ sub'[s].intent = sub[s].intent
                             /\ sub'[s].key = sub[s].key
      BY <2>1 DEF OthersSame, KeepsArgs
    <2>6. /\ srcRow'[e].job = r /\ srcRow'[e].intent = sub[r].intent
          /\ \A d \in Events \ {e} : srcRow'[d] = srcRow[d]
      BY <1>1, <2>2, <2>3 DEF TypeOK
    <2> HIDE DEF e
    <2>7. Unstored' /\ Keyless' /\ Arrived' /\ RowFirst' /\ Waiting'
      BY <2>1, <2>2, <2>4, <2>5 DEF OthersSame, Unstored, Keyless, Arrived, RowFirst, Waiting
    <2>8. RecordOK'
      BY <2>5, <2>6 DEF RecordOK, e
    <2>9. PollOK'
      BY <2>1, <2>5 DEF OthersSame, PollOK
    <2>10. Mapped'
      <3> SUFFICES ASSUME NEW j \in Submits, Evented(j)', row'[j] # "absent" \/ sub'[j].pc = "emit"
                   PROVE  srcRow'[sub'[j].event].job = j
        BY DEF Mapped
      <3>1. CASE j = r
        BY <2>5, <2>6, <3>1 DEF e
      <3>2. CASE j # r
        <4>1. sub[j].event \in Events /\ srcRow[sub[j].event].job = j
          BY <1>1, <2>1, <2>4, <2>5, <3>2 DEF OthersSame, Mapped, TypeOK, Submission
        <4>2. sub[j].event # e
          BY <2>2, <4>1, DedupAssumption DEF NoRecord
        <4> QED BY <2>5, <2>6, <4>1, <4>2
      <3> QED BY <3>1, <3>2
    <2> QED BY <2>7, <2>8, <2>9, <2>10
  <1>3. CASE FindReserved(r)
    <2> DEFINE known == srcRow[sub[r].event]
    <2>1. sub[r].pc = "wait" /\ known # NoRecord /\ sub[r].event \in Events
      BY <1>1, <1>3 DEF FindReserved, Waiting
    <2>2. /\ OthersSame(r) /\ KeepsArgs(r) /\ sub'[r].pc \in {"done", "conflict", "poll"}
          /\ sub'[r].job = known.job
          /\ sub'[r].pc = "poll" => SameIntent(known, sub[r].intent)
      BY <1>1, <1>3, FindEffect
    <2>3. UNCHANGED <<mem, row, srcRow>>
      BY <1>3 DEF FindReserved
    <2>4. /\ known.job \in Submits /\ sub[known.job].event = sub[r].event
          /\ sub[known.job].intent = known.intent
      BY <2>1 DEF Inv, IdentInv, RecordOK
    <2>5. Evented(r)
      BY <2>1, DedupAssumption DEF Evented
    <2> HIDE DEF known
    <2> QED BY <2>1, <2>2, <2>3, <2>4, <2>5, Unchanging DEF SameIntent
  <1>4. CASE Poll(r) \/ ConflictEmitted(r) \/ ConflictRaises(r)
    <2>1. /\ OthersSame(r) /\ KeepsArgs(r) /\ sub'[r].pc = "done"
          /\ sub[r].pc \in {"poll", "conflict"} /\ UNCHANGED <<mem, row, srcRow>>
      <3>1. PICK reply, j : Finish(r, reply, j)
        BY <1>4 DEF Poll, ConflictEmitted, ConflictRaises
      <3> QED BY <1>1, <1>4, <3>1, FinishEffect
             DEF Poll, ConflictEmitted, ConflictRaises, store
    <2> QED BY <2>1, Unchanging
  <1>5. CASE SubmitRaises(r)
    <2>1. OthersSame(r) /\ KeepsArgs(r) /\ sub'[r].pc = "done"
      BY <1>1, <1>5, FinishEffect DEF SubmitRaises
    <2>2. \A e \in Events : srcRow'[e] # srcRow[e] => srcRow'[e] = NoRecord /\ srcRow[e].job = r
      BY <1>1, <1>5, RunningProcess, ReleaseEffect DEF SubmitRaises
    <2> QED BY <1>5, <2>1, <2>2, Unchanging DEF SubmitRaises
  <1>6. CASE Accept(r)
    <2>1. OthersSame(r) /\ KeepsArgs(r) /\ sub'[r].pc = "done"
      BY <1>1, <1>6, FinishEffect DEF Accept
    <2> QED BY <1>6, <2>1, Storing DEF Accept, store, Status
  <1>7. CASE AcceptQueueFull(r)
    <2>1. OthersSame(r) /\ KeepsArgs(r) /\ sub'[r].pc = "done"
      BY <1>1, <1>7, FinishEffect DEF AcceptQueueFull
    <2>2. ~NeverStored(sub[r].proc, r)
      BY <1>1, <1>7, RunningProcess, RememberEffect
         DEF AcceptQueueFull, NeverStored, Jobs, Status
    <2>3. srcRow' = srcRow
      BY <1>1, <1>7, <2>2, RunningProcess, ReleaseEffect DEF AcceptQueueFull
    <2> QED BY <1>7, <2>1, <2>3, Storing DEF AcceptQueueFull, Status
  <1> QED BY <1>2, <1>3, <1>4, <1>5, <1>6, <1>7 DEF Handle

\* A job that advances is stored already.
LEMMA ProgressOwner ==
  ASSUME Inv, NEW p \in Processes, NEW j \in Jobs, NEW s \in Status, Progress(p, j, s)
  PROVE  IdentInv'
  <1> USE DEF Inv, IdentInv, Evented
  <1>1. UNCHANGED <<sub, srcRow>> /\ mem[p][j] # "absent" /\ s # "absent"
    BY DEF Progress, store
  <1>2. /\ row'[j] = s
        /\ \A i \in Jobs \ {j} : row'[i] \in {"absent", row[i]}
        /\ \A i \in Jobs \ {j} : Evented(i) => row'[i] = row[i]
    BY PersistEffect DEF Progress
  <1>3. \A q \in Processes, i \in Jobs : i # j => mem'[q][i] = mem[q][i]
    BY RememberEffect DEF Progress
  <1>4. Unstored'
    BY <1>1, <1>2, <1>3 DEF Unstored, Jobs
  <1>5. RowFirst'
    BY <1>1, <1>2, <1>3 DEF RowFirst, Jobs
  <1>6. Mapped'
    BY <1>1, <1>2 DEF Mapped, RowFirst, Jobs
  <1>7. Keyless' /\ Arrived' /\ RecordOK' /\ PollOK' /\ Waiting'
    BY <1>1 DEF Keyless, Arrived, RecordOK, PollOK, Waiting
  <1> QED BY <1>4, <1>5, <1>6, <1>7

\* A crash loses memories; rows and mappings stay.
LEMMA CrashOwner == ASSUME Inv, NEW p \in Processes, Crash(p) PROVE IdentInv'
  <1> USE DEF Inv, IdentInv, Evented
  <1>1. UNCHANGED <<srcRow, row>>
    BY DEF Crash
  <1>2. \A r \in Submits :
          /\ sub'[r].event = sub[r].event /\ sub'[r].intent = sub[r].intent
          /\ sub'[r].key = sub[r].key /\ sub'[r].job = sub[r].job
          /\ sub'[r].pc \in {sub[r].pc, "done"}
    <2> TAKE r \in Submits
    <2>1. sub[r] \in Submission
      BY DEF TypeOK
    <2> QED BY <2>1 DEF Crash, Submission
  <1>3. \A q \in Processes, j \in Submits : mem'[q][j] \in {mem[q][j], "absent"}
    BY DEF Crash, TypeOK, Jobs
  <1>4. Unstored' /\ RowFirst' /\ Mapped'
    BY <1>1, <1>2, <1>3 DEF Unstored, RowFirst, Mapped
  <1>5. Keyless' /\ RecordOK' /\ PollOK' /\ Waiting'
    BY <1>1, <1>2 DEF Keyless, RecordOK, PollOK, Waiting
  <1>6. Arrived'
    BY <1>2 DEF Arrived
  <1> QED BY <1>4, <1>5, <1>6

\* A start loads rows that are there and purges no source event.
LEMMA BootOwner == ASSUME Inv, NEW p \in Processes, Boot(p) PROVE IdentInv'
  <1> USE DEF Inv, IdentInv, Evented
  <1>1. UNCHANGED <<sub, row>> /\ srcRow' = srcRow
    BY DEF Boot, TypeOK, PurgedEvent
  <1>2. \A q \in Processes, j \in Submits :
          mem'[q][j] # mem[q][j] => mem'[q][j] \in {row[j], "absent"}
    BY DEF Boot, TypeOK, Jobs
  <1>3. Unstored' /\ RowFirst'
    BY <1>1, <1>2 DEF Unstored, RowFirst
  <1>4. Keyless' /\ Arrived' /\ Mapped' /\ RecordOK' /\ PollOK' /\ Waiting'
    BY <1>1 DEF Keyless, Arrived, Mapped, RecordOK, PollOK, Waiting
  <1> QED BY <1>3, <1>4

\* IdentInv is inductive relative to the types.
LEMMA NextOwner == ASSUME Inv, [Next]_vars PROVE IdentInv'
  <1>1. CASE \E r \in Submits : Arrive(r) \/ Handle(r)
    BY <1>1, ArriveOwner, HandleOwner
  <1>2. CASE \E p \in Processes, j \in Jobs, s \in Status : Progress(p, j, s)
    BY <1>2, ProgressOwner
  <1>3. CASE \E p \in Processes : Crash(p) \/ Boot(p)
    BY <1>3, CrashOwner, BootOwner
  <1>4. CASE Quiescent \/ UNCHANGED vars
    BY <1>4 DEF Quiescent, vars, Inv, IdentInv, Unstored, Keyless, Arrived, RowFirst,
                Mapped, RecordOK, PollOK, Waiting, Evented
  <1> QED BY <1>1, <1>2, <1>3, <1>4 DEF Next

\* IdentInv with the types is inductive.
THEOREM IdentInvariant == Spec => []Inv
  <1>1. Inv /\ [Next]_vars => Inv'
    BY NextType, NextOwner DEF Inv
  <1> QED BY <1>1, InitDedup, PTL DEF Spec

\* The state space of POST /jobs is the one the model declares.
THEOREM DedupType == Spec => []TypeOK
  BY IdentInvariant, PTL DEF Inv

\* However submissions overlap, fail, retry, crash and restart, in any number
\* of processes, a source event is one job.
THEOREM EventIsOneJob == Spec => []OneJobPerEvent
  <1>1. Inv => OneJobPerEvent
    BY DedupAssumption DEF Inv, IdentInv, Mapped, RowFirst, Evented, OneJobPerEvent, Stored, Jobs
  <1> QED BY <1>1, IdentInvariant, PTL

-----------------------------------------------------------------------------
(* What never changes.                                                     *)

\* The arguments of a submission never change once it has arrived, and the row
\* of a job with an event stays.
LEMMA RowStays ==
  ASSUME Inv, [Next]_vars, NEW j \in Submits, sub[j].pc # "new"
  PROVE  /\ sub'[j].event = sub[j].event /\ sub'[j].intent = sub[j].intent
         /\ Evented(j) /\ row[j] # "absent" => row'[j] # "absent"
  <1>1. TypeOK /\ sub[j] \in Submission
    BY DEF Inv, TypeOK
  <1>2. ASSUME NEW r \in Submits, Arrive(r) PROVE sub'[j] = sub[j] /\ row' = row
    BY <1>1, <1>2 DEF Arrive, SubmitWithKey, SubmitSourceEvent, TypeOK
  <1>3. ASSUME NEW r \in Submits, Handle(r)
        PROVE  /\ sub'[j].event = sub[j].event /\ sub'[j].intent = sub[j].intent
               /\ Evented(j) /\ row[j] # "absent" => row'[j] # "absent"
    <2>1. CASE Reserve(r)
      BY <1>1, <2>1, GotoEffect DEF Reserve, OthersSame, KeepsArgs
    <2>2. CASE FindReserved(r)
      <3>1. row' = row
        BY <2>2 DEF FindReserved
      <3>2. OthersSame(r) /\ KeepsArgs(r)
        BY <1>1, <2>2, FindEffect
      <3> QED BY <3>1, <3>2 DEF OthersSame, KeepsArgs
    <2>3. CASE Poll(r) \/ ConflictEmitted(r) \/ ConflictRaises(r) \/ SubmitRaises(r)
      BY <1>1, <2>3, FinishEffect
         DEF Poll, ConflictEmitted, ConflictRaises, SubmitRaises, OthersSame, KeepsArgs
    <2>4. CASE Accept(r)
      BY <1>1, <2>4, FinishEffect, PersistEffect
         DEF Accept, OthersSame, KeepsArgs, Jobs, Status
    <2>5. CASE AcceptQueueFull(r)
      BY <1>1, <2>5, FinishEffect, PersistEffect
         DEF AcceptQueueFull, OthersSame, KeepsArgs, Jobs, Status
    <2> QED BY <1>3, <2>1, <2>2, <2>3, <2>4, <2>5 DEF Handle
  <1>4. ASSUME NEW p \in Processes, NEW i \in Jobs, NEW s \in Status, Progress(p, i, s)
        PROVE  sub' = sub /\ (Evented(j) /\ row[j] # "absent" => row'[j] # "absent")
    BY <1>4, PersistEffect DEF Progress, Jobs
  <1>5. ASSUME NEW p \in Processes, Crash(p) \/ Boot(p)
        PROVE  /\ sub'[j].event = sub[j].event /\ sub'[j].intent = sub[j].intent
               /\ row' = row
    <2>1. CASE Crash(p)
      <3>1. /\ row' = row
            /\ sub'[j] \in {sub[j], [sub[j] EXCEPT !.pc = "done", !.reply = "lost"]}
        BY <2>1 DEF Crash
      <3> QED BY <1>1, <3>1 DEF Submission
    <2>2. CASE Boot(p)
      BY <2>2 DEF Boot
    <2> QED BY <1>5, <2>1, <2>2
  <1> QED BY <1>2, <1>3, <1>4, <1>5 DEF Next, Quiescent, vars

\* A job is stored once its row or any memory holds it; for a job with an
\* event that is its row.
LEMMA StoredRow ==
  ASSUME Inv, NEW j \in Submits, Evented(j)
  PROVE  Stored(j) <=> row[j] # "absent"
  BY DEF Inv, IdentInv, RowFirst, Stored


\* ReplayIsTruthful, and that the job of the answer is one.
Replayed ==
  \A r \in Submits :
    sub[r].reply = "accepted" /\ Evented(r) =>
      /\ sub[r].job \in Submits /\ row[sub[r].job] # "absent"
      /\ sub[sub[r].job].event = sub[r].event
      /\ sub[sub[r].job].intent = sub[r].intent

\* A truthful answer stays truthful, and every new one is.
LEMMA ReplayedStep == ASSUME Inv, [Next]_vars, Replayed PROVE Replayed'
  <1>1. TypeOK /\ IdentInv /\ None # "accepted"
    BY DedupAssumption DEF Inv
  <1> SUFFICES ASSUME NEW r \in Submits, sub'[r].reply = "accepted", sub'[r].event # None
               PROVE  /\ sub'[r].job \in Submits /\ row'[sub'[r].job] # "absent"
                      /\ sub'[sub'[r].job].event = sub'[r].event
                      /\ sub'[sub'[r].job].intent = sub'[r].intent
    BY DEF Replayed, Evented
  <1> DEFINE Truthful(j) == /\ j \in Submits /\ row[j] # "absent"
                            /\ sub[j].event = sub[r].event /\ sub[j].intent = sub[r].intent
  <1>2. ASSUME Evented(r), Truthful(sub'[r].job)
        PROVE  /\ sub'[r].job \in Submits /\ row'[sub'[r].job] # "absent"
               /\ sub'[sub'[r].job].event = sub'[r].event
               /\ sub'[sub'[r].job].intent = sub'[r].intent
    BY <1>1, <1>2, RowStays DEF Evented, IdentInv, Arrived
  <1> HIDE DEF Truthful
  <1>3. CASE /\ sub'[r].reply = sub[r].reply /\ sub'[r].event = sub[r].event
             /\ sub'[r].job = sub[r].job
    BY <1>2, <1>3 DEF Replayed, Truthful, Evented
  <1>4. ASSUME NEW s \in Submits, Arrive(s), s # r PROVE sub'[r] = sub[r]
    BY <1>1, <1>4 DEF Arrive, SubmitWithKey, SubmitSourceEvent, TypeOK
  <1>5. CASE Arrive(r)
    <2>1. /\ DOMAIN sub = Submits
      BY <1>1 DEF TypeOK
    <2>2. ASSUME NEW p \in Processes, NEW k \in Keys, SubmitWithKey(r, p, k)
          PROVE  sub'[r].event = None
      BY <2>1, <2>2 DEF SubmitWithKey, FreshSubmission
    <2>3. ASSUME NEW p \in Processes, NEW e \in Events, NEW i \in Intents,
                 SubmitSourceEvent(r, p, e, i)
          PROVE  sub'[r].reply = None
      BY <2>1, <2>3 DEF SubmitSourceEvent, FreshSubmission
    <2> QED BY <1>1, <1>5, <2>2, <2>3 DEF Arrive
  <1>6. ASSUME NEW s \in Submits, Handle(s), s # r PROVE sub'[r] = sub[r]
    BY <1>1, <1>6, GotoEffect, FindEffect, FinishEffect, ZenonT(40)
       DEF Handle, Reserve, FindReserved, Poll, ConflictEmitted, ConflictRaises, Accept,
           AcceptQueueFull, SubmitRaises, OthersSame
  <1>7. CASE Handle(r)
    <2>1. CASE Reserve(r)
      BY <1>1, <1>3, <2>1, GotoEffect DEF Reserve, KeepsArgs
    <2>2. CASE FindReserved(r)
      <3> DEFINE known == srcRow[sub[r].event]
      <3>1. /\ KeepsArgs(r) /\ sub'[r].job = known.job
            /\ SameIntent(known, sub[r].intent) /\ JobLoadable(sub[r].proc, known.job)
        BY <1>1, <2>2, FindEffect
      <3>2. Evented(r) /\ sub[r].event \in Events /\ sub[r].proc \in Processes
        BY <1>1, <2>2, RunningProcess, DedupAssumption
           DEF FindReserved, IdentInv, Waiting, Evented
      <3>3. known.job \in Submits /\ sub[known.job].event = sub[r].event
            /\ sub[known.job].intent = known.intent
        BY <1>1, <2>2, <3>2 DEF FindReserved, IdentInv, RecordOK
      <3>4. row[known.job] # "absent"
        BY <1>1, <3>1, <3>2, <3>3 DEF JobLoadable, IdentInv, RowFirst, Evented
      <3> HIDE DEF known
      <3> QED BY <1>2, <3>1, <3>2, <3>3, <3>4 DEF Truthful, SameIntent
    <2>3. CASE Poll(r)
      <3>1. /\ KeepsArgs(r) /\ sub'[r].job = sub[r].job /\ sub[r].pc = "poll"
            /\ JobLoadable(sub[r].proc, sub[r].job) /\ sub[r].proc \in Processes
        BY <1>1, <2>3, FinishEffect, RunningProcess DEF Poll
      <3>2. /\ sub[r].job \in Submits /\ Evented(r)
            /\ sub[sub[r].job].event = sub[r].event
            /\ sub[sub[r].job].intent = sub[r].intent
        BY <1>1, <3>1 DEF IdentInv, PollOK
      <3>3. row[sub[r].job] # "absent"
        BY <1>1, <3>1, <3>2 DEF JobLoadable, IdentInv, RowFirst, Evented
      <3> QED BY <1>2, <3>1, <3>2, <3>3 DEF Truthful
    <2>4. CASE ConflictEmitted(r) \/ ConflictRaises(r) \/ AcceptQueueFull(r) \/ SubmitRaises(r)
      BY <1>1, <2>4, FinishEffect
         DEF ConflictEmitted, ConflictRaises, AcceptQueueFull, SubmitRaises
    <2>5. CASE Accept(r)
      BY <1>1, <2>5, FinishEffect, PersistEffect DEF Accept, Jobs, Status
    <2> QED BY <1>7, <2>1, <2>2, <2>3, <2>4, <2>5 DEF Handle
  <1>8. ASSUME NEW p \in Processes, Crash(p)
        PROVE  sub'[r] = sub[r] \/ sub'[r].reply = "lost"
    <2>1. sub[r] \in Submission
      BY <1>1 DEF TypeOK
    <2> QED BY <1>8, <2>1 DEF Crash, Submission
  <1>9. CASE UNCHANGED sub
    BY <1>3, <1>9
  <1> QED BY <1>3, <1>4, <1>5, <1>6, <1>7, <1>8, <1>9 DEF Next, Progress, Boot, Quiescent, vars

\* A replayed 202 names a stored job of that event with that intent.
THEOREM ReplayTruthful == Spec => []ReplayIsTruthful
  <1>1. Init => Replayed
    BY DedupAssumption DEF Init, Replayed, FreshSubmission
  <1>2. Inv /\ Replayed /\ [Next]_vars => Replayed'
    BY ReplayedStep
  <1>3. Replayed => ReplayIsTruthful
    BY DEF Replayed, ReplayIsTruthful, Evented
  <1> QED BY <1>1, <1>2, <1>3, IdentInvariant, PTL DEF Spec

-----------------------------------------------------------------------------
(* What is stored, and what the log says of it.                            *)

\* Stored(j) in the next state.
StoredNext(j) == row'[j] # "absent" \/ \E p \in Processes : mem'[p][j] # "absent"

\* Nothing but an acknowledged job.submitted stores a job that was not stored.
LEMMA StoredStep ==
  ASSUME Inv, [Next]_vars
  PROVE  /\ trail \subseteq trail'
         /\ \/ \A j \in Submits : StoredNext(j) => Stored(j)
            \/ \E r \in Submits :
                 /\ sub[r].pc = "emit" /\ <<"submitted", r>> \in trail'
                 /\ \A j \in Submits \ {r} : StoredNext(j) => Stored(j)
  <1> USE DEF Stored, StoredNext
  <1>1. TypeOK
    BY DEF Inv
  <1>2. ASSUME UNCHANGED <<mem, row>> PROVE \A j \in Submits : StoredNext(j) => Stored(j)
    BY <1>2
  <1>3. ASSUME NEW r \in Submits, Arrive(r)
        PROVE  UNCHANGED <<mem, row, trail>>
    BY <1>3 DEF Arrive, SubmitWithKey, SubmitSourceEvent
  <1>4. ASSUME NEW r \in Submits,
               Reserve(r) \/ FindReserved(r) \/ Poll(r) \/ ConflictEmitted(r)
               \/ ConflictRaises(r) \/ SubmitRaises(r)
        PROVE  UNCHANGED <<mem, row>> /\ trail \subseteq trail'
    BY <1>4 DEF Reserve, FindReserved, Poll, ConflictEmitted, ConflictRaises, SubmitRaises,
                EmitFails
  <1>5. ASSUME NEW r \in Submits, Accept(r) \/ AcceptQueueFull(r)
        PROVE  /\ trail \subseteq trail' /\ sub[r].pc = "emit" /\ <<"submitted", r>> \in trail'
               /\ \A j \in Submits \ {r} : StoredNext(j) => Stored(j)
    <2>1. PICK s \in Status : Persist(r, s) /\ Remember(sub[r].proc, r, s)
      BY <1>5 DEF Accept, AcceptQueueFull, Status
    <2>2. sub[r].proc \in Processes
      BY <1>1, <1>5, RunningProcess DEF Accept, AcceptQueueFull
    <2>3. \A j \in Submits \ {r} : row'[j] \in {"absent", row[j]}
      BY <2>1, PersistEffect DEF Jobs
    <2>4. \A p \in Processes, j \in Submits \ {r} : mem'[p][j] = mem[p][j]
      BY <1>1, <2>1, <2>2, RememberEffect DEF Jobs
    <2>5. trail' = trail \cup {<<"submitted", r>>} /\ sub[r].pc = "emit"
      BY <1>5 DEF Accept, AcceptQueueFull
    <2> QED BY <2>3, <2>4, <2>5
  <1>6. ASSUME NEW p \in Processes, NEW i \in Jobs, NEW s \in Status, Progress(p, i, s)
        PROVE  trail' = trail /\ \A j \in Submits : StoredNext(j) => Stored(j)
    <2>1. mem[p][i] # "absent" /\ Persist(i, s) /\ Remember(p, i, s) /\ trail' = trail
      BY <1>6 DEF Progress
    <2>2. \A j \in Submits \ {i} : row'[j] \in {"absent", row[j]}
      BY <2>1, PersistEffect DEF Jobs
    <2>3. \A q \in Processes, j \in Submits \ {i} : mem'[q][j] = mem[q][j]
      BY <1>1, <2>1, RememberEffect DEF Jobs
    <2> QED BY <2>1, <2>2, <2>3
  <1>7. ASSUME NEW p \in Processes, Crash(p)
        PROVE  trail' = trail /\ \A j \in Submits : StoredNext(j) => Stored(j)
    <2>1. row' = row /\ trail' = trail
      BY <1>7 DEF Crash
    <2>2. \A q \in Processes, j \in Submits : mem'[q][j] \in {mem[q][j], "absent"}
      BY <1>1, <1>7 DEF Crash, TypeOK, Jobs
    <2> QED BY <2>1, <2>2
  <1>8. ASSUME NEW p \in Processes, Boot(p)
        PROVE  trail' = trail /\ \A j \in Submits : StoredNext(j) => Stored(j)
    <2>1. row' = row /\ trail' = trail
      BY <1>8 DEF Boot
    <2>2. \A q \in Processes, j \in Submits :
            mem'[q][j] # mem[q][j] => mem'[q][j] \in {row[j], "absent"}
      BY <1>1, <1>8 DEF Boot, TypeOK, Jobs
    <2> QED BY <2>1, <2>2
  <1>9. CASE UNCHANGED vars
    BY <1>2, <1>9 DEF vars
  <1> HIDE DEF Stored, StoredNext
  <1> QED BY <1>2, <1>3, <1>4, <1>5, <1>6, <1>7, <1>8, <1>9 DEF Next, Handle, Quiescent

\* No job exists, in memory or in the table, without its job.submitted event.
THEOREM StoredAudited == Spec => []StoredIsAudited
  <1>1. Init => StoredIsAudited
    BY DEF Init, StoredIsAudited, Stored
  <1>2. ASSUME Inv, StoredIsAudited, [Next]_vars PROVE StoredIsAudited'
    <2>1. \A j \in Submits : Stored(j)' <=> StoredNext(j)
      BY DEF Stored, StoredNext
    <2> QED BY <1>2, <2>1, StoredStep DEF StoredIsAudited, Jobs
  <1> QED BY <1>1, <1>2, IdentInvariant, PTL DEF Spec

\* A mapping whose job is stored is never rolled back, purged or overwritten.
THEOREM MappingPermanent == Spec => MappingIsPermanent
  <1>1. ASSUME Inv, [Next]_vars, NEW e \in Events, srcRow[e] # NoRecord,
               row[srcRow[e].job] # "absent"
        PROVE  srcRow'[e] = srcRow[e]
    <2> USE DEF Inv, IdentInv
    <2>1. srcRow[e].job \in Submits
      BY <1>1 DEF RecordOK
    <2>2. \A r \in Submits : sub[r].pc = "emit" => srcRow[e].job # r
      BY <1>1 DEF Unstored
    <2>3. ASSUME NEW r \in Submits, Handle(r) PROVE srcRow'[e] = srcRow[e]
      <3>1. CASE Reserve(r)
        BY <1>1, <3>1 DEF Reserve, TypeOK
      <3>2. CASE AcceptQueueFull(r) \/ SubmitRaises(r)
        <4>1. sub[r].proc \in Processes /\ Release(r) /\ sub[r].pc = "emit"
          BY <1>1, <3>2, RunningProcess DEF AcceptQueueFull, SubmitRaises
        <4> QED BY <1>1, <2>2, <4>1, ReleaseEffect
      <3>3. CASE FindReserved(r) \/ Poll(r) \/ ConflictEmitted(r) \/ ConflictRaises(r)
                 \/ Accept(r)
        BY <3>3 DEF FindReserved, Poll, ConflictEmitted, ConflictRaises, Accept, store
      <3> QED BY <2>3, <3>1, <3>2, <3>3 DEF Handle
    <2>4. ASSUME NEW r \in Submits, Arrive(r) PROVE srcRow' = srcRow
      BY <2>4 DEF Arrive, SubmitWithKey, SubmitSourceEvent, store
    <2>5. ASSUME NEW p \in Processes, Boot(p) PROVE srcRow' = srcRow
      BY <1>1, <2>5 DEF Boot, PurgedEvent, TypeOK
    <2> QED BY <1>1, <2>3, <2>4, <2>5
           DEF Next, Progress, Crash, Quiescent, vars, store
  <1>2. Inv /\ [Next]_vars =>
          [\A e \in Events : srcRow[e] # NoRecord /\ row[srcRow[e].job] # "absent" =>
             srcRow'[e] = srcRow[e]]_vars
    BY <1>1
  <1> QED BY <1>2, IdentInvariant, PTL DEF Spec, MappingIsPermanent

-----------------------------------------------------------------------------
(* The store implements a family of write-once registers.                  *)

\* The winner of an event is drawn while no other job of it is stored.
LEMMA IdentityStep ==
  ASSUME Inv, [Next]_vars
  PROVE  [Identity!Next]_EventJobs
  <1> USE DEF Inv, IdentInv
  <1>1. \A j \in Submits : Stored(j)' <=> StoredNext(j)
    BY DEF Stored, StoredNext
  <1>2. \A j \in Submits : Stored(j) => sub'[j].event = sub[j].event
    BY RowStays DEF Stored, Unstored
  <1>3. \A j \in Submits : Stored(j) /\ Evented(j) => StoredNext(j)
    BY RowStays, StoredRow DEF StoredNext, Stored, Unstored
  <1>4. EventJobs' = [e \in Events |-> {j \in Submits : StoredNext(j) /\ sub'[j].event = e}]
    BY <1>1 DEF EventJobs, Jobs
  <1>5. CASE \A j \in Submits : StoredNext(j) => Stored(j)
    <2>1. \A e \in Events :
            {j \in Submits : StoredNext(j) /\ sub'[j].event = e}
            = {j \in Submits : Stored(j) /\ sub[j].event = e}
      BY <1>2, <1>3, <1>5, DedupAssumption DEF Evented
    <2> QED BY <1>4, <2>1 DEF EventJobs, Jobs
  <1>6. ASSUME NEW r \in Submits, sub[r].pc = "emit", StoredNext(r),
               \A j \in Submits \ {r} : StoredNext(j) => Stored(j)
        PROVE  [Identity!Next]_EventJobs
    <2>1. ~Stored(r) /\ sub'[r].event = sub[r].event
      BY <1>6, RowStays DEF Stored, Unstored
    <2>2. \A e \in Events \ {sub[r].event} :
            {j \in Submits : StoredNext(j) /\ sub'[j].event = e}
            = {j \in Submits : Stored(j) /\ sub[j].event = e}
      BY <1>2, <1>3, <1>6, <2>1, DedupAssumption DEF Evented
    <2>3. CASE sub[r].event \notin Events
      BY <1>4, <2>2, <2>3 DEF EventJobs, Jobs
    <2>4. CASE sub[r].event \in Events
      <3> DEFINE e == sub[r].event
      <3>1. \A j \in Submits : ~(Stored(j) /\ sub[j].event = e)
        BY <1>6, <2>1, <2>4, StoredRow, DedupAssumption DEF Mapped, Evented
      <3>2. EventJobs[e] = {}
        BY <2>4, <3>1 DEF EventJobs, Jobs
      <3>3. \A j \in Submits : StoredNext(j) /\ sub'[j].event = e => j = r
        BY <1>2, <1>6, <3>1
      <3>4. {j \in Submits : StoredNext(j) /\ sub'[j].event = e} = {r}
        BY <1>6, <2>1, <3>3
      <3>5. EventJobs' = [EventJobs EXCEPT ![e] = {r}]
        BY <1>4, <2>2, <2>4, <3>4 DEF EventJobs, Jobs
      <3>6. Identity!Win(e, r)
        BY <3>2, <3>5 DEF Identity!Win
      <3> QED BY <2>4, <3>6 DEF Identity!Next, Jobs
    <2> QED BY <2>3, <2>4
  <1> QED BY <1>5, <1>6, StoredStep

\* Deduplication implements one write-once register per source event: the job
\* of an event stays its job past failures, terminal states and restarts.
THEOREM EventIsOneJobForEver == Spec => EventIsOneJobForever
  <1>1. Init => Identity!Init
    BY DEF Init, Identity!Init, EventJobs, Stored
  <1>2. Inv /\ [Next]_vars => [Identity!Next]_EventJobs
    BY IdentityStep
  <1> QED BY <1>1, <1>2, IdentInvariant, PTL DEF Spec, EventIsOneJobForever, Identity!Spec

-----------------------------------------------------------------------------
(* No source event is poisoned by a failure.                               *)

\* The submission that died with its process has been answered: nothing resets
\* its reply.
LostIsDone == \A r \in Submits : sub[r].reply = "lost" => sub[r].pc = "done"

\* The mapped submission stored its job, is storing it, or died.
Accounted(j) == row[j] # "absent" \/ sub[j].pc = "emit" \/ sub[j].reply = "lost"

MappedAccounted ==
  \A e \in Events : srcRow[e] # NoRecord => Accounted(srcRow[e].job)

\* A handler that ends without a job gives its mapping back, and nobody else's.
LEMMA HandleAccounts ==
  ASSUME Inv, LostIsDone, NEW r \in Submits, Handle(r), NEW j \in Submits, Evented(j),
         Accounted(j)
  PROVE  Accounted(j)' \/ \A e \in Events : srcRow'[e] # NoRecord => srcRow'[e].job # j
  <1>1. TypeOK /\ IdentInv
    BY DEF Inv
  <1>2. CASE j # r
    <2>1. sub'[j] = sub[j]
      BY <1>1, <1>2, GotoEffect, FindEffect, FinishEffect, ZenonT(40)
         DEF Handle, Reserve, FindReserved, Poll, ConflictEmitted, ConflictRaises, Accept,
             AcceptQueueFull, SubmitRaises, OthersSame
    <2>2. row[j] # "absent" => row'[j] # "absent"
      BY <1>1, RowStays DEF IdentInv, Arrived, Next
    <2> QED BY <2>1, <2>2 DEF Accounted
  <1>3. CASE j = r /\ sub[r].pc # "emit"
    <2>1. sub[r].pc # "new" /\ sub[r].pc # "done"
      BY DEF Handle, Reserve, FindReserved, Poll, ConflictEmitted, ConflictRaises, Accept,
             AcceptQueueFull, SubmitRaises
    <2>2. row[j] # "absent"
      BY <1>3, <2>1 DEF Accounted, LostIsDone
    <2>3. row'[j] # "absent"
      BY <1>1, <1>3, <2>1, <2>2, RowStays DEF Next
    <2> QED BY <2>3 DEF Accounted
  <1>4. CASE j = r /\ sub[r].pc = "emit"
    <2>1. CASE Accept(r) \/ AcceptQueueFull(r)
      <3>1. PICK s \in Status \ {"absent"} : Persist(r, s)
        BY <2>1 DEF Accept, AcceptQueueFull, Status
      <3>2. row'[r] # "absent"
        BY <3>1, PersistEffect DEF Jobs
      <3> QED BY <1>4, <3>2 DEF Accounted
    <2>2. CASE SubmitRaises(r)
      <3> DEFINE d == sub[r].event
      <3>1. d \in Events /\ d # None /\ sub[r].proc \in Processes
        BY <1>1, <1>4, <2>2, RunningProcess, DedupAssumption
           DEF SubmitRaises, Evented, TypeOK, Submission
      <3>2. srcRow[d].job = r /\ NeverStored(sub[r].proc, r)
        <4>1. srcRow[d].job = r
          BY <1>1, <1>4 DEF IdentInv, Mapped
        <4>2. mem[sub[r].proc][r] = "absent" /\ row[r] = "absent" /\ UNCHANGED <<mem, row>>
          BY <1>1, <1>4, <2>2, <3>1 DEF IdentInv, Unstored, SubmitRaises
        <4> QED BY <4>1, <4>2 DEF NeverStored
      <3>3. srcRow' = [srcRow EXCEPT ![d] = NoRecord]
        BY <2>2, <3>1, <3>2 DEF SubmitRaises, Release
      <3>4. \A e \in Events : e # d /\ srcRow[e] # NoRecord => srcRow[e].job # r
        BY <1>1 DEF IdentInv, RecordOK
      <3> HIDE DEF d
      <3>5. \A e \in Events : srcRow'[e] # NoRecord => srcRow'[e].job # r
        BY <1>1, <3>1, <3>3, <3>4 DEF TypeOK
      <3> QED BY <1>4, <3>5
    <2> QED BY <1>4, <2>1, <2>2
           DEF Handle, Reserve, FindReserved, Poll, ConflictEmitted, ConflictRaises
  <1> QED BY <1>2, <1>3, <1>4

\* Nothing but a reservation makes a mapping.
LEMMA MappingStep ==
  ASSUME Inv, [Next]_vars, NEW e \in Events, srcRow'[e] # NoRecord
  PROVE  \/ srcRow'[e] = srcRow[e]
         \/ srcRow'[e].job \in Submits /\ sub'[srcRow'[e].job].pc = "emit"
  <1>1. TypeOK
    BY DEF Inv
  <1>2. ASSUME NEW r \in Submits, Reserve(r)
        PROVE  \/ srcRow'[e] = srcRow[e]
               \/ srcRow'[e].job \in Submits /\ sub'[srcRow'[e].job].pc = "emit"
    <2>1. sub'[r].pc = "emit"
      BY <1>1, <1>2, GotoEffect DEF Reserve
    <2>2. srcRow'[e] = srcRow[e] \/ srcRow'[e].job = r
      BY <1>1, <1>2 DEF Reserve, TypeOK
    <2> QED BY <2>1, <2>2
  <1>3. ASSUME NEW r \in Submits, AcceptQueueFull(r) \/ SubmitRaises(r)
        PROVE  srcRow'[e] = srcRow[e]
    <2>1. sub[r].proc \in Processes /\ Release(r)
      BY <1>1, <1>3, RunningProcess DEF AcceptQueueFull, SubmitRaises
    <2> QED BY <1>1, <2>1, ReleaseEffect
  <1>4. ASSUME NEW r \in Submits,
               \/ Arrive(r) \/ FindReserved(r) \/ Poll(r) \/ ConflictEmitted(r)
               \/ ConflictRaises(r) \/ Accept(r)
        PROVE  srcRow' = srcRow
    BY <1>4 DEF Arrive, SubmitWithKey, SubmitSourceEvent, FindReserved, Poll, ConflictEmitted,
                ConflictRaises, Accept, store
  <1>5. ASSUME NEW p \in Processes, Boot(p) PROVE srcRow' = srcRow
    BY <1>1, <1>5 DEF Boot, PurgedEvent, TypeOK
  <1> QED BY <1>2, <1>3, <1>4, <1>5
         DEF Next, Handle, Progress, Crash, Quiescent, vars, store

\* Whoever a mapping names remains accounted for, or loses the mapping.
LEMMA AccountedStep ==
  ASSUME Inv, LostIsDone, [Next]_vars, NEW j \in Submits, Evented(j), Accounted(j)
  PROVE  Accounted(j)' \/ \A e \in Events : srcRow'[e] # NoRecord => srcRow'[e].job # j
  <1>1. TypeOK /\ IdentInv /\ sub[j].pc # "new"
    BY DEF Inv, IdentInv, Arrived
  <1>2. row[j] # "absent" => row'[j] # "absent"
    BY <1>1, RowStays
  <1>3. ASSUME NEW r \in Submits, Arrive(r) PROVE sub'[j] = sub[j]
    BY <1>1, <1>3 DEF Arrive, SubmitWithKey, SubmitSourceEvent, TypeOK
  <1>4. ASSUME NEW p \in Processes, Crash(p) PROVE sub'[j] = sub[j] \/ sub'[j].reply = "lost"
    <2>1. sub[j] \in Submission
      BY <1>1 DEF TypeOK
    <2> QED BY <1>4, <2>1 DEF Crash, Submission
  <1>5. CASE sub'[j] = sub[j] \/ sub'[j].reply = "lost"
    BY <1>2, <1>5 DEF Accounted
  <1> QED BY <1>3, <1>4, <1>5, HandleAccounts DEF Next, Progress, Boot, Quiescent, vars

\* The reply of a submission that died is its last.
LEMMA LostStep == ASSUME Inv, LostIsDone, [Next]_vars PROVE LostIsDone'
  <1>1. TypeOK
    BY DEF Inv
  <1> SUFFICES ASSUME NEW r \in Submits, sub'[r].reply = "lost" PROVE sub'[r].pc = "done"
    BY DEF LostIsDone
  <1>2. CASE sub'[r] = sub[r]
    BY <1>2 DEF LostIsDone
  <1>3. ASSUME NEW s \in Submits, Arrive(s) PROVE sub'[r] = sub[r] \/ sub'[r].reply # "lost"
    <2>1. sub \in [Submits -> Submission]
      BY <1>1 DEF TypeOK
    <2>2. ASSUME NEW p \in Processes, NEW k \in Keys, SubmitWithKey(s, p, k)
          PROVE  sub'[r] = sub[r] \/ sub'[r].reply \in {"accepted", None}
      BY <2>1, <2>2 DEF SubmitWithKey, FreshSubmission
    <2>3. ASSUME NEW p \in Processes, NEW e \in Events, NEW i \in Intents,
                 SubmitSourceEvent(s, p, e, i)
          PROVE  sub'[r] = sub[r] \/ sub'[r].reply = None
      BY <2>1, <2>3 DEF SubmitSourceEvent, FreshSubmission
    <2> QED BY <1>3, <2>2, <2>3, DedupAssumption DEF Arrive
  <1>4. ASSUME NEW s \in Submits, Handle(s), s # r PROVE sub'[r] = sub[r]
    BY <1>1, <1>4, GotoEffect, FindEffect, FinishEffect, ZenonT(40)
       DEF Handle, Reserve, FindReserved, Poll, ConflictEmitted, ConflictRaises, Accept,
           AcceptQueueFull, SubmitRaises, OthersSame
  <1>5. CASE Handle(r)
    <2>1. CASE Reserve(r)
      BY <1>1, <2>1, GotoEffect DEF Reserve, LostIsDone
    <2>2. CASE FindReserved(r)
      BY <1>1, <2>2, DedupAssumption DEF FindReserved, TypeOK, Submission
    <2>3. CASE ~Reserve(r) /\ ~FindReserved(r)
      <3>1. PICK reply, j : Finish(r, reply, j)
        BY <1>5, <2>3 DEF Handle, Poll, ConflictEmitted, ConflictRaises, Accept,
                          AcceptQueueFull, SubmitRaises
      <3> QED BY <1>1, <3>1, FinishEffect
    <2> QED BY <2>1, <2>2, <2>3
  <1>6. ASSUME NEW p \in Processes, Crash(p) PROVE sub'[r] = sub[r] \/ sub'[r].pc = "done"
    <2>1. sub[r] \in Submission
      BY <1>1 DEF TypeOK
    <2> QED BY <1>6, <2>1 DEF Crash, Submission
  <1> QED BY <1>2, <1>3, <1>4, <1>5, <1>6 DEF Next, Progress, Boot, Quiescent, vars

\* A mapping without a stored job belongs to a submission that is still
\* materialising it, or that died with its process while it did.
THEOREM NeverPoisoned == Spec => []NotPoisoned
  <1>1. Init => LostIsDone /\ MappedAccounted
    BY DedupAssumption DEF Init, LostIsDone, MappedAccounted, FreshSubmission
  <1>2. ASSUME Inv, LostIsDone, MappedAccounted, [Next]_vars PROVE MappedAccounted'
    <2> SUFFICES ASSUME NEW e \in Events, srcRow'[e] # NoRecord
                 PROVE  Accounted(srcRow[e].job)'
      BY DEF MappedAccounted
    <2>1. CASE srcRow'[e] = srcRow[e]
      <3>1. PICK j \in Submits : j = srcRow[e].job /\ Evented(j) /\ Accounted(j)
        BY <1>2, <2>1, DedupAssumption
           DEF MappedAccounted, Inv, IdentInv, RecordOK, Evented
      <3>2. Accounted(j)' \/ srcRow'[e].job # j
        BY <1>2, <3>1, AccountedStep
      <3> QED BY <2>1, <3>1, <3>2 DEF Accounted
    <2>2. CASE sub'[srcRow'[e].job].pc = "emit"
      BY <2>2 DEF Accounted
    <2> QED BY <1>2, <2>1, <2>2, MappingStep
  <1>3. MappedAccounted => NotPoisoned
    BY DEF MappedAccounted, Accounted, NotPoisoned, Stored
  <1> QED BY <1>1, <1>2, <1>3, LostStep, IdentInvariant, PTL DEF Spec
=============================================================================
