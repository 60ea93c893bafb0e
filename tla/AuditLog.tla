------------------------------ MODULE AuditLog ------------------------------
(***************************************************************************)
(* The audit trail: the audit-log-writer service (one thread, one client   *)
(* connection at a time), the client the orchestrator emits through        *)
(* (orchestrator/audit_client.py), the verifier and the tail repair tool   *)
(* (orchestrator/audit_integrity.py) and the startup gate                  *)
(* (orchestrator/startup_validator.py).                                    *)
(*                                                                         *)
(* disk is every daily file, oldest first, as the operating system holds   *)
(* it: a process that dies keeps it.  A line is a record; its hash is its  *)
(* id (hashes do not collide), its prev_hash the id of the line it was     *)
(* chained to.  Everything else of the envelope is left out.               *)
(*                                                                         *)
(* A crash may stop the writer between any two lines it owes the file.     *)
(* Two rarer faults, at most MaxFaults of them, are counted in faults: a   *)
(* crash in the middle of a line (the file's buffer reaches the disk in    *)
(* pieces of 8 KiB) and an fsync that raises.                              *)
(***************************************************************************)
EXTENDS Integers, Sequences, FiniteSets

CONSTANTS
  Events,        \* source_event_ids; one emit call each
  Durable,       \* those emitted by emit_durable; the others are best-effort
  MaxRetries,    \* audit_client.MAX_RETRIES (3 in the code)
  Days,          \* bound: the days the model lasts
  MaxCrashes,    \* bound: deaths of the writer process
  MaxFaults,     \* bound: torn lines and failed fsyncs
  Window         \* hash_chain_check_count of the startup gate

ASSUME AuditAssumption ==
  /\ Durable \subseteq Events
  /\ MaxRetries \in Nat \ {0}
  /\ Days \in Nat \ {0}
  /\ MaxCrashes \in Nat
  /\ MaxFaults \in Nat
  /\ Window \in Nat \ {0}

VARIABLES
  disk,          \* Seq of records: drnt-audit-<day>.jsonl, all days in order
  today,         \* the UTC date
  pc,            \* the writer: down, idle, write (an event is committed), ack
  cur,           \* the record being written while pc is write or ack
  prev_hash,     \* _prev_hash
  seen,          \* _seen_source_ids
  be_buffer,     \* _be_buffer
  queue,         \* connections accepted by the kernel, not yet by the writer
  cl,            \* per event, the emit call
  crashes,
  faults,
  rep,           \* the repair tool
  quarantine     \* records copied under quarantine/, into the newest file or before

writer == <<pc, cur, prev_hash, seen, be_buffer>>
repair == <<rep, quarantine>>
vars == <<disk, today, writer, queue, cl, crashes, faults, repair>>

Genesis == <<>>

\* A message is one attempt at an event.  It is handled at most once, so it
\* also names the line the writer makes of it (its event_id, a fresh uuid7).
Messages == Events \X (1 .. MaxRetries)
Hashes == Messages \cup {Genesis}
Kinds == {"whole", "torn", "junk"}
Records == [id : Messages, prev : Hashes, day : 1 .. Days, kind : Kinds]
NoRecord == [id |-> Genesis]
NoRepair == [pc |-> "none", at |-> 0, file |-> 0]

TypeOK ==
  /\ disk \in Seq(Records)
  /\ today \in 1 .. Days
  /\ pc \in {"down", "idle", "write", "ack"}
  /\ cur \in Records \cup {NoRecord}
  /\ cur = NoRecord <=> pc \in {"down", "idle"}
  /\ prev_hash \in Hashes
  /\ seen \in SUBSET Events
  /\ be_buffer \in Seq(Records)
  /\ queue \in Seq(Messages)
  /\ cl \in [Events -> [st : {"new", "wait", "retry", "ok", "failed"},
                        tries : 0 .. MaxRetries, late : BOOLEAN]]
  /\ crashes \in 0 .. MaxCrashes
  /\ faults \in 0 .. MaxFaults
  /\ rep \in [pc : {"none", "plan", "copied", "cut"}, at : Nat, file : 0 .. Days]
  /\ quarantine \in [earlier : SUBSET Records, newest : SUBSET Records]

Init ==
  /\ disk = <<>>
  /\ today = 1
  /\ pc = "down"
  /\ cur = NoRecord
  /\ prev_hash = Genesis
  /\ seen = {}
  /\ be_buffer = <<>>
  /\ queue = <<>>
  /\ cl = [e \in Events |-> [st |-> "new", tries |-> 0, late |-> FALSE]]
  /\ crashes = 0
  /\ faults = 0
  /\ rep = NoRepair
  /\ quarantine = [earlier |-> {}, newest |-> {}]

-----------------------------------------------------------------------------
(* Reading the files *)

Whole(r) == r.kind = "whole"

\* The ids of the lines a reader can parse, and the events they carry.
Readable(d) == {d[i].id : i \in {j \in DOMAIN d : Whole(d[j])}}
LoggedEvents(d) == {m[1] : m \in Readable(d)}

SegmentStart(d, i) == i = 1 \/ d[i - 1].day # d[i].day

\* One step of _first_break: record i continues the chain or starts a segment.
Links(d, i) ==
  /\ Whole(d[i])
  /\ \/ d[i].prev = IF i = 1 THEN Genesis ELSE d[i - 1].id
     \/ SegmentStart(d, i) /\ d[i].prev = Genesis

Broken(d) == {i \in DOMAIN d : ~Links(d, i)}
FirstBreak(d) == CHOOSE i \in Broken(d) : \A j \in Broken(d) : i <= j

\* Valid data after the break: interior corruption rather than a torn tail.
CoherentContinuation(d, from) ==
  \E i \in (from + 1) .. Len(d) :
    /\ Whole(d[i])
    /\ \/ SegmentStart(d, i) /\ d[i].prev = Genesis
       \/ Whole(d[i - 1]) /\ d[i].prev = d[i - 1].id

Classify(d) ==
  CASE d = <<>> -> "empty"
    [] d # <<>> /\ Broken(d) = {} -> "valid"
    [] Broken(d) # {} /\ (FirstBreak(d) = 1 \/ CoherentContinuation(d, FirstBreak(d)))
         -> "interior_corruption"
    [] OTHER -> "broken_tail"

\* Mutant: the gate as it was before it knew of segments.
GateUnsegmented(d) ==
  \A i \in DOMAIN d :
    (i > Len(d) - Window + 1 /\ i > 1) => Whole(d[i - 1]) /\ d[i].prev = d[i - 1].id

\* _verify_tail_chain over the last Window lines; the first one is trusted.
GatePasses(d) ==
  \A i \in DOMAIN d :
    (i > Len(d) - Window + 1 /\ i > 1) =>
      /\ Whole(d[i])
      /\ \/ SegmentStart(d, i) /\ d[i].prev = Genesis
         \/ Whole(d[i - 1]) /\ d[i].prev = d[i - 1].id

-----------------------------------------------------------------------------
(* Writing them *)

\* A line appended to a file that ends in half a line becomes part of it.
Glues(d, r) == d # <<>> /\ d[Len(d)].kind = "torn" /\ d[Len(d)].day = r.day

AppendLines(d, lines) ==
  IF lines # <<>> /\ Glues(d, lines[1])
  THEN [d EXCEPT ![Len(d)].kind = "junk"] \o Tail(lines)
  ELSE d \o lines

AppendHalf(d, r) ==
  IF Glues(d, r) THEN d ELSE Append(d, [r EXCEPT !.kind = "torn"])

\* What the writer owes the files: the buffer, then the line in hand.
Owed == IF pc = "write" THEN Append(be_buffer, cur) ELSE be_buffer

-----------------------------------------------------------------------------
(* The client *)

Attempts(e) == IF e \in Durable THEN MaxRetries ELSE 1

\* The call is over, and its local count of attempts with it.
Ended(c, outcome) == [c EXCEPT !.st = outcome, !.tries = 0]

\* Mutant: one attempt too many.
FailedLate(c, e) ==
  IF c.tries <= Attempts(e) THEN [c EXCEPT !.st = "retry"] ELSE Ended(c, "failed")

\* One attempt of e ended without an answer.
Failed(c, e) ==
  IF c.tries < Attempts(e) THEN [c EXCEPT !.st = "retry"] ELSE Ended(c, "failed")

Waits(e, n) == cl[e].st = "wait" /\ cl[e].tries = n

\* emit_durable or emit_best_effort opens a connection and sends.
Connect(e) ==
  /\ cl[e].st \in {"new", "retry"}
  /\ LET c == [cl[e] EXCEPT !.st = "wait", !.tries = @ + 1]
     IN IF pc # "down"
        THEN /\ queue' = Append(queue, <<e, c.tries>>)
             /\ cl' = [cl EXCEPT ![e] = c]
        ELSE /\ cl' = [cl EXCEPT ![e] = Failed(c, e)]
             /\ UNCHANGED queue
  /\ UNCHANGED <<disk, today, writer, crashes, faults, repair>>

\* No answer within TIMEOUT_SECONDS; the message stays with the writer.
Timeout(e) ==
  /\ cl[e].st = "wait"
  /\ cl' = [cl EXCEPT ![e] = Failed(@, e)]
  /\ UNCHANGED <<disk, today, writer, queue, crashes, faults, repair>>

\* The writer answers ok or duplicate to the attempt <<e, n>>.
Answered(e, n) ==
  IF Waits(e, n) THEN [cl EXCEPT ![e] = Ended(@, "ok")] ELSE cl

\* The connection of <<e, n>> is closed after it was read and before it was
\* answered: readexactly raises IncompleteReadError, which is no OSError, so
\* emit_durable does not catch it and the call ends.
CutOff(c, e, n) ==
  IF c[e].st = "wait" /\ c[e].tries = n THEN [c EXCEPT ![e] = Ended(@, "failed")] ELSE c

\* The connections nobody accepted are reset, which is retried.
Reset(c) ==
  [e \in Events |->
     IF c[e].st = "wait" /\ <<e, c[e].tries>> \in {queue[i] : i \in DOMAIN queue}
     THEN Failed(c[e], e) ELSE c[e]]

-----------------------------------------------------------------------------
(* The writer *)

\* Mutant: only today's file is read.
RecentToday(d) == {i \in DOMAIN d : d[i].day = today /\ Whole(d[i])}

\* recover_chain_state: the lines of yesterday and today that parse.
Recent(d) == {i \in DOMAIN d : d[i].day \in {today - 1, today} /\ Whole(d[i])}

RecoveredHash(d) ==
  IF Recent(d) = {} THEN Genesis
  ELSE d[CHOOSE i \in Recent(d) : \A j \in Recent(d) : j <= i].id

RecoveredIds(d) == {d[i].id[1] : i \in Recent(d)}

Start ==
  /\ pc = "down"
  /\ rep.pc = "none"
  /\ pc' = "idle"
  /\ prev_hash' = RecoveredHash(disk)
  /\ seen' = RecoveredIds(disk)
  /\ UNCHANGED <<disk, today, cur, be_buffer, queue, cl, crashes, faults, repair>>

\* _commit_event: midnight has passed since the buffer was filled.
RolledOver == \E i \in DOMAIN be_buffer : be_buffer[i].day # today

Committed(m) ==
  [id |-> m, prev |-> prev_hash, day |-> today, kind |-> "whole"]

\* The buffer and the files once _commit_event has dealt with a rollover.
Carried == IF RolledOver THEN <<>> ELSE be_buffer
Carry == IF RolledOver THEN AppendLines(disk, be_buffer) ELSE disk

Chained(r) ==
  /\ prev_hash' = r.id
  /\ seen' = seen \cup {r.id[1]}

TakeDuplicate ==
  /\ pc = "idle"
  /\ queue # <<>>
  /\ queue[1][1] \in seen
  /\ queue' = Tail(queue)
  /\ cl' = Answered(queue[1][1], queue[1][2])
  /\ UNCHANGED <<disk, today, writer, crashes, faults, repair>>

TakeBestEffort ==
  /\ pc = "idle"
  /\ queue # <<>>
  /\ queue[1][1] \notin seen \cup Durable
  /\ queue' = Tail(queue)
  /\ LET r == Committed(queue[1]) IN
       /\ be_buffer' = Append(Carried, r)
       /\ Chained(r)
  /\ disk' = Carry
  /\ cl' = Answered(queue[1][1], queue[1][2])
  /\ UNCHANGED <<today, pc, cur, crashes, faults, repair>>

TakeDurable ==
  /\ pc = "idle"
  /\ queue # <<>>
  /\ queue[1][1] \in Durable \ seen
  /\ queue' = Tail(queue)
  /\ cur' = Committed(queue[1])
  /\ be_buffer' = Carried
  /\ disk' = Carry
  /\ pc' = "write"
  /\ UNCHANGED <<today, prev_hash, seen, cl, crashes, faults, repair>>

\* Mutant: the line is appended without flushing the buffer first.
WriteUnflushed ==
  /\ pc = "write"
  /\ disk' = AppendLines(disk, <<cur>>)
  /\ Chained(cur)
  /\ pc' = "ack"
  /\ UNCHANGED <<today, cur, be_buffer, queue, cl, crashes, faults, repair>>

\* _write_event of a durable event: buffer first, then the line, then fsync;
\* only then is the chain advanced.
WriteDurable ==
  /\ pc = "write"
  /\ disk' = AppendLines(disk, Owed)
  /\ be_buffer' = <<>>
  /\ Chained(cur)
  /\ pc' = "ack"
  /\ UNCHANGED <<today, cur, queue, cl, crashes, faults, repair>>

Ack ==
  /\ pc = "ack"
  /\ pc' = "idle"
  /\ cur' = NoRecord
  /\ cl' = Answered(cur.id[1], cur.id[2])
  /\ UNCHANGED <<disk, today, prev_hash, seen, be_buffer, queue, crashes, faults, repair>>

\* _maybe_flush_best_effort, between two connections.
Flush ==
  /\ pc = "idle"
  /\ be_buffer # <<>>
  /\ disk' = AppendLines(disk, be_buffer)
  /\ be_buffer' = <<>>
  /\ UNCHANGED <<today, pc, cur, prev_hash, seen, queue, cl, crashes, faults, repair>>

Down ==
  /\ pc' = "down"
  /\ cur' = NoRecord
  /\ be_buffer' = <<>>
  /\ queue' = <<>>
  /\ prev_hash' = Genesis
  /\ seen' = {}

\* SIGTERM: the loop ends after the connection in hand, _shutdown flushes.
Stop ==
  /\ pc = "idle"
  /\ crashes < MaxCrashes
  /\ crashes' = crashes + 1
  /\ disk' = AppendLines(disk, be_buffer)
  /\ Down
  /\ cl' = Reset(cl)
  /\ UNCHANGED <<today, faults, repair>>

\* The clients of a writer that dies.
Bereft == IF cur = NoRecord THEN Reset(cl) ELSE Reset(CutOff(cl, cur.id[1], cur.id[2]))

\* The process dies with n of the lines it owes handed to the kernel.
Crash(n) ==
  /\ pc # "down"
  /\ crashes < MaxCrashes
  /\ crashes' = crashes + 1
  /\ disk' = AppendLines(disk, SubSeq(Owed, 1, n))
  /\ Down
  /\ cl' = Bereft
  /\ UNCHANGED <<today, faults, repair>>

\* The same, with half of the next line handed over as well.
CrashTorn(n) ==
  /\ pc # "down"
  /\ crashes < MaxCrashes
  /\ faults < MaxFaults
  /\ crashes' = crashes + 1
  /\ faults' = faults + 1
  /\ disk' = AppendHalf(AppendLines(disk, SubSeq(Owed, 1, n)), Owed[n + 1])
  /\ Down
  /\ cl' = Bereft
  /\ UNCHANGED <<today, repair>>

\* os.fsync raises: the lines are in the file and the chain state is not
\* advanced; _handle_connection logs the exception and closes.
SyncFails ==
  /\ pc = "write"
  /\ faults < MaxFaults
  /\ faults' = faults + 1
  /\ disk' = AppendLines(disk, Owed)
  /\ be_buffer' = <<>>
  /\ pc' = "idle"
  /\ cur' = NoRecord
  /\ cl' = CutOff(cl, cur.id[1], cur.id[2])
  /\ UNCHANGED <<today, prev_hash, seen, queue, crashes, repair>>

\* An emit call lasts seconds, with what it left in the backlog: it sees at most
\* one midnight, and is late from then on.
Ongoing(e) ==
  \/ cl[e].st \in {"wait", "retry"}
  \/ e \in {queue[i][1] : i \in DOMAIN queue}

Midnight ==
  /\ today < Days
  /\ \A e \in Events : Ongoing(e) => ~cl[e].late
  /\ today' = today + 1
  /\ cl' = [e \in Events |-> [cl[e] EXCEPT !.late = Ongoing(e)]]
  /\ UNCHANGED <<disk, writer, queue, crashes, faults, repair>>

-----------------------------------------------------------------------------
(* The repair tool, run by an operator with the writer stopped. *)

RepairPlan ==
  /\ pc = "down"
  /\ rep.pc = "none"
  /\ Classify(disk) = "broken_tail"
  /\ rep' = [pc |-> "plan", at |-> FirstBreak(disk), file |-> disk[FirstBreak(disk)].day]
  /\ UNCHANGED <<disk, today, writer, queue, cl, crashes, faults, quarantine>>

\* Everything from the break on, through the last file.
Suffix(d, at) == {d[i] : i \in {j \in DOMAIN d : j >= at}}

\* audit-tail-<stamp>.jsonl, opened to be overwritten, with a stamp in seconds: a
\* run in the same second as the one before replaces that one's copy.
Copies(q) == q.earlier \cup q.newest
Stored(q, copy) == {[earlier |-> Copies(q), newest |-> copy], [q EXCEPT !.newest = copy]}

\* Mutant: newer files are removed without a copy.
CopyBreakFile ==
  /\ rep.pc = "plan"
  /\ quarantine' \in Stored(quarantine, {r \in Suffix(disk, rep.at) : r.day = rep.file})
  /\ rep' = [rep EXCEPT !.pc = "copied"]
  /\ UNCHANGED <<disk, today, writer, queue, cl, crashes, faults>>

RepairCopy ==
  /\ rep.pc = "plan"
  /\ quarantine' \in Stored(quarantine, Suffix(disk, rep.at))
  /\ rep' = [rep EXCEPT !.pc = "copied"]
  /\ UNCHANGED <<disk, today, writer, queue, cl, crashes, faults>>

\* The files up to a day are the first n lines.
Through(d, day) ==
  {n \in 0 .. Len(d) : \A i \in DOMAIN d : i <= n <=> d[i].day <= day}

\* Mutant: the last valid record goes with the corrupt ones.
CutEarly ==
  /\ rep.pc = "copied"
  /\ \E n \in Through(disk, rep.file) :
       disk' = SubSeq(disk, 1, rep.at - 2) \o SubSeq(disk, n + 1, Len(disk))
  /\ rep' = [rep EXCEPT !.pc = "cut"]
  /\ UNCHANGED <<today, writer, queue, cl, crashes, faults, quarantine>>

\* Truncate the file of the break at the first corrupt byte; newer files stay.
RepairCut ==
  /\ rep.pc = "copied"
  /\ \E n \in Through(disk, rep.file) :
       disk' = SubSeq(disk, 1, rep.at - 1) \o SubSeq(disk, n + 1, Len(disk))
  /\ rep' = [rep EXCEPT !.pc = "cut"]
  /\ UNCHANGED <<today, writer, queue, cl, crashes, faults, quarantine>>

\* The newer files, unlinked one by one; all of them have been copied.
RepairRemove ==
  /\ rep.pc = "cut"
  /\ \E n \in Through(disk, rep.file) : disk' = SubSeq(disk, 1, n)
  /\ rep' = NoRepair
  /\ UNCHANGED <<today, writer, queue, cl, crashes, faults, quarantine>>

\* The tool dies between two steps; the operator may run it again.
RepairAbort ==
  /\ rep.pc # "none"
  /\ rep' = NoRepair
  /\ UNCHANGED <<disk, today, writer, queue, cl, crashes, faults, quarantine>>

-----------------------------------------------------------------------------
Next ==
  \/ \E e \in Events : Connect(e) \/ Timeout(e)
  \/ Start \/ TakeDuplicate \/ TakeBestEffort \/ TakeDurable
  \/ WriteDurable \/ Ack \/ Flush \/ Stop
  \/ \E n \in 0 .. Len(Owed) : Crash(n)
  \/ \E n \in 0 .. Len(Owed) - 1 : CrashTorn(n)
  \/ SyncFails \/ Midnight
  \/ RepairPlan \/ RepairCopy \/ RepairCut \/ RepairRemove \/ RepairAbort

Spec == Init /\ [][Next]_vars

-----------------------------------------------------------------------------
(* Properties *)

\* The files verify at every moment: whatever deaths, restarts, midnights and
\* gaps of days they went through, every line continues the one before it or
\* re-anchors at the first line of a file (audit_integrity.classify says
\* valid).  The buffer is flushed before a durable line, and what recovery
\* reads is what the next line is chained to.
LogVerifies == faults = 0 => Classify(disk) \in {"empty", "valid"}

\* emit_durable returned True only for an event a reader of the files finds,
\* also when the answer is "duplicate" and the line is an earlier attempt's,
\* written before a crash; and no event is in the files twice, however often it
\* is sent: a timed-out attempt may still be handled, and a restart must not
\* forget what is written, not even across midnight.
LoggedExactlyOnce ==
  faults = 0 =>
    /\ \A e \in Durable : cl[e].st = "ok" => e \in LoggedEvents(disk)
    /\ Cardinality(Readable(disk)) = Cardinality(LoggedEvents(disk))

\* The startup gate, which reads the last Window lines only, never refuses a log
\* the verifier finds valid: no false alarm where a window straddles a
\* re-anchored file.
GateAgrees == Classify(disk) \in {"empty", "valid"} => GatePasses(disk)

\* No line, whole or torn, ever leaves the files unless its bytes are already in
\* quarantine: repair_tail copies before it truncates, whichever step it dies at,
\* and nothing else removes anything.
NothingErased ==
  [][{disk[i].id : i \in DOMAIN disk} \subseteq
     {disk'[i].id : i \in DOMAIN disk'} \cup {r.id : r \in Copies(quarantine')}]_vars

\* "The corrupt bytes are never deleted" (docs/AUDIT-RECOVERY.md:129): what
\* was copied into quarantine and has left the files stays in quarantine.
QuarantineKept ==
  [][{r.id : r \in Copies(quarantine)} \subseteq
     {disk'[i].id : i \in DOMAIN disk'} \cup {r.id : r \in Copies(quarantine')}]_vars

\* A repair never turns a log it may repair into one it must refuse, not even
\* between truncating the file of the break and removing the newer ones.
RepairNeverWorsens ==
  [][rep.pc # "none" /\ Classify(disk) # "interior_corruption"
       => Classify(disk') # "interior_corruption"]_vars

\* docs/AUDIT-RECOVERY.md: interior corruption is "not a torn tail".  A torn line
\* after a valid one leaves a log the tail repair can deal with.
TornTailIsRepairable ==
  (disk # <<>> /\ Whole(disk[1]) /\ \E i \in DOMAIN disk : ~Whole(disk[i]))
    => Classify(disk) # "interior_corruption"

=============================================================================
