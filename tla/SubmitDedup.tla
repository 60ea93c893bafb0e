----------------------------- MODULE SubmitDedup ------------------------------
(***************************************************************************)
(* POST /jobs: JobManager.submit_job and _create_job over the idempotency  *)
(* store, in one or several orchestrator processes that share one SQLite   *)
(* file.  Two identities decide whether a submission is a replay:          *)
(*                                                                         *)
(*   - the client's idempotency key (legacy path), a cache in front of a   *)
(*     last-writer table, purged of settled jobs at every start;           *)
(*   - the mobile source event, reserved first-writer in SQLite under a    *)
(*     per-event asyncio lock, rolled back if the job is never stored.     *)
(*                                                                         *)
(* One action is the run of a coroutine between two awaits.  The job id    *)
(* minted by submission r is named r.  A source-event submission, and one  *)
(* without a key, stores a fresh internal key nobody else can send: that   *)
(* record is left out and its job has key None.                            *)
(***************************************************************************)
EXTENDS Naturals, FiniteSets

CONSTANTS
  Submits,      \* one-shot POST /jobs calls, and the job ids they mint
  Processes,    \* orchestrator processes on the same database
  Keys,         \* idempotency keys sent by clients
  Events,       \* source events: (client_source, client_source_event_id)
  Intents,      \* intent equivalence hashes
  None,
  MaxCrashes,   \* bound on the crashes explored
  MaxFailures   \* bound on the emits that raise

ASSUME DedupAssumption ==
  /\ None \notin Submits \cup Processes \cup Keys \cup Events \cup Intents
  /\ None \notin {"accepted", "lost"}
  /\ MaxCrashes \in Nat /\ MaxFailures \in Nat

Jobs == Submits

\* "live" stands for every status that is neither delivered, failed nor
\* revoked.
Status == {"absent", "live", "delivered", "failed", "revoked"}

NoRecord == [job |-> None, intent |-> None]

Record == [job: Jobs, intent: Intents] \cup {NoRecord}

VARIABLES
  up,         \* processes that are running
  idem,       \* IdempotencyStore._records, per process
  idemRow,    \* rows "idem:" of the state table
  src,        \* IdempotencyStore._source_event_records, per process
  srcRow,     \* rows "srcevent:" of the state table
  mem,        \* JobManager._jobs, per process
  row,        \* the jobs table
  sub,        \* submissions: program point, arguments, reply
  trail,      \* events in the audit log
  crashes,    \* crashes so far (history)
  failures    \* emits that raised so far (history)

vars == <<up, idem, idemRow, src, srcRow, mem, row, sub, trail, crashes, failures>>

store == <<idem, idemRow, src, srcRow>>

SubmitPc == {"new", "wait", "emit", "poll", "conflict", "done"}

\* "unavailable" and "pending" are 503, "conflict" is 409, "lost" a crash.
Reply == {None, "accepted", "unavailable", "pending", "conflict", "lost"}

Submission ==
  [pc: SubmitPc, proc: Processes \cup {None}, key: Keys \cup {None},
   event: Events \cup {None}, intent: Intents \cup {None},
   job: Jobs \cup {None}, reply: Reply]

FreshSubmission ==
  [pc |-> "new", proc |-> None, key |-> None, event |-> None,
   intent |-> None, job |-> None, reply |-> None]

TypeOK ==
  /\ up \subseteq Processes
  /\ idem \in [Processes -> [Keys -> Jobs \cup {None}]]
  /\ idemRow \in [Keys -> Jobs \cup {None}]
  /\ src \in [Processes -> [Events -> Record]]
  /\ srcRow \in [Events -> Record]
  /\ mem \in [Processes -> [Jobs -> Status]]
  /\ row \in [Jobs -> Status]
  /\ sub \in [Submits -> Submission]
  /\ trail \subseteq {"submitted", "source_event_conflict"} \X Submits
  /\ crashes \in Nat /\ failures \in Nat

Init ==
  /\ up = Processes
  /\ idem = [p \in Processes |-> [k \in Keys |-> None]]
  /\ idemRow = [k \in Keys |-> None]
  /\ src = [p \in Processes |-> [e \in Events |-> NoRecord]]
  /\ srcRow = [e \in Events |-> NoRecord]
  /\ mem = [p \in Processes |-> [j \in Jobs |-> "absent"]]
  /\ row = [j \in Jobs |-> "absent"]
  /\ sub = [r \in Submits |-> FreshSubmission]
  /\ trail = {} /\ crashes = 0 /\ failures = 0

-----------------------------------------------------------------------------
(* The jobs table                                                          *)

\* _persist_job: INSERT OR REPLACE on a table whose idempotency_key column is
\* UNIQUE, so the row of another job with the same key is deleted.
Persist(j, s) ==
  row' = [i \in Jobs |->
            IF i = j THEN s
            ELSE IF sub[j].key # None /\ sub[i].key = sub[j].key THEN "absent"
            ELSE row[i]]

Remember(p, j, s) == mem' = [mem EXCEPT ![p][j] = s]

\* self._jobs.get(...) or self._load_job_by_id(...)
JobLoadable(p, j) == mem[p][j] # "absent" \/ row[j] # "absent"

-----------------------------------------------------------------------------
(* Submissions                                                             *)

Running(r) == sub[r].proc \in up

\* Mutant: the record is returned where its job id belongs.
FinishWithRecord(r, reply, j) ==
  sub' = [sub EXCEPT ![r] = [@ EXCEPT !.pc = "done", !.reply = reply,
                                      !.job = [job |-> j]]]

Finish(r, reply, j) ==
  sub' = [sub EXCEPT ![r] = [@ EXCEPT !.pc = "done", !.reply = reply, !.job = j]]

Goto(r, pc) == sub' = [sub EXCEPT ![r] = [@ EXCEPT !.pc = pc]]

\* check_and_store, then the return of the existing job; a known key whose
\* job is not in memory falls through and creates a job of its own.
SubmitWithKey(r, p, k) ==
  LET known == idem[p][k]
      replay == known # None /\ mem[p][known] # "absent"
  IN
  /\ sub[r].pc = "new" /\ p \in up
  /\ sub' = [sub EXCEPT ![r] =
               [FreshSubmission EXCEPT
                  !.proc = p, !.key = k,
                  !.pc = IF replay THEN "done" ELSE "emit",
                  !.reply = IF replay THEN "accepted" ELSE None,
                  !.job = IF replay THEN known ELSE None]]
  /\ IF known = None
     THEN /\ idem' = [idem EXCEPT ![p][k] = r]
          /\ idemRow' = [idemRow EXCEPT ![k] = r]
     ELSE UNCHANGED <<idem, idemRow>>
  /\ UNCHANGED <<up, src, srcRow, mem, row, trail, crashes, failures>>

SubmitSourceEvent(r, p, e, i) ==
  /\ sub[r].pc = "new" /\ p \in up
  /\ sub' = [sub EXCEPT ![r] = [FreshSubmission EXCEPT
               !.pc = "wait", !.proc = p, !.event = e, !.intent = i]]
  /\ UNCHANGED <<up, store, mem, row, trail, crashes, failures>>

Holding == {"emit", "poll", "conflict"}

\* Mutant: the lock is never given back.
LockKept(r) ==
  \A s \in Submits \ {r} :
    sub[s].proc = sub[r].proc /\ sub[s].event = sub[r].event =>
      sub[s].pc \in {"new", "wait"}

\* _source_event_lock: one submission per event and process past the wait.
LockFree(r) ==
  \A s \in Submits \ {r} :
    sub[s].proc = sub[r].proc /\ sub[s].event = sub[r].event =>
      sub[s].pc \notin Holding

\* Mutant: the intent hash is not compared.
AnyIntent(known, i) == TRUE

SameIntent(known, i) == known.intent = i

\* check_and_store_source_event wins the INSERT ... ON CONFLICT DO NOTHING.
Reserve(r) ==
  LET p == sub[r].proc
      e == sub[r].event
      mine == [job |-> r, intent |-> sub[r].intent]
  IN
  /\ sub[r].pc = "wait" /\ Running(r) /\ LockFree(r)
  /\ srcRow[e] = NoRecord
  /\ srcRow' = [srcRow EXCEPT ![e] = mine]
  /\ src' = [src EXCEPT ![p][e] = mine]
  /\ Goto(r, "emit")
  /\ UNCHANGED <<up, idem, idemRow, mem, row, trail, crashes, failures>>

\* It loses: the row in the database is the authoritative record.
FindReserved(r) ==
  LET p == sub[r].proc
      known == srcRow[sub[r].event]
      next == IF ~SameIntent(known, sub[r].intent) THEN "conflict"
              ELSE IF JobLoadable(p, known.job) THEN "done" ELSE "poll"
  IN
  /\ sub[r].pc = "wait" /\ Running(r) /\ LockFree(r)
  /\ known # NoRecord
  /\ src' = [src EXCEPT ![p][sub[r].event] = known]
  /\ sub' = [sub EXCEPT ![r] = [@ EXCEPT
               !.pc = next, !.job = known.job,
               !.reply = IF next = "done" THEN "accepted" ELSE None]]
  /\ UNCHANGED <<up, idem, idemRow, srcRow, mem, row, trail, crashes, failures>>

\* _await_job_loadable: a bounded number of polls, and then 503.
Poll(r) ==
  /\ sub[r].pc = "poll" /\ Running(r)
  /\ Finish(r, IF JobLoadable(sub[r].proc, sub[r].job) THEN "accepted" ELSE "pending",
            sub[r].job)
  /\ UNCHANGED <<up, store, mem, row, trail, crashes, failures>>

\* The durable conflict event, or its failure, and 409.
ConflictEmitted(r) ==
  /\ sub[r].pc = "conflict" /\ Running(r)
  /\ trail' = trail \cup {<<"source_event_conflict", r>>}
  /\ Finish(r, "conflict", sub[r].job)
  /\ UNCHANGED <<up, store, mem, row, crashes, failures>>

\* An emit raised: the event reached the log or it did not.
EmitFails(kind, r) ==
  /\ failures < MaxFailures /\ failures' = failures + 1
  /\ trail' \in {trail, trail \cup {<<kind, r>>}}

ConflictRaises(r) ==
  /\ sub[r].pc = "conflict" /\ Running(r)
  /\ EmitFails("source_event_conflict", r)
  /\ Finish(r, "unavailable", None)
  /\ UNCHANGED <<up, store, mem, row, crashes>>

\* Mutant: every exception gives the reservation back.
Always(p, j) == TRUE

\* Mutant: no exception does.
Never(p, j) == FALSE

\* The condition of the rollback, on the state the handler leaves.
NeverStored(p, j) == mem'[p][j] = "absent" /\ row'[j] = "absent"

\* release_source_event compares the job id in memory and in the database.
Release(r) ==
  LET p == sub[r].proc
      e == sub[r].event
  IN
  IF e # None /\ NeverStored(p, r)
  THEN /\ src' = [src EXCEPT ![p][e] = IF @.job = r THEN NoRecord ELSE @]
       /\ srcRow' = [srcRow EXCEPT ![e] = IF @.job = r THEN NoRecord ELSE @]
  ELSE UNCHANGED <<src, srcRow>>

\* job.submitted acknowledged: store the job, then put it in the queue.
Accept(r) ==
  /\ sub[r].pc = "emit" /\ Running(r)
  /\ trail' = trail \cup {<<"submitted", r>>}
  /\ Remember(sub[r].proc, r, "live")
  /\ Persist(r, "live")
  /\ Finish(r, "accepted", r)
  /\ UNCHANGED <<up, store, crashes, failures>>

\* The queue is full: the stored job is marked failed and the error reraised.
AcceptQueueFull(r) ==
  /\ sub[r].pc = "emit" /\ Running(r)
  /\ trail' = trail \cup {<<"submitted", r>>}
  /\ Remember(sub[r].proc, r, "failed")
  /\ Persist(r, "failed")
  /\ Release(r)
  /\ Finish(r, "unavailable", None)
  /\ UNCHANGED <<up, idem, idemRow, crashes, failures>>

SubmitRaises(r) ==
  /\ sub[r].pc = "emit" /\ Running(r)
  /\ EmitFails("submitted", r)
  /\ UNCHANGED <<mem, row>>
  /\ Release(r)
  /\ Finish(r, "unavailable", None)
  /\ UNCHANGED <<up, idem, idemRow, crashes>>

-----------------------------------------------------------------------------
(* The pipeline and the handlers of JobManager write a stored job again and *)
(* again.  Neither looks at the status once more after its awaits: a job    *)
(* that is cancelled or modified meanwhile may go back to any status.       *)

Progress(p, j, s) ==
  /\ p \in up
  /\ mem[p][j] # "absent" /\ s # "absent"
  /\ Remember(p, j, s)
  /\ Persist(j, s)
  /\ UNCHANGED <<up, store, sub, trail, crashes, failures>>

Crash(p) ==
  /\ p \in up /\ crashes < MaxCrashes
  /\ crashes' = crashes + 1
  /\ up' = up \ {p}
  /\ idem' = [idem EXCEPT ![p] = [k \in Keys |-> None]]
  /\ src' = [src EXCEPT ![p] = [e \in Events |-> NoRecord]]
  /\ mem' = [mem EXCEPT ![p] = [j \in Jobs |-> "absent"]]
  /\ sub' = [r \in Submits |->
               IF sub[r].proc = p /\ sub[r].pc # "done"
               THEN [sub[r] EXCEPT !.pc = "done", !.reply = "lost"]
               ELSE sub[r]]
  /\ UNCHANGED <<idemRow, srcRow, row, trail, failures>>

\* No source event is ever purged.
PurgedEvent(e) == FALSE

\* _purge_terminal_keys: the key's job is delivered, failed or has no row.
PurgedKey(k) ==
  idemRow[k] # None /\ row[idemRow[k]] \in {"absent", "delivered", "failed"}

\* _load_from_db and _load_jobs_from_db, which leaves out the terminal jobs.
Boot(p) ==
  /\ p \notin up
  /\ up' = up \cup {p}
  /\ idemRow' = [k \in Keys |-> IF PurgedKey(k) THEN None ELSE idemRow[k]]
  /\ idem' = [idem EXCEPT ![p] = idemRow']
  /\ srcRow' = [e \in Events |-> IF PurgedEvent(e) THEN NoRecord ELSE srcRow[e]]
  /\ src' = [src EXCEPT ![p] = srcRow']
  /\ mem' = [mem EXCEPT ![p] =
               [j \in Jobs |-> IF row[j] = "live" THEN "live" ELSE "absent"]]
  /\ UNCHANGED <<row, sub, trail, crashes, failures>>

-----------------------------------------------------------------------------
Arrive(r) ==
  \E p \in Processes :
    \/ \E k \in Keys : SubmitWithKey(r, p, k)
    \/ \E e \in Events, i \in Intents : SubmitSourceEvent(r, p, e, i)

Handle(r) ==
  \/ Reserve(r) \/ FindReserved(r) \/ Poll(r) \/ ConflictEmitted(r)
  \/ ConflictRaises(r) \/ Accept(r) \/ AcceptQueueFull(r) \/ SubmitRaises(r)

\* Every client has its answer and every job is settled.
Quiescent ==
  /\ up = Processes
  /\ \A r \in Submits : sub[r].pc = "done"
  /\ UNCHANGED vars

Next ==
  \/ \E r \in Submits : Arrive(r) \/ Handle(r)
  \/ \E p \in Processes, j \in Jobs, s \in Status : Progress(p, j, s)
  \/ \E p \in Processes : Crash(p) \/ Boot(p)
  \/ Quiescent

Spec == Init /\ [][Next]_vars

\* The event loop resumes every coroutine whose await has returned; every
\* emit returns or raises (three attempts of five seconds) and the poll ends.
FairSpec == Spec /\ \A r \in Submits : WF_vars(Handle(r))

-----------------------------------------------------------------------------
(* Properties                                                              *)

Stored(j) == row[j] # "absent" \/ \E p \in Processes : mem[p][j] # "absent"

\* However submissions overlap, fail, retry, crash and restart, in however
\* many processes, a source event is one job (submit_job: "an existing
\* mapping must block duplicate execution").
OneJobPerEvent ==
  \A i, j \in Jobs :
    /\ Stored(i) /\ Stored(j)
    /\ sub[i].event \in Events /\ sub[i].event = sub[j].event
    => i = j

\* The register of OneJobPerEvent also never changes: the job of an event
\* stays its job past terminal states and restarts.
EventJobs == [e \in Events |-> {j \in Jobs : Stored(j) /\ sub[j].event = e}]

Identity == INSTANCE FirstWriter WITH
  Cells <- Events, Writers <- Jobs, cell <- EventJobs

EventIsOneJobForever == Identity!Spec

\* A replayed 202 is truthful: the job returned for a source event is a stored
\* job of that event with the intent of this submission.
ReplayIsTruthful ==
  \A r \in Submits :
    sub[r].reply = "accepted" /\ sub[r].event # None =>
      /\ row[sub[r].job] # "absent"
      /\ sub[sub[r].job].event = sub[r].event
      /\ sub[sub[r].job].intent = sub[r].intent

\* A mapping whose job is stored is permanent: no rollback, no restart and no
\* other writer touches it.
MappingIsPermanent ==
  [][\A e \in Events :
       srcRow[e] # NoRecord /\ row[srcRow[e].job] # "absent" =>
         srcRow'[e] = srcRow[e]]_vars

\* No source event is poisoned by a failure: a mapping without a stored job
\* belongs to a submission that is still materialising it, or that died with its
\* process while it did.
NotPoisoned ==
  \A e \in Events :
    srcRow[e] # NoRecord /\ ~Stored(srcRow[e].job) =>
      \/ sub[srcRow[e].job].pc = "emit"
      \/ sub[srcRow[e].job].reply = "lost"

\* Fail closed: no job exists, in memory or in the table, without its
\* job.submitted event in the log.
StoredIsAudited == \A j \in Jobs : Stored(j) => <<"submitted", j>> \in trail

\* A submission that waits for the event's lock is answered.
EveryWaitEnds == \A r \in Submits : sub[r].pc = "wait" ~> sub[r].pc = "done"

-----------------------------------------------------------------------------
(* What a comment or a document says and the code does not do.             *)

\* STATUS.md 7.2: a known idempotency key returns the existing job instead of
\* creating a duplicate.
OneJobPerKey ==
  \A i, j \in Jobs :
    /\ <<"submitted", i>> \in trail /\ <<"submitted", j>> \in trail
    /\ sub[i].key \in Keys /\ sub[i].key = sub[j].key
    => i = j
=============================================================================
