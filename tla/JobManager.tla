------------------------------ MODULE JobManager ------------------------------
(***************************************************************************)
(* The orchestrator's job manager: the single pipeline worker, the         *)
(* override and review request handlers that run beside it on the same     *)
(* event loop, the SQLite rows every handler writes through to, and the    *)
(* recovery pass of the next process after a crash.                        *)
(*                                                                         *)
(* The code is asyncio: a coroutine runs without interference between two  *)
(* awaits.  One action is one such run: it starts when the awaited call    *)
(* (nearly always AuditLogClient.emit_durable) returns, makes every        *)
(* assignment up to the next await, and leaves the program counter there.  *)
(* An awaited call may also raise, after or before its event reached the   *)
(* log; the "Raises" actions are those outcomes.                           *)
(*                                                                         *)
(* A crash can fall between two synchronous SQLite writes too.  The one    *)
(* place where that matters is the step from response_received to          *)
(* proposal_ready (two commits without an await between them), which is    *)
(* the program point "hold": no other coroutine may run there.             *)
(***************************************************************************)
EXTENDS Naturals, Sequences, FiniteSets

CONSTANTS
  Roots,                  \* ids of the jobs clients submit
  Requests,               \* one-shot POST /override and POST /review calls
  Keys,                   \* decision idempotency keys
  NoJob, NoKey,           \* "no job", "no key"
  System,                 \* author of the events no request caused
  QueueBound,             \* EVENT_QUEUE_BOUND
  MaxRecoveryDispatches,  \* MAX_RECOVERY_DISPATCHES
  MaxCrashes,             \* bound on the crashes explored
  MaxFailures             \* bound on the awaited calls that raise or fail

ASSUME ConstantsAssumption ==
  /\ Roots \cap Requests = {}
  /\ NoJob \notin Roots \cup Requests
  /\ NoKey \notin Keys
  /\ System \notin Requests
  /\ QueueBound \in Nat \ {0}
  /\ MaxRecoveryDispatches \in Nat
  /\ MaxCrashes \in Nat
  /\ MaxFailures \in Nat

(***************************************************************************)
(* A redirect or escalate override mints one fresh job id.  The successor  *)
(* spawned by request r is named r, so uniqueness of ids is built in.      *)
(***************************************************************************)
Jobs == Roots \cup Requests

PreDelivery == {"submitted", "classified", "dispatched", "response_received"}
Terminal == {"delivered", "failed", "revoked"}
Status == PreDelivery \cup Terminal \cup {"proposal_ready", "closed_no_action"}

SuccessorOp == {"redirect", "escalate"}
ReservingOp == {"cancel"} \cup SuccessorOp
OverrideOp == ReservingOp \cup {"modify", "unknown"}
TerminalReview == {"approve", "edit", "reject", "decline_to_act"}
ReviewOp == TerminalReview \cup {"defer"}

Absent == [status |-> "absent", override_type |-> "none",
           review_decision |-> "none", recovery_dispatch_count |-> 0]

Job == [status: Status \cup {"absent"},
        override_type: OverrideOp \cup {"none"},
        review_decision: TerminalReview \cup {"none"},
        recovery_dispatch_count: Nat]

NewJob(s) == [Absent EXCEPT !.status = s]

NoOutcome == <<>>

VARIABLES
  phase,      \* "up", "down", "recovering" or "saving"
  todo,       \* jobs the recovery or the saving loop has still to visit
  mem,        \* JobManager._jobs
  db,         \* the jobs table
  queue,      \* JobManager._queue
  worker,     \* the pipeline coroutine: program point, job, captured hold
  ctx,        \* keys of JobManager._worker_contexts
  req,        \* request handlers: program point, request, reply
  outcome,    \* stored review outcomes (memory and state table alike)
  trail,      \* events in the audit log
  runs,       \* pipeline starts per job (history)
  crashes,    \* crashes so far (history)
  failures    \* failed awaits so far (history)

vars == <<phase, todo, mem, db, queue, worker, ctx, req, outcome,
          trail, runs, crashes, failures>>

process == <<phase, todo, crashes, failures>>

WorkerPc == {"idle", "gate", "classify", "unroutable", "permit", "blocked",
             "prepare", "dispatch", "execute", "exec_failed", "respond",
             "hold", "announce", "deliver", "teardown"}

RequestPc == {"new", "override", "fail", "successor", "revoke", "reviewed",
              "deliver", "close", "after", "done"}

Reply == {"none", "ok", "no_op", "not_found", "error", "conflict",
          "replayed", "raised", "lost"}

Kind == {"submitted", "classified", "hold", "allowed", "blocked", "dispatched",
         "response_received", "proposal_ready", "delivered", "failed",
         "revoked", "closed_no_action", "queued", "override", "modified",
         "demoted"} \cup ReviewOp

Event == [job: Jobs, kind: Kind, by: Requests \cup {System}]

Request == [pc: RequestPc, op: OverrideOp \cup ReviewOp \cup {"none"},
            job: Jobs \cup {NoJob}, pre: BOOLEAN, key: Keys \cup {NoKey},
            reply: Reply]

NoWork == [pc |-> "idle", job |-> NoJob, hold |-> FALSE]

FreshRequest == [pc |-> "new", op |-> "none", job |-> NoJob, pre |-> FALSE,
                 key |-> NoKey, reply |-> "none"]

TypeOK ==
  /\ phase \in {"up", "down", "recovering", "saving"}
  /\ todo \subseteq Jobs
  /\ mem \in [Jobs -> Job]
  /\ db \in [Jobs -> Job]
  /\ queue \in Seq(Jobs)
  /\ worker \in [pc: WorkerPc, job: Jobs \cup {NoJob}, hold: BOOLEAN]
  /\ worker.pc # "idle" => worker.job \in Jobs
  /\ ctx \subseteq Jobs
  /\ req \in [Requests -> Request]
  /\ outcome \in [Keys -> {NoOutcome} \cup (Jobs \X ReviewOp)]
  /\ trail \subseteq Event
  /\ runs \in [Jobs -> Nat]
  /\ crashes \in Nat
  /\ failures \in Nat

Init ==
  /\ phase = "up" /\ todo = {}
  /\ mem = [j \in Jobs |-> Absent]
  /\ db = [j \in Jobs |-> Absent]
  /\ queue = <<>> /\ worker = NoWork /\ ctx = {}
  /\ req = [r \in Requests |-> FreshRequest]
  /\ outcome = [k \in Keys |-> NoOutcome]
  /\ trail = {}
  /\ runs = [j \in Jobs |-> 0]
  /\ crashes = 0 /\ failures = 0

-----------------------------------------------------------------------------
(* Audit emits, write-through and the scheduler.                           *)

Ev(j, k, by) == [job |-> j, kind |-> k, by |-> by]

\* Mutant: best-effort delivery where the code waits for a durable one.
EmitBestEffort(j, k, by) == trail' \in {trail, trail \cup {Ev(j, k, by)}}

Emit(j, k, by) == trail' = trail \cup {Ev(j, k, by)}

\* emit_durable raised: the event reached the log or it did not (the writer
\* may have committed it and only the acknowledgement was lost).
Failure == failures < MaxFailures /\ failures' = failures + 1

EmitRaises(j, k, by) ==
  /\ Failure
  /\ trail' \in {trail, trail \cup {Ev(j, k, by)}}

\* Assignments to a Job followed by _persist_job, with no await between.
Write(j, rec) ==
  /\ mem' = [mem EXCEPT ![j] = rec]
  /\ db' = [db EXCEPT ![j] = rec]

WithStatus(j, s) == [mem[j] EXCEPT !.status = s]

\* put_nowait, which raises QueueFull at the bound; the callers that catch it
\* go on without the job in the queue.
HasRoom == Len(queue) < QueueBound

\* Mutant: a job is never put in the queue.
EnqueueNothing(j) == UNCHANGED queue

Enqueue(j) == queue' = IF HasRoom THEN Append(queue, j) ELSE queue

PopContext(j) == ctx' = ctx \ {j}

\* Every coroutine but the worker waits while the worker is between the two
\* commits of "hold".
Running == phase = "up" /\ worker.pc # "hold"

-----------------------------------------------------------------------------
(* Submission (the deduplication in front of it is not modelled here).     *)

Submit(j) ==
  /\ Running
  /\ j \in Roots /\ db[j] = Absent
  /\ Emit(j, "submitted", System)
  /\ \/ /\ HasRoom
        /\ Write(j, NewJob("submitted"))
     \/ /\ ~HasRoom
        /\ Write(j, NewJob("failed"))
  /\ Enqueue(j)
  /\ UNCHANGED <<process, worker, ctx, req, outcome, runs>>

-----------------------------------------------------------------------------
(* override_job                                                            *)

Goto(r, pc) == req' = [req EXCEPT ![r] = [@ EXCEPT !.pc = pc]]

Answer(r, reply) ==
  req' = [req EXCEPT ![r] = [@ EXCEPT !.pc = "done", !.reply = reply]]

Arrive(r, op, j, k, pc, reply) ==
  /\ Running
  /\ req[r].pc = "new"
  /\ db[j] # Absent
  /\ req' = [req EXCEPT ![r] =
               [pc |-> pc, op |-> op, job |-> j, key |-> k, reply |-> reply,
                pre |-> mem[j].status \in PreDelivery]]

\* Mutant: without the already-overridden return.
OverrideGuardReentrant(m) ==
  /\ m.status \notin {"absent", "failed", "revoked"}
  /\ m.review_decision \notin TerminalReview

\* The early returns of override_job, in their order.
OverrideGuard(m) ==
  /\ m.status \notin {"absent", "failed", "revoked"}
  /\ m.review_decision \notin TerminalReview
  /\ m.override_type = "none"

\* Mutant: the guard is left to the end of the handler.
ReserveLate(j, op) == UNCHANGED <<mem, db>>

Reserve(j, op) == Write(j, [mem[j] EXCEPT !.override_type = op])

OverrideNoOp(r, j, op) ==
  /\ ~OverrideGuard(mem[j])
  /\ Arrive(r, op, j, NoKey, "done",
            IF mem[j].status = "absent" THEN "not_found" ELSE "no_op")
  /\ UNCHANGED <<process, mem, db, queue, worker, ctx, outcome, trail, runs>>

BeginOverride(r, j, op) ==
  /\ op \in ReservingOp
  /\ OverrideGuard(mem[j])
  /\ Arrive(r, op, j, NoKey, "override", "none")
  /\ Reserve(j, op)
  /\ UNCHANGED <<process, queue, worker, ctx, outcome, trail, runs>>

BeginModify(r, j) ==
  /\ OverrideGuard(mem[j])
  /\ mem[j].status \in {"response_received", "delivered"}
  /\ Arrive(r, "modify", j, NoKey, "override", "none")
  /\ Reserve(j, "modify")
  /\ UNCHANGED <<process, queue, worker, ctx, outcome, trail, runs>>

\* modified_result missing, no result to modify, or an unknown override
\* type: an error reply.  On a proposal_ready job the first-writer guard was
\* already set before that validation.
RefuseOverride(r, j, op) ==
  /\ op \in {"modify", "unknown"}
  /\ OverrideGuard(mem[j])
  /\ Arrive(r, op, j, NoKey, "done", "error")
  /\ IF mem[j].status = "proposal_ready"
     THEN Reserve(j, op)
     ELSE UNCHANGED <<mem, db>>
  /\ UNCHANGED <<process, queue, worker, ctx, outcome, trail, runs>>

\* _spawn_successor up to its await, on top of the memory m its caller left.
\* An unknown target capability raises ValueError before anything is created.
Spawn(r, m) ==
  \/ /\ mem' = [m EXCEPT ![r] = NewJob("classified")]
     /\ db' = [db EXCEPT ![r] = NewJob("classified")]
     /\ Goto(r, "successor")
  \/ /\ mem' = m
     /\ Answer(r, "raised")
     /\ UNCHANGED db

AfterOverride(op, pre) ==
  CASE op \in {"cancel", "redirect"} /\ pre -> "fail"
    [] op = "cancel" /\ ~pre -> "revoke"
    [] op = "modify" -> "reviewed"
    [] OTHER -> "successor"

OverrideEmitted(r) ==
  LET next == AfterOverride(req[r].op, req[r].pre) IN
  /\ Running
  /\ req[r].pc = "override"
  /\ Emit(req[r].job, "override", r)
  /\ IF next = "successor"
     THEN Spawn(r, mem)
     ELSE Goto(r, next) /\ UNCHANGED <<mem, db>>
  /\ UNCHANGED <<process, queue, worker, ctx, outcome, runs>>

\* job.failed emitted for a cancel or redirect before delivery.  The redirect
\* assigns the status now and persists it only after its successor exists.
OverrideFails(r) ==
  LET j == req[r].job IN
  /\ Running
  /\ req[r].pc = "fail" /\ req[r].op \in OverrideOp
  /\ Emit(j, "failed", r)
  /\ \/ /\ req[r].op = "cancel"
        /\ Write(j, WithStatus(j, "failed"))
        /\ PopContext(j)
        /\ Goto(r, "after")
     \/ /\ req[r].op = "redirect"
        /\ Spawn(r, [mem EXCEPT ![j].status = "failed"])
        /\ UNCHANGED ctx
  /\ UNCHANGED <<process, queue, worker, outcome, runs>>

\* job.classified emitted for the successor: enqueue it, then finish the
\* override (pre-delivery redirect) or go on to revoke the original.
SuccessorEmitted(r) ==
  LET j == req[r].job
      finish == req[r].op = "redirect" /\ req[r].pre
      succ == IF HasRoom THEN mem[r] ELSE WithStatus(r, "failed")
  IN
  /\ Running
  /\ req[r].pc = "successor"
  /\ Emit(r, "classified", r)
  /\ Enqueue(r)
  /\ mem' = [mem EXCEPT ![r] = succ]
  /\ db' = [db EXCEPT ![r] = IF HasRoom THEN @ ELSE succ,
                      ![j] = IF finish THEN mem[j] ELSE @]
  /\ IF finish THEN PopContext(j) ELSE UNCHANGED ctx
  /\ Goto(r, IF finish THEN "after" ELSE "revoke")
  /\ UNCHANGED <<process, worker, outcome, runs>>

OverrideRevokes(r) ==
  LET j == req[r].job IN
  /\ Running
  /\ req[r].pc = "revoke"
  /\ Emit(j, "revoked", r)
  /\ Write(j, WithStatus(j, "revoked"))
  /\ PopContext(j)
  /\ Goto(r, "after")
  /\ UNCHANGED <<process, queue, worker, outcome, runs>>

ModifyReviewed(r) ==
  LET j == req[r].job IN
  /\ Running
  /\ req[r].pc = "reviewed" /\ req[r].op = "modify"
  /\ Emit(j, "modified", r)
  /\ IF req[r].pre
     THEN Goto(r, "deliver") /\ UNCHANGED <<db, ctx>>
     ELSE /\ Goto(r, "after")
          /\ db' = [db EXCEPT ![j] = mem[j]]
          /\ PopContext(j)
  /\ UNCHANGED <<process, mem, queue, worker, outcome, runs>>

ModifyDelivers(r) ==
  LET j == req[r].job IN
  /\ Running
  /\ req[r].pc = "deliver" /\ req[r].op = "modify"
  /\ Emit(j, "delivered", r)
  /\ Write(j, WithStatus(j, "delivered"))
  /\ PopContext(j)
  /\ Goto(r, "after")
  /\ UNCHANGED <<process, queue, worker, outcome, runs>>

\* The worker teardown and the wal.demoted event of cancel and redirect
\* (suppressed after a sentinel failure); no job state changes any more.
OverrideReplies(r) ==
  /\ Running
  /\ req[r].pc = "after"
  /\ \/ UNCHANGED trail
     \/ req[r].op \in {"cancel", "redirect"} /\ Emit(req[r].job, "demoted", r)
  /\ Answer(r, "ok")
  /\ UNCHANGED <<process, mem, db, queue, worker, ctx, outcome, runs>>

-----------------------------------------------------------------------------
(* review_job                                                              *)

\* Mutant: review ignores the override guard.
ReviewableAnyway(m) == m.status = "proposal_ready"

Reviewable(m) == m.status = "proposal_ready" /\ m.override_type = "none"

\* A known key replays its outcome, or conflicts if the payload differs.
ReviewReplay(r, j, op, k) ==
  /\ outcome[k] # NoOutcome
  /\ Arrive(r, op, j, k, "done",
            IF outcome[k] = <<j, op>> THEN "replayed" ELSE "conflict")
  /\ UNCHANGED <<process, mem, db, queue, worker, ctx, outcome, trail, runs>>

\* 404, wrong status, a guard held by an override, or (for a job that is
\* reviewable) a stale result id or a misplaced modified_result.
ReviewRefused(r, j, op, k) ==
  /\ outcome[k] = NoOutcome
  /\ Arrive(r, op, j, k, "done",
            IF mem[j].status = "absent" THEN "not_found" ELSE "conflict")
  /\ UNCHANGED <<process, mem, db, queue, worker, ctx, outcome, trail, runs>>

\* Mutant: the decision is assigned to the wrong field.
DecideInStatus(m, op) == [m EXCEPT !.status = op]

\* The first-writer guard of the terminal decisions; defer sets none, and
\* decline_to_act closes the job at once.
Decide(m, op) ==
  [m EXCEPT !.review_decision = op,
            !.status = IF op = "decline_to_act" THEN "closed_no_action" ELSE @]

BeginReview(r, j, op, k) ==
  /\ outcome[k] = NoOutcome
  /\ Reviewable(mem[j])
  /\ Arrive(r, op, j, k, "reviewed", "none")
  /\ IF op = "defer" THEN UNCHANGED <<mem, db>> ELSE Write(j, Decide(mem[j], op))
  /\ UNCHANGED <<process, queue, worker, ctx, outcome, trail, runs>>

StoreOutcome(r) ==
  outcome' = [outcome EXCEPT ![req[r].key] = <<req[r].job, req[r].op>>]

AfterReviewed(op) ==
  CASE op \in {"approve", "edit"} -> "deliver"
    [] op = "reject" -> "fail"
    [] op = "decline_to_act" -> "close"

ReviewEmitted(r) ==
  /\ Running
  /\ req[r].pc = "reviewed" /\ req[r].op \in ReviewOp
  /\ Emit(req[r].job, req[r].op, r)
  /\ IF req[r].op = "defer"
     THEN Answer(r, "ok") /\ StoreOutcome(r)
     ELSE Goto(r, AfterReviewed(req[r].op)) /\ UNCHANGED outcome
  /\ UNCHANGED <<process, mem, db, queue, worker, ctx, runs>>

\* approve and edit: job.delivered, then the status; reject: job.failed,
\* then the status; each stores its outcome with the last write.
ReviewSettles(r) ==
  LET j == req[r].job
      s == IF req[r].pc = "deliver" THEN "delivered" ELSE "failed"
  IN
  /\ Running
  /\ req[r].pc \in {"deliver", "fail"} /\ req[r].op \in ReviewOp
  /\ Emit(j, s, r)
  /\ Write(j, WithStatus(j, s))
  /\ StoreOutcome(r)
  /\ Answer(r, "ok")
  /\ UNCHANGED <<process, queue, worker, ctx, runs>>

ReviewCloses(r) ==
  /\ Running
  /\ req[r].pc = "close"
  /\ Emit(req[r].job, "closed_no_action", r)
  /\ StoreOutcome(r)
  /\ Answer(r, "ok")
  /\ UNCHANGED <<process, mem, db, queue, worker, ctx, runs>>

\* The event a handler is waiting for, by program point.
AwaitedKind(q) ==
  CASE q.pc = "fail" -> "failed"
    [] q.pc = "successor" -> "classified"
    [] q.pc = "revoke" -> "revoked"
    [] q.pc = "reviewed" -> IF q.op = "modify" THEN "modified" ELSE q.op
    [] q.pc = "deliver" -> "delivered"
    [] q.pc = "close" -> "closed_no_action"
    [] q.pc = "after" -> "demoted"
    [] OTHER -> "override"

\* An await of a handler raised: HTTP 500, and whatever was assigned stays.
RequestRaises(r) ==
  /\ Running
  /\ req[r].pc \notin {"new", "done"}
  /\ EmitRaises(IF req[r].pc = "successor" THEN r ELSE req[r].job,
                AwaitedKind(req[r]), r)
  /\ Answer(r, "raised")
  /\ UNCHANGED <<phase, todo, crashes, mem, db, queue, worker, ctx, outcome, runs>>

-----------------------------------------------------------------------------
(* _worker_loop and _run_pipeline                                          *)

WGoto(pc) == worker' = [worker EXCEPT !.pc = pc]

\* The gate after classification: a cloud route whose circuit breaker is open
\* is refused, any other goes on to the permission check.
Routed == \E pc \in {"permit", "unroutable"} : WGoto(pc)

WTake ==
  /\ Running
  /\ worker.pc = "idle" /\ queue # <<>>
  /\ queue' = Tail(queue)
  /\ worker' = [pc |-> "gate", job |-> Head(queue), hold |-> FALSE]
  /\ UNCHANGED <<process, mem, db, ctx, req, outcome, trail, runs>>

\* The wait for the hub to be ACTIVE ends here; it is the environment's, so
\* the step may come at any time.  A job that is classified already (a successor, or a recovered one) skips
\* the classifier; every other status is classified (again).
WStart ==
  LET j == worker.job IN
  /\ Running
  /\ worker.pc = "gate"
  /\ runs' = [runs EXCEPT ![j] = @ + 1]
  /\ IF mem[j].status = "classified"
     THEN Routed /\ db' = [db EXCEPT ![j] = mem[j]]
     ELSE WGoto("classify") /\ UNCHANGED db
  /\ UNCHANGED <<process, mem, queue, ctx, req, outcome, trail>>

WClassify ==
  LET j == worker.job IN
  /\ Running
  /\ worker.pc = "classify"
  /\ Emit(j, "classified", System)
  /\ Write(j, WithStatus(j, "classified"))
  /\ Routed
  /\ UNCHANGED <<process, queue, ctx, req, outcome, runs>>

\* route_unavailable and permission_denied: job.failed, then the status.
WRefused ==
  LET j == worker.job IN
  /\ Running
  /\ worker.pc \in {"unroutable", "blocked"}
  /\ Emit(j, "failed", System)
  /\ Write(j, WithStatus(j, "failed"))
  /\ worker' = NoWork
  /\ UNCHANGED <<process, queue, ctx, req, outcome, runs>>

\* check_permission: blocked, or allowed with or without a hold on the result
\* (delivery_hold or on_accept).  The hold is captured in a local variable.
WPermit ==
  /\ Running
  /\ worker.pc = "permit"
  /\ \E k \in {"blocked", "hold", "allowed"} :
       /\ Emit(worker.job, k, System)
       /\ worker' = [worker EXCEPT !.pc = IF k = "blocked" THEN "blocked" ELSE "prepare",
                                   !.hold = (k = "hold")]
  /\ UNCHANGED <<process, mem, db, queue, ctx, req, outcome, runs>>

WPrepare ==
  LET j == worker.job IN
  /\ Running
  /\ worker.pc = "prepare"
  /\ \/ /\ ctx' = ctx \cup {j}
        /\ WGoto("dispatch")
        /\ UNCHANGED <<mem, db, failures>>
     \/ /\ Failure
        /\ Write(j, WithStatus(j, "failed"))
        /\ worker' = NoWork
        /\ UNCHANGED ctx
  /\ UNCHANGED <<phase, todo, crashes, queue, req, outcome, trail, runs>>

WDispatch ==
  LET j == worker.job IN
  /\ Running
  /\ worker.pc = "dispatch"
  /\ Emit(j, "dispatched", System)
  /\ Write(j, WithStatus(j, "dispatched"))
  /\ WGoto("execute")
  /\ UNCHANGED <<process, queue, ctx, req, outcome, runs>>

\* The worker container, the local model or the egress gateway answered,
\* with a response or with a failure.
WExecute ==
  /\ Running
  /\ worker.pc = "execute"
  /\ \/ WGoto("respond") /\ UNCHANGED failures
     \/ Failure /\ WGoto("exec_failed")
  /\ UNCHANGED <<phase, todo, crashes, mem, db, queue, ctx, req, outcome, trail, runs>>

WExecFailed ==
  LET j == worker.job IN
  /\ Running
  /\ worker.pc = "exec_failed"
  /\ Emit(j, "failed", System)
  /\ Write(j, WithStatus(j, "failed"))
  /\ WGoto("teardown")
  /\ UNCHANGED <<process, queue, ctx, req, outcome, runs>>

\* Mutant: the captured hold is forgotten.
AlwaysDeliver(hold) == "deliver"

\* _derive_proposal_hold_reason at the response boundary.
AfterResponse(hold) == IF hold THEN "hold" ELSE "deliver"

WRespond ==
  LET j == worker.job IN
  /\ Running
  /\ worker.pc = "respond"
  /\ Emit(j, "response_received", System)
  /\ Write(j, WithStatus(j, "response_received"))
  /\ WGoto(AfterResponse(worker.hold))
  /\ UNCHANGED <<process, queue, ctx, req, outcome, runs>>

\* Second commit of the same synchronous run.
WHold ==
  LET j == worker.job IN
  /\ phase = "up"
  /\ worker.pc = "hold"
  /\ Write(j, WithStatus(j, "proposal_ready"))
  /\ WGoto("announce")
  /\ UNCHANGED <<process, queue, ctx, req, outcome, trail, runs>>

WAnnounce ==
  /\ Running
  /\ worker.pc = "announce"
  /\ Emit(worker.job, "proposal_ready", System)
  /\ WGoto("teardown")
  /\ UNCHANGED <<process, mem, db, queue, ctx, req, outcome, runs>>

WDeliver ==
  LET j == worker.job IN
  /\ Running
  /\ worker.pc = "deliver"
  /\ Emit(j, "delivered", System)
  /\ Write(j, WithStatus(j, "delivered"))
  /\ WGoto("teardown")
  /\ UNCHANGED <<process, queue, ctx, req, outcome, runs>>

WTeardown ==
  /\ Running
  /\ worker.pc = "teardown"
  /\ PopContext(worker.job)
  /\ worker' = NoWork
  /\ UNCHANGED <<process, mem, db, queue, req, outcome, trail, runs>>

\* The events of this model an await of the pipeline may have written when it
\* raises; the worker's own events (preparation, execution, teardown) are not
\* part of it.
AwaitedByWorker(pc) ==
  CASE pc = "classify" -> {"classified"}
    [] pc \in {"unroutable", "blocked", "exec_failed"} -> {"failed"}
    [] pc = "permit" -> {"blocked", "hold", "allowed"}
    [] pc = "dispatch" -> {"dispatched"}
    [] pc = "respond" -> {"response_received"}
    [] pc = "announce" -> {"proposal_ready"}
    [] pc = "deliver" -> {"delivered"}
    [] OTHER -> {}

\* The exception handler of _worker_loop: anything but a delivered job fails.
WRaises ==
  LET j == worker.job IN
  /\ phase = "up"
  /\ worker.pc \notin {"idle", "gate", "prepare"}
  /\ Failure
  /\ \/ UNCHANGED trail
     \/ \E k \in AwaitedByWorker(worker.pc) : Emit(j, k, System)
  /\ IF mem[j].status = "delivered"
     THEN UNCHANGED <<mem, db>>
     ELSE Write(j, WithStatus(j, "failed"))
  /\ PopContext(j)
  /\ worker' = NoWork
  /\ UNCHANGED <<phase, todo, crashes, queue, req, outcome, runs>>

-----------------------------------------------------------------------------
(* Crash, reload and recovery                                              *)

LoseMemory ==
  /\ phase' = "down" /\ todo' = {}
  /\ mem' = [j \in Jobs |-> Absent]
  /\ queue' = <<>> /\ worker' = NoWork /\ ctx' = {}
  /\ req' = [r \in Requests |->
               IF req[r].pc \in {"new", "done"} THEN req[r]
               ELSE [req[r] EXCEPT !.pc = "done", !.reply = "lost"]]
  /\ UNCHANGED <<db, outcome, runs>>

Crash ==
  /\ phase # "down" /\ crashes < MaxCrashes
  /\ crashes' = crashes + 1
  /\ LoseMemory
  /\ UNCHANGED <<trail, failures>>

\* _load_jobs_from_db leaves out delivered, failed and revoked rows.
Loadable(m) == m.status \notin Terminal \cup {"absent"}

Boot ==
  /\ phase = "down"
  /\ phase' = "recovering"
  /\ mem' = [j \in Jobs |-> IF Loadable(db[j]) THEN db[j] ELSE Absent]
  /\ todo' = {j \in Jobs : Loadable(db[j])}
  /\ UNCHANGED <<db, queue, worker, ctx, req, outcome, trail, runs, crashes, failures>>

Recovering(j) == phase = "recovering" /\ j \in todo

Requeueable == {"submitted", "classified", "dispatched"}

\* Mutant: the re-dispatch is not counted.
RecoveredUncounted(m) ==
  [m EXCEPT !.status = IF @ = "dispatched" THEN "classified" ELSE @]

\* Mutant: a recovered job starts over.
RecoveredAfresh(m) ==
  [NewJob(IF m.status = "dispatched" THEN "classified" ELSE m.status)
     EXCEPT !.recovery_dispatch_count = m.recovery_dispatch_count + 1]

\* A stale dispatched job goes back to classified; every re-dispatch counts.
Recovered(m) ==
  [m EXCEPT !.status = IF @ = "dispatched" THEN "classified" ELSE @,
            !.recovery_dispatch_count = @ + 1]

\* Below the cap: count the re-dispatch, emit job.queued, enqueue.
RecoverRequeue(j) ==
  LET m == mem[j] IN
  /\ Recovering(j)
  /\ m.status \in Requeueable
  /\ m.recovery_dispatch_count < MaxRecoveryDispatches
  /\ Emit(j, "queued", System)
  /\ mem' = [mem EXCEPT ![j] = Recovered(@)]
  /\ Enqueue(j)
  /\ todo' = todo \ {j}
  /\ UNCHANGED <<phase, db, worker, ctx, req, outcome, runs, crashes, failures>>

RecoverExhausted(j) ==
  /\ Recovering(j)
  /\ mem[j].status \in Requeueable
  /\ mem[j].recovery_dispatch_count >= MaxRecoveryDispatches
  /\ Emit(j, "failed", System)
  /\ mem' = [mem EXCEPT ![j].status = "failed"]
  /\ todo' = todo \ {j}
  /\ UNCHANGED <<phase, db, queue, worker, ctx, req, outcome, runs, crashes, failures>>

\* Dispatched less than the stale threshold ago, or a state the pass has no
\* branch for.
RecoverSkip(j) ==
  /\ Recovering(j)
  /\ mem[j].status \in {"dispatched", "proposal_ready", "closed_no_action"}
  /\ todo' = todo \ {j}
  /\ UNCHANGED <<phase, mem, db, queue, worker, ctx, req, outcome, trail, runs, crashes, failures>>

RecoverDeliver(j) ==
  /\ Recovering(j)
  /\ mem[j].status = "response_received"
  /\ Emit(j, "delivered", System)
  /\ mem' = [mem EXCEPT ![j].status = "delivered"]
  /\ todo' = todo \ {j}
  /\ UNCHANGED <<phase, db, queue, worker, ctx, req, outcome, runs, crashes, failures>>

\* An emit of the recovery pass raised: the lifespan handler fails and the
\* process exits.
RecoverRaises(j) ==
  /\ Recovering(j)
  /\ mem[j].status \in PreDelivery
  /\ EmitRaises(j, IF mem[j].status = "response_received" THEN "delivered"
                   ELSE IF mem[j].recovery_dispatch_count < MaxRecoveryDispatches
                        THEN "queued" ELSE "failed", System)
  /\ LoseMemory
  /\ UNCHANGED crashes

\* main.py writes every loaded job back, one commit each, then starts.
BeginSaving ==
  /\ phase = "recovering" /\ todo = {}
  /\ phase' = "saving"
  /\ todo' = {j \in Jobs : mem[j] # Absent}
  /\ UNCHANGED <<mem, db, queue, worker, ctx, req, outcome, trail, runs, crashes, failures>>

SaveJob(j) ==
  /\ phase = "saving" /\ j \in todo
  /\ db' = [db EXCEPT ![j] = mem[j]]
  /\ todo' = todo \ {j}
  /\ UNCHANGED <<phase, mem, queue, worker, ctx, req, outcome, trail, runs, crashes, failures>>

Open ==
  /\ phase = "saving" /\ todo = {}
  /\ phase' = "up"
  /\ UNCHANGED <<todo, mem, db, queue, worker, ctx, req, outcome, trail, runs, crashes, failures>>

-----------------------------------------------------------------------------
WorkerStep ==
  \/ WTake \/ WStart \/ WClassify \/ WRefused \/ WPermit \/ WPrepare
  \/ WDispatch \/ WExecute \/ WExecFailed \/ WRespond \/ WHold \/ WAnnounce
  \/ WDeliver \/ WTeardown \/ WRaises

RequestArrives(r) ==
  \E j \in Jobs :
    \/ \E op \in OverrideOp : OverrideNoOp(r, j, op)
    \/ \E op \in OverrideOp : BeginOverride(r, j, op)
    \/ BeginModify(r, j)
    \/ \E op \in OverrideOp : RefuseOverride(r, j, op)
    \/ \E op \in ReviewOp, k \in Keys : ReviewReplay(r, j, op, k)
    \/ \E op \in ReviewOp, k \in Keys : ReviewRefused(r, j, op, k)
    \/ \E op \in ReviewOp, k \in Keys : BeginReview(r, j, op, k)

HandlerStep(r) ==
  \/ OverrideEmitted(r) \/ OverrideFails(r) \/ SuccessorEmitted(r)
  \/ OverrideRevokes(r) \/ ModifyReviewed(r) \/ ModifyDelivers(r)
  \/ OverrideReplies(r) \/ ReviewEmitted(r) \/ ReviewSettles(r)
  \/ ReviewCloses(r) \/ RequestRaises(r)

RecoveryStep(j) ==
  \/ RecoverRequeue(j) \/ RecoverExhausted(j) \/ RecoverSkip(j)
  \/ RecoverDeliver(j) \/ RecoverRaises(j) \/ SaveJob(j)

Startup == Boot \/ BeginSaving \/ Open

\* Every client is done and the event loop is idle.
Quiescent ==
  /\ phase = "up" /\ worker = NoWork /\ queue = <<>>
  /\ \A j \in Roots : db[j] # Absent
  /\ \A r \in Requests : req[r].pc = "done"
  /\ UNCHANGED vars

Next ==
  \/ \E j \in Jobs : Submit(j)
  \/ \E r \in Requests : RequestArrives(r) \/ HandlerStep(r)
  \/ WorkerStep
  \/ Crash
  \/ Startup
  \/ \E j \in Jobs : RecoveryStep(j)
  \/ Quiescent

Spec == Init /\ [][Next]_vars

\* The event loop runs some coroutine as long as one can run, and the container
\* is restarted after a crash (restart: unless-stopped).  Which coroutine is left
\* open: the requests are finitely many.
Fairness ==
  WF_vars(\/ WorkerStep \/ Startup
          \/ \E r \in Requests : HandlerStep(r)
          \/ \E j \in Jobs : RecoveryStep(j))

FairSpec == Spec /\ Fairness

-----------------------------------------------------------------------------
(* Properties.                                                             *)

EventsOf(j) == {e \in trail : e.job = j}

\* First override wins (override_job's guard, set and persisted before the
\* first await): whatever handlers overlap, and across restarts, the audit
\* log never holds two human.override events for one job.
FirstOverrideWins ==
  \A e, f \in trail :
    e.kind = "override" /\ f.kind = "override" /\ e.job = f.job => e = f

\* Which override won a job, if one did.
Overrider == [j \in Jobs |-> {db[j].override_type} \ {"none"}]

\* First override wins, for good: the override_type column of a job's row is
\* a write-once register, whatever handlers, pipeline, recovery and restarts
\* write the row back.
Winner == INSTANCE FirstWriter WITH
  Cells <- Jobs, Writers <- OverrideOp, cell <- Overrider

OverrideIsFinal == Winner!Spec

\* Review and override are mutually exclusive on a job: the log never holds a
\* human.override and a terminal human.reviewed decision for the same job.
ReviewExcludesOverride ==
  \A e, f \in trail :
    ~(e.kind = "override" /\ f.kind \in TerminalReview /\ e.job = f.job)

\* Both first-writer guards are in SQLite as soon as any other coroutine, or
\* the next process, can look: a crash never forgets a guard.
GuardsWrittenThrough ==
  \A j \in Jobs :
    mem[j] # Absent =>
      /\ db[j].override_type = mem[j].override_type
      /\ db[j].review_decision = mem[j].review_decision

\* Audit before state: no row or cache entry says delivered or revoked unless
\* the corresponding event is in the audit log.
SettledIsAudited ==
  \A j \in Jobs : \A s \in {mem[j].status, db[j].status} \cap {"delivered", "revoked"} :
    \E e \in EventsOf(j) : e.kind = s

\* A redirect or escalate creates at most one successor, and the original's
\* row carries the override that created it.
OneSuccessor ==
  /\ \A r \in Requests : db[r] # Absent =>
       /\ req[r].job \in Jobs
       /\ db[req[r].job].override_type = req[r].op
       /\ req[r].op \in SuccessorOp
  /\ \A r, s \in Requests :
       db[r] # Absent /\ db[s] # Absent /\ req[r].job = req[s].job => r = s

\* A result the permission check held is delivered only after an approve or
\* edit review of it.
HeldNeedsReview ==
  \A j \in Jobs :
    /\ "delivered" \in {mem[j].status, db[j].status}
    /\ \E e \in EventsOf(j) : e.kind = "hold"
    => \E e \in EventsOf(j) : e.kind \in {"approve", "edit"}

\* The re-dispatch cap: however the crashes fall, a job's pipeline starts at
\* most once plus MAX_RECOVERY_DISPATCHES times.
RunsBounded == \A j \in Jobs : runs[j] <= 1 + MaxRecoveryDispatches

\* Every accepted job leaves the pipeline: with the hub active, there is always
\* a later moment when every job in a pre-delivery state has been settled or is
\* held for review, however many successors the overrides created meanwhile.
Settles == []<>(\A j \in Jobs : mem[j].status \notin PreDelivery)

-----------------------------------------------------------------------------
(* What the documentation or a comment says and the code does not do.      *)

\* STATUS.md 5.1: a cancel before delivery fails the job.
CancelIsFinal ==
  \A r \in Requests :
    req[r].op = "cancel" /\ req[r].pre /\ req[r].reply = "ok" =>
      mem[req[r].job].status = "failed"

\* Phase 4A contract, rule 8: once a review wins, later attempts are blocked.
FirstReviewWins ==
  \A e, f \in trail :
    e.kind \in TerminalReview /\ f.kind \in TerminalReview /\ e.job = f.job
      => e = f

\* Phase 4A contract: a proposal_ready job stays pending until a decision; a
\* guard on it belongs to an override that is under way.
GuardHasOwner ==
  \A j \in Jobs :
    mem[j].status = "proposal_ready" /\ mem[j].override_type # "none" =>
      \E r \in Requests : req[r].job = j /\ req[r].pc \notin {"new", "done"}

=============================================================================
