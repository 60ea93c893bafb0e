---------------------------- MODULE WorkerDispatch ----------------------------
(***************************************************************************)
(* What stands between a queued job and its execution: the hub's mandate,  *)
(* the circuit breaker, the permission check, the preparation, execution   *)
(* and teardown of its worker; and who cleans up when a step of them       *)
(* raises, a cancel overlaps, or the process dies.                         *)
(*                                                                         *)
(* The pipeline is the one of JobManager, seen from the components it      *)
(* calls: job rows are reduced to what decides whether a cancel is taken,  *)
(* and every await of WorkerLifecycle is a step.  Overrides are reduced to the effect they    *)
(* have here: they tear down the context of a job that may be running.     *)
(***************************************************************************)
EXTENDS HubState, ConnectivityMonitor, PermissionChecker, FiniteSets

CONSTANTS
  Jobs,
  NoJob,         \* "no job"
  Local,         \* the routing that is no egress route
  MaxCrashes,    \* bound on the crashes explored
  MaxCancels,    \* bound on the jobs that are cancelled
  MaxFailures    \* bound on the awaited calls that raise

ASSUME DispatchAssumption ==
  /\ NoJob \notin Jobs
  /\ Local \notin Routes
  /\ MaxCrashes \in Nat
  /\ MaxCancels \in Nat
  /\ MaxFailures \in Nat

VARIABLES
  phase,      \* the next step of the lifespan handler, or "up"
  db,         \* persistence.init_db has run in this process
  jobs,       \* the row of each job; "open" up to job.response_received
  waiting,    \* jobs in the pipeline's queue
  worker,     \* the pipeline coroutine: program point and local variables, and the
              \* durable events it has emitted for its job (logged: history)
  active,     \* keys of WorkerLifecycle._active_contexts, as jobs
  contexts,   \* keys of JobManager._worker_contexts
  cancel,     \* the cancel or redirect of a job: its program point
  sandboxes,  \* sandbox directories on disk: job and process
  crashes,    \* crashes so far; the number names the process (history)
  failures    \* awaited calls that raised (history)

process == <<phase, db, crashes>>
registry == <<active, contexts>>
local == <<jobs, waiting, worker, registry, cancel, sandboxes, failures>>
vars == <<hubVars, monitorVars, process, local>>

Pc == {"idle", "wait", "classify", "unroutable", "permit", "blocked",
       "unprepared", "manifest", "blueprint", "prepared", "dispatch",
       "started", "slot", "container", "completed", "call", "failed",
       "respond", "announce", "deliver", "teardown", "rescue"}

Idle == [pc |-> "idle", job |-> NoJob, route |-> Local, hold |-> FALSE,
         ok |-> FALSE, logged |-> {}]

TypeOK ==
  /\ HubTypeOK /\ MonitorTypeOK
  /\ phase \in {"monitor", "db", "hub", "check", "up"}
  /\ db \in BOOLEAN
  /\ jobs \in [Jobs -> {"new", "open", "held", "delivered", "failed"}]
  /\ waiting \subseteq Jobs
  /\ worker \in [pc: Pc, job: Jobs \cup {NoJob}, route: Routes \cup {Local},
                 hold: BOOLEAN, ok: BOOLEAN, logged: SUBSET {"permitted", "dispatched"}]
  /\ worker.job \notin waiting
  /\ active \subseteq Jobs
  /\ contexts \subseteq active
  /\ cancel \in [Jobs -> {"none", "emits", "teardown", "done"}]
  /\ sandboxes \subseteq Jobs \X (0..crashes)
  /\ crashes \in Nat /\ failures \in Nat

Init ==
  /\ HubInit /\ MonitorInit
  /\ phase = "monitor" /\ db = FALSE
  /\ jobs = [j \in Jobs |-> "new"]
  /\ waiting = {} /\ worker = Idle
  /\ active = {} /\ contexts = {}
  /\ cancel = [j \in Jobs |-> "none"]
  /\ sandboxes = {}
  /\ crashes = 0 /\ failures = 0

-----------------------------------------------------------------------------
(* The lifespan handler: startup in the order of the code.                 *)

StartMonitor ==
  /\ phase = "monitor" /\ phase' = "db"
  /\ ConstructMonitor(db)
  /\ UNCHANGED <<hubVars, db, crashes, local>>

InitDb ==
  /\ phase = "db" /\ phase' = "hub"
  /\ db' = TRUE
  /\ UNCHANGED <<hubVars, monitorVars, crashes, local>>

StartHub ==
  /\ phase = "hub" /\ phase' = "check"
  /\ LoadHub
  /\ UNCHANGED <<monitorVars, db, crashes, local>>

\* The recovery pass re-queues some of the open jobs, then the hub checks
\* itself, then the pipeline starts.
Open ==
  /\ phase = "check" /\ phase' = "up"
  /\ waiting' \in SUBSET {j \in Jobs : jobs[j] = "open"}
  /\ StartupSelfCheck
  /\ UNCHANGED <<monitorVars, db, crashes, jobs, worker, registry, cancel,
                 sandboxes, failures>>

\* All memory is lost; a sandbox directory of a running container stays.
Crash ==
  /\ crashes < MaxCrashes
  /\ crashes' = crashes + 1
  /\ phase' = "monitor" /\ db' = FALSE
  /\ waiting' = {} /\ worker' = Idle
  /\ active' = {} /\ contexts' = {}
  /\ cancel' = [j \in Jobs |-> IF cancel[j] = "none" THEN "none" ELSE "done"]
  /\ UNCHANGED <<hubVars, monitorVars, jobs, sandboxes, failures>>

-----------------------------------------------------------------------------
(* Requests and background tasks that run beside the pipeline.             *)

HubRequest ==
  /\ phase = "up"
  /\ Suspend \/ Activate \/ RecordHeartbeat
  /\ UNCHANGED <<monitorVars, process, local>>

Age == HeartbeatAges /\ UNCHANGED <<monitorVars, process, local>>

Probe ==
  /\ phase = "up"
  /\ \E r \in Routes : ProbeRoute(r)
  /\ UNCHANGED <<hubVars, process, local>>

Submit(j) ==
  /\ jobs[j] = "new"
  /\ jobs' = [jobs EXCEPT ![j] = "open"]
  /\ waiting' = waiting \cup {j}
  /\ UNCHANGED <<worker, registry, cancel, sandboxes, failures>>

\* Before or after the delivery, once per job.
BeginCancel(j) ==
  /\ jobs[j] \in {"open", "held", "delivered"} /\ cancel[j] = "none"
  /\ Cardinality({k \in Jobs : cancel[k] # "none"}) < MaxCancels
  /\ cancel' = [cancel EXCEPT ![j] = "emits"]
  /\ UNCHANGED <<jobs, waiting, worker, registry, sandboxes, failures>>

\* human.override and job.failed or job.revoked emitted: the job is failed (or
\* revoked) and its context, if it has one now, popped.
CancelEmitted(j) ==
  /\ cancel[j] = "emits"
  /\ jobs' = [jobs EXCEPT ![j] = "failed"]
  /\ contexts' = contexts \ {j}
  /\ cancel' = [cancel EXCEPT ![j] = IF j \in contexts THEN "teardown" ELSE "done"]
  /\ UNCHANGED <<waiting, worker, active, sandboxes, failures>>

\* worker.teardown emitted: whatever the worker is doing.
CancelTornDown(j) ==
  /\ cancel[j] = "teardown"
  /\ active' = active \ {j}
  /\ cancel' = [cancel EXCEPT ![j] = "done"]
  /\ UNCHANGED <<jobs, waiting, worker, contexts, sandboxes, failures>>

Failure == failures < MaxFailures /\ failures' = failures + 1

CancelRaises(j) ==
  /\ Failure
  /\ cancel[j] \in {"emits", "teardown"}
  /\ cancel' = [cancel EXCEPT ![j] = "done"]
  /\ UNCHANGED <<jobs, waiting, worker, registry, sandboxes>>

-----------------------------------------------------------------------------
(* The pipeline.  Each action is the run of code that starts when the      *)
(* await named by the program point returns.                               *)

At(pc) == worker.pc = pc
Go(pc) == worker' = [worker EXCEPT !.pc = pc]

Settle(status) == jobs' = [jobs EXCEPT ![worker.job] = status]

\* emit_durable has returned: the event is in the log.
Logged(kind) == worker.logged \cup {kind}

Sandbox == <<worker.job, crashes>>

Take ==
  /\ At("idle")
  /\ \E j \in waiting :
       /\ waiting' = waiting \ {j}
       /\ worker' = [Idle EXCEPT !.pc = "wait", !.job = j]
  /\ UNCHANGED <<jobs, registry, cancel, sandboxes, failures>>

\* The worker loop polls the hub before a job, and only there.
Start ==
  /\ At("wait") /\ hub = "active"
  /\ Go("classify")
  /\ UNCHANGED <<jobs, waiting, registry, cancel, sandboxes, failures>>

\* job.classified emitted; the breaker is read in the same run.
Classified ==
  /\ At("classify")
  /\ \E r \in Routes \cup {Local} :
       worker' = [worker EXCEPT !.route = r,
         !.pc = IF r = Local \/ IsRouteAvailable(r) THEN "permit" ELSE "unroutable"]
  /\ UNCHANGED <<jobs, waiting, registry, cancel, sandboxes, failures>>

\* The job ends before a worker exists: route_unavailable, permission_denied
\* or worker_preparation_failed.
Refuse ==
  /\ worker.pc \in {"unroutable", "blocked", "unprepared"}
  /\ Settle("failed")
  /\ worker' = Idle
  /\ UNCHANGED <<waiting, registry, cancel, sandboxes, failures>>

\* What check_permission may answer the pipeline: whatever level and policy
\* the capability has.
Answers ==
  {CheckPermission([l \in Levels |-> policy], level, PipelineContext) :
     level \in Levels \cup {Suspended}, policy \in Policy}

\* wal.permission_check emitted.  Only a block stops the job; pre_action and
\* cost_approval holds go on ("v1 stub mode").  prepare_worker then looks at
\* the capability's status again, which may have changed.
Permitted ==
  /\ At("permit")
  /\ \E answer \in Answers :
       \/ answer.result = "blocked" /\ Go("blocked")
       \/ /\ answer.result # "blocked"
          /\ \E next \in {"manifest", "unprepared"} :
               worker' = [worker EXCEPT !.pc = next, !.hold = HoldsResult(answer),
                                        !.logged = Logged("permitted")]
  /\ UNCHANGED <<jobs, waiting, registry, cancel, sandboxes, failures>>

\* manifest.validated emitted: invalid, no blueprint, or a blueprint.
ManifestValidated ==
  /\ At("manifest")
  /\ \E next \in {"unprepared", "blueprint"} : Go(next)
  /\ UNCHANGED <<jobs, waiting, registry, cancel, sandboxes, failures>>

\* sandbox.blueprint_created emitted: the lifecycle registers the context.
BlueprintCreated ==
  /\ At("blueprint")
  /\ active' = active \cup {worker.job}
  /\ Go("prepared")
  /\ UNCHANGED <<jobs, waiting, contexts, cancel, sandboxes, failures>>

\* worker.prepared emitted: the job manager registers it too.
Prepared ==
  /\ At("prepared")
  /\ contexts' = contexts \cup {worker.job}
  /\ Go("dispatch")
  /\ UNCHANGED <<jobs, waiting, active, cancel, sandboxes, failures>>

\* job.dispatched emitted: to a worker container, or to the egress gateway or
\* the local model.
Dispatched ==
  /\ At("dispatch")
  /\ \E next \in IF worker.route = Local THEN {"started", "call"} ELSE {"call"} :
       worker' = [worker EXCEPT !.pc = next, !.logged = Logged("dispatched")]
  /\ UNCHANGED <<jobs, waiting, registry, cancel, sandboxes, failures>>

ExecutionStarted ==
  /\ At("started")
  /\ Go("slot")
  /\ UNCHANGED <<jobs, waiting, registry, cancel, sandboxes, failures>>

\* WorkerExecutor.execute: a slot, or the timeout of the semaphore.
AcquireSlot ==
  /\ At("slot")
  /\ \/ Go("container") /\ sandboxes' = sandboxes \cup {Sandbox}
     \/ Go("completed") /\ UNCHANGED sandboxes
  /\ UNCHANGED <<jobs, waiting, registry, cancel, failures>>

\* Mutant: the directory of a container that timed out is kept.
CleanupOnSuccess(ok) == IF ok THEN sandboxes \ {Sandbox} ELSE sandboxes

\* _cleanup_sandbox_dir, in the finally clause of _execute_sync.
Cleanup(ok) == sandboxes \ {Sandbox}

\* The sidecar's answer: a result, a failure (timeout, exit code, no
\* result.json), or WorkerExecutionError, for which no
\* worker.execution_completed is emitted.
ContainerEnds ==
  /\ At("container")
  /\ \E ok \in BOOLEAN :
       /\ sandboxes' = Cleanup(ok)
       /\ \/ worker' = [worker EXCEPT !.pc = "completed", !.ok = ok]
          \/ ~ok /\ Go("failed")
  /\ UNCHANGED <<jobs, waiting, registry, cancel, failures>>

Completed ==
  /\ At("completed")
  /\ Go(IF worker.ok THEN "respond" ELSE "failed")
  /\ UNCHANGED <<jobs, waiting, registry, cancel, sandboxes, failures>>

CallAnswered ==
  /\ At("call")
  /\ \/ Go("respond")
     \/ worker.route # Local /\ Go("failed")
  /\ UNCHANGED <<jobs, waiting, registry, cancel, sandboxes, failures>>

\* Mutant: a failed job returns without the teardown.
AfterFailureReturn == "idle"

AfterFailure == "teardown"

Failed ==
  /\ At("failed")
  /\ Settle("failed")
  /\ Go(AfterFailure)
  /\ UNCHANGED <<waiting, registry, cancel, sandboxes, failures>>

\* model.response and job.response_received emitted.  A held job is
\* proposal_ready before its event.
Responded ==
  /\ At("respond")
  /\ \/ worker.hold /\ Settle("held") /\ Go("announce")
     \/ ~worker.hold /\ Go("deliver") /\ UNCHANGED jobs
  /\ UNCHANGED <<waiting, registry, cancel, sandboxes, failures>>

\* job.proposal_ready or job.delivered emitted.
Finished ==
  /\ \/ At("announce") /\ UNCHANGED jobs
     \/ At("deliver") /\ Settle("delivered")
  /\ Go("teardown")
  /\ UNCHANGED <<waiting, registry, cancel, sandboxes, failures>>

\* worker.teardown emitted, on the normal path or in the exception handler.
TornDown ==
  /\ worker.pc \in {"teardown", "rescue"}
  /\ active' = active \ {worker.job}
  /\ contexts' = contexts \ {worker.job}
  /\ worker' = Idle
  /\ UNCHANGED <<jobs, waiting, cancel, sandboxes, failures>>

-----------------------------------------------------------------------------
(* An awaited call raises.  Whether its event reached the log makes no     *)
(* difference here.                                                        *)

\* In prepare_worker: the job fails, and a context that was registered
\* before its worker.prepared event stays registered.
PreparationRaises ==
  /\ Failure
  /\ worker.pc \in {"manifest", "blueprint", "prepared"}
  /\ Settle("failed")
  /\ worker' = Idle
  /\ UNCHANGED <<waiting, registry, cancel, sandboxes>>

\* In execute_in_worker: caught by the pipeline, which fails the job.
ExecutionRaises ==
  /\ Failure
  /\ worker.pc \in {"started", "completed"}
  /\ Go("failed")
  /\ UNCHANGED <<jobs, waiting, registry, cancel, sandboxes>>

\* Anywhere else: the exception handler of _worker_loop fails the job unless
\* it is delivered, and tears down the context the job manager knows.
PipelineRaises ==
  /\ Failure
  /\ worker.pc \in {"classify", "unroutable", "permit", "blocked", "dispatch",
                    "call", "failed", "respond", "announce", "deliver", "teardown"}
  /\ IF jobs[worker.job] = "delivered" THEN UNCHANGED jobs ELSE Settle("failed")
  /\ contexts' = contexts \ {worker.job}
  /\ worker' = IF worker.job \in contexts
               THEN [worker EXCEPT !.pc = "rescue"] ELSE Idle
  /\ UNCHANGED <<waiting, active, cancel, sandboxes>>

\* The teardown of the exception handler raises: logged.
RescueRaises ==
  /\ Failure
  /\ At("rescue")
  /\ worker' = Idle
  /\ UNCHANGED <<jobs, waiting, registry, cancel, sandboxes>>

-----------------------------------------------------------------------------

Handlers ==
  \E j \in Jobs :
    \/ Submit(j) \/ BeginCancel(j)
    \/ CancelEmitted(j) \/ CancelTornDown(j) \/ CancelRaises(j)

Pipeline ==
  \/ Take \/ Start \/ Classified \/ Refuse \/ Permitted
  \/ ManifestValidated \/ BlueprintCreated \/ Prepared
  \/ Dispatched \/ ExecutionStarted \/ AcquireSlot \/ ContainerEnds
  \/ Completed \/ CallAnswered \/ Failed \/ Responded \/ Finished \/ TornDown
  \/ PreparationRaises \/ ExecutionRaises \/ PipelineRaises \/ RescueRaises

Next ==
  \/ StartMonitor \/ InitDb \/ StartHub \/ Open \/ Crash
  \/ HubRequest \/ Age \/ Probe
  \/ /\ phase = "up"
     /\ Handlers \/ Pipeline
     /\ UNCHANGED <<hubVars, monitorVars, process>>

Spec == Init /\ [][Next]_vars

-----------------------------------------------------------------------------
(* Properties                                                              *)

\* A job enters the pipeline only while a human's word lets the hub run: not
\* after a suspend until a resume or a confirmation, in whatever process, and
\* not in a process that started without a recent heartbeat and has not been
\* confirmed ("Switching is a human decision", hub_state.py).
StartsAreMandated ==
  [][worker.pc = "wait" /\ worker'.pc = "classify" => mandate = "run"]_vars

\* Nothing is executed, in a container, at the gateway or by the local model,
\* before this process's permission and dispatch events are in the audit log
\* (check_permission: "MUST NOT proceed until the audit event is fsync'd").
ExecutionIsAudited ==
  worker.pc \in {"started", "slot", "container", "completed", "call"} =>
    worker.logged = {"permitted", "dispatched"}

\* A context no coroutine is going to tear down is the trace of a call that
\* raised: the registry of WorkerLifecycle leaks at most one per failure,
\* however cancels and the pipeline overlap.
Owned(j) ==
  \/ worker.job = j /\ ~At("idle")
  \/ cancel[j] = "teardown"
ContextsAccounted == Cardinality({j \in active : ~Owned(j)}) <= failures

\* Every process leaves at most one sandbox directory behind, the one whose
\* container ran when the process died; the living one has one only while its
\* container runs.
SandboxesAccounted ==
  /\ \A p \in 0..crashes : Cardinality({s \in sandboxes : s[2] = p}) <= 1
  /\ \A s \in sandboxes : s[2] = crashes => At("container") /\ s = Sandbox

-----------------------------------------------------------------------------
(* What a comment or a document says and the code does not do.             *)

\* hub_state.py: "Hub suspension signals prevent zombie execution on the
\* demoted hub."  The hub is not asked again once a job is in the pipeline.
SuspendedHubIsQuiet ==
  [][worker.pc = "dispatch" /\ worker'.pc \in {"started", "call"} => hub = "active"]_vars

\* STATUS.md: the circuit breaker state is persisted to SQLite.  The monitor
\* is constructed before init_db, when no database path is known.
BreakerIsPersisted == phase = "up" => circuitRow = health
=============================================================================
