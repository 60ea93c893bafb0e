# DRNT Gateway: TLA+ specifications

The gateway accepts jobs from a phone or a watch, classifies them, decides by
capability and policy whether and where they may run, executes them on a local
model or through an egress proxy in the cloud, holds results for human review,
and writes every step to a hash-chained audit log before it counts as done.
This directory holds TLA+ modules of its core, the TLC configurations that
check them on small instances, and TLAPS proofs about them.

`tlc -config X.cfg MCY.tla` runs a configuration, `tlapm YProofs.tla` checks a
proof module. `PROJECT.json` lists components, runs, theorems, the source lines
every definition models, the hazards of the code, and for each property a
mutation of the code that breaks it.

## 1. The system

Four processes matter. The **orchestrator** is one asyncio process: request
handlers, one pipeline worker and background tasks are coroutines that run
without interference between two `await`s. The **audit-log-writer** is a
single-threaded service that owns the log files and handles one connection at a
time. The **worker-proxy** runs a thread for every worker container and a
collector for those whose thread could not remove them. The **egress-gateway**
is an asyncio service between the orchestrator and the cloud providers. All are
restarted by Docker (`restart: unless-stopped`).

| component | state | operations | talks to | what makes it hard | what makes it correct |
|---|---|---|---|---|---|
| Job manager `job_manager.py` | jobs in memory, `jobs` rows, bounded queue, worker contexts | submit, override (cancel, redirect, escalate, modify), review (approve, edit, reject, defer, decline), pipeline worker | audit client, permission checker, workers, hub, monitor | handlers and pipeline work on one job and each awaits an event between its check and its assignment; crashes | one override per job, review excludes override, one successor, nothing delivered that was held, no settled row without its event, bounded re-dispatch, every job settles |
| Stale recovery `stale_recovery.py` | none (walks the jobs) | `run_recovery`, job by job | job manager, audit client | crash loops, full queue, the age threshold | the cap survives every crash; a guard is kept |
| Deduplication `idempotency_store.py`, `source_event.py` | `idem:` and `srcevent:` rows and their caches | reserve, release, look up, purge at start | job manager, SQLite | one database and several caches; failing emits after a reservation; restarts | one job per source event, truthful replays, no poisoned event, waiting ends |
| Audit trail `audit-log-writer/`, `audit_client.py` | daily files, chain head, sequence, deduplication set, best-effort buffer | append, flush, rollover, recover; emit with retries | everybody | death between write and answer, retries over midnight, buffered lines chained before they are written | the chain verifies, acknowledged means logged, logged once |
| Audit integrity `audit_integrity.py`, `startup_validator.py` | quarantine directory | classify, repair tail, startup gate | the log files | a repair that dies half-way; windows over re-anchored files | nothing is erased uncopied, a repair never worsens, no false alarm |
| Trust levels `capability_state.py`, `startup.py`, `demotion_engine.py`, `capability_registry.py` | `capabilities.state.json`: level, suspension, outcomes, hash and model last seen | startup reconciliation, demotion by override, failure, strip, decay, model change | audit client, Ollama | deaths between two saves, overlapping demotions, unanswered model queries | levels rise only by an audited grant, evidence belongs to the level, a model change demotes |
| Promotion monitor `promotion_monitor.py` | none | evaluate counters, recommend | trust levels | - | counts only outcomes of this level |
| Admin routes `admin_routes.py` | none | test and operator triggers of the engine | demotion engine | overlapping calls | - |
| Hub state `hub_state.py` | ACTIVE, SUSPENDED or AWAITING_AUTHORITY, last heartbeat | suspend, resume, confirm authority, self-check | job manager, audit client | events in tasks nobody awaits; restart while suspended | no dispatch without authority |
| Connectivity monitor `connectivity_monitor.py` | per-route circuit breaker | probe, record, status | job manager | thresholds in both directions | hysteresis |
| Permission checker `permission_checker.py` | none | decide held, refused, allowed | job manager, trust levels | rule order | fail closed |
| Decay and pipeline evaluators | none | pure functions without a production caller | - | - | - |
| Context packager `context_packager.py` | spans and the rewritten text of one call | scan, merge, transform, audit | job manager, audit client | matches nest, touch and chain; the text exists before its events do | the provider sees nothing a pattern matched, and nothing undeclared |
| Classifier `classifier.py` | none | text to route | job manager, Ollama | - | - |
| Workers `worker_lifecycle.py`, `worker_executor.py`, `worker_context.py` | contexts, sandbox directories | prepare, execute, teardown | job manager, worker proxy | failure between steps; the HTTP call gives up while the container runs | every context is torn down; a result is that of its own worker |
| Blueprints, manifests `blueprint_engine.py`, `manifest_validator.py`, `runtime_manifest.py` | none | capability to container description | workers | - | - |
| Worker proxy `worker-proxy/main.py`, agent `worker_agent.py` | containers (in Docker) | create, start, wait, logs, kill, remove; collect | workers, Docker | every call may raise or time out; the collector races the threads; deaths orphan containers | containers do not outlive their threads unaccounted, orphans are collected, runs are spared |
| Egress gateway `egress-gateway/` | sliding windows, registry, secrets | authorise, check, call | job manager, providers | two timeouts, 60 s and 90 s; restarts forget the window | the limit is never exceeded; success means an answer |
| Egress proxy `egress_proxy.py`, `egress_rate_limiter.py`, `registry.py` | sliding windows | authorise | (no caller in production) | - | - |
| HTTP application `main.py` | the object graph | start-up order, routes | all | order of start-up steps | recovery before serving |

How a job flows: `POST /jobs` reserves the source event, emits `job.submitted`
durably, stores the row, enqueues. The worker takes it, classifies, checks route
and permission, prepares a worker context, dispatches, records the response, and
then delivers or holds it as a proposal. Meanwhile an override may cancel or
replace it and a review may decide the proposal. At every arrow the event comes
first and the state after, or the reverse where the code says so, and a death may
fall in between.

## 2. Modules

| module | what it is |
|---|---|
| `FirstWriter` | abstract: a family of registers, each written at most once |
| `JobManager` | pipeline worker, override and review handlers, crash, restart, recovery |
| `SubmitDedup` | `POST /jobs` over the idempotency store, in one or several processes |
| `AuditLog` | audit client, log writer, verifier, repair tool, startup gate |
| `Trust` | capability state, startup reconciliation, demotion engine, the job manager's own demotions |
| `HubState` | the hub's authority: transitions, rows, self-check |
| `ConnectivityMonitor` | one circuit breaker per cloud route |
| `PermissionChecker` | the permission check as operators |
| `WorkerDispatch` | composes the last three with the pipeline, the worker's lifecycle and a cancel |
| `WorkerCall` | abstract: what the pipeline is promised by one execution in a worker |
| `WorkerProxy` | the worker-proxy's threads and collector, Docker's containers, the agent |
| `WorkerExecutor` | composes it with `WorkerExecutor.execute`; implements `WorkerCall` |
| `ContextPackager` | `package()`: matches, merging, rewriting, declaration |
| `EgressGateway` | `POST /dispatch` of the gateway and its rate limiter |
| `CloudDispatch` | composes the last two with the cloud branch of the pipeline |
| `MCJobManager`, `MCSubmitDedup`, `MCAuditLog`, `MCTrust`, `MCWorkerDispatch`, `MCWorkerExecutor`, `MCCloudDispatch` | model values, symmetry and bounded inputs for TLC |
| `JobManagerProofs`, `JobGuardProofs`, `SubmitDedupProofs`, `AuditLogProofs`, `WorkerDispatchProofs`, `WorkerExecutorProofs`, `CloudDispatchProofs`, `TrustProofs` | TLAPS proofs |

Common conventions. One action is one run of a coroutine from the return of the
awaited call to its next `await`; the program counter of a request, the worker
or a submission names the `await` it is at. An awaited call that raises is an
action of its own, and its event may or may not have reached the log. Requests
are one-shot: a request is a handler, its arguments and its answer. The log is
kept as the set of events the properties tell apart.

### JobManager

`mem` is `_jobs`, `db` the `jobs` table, both holding the four fields that
decide something (`status`, `override_type`, `review_decision`,
`recovery_dispatch_count`). `queue`, `worker`, `ctx` are the asyncio queue, the
single worker coroutine and the active contexts. `phase` and `todo` carry the
lifespan of `main.py`: down, recovering, saving, up. `outcome` is the stored
answer of an idempotent review, `req` the human requests, `trail` the log.
`runs`, `crashes` and `failures` are history.

`Submit` is the tail of `_create_job` after its emit (the rest is SubmitDedup).
`BeginOverride`, `OverrideEmitted`, `SuccessorEmitted`, `OverrideRevokes`,
`BeginModify`, `ModifyReviewed`, `ModifyDelivers`, `OverrideReplies` and
`OverrideFails` are the stretches of `override_job`; `BeginReview`,
`ReviewEmitted`, `ReviewSettles`, `ReviewCloses`, `ReviewReplay`,
`ReviewRefused` those of `review_job`; `WTake` to `WTeardown` those of
`_worker_loop` and `_run_pipeline`, `WRaises` its exception handler. `Crash`,
`Boot`, the `Recover*` actions, `BeginSaving`, `SaveJob` and `Open` are a
restart. `response_received` and `proposal_ready` are two SQLite commits of one
synchronous run, so only a crash can see between them: that is the program point
`hold`, at which no other coroutine moves. The permission check, the routing and
the execution are choices.

### SubmitDedup

`idem`, `src` are the two caches of every process, `idemRow`, `srcRow` their
rows, `mem`, `row` the jobs in memory and in the table, `sub` the submissions.
`SubmitWithKey` and `SubmitSourceEvent` are the entry of `submit_job`;
`Reserve` and `FindReserved` the two outcomes of
`check_and_store_source_event` under the per-event lock (`LockFree`); `Poll`,
`ConflictEmitted`, `ConflictRaises` the losers; `Accept`, `AcceptQueueFull`,
`SubmitRaises` the winner, with the rollback (`Release`). `Progress` stands for
everything that writes a job again (to any status: pipeline and handlers
overwrite each other), `Boot` for loading and purging.
`Persist` deletes the row of another job with the same key, as
`INSERT OR REPLACE` on a UNIQUE column does.

### AuditLog

`disk` is the concatenation of the daily files; a line is its identity, the
identity it is chained to, its day, and whether it can be parsed. The writer is
`pc`, `cur`, `prev_hash`, `seen`, `be_buffer`; `queue` is the kernel's backlog;
`cl` are the emit calls with their attempts. `TakeDuplicate`,
`TakeBestEffort`, `TakeDurable`, `WriteDurable`, `Ack` are the writer's loop;
`Flush`, `Midnight`, `Stop`, `Crash`, `CrashTorn`, `SyncFails` and its
recovery complete it. `Classify` is `audit_integrity.classify`, `RepairPlan`,
`RepairCopy`, `RepairCut`, `RepairRemove`, `RepairAbort` are `repair_tail` step
by step, `GatePasses` is the chain check of the startup validator. The quarantine
file bears a stamp in seconds and is opened to be overwritten: `Stored` lets a run
either open a file of its own or, within the same second, replace the copy of the
run before (`newest`). The newer files are unlinked one after the other in the
code and together in `RepairRemove`; all of them have been copied by then.

### Trust

`st` is the state file (every mutator of the manager ends in a save, so memory
and file agree between mutators), `config` and `model` the world an operator
changes, `pc`, `todo`, `reg`, `seen` the startup sequence, `call` the calls that
wait for the event of a level change, `log` the net and the last grant of the
audited level changes. `Boot`, `Reconcile*`, `ReadModel`, `Finish` are
`startup.run`; `Override`, `JobFailure`, `Strip`, `Decay`, `ModelChange` the
handlers of the engine, each ending in `EmitDone` or `EmitFails`;
`TornDemotion` and `TornPromotion` are deaths between the two saves of one
transition. The model change loop looks at every capability when it reaches it:
`EmitDone` goes on to any that is not at 0 now, passing any that are.

A cancel or redirect does not go through the engine: the job manager has a
function of its own, `_demote_for_override`, which logs `wal.demoted` from 0 to
-1 and leaves the state alone (`DemoteForOverride`). `handle_override_demotion`
(`Override`), which does lower the level, is called by `/admin/simulate-override`
only. The history variable `overrides` counts the job manager's demotions;
no guard reads it.

### HubState, ConnectivityMonitor, PermissionChecker

`hub` and `hubRow` are the state and its row, `recent` says whether the
persisted heartbeat is younger than the authority timeout (`HeartbeatAges` is
time passing), and `mandate` remembers the human's last word that still counts.
`health` and `circuitRow` are the breaker's counters and state with their rows;
`attached` says whether the monitor has a database; `probes` is the history of
this process's probe results, of which `Verdict` is the specification: closed
unless the last run of `FAILURES_TO_OPEN` failures ended after the last run of
`SUCCESSES_TO_CLOSED` successes. `CheckPermission` is `check_permission` from
the policy of one action at every level, the effective level and the context of
the job to result, hold type and delivery hold.

### WorkerDispatch

The same pipeline as in `JobManager`, seen from the components it calls: here
the permission answer, the breaker and the hub are no choices but the modules
above, and every await of `WorkerLifecycle` is a step. In exchange a job's row
is reduced to what decides whether a cancel is taken, and overrides to their
effect on contexts. `phase`, `db` are the start-up in the order of `main.py`
(monitor, database, hub, recovery and self-check), `worker` is the coroutine
with the events it has waited for, `active` and `contexts` are the two
registries of contexts, the lifecycle's and the job manager's, `cancel` the
cancels, `sandboxes` the directories on the shared volume with the process that
made them. `Take` and `Start` are `_worker_loop`; `Classified` to `Permitted`
and `Dispatched` to `Finished` are `_run_pipeline`; `ManifestValidated`,
`BlueprintCreated`, `Prepared`, `ExecutionStarted`, `Completed` and `TornDown`
are the lifecycle; `AcquireSlot` and `ContainerEnds` the executor. The four
`...Raises` actions are the four places that catch an exception. What recovery
makes of jobs it does not re-queue is left to `JobManager`.

### WorkerCall, WorkerProxy, WorkerExecutor

Here the container behind the step `ContainerEnds` of `WorkerDispatch` is opened
up. An attempt is one execution of a job in a worker (`worker_id`); its
container and its sandbox directory bear its name. `thread` is the Docker call
`_run_container_sync` is in, `container` Docker's state, `age` the ticks since
the exit, `outbox` the directory with its `result.json` and who wrote it,
`doomed` the list of the running sweep. Every call to Docker (`Create`, `Start`,
`WaitReturns`, `ReadLogs`, `Kill`, `Remove`) has a sibling that raises or times
out, and where the daemon may have done the work before the timeout, it is a
choice whether it did. `AgentWrites` and `AgentExits` are the agent, `GcList`
and `GcRemove` the two halves of a sweep. `pc`, `current`, `outcome` and
`returned` are `_execute_sync`: `Execute`, `Post`, one of `PostFails`,
`Answered` and `PostTimesOut`, then `Cleanup`. `ProxyDies` and `Crash` are the
deaths of the two processes; the containers live on. `WorkerCall` knows neither
containers nor files: a call starts, ends, and ends with a result only if its
own worker computed it; `KeepsPromise` is that refinement, with liveness.

### ContextPackager, EgressGateway, CloudDispatch

A text is the positions of its characters, a match (`Span`) an interval with an
action; which intervals the regular expressions find is any set (`Scans`).
`AddSpan`, `ExtendSpan` are one iteration of `_merge_overlapping_spans` in the
order of its sort, `Transform` one of `_transform_text`; `copied`, `general` and
`passed` say which characters reach the payload and how. `Packaged` and `Detail`
are the awaited events. `EgressGateway` has the handlers (`handler`, `reply`),
the limiter's `window` with the age of each stamp, what the operator configured
(`token`, `admits`, `equipped`), and `spent`, the calls this process made to
the provider. From the token check to the call there is no await: `Dispatch` is
one step. `CloudDispatch` is the cloud branch of `_run_pipeline`: `Packaging`,
`Post`, `Answered`, with `EmitRaises`, `PostFails` (no connection, or the 60 s
are over while the gateway goes on), `Crash` and `GatewayRestarts`.

## 3. What the runs check

### Runs that hold

| run | instance | distinct states | it shows |
|---|---|---|---|
| `JobOverlap` | one job, two requests (each may mint a successor), one decision key, queue of 1, fair | 531 155 | whoever wins, one override, one successor, never review and override together; a held result is delivered only after a review; every accepted job leaves the pipeline |
| `JobCrash` | one job, one request, two crashes, one failing call | 906 485 | settled rows have their event; the dispatch cap survives crashes inside recovery; `override_type` implements `FirstWriter` |
| `Dedup` | three submissions, one process, one key, one event, two intents, one crash, two failing emits, fair | 272 451 | replays are truthful, no event is poisoned, every waiting submission is answered, the store implements `FirstWriter` per event |
| `AuditLog` | two durable events and a best-effort one, two attempts each, three days, two deaths, one torn line or failed fsync, a repair | 3 513 266 | the chain verifies; an acknowledged event is logged, and once; the gate raises no false alarm; repair erases nothing uncopied and never worsens |
| `WorkerDispatch` | two jobs, one route, four probes per process (thresholds 2 and 2), one cancel, one crash, one failing call | 3 143 560 | a job starts only while a human's word lets the hub run, in whatever process; a context is leaked only by a call that raised, a sandbox directory only by a crash; the breaker is the hysteresis over this process's probes |
| `WorkerExecutor` | two executions, one death (proxy or orchestrator), one failing Docker call, ages up to 2 ticks, Docker prompt in 1, fair | 261 690 | a success carries this execution's own result although others still run, and every call ends (`WorkerCall`); a sweep never takes a container from a waiting thread; containers outlive a living proxy's threads only one per failed call; every container that was started is gone in the end |
| `CloudDispatch` | two jobs, a text of 3 characters, every set of up to 3 matches, one request per window of 2 ticks, one crash, one failing emit, one gateway restart | 4 734 194 | however matches overlap, the provider sees nothing a pattern matched and loses no other character; everything was declared before; the limit holds, abandoned calls included; a success is an answer |
| `Trust` | two capabilities, two overlapping calls, five of the bounded things (edits, deaths, outages, failing events, outcomes, calls) | 2 530 497 | levels rise only by an audited grant, evidence is fresh, the log is off the level by the job manager's own demotions and by nothing else, a model change demotes |

### Runs that show a disagreement with a document

| run | violated | what happens |
|---|---|---|
| `JobCancel` | `CancelIsFinal` | a cancel is answered with success while the pipeline awaits; the pipeline goes on, overwrites `failed` and delivers (`job_manager.py:1396`) |
| `JobHeldCrash` | `HeldNeedsReview` | a crash between the commits of `response_received` and `proposal_ready`: recovery delivers the held result (`stale_recovery.py:275`) |
| `DedupKeyRace` | `OneJobPerKey` | two overlapping submissions with one key: the key is known, its job is not yet, and the second creates a job of its own (`job_manager.py:500`) |
| `TrustOutage` | `ModelChangeDemotes` | a startup that Ollama does not answer stores "no model", and the next one compares with nothing (`startup.py:352`) |

### Bounds, and why they are enough

The guards of `JobManager` are per job, and every race in it is between two
handlers, or a handler and the pipeline, of one job: two requests and one job
with its successors contain all of them, and the successors already exercise
several jobs in the queue. Queue length 1 makes "full" reachable for recovery
and successors. Two crashes allow a crash during the recovery from the first.
One failing call suffices because a failure ends its handler. The overlap and
the crash runs are separate because their product is out of reach; the theorems
of section 4 cover it. In `SubmitDedup` three submissions give a winner, a
loser and a late replay, and two failing emits let a retry fail as well; several
processes on one database are the subject of the theorems, which hold for any
number of them. In `AuditLog`
three days make the deduplication window (yesterday and today) end, three events
and a window of 2 make the gate's window straddle a file. In `Trust` a ring of
one outcome, a threshold of 2 and desired levels 0 and 3 keep every branch; the
total bound `MaxTotal` cuts combinations, not kinds. In `WorkerDispatch` the
pipeline runs one job at a time, so a second job only meets what the first left
behind; two failures allow a failing teardown after a failing step; four probes
with thresholds 2 and 2 (the code's are 2 and 3) take the breaker through
closed, open, half open and closed again. In `WorkerExecutor` the race is
between one execution and what an earlier one left running, so two are enough;
an age limit of 2 above an answer within 1 is the smallest with the code's
order: the collector takes containers of 300 s, a `wait` ends after at most
`wall_timeout`, which is 120 s in the manifests of `worker_lifecycle.py`, and
`logs` after the 60 s of docker-py. In `CloudDispatch` three matches in three characters
can nest, touch, chain and coincide, with any actions; a limit of 1 in a window
of 2 puts two calls on either side of its edge.

Symmetry is over model values that no definition distinguishes, and is not used
in the runs with liveness.

`CHECK_DEADLOCK FALSE` appears in the audit and trust runs only: there the days,
calls and crashes of the instance simply run out (in `WorkerDispatch` the hub can
always be suspended and resumed, in `WorkerExecutor` and `CloudDispatch` time
can always pass). `JobManager` and
`SubmitDedup` have an explicit `Quiescent` step, enabled only when everything is
settled, so for them TLC's deadlock check means that nobody is stuck.

### Fairness

`JobOverlap` assumes weak fairness of the event loop as a whole: if a coroutine
can run, one will. That is all asyncio promises at this level, and it is enough
because no handler waits for another without a bound. `Dedup` assumes it of every
submission's handler: the loop resumes every coroutine whose await has returned,
and every await returns, since an emit makes three attempts of five seconds each
and then raises, and polls are counted. `WorkerExecutor` assumes weak fairness
of every thread (a Docker call returns or its client raises, a wait after
`wall_timeout`, the others after 60 s), of the agent's exit (its call of Ollama has a timeout, and a
container that was killed exits), of the HTTP client's timeout, of the sweep, of
time and of the proxy's restart. Nothing is assumed of what the agent writes.
Strong fairness is nowhere assumed. Humans are never assumed to act.

## 4. Proofs

| theorem | module | statement |
|---|---|---|
| `TypeCorrect` | `JobManagerProofs` | `Spec => []TypeOK` |
| `AuditBeforeState` | `JobManagerProofs` | `SettledIsAudited` |
| `OverrideOnce`, `ReviewOrOverride`, `GuardsDurable`, `SuccessorOnce` | `JobGuardProofs` | the guard properties of `JobManager` |
| `OverrideForEver` | `JobGuardProofs` | `override_type` implements `FirstWriter` |
| `RunsAreBounded` | `JobGuardProofs` | `RunsBounded`, for any cap and any number of crashes |
| `HeldUntilReviewed` | `JobGuardProofs` | `HeldNeedsReview` as long as no process has died |
| `DedupType` | `SubmitDedupProofs` | `Spec => []TypeOK` |
| `EventIsOneJob`, `ReplayTruthful`, `StoredAudited`, `MappingPermanent`, `NeverPoisoned` | `SubmitDedupProofs` | the identity properties of `SubmitDedup`, and `NotPoisoned` |
| `EventIsOneJobForEver` | `SubmitDedupProofs` | `SubmitDedup` implements `FirstWriter` |
| `TypeCorrect`, `GateNoFalseAlarm`, `Quarantined`, `RepairSafe` | `AuditLogProofs` | type, gate and repair of `AuditLog`, under every fault |
| `AlwaysVerifies`, `ExactlyOnce` | `AuditLogProofs` | the chain and the events of `AuditLog`, without faults of the disk |
| `DispatchType`, `StartsMandated`, `ExecutionAudited`, `SandboxesBounded`, `ContextsBounded` | `WorkerDispatchProofs` | type, the hub's mandate, the audited execution, the sandbox directories and the contexts of `WorkerDispatch` |
| `BreakerIsHysteresis` | `WorkerDispatchProofs` | `BreakerFollowsProbes`, for any thresholds |
| `Sound` | `WorkerDispatchProofs` | blocks are final, holds can be lifted, `required_level` is the first level that does not block |
| `TypeCorrect`, `CollectorSpares`, `Leftovers` | `WorkerExecutorProofs` | type, collector and leftover containers of `WorkerExecutor` |
| `ImplementsCall` | `WorkerExecutorProofs` | `WorkerExecutor` implements `WorkerCall` |
| `TypeCorrect`, `SuccessAnswered`, `RateIsBounded`, `SeenIsFiltered`, `SeenIsDeclared` | `CloudDispatchProofs` | every property of `CloudDispatch` that its run checks |
| `TypeCorrect`, `EvidenceIsFresh`, `LogOff`, `RiseGranted`, `AnsweredChangeDemotes` | `TrustProofs` | every property of `Trust` that its run checks |

With these, every invariant and every action property that a run checks is the
statement of a theorem.

All of them hold for any number of jobs, requests, keys, events, routes,
capabilities, probes, processes, containers, calls, crashes and failures, any length of text,
any set of matches and any rate limit. Assumptions, which TLC evaluates on every
run: `ConstantsAssumption` (the id sets are disjoint from each other and from the
"none" values, the queue has a place), `DedupAssumption` (`None` is no member of
any id set and neither of the replies "accepted" and "lost"), `ProxyAssumption`
(a thread whose container has exited is answered sooner than the collector's age
limit: `wait` and `logs` together take at most 120 + 60 s, against 300 s. This is a
matter of configuration: a request with a `wall_timeout` of 300 s, which the proxy
accepts and the orchestrator never sends, would make it an assumption about
Docker), `PackagerAssumption` (a match is a non-empty interval of the text),
`GatewayAssumption` and `CloudAssumption` (finitely many calls, a window that is
not empty), `TrustAssumption` (desired levels are 0 to 3, `context.package` is
registered, the overlapping calls are finitely many, limits and bounds are
numbers), `AuditAssumption` (durable events are events; retries, days and the
gate's window are at least 1), `DispatchAssumption` (`NoJob` is no job, the local
route no cloud route) and `MonitorAssumption` (thresholds are at least 1). `GuardsDurable`,
`EventIsOneJob`, `StoredAudited`, `MappingPermanent` and `ExecutionAudited` state
properties of their modules that no run lists, since the proof says more.

**Job manager.** `TypeOK` needs `RequestOK` (which operations may be at which
program point). The guard properties speak of the log and say nothing of the
handler that is about to write to it. `GuardInv` adds: an override handler that
won owns the `override_type` of its job's row (`OwnerOK`), a review handler
finds its decision there (`DecidedOK`), the two exclude each other
(`ExclusiveOK`), every human event in the log points back to the owner or the
decision (`TrailOK`), memory and row agree on both guards (`WrittenThrough`),
and all that can still run refers to jobs that are present (`LiveOK`, `DownOK`,
`FreshOK`). Most steps keep guards, requests, work and human events alike:
`CalmStep` proves the invariant for all of them at once, and the remaining
effort goes into arrivals, handlers and restarts.

`SettledIsAudited` is a matter of each write: `Backed` says of a record about to
be written that its status is not settled, or that its event is in the log after
the step, and records only travel between memory and table otherwise.
`OverrideIsFinal` follows from `GuardInv` step by step: the guard of a row is
either left alone or set from empty by the handler that won (`OverrideMoves`).

`RunsBounded` compares a history with a counter that lives in two places.
`RunsInv` states it for both (`StartsOK`): starts so far are at most one more than
the row's count, and starts plus the one a waiting job has still to come at most
one more than the memory's. It needs that no job waits twice (`QueueOnce`) and that
a successor is not queued before its event (`SpawnedOK`). A crash keeps only the
row's half, and recovery counts in memory; what saves the bound is that `main.py`
writes every job back before the worker runs, so that at a start row and memory
agree (`CountOK`).

`HeldNeedsReview` is false after a crash (run `JobHeldCrash`), so the theorem says
`crashes = 0 => HeldNeedsReview`; that is all the run `JobOverlap` checks too, and
no other hypothesis is made. `HeldInv` follows a job through its one pipeline run:
until it has an answer nothing is held (`EarlyOK`), a held answer exists only
between the two commits (`HoldOK`), and a handler that is about to deliver either
saw a job that is not held or has the review in the log (`MayDeliver`).

**Deduplication.** `OneJobPerEvent` does not say which submission may still
store a job. `IdentInv` adds the mapping: whoever is at its emit for an event,
and whoever has stored a job of it, is the job the `srcevent:` row names
(`Mapped`); an unanswered submission has stored nothing (`Unstored`); jobs with
an event have no client key, so no `INSERT OR REPLACE` deletes their row
(`Keyless`), and they are in the table as soon as in any memory (`RowFirst`).
`Release` then gives back only mappings of jobs nobody has stored
(`ReleaseEffect`), which is what makes the rollback safe in several processes.
`NotPoisoned` is about the opposite, a mapping that should have been given back:
`MappedAccounted` says that whoever holds a mapping has a row, is at its emit, or
died there, and each way a handler can end without a job either gives the mapping
back or finds it gone.

**Audit log.** Two invariants. `FaultyInv` holds whatever the disk does: types, the
days of the files ascend and are not in the future (`Calendar`), and a repair under
way is at the first break, with everything from there on in the quarantine
(`RepairOK`). With the lemmas on the first break of a chain, on what truncating
after it leaves and on windows of the last lines, that is enough for the gate and
the repair. `SoundInv` holds while `faults = 0`. It speaks of files and buffer as one
sequence, which is what flushing keeps: the sequence is a chain without repeated
events, the next line will be chained to its end or re-anchors a new file
(`Anchors`), whatever may still arrive was written recently enough for a restart to
find it (`Remembered`), the deduplication set is what the files and the buffer hold,
as far as it can still matter (`SeenOK`), and an answered event is in the files
(`DurableOK`). `Remembered` is the delicate part: an emit call that runs over
midnight may be answered a day after its line was written, and the set a restart
rebuilds from yesterday's and today's files covers exactly that.

**Dispatch.** `StartsAreMandated` looks at one step; what carries it over
restarts is `MandateInv`: while the process is down the row speaks for the hub,
and an active row counts at the next startup only with a recent heartbeat, behind
which stands the word "run". `ExecutionIsAudited` needs to know which events a
run has waited for before it gets there (`LoggedInv`), `SandboxesAccounted` that
directories belong to processes up to this one, one each (`SandboxInv`).
`ContextsAccounted` counts, so it is proved by what a step may do (`Leaks`): the
contexts nobody will tear down lose members or stay, or one joins them and a call
has raised. For that `Owners` says who holds a context at every point of the
pipeline, and that a cancel and the pipeline never both expect to pop it.
`BreakerFollowsProbes` relates counters kept since the last reset to the whole
history: `Follows` says the counters are the lengths of the trailing runs, that the
last ends of long enough runs exist, and that the state is the verdict over them.
The breaker of the code never has a database (`attached` is false), and the theorem
says so first.

**Workers.** `GcSparesRuns` looks at the moment of the removal, but the collector
decided earlier. `GcInv` carries the decision over: a container whose thread
waits or reads logs is at most `Prompt` ticks old, and one on the list has no such
thread any more. For `ImplementsCall`, `ThreadInv` says that a reply "completed"
comes from an exit with 0 and that a directory holds nobody else's result, and
`CallerInv` that one call runs at a time and that a thread exists only once its
request was posted. `Leftovers` counts: a step adds a container
to those left behind only if it adds one to the calls that raised.

**Cloud.** The packager's invariant follows the loops. `Merging`: the matches done
lie inside merged spans of an action at least as strict, the others begin to the
right of all merged spans; `Apart`: merged spans are disjoint and cover matches
only; `Rewriting` and `Written`: up to `lastEnd` the payload is the text without
the merged spans, and what a generalizer saw lies in a span to generalize. At the
end of the text they give `Filtered` (`Faithful`), and the loop over the details
adds `FullyDeclared`. For the rate, `WindowInv` says the limiter's list contains
every recent call to the provider, whoever gave up on it, and that its recent part
never exceeds the limit; a restart empties both sides. `ReplyInv` ties replies to
the token.

**Trust.** Each mutator is first shown to replace one capability and to leave the
rest (`Mutators`, `Changed`); what it does to the effective level and to the ring
of outcomes follows once for raising, lowering, recording and failing. `Phases`
says that the engine has calls in flight only while serving, or in startup's own
loop, and that a level about to be raised already has its grant in the log: that
is what a death between `set_effective_wal` and the status cannot undo.
`ModelSeen` carries a model change over deaths: while every startup was told the
model, the file holds the last one, and a capability that is not at level 0 is
still to be visited by the loop. `EvidenceFresh` is inductive beside them. For
`LogOffByOverrides`, `Accounts` says what the log leads to in the one place where
it is ahead of the file, between reconciliation's event and its save. A demotion by
the job manager adds one to the calls in flight and one to `overrides`, and nothing
to the level; that is the whole difference between log and level. The sum over
the calls in flight is counted level by level (`InFlight`), so that replacing one
call by another changes it by the difference of the two (`FlightReplaced`).

Induction over data is avoided rather than used: "the first break", "the first
level that does not block" and "the last end of a run" are least or greatest
elements of sets of numbers, whose existence follows from the well-foundedness of
the natural numbers, and what a sequence is after a step is stated by its elements
and length.

Only model-checked, because the provers have neither `ENABLED` nor fairness:
liveness (`Settles`, `EveryWaitEnds`, `OrphansCollected`, and the fair half of
`KeepsPromise`, whose safety half is `ImplementsCall`). What the runs show false
(`CancelIsFinal`, `HeldNeedsReview` after a crash, `OneJobPerKey`,
`ModelChangeDemotes`) has no theorem.

## 5. Known divergences that no run checks

- `FirstReviewWins` (defined in `JobManager`): `review_job` tests the status and
  `override_type`, never `review_decision`, so two reviews with different keys
  can both be recorded while the status is still `proposal_ready`
  (`docs/plans/phase-4a-backend-contract.md:483`).
- `GuardHasOwner`: an override refused after it set the guard (a `modify`
  without text, an unknown type) leaves a proposal that nobody can decide
  (`job_manager.py:598`, contract line 20).
- `NotPoisoned` fails with a crash between reservation and commit: the mapping
  has no job and every retry is answered 503 (`job_manager.py:339`).
- `INSERT OR REPLACE` on the UNIQUE key lets two live jobs with one key delete
  each other's rows.
- A redirect whose successor raises leaves cache, row and log in disagreement
  until the next start.
- A queue that is full during recovery: the job is counted as re-dispatched and
  is in no queue. A job dispatched shortly before the crash is skipped by the
  only pass that would re-enqueue it.
- A flush that raises half-way writes its first lines again next time; sockets
  accepted by the writer have no receive timeout.
- Breaker and hub events are tasks nobody awaits and may be logged out of order.
- `BreakerIsPersisted` (`WorkerDispatch`): `STATUS.md:392` says "circuit breaker
  state ... persisted to SQLite", but `main.py:292` constructs the monitor before
  `init_db`, when no database path is known, so nothing is written and every
  restart begins with closed breakers. Its counterexample is a start-up and one
  probe.
- `SuspendedHubIsQuiet` (`WorkerDispatch`): the hub is asked when a job is taken
  from the queue and never again, so a job in the pipeline is executed after a
  suspend (`job_manager.py:1336`; `hub_state.py:4` speaks of preventing "zombie
  execution on the demoted hub").
- `RefusedFails` (`CloudDispatch`): the gateway answers a wrong or missing token
  with 401 and a body without `status`; the pipeline tests only for "blocked" and
  "error" (`job_manager.py:1634`), so the job goes on with an empty response. The
  gateway's docstring (`main.py:130`) says "all dispatch is rejected", which is
  true of the gateway only.
- The client waits 60 s (`job_manager.py:1619`), the gateway 90 (`egress.json`,
  `timeout_ms`): the provider may answer, and charge for, a job that has failed.
- `CreatedCollected` (`WorkerExecutor`): the collector lists `status=exited`, so a
  container that was created and never started stays, with its name
  (`worker-proxy/main.py:106`). `THREAT-MODEL.md:11` speaks of orphaned stopped
  containers.
- Container names keep 12 digits of the job id and 8 of the worker id, the upper
  digits of times: two jobs of the same 16 ms may collide and the second fails
  (`NameTaken`).
- Two overlapping matches to be passed, of which `config/sensitivity.json` has
  none, would lose the text of the second; a `pass` and a `generalize` match that
  overlap are replaced by the generalization of the first one's text alone
  (`context_packager.py:232`).
- `TornTailIsRepairable` (`AuditLog`): `append_line` writes after whatever the
  day's file ends in (`file_manager.py:43`), so a torn tail followed by a restart
  and two events is one unreadable line in mid-file, which `repair_tail` refuses;
  `docs/AUDIT-RECOVERY.md:62` calls a torn tail repairable.
- `OverrideSuspends` (`Trust`): after a cancel or redirect the job manager logs
  `wal.demoted` from 0 to -1, whatever the level is, and never calls the state
  manager (`job_manager.py:1263`); `SCENARIOS.md:248` and `275` say that the
  capability is suspended. TLC refutes it with a startup, one cancel and its event.
  What can be relied on is `LogOffByOverrides`: these events are all that the log is
  off the levels by.
- `QuarantineKept` (`AuditLog`): a repair that died after the truncation and is run
  again within the second of its stamp opens the same quarantine file to be
  overwritten (`audit_integrity.py:463`), and what it had truncated is nowhere any
  more; `docs/AUDIT-RECOVERY.md:129` says "The corrupt bytes are never deleted." TLC
  needs two faults for it, so that what the truncation leaves is still broken.
- `handle_model_change` turns a suspended capability into one at level 0 and logs
  it as a demotion.
- Any edit of `capabilities.json` raises demoted capabilities back to their
  desired level at the next startup; a promotion keeps the counters although the
  monitor's text says they count outcomes of the current level.
- A capability added to `capabilities.json` but missing from an existing state
  file stops the startup with a `KeyError`.
- The handlers for strip failures, job failures and decay have no caller in
  production code; the stand-alone `drnt_audit_verify.py` does not know segments.

## 6. Not modelled, and why

Classifier and evaluators are functions on text or numbers without state, and the
promotion monitor only recommends. Blueprints, manifests and the registries
validate a description; their refusal is a branch of the models. Nothing in
production calls the egress proxy's `authorize` or the orchestrator's rate
limiter. Event constructors have nothing a property could speak of. Of the worker
proxy, the routes nobody calls and the request validation are left out, of the
gateway the provider adapters and costs. The executor's semaphore is left out: one
pipeline never asks for more than one of its four slots. So is a sandbox directory
that cannot be made (`worker_executor.py:175`, before the `try`): the exception
leaves `execute` before anything was posted, which in `WorkerDispatch` is a raising
step. A 422 of the gateway does not occur, since every field the orchestrator sends
is a string. Generalizers are taken to change what they are given, which holds for the
patterns of `config/sensitivity.json`; `_generalize_date` returns a date in any
other form as it is (`context_packager.py:158`). The rate limiter's route
table is one route, since routes share nothing.
Failing SQLite statements are logged and ignored by the stores; a disk that is
full is left out; power loss is what `fsync` is for and is not modelled. The
repair tool is run with the writer stopped, as `docs/AUDIT-RECOVERY.md` demands.
`list_jobs` and `get_proposal` only read.

## 7. Plan

1. `WorkerDispatch`: recovery's verdicts on the jobs it does not re-queue and the
   redirect and escalate successors; `ContainerEnds` replaced by `WorkerExecutor`.
2. The repair tool beside a living writer, and a flush that raises half-way.
3. Proofs: what the extensions above change, and a weaker `HeldNeedsReview` that allows for deaths (held jobs whose
   process did not die between the two commits).
