------------------------- MODULE WorkerDispatchProofs -------------------------
(***************************************************************************)
(* What may start, what is audited before it runs, what is left on disk    *)
(* and in the registries of contexts, and when a circuit breaker opens,    *)
(* for any number of jobs, routes, probes, cancels, crashes and failing    *)
(* calls; and what check_permission promises, for every policy table,      *)
(* level and context.                                                      *)
(***************************************************************************)
EXTENDS WorkerDispatch, FiniteSetTheorems, TLAPS

\* The steps that leave the hub, its row and the start-up alone.
HubKept == UNCHANGED <<hubVars, phase>>

\* The human's word and the hub's state, over restarts.  While the process is
\* down the row speaks for the hub; an active one counts at the next startup
\* only with a recent heartbeat, and then the word behind it is "run".
MandateInv ==
  /\ phase \in {"check", "up"} => hub = hubRow
  /\ phase = "up" /\ hub = "active" => mandate = "run"
  /\ recent /\ hubRow = "active" => mandate = "run"

\* The program points at which this run's permission event is in the log, and
\* those at which its dispatch event is too.
AfterPermission == {"manifest", "blueprint", "prepared", "dispatch"}
AfterDispatch == {"started", "slot", "container", "completed", "call"}

\* The events a run of the pipeline has waited for at each program point.
LoggedInv ==
  /\ worker.pc \in AfterPermission => "permitted" \in worker.logged
  /\ worker.pc \in AfterDispatch => worker.logged = {"permitted", "dispatched"}

\* Directories belong to processes up to this one, one each, and this one's is
\* the running container's.
SandboxInv ==
  /\ crashes \in Nat
  /\ \A s \in sandboxes : s = <<s[1], s[2]>> /\ s[2] \in 0..crashes
  /\ \A s, t \in sandboxes : s[2] = t[2] => s = t
  /\ \A s \in sandboxes : s[2] = crashes => At("container") /\ s = Sandbox

\* What the worker's record looks like, as far as LoggedInv depends on it.
WorkerOK ==
  /\ worker = [pc |-> worker.pc, job |-> worker.job, route |-> worker.route,
                hold |-> worker.hold, ok |-> worker.ok, logged |-> worker.logged]
  /\ worker.logged \subseteq {"permitted", "dispatched"}

-----------------------------------------------------------------------------

\* Every step keeps the account of the human's word.
LEMMA MandateStep == MandateInv /\ [Next]_vars => MandateInv'
<1> SUFFICES ASSUME MandateInv, [Next]_vars PROVE MandateInv'
  OBVIOUS
<1>1. CASE StartMonitor \/ InitDb
  BY <1>1 DEF MandateInv, StartMonitor, InitDb, hubVars
<1>2. CASE StartHub
  BY <1>2 DEF MandateInv, StartHub, LoadHub
<1>3. CASE Open
  BY <1>3 DEF MandateInv, Open, StartupSelfCheck, SetHub, hubVars
<1>4. CASE Crash
  BY <1>4 DEF MandateInv, Crash, hubVars
<1>5. CASE HubRequest
  <2>1. CASE Suspend
    BY <1>5, <2>1 DEF MandateInv, HubRequest, Suspend, SetHub, process
  <2>2. CASE Activate
    BY <1>5, <2>2 DEF MandateInv, HubRequest, Activate, SetHub, process
  <2>3. CASE RecordHeartbeat
    BY <1>5, <2>3 DEF MandateInv, HubRequest, RecordHeartbeat, process
  <2>4. QED
    BY <1>5, <2>1, <2>2, <2>3 DEF HubRequest
<1>6. CASE Age
  BY <1>6 DEF MandateInv, Age, HeartbeatAges, process
<1>7. CASE HubKept
  BY <1>7 DEF MandateInv, HubKept, hubVars
<1>8. QED
  BY <1>1, <1>2, <1>3, <1>4, <1>5, <1>6, <1>7
  DEF Next, Probe, HubKept, process, vars

-----------------------------------------------------------------------------

\* Only Start takes the pipeline from its poll of the hub to the job.
LEMMA OnlyStart ==
  ASSUME WorkerOK, [Next]_vars, worker.pc = "wait", worker'.pc = "classify"
  PROVE  phase = "up" /\ hub = "active"
<1>1. Idle.pc = "idle"
  BY DEF Idle
<1>2. worker' # worker
  OBVIOUS
<1>3. worker' # Idle
  BY <1>1
<1>4. phase = "up" /\ (Handlers \/ Pipeline)
  BY <1>2, <1>3 DEF Next, StartMonitor, InitDb, StartHub, Open, Crash, HubRequest,
     Age, Probe, local, vars
<1>5. ~Handlers
  BY <1>2 DEF Handlers, Submit, BeginCancel, CancelEmitted, CancelTornDown, CancelRaises
<1>6. Start
  BY <1>4, <1>5 DEF Pipeline, At, Take, Classified, Refuse, Permitted,
     ManifestValidated, BlueprintCreated, Prepared, Dispatched, ExecutionStarted,
     AcquireSlot, ContainerEnds, Completed, CallAnswered, Failed, Responded,
     Finished, TornDown, PreparationRaises, ExecutionRaises, PipelineRaises, RescueRaises
<1>7. QED
  BY <1>4, <1>6 DEF Start

-----------------------------------------------------------------------------

\* At the start the worker is idle.
LEMMA WorkerInit == Init => WorkerOK /\ LoggedInv
BY DEF Init, WorkerOK, LoggedInv, Idle, AfterPermission, AfterDispatch

\* The worker changes in the pipeline's steps and in a crash only.
LEMMA WorkerKept ==
  ASSUME [Next]_vars PROVE UNCHANGED worker \/ worker' = Idle \/ Pipeline
<1>1. Handlers => UNCHANGED worker
  BY DEF Handlers, Submit, BeginCancel, CancelEmitted, CancelTornDown, CancelRaises
<1>2. QED
  BY <1>1 DEF Next, StartMonitor, InitDb, StartHub, Open, Crash, HubRequest, Age,
     Probe, local, vars

\* Every step keeps what a run of the pipeline has waited for.
LEMMA WorkerStep ==
  ASSUME WorkerOK, LoggedInv, [Next]_vars
  PROVE  WorkerOK' /\ LoggedInv'
<1> USE DEF WorkerOK, LoggedInv, AfterPermission, AfterDispatch, At, Go
<1>1. CASE UNCHANGED worker
  BY <1>1
<1>2. CASE worker' = Idle
  BY <1>2 DEF Idle
<1>3. CASE Take
  BY <1>3 DEF Take, Idle
<1>4. CASE Start
  BY <1>4 DEF Start
<1>5. CASE Classified
  BY <1>5 DEF Classified
<1>6. CASE Permitted
  <2>1. PICK answer \in Answers :
          \/ Go("blocked")
          \/ \E next \in {"manifest", "unprepared"} :
               worker' = [worker EXCEPT !.pc = next, !.hold = HoldsResult(answer),
                                        !.logged = Logged("permitted")]
    BY <1>6 DEF Permitted
  <2>2. CASE Go("blocked")
    BY <2>2
  <2>3. ASSUME NEW next \in {"manifest", "unprepared"},
               worker' = [worker EXCEPT !.pc = next, !.hold = HoldsResult(answer),
                                        !.logged = Logged("permitted")]
        PROVE  WorkerOK' /\ LoggedInv'
    BY <2>3 DEF Logged
  <2>4. QED
    BY <2>1, <2>2, <2>3
<1>7. CASE ManifestValidated
  BY <1>7 DEF ManifestValidated
<1>8. CASE BlueprintCreated \/ Prepared
  BY <1>8 DEF BlueprintCreated, Prepared
<1>9. CASE Dispatched
  <2>1. PICK next \in {"started", "call"} :
          worker' = [worker EXCEPT !.pc = next, !.logged = worker.logged \cup {"dispatched"}]
    BY <1>9 DEF Dispatched, Logged
  <2>2. worker.logged \cup {"dispatched"} = {"permitted", "dispatched"}
    BY <1>9 DEF Dispatched
  <2>3. QED
    BY <2>1, <2>2
<1>10. CASE ExecutionStarted \/ AcquireSlot
  BY <1>10 DEF ExecutionStarted, AcquireSlot
<1>11. CASE ContainerEnds
  BY <1>11 DEF ContainerEnds
<1>2a. CASE Completed \/ CallAnswered
  BY <1>2a DEF Completed, CallAnswered
<1>13. CASE Failed \/ Responded \/ Finished
  BY <1>13 DEF Failed, AfterFailure, Responded, Finished
<1>14. CASE ExecutionRaises \/ PipelineRaises
  <2>1. worker' = [worker EXCEPT !.pc = "failed"] \/ worker' = [worker EXCEPT !.pc = "rescue"]
          \/ worker' = Idle
    BY <1>14 DEF ExecutionRaises, PipelineRaises
  <2>2. QED
    BY <2>1, <1>2
<1>15. CASE Refuse \/ TornDown \/ PreparationRaises \/ RescueRaises
  BY <1>15, <1>2 DEF Refuse, TornDown, PreparationRaises, RescueRaises
<1>16. QED
  BY <1>1, <1>2, <1>3, <1>4, <1>5, <1>6, <1>7, <1>8, <1>9, <1>10, <1>11, <1>2a,
     <1>13, <1>14, <1>15, WorkerKept DEF Pipeline

-----------------------------------------------------------------------------

\* A job enters the pipeline only while a human's word lets the hub run, in
\* every process, whatever was suspended, resumed or lost before.
THEOREM StartsMandated == Spec => StartsAreMandated
<1>1. Init => WorkerOK /\ LoggedInv /\ MandateInv
  BY WorkerInit DEF Init, HubInit, MandateInv
<1>2. WorkerOK /\ LoggedInv /\ MandateInv /\ [Next]_vars
        => (WorkerOK /\ LoggedInv /\ MandateInv)'
  BY MandateStep, WorkerStep
<1>3. WorkerOK /\ MandateInv /\ [Next]_vars
        => [worker.pc = "wait" /\ worker'.pc = "classify" => mandate = "run"]_vars
  BY OnlyStart DEF MandateInv
<1>4. QED
  BY <1>1, <1>2, <1>3, PTL DEF Spec, StartsAreMandated

\* Nothing is executed before the permission and dispatch events of this run of
\* the pipeline are in the audit log.
THEOREM ExecutionAudited == Spec => []ExecutionIsAudited
<1>1. WorkerOK /\ LoggedInv /\ [Next]_vars => (WorkerOK /\ LoggedInv)'
  BY WorkerStep
<1>2. LoggedInv => ExecutionIsAudited
  BY DEF LoggedInv, ExecutionIsAudited, AfterDispatch
<1>3. QED
  BY WorkerInit, <1>1, <1>2, PTL DEF Spec

-----------------------------------------------------------------------------

\* Directories are made and removed in two steps only, and no other step moves
\* a worker whose container runs.
LEMMA SandboxesKept ==
  ASSUME [Next]_vars, ~Crash, ~AcquireSlot, ~ContainerEnds
  PROVE  UNCHANGED <<sandboxes, crashes>> /\ (At("container") => UNCHANGED worker)
<1>1. CASE UNCHANGED vars
  BY <1>1 DEF vars, process, local
<1>2. CASE StartMonitor \/ InitDb \/ StartHub \/ Open \/ HubRequest \/ Age \/ Probe
  BY <1>2 DEF StartMonitor, InitDb, StartHub, Open, HubRequest, Age, Probe, local, process
<1>3. CASE Handlers /\ UNCHANGED process
  BY <1>3 DEF process, Handlers, Submit, BeginCancel, CancelEmitted, CancelTornDown,
     CancelRaises
<1>4. CASE Pipeline /\ UNCHANGED process
  <2>1. UNCHANGED <<sandboxes, crashes>>
    BY <1>4 DEF process, Pipeline, Take, Start, Classified, Refuse, Permitted,
       ManifestValidated, BlueprintCreated, Prepared, Dispatched, ExecutionStarted,
       Completed, CallAnswered, Failed, Responded, Finished, TornDown,
       PreparationRaises, ExecutionRaises, PipelineRaises, RescueRaises
  <2>2. ~At("container")
    BY <1>4 DEF Pipeline, At, Take, Start, Classified, Refuse, Permitted,
       ManifestValidated, BlueprintCreated, Prepared, Dispatched, ExecutionStarted,
       Completed, CallAnswered, Failed, Responded, Finished, TornDown,
       PreparationRaises, ExecutionRaises, PipelineRaises, RescueRaises
  <2>3. QED
    BY <2>1, <2>2
<1>5. QED
  BY <1>1, <1>2, <1>3, <1>4 DEF Next

\* Every step leaves at most one directory to each process.
LEMMA SandboxStep ==
  ASSUME WorkerOK, SandboxInv, [Next]_vars PROVE SandboxInv'
<1>1. CASE Crash
  BY <1>1 DEF SandboxInv, Crash
<1>2. CASE AcquireSlot /\ UNCHANGED crashes
  <2>1. ~At("container") /\ \A s \in sandboxes : s[2] # crashes
    BY <1>2 DEF AcquireSlot, At, SandboxInv
  <2>2. CASE Go("container") /\ sandboxes' = sandboxes \cup {Sandbox}
    <3>1. At("container")' /\ Sandbox' = Sandbox
      BY <1>2, <2>2 DEF Go, At, WorkerOK, Sandbox
    <3>2. Sandbox[2] = crashes /\ Sandbox = <<Sandbox[1], Sandbox[2]>>
      BY DEF Sandbox
    <3>3. QED
      BY <1>2, <2>1, <2>2, <3>1, <3>2 DEF SandboxInv
  <2>3. CASE UNCHANGED sandboxes
    BY <1>2, <2>1, <2>3 DEF SandboxInv
  <2>4. QED
    BY <1>2, <2>2, <2>3 DEF AcquireSlot
<1>3. CASE ContainerEnds /\ UNCHANGED crashes
  <2>1. sandboxes' = sandboxes \ {Sandbox} /\ crashes' = crashes
    BY <1>3 DEF ContainerEnds, Cleanup
  <2>2. \A s \in sandboxes' : s[2] # crashes
    BY <2>1 DEF SandboxInv
  <2>3. QED
    BY <2>1, <2>2 DEF SandboxInv
<1>4. CASE ~Crash /\ ~AcquireSlot /\ ~ContainerEnds
  <2>1. UNCHANGED <<sandboxes, crashes>> /\ (At("container") => UNCHANGED worker)
    BY <1>4, SandboxesKept
  <2>2. QED
    BY <2>1 DEF SandboxInv, At, Sandbox
<1>5. Crash \/ UNCHANGED crashes
  BY DEF Next, StartMonitor, InitDb, StartHub, Open, HubRequest, Age, Probe, process, vars
<1>6. QED
  BY <1>1, <1>2, <1>3, <1>4, <1>5

\* At most one directory of a process: a set of equal members.
LEMMA AtMostOne ==
  ASSUME NEW S, \A s, t \in S : s = t
  PROVE  Cardinality(S) <= 1
<1>1. CASE S = {}
  BY <1>1, FS_EmptySet
<1>2. CASE S # {}
  <2>1. PICK s \in S : TRUE
    BY <1>2
  <2>2. S = {s}
    BY <2>1
  <2>3. Cardinality({s}) = 1
    BY FS_Singleton
  <2>4. QED
    BY <2>2, <2>3
<1>3. QED
  BY <1>1, <1>2

\* A process leaves at most one sandbox directory behind, the one of the
\* container that ran when it died.
THEOREM SandboxesBounded == Spec => []SandboxesAccounted
<1>1. Init => WorkerOK /\ LoggedInv /\ SandboxInv
  BY WorkerInit DEF Init, SandboxInv
<1>2. WorkerOK /\ LoggedInv /\ SandboxInv /\ [Next]_vars
        => (WorkerOK /\ LoggedInv /\ SandboxInv)'
  BY WorkerStep, SandboxStep
<1>3. SandboxInv => SandboxesAccounted
  <2> SUFFICES ASSUME SandboxInv, NEW p \in 0..crashes
               PROVE  Cardinality({s \in sandboxes : s[2] = p}) <= 1
    BY DEF SandboxInv, SandboxesAccounted
  <2>1. \A s, t \in {u \in sandboxes : u[2] = p} : s = t
    BY DEF SandboxInv
  <2>2. QED
    BY <2>1, AtMostOne
<1>4. QED
  BY <1>1, <1>2, <1>3, PTL DEF Spec

-----------------------------------------------------------------------------
(* check_permission, for every policy table, level and context. *)

\* _compute_required_level returns the least level that permits the action.
LEMMA RequiredIsLeast ==
  ASSUME NEW table \in Table
  PROVE  \A l \in Levels :
           /\ l < RequiredLevel(table) => ~table[l].permitted
           /\ table[l].permitted => RequiredLevel(table) <= l
<1> DEFINE open == {l \in Levels : table[l].permitted}
<1>1. CASE open = {}
  BY <1>1 DEF RequiredLevel
<1>2. CASE open # {}
  <2>1. \E l \in open : \A m \in open : l <= m
    <3>1. CASE 0 \in open
      BY <3>1 DEF Levels
    <3>2. CASE 0 \notin open /\ 1 \in open
      BY <3>2 DEF Levels
    <3>3. CASE 0 \notin open /\ 1 \notin open /\ 2 \in open
      BY <3>3 DEF Levels
    <3>4. CASE 0 \notin open /\ 1 \notin open /\ 2 \notin open /\ 3 \in open
      BY <3>4 DEF Levels
    <3>5. QED
      BY <1>2, <3>1, <3>2, <3>3, <3>4 DEF Levels
  <2>2. RequiredLevel(table) \in open /\ \A m \in open : RequiredLevel(table) <= m
    BY <1>2, <2>1 DEF RequiredLevel
  <2>3. QED
    BY <2>2 DEF Levels
<1>3. QED
  BY <1>1, <1>2

\* Blocks are final and holds can be lifted: no context gets past a block, some
\* context gets past every hold, nothing is allowed with a gate unmet, and
\* required_level is the first level at which the action is not blocked.
THEOREM Sound == AnswersSound
<1> SUFFICES ASSUME NEW table \in Table, NEW level \in Levels \cup {Suspended}
             PROVE
    LET Result(c) == CheckPermission(table, level, c).result
        blocked == {c \in JobContext : Result(c) = "blocked"}
        allowed == {c \in JobContext : Result(c) = "allowed"}
    IN
    /\ blocked \in {{}, JobContext}
    /\ blocked = {} => allowed # {}
    /\ \A c \in allowed :
         /\ table[level].cost_gate => ~c.over_cost
         /\ table[level].review_gate = "pre_action" => c.human_approved
         /\ table[level].review_gate = "on_accept" => c.result_accepted
    /\ \A l \in Levels : l < RequiredLevel(table) => ~table[l].permitted
    /\ level \in Levels /\ blocked = {} => RequiredLevel(table) <= level
  BY DEF AnswersSound
<1> DEFINE Result(c) == CheckPermission(table, level, c).result
           blocked == {c \in JobContext : Result(c) = "blocked"}
           allowed == {c \in JobContext : Result(c) = "allowed"}
           lifted == [over_cost |-> FALSE, human_approved |-> TRUE, result_accepted |-> TRUE]
<1>1. lifted \in JobContext
  BY DEF JobContext
<1>2. CASE level = Suspended \/ ~table[level].permitted
  <2>1. \A c \in JobContext : Result(c) = "blocked"
    BY <1>2 DEF CheckPermission, Blocked
  <2>2. blocked = JobContext /\ allowed = {}
    BY <2>1
  <2>3. level \in Levels => blocked # {}
    BY <1>1, <2>2
  <2>4. QED
    BY <1>1, <2>2, RequiredIsLeast
<1>3. CASE ~(level = Suspended \/ ~table[level].permitted)
  <2>1. level \in Levels /\ table[level] \in Policy /\ table[level].permitted
    BY <1>3 DEF Table
  <2>2. \A c \in JobContext :
          Result(c) = IF HoldType(table[level], c) = "none" THEN "allowed" ELSE "held"
    BY <1>3 DEF CheckPermission, Unblocked
  <2>3. blocked = {}
    BY <2>2
  <2>4. HoldType(table[level], lifted) = "none"
    BY <2>1 DEF HoldType
  <2>5. allowed # {}
    BY <1>1, <2>2, <2>4
  <2>6. ASSUME NEW c \in allowed
        PROVE  /\ table[level].cost_gate => ~c.over_cost
               /\ table[level].review_gate = "pre_action" => c.human_approved
               /\ table[level].review_gate = "on_accept" => c.result_accepted
    <3>1. c \in JobContext /\ HoldType(table[level], c) = "none"
      BY <2>2
    <3>2. QED
      BY <2>1, <3>1 DEF HoldType, JobContext, Policy
  <2>7. QED
    BY <2>1, <2>3, <2>5, <2>6, RequiredIsLeast
<1>4. QED
  BY <1>2, <1>3

-----------------------------------------------------------------------------
(* The breaker is the hysteresis over this process's probes. *)

\* The candidates of LastEnd, and that one of them is the last.
Ends(s, n, b) == {i \in 1 .. Len(s) : RunOf(s, i, n, b)} \cup {0}
HasLast(s, n, b) == \E m \in Ends(s, n, b) : \A k \in Ends(s, n, b) : k <= m

\* The c last probes, and no more, had the result b.
Trailing(s, c, b) ==
  /\ c \in 0 .. Len(s)
  /\ \A k \in (Len(s) - c + 1) .. Len(s) : s[k] = b
  /\ c < Len(s) => s[Len(s) - c] # b

\* The counters are the lengths of the trailing runs of failures and of
\* successes, and the state is the one the probes call for.
Follows(h, s) ==
  /\ Trailing(s, h.consecutive_failures, FALSE)
  /\ Trailing(s, h.consecutive_successes, TRUE)
  /\ HasLast(s, FailuresToOpen, FALSE) /\ HasLast(s, SuccessesToClosed, TRUE)
  /\ h.state = Verdict(s)

\* No monitor of this code has a database: it is constructed before init_db.
BreakerInv ==
  /\ MonitorTypeOK
  /\ attached = FALSE
  /\ phase = "monitor" => db = FALSE
  /\ \A r \in Routes : Follows(health[r], probes[r])

\* The last end is one of the ends and the greatest.
LEMMA LastEndIs ==
  ASSUME NEW s \in Seq(BOOLEAN), NEW n \in Nat, NEW b \in BOOLEAN, HasLast(s, n, b)
  PROVE  /\ LastEnd(s, n, b) \in Ends(s, n, b)
         /\ \A k \in Ends(s, n, b) : k <= LastEnd(s, n, b)
         /\ LastEnd(s, n, b) \in 0 .. Len(s)
<1>1. LastEnd(s, n, b) = CHOOSE i \in Ends(s, n, b) : \A k \in Ends(s, n, b) : k <= i
  BY DEF LastEnd, Ends
<1>2. /\ LastEnd(s, n, b) \in Ends(s, n, b)
      /\ \A k \in Ends(s, n, b) : k <= LastEnd(s, n, b)
  BY <1>1 DEF HasLast
<1>3. Len(s) \in Nat
  OBVIOUS
<1>4. Ends(s, n, b) \subseteq 0 .. Len(s)
  BY <1>3 DEF Ends
<1>5. QED
  BY <1>2, <1>4

\* One probe more: a run that ends with it is the last one.
LEMMA LastEndNext ==
  ASSUME NEW s \in Seq(BOOLEAN), NEW n \in Nat \ {0}, NEW b \in BOOLEAN, NEW x \in BOOLEAN,
         HasLast(s, n, b)
  PROVE  LET t == Append(s, x) IN
         /\ HasLast(t, n, b)
         /\ LastEnd(t, n, b) = IF RunOf(t, Len(t), n, b) THEN Len(t) ELSE LastEnd(s, n, b)
<1> DEFINE t == Append(s, x)
<1>1. /\ t \in Seq(BOOLEAN) /\ Len(t) = Len(s) + 1 /\ Len(s) \in Nat
      /\ \A k \in 1 .. Len(s) : t[k] = s[k]
  OBVIOUS
<1> HIDE DEF t
<1>2. \A i \in 1 .. Len(s) : RunOf(t, i, n, b) <=> RunOf(s, i, n, b)
  BY <1>1 DEF RunOf
<1>3. Ends(t, n, b) = IF RunOf(t, Len(t), n, b) THEN Ends(s, n, b) \cup {Len(t)}
                      ELSE Ends(s, n, b)
  BY <1>1, <1>2 DEF Ends
<1>4. Ends(s, n, b) \subseteq 0 .. Len(s)
  BY <1>1 DEF Ends
<1>5. \E m \in Ends(t, n, b) :
        /\ \A k \in Ends(t, n, b) : k <= m
        /\ m = IF RunOf(t, Len(t), n, b) THEN Len(t) ELSE LastEnd(s, n, b)
  <2>1. CASE RunOf(t, Len(t), n, b)
    BY <1>1, <1>3, <1>4, <2>1
  <2>2. CASE ~RunOf(t, Len(t), n, b)
    BY <1>3, <2>2, LastEndIs
  <2>3. QED
    BY <2>1, <2>2
<1>6. HasLast(t, n, b)
  BY <1>5 DEF HasLast
<1>7. /\ LastEnd(t, n, b) \in Ends(t, n, b)
      /\ \A k \in Ends(t, n, b) : k <= LastEnd(t, n, b)
  BY <1>1, <1>6, LastEndIs
<1>8. Ends(t, n, b) \subseteq Nat
  BY <1>1, <1>3, <1>4
<1>9. LastEnd(t, n, b) = IF RunOf(t, Len(t), n, b) THEN Len(t) ELSE LastEnd(s, n, b)
  BY <1>5, <1>7, <1>8
<1>10. QED
  BY <1>6, <1>9 DEF t

\* A trailing run grows with a probe of its kind and ends with the other.
LEMMA TrailingNext ==
  ASSUME NEW s \in Seq(BOOLEAN), NEW c, NEW b \in BOOLEAN, NEW x \in BOOLEAN, Trailing(s, c, b)
  PROVE  Trailing(Append(s, x), IF x = b THEN c + 1 ELSE 0, b)
<1> DEFINE t == Append(s, x)
<1>1. /\ t \in Seq(BOOLEAN) /\ Len(t) = Len(s) + 1 /\ Len(s) \in Nat
      /\ \A k \in 1 .. Len(s) : t[k] = s[k]
      /\ t[Len(t)] = x
  OBVIOUS
<1> HIDE DEF t
<1>2. CASE x = b
  BY <1>1, <1>2 DEF Trailing, t
<1>3. CASE x # b
  BY <1>1, <1>3 DEF Trailing, t
<1>4. QED
  BY <1>2, <1>3

\* The trailing run is at least n long when a run of n ends here.
LEMMA TrailingRun ==
  ASSUME NEW s \in Seq(BOOLEAN), NEW c, NEW b \in BOOLEAN, NEW n \in Nat \ {0}, Trailing(s, c, b)
  PROVE  RunOf(s, Len(s), n, b) <=> c >= n
<1>1. Len(s) \in Nat /\ c \in 0 .. Len(s)
  BY DEF Trailing
<1>2. ASSUME c >= n PROVE RunOf(s, Len(s), n, b)
  BY <1>1, <1>2 DEF Trailing, RunOf
<1>3. ASSUME c < n, RunOf(s, Len(s), n, b) PROVE FALSE
  <2>1. c < Len(s) /\ s[Len(s) - c] # b
    BY <1>1, <1>3 DEF Trailing, RunOf
  <2>2. Len(s) - c \in (Len(s) - n + 1) .. Len(s)
    BY <1>1, <1>3
  <2>3. QED
    BY <1>3, <2>1, <2>2 DEF RunOf
<1>4. QED
  BY <1>1, <1>2, <1>3

\* No probe, no run: a fresh breaker is closed.
LEMMA FreshFollows == Follows(FreshHealth, <<>>)
<1>1. \A n \in Nat, b \in BOOLEAN : Ends(<<>>, n, b) = {0}
  BY DEF Ends
<1>2. \A n \in Nat, b \in BOOLEAN : HasLast(<<>>, n, b)
  BY <1>1 DEF HasLast
<1>3. ASSUME NEW n \in Nat, NEW b \in BOOLEAN PROVE LastEnd(<<>>, n, b) = 0
  <2>1. <<>> \in Seq(BOOLEAN) /\ Len(<<>>) = 0
    OBVIOUS
  <2>2. LastEnd(<<>>, n, b) \in Ends(<<>>, n, b)
    BY <1>2, <2>1, LastEndIs
  <2>3. QED
    BY <1>1, <2>2
<1>4. Verdict(<<>>) = "closed"
  <2> DEFINE opened == LastEnd(<<>>, FailuresToOpen, FALSE)
             closed == LastEnd(<<>>, SuccessesToClosed, TRUE)
  <2>1. opened = 0 /\ closed = 0
    BY <1>3, MonitorAssumption
  <2>2. Verdict(<<>>) = IF opened <= closed THEN "closed"
                        ELSE IF opened = Len(<<>>) THEN "open" ELSE "half_open"
    BY DEF Verdict
  <2> HIDE DEF opened, closed
  <2>3. QED
    BY <2>1, <2>2
<1>5. Trailing(<<>>, 0, FALSE) /\ Trailing(<<>>, 0, TRUE)
  BY DEF Trailing
<1>6. QED
  BY <1>2, <1>4, <1>5, MonitorAssumption DEF Follows, FreshHealth

\* What a success makes of the counters,
CountedUp(h, c) ==
  /\ c \in RouteHealth /\ c.state = h.state
  /\ c.consecutive_failures = 0 /\ c.consecutive_successes = h.consecutive_successes + 1

\* and what a failure does.
CountedDown(h, c) ==
  /\ c \in RouteHealth /\ c.state = h.state
  /\ c.consecutive_successes = 0 /\ c.consecutive_failures = h.consecutive_failures + 1

\* A probe is added to the counter of its result and clears the other.
LEMMA CountedCases ==
  ASSUME NEW h \in RouteHealth, NEW x \in BOOLEAN
  PROVE  \/ x = TRUE /\ CountedUp(h, Counted(h, x))
         \/ x = FALSE /\ CountedDown(h, Counted(h, x))
<1> DEFINE up == [h EXCEPT !.consecutive_successes = h.consecutive_successes + 1,
                           !.consecutive_failures = 0]
           down == [h EXCEPT !.consecutive_successes = 0,
                             !.consecutive_failures = h.consecutive_failures + 1]
<1>0. Counted(h, TRUE) = up /\ Counted(h, FALSE) = down
  BY Zenon DEF Counted
<1>1. CountedUp(h, Counted(h, TRUE))
  <2>1. CountedUp(h, up)
    <3>1. h.consecutive_successes + 1 \in Nat
      BY DEF RouteHealth
    <3>2. up \in RouteHealth
      BY <3>1 DEF RouteHealth
    <3>3. /\ up.state = h.state /\ up.consecutive_failures = 0
          /\ up.consecutive_successes = h.consecutive_successes + 1
      BY DEF RouteHealth
    <3>4. QED
      BY <3>2, <3>3 DEF CountedUp
  <2>2. QED
    BY <1>0, <2>1, Zenon
<1>2. CountedDown(h, Counted(h, FALSE))
  <2>1. CountedDown(h, down)
    <3>1. h.consecutive_failures + 1 \in Nat
      BY DEF RouteHealth
    <3>2. down \in RouteHealth
      BY <3>1 DEF RouteHealth
    <3>3. /\ down.state = h.state /\ down.consecutive_successes = 0
          /\ down.consecutive_failures = h.consecutive_failures + 1
      BY DEF RouteHealth
    <3>4. QED
      BY <3>2, <3>3 DEF CountedDown
  <2>2. QED
    BY <1>0, <2>1, Zenon
<1>3. x = TRUE \/ x = FALSE
  OBVIOUS
<1>4. QED
  BY <1>1, <1>2, <1>3, Zenon

\* The last end and the trailing run, one probe later.
LEMMA LastEndCount ==
  ASSUME NEW s \in Seq(BOOLEAN), NEW n \in Nat \ {0}, NEW b \in BOOLEAN, NEW x \in BOOLEAN,
         NEW c \in Nat, NEW d, x = b => d = c + 1, x # b => d = 0,
         HasLast(s, n, b), Trailing(s, c, b)
  PROVE  /\ HasLast(Append(s, x), n, b) /\ Trailing(Append(s, x), d, b)
         /\ LastEnd(Append(s, x), n, b) = IF d >= n THEN Len(s) + 1 ELSE LastEnd(s, n, b)
         /\ LastEnd(s, n, b) \in 0 .. Len(s)
         /\ LastEnd(s, n, b) = Len(s) /\ Len(s) > 0 => c >= n
<1> DEFINE t == Append(s, x)
<1>1. t \in Seq(BOOLEAN) /\ Len(t) = Len(s) + 1 /\ Trailing(t, d, b)
  <2>1. Trailing(t, IF x = b THEN c + 1 ELSE 0, b)
    BY TrailingNext
  <2>2. d = IF x = b THEN c + 1 ELSE 0
    OBVIOUS
  <2>3. QED
    BY <2>1, <2>2
<1> HIDE DEF t
<1>2. RunOf(t, Len(t), n, b) <=> d >= n
  BY <1>1, TrailingRun
<1>3. /\ HasLast(t, n, b)
      /\ LastEnd(t, n, b) = IF RunOf(t, Len(t), n, b) THEN Len(t) ELSE LastEnd(s, n, b)
  BY LastEndNext DEF t
<1>4. LastEnd(t, n, b) = IF d >= n THEN Len(t) ELSE LastEnd(s, n, b)
  BY <1>2, <1>3
<1>5. LastEnd(s, n, b) \in Ends(s, n, b) /\ LastEnd(s, n, b) \in 0 .. Len(s)
  BY LastEndIs
<1>6. ASSUME LastEnd(s, n, b) = Len(s), Len(s) > 0 PROVE c >= n
  <2>1. RunOf(s, Len(s), n, b)
    BY <1>5, <1>6 DEF Ends
  <2>2. QED
    BY <2>1, TrailingRun
<1>7. QED
  BY <1>1, <1>3, <1>4, <1>5, <1>6 DEF t

\* _record_result is the hysteresis, one probe at a time.
LEMMA RecordFollows ==
  ASSUME NEW h \in RouteHealth, NEW s \in Seq(BOOLEAN), NEW x \in BOOLEAN, Follows(h, s)
  PROVE  Follows(RecordResult(h, x), Append(s, x))
<1> DEFINE F == FailuresToOpen
           S == SuccessesToClosed
           t == Append(s, x)
           counted == Counted(h, x)
           f == counted.consecutive_failures
           g == counted.consecutive_successes
           opened == LastEnd(s, F, FALSE)
           closed == LastEnd(s, S, TRUE)
           openedNow == LastEnd(t, F, FALSE)
           closedNow == LastEnd(t, S, TRUE)
           failed == h.consecutive_failures
           length == Len(s)
           was == h.state
<1>1. /\ F \in Nat \ {0} /\ S \in Nat \ {0} /\ length \in Nat
      /\ failed \in Nat /\ h.consecutive_successes \in Nat /\ was \in CircuitState
  BY MonitorAssumption DEF RouteHealth
<1>2. /\ counted.state = was
      /\ \/ x = TRUE /\ f = 0 /\ g = h.consecutive_successes + 1
         \/ x = FALSE /\ f = failed + 1 /\ g = 0
  <2>1. CASE x = TRUE /\ CountedUp(h, counted)
    BY <2>1, Zenon DEF CountedUp
  <2>2. CASE x = FALSE /\ CountedDown(h, counted)
    BY <2>2, Zenon DEF CountedDown
  <2>3. QED
    BY <2>1, <2>2, CountedCases, Zenon
<1>2a. (x = TRUE => x # FALSE) /\ (x = FALSE => x # TRUE)
  OBVIOUS
<1>3. /\ HasLast(t, F, FALSE) /\ Trailing(t, f, FALSE)
      /\ openedNow = IF f >= F THEN length + 1 ELSE opened
      /\ opened \in 0 .. length
      /\ opened = length /\ length > 0 => failed >= F
  <2>1. (x = FALSE => f = failed + 1) /\ (x # FALSE => f = 0)
    BY <1>2, <1>2a, Zenon
  <2>2. HasLast(s, F, FALSE) /\ Trailing(s, failed, FALSE)
    BY DEF Follows
  <2> HIDE DEF F, f, failed
  <2>3. QED
    BY <1>1, <2>1, <2>2, LastEndCount
<1>4. /\ HasLast(t, S, TRUE) /\ Trailing(t, g, TRUE)
      /\ closedNow = IF g >= S THEN length + 1 ELSE closed
      /\ closed \in 0 .. length
  <2>1. (x = TRUE => g = h.consecutive_successes + 1) /\ (x # TRUE => g = 0)
    BY <1>2, <1>2a, Zenon
  <2>2. HasLast(s, S, TRUE) /\ Trailing(s, h.consecutive_successes, TRUE)
    BY DEF Follows
  <2> HIDE DEF S, g
  <2>3. QED
    BY <1>1, <2>1, <2>2, LastEndCount
<1>5. was = IF opened <= closed THEN "closed"
            ELSE IF opened = length THEN "open" ELSE "half_open"
  BY DEF Follows, Verdict
<1>6. Verdict(t) = IF openedNow <= closedNow THEN "closed"
                   ELSE IF openedNow = length + 1 THEN "open" ELSE "half_open"
  BY DEF Verdict
<1>7. \/ f = 0 /\ g = h.consecutive_successes + 1
      \/ g = 0 /\ f = failed + 1
  BY <1>2, Zenon
<1>8. NextState(counted) = CASE f >= F -> "open"
                             [] g >= S -> "closed"
                             [] was = "open" /\ g \in 1 .. (S - 1) -> "half_open"
                             [] OTHER -> was
  BY <1>2 DEF NextState
<1> HIDE DEF t, counted, f, g, opened, closed, openedNow, closedNow, failed, length, was, F, S
<1>9. NextState(counted) = Verdict(t)
  <2>1. CASE f = 0 /\ g >= S
    BY <1>1, <1>3, <1>4, <1>6, <1>7, <1>8, <2>1
  <2>2. CASE f = 0 /\ g \in Nat /\ g >= 1 /\ g < S
    BY <1>1, <1>3, <1>4, <1>5, <1>6, <1>8, <2>2
  <2>3. CASE g = 0 /\ f = failed + 1 /\ f >= F
    BY <1>1, <1>3, <1>4, <1>6, <1>8, <2>3
  <2>4. CASE g = 0 /\ f = failed + 1 /\ f < F
    BY <1>1, <1>3, <1>4, <1>5, <1>6, <1>8, <2>4
  <2>5. QED
    BY <1>1, <1>7, <2>1, <2>2, <2>3, <2>4
<1>10. /\ RecordResult(h, x).consecutive_failures = f
       /\ RecordResult(h, x).consecutive_successes = g
       /\ RecordResult(h, x).state = NextState(counted)
  BY DEF RecordResult, counted, Counted, RouteHealth, f, g
<1>11. QED
  BY <1>3, <1>4, <1>9, <1>10 DEF Follows, t, F, S

\* A fresh breaker is a health.
LEMMA FreshIsHealth == FreshHealth \in RouteHealth
BY DEF FreshHealth, RouteHealth, CircuitState

\* What a probe leaves of a route's health is one.
LEMMA RecordType ==
  ASSUME NEW h \in RouteHealth, NEW x \in BOOLEAN
  PROVE  /\ RecordResult(h, x) \in RouteHealth
         /\ \/ RecordResult(h, x).consecutive_failures = 0
            \/ RecordResult(h, x).consecutive_successes = 0
<1>1. Counted(h, x) \in RouteHealth
  BY CountedCases, Zenon DEF CountedUp, CountedDown
<1>2. NextState(Counted(h, x)) \in CircuitState
  BY <1>1 DEF NextState, RouteHealth, CircuitState
<1>3. RecordResult(h, x) \in RouteHealth
  BY <1>1, <1>2 DEF RecordResult, RouteHealth
<1>4. \/ RecordResult(h, x).consecutive_failures = 0
      \/ RecordResult(h, x).consecutive_successes = 0
  <2>1. \/ Counted(h, x).consecutive_failures = 0
        \/ Counted(h, x).consecutive_successes = 0
    BY CountedCases, Zenon DEF CountedUp, CountedDown
  <2>2. QED
    BY <1>1, <2>1 DEF RecordResult, RouteHealth
<1>5. QED
  BY <1>3, <1>4

\* A probe moves one breaker.
LEMMA ProbeBreaker ==
  ASSUME BreakerInv, NEW r \in Routes, ProbeRoute(r), UNCHANGED <<phase, db>>
  PROVE  BreakerInv'
<1> USE DEF BreakerInv, MonitorTypeOK
<1>1. PICK x \in BOOLEAN :
        /\ probes' = [probes EXCEPT ![r] = Append(probes[r], x)]
        /\ health' = [health EXCEPT ![r] = RecordResult(health[r], x)]
  BY DEF ProbeRoute
<1>2. UNCHANGED <<attached, circuitRow>>
  BY DEF ProbeRoute
<1>3. health[r] \in RouteHealth /\ probes[r] \in Seq(BOOLEAN) /\ Append(probes[r], x) \in Seq(BOOLEAN)
  OBVIOUS
<1>4. /\ RecordResult(health[r], x) \in RouteHealth
      /\ \/ RecordResult(health[r], x).consecutive_failures = 0
         \/ RecordResult(health[r], x).consecutive_successes = 0
  BY <1>3, RecordType
<1>5. Follows(RecordResult(health[r], x), Append(probes[r], x))
  BY <1>3, RecordFollows
<1>6. \A q \in Routes : /\ health'[q] = IF q = r THEN RecordResult(health[r], x) ELSE health[q]
                        /\ probes'[q] = IF q = r THEN Append(probes[r], x) ELSE probes[q]
  BY <1>1
<1>7. MonitorTypeOK'
  BY <1>1, <1>2, <1>3, <1>4, <1>6
<1>8. QED
  BY <1>2, <1>5, <1>6, <1>7

\* A monitor without a database forgets; everything else leaves it alone.
LEMMA BreakerStep == BreakerInv /\ [Next]_vars => BreakerInv'
<1> SUFFICES ASSUME BreakerInv, [Next]_vars PROVE BreakerInv'
  OBVIOUS
<1>1. CASE StartMonitor
  <2>1. /\ health' = [r \in Routes |-> FreshHealth] /\ probes' = [r \in Routes |-> <<>>]
        /\ attached' = FALSE /\ circuitRow' = circuitRow /\ phase' # "monitor"
    BY <1>1 DEF StartMonitor, ConstructMonitor, BreakerInv
  <2>2. MonitorTypeOK'
    <3>1. \A r \in Routes : health'[r] = FreshHealth /\ probes'[r] = <<>>
      BY <2>1
    <3>2. health' \in [Routes -> RouteHealth] /\ probes' \in [Routes -> Seq(BOOLEAN)]
      BY <2>1, FreshIsHealth
    <3>3. FreshHealth.consecutive_failures = 0
      BY DEF FreshHealth
    <3>4. QED
      BY <2>1, <3>1, <3>2, <3>3 DEF BreakerInv, MonitorTypeOK
  <2>3. QED
    BY <2>1, <2>2, FreshFollows DEF BreakerInv
<1>2. CASE InitDb \/ Crash
  BY <1>2 DEF InitDb, Crash, BreakerInv, MonitorTypeOK, monitorVars
<1>3. CASE StartHub \/ Open
  BY <1>3 DEF StartHub, Open, BreakerInv, MonitorTypeOK, monitorVars
<1>4. CASE Probe
  BY <1>4, ProbeBreaker DEF Probe, process
<1>5. CASE UNCHANGED <<monitorVars, process>>
  BY <1>5 DEF BreakerInv, MonitorTypeOK, monitorVars, process
<1>6. QED
  BY <1>1, <1>2, <1>3, <1>4, <1>5 DEF Next, HubRequest, Age, vars

\* The breakers a fresh installation starts with.
LEMMA BreakerInit == ASSUME Init PROVE BreakerInv
<1>1. /\ health = [r \in Routes |-> FreshHealth] /\ circuitRow = [r \in Routes |-> FreshHealth]
      /\ probes = [r \in Routes |-> <<>>] /\ attached = FALSE /\ db = FALSE
  BY DEF Init, MonitorInit
<1>2. FreshHealth.consecutive_failures = 0
  BY DEF FreshHealth
<1>3. \A r \in Routes : health[r] = FreshHealth /\ probes[r] = <<>>
  BY <1>1
<1>4. MonitorTypeOK
  <2>1. /\ health \in [Routes -> RouteHealth] /\ circuitRow \in [Routes -> RouteHealth]
        /\ probes \in [Routes -> Seq(BOOLEAN)]
    BY <1>1, FreshIsHealth
  <2>2. QED
    BY <1>1, <1>2, <1>3, <2>1 DEF MonitorTypeOK
<1>5. QED
  BY <1>1, <1>3, <1>4, FreshFollows DEF BreakerInv

\* However its two counters got where they are, the breaker of every route is
\* the hysteresis over the probes of this process.
THEOREM BreakerIsHysteresis == Spec => []BreakerFollowsProbes
<1>1. BreakerInv => BreakerFollowsProbes
  BY DEF BreakerInv, Follows, BreakerFollowsProbes
<1>2. QED
  BY <1>1, BreakerInit, BreakerStep, PTL DEF Spec

-----------------------------------------------------------------------------
(* Types, and who owns the context of a worker. *)

\* The record of the pipeline coroutine.
WorkerRecord ==
  [pc: Pc, job: Jobs \cup {NoJob}, route: Routes \cup {Local},
   hold: BOOLEAN, ok: BOOLEAN, logged: SUBSET {"permitted", "dispatched"}]

\* The types of what a step of a job moves.
LocalTypes ==
  /\ jobs \in [Jobs -> {"new", "open", "held", "delivered", "failed"}]
  /\ waiting \subseteq Jobs
  /\ worker \in WorkerRecord
  /\ active \subseteq Jobs
  /\ cancel \in [Jobs -> {"none", "emits", "teardown", "done"}]
  /\ sandboxes \subseteq Jobs \X (0..crashes)
  /\ failures \in Nat

\* The program points before the lifecycle registers the context.
Unregistered == {"wait", "classify", "unroutable", "permit", "blocked",
                 "unprepared", "manifest", "blueprint"}

\* A job is taken at most once per process, and its context is popped by
\* either the pipeline or a cancel: nobody registers a context that a cancel is
\* about to tear down.
Owners ==
  /\ worker.pc # "idle" => worker.job \in Jobs
  /\ \A j \in Jobs : jobs[j] = "new" =>
       j \notin active \cup waiting /\ worker.job # j /\ cancel[j] = "none"
  /\ \A j \in waiting : j \notin active /\ cancel[j] # "teardown" /\ worker.job # j
  /\ worker.pc \in Unregistered => worker.job \notin active /\ cancel[worker.job] # "teardown"
  /\ worker.pc = "prepared" =>
       worker.job \in active \ contexts /\ cancel[worker.job] # "teardown"
  /\ \A j \in Jobs : cancel[j] = "teardown" => j \notin contexts
  /\ contexts \subseteq active

\* Nothing runs in a process that is starting up.
Down ==
  /\ waiting = {} /\ worker = Idle /\ active = {} /\ contexts = {}
  /\ \A j \in Jobs : cancel[j] \in {"none", "done"}

RegistryInv == LocalTypes /\ crashes \in Nat /\ Owners /\ (phase # "up" => Down)

\* The contexts nobody is going to tear down.
Unowned == {j \in active : ~Owned(j)}

\* What a step of the living process may do to them: a call that raises adds at
\* most one.
Leaks ==
  \/ failures' = failures /\ Unowned' \subseteq Unowned
  \/ failures' = failures + 1 /\ \E j \in Jobs : Unowned' \subseteq Unowned \cup {j}

\* An idle worker is one.
LEMMA IdleType == Idle \in WorkerRecord
BY DEF Idle, WorkerRecord, Pc

\* check_permission's answers hold the result or do not.
LEMMA HoldsType ==
  ASSUME NEW answer \in Answers PROVE HoldsResult(answer) \in BOOLEAN
BY DEF HoldsResult

\* A handler of a request keeps the registry in order.
LEMMA HandlersOwners ==
  ASSUME RegistryInv, Handlers, UNCHANGED <<phase, crashes>>, phase = "up"
  PROVE  RegistryInv' /\ Leaks
<1> USE DEF RegistryInv, LocalTypes, Owners, Unowned, Owned, Leaks, At
<1>1. ASSUME NEW j \in Jobs, Submit(j) PROVE RegistryInv' /\ Leaks
  BY <1>1 DEF Submit, registry
<1>2. ASSUME NEW j \in Jobs, BeginCancel(j) PROVE RegistryInv' /\ Leaks
  BY <1>2 DEF BeginCancel, registry
<1>3. ASSUME NEW j \in Jobs, CancelEmitted(j) PROVE RegistryInv' /\ Leaks
  BY <1>3 DEF CancelEmitted
<1>4. ASSUME NEW j \in Jobs, CancelTornDown(j) PROVE RegistryInv' /\ Leaks
  BY <1>4 DEF CancelTornDown
<1>5. ASSUME NEW j \in Jobs, CancelRaises(j) PROVE RegistryInv' /\ Leaks
  BY <1>5 DEF CancelRaises, Failure, registry
<1>6. QED
  BY <1>1, <1>2, <1>3, <1>4, <1>5 DEF Handlers

\* The worker goes on with its job, and leaves every registry alone.
GoesOn ==
  /\ worker.pc # "idle" /\ worker'.pc \notin {"idle", "prepared"}
  /\ worker' \in WorkerRecord /\ worker'.job = worker.job
  /\ worker'.pc \in Unregistered => worker.pc \in Unregistered
  /\ UNCHANGED <<waiting, registry, cancel>>
  /\ jobs' = jobs \/ \E s \in {"held", "delivered", "failed"} : Settle(s)
  /\ sandboxes' \subseteq sandboxes \cup {Sandbox}
  /\ failures' \in {failures, failures + 1}

\* Then whoever owned a context does.
LEMMA GoesOnOwners ==
  ASSUME RegistryInv, GoesOn, UNCHANGED <<phase, crashes>>, phase = "up"
  PROVE  RegistryInv' /\ Leaks
<1> USE DEF RegistryInv, LocalTypes, Owners, GoesOn, registry
<1>1. worker.job \in Jobs
  OBVIOUS
<1>2. /\ jobs' \in [Jobs -> {"new", "open", "held", "delivered", "failed"}]
      /\ \A j \in Jobs : jobs'[j] = "new" => jobs[j] = "new"
  BY <1>1 DEF Settle
<1>3. sandboxes' \subseteq Jobs \X (0..crashes')
  BY <1>1 DEF Sandbox
<1>4. Unowned' = Unowned
  BY DEF Unowned, Owned, At
<1>5. Owners'
  BY <1>2
<1>6. QED
  BY <1>1, <1>2, <1>3, <1>4, <1>5 DEF Leaks

\* A record with another program point is a record of the same job.
LEMMA GoType ==
  ASSUME NEW w \in WorkerRecord, NEW pc \in Pc
  PROVE  /\ [w EXCEPT !.pc = pc] \in WorkerRecord
         /\ [w EXCEPT !.pc = pc].pc = pc /\ [w EXCEPT !.pc = pc].job = w.job
BY DEF WorkerRecord

\* The steps of the pipeline that only go on.
LEMMA WorksOn ==
  ASSUME RegistryInv,
         \/ Start \/ Classified \/ Permitted \/ ManifestValidated \/ Dispatched
         \/ ExecutionStarted \/ AcquireSlot \/ ContainerEnds \/ Completed \/ CallAnswered
         \/ Failed \/ Responded \/ Finished \/ ExecutionRaises
  PROVE  GoesOn
<1> USE DEF At, GoesOn, Unregistered, registry
<1>0. worker \in WorkerRecord /\ worker.job \in Jobs \cup {NoJob}
  BY DEF RegistryInv, LocalTypes, WorkerRecord
<1>1. CASE Start
  BY <1>0, <1>1, GoType, ZenonT(40) DEF Start, Go, Pc
<1>2. CASE Classified
  <2>1. PICK r \in Routes \cup {Local}, pc \in {"permit", "unroutable"} :
          worker' = [worker EXCEPT !.route = r, !.pc = pc]
    BY <1>2 DEF Classified
  <2>2. worker' \in WorkerRecord /\ worker'.job = worker.job /\ worker'.pc = pc
    BY <1>0, <2>1 DEF WorkerRecord, Pc
  <2>3. QED
    BY <1>2, <2>2 DEF Classified
<1>3. CASE Permitted
  <2>1. PICK answer \in Answers :
          \/ Go("blocked")
          \/ \E next \in {"manifest", "unprepared"} :
               worker' = [worker EXCEPT !.pc = next, !.hold = HoldsResult(answer),
                                        !.logged = Logged("permitted")]
    BY <1>3 DEF Permitted
  <2>2. CASE Go("blocked")
    BY <1>0, <1>3, <2>2, GoType, ZenonT(40) DEF Permitted, Go, Pc
  <2>3. ASSUME NEW next \in {"manifest", "unprepared"},
               worker' = [worker EXCEPT !.pc = next, !.hold = HoldsResult(answer),
                                        !.logged = Logged("permitted")]
        PROVE  GoesOn
    <3>1. PICK hold \in BOOLEAN : hold = HoldsResult(answer)
      BY HoldsType
    <3>2. Logged("permitted") \in SUBSET {"permitted", "dispatched"}
      BY <1>0 DEF Logged, WorkerRecord
    <3>3. worker' = [worker EXCEPT !.pc = next, !.hold = hold, !.logged = Logged("permitted")]
      BY <2>3, <3>1, Zenon
    <3>4. worker' \in WorkerRecord /\ worker'.job = worker.job /\ worker'.pc = next
      BY <1>0, <3>2, <3>3 DEF WorkerRecord, Pc
    <3>5. QED
      BY <1>3, <3>4 DEF Permitted
  <2>4. QED
    BY <2>1, <2>2, <2>3
<1>4. CASE ManifestValidated
  <2>1. PICK next \in {"unprepared", "blueprint"} : Go(next)
    BY <1>4 DEF ManifestValidated
  <2>2. worker' \in WorkerRecord /\ worker'.job = worker.job /\ worker'.pc = next
    <3>1. next \in Pc
      BY DEF Pc
    <3>2. QED
      BY <1>0, <2>1, <3>1, GoType DEF Go
  <2>3. QED
    BY <1>4, <2>2 DEF ManifestValidated
<1>5. CASE Dispatched
  <2>1. PICK next \in {"started", "call"} :
          worker' = [worker EXCEPT !.pc = next, !.logged = Logged("dispatched")]
    BY <1>5 DEF Dispatched
  <2>2. Logged("dispatched") \in SUBSET {"permitted", "dispatched"}
    BY <1>0 DEF Logged, WorkerRecord
  <2>3. worker' \in WorkerRecord /\ worker'.job = worker.job /\ worker'.pc = next
    BY <1>0, <2>1, <2>2 DEF WorkerRecord, Pc
  <2>4. QED
    BY <1>5, <2>3 DEF Dispatched
<1>6. CASE ExecutionStarted \/ AcquireSlot
  <2>1. PICK next \in {"slot", "container", "completed"} : Go(next)
    BY <1>6 DEF ExecutionStarted, AcquireSlot
  <2>2. worker' \in WorkerRecord /\ worker'.job = worker.job /\ worker'.pc = next
    <3>1. next \in Pc
      BY DEF Pc
    <3>2. QED
      BY <1>0, <2>1, <3>1, GoType DEF Go
  <2>3. QED
    BY <1>6, <2>2 DEF ExecutionStarted, AcquireSlot
<1>7. CASE ContainerEnds
  <2>1. PICK ok \in BOOLEAN :
          /\ sandboxes' = Cleanup(ok)
          /\ \/ worker' = [worker EXCEPT !.pc = "completed", !.ok = ok]
             \/ Go("failed")
    BY <1>7 DEF ContainerEnds
  <2>2. CASE worker' = [worker EXCEPT !.pc = "completed", !.ok = ok]
    <3>1. worker' \in WorkerRecord /\ worker'.job = worker.job /\ worker'.pc = "completed"
      BY <1>0, <2>2 DEF WorkerRecord, Pc
    <3>2. QED
      BY <1>7, <2>1, <3>1 DEF ContainerEnds, Cleanup
  <2>3. CASE Go("failed")
    BY <1>0, <1>7, <2>1, <2>3, GoType, ZenonT(40) DEF ContainerEnds, Cleanup, Go, Pc
  <2>4. QED
    BY <2>1, <2>2, <2>3
<1>8. CASE Completed \/ CallAnswered
  <2>1. PICK next \in {"respond", "failed"} : Go(next)
    BY <1>8 DEF Completed, CallAnswered
  <2>2. worker' \in WorkerRecord /\ worker'.job = worker.job /\ worker'.pc = next
    <3>1. next \in Pc
      BY DEF Pc
    <3>2. QED
      BY <1>0, <2>1, <3>1, GoType DEF Go
  <2>3. QED
    BY <1>8, <2>2 DEF Completed, CallAnswered
<1>9. CASE Failed \/ Responded \/ Finished
  <2>1. PICK next \in {"teardown", "announce", "deliver"} : Go(next)
    BY <1>9 DEF Failed, AfterFailure, Responded, Finished
  <2>2. worker' \in WorkerRecord /\ worker'.job = worker.job /\ worker'.pc = next
    <3>1. next \in Pc
      BY DEF Pc
    <3>2. QED
      BY <1>0, <2>1, <3>1, GoType DEF Go
  <2>3. QED
    BY <1>9, <2>2 DEF Failed, Responded, Finished
<1>10. CASE ExecutionRaises
  BY <1>0, <1>10, GoType, ZenonT(40) DEF ExecutionRaises, Failure, Go, Pc
<1>11. QED
  BY <1>1, <1>2, <1>3, <1>4, <1>5, <1>6, <1>7, <1>8, <1>9, <1>10

\* The steps that take a job, register its context, or end with it.
LEMMA OwnersChange ==
  ASSUME RegistryInv, UNCHANGED <<phase, crashes>>, phase = "up",
         \/ Take \/ Refuse \/ BlueprintCreated \/ Prepared \/ TornDown
         \/ PreparationRaises \/ PipelineRaises \/ RescueRaises
  PROVE  RegistryInv' /\ Leaks
<1> USE DEF RegistryInv, LocalTypes, At
<1>0. /\ worker.job \in Jobs \cup {NoJob} /\ NoJob \notin Jobs
      /\ Idle.pc = "idle" /\ Idle.job = NoJob /\ Idle \in WorkerRecord
  BY IdleType, DispatchAssumption DEF WorkerRecord, Idle
<1>1. CASE Take
  <2>1. PICK j \in waiting :
          /\ waiting' = waiting \ {j}
          /\ worker' = [Idle EXCEPT !.pc = "wait", !.job = j]
    BY <1>1 DEF Take
  <2>2. worker' \in WorkerRecord /\ worker'.pc = "wait" /\ worker'.job = j
    BY <2>1, IdleType DEF WorkerRecord, Pc
  <2>3. UNCHANGED <<jobs, active, contexts, cancel, sandboxes, failures>> /\ worker.pc = "idle"
    BY <1>1 DEF Take, registry
  <2>4. Owners'
    BY <2>1, <2>2, <2>3 DEF Owners
  <2>5. Unowned' \subseteq Unowned
    BY <2>2, <2>3 DEF Unowned, Owned
  <2>6. QED
    BY <2>1, <2>2, <2>3, <2>4, <2>5 DEF Leaks
<1>2. CASE BlueprintCreated
  <2>1. worker' \in WorkerRecord /\ worker'.pc = "prepared" /\ worker'.job = worker.job
    BY <1>2, GoType DEF BlueprintCreated, Go, Pc
  <2>2. worker.job \in Jobs
    BY <1>2 DEF BlueprintCreated, Owners
  <2>3. Owners'
    BY <1>2, <2>1, <2>2 DEF BlueprintCreated, Owners, Unregistered
  <2>4. Unowned' \subseteq Unowned
    BY <1>2, <2>1 DEF BlueprintCreated, Unowned, Owned
  <2>5. QED
    BY <1>2, <2>1, <2>2, <2>3, <2>4 DEF BlueprintCreated, Leaks
<1>3. CASE Prepared
  <2>1. worker' \in WorkerRecord /\ worker'.pc = "dispatch" /\ worker'.job = worker.job
    BY <1>3, GoType DEF Prepared, Go, Pc
  <2>2. Owners'
    BY <1>3, <2>1 DEF Prepared, Owners, Unregistered
  <2>3. Unowned' \subseteq Unowned
    BY <1>3, <2>1 DEF Prepared, Unowned, Owned
  <2>4. QED
    BY <1>3, <2>1, <2>2, <2>3 DEF Prepared, Leaks
<1>4. CASE TornDown
  <2>1. Owners'
    BY <1>0, <1>4 DEF TornDown, Owners, Unregistered
  <2>2. Unowned' \subseteq Unowned
    BY <1>0, <1>4 DEF TornDown, Unowned, Owned
  <2>3. QED
    BY <1>0, <1>4, <2>1, <2>2 DEF TornDown, Leaks
<1>5. CASE Refuse \/ PreparationRaises \/ RescueRaises
  <2>1. /\ UNCHANGED <<waiting, active, contexts, cancel, sandboxes>> /\ worker' = Idle
        /\ worker.pc # "idle" /\ worker.job \in Jobs
    BY <1>5 DEF Refuse, PreparationRaises, RescueRaises, registry, Owners
  <2>2. /\ jobs' \in [Jobs -> {"new", "open", "held", "delivered", "failed"}]
        /\ \A j \in Jobs : jobs'[j] = "new" => jobs[j] = "new"
    BY <1>5, <2>1 DEF Refuse, PreparationRaises, RescueRaises, Settle
  <2>3. Owners'
    BY <1>0, <2>1, <2>2 DEF Owners, Unregistered
  <2>4. Unowned' \subseteq Unowned \cup {worker.job}
    BY <2>1 DEF Unowned, Owned
  <2>5. Leaks
    <3>1. CASE Refuse
      <4>1. worker.job \notin active /\ failures' = failures
        BY <1>5, <3>1 DEF Refuse, Owners, Unregistered
      <4>2. QED
        BY <2>1, <2>4, <4>1 DEF Leaks, Unowned
    <3>2. CASE ~Refuse
      BY <1>5, <2>1, <2>4, <3>2 DEF Leaks, PreparationRaises, RescueRaises, Failure
    <3>3. QED
      BY <3>1, <3>2
  <2>6. failures' \in Nat
    BY <2>5 DEF Leaks
  <2>7. QED
    BY <1>0, <2>1, <2>2, <2>3, <2>5, <2>6
<1>6. CASE PipelineRaises
  <2>1. /\ UNCHANGED <<waiting, active, cancel, sandboxes>> /\ failures' = failures + 1
        /\ contexts' = contexts \ {worker.job}
        /\ worker.pc # "idle" /\ worker.job \in Jobs
    BY <1>6 DEF PipelineRaises, Failure, Owners
  <2>2. /\ jobs' \in [Jobs -> {"new", "open", "held", "delivered", "failed"}]
        /\ \A j \in Jobs : jobs'[j] = "new" => jobs[j] = "new"
    BY <1>6, <2>1 DEF PipelineRaises, Settle
  <2>3. /\ worker' \in WorkerRecord
        /\ worker' = Idle \/ (worker'.pc = "rescue" /\ worker'.job = worker.job)
    <3>1. worker' = Idle \/ worker' = [worker EXCEPT !.pc = "rescue"]
      BY <1>6 DEF PipelineRaises
    <3>2. "rescue" \in Pc
      BY DEF Pc
    <3>3. QED
      <4>1. worker \in WorkerRecord
        OBVIOUS
      <4> HIDE DEF RegistryInv, LocalTypes
      <4>2. CASE worker' = Idle
        BY <1>0, <4>2
      <4>3. CASE worker' = [worker EXCEPT !.pc = "rescue"]
        BY <3>2, <4>1, <4>3, GoType
      <4>4. QED
        BY <3>1, <4>2, <4>3
  <2>4. Owners'
    BY <1>0, <2>1, <2>2, <2>3 DEF Owners, Unregistered
  <2>5. Unowned' \subseteq Unowned \cup {worker.job}
    BY <2>1, <2>3 DEF Unowned, Owned
  <2>6. QED
    BY <2>1, <2>2, <2>3, <2>4, <2>5 DEF Leaks
<1>7. QED
  BY <1>1, <1>2, <1>3, <1>4, <1>5, <1>6

\* RegistryInv is inductive, and every step leaks at most one context for the
\* call that raised in it, or clears the registry.
LEMMA RegistryStep ==
  ASSUME RegistryInv, [Next]_vars
  PROVE  RegistryInv' /\ (Leaks \/ (Unowned' = {} /\ failures' = failures))
<1>1. CASE /\ UNCHANGED local
           /\ crashes' = crashes /\ (phase' # "up" => phase # "up")
  BY <1>1 DEF RegistryInv, LocalTypes, Owners, Down, Leaks, Unowned, Owned, At, local, registry
<1>2. CASE Open
  <2>1. /\ waiting' \subseteq {j \in Jobs : jobs[j] = "open"} /\ phase' = "up" /\ phase # "up"
        /\ UNCHANGED <<jobs, worker, active, contexts, cancel, sandboxes, failures, crashes>>
    BY <1>2 DEF Open, registry
  <2>2. worker.pc = "idle" /\ worker.job = NoJob
    BY <2>1 DEF RegistryInv, Down, Idle
  <2>3. Unowned' = Unowned
    BY <2>1 DEF Unowned, Owned, At
  <2>4. Owners'
    BY <2>1, <2>2, DispatchAssumption DEF RegistryInv, LocalTypes, Owners, Down, Unregistered
  <2>5. QED
    BY <2>1, <2>3, <2>4 DEF RegistryInv, LocalTypes, Leaks
<1>3. CASE Crash
  <2>1. /\ crashes' = crashes + 1 /\ phase' # "up" /\ waiting' = {} /\ worker' = Idle
        /\ active' = {} /\ contexts' = {}
        /\ cancel' = [j \in Jobs |-> IF cancel[j] = "none" THEN "none" ELSE "done"]
        /\ UNCHANGED <<jobs, sandboxes, failures>>
    BY <1>3 DEF Crash
  <2>2. Idle.pc = "idle" /\ Idle.job = NoJob
    BY DEF Idle
  <2>3. LocalTypes'
    BY <2>1, IdleType DEF RegistryInv, LocalTypes
  <2>4. Owners' /\ Down'
    BY <2>1, <2>2, DispatchAssumption DEF RegistryInv, LocalTypes, Owners, Down, Unregistered
  <2>5. QED
    BY <2>1, <2>3, <2>4 DEF RegistryInv, Unowned
<1>4. CASE phase = "up" /\ Handlers /\ UNCHANGED process
  <2>1. UNCHANGED <<phase, crashes>>
    BY <1>4 DEF process
  <2>2. QED
    BY <1>4, <2>1, HandlersOwners
<1>5. CASE phase = "up" /\ Pipeline /\ UNCHANGED process
  <2>1. UNCHANGED <<phase, crashes>>
    BY <1>5 DEF process
  <2>2. CASE GoesOn
    BY <1>5, <2>1, <2>2, GoesOnOwners
  <2>3. CASE ~GoesOn
    <3>1. \/ Take \/ Refuse \/ BlueprintCreated \/ Prepared \/ TornDown
          \/ PreparationRaises \/ PipelineRaises \/ RescueRaises
      BY <1>5, <2>3, WorksOn DEF Pipeline
    <3>2. QED
      BY <1>5, <2>1, <3>1, OwnersChange
  <2>4. QED
    BY <2>2, <2>3
<1>6. QED
  BY <1>1, <1>2, <1>3, <1>4, <1>5
  DEF Next, StartMonitor, InitDb, StartHub, HubRequest, Age, Probe, process, vars

\* The hub's variables keep their types.
LEMMA HubType == HubTypeOK /\ [Next]_vars => HubTypeOK'
<1> SUFFICES ASSUME HubTypeOK, [Next]_vars PROVE HubTypeOK'
  OBVIOUS
<1> USE DEF HubTypeOK, States
<1>1. CASE UNCHANGED hubVars
  BY <1>1 DEF hubVars
<1>2. CASE StartHub
  BY <1>2 DEF StartHub, LoadHub
<1>3. CASE Open
  BY <1>3 DEF Open, StartupSelfCheck, SetHub, hubVars
<1>4. CASE HubRequest
  BY <1>4 DEF HubRequest, Suspend, Activate, RecordHeartbeat, SetHub
<1>5. CASE Age
  BY <1>5 DEF Age, HeartbeatAges
<1>6. QED
  BY <1>1, <1>2, <1>3, <1>4, <1>5 DEF Next, StartMonitor, InitDb, Crash, Probe, vars

\* The start-up goes through its phases, and only through them.
PhaseTypes == phase \in {"monitor", "db", "hub", "check", "up"} /\ db \in BOOLEAN

\* A step of the lifespan handler, a crash, or none of them.
LEMMA PhaseType == PhaseTypes /\ [Next]_vars => PhaseTypes'
BY DEF PhaseTypes, Next, StartMonitor, InitDb, StartHub, Open, Crash, HubRequest, Age, Probe,
   process, vars

\* The invariant behind TypeOK: the registries, the breaker and the hub.
DispatchInv == RegistryInv /\ BreakerInv /\ HubTypeOK /\ PhaseTypes

\* DispatchInv holds in every reachable state.
THEOREM DispatchInvariant == Spec => []DispatchInv
<1>1. Init => DispatchInv
  <2> SUFFICES ASSUME Init PROVE DispatchInv
    OBVIOUS
  <2>1. BreakerInv
    BY BreakerInit
  <2>2. HubTypeOK /\ PhaseTypes
    BY DEF Init, HubInit, HubTypeOK, States, PhaseTypes
  <2>3. Idle.pc = "idle" /\ Idle.job = NoJob
    BY DEF Idle
  <2>4. RegistryInv
    BY <2>3, IdleType, DispatchAssumption
       DEF Init, RegistryInv, LocalTypes, Owners, Down, Unregistered
  <2>5. QED
    BY <2>1, <2>2, <2>4 DEF DispatchInv
<1>2. DispatchInv /\ [Next]_vars => DispatchInv'
  BY RegistryStep, BreakerStep, HubType, PhaseType DEF DispatchInv
<1>3. QED
  BY <1>1, <1>2, PTL DEF Spec

\* The state is the one the model declares; a context the job manager knows is
\* one the lifecycle knows.
THEOREM DispatchType == Spec => []TypeOK
<1>1. DispatchInv => TypeOK
  <2> SUFFICES ASSUME DispatchInv PROVE TypeOK
    OBVIOUS
  <2>1. worker.job \notin waiting
    BY DEF DispatchInv, RegistryInv, Owners
  <2>2. QED
    BY <2>1 DEF DispatchInv, RegistryInv, LocalTypes, Owners, WorkerRecord, BreakerInv,
                PhaseTypes, TypeOK
<1>2. QED
  BY <1>1, DispatchInvariant, PTL

\* One more element is one more, at most.
LEMMA OneMore ==
  ASSUME NEW S, IsFiniteSet(S), NEW x, NEW T, T \subseteq S \cup {x}
  PROVE  IsFiniteSet(T) /\ Cardinality(T) <= Cardinality(S) + 1
<1>1. IsFiniteSet(S \cup {x}) /\ Cardinality(S \cup {x}) <= Cardinality(S) + 1
  <2>1. Cardinality(S) \in Nat
    BY FS_CardinalityType
  <2>2. QED
    BY <2>1, FS_AddElement
<1>2. IsFiniteSet(T) /\ Cardinality(T) <= Cardinality(S \cup {x})
  BY <1>1, FS_Subset
<1>3. QED
  BY <1>1, <1>2, FS_CardinalityType

\* Every call that raises leaks one context at most.
Accounted == IsFiniteSet(Unowned) /\ Cardinality(Unowned) <= failures

\* WorkerLifecycle's registry leaks at most one context per call that raised,
\* however cancels and the pipeline overlap.
THEOREM ContextsBounded == Spec => []ContextsAccounted
<1>1. Init => Accounted
  BY FS_EmptySet DEF Init, Accounted, Unowned
<1>2. ASSUME DispatchInv, Accounted, [Next]_vars PROVE Accounted'
  <2>1. RegistryInv /\ failures \in Nat
    BY <1>2 DEF DispatchInv, RegistryInv, LocalTypes
  <2>2. Cardinality(Unowned) \in Nat
    BY <1>2, FS_CardinalityType DEF Accounted
  <2>3. CASE Unowned' = {} /\ failures' = failures
    BY <2>1, <2>3, FS_EmptySet DEF Accounted
  <2>4. CASE failures' = failures /\ Unowned' \subseteq Unowned
    BY <1>2, <2>1, <2>2, <2>4, FS_Subset, FS_CardinalityType DEF Accounted
  <2>5. ASSUME failures' = failures + 1, NEW j \in Jobs, Unowned' \subseteq Unowned \cup {j}
        PROVE  Accounted'
    <3>1. IsFiniteSet(Unowned') /\ Cardinality(Unowned') <= Cardinality(Unowned) + 1
      BY <1>2, <2>5, OneMore DEF Accounted
    <3>2. Cardinality(Unowned') \in Nat
      BY <3>1, FS_CardinalityType
    <3>3. QED
      BY <1>2, <2>1, <2>2, <2>5, <3>1, <3>2 DEF Accounted
  <2>6. QED
    BY <1>2, <2>1, <2>3, <2>4, <2>5, RegistryStep DEF Leaks
<1>3. Accounted => ContextsAccounted
  BY DEF Accounted, Unowned, ContextsAccounted
<1>4. QED
  BY <1>1, <1>2, <1>3, DispatchInvariant, PTL DEF Spec
=============================================================================
