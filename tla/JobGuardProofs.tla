---------------------------- MODULE JobGuardProofs ----------------------------
(***************************************************************************)
(* The two first-writer guards of a job, override_type and                 *)
(* review_decision: proofs that they serialise human decisions on it,      *)
(* across overlapping handlers, failed awaits, crashes and recoveries.     *)
(*                                                                         *)
(* None of the properties is inductive: they speak of the audit log, and   *)
(* say nothing of the handler that is about to write to it, nor of the     *)
(* cache a restart rebuilds from the rows.  GuardInv adds what connects    *)
(* them: an override handler owns the guard of its job in the row, a       *)
(* review handler finds its decision there, and everything that can still  *)
(* run refers to jobs the cache holds.                                     *)
(*                                                                         *)
(* Two more invariants rest on it: RunsInv for the cap on re-dispatches,   *)
(* HeldInv for results that are held until a human has reviewed them.      *)
(***************************************************************************)
EXTENDS JobManagerProofs

Present(j) == mem[j].status # "absent"

\* Request r won the override guard of its job.
Holds(r) ==
  /\ req[r].pc # "new" /\ req[r].op \in OverrideOp
  /\ req[r].reply \in {"none", "ok", "raised", "lost"}

AbsentOK ==
  \A j \in Jobs : /\ mem[j].status = "absent" => mem[j] = Absent
                  /\ db[j].status = "absent" => db[j] = Absent

WrittenThrough ==
  \A j \in Jobs : Present(j) =>
    /\ db[j].status # "absent"
    /\ db[j].override_type = mem[j].override_type
    /\ db[j].review_decision = mem[j].review_decision

\* Whatever can run works on jobs that are in the cache.
LiveOK ==
  /\ worker.pc # "idle" => Present(worker.job)
  /\ \A i \in 1..Len(queue) : Present(queue[i])
  /\ \A r \in Requests : Active(req[r]) => Present(req[r].job)
  /\ \A r \in Requests : req[r].pc = "successor" => Present(r)
  /\ phase = "saving" => \A j \in todo : Present(j)

\* Nothing runs while the process is down.
DownOK ==
  phase = "down" =>
    worker.pc = "idle" /\ queue = <<>> /\ \A r \in Requests : ~Active(req[r])

Unspawned == {"new", "override", "reviewed", "fail"}

\* A request that has not minted its successor yet has none.
FreshOK ==
  \A r \in Requests :
    req[r].pc \in Unspawned =>
      mem[r] = Absent /\ db[r] = Absent

OwnerOK ==
  /\ \A r \in Requests : Holds(r) =>
       req[r].job \in Jobs /\ db[req[r].job].override_type = req[r].op
  /\ \A r, s \in Requests : Holds(r) /\ Holds(s) /\ req[r].job = req[s].job => r = s

DecidedOK ==
  \A r \in Requests :
    Active(req[r]) /\ req[r].op \in TerminalReview =>
      db[req[r].job].review_decision # "none"

ExclusiveOK ==
  \A j \in Jobs : db[j].override_type = "none" \/ db[j].review_decision = "none"

TrailOK ==
  \A e \in trail :
    /\ e.kind = "override" =>
         e.by \in Requests /\ Holds(e.by) /\ req[e.by].job = e.job
    /\ e.kind \in TerminalReview => db[e.job].review_decision # "none"

SuccessorOK ==
  \A r \in Requests : db[r] # Absent => Holds(r) /\ req[r].op \in SuccessorOp

GuardInv ==
  /\ AbsentOK /\ WrittenThrough /\ LiveOK /\ DownOK /\ FreshOK /\ OwnerOK
  /\ DecidedOK /\ ExclusiveOK /\ TrailOK /\ SuccessorOK

\* No job, no request: the empty system satisfies the invariant.
LEMMA InitGuard == Init => GuardInv
  BY DEF Init, GuardInv, AbsentOK, WrittenThrough, LiveOK, DownOK, FreshOK, OwnerOK,
         DecidedOK, ExclusiveOK, TrailOK, SuccessorOK, Present, Holds, Active,
         Absent, NoWork, FreshRequest, Jobs

-----------------------------------------------------------------------------
(* Most steps leave the guards and their owners alone, apart from minting  *)
(* jobs without any.                                                       *)

SameGuards(m, n) ==
  /\ n.override_type = m.override_type
  /\ n.review_decision = m.review_decision
  /\ "absent" \in {m.status, n.status} => n = m

Minted(j) ==
  /\ mem[j] = Absent /\ db[j] = Absent
  /\ \E s \in Status : mem'[j] = NewJob(s) /\ db'[j] = NewJob(s)
  /\ j \in Requests =>
       Holds(j) /\ req[j].op \in SuccessorOp /\ req'[j].pc = "successor"

KeepsJobs ==
  \A j \in Jobs :
    \/ SameGuards(mem[j], mem'[j]) /\ SameGuards(db[j], db'[j])
    \/ Minted(j)

KeepsRequest(p, q) ==
  /\ q.op = p.op /\ q.job = p.job
  /\ q.pc = "new" <=> p.pc = "new"
  /\ q.reply = p.reply \/ (p.reply = "none" /\ q.reply \in {"ok", "raised"})
  /\ Active(q) => Active(p)
  /\ q.pc \in Unspawned => p.pc \in Unspawned

KeepsRequests ==
  \A r \in Requests :
    /\ KeepsRequest(req[r], req'[r])
    /\ req'[r].pc = "successor" => req[r].pc = "successor" \/ Minted(r)

Lives(j) == Present(j) \/ Minted(j)

\* What a step may do to the override guards of the table.
OverrideStays == \A j \in Jobs : db'[j].override_type = db[j].override_type

OverrideWon(j, op) ==
  /\ db[j].override_type = "none" /\ db'[j].override_type = op
  /\ \A i \in Jobs \ {j} : db'[i].override_type = db[i].override_type

OverrideMoves ==
  OverrideStays \/ \E j \in Jobs, op \in OverrideOp : OverrideWon(j, op)

KeepsWork ==
  /\ phase' # "down"
  /\ worker'.pc # "idle" => Lives(worker'.job)
  /\ \A i \in 1..Len(queue') : Lives(queue'[i])
  /\ phase' = "saving" => \A j \in todo' : Present(j)

KeepsTrail ==
  \A e \in trail' \ trail :
    /\ e.kind = "override" =>
         e.by \in Requests /\ Holds(e.by) /\ req[e.by].job = e.job
    /\ e.kind \in TerminalReview => db[e.job].review_decision # "none"

\* Such a step: a submission, a step of the worker or of a handler.
Calm == KeepsJobs /\ KeepsRequests /\ KeepsWork /\ KeepsTrail

\* A slot no submission has filled reads as absent.
LEMMA AbsentStatus == Absent.status = "absent"
  BY DEF Absent

\* A job that was just minted has no guard, in memory and in its row alike.
LEMMA MintedGuards ==
  ASSUME TInv', NEW j \in Jobs, Minted(j)
  PROVE  /\ (Present(j))'
         /\ mem'[j] = db'[j] /\ db'[j].status # "absent"
         /\ db'[j].override_type = "none" /\ db'[j].review_decision = "none"
         /\ db[j].override_type = "none" /\ db[j].review_decision = "none"
         /\ ~Present(j) /\ mem[j].status = "absent" /\ db[j].status = "absent"
  BY DEF Minted, NewJob, Absent, Present, Status, PreDelivery, Terminal

\* A guard that is set on a row stays what it is.
LEMMA GuardStays ==
  ASSUME TInv', KeepsJobs, NEW j \in Jobs
  PROVE  /\ db[j].override_type # "none" => db'[j].override_type = db[j].override_type
         /\ db[j].review_decision # "none" => db'[j].review_decision = db[j].review_decision
         /\ Present(j) => (Present(j))'
  BY MintedGuards DEF KeepsJobs, SameGuards, Present

\* A step that keeps every guard, every request, the work in progress and the
\* review and override events of the log keeps the invariant.
LEMMA CalmStep ==
  ASSUME TInv, TInv', GuardInv, Calm
  PROVE  GuardInv' /\ OverrideStays
  <1> USE DEF TInv, TypeOK, Calm
  <1>0. OverrideStays
    BY MintedGuards DEF KeepsJobs, SameGuards, OverrideStays
  <1>1. \A j \in Jobs : Present(j) => (Present(j))'
    BY GuardStays
  <1>2. \A r \in Requests : (Holds(r))' <=> Holds(r)
    BY DEF KeepsRequests, KeepsRequest, Holds
  <1>3. AbsentOK'
    <2> SUFFICES ASSUME NEW j \in Jobs
                 PROVE  /\ mem'[j].status = "absent" => mem'[j] = Absent
                        /\ db'[j].status = "absent" => db'[j] = Absent
      BY DEF AbsentOK
    <2>1. CASE Minted(j)
      BY <2>1, MintedGuards
    <2>2. CASE SameGuards(mem[j], mem'[j]) /\ SameGuards(db[j], db'[j])
      BY <2>2 DEF GuardInv, AbsentOK, SameGuards
    <2> QED BY <2>1, <2>2 DEF KeepsJobs
  <1>4. WrittenThrough'
    <2> SUFFICES ASSUME NEW j \in Jobs, (Present(j))'
                 PROVE  /\ db'[j].status # "absent"
                        /\ db'[j].override_type = mem'[j].override_type
                        /\ db'[j].review_decision = mem'[j].review_decision
      BY DEF WrittenThrough
    <2>1. CASE Minted(j)
      BY <2>1, MintedGuards
    <2>2. CASE SameGuards(mem[j], mem'[j]) /\ SameGuards(db[j], db'[j])
      BY <2>2 DEF GuardInv, WrittenThrough, SameGuards, Present
    <2> QED BY <2>1, <2>2 DEF KeepsJobs
  <1>5. LiveOK'
    <2>1. worker'.pc # "idle" => worker'.job \in Jobs
      OBVIOUS
    <2>2. \A i \in 1..Len(queue') : queue'[i] \in Jobs
      OBVIOUS
    <2>3. \A r \in Requests : Active(req'[r]) => (Present(req[r].job))' /\ req'[r].job = req[r].job
      BY <1>1 DEF GuardInv, LiveOK, KeepsRequests, KeepsRequest, RequestOK
    <2>4. \A r \in Requests : req'[r].pc = "successor" => (Present(r))'
      BY <1>1, MintedGuards DEF GuardInv, LiveOK, KeepsRequests, KeepsRequest, Jobs
    <2>5. \A j \in Jobs : Lives(j) => (Present(j))'
      BY <1>1, MintedGuards DEF Lives
    <2> QED BY <1>1, <2>1, <2>2, <2>3, <2>4, <2>5 DEF KeepsWork, LiveOK, Present
  <1>6. DownOK'
    BY DEF KeepsWork, DownOK
  <1>7. FreshOK'
    <2> SUFFICES ASSUME NEW r \in Requests, req'[r].pc \in Unspawned
                 PROVE  mem'[r] = Absent /\ db'[r] = Absent
      BY DEF FreshOK
    <2>1. mem[r] = Absent /\ db[r] = Absent
      BY DEF GuardInv, FreshOK, KeepsRequests, KeepsRequest
    <2>2. ~Minted(r)
      BY DEF Minted, Unspawned
    <2> QED BY <2>1, <2>2, AbsentStatus DEF KeepsJobs, SameGuards, Jobs
  <1>8. OwnerOK'
    <2>1. ASSUME NEW r \in Requests, (Holds(r))'
          PROVE  /\ Holds(r) /\ req'[r].job = req[r].job /\ req[r].job \in Jobs
                 /\ db'[req'[r].job].override_type = req'[r].op
      <3>1. Holds(r) /\ req'[r].job = req[r].job /\ req'[r].op = req[r].op
        BY <1>2, <2>1 DEF KeepsRequests, KeepsRequest
      <3>2. req[r].job \in Jobs /\ db[req[r].job].override_type = req[r].op
        BY <3>1 DEF GuardInv, OwnerOK
      <3>3. req[r].op # "none"
        BY <3>1 DEF Holds, OverrideOp, ReservingOp, SuccessorOp
      <3> QED BY <3>1, <3>2, <3>3, GuardStays
    <2> QED BY <2>1 DEF GuardInv, OwnerOK
  <1>9. DecidedOK'
    <2> SUFFICES ASSUME NEW r \in Requests, Active(req'[r]), req'[r].op \in TerminalReview
                 PROVE  db'[req'[r].job].review_decision # "none"
      BY DEF DecidedOK
    <2>1. Active(req[r]) /\ req'[r].op = req[r].op /\ req'[r].job = req[r].job
      BY DEF KeepsRequests, KeepsRequest
    <2>2. req[r].job \in Jobs /\ db[req[r].job].review_decision # "none"
      BY <2>1 DEF RequestOK, GuardInv, DecidedOK
    <2> QED BY <2>1, <2>2, GuardStays
  <1>10. ExclusiveOK'
    BY MintedGuards, ZenonT(40) DEF GuardInv, ExclusiveOK, KeepsJobs, SameGuards
  <1>11. TrailOK'
    <2> SUFFICES ASSUME NEW e \in trail'
                 PROVE  /\ e.kind = "override" =>
                             e.by \in Requests /\ (Holds(e.by))' /\ req'[e.by].job = e.job
                        /\ e.kind \in TerminalReview => db'[e.job].review_decision # "none"
      BY DEF TrailOK
    <2>1. e.job \in Jobs
      BY DEF Event
    <2>2. /\ e.kind = "override" =>
               e.by \in Requests /\ Holds(e.by) /\ req[e.by].job = e.job
          /\ e.kind \in TerminalReview => db[e.job].review_decision # "none"
      BY DEF GuardInv, TrailOK, KeepsTrail
    <2> QED BY <1>2, <2>1, <2>2, GuardStays DEF KeepsRequests, KeepsRequest
  <1>12. SuccessorOK'
    <2> SUFFICES ASSUME NEW r \in Requests, db'[r] # Absent
                 PROVE  (Holds(r))' /\ req'[r].op \in SuccessorOp
      BY DEF SuccessorOK
    <2>1. db[r] # Absent \/ Minted(r)
      BY AbsentStatus DEF KeepsJobs, SameGuards, Jobs
    <2>2. Holds(r) /\ req[r].op \in SuccessorOp
      BY <2>1 DEF GuardInv, SuccessorOK, Minted
    <2> QED BY <1>2, <2>2 DEF KeepsRequests, KeepsRequest
  <1> QED BY <1>0, <1>3, <1>4, <1>5, <1>6, <1>7, <1>8, <1>9, <1>10, <1>11, <1>12 DEF GuardInv

\* A status may be written, through or not, on a job that is in the cache.
LEMMA StatusWrite ==
  ASSUME TInv, GuardInv, NEW j \in Jobs, Present(j), NEW s \in Status,
         Write(j, WithStatus(j, s))
  PROVE  KeepsJobs
  <1>1. mem[j] \in Job /\ db[j] \in Job /\ s # "absent"
    BY DEF TInv, TypeOK, Status, PreDelivery, Terminal
  <1>2. SameGuards(mem[j], WithStatus(j, s)) /\ SameGuards(db[j], WithStatus(j, s))
    BY <1>1 DEF GuardInv, WrittenThrough, Present, SameGuards, WithStatus, Job
  <1> QED BY <1>2 DEF Write, KeepsJobs, SameGuards, TInv, TypeOK

\* So may the cached record itself.
LEMMA PersistWrite ==
  ASSUME TInv, GuardInv, NEW j \in Jobs, Present(j),
         mem' = mem, db' = [db EXCEPT ![j] = mem[j]]
  PROVE  KeepsJobs
  BY DEF GuardInv, WrittenThrough, Present, SameGuards, KeepsJobs, TInv, TypeOK

\* A handler that writes no job keeps them all.
LEMMA NoWrite == ASSUME UNCHANGED <<mem, db>> PROVE KeepsJobs
  BY DEF KeepsJobs, SameGuards

\* An event that is neither a terminal review nor an override leaves the
\* winners of the log alone.
LEMMA SystemEvent ==
  ASSUME NEW j, NEW k, NEW by, Emit(j, k, by), k \notin TerminalReview \cup {"override"}
  PROVE  KeepsTrail
  BY DEF Emit, Ev, KeepsTrail

\* A step of the worker or of the startup moves no request.
LEMMA NoRequest == ASSUME req' = req PROVE KeepsRequests
  BY DEF KeepsRequests, KeepsRequest

\* process_job writes statuses and results only: a guard passes through the
\* whole pipeline untouched.
LEMMA WorkerCalm == ASSUME TInv, TInv', GuardInv, WorkerStep PROVE Calm
  <1> DEFINE j == worker.job
  <1> USE DEF WTake, WStart, WClassify, WRefused, WPermit, WPrepare, WDispatch,
              WExecute, WExecFailed, WRespond, WHold, WAnnounce, WDeliver,
              WTeardown, WRaises
  <1>1. worker.pc # "idle" => Present(j) /\ j \in Jobs
    BY DEF GuardInv, LiveOK, TInv, TypeOK
  <1>2. phase' = "up" /\ KeepsRequests
    BY NoRequest DEF WorkerStep, Running, process
  <1>3. KeepsWork
    <2>1. CASE WTake
      <3>1. /\ \A i \in 1..Len(queue') : queue'[i] = queue[i + 1] /\ i + 1 \in 1..Len(queue)
            /\ worker'.job = queue[1] /\ 1 \in 1..Len(queue)
        BY <2>1 DEF TInv, TypeOK
      <3> QED BY <1>2, <3>1 DEF KeepsWork, Lives, GuardInv, LiveOK
    <2>2. CASE ~WTake
      <3>1. queue' = queue
        BY <2>2 DEF WorkerStep
      <3>2. worker'.pc # "idle" => worker'.job = worker.job /\ worker.pc # "idle"
        <4>1. ASSUME NEW pc, WGoto(pc) PROVE worker'.job = worker.job
          BY <4>1 DEF WGoto, TInv, TypeOK
        <4>2. CASE WPermit
          BY <4>2 DEF TInv, TypeOK
        <4>3. CASE worker' = NoWork
          BY <4>3 DEF NoWork
        <4> QED BY <2>2, <4>1, <4>2, <4>3 DEF WorkerStep, Routed
      <3> QED BY <1>1, <1>2, <3>1, <3>2 DEF KeepsWork, Lives, GuardInv, LiveOK
    <2> QED BY <2>1, <2>2
  <1>4. KeepsTrail
    <2>1. CASE UNCHANGED trail
      BY <2>1 DEF KeepsTrail
    <2>2. AwaitedByWorker(worker.pc) \cap (TerminalReview \cup {"override"}) = {}
      BY DEF AwaitedByWorker, TerminalReview
    <2>3. CASE ~UNCHANGED trail
      BY <2>2, <2>3, SystemEvent DEF WorkerStep, TerminalReview
    <2> QED BY <2>1, <2>3
  <1>5. KeepsJobs
    <2>1. CASE UNCHANGED <<mem, db>>
      BY <2>1, NoWrite
    <2>2. CASE WStart
      BY <1>1, <2>1, <2>2, PersistWrite
    <2>3. CASE \E s \in Status : Write(j, WithStatus(j, s)) /\ worker.pc # "idle"
      BY <1>1, <2>3, StatusWrite
    <2> QED BY <2>1, <2>2, <2>3 DEF WorkerStep, Status, PreDelivery, Terminal
  <1> QED BY <1>2, <1>3, <1>4, <1>5 DEF Calm

-----------------------------------------------------------------------------
(* The other steps.                                                        *)

\* Only a job that lives is put in the queue.
LEMMA QueueStays ==
  ASSUME TInv, GuardInv, queue' = queue \/ \E j \in Jobs : Lives(j) /\ Enqueue(j)
  PROVE  \A i \in 1..Len(queue') : Lives(queue'[i])
  <1>0. queue \in Seq(Jobs) /\ \A i \in 1..Len(queue) : Lives(queue[i])
    BY DEF GuardInv, LiveOK, Lives, TInv, TypeOK
  <1>1. CASE queue' = queue
    BY <1>0, <1>1
  <1>2. ASSUME NEW j \in Jobs, Lives(j), queue' = Append(queue, j)
        PROVE  \A i \in 1..Len(queue') : Lives(queue'[i])
    <2>1. \A i \in 1..Len(queue') :
            IF i \in 1..Len(queue) THEN queue'[i] = queue[i] ELSE queue'[i] = j
      BY <1>0, <1>2
    <2> QED BY <1>0, <1>2, <2>1
  <1> QED BY <1>1, <1>2 DEF Enqueue

\* A handler leaves the worker and the loops of a restart as they were, and
\* queues at most a job that is in the cache.
LEMMA WorkStays ==
  ASSUME TInv, GuardInv, phase = "up", phase' = phase, worker' = worker,
         queue' = queue \/ \E j \in Jobs : Lives(j) /\ Enqueue(j)
  PROVE  KeepsWork
  BY QueueStays DEF KeepsWork, Lives, GuardInv, LiveOK

\* So does a step of the recovery pass.
LEMMA RecoveryWork ==
  ASSUME TInv, GuardInv, phase = "recovering", phase' = phase, worker' = worker,
         queue' = queue \/ \E j \in Jobs : Present(j) /\ Enqueue(j)
  PROVE  KeepsWork
  BY QueueStays DEF KeepsWork, Lives, GuardInv, LiveOK

\* Crash recovery resets a status and counts a dispatch; it keeps both guards.
LEMMA RecoveredKeeps ==
  ASSUME NEW m \in Job
  PROVE  /\ Recovered(m).override_type = m.override_type
         /\ Recovered(m).review_decision = m.review_decision
         /\ m.status # "absent" => Recovered(m).status # "absent"
  BY DEF Recovered, Job

\* submit_job mints a job whose slot was absent, so it has no guard and no event.
LEMMA SubmitCalm ==
  ASSUME TInv, TInv', GuardInv, NEW j \in Jobs, Submit(j)
  PROVE  Calm
  <1>1. db[j] = Absent /\ mem[j] = Absent /\ j \notin Requests
    BY AbsentStatus, ConstantsAssumption
       DEF Submit, GuardInv, WrittenThrough, AbsentOK, Present
  <1>2. Minted(j)
    BY <1>1 DEF Minted, Submit, Write, Status, PreDelivery, Terminal, TInv, TypeOK
  <1>3. KeepsJobs
    BY <1>2 DEF KeepsJobs, SameGuards, Submit, Write, TInv, TypeOK
  <1>4. KeepsTrail /\ KeepsRequests
    BY SystemEvent, NoRequest DEF Submit, TerminalReview
  <1>5. KeepsWork
    BY <1>2, WorkStays DEF Submit, Running, process, Lives
  <1> QED BY <1>3, <1>4, <1>5 DEF Calm

\* What a new request may do to the guards of its job j: nothing, take one
\* that no override holds, or decide a review where none does.
Takes(j, op) ==
  \/ UNCHANGED <<mem, db>>
  \/ /\ Present(j)
     /\ mem[j].override_type = "none"
     /\ \E m \in Job :
          /\ Write(j, m)
          /\ m.status # "absent"
          /\ \/ /\ op \in OverrideOp
                /\ mem[j].review_decision = "none"
                /\ m.override_type = op /\ m.review_decision = "none"
             \/ /\ op \in TerminalReview
                /\ m.override_type = "none" /\ m.review_decision = op

\* The first stretch of a handler, up to its first await: it takes the guard of
\* a job that had none, or answers without one.
LEMMA ArriveStep ==
  ASSUME TInv, TInv', GuardInv, NEW r \in Requests, NEW j \in Jobs, NEW op, NEW k,
         NEW pc \in {"override", "reviewed", "done"}, NEW reply \in Reply,
         Arrive(r, op, j, k, pc, reply), Takes(j, op),
         pc # "done" => Present(j),
         op \in OverrideOp /\ reply \in {"none", "ok", "raised", "lost"} =>
           ~UNCHANGED <<mem, db>>,
         op \in TerminalReview /\ pc # "done" => db'[j].review_decision # "none",
         UNCHANGED <<process, queue, worker, ctx, outcome, trail, runs>>
  PROVE  GuardInv' /\ (OverrideStays \/ \E o \in OverrideOp : OverrideWon(j, o))
  <1> USE DEF TInv, TypeOK
  <1>1. /\ req[r].pc = "new"
        /\ req'[r].pc = pc /\ req'[r].op = op /\ req'[r].job = j /\ req'[r].reply = reply
        /\ \A s \in Requests \ {r} : req'[s] = req[s]
        /\ phase = "up" /\ phase' = "up"
    <2> DEFINE q == [pc |-> pc, op |-> op, job |-> j, key |-> k, reply |-> reply,
                     pre |-> mem[j].status \in PreDelivery]
    <2>1. q.pc = pc /\ q.op = op /\ q.job = j /\ q.reply = reply
      OBVIOUS
    <2>2. req' = [req EXCEPT ![r] = q] /\ req[r].pc = "new" /\ Running
      BY DEF Arrive
    <2> HIDE DEF q
    <2> QED BY <2>1, <2>2 DEF Running, process
  <1>2. \A i \in Jobs :
          /\ (Present(i))' <=> Present(i)
          /\ db'[i].status = "absent" <=> db[i].status = "absent"
          /\ "absent" \in {db[i].status, db'[i].status} => db'[i] = db[i]
          /\ "absent" \in {mem[i].status, mem'[i].status} => mem'[i] = mem[i]
    <2>1. CASE UNCHANGED <<mem, db>>
      BY <2>1 DEF Present
    <2>2. ASSUME NEW m \in Job, Present(j), Write(j, m), m.status # "absent"
          PROVE  /\ db[j].status # "absent"
                 /\ mem' = [mem EXCEPT ![j] = m] /\ db' = [db EXCEPT ![j] = m]
      BY <2>2 DEF GuardInv, WrittenThrough, Write
    <2> QED BY <2>1, <2>2 DEF Takes, Present
  <1>3. ~UNCHANGED <<mem, db>> =>
          /\ db[j].override_type = "none"
          /\ \/ /\ op \in OverrideOp
                /\ db[j].review_decision = "none" /\ db'[j].review_decision = "none"
                /\ db'[j].override_type = op
             \/ /\ op \in TerminalReview
                /\ db'[j].override_type = "none" /\ db'[j].review_decision = op
    BY DEF Takes, Write, GuardInv, WrittenThrough, Present
  <1>4. \A i \in Jobs \ {j} : db'[i] = db[i] /\ mem'[i] = mem[i]
    BY DEF Takes, Write
  <1>5. /\ \A o \in OverrideOp : o # "none" /\ o \notin TerminalReview
        /\ \A o \in TerminalReview : o # "none"
    BY DEF OverrideOp, ReservingOp, SuccessorOp, TerminalReview
  <1>6. \A i \in Jobs :
          /\ db[i].override_type # "none" => db'[i].override_type = db[i].override_type
          /\ db[i].review_decision # "none" => db'[i].review_decision # "none"
    BY <1>3, <1>4, <1>5
  <1>7. ~Holds(r) /\ \A s \in Requests \ {r} : (Holds(s))' <=> Holds(s)
    BY <1>1 DEF Holds
  <1>8. (Holds(r))' => db[j].override_type = "none" /\ db'[j].override_type = op
    BY <1>1, <1>3, <1>5 DEF Holds
  <1>9. AbsentOK' /\ WrittenThrough'
    <2>1. AbsentOK'
      BY <1>2 DEF GuardInv, AbsentOK
    <2>2. WrittenThrough'
      <3>1. CASE UNCHANGED <<mem, db>>
        BY <3>1 DEF GuardInv, WrittenThrough, Present
      <3>2. CASE \E m \in Job : Write(j, m) /\ m.status # "absent"
        BY <1>4, <3>2 DEF GuardInv, WrittenThrough, Present, Write
      <3> QED BY <3>1, <3>2 DEF Takes
    <2> QED BY <2>1, <2>2
  <1>10. LiveOK' /\ DownOK'
    <2>1. ASSUME NEW s \in Requests, Active(req'[s])
          PROVE  (Present(req[s].job))'
      <3>1. CASE s = r
        BY <1>1, <1>2, <2>1, <3>1 DEF Active, Present
      <3>2. CASE s # r
        BY <1>1, <1>2, <2>1, <3>2 DEF GuardInv, LiveOK, RequestOK, Present
      <3> QED BY <3>1, <3>2
    <2>2. \A s \in Requests : req'[s].pc = "successor" => (Present(s))'
      BY <1>1, <1>2 DEF GuardInv, LiveOK, Jobs
    <2>3. /\ worker.pc # "idle" => (Present(worker.job))'
          /\ \A i \in 1..Len(queue) : queue[i] \in Jobs /\ (Present(queue[i]))'
      BY <1>2 DEF GuardInv, LiveOK
    <2> QED BY <1>1, <2>1, <2>2, <2>3 DEF LiveOK, DownOK, Present
  <1>11. FreshOK'
    <2> SUFFICES ASSUME NEW s \in Requests, req'[s].pc \in Unspawned
                 PROVE  mem'[s] = Absent /\ db'[s] = Absent
      BY DEF FreshOK
    <2>1. s \in Jobs /\ req[s].pc \in Unspawned
      BY <1>1 DEF Unspawned, Jobs
    <2>2. mem[s] = Absent /\ db[s] = Absent
      BY <2>1 DEF GuardInv, FreshOK
    <2> QED BY <1>2, <2>1, <2>2, AbsentStatus
  <1>12. OwnerOK'
    <2>1. ASSUME NEW s \in Requests \ {r}, (Holds(s))'
          PROVE  /\ req'[s].job \in Jobs
                 /\ db'[req'[s].job].override_type = req'[s].op
                 /\ (Holds(r))' => req'[s].job # j
      <3>1. Holds(s) /\ req'[s] = req[s]
        BY <1>1, <1>7, <2>1
      <3>2. req[s].job \in Jobs /\ db[req[s].job].override_type = req[s].op
            /\ req[s].op # "none"
        BY <1>5, <3>1 DEF GuardInv, OwnerOK, Holds
      <3> QED BY <1>6, <1>8, <3>1, <3>2
    <2>2. \A s, t \in Requests \ {r} :
            (Holds(s))' /\ (Holds(t))' /\ req'[s].job = req'[t].job => s = t
      BY <1>1, <1>7 DEF GuardInv, OwnerOK
    <2> QED BY <1>1, <1>8, <2>1, <2>2 DEF OwnerOK
  <1>13. DecidedOK'
    <2>1. ASSUME NEW s \in Requests, Active(req'[s]), req'[s].op \in TerminalReview
          PROVE  db'[req'[s].job].review_decision # "none"
      <3>1. CASE s = r
        BY <1>1, <1>3, <1>5, <2>1, <3>1 DEF Active
      <3>2. CASE s # r
        BY <1>1, <1>6, <2>1, <3>2 DEF GuardInv, DecidedOK, RequestOK
      <3> QED BY <3>1, <3>2
    <2> QED BY <2>1 DEF DecidedOK
  <1>14. ExclusiveOK'
    BY <1>3, <1>4 DEF GuardInv, ExclusiveOK
  <1>15. TrailOK'
    <2>1. ASSUME NEW e \in trail
          PROVE  /\ e.kind = "override" =>
                      e.by \in Requests /\ (Holds(e.by))' /\ req'[e.by].job = e.job
                 /\ e.kind \in TerminalReview => db'[e.job].review_decision # "none"
      BY <1>1, <1>6, <1>7 DEF GuardInv, TrailOK, Event
    <2> QED BY <2>1 DEF TrailOK
  <1>16. SuccessorOK'
    BY <1>1, <1>2, <1>7, AbsentStatus
       DEF GuardInv, SuccessorOK, FreshOK, Unspawned, AbsentOK, Jobs
  <1>17. OverrideStays \/ \E o \in OverrideOp : OverrideWon(j, o)
    BY <1>3, <1>4 DEF OverrideStays, OverrideWon
  <1> QED BY <1>9, <1>10, <1>11, <1>12, <1>13, <1>14, <1>15, <1>16, <1>17 DEF GuardInv

\* Every POST to /review and /override keeps the invariant on arrival.
LEMMA ArrivalGuard ==
  ASSUME TInv, TInv', GuardInv, NEW r \in Requests, RequestArrives(r)
  PROVE  GuardInv' /\ OverrideMoves
  <1> PICK j \in Jobs :
        \/ \E op \in OverrideOp : OverrideNoOp(r, j, op)
        \/ \E op \in OverrideOp : BeginOverride(r, j, op)
        \/ BeginModify(r, j)
        \/ \E op \in OverrideOp : RefuseOverride(r, j, op)
        \/ \E op \in ReviewOp, k \in Keys : ReviewReplay(r, j, op, k)
        \/ \E op \in ReviewOp, k \in Keys : ReviewRefused(r, j, op, k)
        \/ \E op \in ReviewOp, k \in Keys : BeginReview(r, j, op, k)
    BY DEF RequestArrives
  <1> USE DEF OverrideMoves
  <1>0. /\ mem[j] \in Job
        /\ \A o \in OverrideOp : o \notin ReviewOp
        /\ \A o \in TerminalReview : o # "none"
    BY DEF TInv, TypeOK, OverrideOp, ReservingOp, SuccessorOp, ReviewOp, TerminalReview
  <1>1. ASSUME NEW op \in OverrideOp, OverrideNoOp(r, j, op) PROVE GuardInv' /\ OverrideMoves
    <2>1. op \notin TerminalReview
      BY <1>0 DEF ReviewOp
    <2> QED BY <1>1, <2>1, ArriveStep DEF OverrideNoOp, Reply, Takes
  <1>2. ASSUME NEW op \in OverrideOp, OverrideGuard(mem[j]), Reserve(j, op)
        PROVE  Takes(j, op) /\ Present(j) /\ ~UNCHANGED <<mem, db>>
    <2> DEFINE m == [mem[j] EXCEPT !.override_type = op]
    <2>1. /\ m \in Job /\ m.status = mem[j].status /\ m.override_type = op
          /\ m.review_decision = mem[j].review_decision
      BY <1>0 DEF Job
    <2>2. /\ mem[j].status # "absent" /\ mem[j].override_type = "none"
          /\ mem[j].review_decision = "none"
      BY <1>0, <1>2 DEF OverrideGuard, Job
    <2>3. Write(j, m)
      BY <1>2 DEF Reserve
    <2>4. op # "none"
      BY DEF OverrideOp, ReservingOp, SuccessorOp
    <2> HIDE DEF m
    <2>5. ~UNCHANGED <<mem, db>>
      BY <2>1, <2>2, <2>3, <2>4 DEF Write, TInv, TypeOK
    <2> QED BY <2>1, <2>2, <2>3, <2>5 DEF Takes, Present
  <1>3. ASSUME NEW op \in OverrideOp, BeginOverride(r, j, op) \/ (op = "modify" /\ BeginModify(r, j))
        PROVE  GuardInv' /\ OverrideMoves
    <2>1. op \notin TerminalReview
      BY <1>0 DEF ReviewOp
    <2> QED BY <1>2, <1>3, <2>1, ArriveStep DEF BeginOverride, BeginModify, Reply
  <1>4. ASSUME NEW op \in OverrideOp, RefuseOverride(r, j, op) PROVE GuardInv' /\ OverrideMoves
    <2>1. op \notin TerminalReview
      BY <1>0 DEF ReviewOp
    <2>2. Takes(j, op)
      BY <1>2, <1>4 DEF RefuseOverride, Takes
    <2> QED BY <1>4, <2>1, <2>2, ArriveStep DEF RefuseOverride, Reply
  <1>5. ASSUME NEW op \in ReviewOp, NEW k \in Keys,
               ReviewReplay(r, j, op, k) \/ ReviewRefused(r, j, op, k)
        PROVE  GuardInv' /\ OverrideMoves
    BY <1>0, <1>5, ArriveStep DEF ReviewReplay, ReviewRefused, Reply, Takes
  <1>6. ASSUME NEW op \in ReviewOp, NEW k \in Keys, BeginReview(r, j, op, k)
        PROVE  GuardInv' /\ OverrideMoves
    <2> DEFINE m == Decide(mem[j], op)
    <2>1. Present(j) /\ mem[j].override_type = "none"
      BY <1>6 DEF BeginReview, Reviewable, Present
    <2>2. op = "defer" => op \notin TerminalReview
      BY DEF TerminalReview
    <2>3. op # "defer" =>
            /\ op \in TerminalReview /\ m \in Job /\ m.status # "absent"
            /\ m.override_type = "none" /\ m.review_decision = op
      <3>1. op # "defer" => op \in TerminalReview
        BY DEF ReviewOp
      <3>2. "closed_no_action" \in Status
        BY DEF Status
      <3> QED BY <1>0, <2>1, <3>1, <3>2 DEF Decide, Job, Present
    <2> HIDE DEF m
    <2>4. Takes(j, op)
      BY <1>6, <2>1, <2>3 DEF BeginReview, Takes, m
    <2>5. op \in TerminalReview => db'[j].review_decision # "none"
      BY <1>0, <1>6, <2>2, <2>3 DEF BeginReview, Write, m, TInv, TypeOK
    <2>6. op \notin OverrideOp
      BY <1>0
    <2> QED BY <1>6, <2>1, <2>4, <2>5, <2>6, ArriveStep DEF BeginReview, Reply
  <1> QED BY <1>1, <1>3, <1>4, <1>5, <1>6 DEF OverrideOp

\* Handlers move one program counter, and answer only what they began.
ReqStep(r) ==
  \/ \E pc \in RequestPc \ ({"new"} \cup Unspawned) : Goto(r, pc)
  \/ \E pc \in {"fail", "reviewed"} : req[r].pc \in Unspawned /\ Goto(r, pc)
  \/ \E reply \in {"ok", "raised"} : Answer(r, reply)

\* A handler that resumes moves its own request and no other.
LEMMA HandlerRequests ==
  ASSUME TInv, NEW r \in Requests, Active(req[r]), ReqStep(r)
  PROVE  /\ \A s \in Requests : KeepsRequest(req[s], req'[s])
         /\ \A s \in Requests \ {r} : req'[s] = req[s]
  <1> PICK q : /\ req' = [req EXCEPT ![r] = q]
               /\ KeepsRequest(req[r], q)
    <2>1. req[r] \in Request /\ req[r].reply = "none"
      BY DEF TInv, TypeOK, RequestOK
    <2>2. ASSUME NEW pc \in RequestPc \ {"new"}, Goto(r, pc),
                 pc \in Unspawned => req[r].pc \in Unspawned
          PROVE  KeepsRequest(req[r], [req[r] EXCEPT !.pc = pc])
      BY <2>1, <2>2 DEF KeepsRequest, Request, Active
    <2>3. ASSUME NEW reply \in {"ok", "raised"}
          PROVE  KeepsRequest(req[r], [req[r] EXCEPT !.pc = "done", !.reply = reply])
      <3> DEFINE q == [req[r] EXCEPT !.pc = "done", !.reply = reply]
      <3>0. reply \in Reply
        BY DEF Reply
      <3>1. q.pc = "done" /\ q.reply = reply /\ q.op = req[r].op /\ q.job = req[r].job
        BY <2>1, <3>0, RequestAnswered
      <3> HIDE DEF q
      <3>2. KeepsRequest(req[r], q)
        BY <2>1, <3>1 DEF KeepsRequest, Active, Unspawned
      <3> QED BY <3>2 DEF q
    <2> QED BY <2>2, <2>3 DEF ReqStep, Goto, Answer, RequestPc, Unspawned
  <1> QED BY DEF TInv, TypeOK, KeepsRequest

\* A redirect, an escalation or a modification mints its successor at most once.
LEMMA SpawnGuard ==
  ASSUME TInv, GuardInv, NEW r \in Requests, Active(req[r]), Holds(r),
         req[r].op \in SuccessorOp, req[r].pc \in Unspawned,
         NEW m \in [Jobs -> Job], \A j \in Jobs : SameGuards(mem[j], m[j]),
         Spawn(r, m)
  PROVE  KeepsJobs /\ KeepsRequests
  <1>1. r \in Jobs /\ mem[r] = Absent /\ db[r] = Absent /\ m[r] = mem[r]
    BY AbsentStatus DEF GuardInv, FreshOK, SameGuards, Jobs
  <1>2. CASE Goto(r, "successor")
             /\ mem' = [m EXCEPT ![r] = NewJob("classified")]
             /\ db' = [db EXCEPT ![r] = NewJob("classified")]
    <2>1. req'[r].pc = "successor"
      <3>1. req[r] \in Request /\ req \in [Requests -> Request]
        BY DEF TInv, TypeOK
      <3> QED BY <1>2, <3>1 DEF Goto, Request
    <2>2. Minted(r)
      BY <1>1, <1>2, <2>1 DEF Minted, Status, PreDelivery, TInv, TypeOK
    <2>3. KeepsJobs
      BY <1>2, <2>2 DEF KeepsJobs, SameGuards, TInv, TypeOK
    <2>4. ReqStep(r)
      BY <1>2 DEF ReqStep, RequestPc, Unspawned
    <2> QED BY <2>2, <2>3, <2>4, HandlerRequests DEF KeepsRequests
  <1>3. CASE Answer(r, "raised") /\ mem' = m /\ db' = db
    <2>1. req'[r].pc = "done"
      <3>1. req[r] \in Request /\ req \in [Requests -> Request]
        BY DEF TInv, TypeOK
      <3> QED BY <1>3, <3>1, RequestAnswered DEF Answer, Reply
    <2>2. ReqStep(r)
      BY <1>3 DEF ReqStep
    <2>3. KeepsRequests
      BY <2>1, <2>2, HandlerRequests DEF KeepsRequests
    <2> QED BY <1>3, <2>3 DEF KeepsJobs, SameGuards
  <1> QED BY <1>2, <1>3 DEF Spawn

\* What a handler does after its await rests on the guard it took before.
LEMMA HandlerCalm ==
  ASSUME TInv, TInv', GuardInv, NEW r \in Requests, HandlerStep(r)
  PROVE  Calm
  <1> DEFINE j == req[r].job
             op == req[r].op
  <1> USE DEF Calm
  <1>0. /\ Active(req[r]) /\ j \in Jobs /\ r \in Jobs /\ Present(j)
        /\ req[r].reply = "none" /\ (op \in OverrideOp => Holds(r))
    <2>1. Active(req[r])
      BY DEF HandlerStep, OverrideEmitted, OverrideFails, SuccessorEmitted,
             OverrideRevokes, ModifyReviewed, ModifyDelivers, OverrideReplies,
             ReviewEmitted, ReviewSettles, ReviewCloses, RequestRaises, Active
    <2> QED BY <2>1 DEF TInv, RequestOK, GuardInv, LiveOK, Holds, Active, Jobs
  <1>1. ASSUME ReqStep(r), req'[r].pc # "successor" PROVE KeepsRequests
    BY <1>0, <1>1, HandlerRequests DEF KeepsRequests
  <1>2. ASSUME NEW pc \in RequestPc \ {"new", "successor"}, Goto(r, pc),
               pc \in Unspawned => pc # "override" /\ req[r].pc \in Unspawned
        PROVE  KeepsRequests
    <2>1. ReqStep(r)
      BY <1>2 DEF ReqStep, RequestPc, Unspawned
    <2>2. req'[r].pc = pc
      <3>1. req[r] \in Request /\ req \in [Requests -> Request]
        BY DEF TInv, TypeOK
      <3> QED BY <1>2, <3>1 DEF Goto, Request
    <2> QED BY <1>1, <1>2, <2>1, <2>2
  <1>3. ASSUME NEW reply \in {"ok", "raised"}, Answer(r, reply) PROVE KeepsRequests
    <2>1. ReqStep(r)
      BY <1>3 DEF ReqStep
    <2>2. req'[r].pc = "done"
      <3>1. req[r] \in Request /\ req \in [Requests -> Request] /\ reply \in Reply
        BY DEF TInv, TypeOK, Reply
      <3> QED BY <1>3, <3>1, RequestAnswered DEF Answer
    <2> QED BY <1>1, <2>1, <2>2
  <1>4. ASSUME NEW s \in Status, Write(j, WithStatus(j, s)) PROVE KeepsJobs
    BY <1>0, <1>4, StatusWrite
  <1>5. CASE OverrideEmitted(r)
    <2>1. op \in OverrideOp /\ Holds(r)
      BY <1>0, <1>5 DEF OverrideEmitted, TInv, RequestOK, OverrideOp
    <2>2. KeepsTrail
      BY <1>5, <2>1 DEF OverrideEmitted, Emit, Ev, KeepsTrail, TerminalReview
    <2>3. KeepsWork
      BY <1>5, WorkStays DEF OverrideEmitted, Running, process
    <2>4. CASE AfterOverride(op, req[r].pre) = "successor"
      <3>1. op \in SuccessorOp
        BY <1>5, <2>4 DEF OverrideEmitted, AfterOverride, TInv, RequestOK, ReservingOp
      <3>2. Spawn(r, mem) /\ req[r].pc \in Unspawned /\ mem \in [Jobs -> Job]
            /\ \A i \in Jobs : SameGuards(mem[i], mem[i])
        BY <1>5, <2>4 DEF OverrideEmitted, Unspawned, TInv, TypeOK, SameGuards
      <3> QED BY <1>0, <2>1, <2>2, <2>3, <3>1, <3>2, SpawnGuard
    <2>5. CASE AfterOverride(op, req[r].pre) # "successor"
      <3>1. AfterOverride(op, req[r].pre) \in {"fail", "revoke", "reviewed"}
        BY <2>5 DEF AfterOverride
      <3>2. Goto(r, AfterOverride(op, req[r].pre)) /\ UNCHANGED <<mem, db>>
            /\ req[r].pc \in Unspawned
        BY <1>5, <2>5 DEF OverrideEmitted, Unspawned
      <3> QED BY <1>2, <2>2, <2>3, <3>1, <3>2, NoWrite DEF RequestPc
    <2> QED BY <2>4, <2>5
  <1>6. CASE OverrideFails(r)
    <2>1. KeepsTrail
      BY <1>6, SystemEvent DEF OverrideFails, TerminalReview
    <2>2. KeepsWork
      BY <1>6, WorkStays DEF OverrideFails, Running, process
    <2>3. CASE op = "cancel"
      BY <1>2, <1>4, <1>6, <2>1, <2>2, <2>3
         DEF OverrideFails, RequestPc, Unspawned, Status, Terminal
    <2>4. CASE op = "redirect"
      <3> DEFINE m == [mem EXCEPT ![j].status = "failed"]
      <3>1. mem[j] \in Job /\ mem \in [Jobs -> Job] /\ "failed" \in Status
        BY <1>0 DEF TInv, TypeOK, Status, Terminal
      <3>2. m \in [Jobs -> Job]
        BY <1>0, <3>1, WithStatusType DEF WithStatus
      <3>3. \A i \in Jobs : SameGuards(mem[i], m[i])
        BY <1>0, <3>1 DEF SameGuards, Present, Job
      <3>4. Spawn(r, m) /\ op \in SuccessorOp /\ req[r].pc \in Unspawned /\ Holds(r)
        BY <1>0, <1>6, <2>4 DEF OverrideFails, SuccessorOp, Unspawned
      <3> HIDE DEF m
      <3> QED BY <1>0, <2>1, <2>2, <3>2, <3>3, <3>4, SpawnGuard
    <2> QED BY <1>6, <2>3, <2>4 DEF OverrideFails
  <1>7. CASE SuccessorEmitted(r)
    <2> DEFINE succ == IF HasRoom THEN mem[r] ELSE WithStatus(r, "failed")
               finish == op = "redirect" /\ req[r].pre
    <2>1. KeepsTrail
      BY <1>7, SystemEvent DEF SuccessorEmitted, TerminalReview
    <2>2. Present(r)
      BY <1>7 DEF SuccessorEmitted, GuardInv, LiveOK
    <2>3. KeepsWork
      BY <1>0, <1>7, <2>2, WorkStays DEF SuccessorEmitted, Running, process, Lives
    <2>4. KeepsRequests
      BY <1>2, <1>7 DEF SuccessorEmitted, RequestPc, Unspawned
    <2>5. /\ mem[r] \in Job /\ db[r] \in Job /\ "failed" \in Status
          /\ mem \in [Jobs -> Job] /\ db \in [Jobs -> Job]
      BY <1>0 DEF TInv, TypeOK, Status, Terminal
    <2>6. \A i \in Jobs : Present(i) => SameGuards(db[i], mem[i]) /\ db[i].status # "absent"
      BY DEF GuardInv, WrittenThrough, SameGuards, Present
    <2>7. SameGuards(mem[r], succ) /\ SameGuards(db[r], succ)
      <3> DEFINE w == WithStatus(r, "failed")
      <3>1. /\ w.status = "failed" /\ w.override_type = mem[r].override_type
            /\ w.review_decision = mem[r].review_decision
        BY <2>5 DEF WithStatus, Job
      <3>2. mem[r].status # "absent" /\ db[r].status # "absent" /\ SameGuards(db[r], mem[r])
        BY <1>0, <2>2, <2>6 DEF Present
      <3>3. succ = mem[r] \/ succ = w
        OBVIOUS
      <3> HIDE DEF succ, w
      <3> QED BY <3>1, <3>2, <3>3 DEF SameGuards
    <2>8. /\ mem' = [mem EXCEPT ![r] = succ]
          /\ db' = [db EXCEPT ![r] = IF HasRoom THEN @ ELSE succ,
                              ![j] = IF finish THEN mem[j] ELSE @]
      BY <1>7 DEF SuccessorEmitted
    <2> HIDE DEF succ, finish
    <2>9. \A i \in Jobs : SameGuards(mem[i], mem'[i])
      BY <1>0, <2>5, <2>7, <2>8 DEF SameGuards
    <2>10. \A i \in Jobs : db'[i] \in {db[i]} \cup (IF i = r THEN {succ} ELSE {})
                                         \cup (IF i = j THEN {mem[j]} ELSE {})
      BY <1>0, <2>5, <2>8
    <2>11. \A i \in Jobs : SameGuards(db[i], db'[i])
      BY <1>0, <2>6, <2>7, <2>10 DEF SameGuards
    <2> QED BY <2>1, <2>3, <2>4, <2>9, <2>11 DEF KeepsJobs
  <1>8. CASE OverrideRevokes(r) \/ ModifyDelivers(r)
    <2>1. KeepsTrail
      BY <1>8, SystemEvent DEF OverrideRevokes, ModifyDelivers, TerminalReview
    <2>2. KeepsWork
      BY <1>8, WorkStays DEF OverrideRevokes, ModifyDelivers, Running, process
    <2> QED BY <1>2, <1>4, <1>8, <2>1, <2>2
            DEF OverrideRevokes, ModifyDelivers, RequestPc, Unspawned, Status, Terminal
  <1>9. CASE ModifyReviewed(r)
    <2>1. KeepsTrail
      BY <1>9, SystemEvent DEF ModifyReviewed, TerminalReview
    <2>2. KeepsWork
      BY <1>9, WorkStays DEF ModifyReviewed, Running, process
    <2>3. KeepsJobs
      BY <1>0, <1>9, NoWrite, PersistWrite DEF ModifyReviewed
    <2> QED BY <1>2, <1>9, <2>1, <2>2, <2>3 DEF ModifyReviewed, RequestPc, Unspawned
  <1>10. CASE OverrideReplies(r)
    <2>1. KeepsTrail
      BY <1>10, SystemEvent DEF OverrideReplies, TerminalReview, KeepsTrail
    <2>2. KeepsWork
      BY <1>10, WorkStays DEF OverrideReplies, Running, process
    <2> QED BY <1>3, <1>10, <2>1, <2>2, NoWrite DEF OverrideReplies
  <1>11. CASE ReviewEmitted(r)
    <2>1. op # "override" /\ (op \in TerminalReview => db[j].review_decision # "none")
      BY <1>0, <1>11 DEF ReviewEmitted, ReviewOp, TerminalReview, GuardInv, DecidedOK
    <2>2. KeepsTrail
      BY <1>11, <2>1 DEF ReviewEmitted, Emit, Ev, KeepsTrail
    <2>3. KeepsWork
      BY <1>11, WorkStays DEF ReviewEmitted, Running, process
    <2>4. KeepsRequests
      <3>1. CASE op = "defer"
        BY <1>3, <1>11, <3>1 DEF ReviewEmitted
      <3>2. CASE op # "defer"
        <4>1. op \in {"approve", "edit", "reject", "decline_to_act"}
          BY <1>11, <3>2 DEF ReviewEmitted, ReviewOp, TerminalReview
        <4>2. AfterReviewed(op) \in {"deliver", "fail", "close"}
          BY <4>1 DEF AfterReviewed
        <4>3. Goto(r, AfterReviewed(op)) /\ req[r].pc \in Unspawned
          BY <1>11, <3>2 DEF ReviewEmitted, Unspawned
        <4> QED BY <1>2, <4>2, <4>3 DEF RequestPc
      <3> QED BY <3>1, <3>2
    <2> QED BY <1>11, <2>2, <2>3, <2>4, NoWrite DEF ReviewEmitted
  <1>12. CASE ReviewSettles(r)
    <2>1. KeepsTrail
      BY <1>12, SystemEvent DEF ReviewSettles, TerminalReview
    <2>2. KeepsWork
      BY <1>12, WorkStays DEF ReviewSettles, Running, process
    <2> QED BY <1>3, <1>4, <1>12, <2>1, <2>2 DEF ReviewSettles, Status, Terminal
  <1>13. CASE ReviewCloses(r)
    <2>1. KeepsTrail
      BY <1>13, SystemEvent DEF ReviewCloses, TerminalReview
    <2>2. KeepsWork
      BY <1>13, WorkStays DEF ReviewCloses, Running, process
    <2> QED BY <1>3, <1>13, <2>1, <2>2, NoWrite DEF ReviewCloses
  <1>14. CASE RequestRaises(r)
    <2> DEFINE k == AwaitedKind(req[r])
               i == IF req[r].pc = "successor" THEN r ELSE j
    <2>1. k = "override" => op \in OverrideOp /\ i = j
      <3>1. req[r].pc \in RequestPc \ {"new", "done"}
        BY <1>14 DEF RequestRaises, TInv, TypeOK, Request
      <3>2. CASE req[r].pc = "override"
        BY <3>2 DEF TInv, RequestOK, OverrideOp
      <3>3. CASE req[r].pc = "reviewed"
        <4>1. op \in ReviewOp \cup {"modify"}
          BY <3>3 DEF TInv, RequestOK
        <4>2. k = IF op = "modify" THEN "modified" ELSE op
          BY <3>3 DEF AwaitedKind
        <4> HIDE DEF k
        <4> QED BY <4>1, <4>2 DEF ReviewOp, TerminalReview
      <3>4. CASE req[r].pc \in {"fail", "successor", "revoke", "deliver", "close", "after"}
        BY <3>4 DEF AwaitedKind
      <3> QED BY <3>1, <3>2, <3>3, <3>4 DEF RequestPc
    <2>2. k \in TerminalReview => i = j /\ db[j].review_decision # "none"
      BY <1>0 DEF AwaitedKind, TerminalReview, GuardInv, DecidedOK
    <2>3. trail' \in {trail, trail \cup {Ev(i, k, r)}}
      BY <1>14 DEF RequestRaises, EmitRaises
    <2> HIDE DEF k, i
    <2>4. KeepsTrail
      BY <1>0, <2>1, <2>2, <2>3 DEF Ev, KeepsTrail
    <2>5. KeepsWork
      BY <1>14, WorkStays DEF RequestRaises, Running
    <2> QED BY <1>3, <1>14, <2>4, <2>5, NoWrite DEF RequestRaises
  <1> QED BY <1>5, <1>6, <1>7, <1>8, <1>9, <1>10, <1>11, <1>12, <1>13, <1>14 DEF HandlerStep

\* A crash loses the cache and every handler; the rows keep the guards.
LEMMA LoseMemoryGuard ==
  ASSUME TInv, GuardInv, LoseMemory, KeepsTrail PROVE GuardInv' /\ OverrideStays
  <1>1. \A r \in Requests :
          /\ req'[r].op = req[r].op /\ req'[r].job = req[r].job
          /\ req'[r].pc \in {"new", "done"}
          /\ req'[r].pc = "new" => req[r].pc = "new"
          /\ (Holds(r))' <=> Holds(r)
    <2> SUFFICES ASSUME NEW r \in Requests
                 PROVE  /\ req'[r].op = req[r].op /\ req'[r].job = req[r].job
                        /\ req'[r].pc \in {"new", "done"}
                        /\ req'[r].pc = "new" => req[r].pc = "new"
                        /\ (Holds(r))' <=> Holds(r)
      OBVIOUS
    <2> DEFINE q == [req[r] EXCEPT !.pc = "done", !.reply = "lost"]
    <2>1. req[r] \in Request /\ "lost" \in Reply
      BY DEF TInv, TypeOK, Reply
    <2>2. q.pc = "done" /\ q.reply = "lost" /\ q.op = req[r].op /\ q.job = req[r].job
      BY <2>1, RequestAnswered
    <2>3. req'[r] = IF req[r].pc \in {"new", "done"} THEN req[r] ELSE q
      BY DEF LoseMemory
    <2>4. Active(req[r]) => req[r].reply = "none"
      BY DEF TInv, RequestOK
    <2> HIDE DEF q
    <2> QED BY <2>2, <2>3, <2>4 DEF Holds, Active
  <1>2. /\ \A j \in Jobs : mem'[j] = Absent
        /\ db' = db /\ worker' = NoWork /\ queue' = <<>> /\ phase' = "down"
    BY DEF LoseMemory
  <1>3. AbsentOK' /\ WrittenThrough'
    BY <1>2, AbsentStatus DEF GuardInv, AbsentOK, WrittenThrough, Present
  <1>4. LiveOK' /\ DownOK'
    BY <1>1, <1>2 DEF LiveOK, DownOK, Active, NoWork
  <1>5. FreshOK'
    BY <1>1, <1>2 DEF GuardInv, FreshOK, Unspawned, Jobs
  <1>6. OwnerOK'
    BY <1>1, <1>2 DEF GuardInv, OwnerOK
  <1>7. DecidedOK' /\ ExclusiveOK'
    BY <1>1, <1>2 DEF GuardInv, DecidedOK, ExclusiveOK, Active
  <1>8. TrailOK'
    BY <1>1, <1>2 DEF GuardInv, TrailOK, KeepsTrail
  <1>9. SuccessorOK'
    BY <1>1, <1>2 DEF GuardInv, SuccessorOK
  <1> QED BY <1>2, <1>3, <1>4, <1>5, <1>6, <1>7, <1>8, <1>9 DEF GuardInv, OverrideStays

\* The next process takes the guards from the rows.
LEMMA BootGuard == ASSUME TInv, GuardInv, Boot PROVE GuardInv' /\ OverrideStays
  <1>1. /\ \A j \in Jobs : mem'[j] = IF Loadable(db[j]) THEN db[j] ELSE Absent
        /\ UNCHANGED <<db, queue, worker, req, trail>>
        /\ phase' = "recovering" /\ phase = "down"
    BY DEF Boot
  <1>2. AbsentOK' /\ WrittenThrough'
    BY <1>1, AbsentStatus DEF GuardInv, AbsentOK, WrittenThrough, Present, Loadable
  <1>3. LiveOK' /\ DownOK'
    <2>1. \A r \in Requests : req[r].pc # "successor"
      BY <1>1 DEF GuardInv, DownOK, Active
    <2> QED BY <1>1, <2>1 DEF GuardInv, LiveOK, DownOK
  <1>4. FreshOK'
    BY <1>1, AbsentStatus DEF GuardInv, FreshOK, Loadable, Jobs
  <1>5. OwnerOK' /\ DecidedOK' /\ ExclusiveOK' /\ TrailOK' /\ SuccessorOK'
    BY <1>1 DEF GuardInv, OwnerOK, DecidedOK, ExclusiveOK, TrailOK, SuccessorOK, Holds
  <1> QED BY <1>1, <1>2, <1>3, <1>4, <1>5 DEF GuardInv, OverrideStays

\* A crash, the startup and recovery read the guards back from the table.
LEMMA RestartGuard ==
  ASSUME TInv, TInv', GuardInv, Crash \/ Startup \/ \E j \in Jobs : RecoveryStep(j)
  PROVE  GuardInv' /\ OverrideStays
  <1>1. CASE Crash
    BY <1>1, LoseMemoryGuard DEF Crash, KeepsTrail
  <1>2. CASE Boot
    BY <1>2, BootGuard
  <1>3. CASE BeginSaving \/ Open
    <2>1. phase' = "saving" => \A j \in todo' : Present(j)
      BY <1>3 DEF BeginSaving, Open, GuardInv, AbsentOK, Present
    <2>2. KeepsWork
      BY <1>3, <2>1 DEF BeginSaving, Open, KeepsWork, Lives, GuardInv, LiveOK
    <2> QED BY <1>3, <2>2, NoWrite, NoRequest, CalmStep
            DEF BeginSaving, Open, KeepsTrail, Calm
  <1>4. ASSUME NEW j \in Jobs, RecoveryStep(j) PROVE GuardInv' /\ OverrideStays
    <2>0. mem[j] \in Job /\ mem \in [Jobs -> Job] /\ db \in [Jobs -> Job]
      BY DEF TInv, TypeOK
    <2>1. CASE RecoverRaises(j)
      <3>1. KeepsTrail
        BY <2>1 DEF RecoverRaises, EmitRaises, Ev, KeepsTrail, TerminalReview
      <3> QED BY <2>1, <3>1, LoseMemoryGuard DEF RecoverRaises
    <2>2. CASE RecoverRequeue(j) \/ RecoverExhausted(j) \/ RecoverSkip(j) \/ RecoverDeliver(j)
      <3> DEFINE m == mem'[j]
      <3>1. /\ mem' = [mem EXCEPT ![j] = m] /\ db' = db /\ req' = req
            /\ SameGuards(mem[j], m) /\ Present(j)
        <4>1. CASE RecoverRequeue(j)
          <5>1. /\ Recovered(mem[j]).override_type = mem[j].override_type
                /\ Recovered(mem[j]).review_decision = mem[j].review_decision
                /\ mem[j].status # "absent" => Recovered(mem[j]).status # "absent"
            BY <2>0, RecoveredKeeps
          <5> QED BY <2>0, <4>1, <5>1 DEF RecoverRequeue, Requeueable, SameGuards, Present
        <4>2. CASE RecoverExhausted(j) \/ RecoverDeliver(j)
          BY <2>0, <4>2 DEF RecoverExhausted, RecoverDeliver, Requeueable, SameGuards,
                            Present, Job
        <4>3. CASE RecoverSkip(j)
          BY <2>0, <4>3 DEF RecoverSkip, SameGuards, Present
        <4> QED BY <2>2, <4>1, <4>2, <4>3
      <3>2. KeepsTrail
        BY <2>2, SystemEvent DEF RecoverRequeue, RecoverExhausted, RecoverSkip,
                                 RecoverDeliver, TerminalReview, KeepsTrail
      <3>3. KeepsWork
        BY <2>2, <3>1, RecoveryWork
           DEF RecoverRequeue, RecoverExhausted, RecoverSkip, RecoverDeliver, Recovering
      <3> QED BY <2>0, <3>1, <3>2, <3>3, NoRequest, CalmStep
              DEF KeepsJobs, SameGuards, Calm
    <2>3. CASE SaveJob(j)
      <3>1. Present(j)
        BY <2>3 DEF SaveJob, GuardInv, LiveOK
      <3>2. KeepsJobs
        BY <2>3, <3>1, PersistWrite DEF SaveJob
      <3>3. KeepsWork
        BY <2>3 DEF SaveJob, KeepsWork, Lives, GuardInv, LiveOK
      <3> QED BY <2>3, <3>2, <3>3, NoRequest, CalmStep DEF SaveJob, KeepsTrail, Calm
    <2> QED BY <1>4, <2>1, <2>2, <2>3 DEF RecoveryStep
  <1> QED BY <1>1, <1>2, <1>3, <1>4 DEF Startup

\* The invariant is inductive relative to the types, and no step changes an
\* override guard that is set.
LEMMA NextGuard ==
  TInv /\ TInv' /\ GuardInv /\ [Next]_vars => GuardInv' /\ OverrideMoves
  <1> SUFFICES ASSUME TInv, TInv', GuardInv, [Next]_vars PROVE GuardInv' /\ OverrideMoves
    OBVIOUS
  <1>1. CASE UNCHANGED vars
    BY <1>1 DEF vars, GuardInv, AbsentOK, WrittenThrough, LiveOK, DownOK, FreshOK, OwnerOK,
                DecidedOK, ExclusiveOK, TrailOK, SuccessorOK, Present, Holds,
                OverrideMoves, OverrideStays
  <1>2. CASE Next
    BY <1>1, <1>2, SubmitCalm, ArrivalGuard, HandlerCalm, WorkerCalm, RestartGuard, CalmStep
       DEF Next, Quiescent, OverrideMoves
  <1> QED BY <1>1, <1>2

\* Both first-writer guards of a job, override_type and review_decision, are in
\* its row before any event of theirs is in the log, exclude each other and
\* outlive every crash: the inductive invariant the theorems below rest on.
THEOREM GuardsInvariant == Spec => [](TInv /\ GuardInv)
  BY InitType, InitGuard, NextType, NextGuard, PTL DEF Spec

-----------------------------------------------------------------------------
\* override_job's first-writer guard: no interleaving of requests, and no
\* crash, lets two overrides of one job into the audit log.
THEOREM OverrideOnce == Spec => []FirstOverrideWins
  <1>1. TInv /\ GuardInv => FirstOverrideWins
    <2> SUFFICES ASSUME TInv, GuardInv, NEW e \in trail, NEW f \in trail,
                        e.kind = "override", f.kind = "override", e.job = f.job
                 PROVE  e = f
      BY DEF FirstOverrideWins
    <2>1. e.by = f.by
      BY DEF GuardInv, TrailOK, OwnerOK
    <2> QED BY <2>1, SMTT(30) DEF TInv, TypeOK, Event
  <1> QED BY <1>1, GuardsInvariant, PTL

\* An override and a terminal review of one job never both reach the log.
THEOREM ReviewOrOverride == Spec => []ReviewExcludesOverride
  <1>1. TInv /\ GuardInv => ReviewExcludesOverride
    <2> SUFFICES ASSUME TInv, GuardInv, NEW e \in trail, NEW f \in trail,
                        e.kind = "override", f.kind \in TerminalReview, e.job = f.job
                 PROVE  FALSE
      BY DEF ReviewExcludesOverride
    <2>1. /\ e.by \in Requests /\ Holds(e.by) /\ req[e.by].job = e.job
          /\ db[e.job].review_decision # "none"
      BY DEF GuardInv, TrailOK
    <2>2. /\ e.job \in Jobs /\ req[e.by].op # "none"
          /\ db[e.job].override_type = req[e.by].op
      BY <2>1 DEF GuardInv, OwnerOK, Holds, OverrideOp, ReservingOp, SuccessorOp
    <2> QED BY <2>1, <2>2 DEF GuardInv, ExclusiveOK
  <1> QED BY <1>1, GuardsInvariant, PTL

\* The row holds both guards of every job in the cache, so the next process
\* starts from them.
THEOREM GuardsDurable == Spec => []GuardsWrittenThrough
  <1>1. TInv /\ GuardInv => GuardsWrittenThrough
    BY DEF GuardInv, AbsentOK, WrittenThrough, Present, GuardsWrittenThrough
  <1> QED BY <1>1, GuardsInvariant, PTL

\* A redirected or escalated job has one successor at most.
THEOREM SuccessorOnce == Spec => []OneSuccessor
  <1>1. TInv /\ GuardInv => OneSuccessor
    BY DEF GuardInv, SuccessorOK, OwnerOK, OneSuccessor
  <1> QED BY <1>1, GuardsInvariant, PTL

-----------------------------------------------------------------------------
\* The override guards of the table implement one write-once register per job:
\* no handler, pipeline step, recovery or restart ever replaces or clears the
\* override that won.
THEOREM OverrideForEver == Spec => OverrideIsFinal
  <1>1. Init => Winner!Init
    BY DEF Init, Winner!Init, Overrider, Absent
  <1>2. ASSUME TInv, OverrideMoves PROVE [Winner!Next]_Overrider
    <2>1. CASE OverrideStays
      BY <1>2, <2>1 DEF OverrideStays, Overrider
    <2>2. ASSUME NEW j \in Jobs, NEW op \in OverrideOp, OverrideWon(j, op)
          PROVE  Winner!Next
      <3>1. op # "none"
        BY DEF OverrideOp, ReservingOp, SuccessorOp
      <3>2. Overrider[j] = {} /\ Overrider' = [Overrider EXCEPT ![j] = {op}]
        BY <2>2, <3>1 DEF OverrideWon, Overrider
      <3> QED BY <3>2 DEF Winner!Win, Winner!Next
    <2> QED BY <1>2, <2>1, <2>2 DEF OverrideMoves
  <1>3. TInv /\ TInv' /\ GuardInv /\ [Next]_vars => [Winner!Next]_Overrider
    BY <1>2, NextGuard
  <1> QED BY <1>1, <1>3, GuardsInvariant, PTL DEF Spec, OverrideIsFinal, Winner!Spec

-----------------------------------------------------------------------------
(* The re-dispatch cap.  A job starts when it waits its turn, so the bound *)
(* needs one start for every job that waits, and that none waits twice:    *)
(* recovery queues a job once per process, when nothing of it is left over *)
(* in the queue, and counts it before it is queued.                        *)

Count(m) == m.recovery_dispatch_count

\* Job j has its turn still to come.
Waiting(j) ==
  \/ \E i \in 1..Len(queue) : queue[i] = j
  \/ worker.pc = "gate" /\ worker.job = j

Due(j) == IF Waiting(j) THEN 1 ELSE 0

QueueOnce ==
  /\ \A i, k \in 1..Len(queue) : queue[i] = queue[k] => i = k
  /\ worker.pc = "gate" => \A i \in 1..Len(queue) : queue[i] # worker.job

\* The counters of memory and table, which differ while a restart saves them.
CountOK ==
  \A j \in Jobs :
    /\ Count(mem[j]) <= MaxRecoveryDispatches
    /\ Count(db[j]) <= MaxRecoveryDispatches
    /\ Present(j) /\ phase = "up" => Count(mem[j]) = Count(db[j])
    /\ Present(j) /\ phase = "saving" /\ j \notin todo => Count(mem[j]) = Count(db[j])

StartsOK ==
  \A j \in Jobs :
    /\ runs[j] <= 1 + Count(db[j])
    /\ Present(j) => runs[j] + Due(j) <= 1 + Count(mem[j])
    /\ db[j] = Absent => runs[j] = 0
    /\ phase = "recovering" /\ j \in todo => ~Waiting(j)

\* A successor is queued once its event is acknowledged, and not before.
SpawnedOK ==
  \A r \in Requests :
    req[r].pc = "successor" => phase = "up" /\ runs[r] = 0 /\ ~Waiting(r)

RunsInv == QueueOnce /\ CountOK /\ StartsOK /\ SpawnedOK

\* No job has started.
LEMMA InitRuns == Init => RunsInv
  BY ConstantsAssumption DEF Init, RunsInv, QueueOnce, CountOK, StartsOK, SpawnedOK, Waiting, Due, Count,
         Present, Absent, NoWork, FreshRequest, Jobs

\* What a step of a running process does to the counters: it keeps them, in a
\* row as in the cache or as the cache has them, or mints the job.
SameCounts ==
  \A j \in Jobs :
    \/ Minted(j)
    \/ /\ Count(mem'[j]) = Count(mem[j])
       /\ \/ Count(db'[j]) = Count(db[j])
          \/ Present(j) /\ Count(db'[j]) = Count(mem[j])

SamePresence ==
  \A j \in Jobs :
    Minted(j) \/ /\ (Present(j))' <=> Present(j)
                 /\ db'[j] = Absent <=> db[j] = Absent

\* Who may join those that wait: a job just submitted, a successor that was
\* announced.
Joins(j) ==
  \/ j \in Roots /\ Minted(j)
  \/ j \in Requests /\ req[j].pc = "successor" /\ req'[j].pc # "successor"

Mints ==
  \A r \in Requests : req'[r].pc = "successor" => req[r].pc = "successor" \/ Minted(r)

Turns ==
  /\ QueueOnce'
  /\ \A j \in Jobs : (Waiting(j))' => Waiting(j) \/ Joins(j)
  /\ \A j \in Jobs : \/ runs'[j] = runs[j]
                     \/ runs'[j] = runs[j] + 1 /\ Waiting(j) /\ ~(Waiting(j))'
  /\ Mints

\* What waits is in the cache.
LEMMA WaitingPresent ==
  ASSUME TInv, GuardInv, NEW j \in Jobs, Waiting(j) PROVE Present(j) /\ db[j] # Absent
  BY AbsentStatus DEF GuardInv, LiveOK, WrittenThrough, Waiting, Present

\* A step of a running process that starts at most a job whose turn has come and
\* lets none in but new ones keeps the bound.
LEMMA UpStep ==
  ASSUME TInv, TInv', GuardInv, RunsInv, phase = "up", phase' = "up",
         SameCounts, SamePresence, Turns
  PROVE  RunsInv'
  <1> USE DEF TInv, TypeOK
  <1>1. ASSUME NEW j \in Jobs, Minted(j)
        PROVE  /\ runs[j] = 0 /\ runs'[j] = 0 /\ ~Waiting(j)
               /\ Count(mem'[j]) = 0 /\ Count(db'[j]) = 0 /\ db'[j] # Absent
    <2>1. ~Present(j) /\ db[j] = Absent /\ db'[j].status # "absent"
      BY <1>1, MintedGuards DEF Minted
    <2>2. runs[j] = 0 /\ ~Waiting(j)
      BY <2>1, WaitingPresent DEF RunsInv, StartsOK
    <2>3. Count(mem'[j]) = 0 /\ Count(db'[j]) = 0
      BY <1>1 DEF Minted, NewJob, Absent, Count
    <2> QED BY <2>1, <2>2, <2>3, AbsentStatus DEF Turns
  <1>0. \A j \in Jobs : /\ Due(j) = IF Waiting(j) THEN 1 ELSE 0
                        /\ (Due(j))' = IF (Waiting(j))' THEN 1 ELSE 0
    BY DEF Due
  <1>2. CountOK'
    <2> SUFFICES ASSUME NEW j \in Jobs
                 PROVE  /\ Count(mem'[j]) <= MaxRecoveryDispatches
                        /\ Count(db'[j]) <= MaxRecoveryDispatches
                        /\ (Present(j))' => Count(mem'[j]) = Count(db'[j])
      BY DEF CountOK
    <2>1. CASE Minted(j)
      BY <1>1, <2>1, ConstantsAssumption
    <2>2. CASE ~Minted(j)
      BY <2>2 DEF RunsInv, CountOK, SameCounts, SamePresence
    <2> QED BY <2>1, <2>2
  <1>3. \A j \in Jobs : runs'[j] \in Nat /\ Count(mem'[j]) \in Nat /\ Count(db'[j]) \in Nat
                        /\ runs[j] \in Nat /\ Count(mem[j]) \in Nat /\ Count(db[j]) \in Nat
    BY DEF Job, Count
  <1> HIDE DEF TInv, TypeOK
  <1>4. ASSUME NEW j \in Jobs, (Present(j))'
        PROVE  runs'[j] + (Due(j))' <= 1 + Count(mem'[j])
    <2>1. CASE Minted(j)
      BY <1>0, <1>1, <1>3, <2>1
    <2>2. CASE ~Minted(j)
      <3>1. Present(j) /\ Count(mem'[j]) = Count(mem[j])
        BY <1>4, <2>2 DEF SameCounts, SamePresence
      <3>2. runs[j] + Due(j) <= 1 + Count(mem[j])
        BY <3>1 DEF RunsInv, StartsOK
      <3>3. CASE Joins(j) /\ ~Waiting(j)
        <4>1. runs[j] = 0 /\ runs'[j] = 0
          BY <2>2, <3>3 DEF Joins, RunsInv, SpawnedOK, Turns
        <4> QED BY <1>0, <1>3, <4>1
      <3>4. CASE Waiting(j) \/ ~(Waiting(j))'
        BY <1>0, <1>3, <3>1, <3>2, <3>4 DEF Turns
      <3> QED BY <3>3, <3>4 DEF Turns
    <2> QED BY <2>1, <2>2
  <1>5. StartsOK'
    <2> SUFFICES ASSUME NEW j \in Jobs
                 PROVE  /\ runs'[j] <= 1 + Count(db'[j])
                        /\ db'[j] = Absent => runs'[j] = 0
      BY <1>4 DEF StartsOK
    <2>1. CASE Minted(j)
      BY <1>1, <2>1
    <2>2. CASE ~Minted(j) /\ Present(j)
      <3>1. (Present(j))' /\ Count(mem'[j]) = Count(db'[j]) /\ db'[j] # Absent
        BY <1>2, <2>2, AbsentStatus DEF SamePresence, CountOK, GuardInv, WrittenThrough
      <3> QED BY <1>0, <1>3, <1>4, <3>1
    <2>3. CASE ~Minted(j) /\ ~Present(j)
      <3>1. runs'[j] = runs[j] /\ Count(db'[j]) = Count(db[j])
        BY <2>3, WaitingPresent DEF Turns, SameCounts
      <3> QED BY <2>3, <3>1 DEF RunsInv, StartsOK, SamePresence
    <2> QED BY <2>1, <2>2, <2>3
  <1>6. SpawnedOK'
    <2> SUFFICES ASSUME NEW r \in Requests, req'[r].pc = "successor"
                 PROVE  runs'[r] = 0 /\ ~(Waiting(r))'
      BY DEF SpawnedOK
    <2>1. r \in Jobs /\ r \notin Roots
      BY ConstantsAssumption DEF Jobs
    <2>2. runs[r] = 0 /\ ~Waiting(r)
      BY <1>1, <2>1 DEF Turns, Mints, RunsInv, SpawnedOK
    <2> QED BY <2>1, <2>2 DEF Turns, Joins
  <1> QED BY <1>2, <1>5, <1>6 DEF RunsInv, Turns

\* Calm steps keep presence.
LEMMA CalmPresence == ASSUME TInv, TInv', Calm PROVE SamePresence /\ Mints
  BY AbsentStatus DEF Calm, KeepsJobs, KeepsRequests, SameGuards, SamePresence, Mints, Present

\* So does whatever leaves the jobs alone.
LEMMA NoCount == ASSUME UNCHANGED <<mem, db>> PROVE SameCounts
  BY DEF SameCounts

\* A change of status keeps the counter.
LEMMA StatusCount ==
  ASSUME TInv, NEW j \in Jobs, Present(j), NEW s, Write(j, WithStatus(j, s))
  PROVE  SameCounts
  <1>1. mem[j] \in Job /\ mem \in [Jobs -> Job] /\ db \in [Jobs -> Job]
    BY DEF TInv, TypeOK
  <1>2. Count(WithStatus(j, s)) = Count(mem[j])
    BY <1>1 DEF Count, WithStatus, Job
  <1> QED BY <1>1, <1>2 DEF SameCounts, Write

\* Writing the cached record to its row.
LEMMA PersistCount ==
  ASSUME TInv, NEW j \in Jobs, Present(j), mem' = mem, db' = [db EXCEPT ![j] = mem[j]]
  PROVE  SameCounts
  BY DEF SameCounts, TInv, TypeOK

\* A step that leaves the queue alone, and the worker where no turn is taken.
LEMMA StillTurns ==
  ASSUME RunsInv, Mints, UNCHANGED <<queue, runs>>,
         worker' = worker \/ "gate" \notin {worker.pc, worker'.pc}
  PROVE  Turns
  BY DEF RunsInv, QueueOnce, Turns, Waiting

\* A step that puts a job in the queue, or drops it because the queue is full.
LEMMA JoinTurns ==
  ASSUME TInv, RunsInv, Mints, NEW j \in Jobs, Joins(j), ~Waiting(j), Enqueue(j),
         UNCHANGED <<worker, runs>>
  PROVE  Turns
  <1>1. CASE queue' = queue
    BY <1>1, StillTurns
  <1>2. CASE queue' = Append(queue, j)
    <2>1. queue \in Seq(Jobs)
      BY DEF TInv, TypeOK
    <2>2. /\ Len(queue') = Len(queue) + 1 /\ queue'[Len(queue) + 1] = j
          /\ \A i \in 1..Len(queue) : queue'[i] = queue[i]
      BY <1>2, <2>1
    <2>3. \A i \in 1..Len(queue') : i \in 1..Len(queue) \/ i = Len(queue) + 1
      BY <2>1, <2>2
    <2>4. QueueOnce'
      BY <2>1, <2>2, <2>3 DEF RunsInv, QueueOnce, Waiting
    <2>5. \A i \in Jobs : (Waiting(i))' => Waiting(i) \/ i = j
      BY <2>1, <2>2, <2>3 DEF Waiting
    <2> QED BY <2>4, <2>5 DEF Turns
  <1> QED BY <1>1, <1>2 DEF Enqueue

\* A submission mints a job that has not started and lets it wait.
LEMMA SubmitRuns ==
  ASSUME TInv, TInv', GuardInv, RunsInv, NEW j \in Jobs, Submit(j) PROVE RunsInv' /\ SameCounts /\ Turns
  <1>1. Calm
    BY SubmitCalm
  <1>2. db[j] = Absent /\ mem[j] = Absent /\ j \in Roots /\ j \notin Requests
    BY AbsentStatus, ConstantsAssumption
       DEF Submit, GuardInv, WrittenThrough, AbsentOK, Present
  <1>3. Minted(j)
    BY <1>2 DEF Minted, Submit, Write, Status, PreDelivery, Terminal, TInv, TypeOK
  <1>4. SameCounts
    BY <1>3 DEF SameCounts, Submit, Write, TInv, TypeOK
  <1>5. Turns
    BY <1>1, <1>2, <1>3, CalmPresence, JoinTurns, WaitingPresent DEF Submit, Joins
  <1> QED BY <1>1, <1>4, <1>5, CalmPresence, UpStep DEF Submit, Running, process

\* What a request finds and does when it arrives: it goes away at once, takes
\* the override guard, or the review guard of a proposal.
Arrival(r, j, op, k, pc, reply) ==
  /\ j \in Jobs
  /\ Arrive(r, op, j, k, pc, reply)
  /\ UNCHANGED <<process, queue, worker, trail, runs>>
  /\ \/ pc = "done"
     \/ pc = "override" /\ op \in ReservingOp
     \/ /\ pc = "override" /\ op = "modify"
        /\ mem[j].status \in {"response_received", "delivered"}
     \/ pc = "reviewed" /\ op \in ReviewOp /\ mem[j].status = "proposal_ready"
  /\ \/ UNCHANGED <<mem, db>>
     \/ Present(j) /\ Reserve(j, op)
     \/ pc = "reviewed" /\ Write(j, Decide(mem[j], op))

\* Every arrival has that shape.
LEMMA ArrivalShape ==
  ASSUME NEW r, RequestArrives(r)
  PROVE  \E j, op, k, pc, reply : Arrival(r, j, op, k, pc, reply)
  <1>1. ASSUME NEW j \in Jobs
        PROVE  /\ \A op \in OverrideOp :
                    OverrideNoOp(r, j, op) =>
                      \E k, reply : Arrival(r, j, op, k, "done", reply)
               /\ \A op \in OverrideOp :
                    BeginOverride(r, j, op) => Arrival(r, j, op, NoKey, "override", "none")
               /\ BeginModify(r, j) => Arrival(r, j, "modify", NoKey, "override", "none")
               /\ \A op \in OverrideOp :
                    RefuseOverride(r, j, op) => Arrival(r, j, op, NoKey, "done", "error")
               /\ \A op \in ReviewOp, k \in Keys :
                    ReviewReplay(r, j, op, k) =>
                      \E reply : Arrival(r, j, op, k, "done", reply)
               /\ \A op \in ReviewOp, k \in Keys :
                    ReviewRefused(r, j, op, k) =>
                      \E reply : Arrival(r, j, op, k, "done", reply)
               /\ \A op \in ReviewOp, k \in Keys :
                    BeginReview(r, j, op, k) => Arrival(r, j, op, k, "reviewed", "none")
    BY DEF Arrival, OverrideNoOp, BeginOverride, BeginModify, RefuseOverride,
           ReviewReplay, ReviewRefused, BeginReview, OverrideGuard, Reviewable, Present
  <1> QED BY <1>1 DEF RequestArrives

\* A guard that is taken on arrival counts nothing.
LEMMA ArrivalRuns ==
  ASSUME TInv, TInv', GuardInv, RunsInv, NEW r \in Requests, RequestArrives(r)
  PROVE  RunsInv' /\ SameCounts /\ SamePresence /\ Turns
  <1>0. mem \in [Jobs -> Job] /\ db \in [Jobs -> Job]
    BY DEF TInv, TypeOK
  <1>1. PICK j, op, k, pc, reply :
          /\ j \in Jobs /\ pc \in {"override", "reviewed", "done"}
          /\ Arrive(r, op, j, k, pc, reply)
          /\ UNCHANGED <<process, queue, worker, runs>>
          /\ \/ UNCHANGED <<mem, db>>
             \/ Present(j) /\ Reserve(j, op)
             \/ Present(j) /\ Write(j, Decide(mem[j], op))
    BY ArrivalShape DEF Arrival, Present
  <1>2. PICK m : /\ m.status # "absent" \/ UNCHANGED <<mem, db>>
                 /\ Count(m) = Count(mem[j])
                 /\ UNCHANGED <<mem, db>> \/ (Present(j) /\ Write(j, m))
    <2>1. mem[j] \in Job
      BY <1>0, <1>1
    <2>2. CASE UNCHANGED <<mem, db>>
      <3> WITNESS mem[j]
      <3> QED BY <2>2
    <2>3. CASE Present(j) /\ Reserve(j, op)
      <3> DEFINE m == [mem[j] EXCEPT !.override_type = op]
      <3>1. m.status # "absent" /\ Count(m) = Count(mem[j])
        BY <2>1, <2>3 DEF Present, Count, Job
      <3> QED BY <2>3, <3>1 DEF Reserve
    <2>4. CASE Present(j) /\ Write(j, Decide(mem[j], op))
      <3>1. Decide(mem[j], op).status # "absent" /\ Count(Decide(mem[j], op)) = Count(mem[j])
        BY <2>1, <2>4 DEF Present, Count, Decide, Job
      <3> QED BY <2>4, <3>1
    <2> QED BY <1>1, <2>2, <2>3, <2>4
  <1>3. SameCounts
    BY <1>0, <1>2 DEF SameCounts, Write
  <1>4. SamePresence
    <2>1. UNCHANGED <<mem, db>> \/ db[j] # Absent
      BY <1>1, AbsentStatus DEF Arrive
    <2> QED BY <1>0, <1>2, <2>1, AbsentStatus DEF SamePresence, Present, Write
  <1>5. Mints
    <2>1. \A s \in Requests : s # r => req'[s] = req[s]
      BY <1>1 DEF Arrive, TInv, TypeOK
    <2>2. req'[r].pc = pc
      BY <1>1 DEF Arrive, TInv, TypeOK
    <2> QED BY <1>1, <2>1, <2>2 DEF Mints
  <1>6. Turns
    BY <1>1, <1>5, StillTurns
  <1> QED BY <1>1, <1>3, <1>4, <1>6, UpStep DEF Arrive, Running, process

\* A handler counts nothing either; it queues its successor once.
LEMMA HandlerRuns ==
  ASSUME TInv, TInv', GuardInv, RunsInv, NEW r \in Requests, HandlerStep(r)
  PROVE  RunsInv' /\ SameCounts /\ Turns
  <1> DEFINE j == req[r].job
  <1>0. /\ mem \in [Jobs -> Job] /\ db \in [Jobs -> Job] /\ r \in Jobs
        /\ mem[r] \in Job /\ j \in Jobs /\ mem[j] \in Job /\ Present(j)
    <2>1. Active(req[r])
      BY DEF HandlerStep, OverrideEmitted, OverrideFails, SuccessorEmitted,
             OverrideRevokes, ModifyReviewed, ModifyDelivers, OverrideReplies,
             ReviewEmitted, ReviewSettles, ReviewCloses, RequestRaises, Active
    <2> QED BY <2>1 DEF TInv, TypeOK, RequestOK, GuardInv, LiveOK, Jobs
  <1>1. Calm /\ SamePresence /\ Mints
    BY HandlerCalm, CalmPresence
  <1>2. phase = "up" /\ phase' = "up" /\ UNCHANGED <<worker, runs>>
    BY DEF HandlerStep, OverrideEmitted, OverrideFails, SuccessorEmitted,
           OverrideRevokes, ModifyReviewed, ModifyDelivers, OverrideReplies,
           ReviewEmitted, ReviewSettles, ReviewCloses, RequestRaises, Running, process
  <1>3. CASE SuccessorEmitted(r)
    <2>1. Joins(r) /\ ~Waiting(r) /\ Enqueue(r) /\ Present(r)
      <3>1. req[r].pc = "successor" /\ req'[r].pc \in {"after", "revoke"}
        BY <1>3 DEF SuccessorEmitted, Goto, TInv, TypeOK, Request
      <3> QED BY <1>3, <3>1 DEF Joins, SuccessorEmitted, RunsInv, SpawnedOK, GuardInv, LiveOK
    <2>2. Count(WithStatus(r, "failed")) = Count(mem[r])
      BY <1>0 DEF WithStatus, Count, Job
    <2>3. SameCounts
      <3> DEFINE succ == IF HasRoom THEN mem[r] ELSE WithStatus(r, "failed")
                 finish == req[r].op = "redirect" /\ req[r].pre
      <3>1. Count(succ) = Count(mem[r])
        BY <2>2
      <3>2. /\ mem' = [mem EXCEPT ![r] = succ]
            /\ db' = [db EXCEPT ![r] = IF HasRoom THEN @ ELSE succ,
                                ![j] = IF finish THEN mem[j] ELSE @]
        BY <1>3 DEF SuccessorEmitted
      <3> HIDE DEF succ, finish
      <3>3. /\ \A i \in Jobs : mem'[i] = mem[i] \/ (i = r /\ mem'[i] = succ)
            /\ \A i \in Jobs : db'[i] \in {db[i]} \cup (IF i = r THEN {succ} ELSE {})
                                            \cup (IF i = j THEN {mem[j]} ELSE {})
        BY <1>0, <3>2
      <3> QED BY <1>0, <2>1, <3>1, <3>3 DEF SameCounts
    <2> QED BY <1>0, <1>1, <1>2, <1>3, <2>1, <2>3, JoinTurns, UpStep
  <1>4. CASE ~SuccessorEmitted(r)
    <2>1. queue' = queue
      BY <1>4 DEF HandlerStep, OverrideEmitted, OverrideFails,
             OverrideRevokes, ModifyReviewed, ModifyDelivers, OverrideReplies,
             ReviewEmitted, ReviewSettles, ReviewCloses, RequestRaises
    <2>2. SameCounts
      <3>1. CASE UNCHANGED <<mem, db>>
        BY <3>1, NoCount
      <3>2. ASSUME NEW s, Write(j, WithStatus(j, s)) PROVE SameCounts
        BY <1>0, <3>2, StatusCount
      <3>3. ASSUME NEW m \in [Jobs -> Job], Spawn(r, m), req[r].pc \in Unspawned,
                   m = mem \/ m = [mem EXCEPT ![j].status = "failed"]
            PROVE  SameCounts
        <4>1. \A i \in Jobs : Count(m[i]) = Count(mem[i])
          BY <1>0, <3>3 DEF Count, Job
        <4>2. CASE mem' = [m EXCEPT ![r] = NewJob("classified")]
                   /\ db' = [db EXCEPT ![r] = NewJob("classified")]
          <5>1. Minted(r) \/ SameGuards(mem[r], mem'[r])
            BY <1>0, <1>1 DEF Calm, KeepsJobs
          <5>2. mem'[r].status = "classified" /\ mem[r] = Absent
            BY <1>0, <3>3, <4>2 DEF NewJob, Absent, GuardInv, FreshOK
          <5>3. Minted(r)
            BY <5>1, <5>2, AbsentStatus DEF SameGuards
          <5> QED BY <1>0, <4>1, <4>2, <5>3 DEF SameCounts
        <4>3. CASE mem' = m /\ db' = db
          BY <4>1, <4>3 DEF SameCounts
        <4> QED BY <3>3, <4>2, <4>3 DEF Spawn
      <3>4. [mem EXCEPT ![j].status = "failed"] \in [Jobs -> Job]
        BY <1>0, WithStatusType DEF Status, Terminal, WithStatus
      <3> QED BY <1>0, <1>4, <3>1, <3>2, <3>3, <3>4, PersistCount
              DEF HandlerStep, OverrideEmitted, OverrideFails, OverrideRevokes,
                  ModifyReviewed, ModifyDelivers, OverrideReplies, ReviewEmitted,
                  ReviewSettles, ReviewCloses, RequestRaises, Unspawned
    <2> QED BY <1>1, <1>2, <2>1, <2>2, StillTurns, UpStep
  <1> QED BY <1>3, <1>4

\* A take moves a job from the queue to the gate; a start ends its turn.
LEMMA WorkerRuns ==
  ASSUME TInv, TInv', GuardInv, RunsInv, WorkerStep PROVE RunsInv' /\ SameCounts /\ Turns
  <1> DEFINE j == worker.job
  <1> USE DEF WTake, WStart, WClassify, WRefused, WPermit, WPrepare, WDispatch,
              WExecute, WExecFailed, WRespond, WHold, WAnnounce, WDeliver,
              WTeardown, WRaises
  <1>0. /\ worker \in [pc: WorkerPc, job: Jobs \cup {NoJob}, hold: BOOLEAN]
        /\ queue \in Seq(Jobs) /\ runs \in [Jobs -> Nat]
    BY DEF TInv, TypeOK
  <1>1. SamePresence /\ Mints
    BY WorkerCalm, CalmPresence
  <1>2. phase = "up" /\ phase' = "up"
    BY DEF WorkerStep, Running, process
  <1>3. worker.pc # "idle" => Present(j) /\ j \in Jobs
    BY DEF GuardInv, LiveOK, TInv, TypeOK
  <1>4. SameCounts
    <2>1. CASE UNCHANGED <<mem, db>>
      BY <2>1, NoCount
    <2>2. CASE WStart
      BY <1>3, <2>1, <2>2, PersistCount
    <2>3. CASE worker.pc # "idle" /\ \E s : Write(j, WithStatus(j, s))
      BY <1>3, <2>3, StatusCount
    <2> QED BY <2>1, <2>2, <2>3 DEF WorkerStep
  <1>5. Turns
    <2>1. CASE WTake
      <3>1. /\ Len(queue') = Len(queue) - 1 /\ 1 \in 1..Len(queue)
            /\ \A i \in 1..Len(queue') : queue'[i] = queue[i + 1] /\ i + 1 \in 1..Len(queue)
            /\ worker'.job = queue[1] /\ worker'.pc = "gate" /\ worker.pc = "idle"
        BY <1>0, <2>1
      <3>2. QueueOnce'
        BY <3>1 DEF RunsInv, QueueOnce
      <3>3. \A i \in Jobs : (Waiting(i))' => Waiting(i)
        BY <3>1 DEF Waiting
      <3> QED BY <1>1, <2>1, <3>2, <3>3 DEF Turns
    <2>2. CASE WStart
      <3>1. /\ worker.pc = "gate" /\ worker'.pc \in {"permit", "unroutable", "classify"}
            /\ worker'.job = worker.job /\ queue' = queue
        BY <1>0, <2>2 DEF Routed, WGoto
      <3>2. QueueOnce' /\ \A i \in Jobs : (Waiting(i))' => Waiting(i)
        BY <2>2, <3>1 DEF RunsInv, QueueOnce, Waiting
      <3>3. \A i \in Jobs : i = j => Waiting(i) /\ ~(Waiting(i))'
        BY <3>1 DEF RunsInv, QueueOnce, Waiting
      <3>4. \A i \in Jobs : \/ runs'[i] = runs[i]
                            \/ i = j /\ runs'[i] = runs[i] + 1
        <4>1. runs' = [runs EXCEPT ![j] = @ + 1]
          BY <2>2
        <4> QED BY <1>0, <4>1
      <3> QED BY <1>1, <3>2, <3>3, <3>4 DEF Turns
    <2>3. CASE ~WTake /\ ~WStart
      <3>1. UNCHANGED <<queue, runs>>
        BY <2>3 DEF WorkerStep
      <3>2. "gate" \notin {worker.pc, worker'.pc}
        <4>1. ASSUME NEW pc, WGoto(pc) PROVE worker'.pc = pc
          BY <1>0, <4>1 DEF WGoto
        <4>2. CASE WPermit
          BY <1>0, <4>2
        <4>3. CASE worker' = NoWork
          BY <2>3, <4>3 DEF NoWork, WorkerStep
        <4> QED BY <2>3, <4>1, <4>2, <4>3 DEF WorkerStep, Routed, AfterResponse
      <3> QED BY <1>1, <3>1, <3>2, StillTurns
    <2> QED BY <2>1, <2>2, <2>3
  <1> QED BY <1>1, <1>2, <1>4, <1>5, UpStep

\* A restart starts nothing: it forgets what waits, and what it lets wait again
\* it counts first.
LEMMA RestartRuns ==
  ASSUME TInv, TInv', GuardInv, RunsInv,
         Crash \/ Startup \/ \E j \in Jobs : RecoveryStep(j)
  PROVE  RunsInv'
  <1>0. /\ mem \in [Jobs -> Job] /\ db \in [Jobs -> Job] /\ queue \in Seq(Jobs)
        /\ req \in [Requests -> Request] /\ runs \in [Jobs -> Nat]
        /\ \A i \in Jobs : Count(mem[i]) \in Nat /\ Count(db[i]) \in Nat
    BY DEF TInv, TypeOK, Job, Count
  <1>1. Absent.status = "absent" /\ Count(Absent) = 0
    BY DEF Absent, Count
  <1> USE ConstantsAssumption
  <1>2. CASE LoseMemory
    <2>0. /\ queue' = <<>> /\ Len(queue') = 0 /\ worker'.pc = "idle"
          /\ \A i \in Jobs : mem'[i] = Absent
          /\ UNCHANGED <<db, runs>> /\ phase' = "down"
      BY <1>2 DEF LoseMemory, NoWork
    <2>1. \A i \in Jobs : ~(Waiting(i))' /\ ~(Present(i))' /\ Count(mem'[i]) = 0
      BY <1>1, <2>0 DEF Waiting, Present
    <2>2. QueueOnce'
      BY <2>0 DEF QueueOnce
    <2>3. CountOK'
      BY <2>0, <2>1 DEF CountOK, RunsInv
    <2>4. StartsOK'
      BY <2>0, <2>1 DEF StartsOK, RunsInv
    <2>5. SpawnedOK'
      BY <1>0, <1>2 DEF LoseMemory, SpawnedOK, Request
    <2> QED BY <2>2, <2>3, <2>4, <2>5 DEF RunsInv
  <1>3. CASE Boot
    <2>1. \A i \in Jobs : mem'[i] = IF Loadable(db[i]) THEN db[i] ELSE Absent
      BY <1>3 DEF Boot
    <2>2. \A i \in Jobs : ~Waiting(i) /\ ~(Waiting(i))' /\ (Due(i))' = 0
      BY <1>3 DEF Boot, GuardInv, DownOK, Waiting, Due
    <2>3. QueueOnce' /\ SpawnedOK'
      BY <1>3, <2>2 DEF Boot, RunsInv, QueueOnce, SpawnedOK, Jobs
    <2>4. CountOK'
      BY <1>1, <1>3, <2>1 DEF Boot, CountOK, RunsInv
    <2>5. StartsOK'
      <3>1. \A i \in Jobs : (Present(i))' => mem'[i] = db[i]
        BY <1>1, <2>1 DEF Present
      <3> QED BY <1>0, <1>3, <2>2, <3>1 DEF Boot, StartsOK, RunsInv
    <2> QED BY <2>3, <2>4, <2>5 DEF RunsInv
  <1>4. CASE BeginSaving
    <2>1. \A i \in Jobs : /\ (Waiting(i))' <=> Waiting(i)
                          /\ (Due(i))' = Due(i)
                          /\ (Present(i))' <=> Present(i)
      BY <1>4 DEF BeginSaving, Waiting, Due, Present
    <2>2. CountOK'
      BY <1>1, <1>4, <2>1 DEF BeginSaving, CountOK, RunsInv, Present
    <2>3. StartsOK' /\ SpawnedOK' /\ QueueOnce'
      BY <1>4, <2>1 DEF BeginSaving, StartsOK, SpawnedOK, QueueOnce, RunsInv, Jobs
    <2> QED BY <2>2, <2>3 DEF RunsInv
  <1>5. CASE Open
    <2>1. \A i \in Jobs : /\ (Waiting(i))' <=> Waiting(i)
                          /\ (Due(i))' = Due(i)
                          /\ (Present(i))' <=> Present(i)
      BY <1>5 DEF Open, Waiting, Due, Present
    <2>2. CountOK'
      BY <1>5, <2>1 DEF Open, CountOK, RunsInv
    <2>3. StartsOK' /\ SpawnedOK' /\ QueueOnce'
      BY <1>5, <2>1 DEF Open, StartsOK, SpawnedOK, QueueOnce, RunsInv, Jobs
    <2> QED BY <2>2, <2>3 DEF RunsInv
  <1>6. ASSUME NEW j \in Jobs, RecoveryStep(j), ~LoseMemory PROVE RunsInv'
    <2>1. CASE SaveJob(j)
      <3>1. \A i \in Jobs : /\ (Waiting(i))' <=> Waiting(i)
                            /\ (Due(i))' = Due(i)
                            /\ (Present(i))' <=> Present(i)
        BY <2>1 DEF SaveJob, Waiting, Due, Present
      <3>2. \A i \in Jobs : db'[i] = IF i = j THEN mem[i] ELSE db[i]
        BY <1>0, <2>1 DEF SaveJob
      <3>3. Present(j)
        BY <2>1 DEF SaveJob, GuardInv, LiveOK
      <3>4. CountOK'
        BY <2>1, <3>1, <3>2 DEF SaveJob, CountOK, RunsInv
      <3>5. \A i \in Jobs : runs[i] <= 1 + Count(db'[i]) /\ (db'[i] = Absent => runs[i] = 0)
        <4>1. runs[j] + Due(j) <= 1 + Count(mem[j]) /\ Due(j) \in {0, 1} /\ mem[j] # Absent
          BY <1>1, <3>3 DEF RunsInv, StartsOK, Due, Present
        <4>2. runs[j] <= 1 + Count(mem[j])
          BY <1>0, <4>1
        <4> QED BY <3>2, <4>1, <4>2 DEF RunsInv, StartsOK
      <3>6. StartsOK' /\ SpawnedOK' /\ QueueOnce'
        BY <2>1, <3>1, <3>5 DEF SaveJob, StartsOK, SpawnedOK, QueueOnce, RunsInv, Jobs
      <3> QED BY <3>4, <3>6 DEF RunsInv
    <2>2. CASE RecoverRequeue(j)
      <3>1. UNCHANGED <<db, worker, req, runs, phase>> /\ phase = "recovering"
            /\ todo' = todo \ {j} /\ j \in todo
        BY <2>2 DEF RecoverRequeue, Recovering
      <3>2. /\ ~Waiting(j)
            /\ QueueOnce' /\ \A i \in Jobs : (Waiting(i))' => Waiting(i) \/ i = j
        <4>1. ~Waiting(j)
          BY <3>1 DEF RunsInv, StartsOK
        <4>2. CASE queue' = queue
          BY <3>1, <4>1, <4>2 DEF RunsInv, QueueOnce, Waiting
        <4>3. CASE queue' = Append(queue, j)
          <5>1. /\ Len(queue') = Len(queue) + 1 /\ queue'[Len(queue) + 1] = j
                /\ \A i \in 1..Len(queue) : queue'[i] = queue[i]
            BY <1>0, <4>3
          <5>2. \A i \in 1..Len(queue') : i \in 1..Len(queue) \/ i = Len(queue) + 1
            BY <1>0, <5>1
          <5>3. QueueOnce'
            BY <1>0, <3>1, <4>1, <5>1, <5>2 DEF RunsInv, QueueOnce, Waiting
          <5> QED BY <1>0, <3>1, <4>1, <5>1, <5>2, <5>3 DEF Waiting
        <4> QED BY <2>2, <4>1, <4>2, <4>3 DEF RecoverRequeue, Enqueue
      <3>3. /\ \A i \in Jobs : i # j => mem'[i] = mem[i]
            /\ Count(mem'[j]) = Count(mem[j]) + 1
            /\ Count(mem'[j]) <= MaxRecoveryDispatches
            /\ Present(j) /\ (Present(j))'
        BY <1>0, <2>2 DEF RecoverRequeue, Recovered, Count, Present, Requeueable, Job
      <3>4. CountOK'
        BY <3>1, <3>3 DEF CountOK, RunsInv, Present
      <3>5. \A i \in Jobs : /\ Due(i) = IF Waiting(i) THEN 1 ELSE 0
                            /\ (Due(i))' = IF (Waiting(i))' THEN 1 ELSE 0
        BY DEF Due
      <3>6. StartsOK'
        <4>1. \A i \in Jobs : (Present(i))' => runs[i] + (Due(i))' <= 1 + Count(mem'[i])
          <5> SUFFICES ASSUME NEW i \in Jobs, (Present(i))'
                       PROVE  runs[i] + (Due(i))' <= 1 + Count(mem'[i])
            OBVIOUS
          <5>1. runs[i] \in Nat /\ Count(mem[i]) \in Nat
            BY <1>0
          <5>2. Present(i)
            BY <3>3 DEF Present
          <5>3. runs[i] + Due(i) <= 1 + Count(mem[i])
            BY <5>2 DEF RunsInv, StartsOK
          <5>4. CASE i = j
            BY <3>2, <3>3, <3>5, <5>1, <5>3, <5>4
          <5>5. CASE i # j
            BY <3>2, <3>3, <3>5, <5>1, <5>3, <5>5
          <5> QED BY <5>4, <5>5
        <4> QED BY <3>1, <3>2, <4>1 DEF RunsInv, StartsOK
      <3>7. SpawnedOK'
        <4>1. \A r \in Requests : req[r].pc # "successor"
          BY <3>1 DEF RunsInv, SpawnedOK
        <4> QED BY <3>1, <4>1 DEF SpawnedOK
      <3> QED BY <3>2, <3>4, <3>6, <3>7 DEF RunsInv
    <2>3. CASE RecoverExhausted(j) \/ RecoverSkip(j) \/ RecoverDeliver(j)
      <3>1. /\ UNCHANGED <<db, queue, worker, req, runs, phase>> /\ phase = "recovering"
            /\ todo' = todo \ {j}
            /\ \A i \in Jobs : /\ (Waiting(i))' <=> Waiting(i)
                               /\ (Due(i))' = Due(i)
        BY <2>3 DEF RecoverExhausted, RecoverSkip, RecoverDeliver, Recovering, Waiting, Due
      <3>2. \A i \in Jobs : Count(mem'[i]) = Count(mem[i]) /\ ((Present(i))' <=> Present(i))
        BY <1>0, <2>3 DEF RecoverExhausted, RecoverSkip, RecoverDeliver, Count, Present,
                          Requeueable, Job
      <3>3. CountOK'
        BY <3>1, <3>2 DEF CountOK, RunsInv
      <3>4. StartsOK' /\ SpawnedOK' /\ QueueOnce'
        BY <3>1, <3>2 DEF StartsOK, SpawnedOK, QueueOnce, RunsInv, Jobs
      <3> QED BY <3>3, <3>4 DEF RunsInv
    <2> QED BY <1>6, <2>1, <2>2, <2>3 DEF RecoveryStep, RecoverRaises
  <1> QED BY <1>2, <1>3, <1>4, <1>5, <1>6 DEF Crash, Startup

\* Every step keeps the bound.
LEMMA NextRuns ==
  ASSUME TInv, TInv', GuardInv, RunsInv, [Next]_vars PROVE RunsInv'
  <1>1. CASE UNCHANGED vars
    BY <1>1 DEF vars, RunsInv, QueueOnce, CountOK, StartsOK, SpawnedOK, Waiting, Due, Present
  <1> QED BY <1>1, SubmitRuns, ArrivalRuns, HandlerRuns, WorkerRuns, RestartRuns
             DEF Next, Quiescent

-----------------------------------------------------------------------------
\* The re-dispatch cap holds however the crashes fall: the pipeline of a job
\* starts at most once plus MAX_RECOVERY_DISPATCHES times.
THEOREM RunsAreBounded == Spec => []RunsBounded
  <1>1. TInv /\ RunsInv => RunsBounded
    <2> SUFFICES ASSUME TInv, RunsInv, NEW j \in Jobs
                 PROVE  runs[j] <= 1 + MaxRecoveryDispatches
      BY DEF RunsBounded
    <2>1. runs[j] <= 1 + Count(db[j]) /\ Count(db[j]) <= MaxRecoveryDispatches
      BY DEF RunsInv, StartsOK, CountOK
    <2>2. runs[j] \in Nat /\ Count(db[j]) \in Nat
      BY DEF TInv, TypeOK, Job, Count
    <2> QED BY <2>1, <2>2, ConstantsAssumption
  <1> QED BY <1>1, InitRuns, NextRuns, GuardsInvariant, PTL DEF Spec

-----------------------------------------------------------------------------
(* A held result waits for its review, as long as no process died: the     *)
(* local variable that remembers the hold dies with it.  Without a restart *)
(* a job has one turn, so its one permission check decides; until the      *)
(* answer came no review and no modification can be under way.             *)

WorkingPc == {"classify", "unroutable", "permit", "blocked", "prepare", "dispatch",
              "execute", "exec_failed", "respond"}

Working(j) == worker.job = j /\ worker.pc \in WorkingPc

Spawning(j) == j \in Requests /\ req[j].pc = "successor"

\* Job j has not been answered yet.
Early(j) == Waiting(j) \/ Spawning(j) \/ Working(j)

EarlyStatus == {"submitted", "classified", "dispatched", "failed", "revoked"}

Held(j) == \E e \in trail : e.job = j /\ e.kind = "hold"

Accepted(j) == \E e \in trail : e.job = j /\ e.kind \in {"approve", "edit"}

Finishing(q) == Active(q) /\ q.op \in ReviewOp \cup {"modify"}

FirstRun ==
  /\ phase = "up"
  /\ \A j \in Jobs : Count(mem[j]) = 0 /\ Count(db[j]) = 0
  /\ worker.pc \notin {"idle", "gate"} => runs[worker.job] > 0

EarlyOK ==
  /\ \A j \in Jobs : Early(j) => {mem[j].status, db[j].status} \subseteq EarlyStatus
  /\ \A r \in Requests : Finishing(req[r]) => ~Early(req[r].job)

\* The event of the hold, the variable of the worker and the cached status.
HoldOK ==
  /\ \A j \in Jobs :
       db[j] = Absent \/ Waiting(j) \/ Spawning(j)
         \/ (worker.job = j /\ worker.pc \in {"classify", "unroutable", "permit", "deliver"})
       => ~Held(j)
  /\ worker.pc \in WorkingPc /\ Held(worker.job) => worker.hold
  /\ \A j \in Jobs :
       mem[j].status = "response_received" /\ Held(j)
         => worker.pc = "hold" /\ worker.job = j

\* A handler that will deliver may do so.
MayDeliver(q) ==
  /\ Active(q) /\ q.op = "modify" /\ q.pre => ~Held(q.job)
  /\ q.pc = "deliver" /\ q.op = "modify" => q.pre
  /\ q.pc = "deliver" /\ q.op \in ReviewOp => Accepted(q.job)

HeldInv ==
  /\ FirstRun /\ EarlyOK /\ HoldOK /\ HeldNeedsReview
  /\ \A r \in Requests : MayDeliver(req[r])

\* Nothing was ever held, and no handler has started.
LEMMA InitHeld == Init => HeldInv
  BY DEF Init, HeldInv, FirstRun, EarlyOK, HoldOK, HeldNeedsReview, MayDeliver, Early, Waiting,
         Spawning, Working, WorkingPc, Held, Finishing, Active, Count, Absent, NoWork,
         FreshRequest, EventsOf, Jobs

\* A step beside the worker: no hold, no answer to a job, and a delivery only
\* where none was held or its review is in the log.
BesideStatus(j) ==
  /\ Early(j) \/ Minted(j) => {mem'[j].status, db'[j].status} \subseteq EarlyStatus
  /\ mem'[j].status = "response_received" => mem[j].status = "response_received"
  /\ "delivered" \in {mem'[j].status, db'[j].status} =>
       "delivered" \in {mem[j].status, db[j].status} \/ ~Held(j) \/ Accepted(j)

Beside ==
  /\ phase' = "up" /\ worker' = worker
  /\ trail \subseteq trail' /\ \A e \in trail' \ trail : e.kind # "hold"
  /\ \A j \in Jobs : BesideStatus(j)
  /\ \A r \in Requests :
       /\ Finishing(req'[r]) => /\ req'[r].job \in Jobs /\ Present(req'[r].job)
                                /\ ~Early(req'[r].job)
       /\ (MayDeliver(req[r]))'

\* What such a step may make early was so or is new.
LEMMA EarlyStays ==
  ASSUME Turns, worker' = worker, NEW j \in Jobs
  PROVE  /\ (Waiting(j))' \/ (Spawning(j))' => Waiting(j) \/ Spawning(j) \/ Minted(j)
         /\ (Early(j))' => Early(j) \/ Minted(j)
  BY DEF Turns, Joins, Mints, Early, Spawning, Working

\* It keeps the invariant.
LEMMA BesideStep ==
  ASSUME TInv, TInv', GuardInv, RunsInv, HeldInv, SameCounts, SamePresence, Turns, Beside
  PROVE  HeldInv'
  <1>1. \A j \in Jobs : (Held(j))' <=> Held(j)
    BY DEF Held, Beside
  <1>2. \A j \in Jobs : Accepted(j) => (Accepted(j))'
    BY DEF Accepted, Beside
  <1>3. ASSUME NEW j \in Jobs, Minted(j)
        PROVE  ~Present(j) /\ db[j] = Absent /\ db'[j] # Absent
               /\ Count(mem'[j]) = 0 /\ Count(db'[j]) = 0
    <2>1. Count(mem'[j]) = 0 /\ Count(db'[j]) = 0
      BY <1>3 DEF Minted, NewJob, Absent, Count
    <2> QED BY <1>3, <2>1, MintedGuards, AbsentStatus DEF Minted
  <1>4. FirstRun'
    <2>1. \A j \in Jobs : Count(mem'[j]) = 0 /\ Count(db'[j]) = 0
      BY <1>3 DEF HeldInv, FirstRun, SameCounts
    <2>2. worker.pc \notin {"idle", "gate"} => runs'[worker.job] > 0
      <3> SUFFICES ASSUME worker.pc \notin {"idle", "gate"} PROVE runs'[worker.job] > 0
        OBVIOUS
      <3>1. worker.job \in Jobs /\ runs[worker.job] \in Nat /\ runs[worker.job] > 0
        BY DEF HeldInv, FirstRun, TInv, TypeOK
      <3> QED BY <3>1 DEF Turns
    <2> QED BY <2>1, <2>2 DEF FirstRun, Beside
  <1>5. EarlyOK'
    <2>1. ASSUME NEW j \in Jobs, (Early(j))'
          PROVE  {mem'[j].status, db'[j].status} \subseteq EarlyStatus
      BY <2>1, EarlyStays DEF Beside, BesideStatus
    <2>2. ASSUME NEW r \in Requests, Finishing(req'[r]) PROVE ~(Early(req[r].job))'
      <3>1. PICK i \in Jobs : i = req'[r].job /\ Present(i) /\ ~Early(i)
        BY <2>2 DEF Beside
      <3>2. ~(Early(i))'
        BY <1>3, <3>1, EarlyStays DEF Beside
      <3> QED BY <3>1, <3>2 DEF Early, Waiting, Spawning, Working
    <2> QED BY <2>1, <2>2 DEF EarlyOK
  <1>6. HoldOK'
    <2>1. ASSUME NEW j \in Jobs,
                 \/ db'[j] = Absent \/ (Waiting(j))' \/ (Spawning(j))'
                 \/ worker.job = j
                    /\ worker.pc \in {"classify", "unroutable", "permit", "deliver"}
          PROVE  ~Held(j)
      BY <1>3, <2>1, EarlyStays DEF HeldInv, HoldOK, SamePresence, Beside
    <2>2. worker.pc \in WorkingPc => worker.job \in Jobs
      BY DEF WorkingPc, TInv, TypeOK
    <2>3. worker.pc \in WorkingPc /\ (Held(worker.job))' => worker.hold
      BY <1>1, <2>2 DEF HeldInv, HoldOK, Beside
    <2>4. \A j \in Jobs : mem'[j].status = "response_received" /\ (Held(j))'
                            => worker.pc = "hold" /\ worker.job = j
      BY <1>1 DEF HeldInv, HoldOK, Beside, BesideStatus
    <2> QED BY <1>1, <2>1, <2>3, <2>4 DEF HoldOK, Beside
  <1>7. HeldNeedsReview'
    <2> SUFFICES ASSUME NEW j \in Jobs, "delivered" \in {mem'[j].status, db'[j].status},
                        (Held(j))'
                 PROVE  (Accepted(j))'
      BY DEF HeldNeedsReview, EventsOf, Held, Accepted
    <2>1. "delivered" \in {mem[j].status, db[j].status} \/ Accepted(j)
      BY <1>1 DEF Beside, BesideStatus
    <2>2. "delivered" \in {mem[j].status, db[j].status} => Accepted(j)
      BY <1>1 DEF HeldInv, HeldNeedsReview, EventsOf, Held, Accepted
    <2> QED BY <1>2, <2>1, <2>2
  <1> QED BY <1>4, <1>5, <1>6, <1>7 DEF HeldInv, Beside

\* A submission is beside the worker.
LEMMA SubmitHeld ==
  ASSUME TInv, TInv', GuardInv, RunsInv, HeldInv, NEW j \in Jobs, Submit(j) PROVE HeldInv'
  <1>0. mem \in [Jobs -> Job] /\ db \in [Jobs -> Job]
    BY DEF TInv, TypeOK
  <1>1. SamePresence /\ SameCounts /\ Turns
    BY SubmitCalm, CalmPresence, SubmitRuns
  <1>2. \A r \in Requests : MayDeliver(req[r]) /\ (MayDeliver(req[r]))'
    <2>1. \A i : (Held(i))' <=> Held(i)
      BY DEF Submit, Emit, Ev, Held
    <2>2. \A i : Accepted(i) => (Accepted(i))'
      BY DEF Submit, Emit, Ev, Accepted
    <2> QED BY <2>1, <2>2 DEF HeldInv, MayDeliver, Submit
  <1>3. ASSUME NEW i \in Jobs PROVE BesideStatus(i)
    <2>1. mem[j] = Absent /\ db[j] = Absent
      BY AbsentStatus DEF Submit, GuardInv, WrittenThrough, AbsentOK, Present
    <2>2. \/ mem'[i] = mem[i] /\ db'[i] = db[i]
          \/ i = j /\ {mem'[i].status, db'[i].status} \subseteq {"submitted", "failed"}
      BY <1>0 DEF Submit, Write, NewJob, Absent
    <2>3. Minted(i) => ~(mem'[i] = mem[i])
      BY AbsentStatus DEF Minted, NewJob, Absent, Status, PreDelivery, Terminal
    <2> QED BY <2>1, <2>2, <2>3 DEF BesideStatus, HeldInv, EarlyOK, EarlyStatus
  <1>4. ASSUME NEW r \in Requests, Finishing(req'[r])
        PROVE  req'[r].job \in Jobs /\ Present(req'[r].job) /\ ~Early(req'[r].job)
    BY <1>4 DEF Submit, Finishing, HeldInv, EarlyOK, GuardInv, LiveOK, TInv, RequestOK
  <1>5. Beside
    BY <1>2, <1>3, <1>4 DEF Beside, Submit, Running, process, Emit, Ev
  <1> QED BY <1>1, <1>5, BesideStep

\* So is an arrival: a modification or a review finds an answer.
LEMMA ArrivalHeld ==
  ASSUME TInv, TInv', GuardInv, RunsInv, HeldInv, NEW r \in Requests, RequestArrives(r)
  PROVE  HeldInv'
  <1>0. mem \in [Jobs -> Job] /\ db \in [Jobs -> Job] /\ req \in [Requests -> Request]
    BY DEF TInv, TypeOK
  <1>1. SamePresence /\ SameCounts /\ Turns
    BY ArrivalRuns
  <1>2. PICK j, op, k, pc, reply : Arrival(r, j, op, k, pc, reply)
    BY ArrivalShape
  <1>3. /\ trail' = trail /\ worker' = worker /\ phase' = "up" /\ worker.pc # "hold"
        /\ \A s \in Requests : s # r => req'[s] = req[s]
        /\ req'[r] = [pc |-> pc, op |-> op, job |-> j, key |-> k, reply |-> reply,
                      pre |-> mem[j].status \in PreDelivery]
        /\ j \in Jobs
    BY <1>0, <1>2 DEF Arrival, Arrive, Running, process
  <1>4. ASSUME NEW i \in Jobs
        PROVE  /\ mem'[i].status \in {mem[i].status, "closed_no_action"}
               /\ db'[i].status \in {mem[i].status, db[i].status, "closed_no_action"}
               /\ \/ mem[i].status = "proposal_ready"
                  \/ mem'[i].status = mem[i].status /\ db'[i].status \in {mem[i].status, db[i].status}
    <2>1. CASE UNCHANGED <<mem, db>>
      BY <2>1
    <2>2. CASE Reserve(j, op)
      BY <1>0, <1>3, <2>2 DEF Reserve, Write, Job
    <2>3. CASE mem[j].status = "proposal_ready" /\ Write(j, Decide(mem[j], op))
      <3>1. Decide(mem[j], op).status \in {mem[j].status, "closed_no_action"}
        BY <1>0, <1>3 DEF Decide, Job
      <3> QED BY <1>0, <1>3, <2>3, <3>1 DEF Write
    <2> QED BY <1>2, <2>1, <2>2, <2>3 DEF Arrival
  <1>5. ASSUME NEW i \in Jobs PROVE BesideStatus(i)
    <2>1. Minted(i) => FALSE
      <3> SUFFICES ASSUME Minted(i) PROVE FALSE
        OBVIOUS
      <3>1. mem'[i].status \in Status /\ mem[i].status = "absent"
        BY MintedGuards DEF Minted, NewJob, Absent
      <3> QED BY <1>4, <3>1 DEF Status, PreDelivery, Terminal
    <2>2. Early(i) => {mem[i].status, db[i].status} \subseteq EarlyStatus
      BY DEF HeldInv, EarlyOK
    <2> QED BY <1>4, <2>1, <2>2 DEF BesideStatus, EarlyStatus
  <1>6. ASSUME NEW s \in Requests, Finishing(req'[s])
        PROVE  req'[s].job \in Jobs /\ Present(req'[s].job) /\ ~Early(req'[s].job)
    <2>1. CASE s # r
      BY <1>3, <1>6, <2>1 DEF Finishing, HeldInv, EarlyOK, GuardInv, LiveOK, TInv, RequestOK
    <2>2. CASE s = r
      <3>1. req'[r].pc = pc /\ req'[r].op = op /\ req'[r].job = j
        BY <1>3
      <3>2. mem[j].status \in {"response_received", "delivered", "proposal_ready"}
        BY <1>2, <1>6, <2>2, <3>1
           DEF Arrival, Finishing, Active, ReservingOp, SuccessorOp, ReviewOp, TerminalReview
      <3> QED BY <1>3, <2>2, <3>1, <3>2 DEF HeldInv, EarlyOK, EarlyStatus, Present
    <2> QED BY <2>1, <2>2
  <1>7. ASSUME NEW s \in Requests PROVE (MayDeliver(req[s]))'
    <2>1. /\ \A i : (Held(i))' <=> Held(i)
          /\ \A i : (Accepted(i))' <=> Accepted(i)
      BY <1>3 DEF Held, Accepted
    <2>2. CASE s # r
      BY <1>3, <2>1, <2>2 DEF MayDeliver, HeldInv
    <2>3. CASE s = r
      <3>1. req'[r].pc = pc /\ req'[r].op = op /\ req'[r].job = j
            /\ (req'[r].pre => mem[j].status # "delivered")
        <4>1. CASE mem[j].status = "delivered"
          <5>1. mem[j].status \notin PreDelivery
            BY <4>1 DEF PreDelivery
          <5>2. ~req'[r].pre
            <6> DEFINE q == [pc |-> pc, op |-> op, job |-> j, key |-> k, reply |-> reply,
                             pre |-> mem[j].status \in PreDelivery]
            <6>1. q.pre = (mem[j].status \in PreDelivery)
              BY Zenon
            <6>2. req'[r] = q
              BY <1>3
            <6> HIDE DEF q
            <6> QED BY <5>1, <6>1, <6>2, Zenon
          <5> QED BY <1>3, <5>2
        <4> QED BY <1>3, <4>1
      <3>2. pc # "deliver"
        BY <1>2 DEF Arrival
      <3>3. Active(req'[r]) /\ op = "modify" /\ req'[r].pre => ~Held(j)
        BY <1>2, <1>3, <3>1 DEF Active, Arrival, ReservingOp, SuccessorOp, ReviewOp,
                                TerminalReview, HeldInv, HoldOK
      <3> QED BY <2>1, <2>3, <3>1, <3>2, <3>3 DEF MayDeliver
    <2> QED BY <2>2, <2>3
  <1>8. Beside
    BY <1>3, <1>5, <1>6, <1>7 DEF Beside
  <1> QED BY <1>1, <1>8, BesideStep

\* Where a handler stands after a step: it keeps its request, and delivers a
\* modification of a result that waited, or an accepted one.
HandlerMoves(r) ==
  /\ \A s \in Requests : s # r => req'[s] = req[s]
  /\ req'[r].op = req[r].op /\ req'[r].job = req[r].job /\ req'[r].pre = req[r].pre
  /\ req'[r].pc = "deliver" /\ req[r].op = "modify" => req[r].pre
  /\ req'[r].pc = "deliver" /\ req[r].op \in ReviewOp =>
       \E e \in trail' : e.job = req[r].job /\ e.kind \in {"approve", "edit"}

\* Every step of a handler moves it so.
LEMMA HandlerRequest ==
  ASSUME TInv, NEW r \in Requests, HandlerStep(r) PROVE HandlerMoves(r)
  <1>0. req \in [Requests -> Request] /\ req[r] \in Request
    BY DEF TInv, TypeOK
  <1>1. ASSUME NEW pc \in RequestPc, Goto(r, pc), pc = "deliver" /\ req[r].op = "modify" => req[r].pre,
               pc = "deliver" /\ req[r].op \in ReviewOp =>
                 \E e \in trail' : e.job = req[r].job /\ e.kind \in {"approve", "edit"}
        PROVE  HandlerMoves(r)
    <2>1. /\ \A s \in Requests : s # r => req'[s] = req[s]
          /\ req'[r] = [req[r] EXCEPT !.pc = pc]
      BY <1>0, <1>1 DEF Goto
    <2>2. /\ req'[r].pc = pc /\ req'[r].op = req[r].op /\ req'[r].job = req[r].job
          /\ req'[r].pre = req[r].pre
      BY <1>0, <2>1 DEF Request
    <2> QED BY <1>1, <2>1, <2>2 DEF HandlerMoves
  <1>2. ASSUME NEW reply, Answer(r, reply) PROVE HandlerMoves(r)
    <2>1. /\ \A s \in Requests : s # r => req'[s] = req[s]
          /\ req'[r] = [req[r] EXCEPT !.pc = "done", !.reply = reply]
      BY <1>0, <1>2 DEF Answer
    <2>2. /\ req'[r].pc = "done" /\ req'[r].op = req[r].op /\ req'[r].job = req[r].job
          /\ req'[r].pre = req[r].pre
      BY <1>0, <2>1 DEF Request
    <2> QED BY <2>1, <2>2 DEF HandlerMoves
  <1>3. ASSUME NEW m, Spawn(r, m) PROVE HandlerMoves(r)
    BY <1>1, <1>2, <1>3 DEF Spawn, RequestPc
  <1>4. CASE OverrideEmitted(r)
    <2>1. AfterOverride(req[r].op, req[r].pre) \in {"fail", "revoke", "reviewed", "successor"}
      BY DEF AfterOverride
    <2> QED BY <1>1, <1>3, <1>4, <2>1 DEF OverrideEmitted, RequestPc
  <1>5. CASE ReviewEmitted(r)
    <2>1. CASE req[r].op = "defer"
      BY <1>2, <1>5, <2>1 DEF ReviewEmitted
    <2>2. CASE req[r].op # "defer"
      <3>1. /\ AfterReviewed(req[r].op) \in {"deliver", "fail", "close"}
            /\ AfterReviewed(req[r].op) = "deliver" => req[r].op \in {"approve", "edit"}
            /\ req[r].op # "modify"
        BY <1>5, <2>2 DEF ReviewEmitted, AfterReviewed, ReviewOp, TerminalReview
      <3>2. Ev(req[r].job, req[r].op, r) \in trail'
            /\ Ev(req[r].job, req[r].op, r).job = req[r].job
            /\ Ev(req[r].job, req[r].op, r).kind = req[r].op
        BY <1>5 DEF ReviewEmitted, Emit, Ev
      <3> QED BY <1>1, <1>5, <2>2, <3>1, <3>2 DEF ReviewEmitted, RequestPc
    <2> QED BY <2>1, <2>2
  <1>6. CASE ModifyReviewed(r)
    <2>1. req[r].op = "modify" /\ req[r].op \notin ReviewOp
      BY <1>6 DEF ModifyReviewed, ReviewOp, TerminalReview
    <2> QED BY <1>1, <1>6, <2>1 DEF ModifyReviewed, RequestPc
  <1>7. CASE OverrideFails(r) \/ SuccessorEmitted(r) \/ OverrideRevokes(r) \/ ModifyDelivers(r)
             \/ OverrideReplies(r) \/ ReviewSettles(r) \/ ReviewCloses(r) \/ RequestRaises(r)
    BY <1>1, <1>2, <1>3, <1>7
       DEF OverrideFails, SuccessorEmitted, OverrideRevokes, ModifyDelivers, OverrideReplies,
           ReviewSettles, ReviewCloses, RequestRaises, RequestPc
  <1> QED BY <1>4, <1>5, <1>6, <1>7 DEF HandlerStep

\* The statuses a handler may write, delivered among them when its job may be.
HandlerStatus(r, i) ==
  LET delivers == i = req[r].job /\ Finishing(req[r]) /\ (~Held(i) \/ Accepted(i)) IN
  /\ \/ mem'[i].status \in {mem[i].status, "classified", "failed", "revoked"}
     \/ mem'[i].status = "delivered" /\ delivers
  /\ \/ db'[i].status \in {mem[i].status, db[i].status, "classified", "failed", "revoked"}
     \/ db'[i].status = "delivered" /\ delivers

\* It writes no other status.
LEMMA HandlerWrites ==
  ASSUME TInv, HeldInv, NEW r \in Requests, HandlerStep(r), NEW i \in Jobs
  PROVE  HandlerStatus(r, i)
  <1> DEFINE j == req[r].job
             delivers == i = j /\ Finishing(req[r]) /\ (~Held(i) \/ Accepted(i))
  <1>0. mem \in [Jobs -> Job] /\ db \in [Jobs -> Job] /\ r \in Jobs /\ j \in Jobs
    <2>1. Active(req[r])
      BY DEF HandlerStep, OverrideEmitted, OverrideFails, SuccessorEmitted,
             OverrideRevokes, ModifyReviewed, ModifyDelivers, OverrideReplies,
             ReviewEmitted, ReviewSettles, ReviewCloses, RequestRaises, Active
    <2> QED BY <2>1 DEF TInv, TypeOK, RequestOK, Jobs
  <1>1. ASSUME NEW s, s \in {"failed", "revoked"} \/ (s = "delivered" /\ (i = j => delivers)),
               Write(j, WithStatus(j, s))
        PROVE  HandlerStatus(r, i)
    <2>1. WithStatus(j, s).status = s
      BY <1>0 DEF WithStatus, Job
    <2> QED BY <1>0, <1>1, <2>1 DEF Write, HandlerStatus
  <1>2. ASSUME NEW m \in [Jobs -> Job], Spawn(r, m),
               m = mem \/ m = [mem EXCEPT ![j].status = "failed"]
        PROVE  HandlerStatus(r, i)
    <2>1. m[i].status \in {mem[i].status, "failed"}
      BY <1>0, <1>2 DEF Job
    <2>2. NewJob("classified").status = "classified"
      BY DEF NewJob, Absent
    <2>3. mem'[i] \in {m[i], NewJob("classified")} /\ db'[i] \in {db[i], NewJob("classified")}
      BY <1>0, <1>2 DEF Spawn
    <2> QED BY <2>1, <2>2, <2>3 DEF HandlerStatus
  <1>3. CASE SuccessorEmitted(r)
    <2>1. WithStatus(r, "failed").status = "failed"
      BY <1>0 DEF WithStatus, Job
    <2>2. /\ mem'[i] \in {mem[i], WithStatus(r, "failed")}
          /\ db'[i] \in {db[i], mem[i], WithStatus(r, "failed")}
      BY <1>0, <1>3 DEF SuccessorEmitted
    <2> QED BY <2>1, <2>2 DEF HandlerStatus
  <1>4. CASE OverrideEmitted(r)
    BY <1>0, <1>2, <1>4 DEF OverrideEmitted, HandlerStatus
  <1>5. CASE OverrideFails(r)
    <2>1. [mem EXCEPT ![j].status = "failed"] \in [Jobs -> Job]
      BY <1>0, SMTT(30) DEF Job, Status, Terminal
    <2> QED BY <1>1, <1>2, <1>5, <2>1 DEF OverrideFails
  <1>6. CASE OverrideRevokes(r)
    BY <1>1, <1>6 DEF OverrideRevokes
  <1>7. CASE ModifyDelivers(r)
    <2>1. i = j => delivers
      BY <1>7 DEF ModifyDelivers, HeldInv, MayDeliver, Finishing, Active
    <2> QED BY <1>1, <1>7, <2>1 DEF ModifyDelivers
  <1>8. CASE ReviewSettles(r)
    <2>1. req[r].pc = "deliver" /\ i = j => delivers
      BY <1>8 DEF ReviewSettles, HeldInv, MayDeliver, Finishing, Active
    <2> QED BY <1>1, <1>8, <2>1 DEF ReviewSettles
  <1>9. CASE ModifyReviewed(r) \/ OverrideReplies(r) \/ ReviewEmitted(r)
             \/ ReviewCloses(r) \/ RequestRaises(r)
    BY <1>0, <1>9
       DEF ModifyReviewed, OverrideReplies, ReviewEmitted, ReviewCloses, RequestRaises,
           HandlerStatus
  <1> QED BY <1>3, <1>4, <1>5, <1>6, <1>7, <1>8, <1>9 DEF HandlerStep

\* So is a step of a handler.
LEMMA HandlerHeld ==
  ASSUME TInv, TInv', GuardInv, RunsInv, HeldInv, NEW r \in Requests, HandlerStep(r)
  PROVE  HeldInv'
  <1>1. Calm /\ SamePresence /\ SameCounts /\ Turns /\ HandlerMoves(r)
    BY HandlerCalm, CalmPresence, HandlerRuns, HandlerRequest
  <1>2. phase' = "up" /\ worker' = worker
    BY DEF HandlerStep, OverrideEmitted, OverrideFails, SuccessorEmitted,
           OverrideRevokes, ModifyReviewed, ModifyDelivers, OverrideReplies,
           ReviewEmitted, ReviewSettles, ReviewCloses, RequestRaises, Running, process
  <1>3. trail \subseteq trail' /\ \A e \in trail' \ trail : e.kind # "hold"
    <2>1. req[r].pc = "reviewed" => req[r].op # "hold"
      BY DEF TInv, RequestOK, ReviewOp, TerminalReview
    <2>2. AwaitedKind(req[r]) # "hold"
      BY <2>1 DEF AwaitedKind
    <2> QED BY <2>1, <2>2
        DEF HandlerStep, OverrideEmitted, OverrideFails, SuccessorEmitted,
            OverrideRevokes, ModifyReviewed, ModifyDelivers, OverrideReplies,
            ReviewEmitted, ReviewSettles, ReviewCloses, RequestRaises, Emit, EmitRaises, Ev
  <1>4. ASSUME NEW s \in Requests
        PROVE  /\ Finishing(req'[s]) => Finishing(req[s]) /\ req'[s].job = req[s].job
               /\ Finishing(req[s]) => /\ req[s].job \in Jobs /\ Present(req[s].job)
                                       /\ ~Early(req[s].job)
    BY <1>1 DEF Calm, KeepsRequests, KeepsRequest, Finishing, HeldInv, EarlyOK, GuardInv,
                LiveOK, TInv, RequestOK
  <1>5. ASSUME NEW i \in Jobs PROVE BesideStatus(i)
    <2>1. HandlerStatus(r, i)
      BY HandlerWrites
    <2>2. Early(i) => {mem[i].status, db[i].status} \subseteq EarlyStatus
      BY DEF HeldInv, EarlyOK
    <2>3. i = req[r].job /\ Finishing(req[r]) => Present(i) /\ ~Early(i)
      BY <1>4
    <2>4. Minted(i) => /\ ~Present(i) /\ mem[i].status = "absent" /\ db[i].status = "absent"
                       /\ mem'[i].status # "absent" /\ db'[i].status # "absent"
      BY MintedGuards DEF Present
    <2> QED BY <2>1, <2>2, <2>3, <2>4 DEF HandlerStatus, BesideStatus, EarlyStatus
  <1>6. ASSUME NEW s \in Requests PROVE (MayDeliver(req[s]))'
    <2>1. /\ \A i : (Held(i))' <=> Held(i)
          /\ \A i : Accepted(i) => (Accepted(i))'
      BY <1>3 DEF Held, Accepted
    <2>2. CASE s # r
      BY <1>1, <2>1, <2>2 DEF HandlerMoves, MayDeliver, HeldInv
    <2>3. CASE s = r
      <3>1. Active(req'[r]) => Active(req[r])
        BY <1>1 DEF Calm, KeepsRequests, KeepsRequest
      <3>2. /\ req'[r].pc = "deliver" /\ req'[r].op = "modify" => req'[r].pre
            /\ Active(req'[r]) /\ req'[r].op = "modify" /\ req'[r].pre => ~Held(req'[r].job)
        BY <1>1, <3>1 DEF HandlerMoves, HeldInv, MayDeliver
      <3>3. req'[r].pc = "deliver" /\ req'[r].op \in ReviewOp =>
              \E e \in trail' : e.job = req'[r].job /\ e.kind \in {"approve", "edit"}
        BY <1>1 DEF HandlerMoves
      <3> QED BY <2>1, <2>3, <3>2, <3>3 DEF MayDeliver, Accepted
    <2> QED BY <2>2, <2>3
  <1>7. Beside
    BY <1>2, <1>3, <1>4, <1>5, <1>6 DEF Beside
  <1> QED BY <1>1, <1>7, BesideStep

\* The worker itself: it works on one job, lets none wait, and holds at its
\* permission check only.
LEMMA WorkerShape ==
  ASSUME TInv, TInv', GuardInv, RunsInv, HeldInv, WorkerStep
  PROVE  /\ phase' = "up" /\ req' = req
         /\ \A i \in Jobs : i # worker.job => mem'[i] = mem[i] /\ db'[i] = db[i]
         /\ \A i \in Jobs : (Held(i))' => Held(i) \/ (i = worker.job /\ worker.pc = "permit")
         /\ \A i \in Jobs : Accepted(i) => (Accepted(i))'
         /\ \A i \in Jobs : (Waiting(i))' => Waiting(i)
         /\ \A i \in Jobs : (Spawning(i))' => Spawning(i)
         /\ \A i \in Jobs : db'[i] = Absent => db[i] = Absent
         /\ \A i \in Jobs : Count(mem'[i]) = 0 /\ Count(db'[i]) = 0
         /\ \A i \in Jobs : runs'[i] = runs[i] \/ runs'[i] = runs[i] + 1
  <1> USE DEF WTake, WStart, WClassify, WRefused, WPermit, WPrepare, WDispatch,
              WExecute, WExecFailed, WRespond, WHold, WAnnounce, WDeliver,
              WTeardown, WRaises
  <1>1. SamePresence /\ SameCounts /\ Turns
    BY WorkerCalm, CalmPresence, WorkerRuns
  <1>2. phase' = "up" /\ req' = req
    BY DEF WorkerStep, Running, process
  <1>3. \A i \in Jobs : i # worker.job => mem'[i] = mem[i] /\ db'[i] = db[i]
    BY SMTT(30) DEF WorkerStep, Write, TInv, TypeOK
  <1>4. worker.pc # "idle" => worker.job \in Jobs /\ Present(worker.job)
    BY DEF GuardInv, LiveOK, TInv, TypeOK
  <1>5. worker.pc = "idle" => UNCHANGED <<mem, db>>
    BY DEF WorkerStep
  <1>6. \A i \in Jobs : ~Minted(i)
    <2> SUFFICES ASSUME NEW i \in Jobs, Minted(i) PROVE FALSE
      OBVIOUS
    <2>1. ~Present(i) /\ mem'[i] # mem[i]
      <3>1. ~Present(i) /\ mem[i].status = "absent" /\ mem'[i].status # "absent"
        BY MintedGuards
      <3> QED BY <3>1
    <2> QED BY <1>3, <1>4, <1>5, <2>1
  <1>7. \A i \in Jobs : (Waiting(i))' => Waiting(i)
    BY <1>1, <1>2, <1>6 DEF Turns, Joins
  <1>8. \A e \in trail' \ trail : e.kind = "hold" => e.job = worker.job /\ worker.pc = "permit"
    <2>1. CASE WRaises
      <3>1. "hold" \in AwaitedByWorker(worker.pc) => worker.pc = "permit"
        BY DEF AwaitedByWorker
      <3> QED BY <2>1, <3>1 DEF Emit, Ev
    <2>2. CASE ~WRaises
      BY <2>2 DEF WorkerStep, Emit, Ev
    <2> QED BY <2>1, <2>2
  <1>9. trail \subseteq trail'
    BY DEF WorkerStep, Emit
  <1>10. /\ \A i \in Jobs : (Held(i))' => Held(i) \/ (i = worker.job /\ worker.pc = "permit")
         /\ \A i \in Jobs : Accepted(i) => (Accepted(i))'
    BY <1>8, <1>9 DEF Held, Accepted
  <1>11. \A i \in Jobs : (Spawning(i))' => Spawning(i)
    BY <1>2 DEF Spawning
  <1>12. \A i \in Jobs : db'[i] = Absent => db[i] = Absent
    BY <1>1, <1>6 DEF SamePresence
  <1>13. \A i \in Jobs : Count(mem'[i]) = 0 /\ Count(db'[i]) = 0
    BY <1>1, <1>6 DEF SameCounts, HeldInv, FirstRun
  <1>14. \A i \in Jobs : runs'[i] = runs[i] \/ runs'[i] = runs[i] + 1
    BY <1>1 DEF Turns
  <1> QED BY <1>2, <1>3, <1>7, <1>10, <1>11, <1>12, <1>13, <1>14

\* A job whose pipeline has started neither waits nor is a successor to be.
LEMMA StartedOnce ==
  ASSUME TInv, GuardInv, RunsInv, HeldInv, worker.pc \notin {"idle", "gate"}
  PROVE  ~Waiting(worker.job) /\ ~Spawning(worker.job) /\ db[worker.job] # Absent
  <1> DEFINE j == worker.job
  <1>1. j \in Jobs /\ runs[j] \in Nat /\ runs[j] > 0 /\ Present(j)
    BY DEF TInv, TypeOK, HeldInv, FirstRun, GuardInv, LiveOK
  <1>2. runs[j] + Due(j) <= 1 /\ Due(j) \in {0, 1}
    BY <1>1 DEF RunsInv, StartsOK, HeldInv, FirstRun, Due
  <1>3. Due(j) = 0
    BY <1>1, <1>2
  <1>4. ~Waiting(j)
    BY <1>3 DEF Due
  <1>5. ~Spawning(j)
    BY <1>1 DEF Spawning, RunsInv, SpawnedOK
  <1> QED BY <1>1, <1>4, <1>5, AbsentStatus DEF GuardInv, WrittenThrough

\* The conditions of the invariant on the handlers survive what the worker does,
\* since none of theirs is being worked on.
LEMMA WorkerBeside ==
  ASSUME TInv, TInv', GuardInv, RunsInv, HeldInv, WorkerStep,
         \A i \in Jobs : (Early(i))' => Early(i)
  PROVE  /\ \A r \in Requests : Finishing(req'[r]) => ~(Early(req[r].job))'
         /\ \A r \in Requests : (MayDeliver(req[r]))'
  <1> SUFFICES ASSUME NEW r \in Requests
               PROVE  /\ Finishing(req'[r]) => ~(Early(req[r].job))'
                      /\ (MayDeliver(req[r]))'
    OBVIOUS
  <1>1. req'[r] = req[r] /\ (Active(req[r]) => req[r].job \in Jobs)
    BY WorkerShape DEF TInv, RequestOK
  <1>2. Finishing(req[r]) => ~Early(req[r].job)
    BY DEF HeldInv, EarlyOK
  <1>3. MayDeliver(req[r])
    BY DEF HeldInv
  <1>4. worker.pc = "permit" => Early(worker.job)
    BY DEF Early, Working, WorkingPc
  <1>5. Finishing(req[r]) /\ ~Held(req[r].job) =>
          \A i \in Jobs : i = req[r].job => ~(Held(i))'
    BY <1>2, <1>4, WorkerShape
  <1>6. Accepted(req[r].job) /\ Active(req[r]) =>
          \A i \in Jobs : i = req[r].job => (Accepted(i))'
    BY WorkerShape
  <1>7. Finishing(req[r]) => \A i \in Jobs : i = req[r].job => ~(Early(i))'
    BY <1>2
  <1> QED BY <1>1, <1>3, <1>5, <1>6, <1>7
          DEF MayDeliver, Finishing, Active, Held, Accepted, Early, Waiting, Spawning, Working

\* Taking a job and starting it.
LEMMA StartHeld ==
  ASSUME TInv, TInv', GuardInv, RunsInv, HeldInv, WTake \/ WStart PROVE HeldInv'
  <1>0. /\ worker \in [pc: WorkerPc, job: Jobs \cup {NoJob}, hold: BOOLEAN]
        /\ worker.pc # "idle" => worker.job \in Jobs
        /\ runs \in [Jobs -> Nat] /\ db \in [Jobs -> Job] /\ mem \in [Jobs -> Job]
    BY DEF TInv, TypeOK
  <1>1. WorkerStep
    BY DEF WorkerStep
  <1>2. /\ mem' = mem /\ \A i \in Jobs : db'[i] \in {db[i], mem[i]}
        /\ \A i \in Jobs : (Held(i))' <=> Held(i)
        /\ \A i \in Jobs : (Accepted(i))' <=> Accepted(i)
    BY <1>0 DEF WTake, WStart, Held, Accepted
  <1>3. \/ worker.pc = "idle" /\ worker'.pc = "gate"
        \/ /\ worker.pc = "gate" /\ worker'.pc \in {"permit", "unroutable", "classify"}
           /\ worker'.job = worker.job
           /\ \A i \in Jobs : i = worker.job => runs'[i] = runs[i] + 1
    BY <1>0 DEF WTake, WStart, Routed, WGoto
  <1>4. ASSUME NEW i \in Jobs, (Working(i))' PROVE Waiting(i) /\ worker.job = i
    BY <1>3, <1>4 DEF Working, WorkingPc, Waiting
  <1>5. ASSUME NEW i \in Jobs, (Early(i))' PROVE Early(i)
    BY <1>1, <1>4, <1>5, WorkerShape DEF Early
  <1>6. FirstRun'
    <2>1. worker'.pc \notin {"idle", "gate"} => \A i \in Jobs : i = worker.job => runs'[i] > 0
      BY <1>0, <1>3
    <2>2. worker'.pc \notin {"idle", "gate"} => runs'[worker'.job] > 0
      BY <1>0, <1>3, <2>1
    <2> QED BY <1>1, <2>2, WorkerShape DEF FirstRun
  <1>7. EarlyOK'
    <2>1. \A i \in Jobs : (Early(i))' => {mem'[i].status, db'[i].status} \subseteq EarlyStatus
      BY <1>2, <1>5 DEF HeldInv, EarlyOK
    <2> QED BY <1>1, <1>5, <2>1, WorkerBeside DEF EarlyOK
  <1>8. HoldOK'
    <2>1. ASSUME NEW i \in Jobs,
                 \/ db'[i] = Absent \/ (Waiting(i))' \/ (Spawning(i))'
                 \/ worker'.job = i
                    /\ worker'.pc \in {"classify", "unroutable", "permit", "deliver"}
          PROVE  ~Held(i)
      <3>1. db[i] = Absent \/ Waiting(i) \/ Spawning(i)
        BY <1>1, <1>3, <2>1, WorkerShape DEF Waiting
      <3> QED BY <3>1 DEF HeldInv, HoldOK
    <2>2. \A i \in Jobs : i = worker'.job /\ worker'.pc \in WorkingPc => ~(Held(i))'
      BY <1>2, <1>3, <2>1 DEF WorkingPc
    <2>3. worker'.pc \in WorkingPc => ~(Held(worker.job))'
      BY <1>0, <1>3, <2>2 DEF Held, WorkingPc
    <2>4. \A i \in Jobs : mem'[i].status = "response_received" => ~(Held(i))'
      BY <1>2, <1>3 DEF HeldInv, HoldOK
    <2> QED BY <1>2, <2>1, <2>3, <2>4 DEF HoldOK
  <1>9. HeldNeedsReview'
    <2> SUFFICES ASSUME NEW i \in Jobs, "delivered" \in {mem'[i].status, db'[i].status},
                        (Held(i))'
                 PROVE  (Accepted(i))'
      BY DEF HeldNeedsReview, EventsOf, Held, Accepted
    <2>1. "delivered" \in {mem[i].status, db[i].status}
      BY <1>2
    <2> QED BY <1>2, <2>1 DEF HeldInv, HeldNeedsReview, EventsOf, Held, Accepted
  <1> QED BY <1>1, <1>5, <1>6, <1>7, <1>8, <1>9, WorkerBeside DEF HeldInv

\* How the pipeline goes on after its start, and which status it writes where.
PipelineMove ==
  LET pc == worker.pc
      next == worker'.pc
  IN
  /\ next # "gate" /\ (next # "idle" => worker'.job = worker.job)
  /\ next \in WorkingPc => pc \in WorkingPc
  /\ next \in {"classify", "unroutable", "permit"} => pc = "classify"
  /\ next \in WorkingPc \ {"unroutable", "permit"} =>
       IF pc = "permit"
       THEN worker'.hold \/ \A e \in trail' \ trail : e.kind # "hold"
       ELSE worker'.hold = worker.hold
  /\ next \in {"hold", "deliver"} => pc = "respond" /\ (next = "deliver" <=> ~worker.hold)

PipelineStatus(j) ==
  LET pc == worker.pc
      s == mem'[j].status
  IN
  \/ mem'[j] = mem[j] /\ db'[j] = db[j] /\ pc # "hold"
  \/ pc = "hold" /\ mem[j].status = "delivered"
     /\ mem'[j] = mem[j] /\ db'[j] = db[j]
  \/ /\ s = db'[j].status
     /\ \/ s \in {"classified", "failed", "dispatched", "proposal_ready"}
        \/ s = "response_received" /\ pc = "respond" /\ worker'.pc \in {"hold", "deliver"}
        \/ s = "delivered" /\ pc = "deliver"
     /\ worker'.pc \in WorkingPc => s # "proposal_ready"

\* Every step of a started pipeline.
LEMMA PipelineShape ==
  ASSUME TInv, HeldInv, WorkerStep, ~WTake, ~WStart
  PROVE  worker.pc \notin {"idle", "gate"} /\ PipelineMove
         /\ \A j \in Jobs : j = worker.job => PipelineStatus(j)
  <1> USE DEF WClassify, WRefused, WPermit, WPrepare, WDispatch,
              WExecute, WExecFailed, WRespond, WHold, WAnnounce, WDeliver,
              WTeardown, WRaises
  <1>0. /\ worker \in [pc: WorkerPc, job: Jobs \cup {NoJob}, hold: BOOLEAN]
        /\ db \in [Jobs -> Job] /\ mem \in [Jobs -> Job]
    BY DEF TInv, TypeOK
  <1>1. worker.pc \notin {"idle", "gate"}
    BY DEF WorkerStep
  <1>2. PipelineMove
    <2>1. ASSUME NEW pc, WGoto(pc)
          PROVE  worker'.pc = pc /\ worker'.job = worker.job /\ worker'.hold = worker.hold
      BY <1>0, <2>1 DEF WGoto
    <2>2. CASE worker' = NoWork
      BY <2>2 DEF NoWork, PipelineMove, WorkingPc
    <2>3. CASE WPermit
      <3>1. PICK k \in {"blocked", "hold", "allowed"} :
              /\ Emit(worker.job, k, System)
              /\ worker' = [worker EXCEPT !.pc = IF k = "blocked" THEN "blocked" ELSE "prepare",
                                          !.hold = (k = "hold")]
        BY <2>3
      <3>2. worker'.pc \in {"blocked", "prepare"} /\ worker'.job = worker.job
        BY <1>0, <3>1
      <3>3. worker'.hold = (k = "hold")
        BY <1>0, <3>1
      <3>4. worker'.hold \/ \A e \in trail' \ trail : e.kind # "hold"
        <4>1. CASE k = "hold"
          <5>1. (k = "hold") = TRUE
            BY <4>1
          <5> QED BY <3>3, <5>1, Zenon
        <4>2. CASE k # "hold"
          BY <3>1, <4>2 DEF Emit, Ev
        <4> QED BY <4>1, <4>2
      <3> QED BY <2>3, <3>2, <3>4 DEF PipelineMove, WorkingPc
    <2>4. CASE WClassify
      BY <2>1, <2>4 DEF PipelineMove, WorkingPc, Routed
    <2>5. CASE WPrepare \/ WDispatch \/ WExecute \/ WExecFailed
      BY <2>1, <2>2, <2>5 DEF PipelineMove, WorkingPc
    <2>6. CASE WRespond
      BY <2>1, <2>6 DEF PipelineMove, WorkingPc, AfterResponse
    <2>7. CASE WHold \/ WAnnounce \/ WDeliver
      BY <2>1, <2>7 DEF PipelineMove, WorkingPc
    <2> QED BY <2>2, <2>3, <2>4, <2>5, <2>6, <2>7 DEF WorkerStep
  <1>3. ASSUME NEW j \in Jobs, j = worker.job PROVE PipelineStatus(j)
    <2>1. ASSUME NEW s, Write(j, WithStatus(j, s))
          PROVE  mem'[j].status = s /\ db'[j].status = s
      BY <1>0, <2>1 DEF Write, WithStatus, Job
    <2>2. CASE WClassify \/ WRefused \/ WDispatch \/ WExecFailed
      BY <1>3, <2>1, <2>2 DEF PipelineStatus
    <2>3. CASE WPermit \/ WExecute \/ WAnnounce \/ WTeardown
      BY <2>3 DEF PipelineStatus
    <2>4. CASE WPrepare
      BY <1>3, <2>1, <2>4 DEF PipelineStatus
    <2>5. CASE WRespond
      <3>1. worker'.pc \in {"hold", "deliver"}
        BY <1>0, <2>5 DEF WGoto, AfterResponse
      <3> QED BY <1>3, <2>1, <2>5, <3>1 DEF PipelineStatus, WorkingPc
    <2>6. CASE WHold
      <3>1. worker'.pc = "announce"
        BY <1>0, <2>6 DEF WGoto
      <3> QED BY <1>3, <2>1, <2>6, <3>1 DEF PipelineStatus, WorkingPc
    <2>7. CASE WDeliver
      BY <1>3, <2>1, <2>7 DEF PipelineStatus
    <2>8. CASE WRaises
      BY <1>3, <2>1, <2>8 DEF PipelineStatus
    <2> QED BY <2>2, <2>3, <2>4, <2>5, <2>6, <2>7, <2>8 DEF WorkerStep
  <1> QED BY <1>1, <1>2, <1>3

\* A started pipeline.
LEMMA PipelineHeld ==
  ASSUME TInv, TInv', GuardInv, RunsInv, HeldInv, WorkerStep, ~WTake, ~WStart PROVE HeldInv'
  <1>0. worker.job \in Jobs /\ worker.pc \notin {"idle", "gate"}
    BY PipelineShape DEF TInv, TypeOK
  <1>1. PICK j \in Jobs : j = worker.job
    BY <1>0
  <1>2. PipelineMove /\ PipelineStatus(j)
    BY <1>1, PipelineShape
  <1>3. ~Waiting(j) /\ ~Spawning(j) /\ db[j] # Absent /\ ~(Waiting(j))' /\ ~(Spawning(j))'
    BY <1>0, <1>1, StartedOnce, WorkerShape
  <1>4. ASSUME NEW i \in Jobs, (Early(i))' PROVE Early(i)
    <2>1. (Working(i))' => Working(i)
      BY <1>2 DEF Working, PipelineMove, WorkingPc
    <2> QED BY <1>4, <2>1, WorkerShape DEF Early
  <1>5. worker.pc \in WorkingPc => {mem[j].status, db[j].status} \subseteq EarlyStatus
    BY <1>1 DEF HeldInv, EarlyOK, Early, Working
  <1>6. FirstRun'
    <2>1. runs[j] > 0 /\ runs[j] \in Nat /\ runs'[j] \in Nat
      BY <1>0, <1>1 DEF HeldInv, FirstRun, TInv, TypeOK
    <2>2. runs'[j] > 0
      BY <2>1, WorkerShape
    <2>3. worker'.pc # "idle" => worker'.job = j
      BY <1>1, <1>2 DEF PipelineMove
    <2> QED BY <2>2, <2>3, WorkerShape DEF FirstRun
  <1>7. EarlyOK'
    <2>1. ASSUME NEW i \in Jobs, (Early(i))'
          PROVE  {mem'[i].status, db'[i].status} \subseteq EarlyStatus
      <3>1. CASE i # j
        BY <1>1, <1>4, <2>1, <3>1, WorkerShape DEF HeldInv, EarlyOK
      <3>2. CASE i = j
        <4>1. worker'.pc \in WorkingPc /\ worker.pc \in WorkingPc
          BY <1>2, <1>3, <2>1, <3>2 DEF Early, Working, PipelineMove
        <4> QED BY <1>2, <1>5, <3>2, <4>1 DEF PipelineStatus, EarlyStatus, WorkingPc
      <3> QED BY <3>1, <3>2
    <2> QED BY <1>4, <2>1, WorkerBeside DEF EarlyOK
  <1>8. HoldOK'
    <2>1. ASSUME NEW i \in Jobs,
                 \/ db'[i] = Absent \/ (Waiting(i))' \/ (Spawning(i))'
                 \/ worker'.job = i
                    /\ worker'.pc \in {"classify", "unroutable", "permit", "deliver"}
          PROVE  ~(Held(i))'
      <3>1. CASE db'[i] = Absent \/ (Waiting(i))' \/ (Spawning(i))'
        <4>1. ~Held(i) /\ i # j
          BY <1>3, <3>1, WorkerShape DEF HeldInv, HoldOK
        <4> QED BY <1>1, <4>1, WorkerShape
      <3>2. CASE worker'.job = i
                 /\ worker'.pc \in {"classify", "unroutable", "permit", "deliver"}
        <4>1. i = j /\ worker.pc \in {"classify", "respond"}
              /\ (worker.pc = "respond" => ~worker.hold)
          BY <1>1, <1>2, <3>2 DEF PipelineMove
        <4>2. ~Held(j)
          BY <1>1, <4>1 DEF HeldInv, HoldOK, WorkingPc
        <4> QED BY <1>1, <4>1, <4>2, WorkerShape
      <3> QED BY <2>1, <3>1, <3>2
    <2>2. worker'.pc \in WorkingPc /\ (Held(worker.job))' => worker'.hold
      <3> SUFFICES ASSUME worker'.pc \in WorkingPc, (Held(worker.job))' PROVE worker'.hold
        OBVIOUS
      <3>1. worker'.job = j /\ (Held(j))'
        BY <1>1, <1>2 DEF PipelineMove, WorkingPc, Held
      <3>2. worker'.pc \notin {"unroutable", "permit"}
        BY <2>1, <3>1
      <3>3. worker.pc \in WorkingPc
        BY <1>2 DEF PipelineMove
      <3>4. CASE worker.pc = "permit"
        <4>1. ~Held(j)
          BY <1>1, <3>4 DEF HeldInv, HoldOK
        <4>2. \E e \in trail' \ trail : e.kind = "hold"
          BY <3>1, <4>1 DEF Held
        <4> QED BY <1>2, <3>2, <3>4, <4>2 DEF PipelineMove
      <3>5. CASE worker.pc # "permit"
        <4>1. Held(j)
          BY <1>1, <3>1, <3>5, WorkerShape
        <4>2. worker.hold /\ worker'.hold = worker.hold
          BY <1>1, <1>2, <3>2, <3>3, <3>5, <4>1 DEF HeldInv, HoldOK, PipelineMove
        <4> QED BY <4>2
      <3> QED BY <3>4, <3>5
    <2>3. ASSUME NEW i \in Jobs, mem'[i].status = "response_received", (Held(i))'
          PROVE  worker'.pc = "hold" /\ worker'.job = i
      <3>1. CASE i # j
        <4>1. mem[i].status = "response_received" /\ Held(i)
          BY <1>1, <2>3, <3>1, WorkerShape
        <4> QED BY <1>1, <3>1, <4>1 DEF HeldInv, HoldOK
      <3>2. CASE i = j /\ mem'[j] = mem[j]
        <4>1. worker.pc # "hold"
          BY <1>2, <2>3, <3>2 DEF PipelineStatus
        <4>2. worker.pc # "permit"
          BY <1>5, <2>3, <3>2 DEF EarlyStatus, WorkingPc
        <4>3. Held(j)
          BY <1>1, <2>3, <3>2, <4>2, WorkerShape
        <4> QED BY <2>3, <3>2, <4>1, <4>3 DEF HeldInv, HoldOK
      <3>3. CASE i = j /\ mem'[j] # mem[j]
        <4>1. worker.pc = "respond" /\ worker'.pc \in {"hold", "deliver"} /\ worker'.job = j
          BY <1>1, <1>2, <2>3, <3>3 DEF PipelineStatus, PipelineMove
        <4> QED BY <2>1, <2>3, <3>3, <4>1
      <3> QED BY <3>1, <3>2, <3>3
    <2>4. worker'.pc \in WorkingPc => worker'.job = worker.job
      BY <1>2 DEF PipelineMove, WorkingPc
    <2> QED BY <2>1, <2>2, <2>3, <2>4 DEF HoldOK, Held
  <1>9. HeldNeedsReview'
    <2> SUFFICES ASSUME NEW i \in Jobs, "delivered" \in {mem'[i].status, db'[i].status},
                        (Held(i))'
                 PROVE  (Accepted(i))'
      BY DEF HeldNeedsReview, EventsOf, Held, Accepted
    <2>1. Held(i) /\ "delivered" \in {mem[i].status, db[i].status} => (Accepted(i))'
      <3>1. Held(i) /\ "delivered" \in {mem[i].status, db[i].status} => Accepted(i)
        BY DEF HeldInv, HeldNeedsReview, EventsOf, Held, Accepted
      <3> QED BY <3>1, WorkerShape
    <2>2. CASE i # j
      BY <1>1, <2>1, <2>2, WorkerShape
    <2>3. CASE i = j /\ worker.pc = "deliver"
      <3>1. ~Held(j)
        BY <1>1, <2>3 DEF HeldInv, HoldOK
      <3> QED BY <1>1, <2>3, <3>1, WorkerShape
    <2>4. CASE i = j /\ worker.pc # "deliver"
      <3>1. "delivered" \in {mem[j].status, db[j].status}
        BY <1>2, <2>4 DEF PipelineStatus
      <3>2. worker.pc # "permit"
        BY <1>5, <3>1 DEF EarlyStatus, WorkingPc
      <3> QED BY <1>1, <2>1, <2>4, <3>1, <3>2, WorkerShape
    <2> QED BY <2>2, <2>3, <2>4
  <1> QED BY <1>4, <1>6, <1>7, <1>8, <1>9, WorkerBeside DEF HeldInv

\* Until the first crash, every step keeps the invariant.
LEMMA NextHeld ==
  ASSUME TInv, TInv', GuardInv, RunsInv, HeldInv, [Next]_vars, crashes' = crashes
  PROVE  HeldInv'
  <1>1. CASE UNCHANGED vars
    BY <1>1 DEF vars, HeldInv, FirstRun, EarlyOK, HoldOK, HeldNeedsReview, MayDeliver, Early,
                Waiting, Spawning, Working, Held, Accepted, EventsOf
  <1>2. CASE WorkerStep
    BY <1>2, StartHeld, PipelineHeld
  <1>3. ~Crash
    <2>1. crashes \in Nat
      BY DEF TInv, TypeOK
    <2> QED BY <2>1 DEF Crash
  <1>4. ~Startup /\ \A j \in Jobs : ~RecoveryStep(j)
    BY DEF HeldInv, FirstRun, Startup, Boot, BeginSaving, Open, RecoveryStep, RecoverRequeue,
           RecoverExhausted, RecoverSkip, RecoverDeliver, RecoverRaises, SaveJob, Recovering
  <1> QED BY <1>1, <1>2, <1>3, <1>4, SubmitHeld, ArrivalHeld, HandlerHeld DEF Next, Quiescent

\* A crash is counted, once and for all.
LEMMA CrashCounted ==
  ASSUME TInv, [Next]_vars PROVE crashes' = 0 => crashes = 0
  <1>0. crashes \in Nat
    BY DEF TInv, TypeOK
  <1>1. CASE (\E j \in Jobs : Submit(j)) \/ Quiescent \/ UNCHANGED vars
    BY <1>1 DEF Submit, Quiescent, vars, process
  <1>2. CASE \E r \in Requests : RequestArrives(r)
    BY <1>2 DEF RequestArrives, OverrideNoOp, BeginOverride, BeginModify,
                RefuseOverride, ReviewReplay, ReviewRefused, BeginReview, process
  <1>3. CASE \E r \in Requests : HandlerStep(r)
    BY <1>3 DEF HandlerStep, OverrideEmitted, OverrideFails, SuccessorEmitted,
                OverrideRevokes, ModifyReviewed, ModifyDelivers, OverrideReplies,
                ReviewEmitted, ReviewSettles, ReviewCloses, RequestRaises, process
  <1>4. CASE WorkerStep
    BY <1>4 DEF WorkerStep, WTake, WStart, WClassify, WRefused, WPermit, WPrepare,
                WDispatch, WExecute, WExecFailed, WRespond, WHold, WAnnounce, WDeliver,
                WTeardown, WRaises, process
  <1>5. CASE Crash \/ Startup \/ \E j \in Jobs : RecoveryStep(j)
    BY <1>0, <1>5 DEF Crash, Startup, Boot, BeginSaving, Open, RecoveryStep, RecoverRequeue,
                RecoverExhausted, RecoverSkip, RecoverDeliver, RecoverRaises, SaveJob
  <1> QED BY <1>1, <1>2, <1>3, <1>4, <1>5 DEF Next

-----------------------------------------------------------------------------
\* A result the permission check held is delivered after an approve or edit
\* review of it and not before, as long as the process did not die: the hold is
\* a local variable of the pipeline, and recovery delivers what it finds.
THEOREM HeldUntilReviewed == Spec => [](crashes = 0 => HeldNeedsReview)
  <1> DEFINE I == RunsInv /\ (crashes = 0 => HeldInv)
  <1>1. Init => I
    BY InitRuns, InitHeld
  <1>2. TInv /\ TInv' /\ GuardInv /\ I /\ [Next]_vars => I'
    BY NextRuns, NextHeld, CrashCounted
  <1>3. I => (crashes = 0 => HeldNeedsReview)
    BY DEF HeldInv
  <1> HIDE DEF I
  <1> QED BY <1>1, <1>2, <1>3, GuardsInvariant, PTL DEF Spec
=============================================================================
