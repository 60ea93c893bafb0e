--------------------------- MODULE JobManagerProofs ---------------------------
(***************************************************************************)
(* Theorems about JobManager, for any number of jobs, requests, keys,      *)
(* crashes and failures.                                                   *)
(***************************************************************************)
EXTENDS JobManager, TLAPS

\* A handler that is between two of its awaits.
Active(q) == q.pc \notin {"new", "done"}

(***************************************************************************)
(* Which request may be at which program point; without it an event of a   *)
(* handler would not have a kind.                                          *)
(***************************************************************************)
RequestOK ==
  \A r \in Requests :
    /\ Active(req[r]) => req[r].job \in Jobs /\ req[r].reply = "none"
    /\ req[r].pc = "override" => req[r].op \in ReservingOp \cup {"modify"}
    /\ req[r].pc = "reviewed" => req[r].op \in ReviewOp \cup {"modify"}
    /\ req[r].pc = "close" => req[r].op = "decline_to_act"

TInv == TypeOK /\ RequestOK

ReqType == req \in [Requests -> Request]

\* The empty system has the declared types.
LEMMA InitType == Init => TInv
  BY ConstantsAssumption DEF Init, TInv, TypeOK, RequestOK, Active, Absent, Job, Status,
     PreDelivery, Terminal, NoWork, FreshRequest, Request, WorkerPc, RequestPc, Reply,
     Kind, Event, NoOutcome, Jobs

-----------------------------------------------------------------------------
(* What the helpers return.                                                *)

\* A job as submit_job and the redirects mint it.
LEMMA NewJobType == \A s \in Status : NewJob(s) \in Job
  BY DEF NewJob, Absent, Job, OverrideOp, TerminalReview

\* A write to memory and table.
LEMMA WriteType ==
  ASSUME mem \in [Jobs -> Job], db \in [Jobs -> Job],
         NEW j \in Jobs, NEW rec \in Job, Write(j, rec)
  PROVE  mem' \in [Jobs -> Job] /\ db' \in [Jobs -> Job]
  BY DEF Write

\* A change of status.
LEMMA WithStatusType ==
  ASSUME mem \in [Jobs -> Job], NEW j \in Jobs, NEW s \in Status
  PROVE  WithStatus(j, s) \in Job
  BY DEF WithStatus, Job

\* An event that is acknowledged.
LEMMA EmitType ==
  ASSUME trail \subseteq Event, NEW j \in Jobs, NEW k \in Kind,
         NEW by \in Requests \cup {System}, Emit(j, k, by)
  PROVE  trail' \subseteq Event
  BY DEF Emit, Ev, Event

\* An event whose emit raises, in the log or not.
LEMMA EmitRaisesType ==
  ASSUME trail \subseteq Event, NEW j \in Jobs, NEW k \in Kind,
         NEW by \in Requests \cup {System}, EmitRaises(j, k, by), failures \in Nat
  PROVE  trail' \subseteq Event /\ failures' \in Nat
  BY DEF EmitRaises, Failure, Ev, Event

\* queue.put_nowait.
LEMMA EnqueueType ==
  ASSUME queue \in Seq(Jobs), NEW j \in Jobs, Enqueue(j)
  PROVE  queue' \in Seq(Jobs)
  BY DEF Enqueue

OutcomeType == outcome \in [Keys -> {NoOutcome} \cup (Jobs \X ReviewOp)]

\* A job as recover_jobs leaves it.
LEMMA RecoveredType == ASSUME NEW m \in Job PROVE Recovered(m) \in Job
  <1> DEFINE s == IF m.status = "dispatched" THEN "classified" ELSE m.status
  <1>1. s \in Status \cup {"absent"} /\ m.recovery_dispatch_count + 1 \in Nat
    BY DEF Job, Status, PreDelivery
  <1>2. Recovered(m) = [m EXCEPT !.status = s,
                                 !.recovery_dispatch_count = m.recovery_dispatch_count + 1]
    BY DEF Recovered, Job
  <1> HIDE DEF s
  <1> QED BY <1>1, <1>2 DEF Job

\* The stored outcome of an idempotent review.
LEMMA StoreType ==
  ASSUME OutcomeType, NEW r \in Requests, req[r].job \in Jobs, req[r].op \in ReviewOp,
         StoreOutcome(r)
  PROVE  OutcomeType'
  BY DEF OutcomeType, StoreOutcome

\* A request that enters its handler, or is answered at once.
LEMMA ArriveType ==
  ASSUME TInv, NEW r \in Requests, NEW j \in Jobs,
         NEW op \in OverrideOp \cup ReviewOp, NEW k \in Keys \cup {NoKey},
         NEW pc \in {"override", "reviewed", "done"}, NEW reply \in Reply,
         Arrive(r, op, j, k, pc, reply),
         pc # "done" => reply = "none",
         pc = "override" => op \in ReservingOp \cup {"modify"},
         pc = "reviewed" => op \in ReviewOp
  PROVE  ReqType' /\ RequestOK'
  <1> DEFINE q == [pc |-> pc, op |-> op, job |-> j, key |-> k, reply |-> reply,
                   pre |-> mem[j].status \in PreDelivery]
  <1>1. q \in Request /\ q.pc = pc /\ q.op = op /\ q.job = j /\ q.reply = reply
    BY DEF Request, RequestPc
  <1>2. req' = [req EXCEPT ![r] = q]
    BY DEF Arrive
  <1> HIDE DEF q
  <1> QED BY <1>1, <1>2 DEF TInv, TypeOK, RequestOK, Active, ReqType

-----------------------------------------------------------------------------
(* Every action keeps the types.                                           *)

\* submit_job keeps the types.
LEMMA SubmitType == ASSUME TInv, NEW j \in Jobs, Submit(j) PROVE TInv'
  <1>1. trail' \subseteq Event
    BY EmitType DEF Submit, TInv, TypeOK, Kind
  <1>2. mem' \in [Jobs -> Job] /\ db' \in [Jobs -> Job]
    BY NewJobType, WriteType DEF Submit, TInv, TypeOK, Status, PreDelivery, Terminal
  <1>3. queue' \in Seq(Jobs)
    BY EnqueueType DEF Submit, TInv, TypeOK
  <1> QED BY <1>1, <1>2, <1>3 DEF Submit, TInv, TypeOK, RequestOK, process, Active

\* Every review and override keeps them on arrival.
LEMMA ArrivalType == ASSUME TInv, NEW r \in Requests, RequestArrives(r) PROVE TInv'
  <1> PICK j \in Jobs :
        \/ \E op \in OverrideOp : OverrideNoOp(r, j, op)
        \/ \E op \in OverrideOp : BeginOverride(r, j, op)
        \/ BeginModify(r, j)
        \/ \E op \in OverrideOp : RefuseOverride(r, j, op)
        \/ \E op \in ReviewOp, k \in Keys : ReviewReplay(r, j, op, k)
        \/ \E op \in ReviewOp, k \in Keys : ReviewRefused(r, j, op, k)
        \/ \E op \in ReviewOp, k \in Keys : BeginReview(r, j, op, k)
    BY DEF RequestArrives
  <1> USE DEF ReqType
  <1>1. ASSUME NEW op \in OverrideOp, OverrideNoOp(r, j, op) PROVE TInv'
    <2>1. ReqType' /\ RequestOK'
      BY <1>1, ArriveType DEF OverrideNoOp, Reply
    <2> QED BY <1>1, <2>1 DEF OverrideNoOp, TInv, TypeOK, process
  <1>2. ASSUME NEW op \in OverrideOp, op \in ReservingOp \cup {"modify"},
               Arrive(r, op, j, NoKey, "override", "none"), Reserve(j, op),
               UNCHANGED <<process, queue, worker, ctx, outcome, trail, runs>>
        PROVE TInv'
    <2>1. ReqType' /\ RequestOK'
      BY <1>2, ArriveType DEF Reply
    <2>2. [mem[j] EXCEPT !.override_type = op] \in Job
      <3>1. mem[j] \in Job
        BY DEF TInv, TypeOK
      <3> QED BY <3>1 DEF Job
    <2>3. mem' \in [Jobs -> Job] /\ db' \in [Jobs -> Job]
      BY <1>2, <2>2, WriteType DEF Reserve, TInv, TypeOK
    <2> QED BY <1>2, <2>1, <2>3 DEF TInv, TypeOK, process
  <1>3. ASSUME NEW op \in OverrideOp, RefuseOverride(r, j, op) PROVE TInv'
    <2>1. ReqType' /\ RequestOK'
      BY <1>3, ArriveType DEF RefuseOverride, Reply
    <2>2. [mem[j] EXCEPT !.override_type = op] \in Job
      <3>1. mem[j] \in Job
        BY DEF TInv, TypeOK
      <3> QED BY <3>1 DEF Job
    <2>3. mem' \in [Jobs -> Job] /\ db' \in [Jobs -> Job]
      BY <1>3, <2>2, WriteType DEF RefuseOverride, Reserve, TInv, TypeOK
    <2> QED BY <1>3, <2>1, <2>3 DEF RefuseOverride, TInv, TypeOK, process
  <1>4. ASSUME NEW op \in ReviewOp, NEW k \in Keys,
               ReviewReplay(r, j, op, k) \/ ReviewRefused(r, j, op, k)
        PROVE TInv'
    <2>1. ReqType' /\ RequestOK'
      BY <1>4, ArriveType DEF ReviewReplay, ReviewRefused, Reply
    <2> QED BY <1>4, <2>1 DEF ReviewReplay, ReviewRefused, TInv, TypeOK, process
  <1>5. ASSUME NEW op \in ReviewOp, NEW k \in Keys, BeginReview(r, j, op, k)
        PROVE TInv'
    <2>1. ReqType' /\ RequestOK'
      BY <1>5, ArriveType DEF BeginReview, Reply
    <2>2. op # "defer" => Decide(mem[j], op) \in Job
      <3>1. mem[j] \in Job
        BY DEF TInv, TypeOK
      <3> QED BY <3>1 DEF Job, Decide, ReviewOp, Status
    <2>3. mem' \in [Jobs -> Job] /\ db' \in [Jobs -> Job]
      BY <1>5, <2>2, WriteType DEF BeginReview, TInv, TypeOK
    <2> QED BY <1>5, <2>1, <2>3 DEF BeginReview, TInv, TypeOK, process
  <1> QED BY <1>1, <1>2, <1>3, <1>4, <1>5 DEF BeginOverride, BeginModify, OverrideOp

\* A handler that moves on to its next await.
LEMMA GotoType ==
  ASSUME TInv, NEW r \in Requests, NEW pc \in RequestPc \ {"override"}, Goto(r, pc),
         pc = "reviewed" => req[r].op = "modify",
         pc = "close" => req[r].op = "decline_to_act",
         Active(req[r])
  PROVE  ReqType' /\ RequestOK'
  <1> DEFINE q == [req[r] EXCEPT !.pc = pc]
  <1>1. /\ q \in Request /\ q.pc = pc /\ q.op = req[r].op
        /\ q.job = req[r].job /\ q.reply = req[r].reply
    <2>1. req[r] \in Request
      BY DEF TInv, TypeOK
    <2> QED BY <2>1 DEF Request
  <1>2. req' = [req EXCEPT ![r] = q]
    BY DEF Goto
  <1> HIDE DEF q
  <1> QED BY <1>1, <1>2 DEF TInv, TypeOK, RequestOK, Active, ReqType

\* An answered request is a request.
LEMMA RequestAnswered ==
  ASSUME NEW q \in Request, NEW reply \in Reply
  PROVE  LET a == [q EXCEPT !.pc = "done", !.reply = reply] IN
         /\ a \in Request
         /\ a.pc = "done" /\ a.reply = reply /\ a.op = q.op /\ a.job = q.job
  BY DEF Request, RequestPc

\* A handler that answers.
LEMMA AnswerType ==
  ASSUME TInv, NEW r \in Requests, NEW reply \in Reply, Answer(r, reply)
  PROVE  ReqType' /\ RequestOK'
  <1> DEFINE q == [req[r] EXCEPT !.pc = "done", !.reply = reply]
  <1>1. q \in Request /\ q.pc = "done"
    <2>1. req[r] \in Request
      BY DEF TInv, TypeOK
    <2> QED BY <2>1, RequestAnswered
  <1>2. req' = [req EXCEPT ![r] = q]
    BY DEF Answer
  <1> HIDE DEF q
  <1> QED BY <1>1, <1>2 DEF TInv, TypeOK, RequestOK, Active, ReqType

\* A handler that mints a successor.
LEMMA SpawnType ==
  ASSUME TInv, NEW r \in Requests, NEW m \in [Jobs -> Job], Spawn(r, m),
         Active(req[r])
  PROVE  mem' \in [Jobs -> Job] /\ db' \in [Jobs -> Job] /\ ReqType' /\ RequestOK'
  <1>1. mem' \in [Jobs -> Job] /\ db' \in [Jobs -> Job]
    <2>1. NewJob("classified") \in Job /\ r \in Jobs /\ db \in [Jobs -> Job]
      BY NewJobType DEF TInv, TypeOK, Jobs, Status, PreDelivery
    <2> QED BY <2>1 DEF Spawn
  <1>2. ReqType' /\ RequestOK'
    BY GotoType, AnswerType DEF Spawn, RequestPc, Reply
  <1> QED BY <1>1, <1>2

\* The request of a running handler names a job and has a kind.
LEMMA ActiveHandler ==
  ASSUME TInv, NEW r \in Requests, Active(req[r])
  PROVE  /\ req[r] \in Request
         /\ req[r].job \in Jobs
         /\ mem \in [Jobs -> Job] /\ db \in [Jobs -> Job]
         /\ trail \subseteq Event /\ ctx \subseteq Jobs
  BY DEF TInv, TypeOK, RequestOK

\* Every step of a handler keeps the types.
LEMMA HandlerType == ASSUME TInv, NEW r \in Requests, HandlerStep(r) PROVE TInv'
  <1> DEFINE j == req[r].job
             op == req[r].op
  <1>0. /\ Active(req[r])
        /\ req[r] \in Request /\ j \in Jobs /\ r \in Jobs
        /\ mem \in [Jobs -> Job] /\ db \in [Jobs -> Job]
        /\ trail \subseteq Event /\ ctx \subseteq Jobs
    <2>1. Active(req[r])
      BY DEF HandlerStep, OverrideEmitted, OverrideFails, SuccessorEmitted,
             OverrideRevokes, ModifyReviewed, ModifyDelivers, OverrideReplies,
             ReviewEmitted, ReviewSettles, ReviewCloses, RequestRaises, Active
    <2> QED BY <2>1, ActiveHandler DEF Jobs
  <1>1. CASE OverrideEmitted(r)
    <2> DEFINE next == AfterOverride(op, req[r].pre)
    <2>1. next \in {"fail", "revoke", "reviewed", "successor"}
          /\ (next = "reviewed" => op = "modify")
      BY DEF AfterOverride
    <2>2. trail' \subseteq Event
      BY <1>0, <1>1, EmitType DEF OverrideEmitted, Kind
    <2>3. mem' \in [Jobs -> Job] /\ db' \in [Jobs -> Job] /\ ReqType' /\ RequestOK'
      BY <1>0, <1>1, <2>1, SpawnType, GotoType DEF OverrideEmitted, RequestPc
    <2> QED BY <1>1, <2>2, <2>3 DEF OverrideEmitted, TInv, TypeOK, process, ReqType
  <1>2. CASE OverrideFails(r)
    <2>1. trail' \subseteq Event
      BY <1>0, <1>2, EmitType DEF OverrideFails, Kind
    <2>2. WithStatus(j, "failed") \in Job
          /\ [mem EXCEPT ![j].status = "failed"] \in [Jobs -> Job]
      BY <1>0, WithStatusType DEF Status, Terminal, WithStatus
    <2>3. mem' \in [Jobs -> Job] /\ db' \in [Jobs -> Job] /\ ReqType' /\ RequestOK'
      BY <1>0, <1>2, <2>2, SpawnType, GotoType, WriteType DEF OverrideFails, RequestPc
    <2> QED BY <1>0, <1>2, <2>1, <2>3
            DEF OverrideFails, PopContext, TInv, TypeOK, process, ReqType
  <1>3. CASE SuccessorEmitted(r)
    <2>1. trail' \subseteq Event
      BY <1>0, <1>3, EmitType DEF SuccessorEmitted, Kind
    <2>2. mem[r] \in Job /\ WithStatus(r, "failed") \in Job
      BY <1>0, WithStatusType DEF Status, Terminal
    <2>3. mem' \in [Jobs -> Job] /\ db' \in [Jobs -> Job]
      BY <1>0, <1>3, <2>2 DEF SuccessorEmitted
    <2>4. ReqType' /\ RequestOK'
      BY <1>0, <1>3, GotoType DEF SuccessorEmitted, RequestPc
    <2>5. queue' \in Seq(Jobs)
      BY <1>0, <1>3, EnqueueType DEF SuccessorEmitted, TInv, TypeOK
    <2> QED BY <1>0, <1>3, <2>1, <2>3, <2>4, <2>5, ZenonT(40)
            DEF SuccessorEmitted, PopContext, TInv, TypeOK, process, ReqType
  <1>4. CASE OverrideRevokes(r) \/ ModifyDelivers(r)
    <2>1. trail' \subseteq Event
      BY <1>0, <1>4, EmitType DEF OverrideRevokes, ModifyDelivers, Kind
    <2>2. mem' \in [Jobs -> Job] /\ db' \in [Jobs -> Job]
      BY <1>0, <1>4, WithStatusType, WriteType
         DEF OverrideRevokes, ModifyDelivers, Status, Terminal
    <2>3. ReqType' /\ RequestOK'
      BY <1>0, <1>4, GotoType DEF OverrideRevokes, ModifyDelivers, RequestPc
    <2> QED BY <1>0, <1>4, <2>1, <2>2, <2>3
            DEF OverrideRevokes, ModifyDelivers, PopContext, TInv, TypeOK, process, ReqType
  <1>5. CASE ModifyReviewed(r)
    <2>1. trail' \subseteq Event
      BY <1>0, <1>5, EmitType DEF ModifyReviewed, Kind
    <2>2. ReqType' /\ RequestOK'
      BY <1>0, <1>5, GotoType DEF ModifyReviewed, RequestPc
    <2> QED BY <1>0, <1>5, <2>1, <2>2
            DEF ModifyReviewed, PopContext, TInv, TypeOK, process, ReqType
  <1>6. CASE OverrideReplies(r)
    <2>1. trail' \subseteq Event
      BY <1>0, <1>6, EmitType DEF OverrideReplies, Kind
    <2>2. ReqType' /\ RequestOK'
      BY <1>0, <1>6, AnswerType DEF OverrideReplies, Reply
    <2> QED BY <1>0, <1>6, <2>1, <2>2 DEF OverrideReplies, TInv, TypeOK, process, ReqType
  <1>7. CASE ReviewEmitted(r)
    <2>0. op \in {"approve", "edit", "reject", "decline_to_act", "defer"}
      BY <1>7 DEF ReviewEmitted, ReviewOp, TerminalReview
    <2>1. /\ op \in Kind
          /\ op # "defer" => AfterReviewed(op) \in {"deliver", "fail", "close"}
          /\ op # "defer" /\ AfterReviewed(op) = "close" => op = "decline_to_act"
      BY <2>0 DEF Kind, AfterReviewed, ReviewOp, TerminalReview
    <2>2. trail' \subseteq Event
      BY <1>0, <1>7, <2>1, EmitType DEF ReviewEmitted
    <2>3. ReqType' /\ RequestOK'
      <3>1. CASE op = "defer"
        BY <1>0, <1>7, <3>1, AnswerType DEF ReviewEmitted, Reply
      <3>2. CASE op # "defer"
        BY <1>0, <1>7, <3>2, <2>1, GotoType DEF ReviewEmitted, RequestPc
      <3> QED BY <3>1, <3>2
    <2>4. OutcomeType'
      BY <1>0, <1>7, StoreType DEF ReviewEmitted, OutcomeType, TInv, TypeOK
    <2> QED BY <1>7, <2>2, <2>3, <2>4 DEF OutcomeType, ReviewEmitted, TInv, TypeOK, process, ReqType
  <1>8. CASE ReviewSettles(r)
    <2> DEFINE s == IF req[r].pc = "deliver" THEN "delivered" ELSE "failed"
    <2>1. s \in Kind /\ s \in Status
      BY DEF Kind, Status, Terminal
    <2>2. trail' \subseteq Event
      BY <1>0, <1>8, <2>1, EmitType DEF ReviewSettles
    <2>3. ReqType' /\ RequestOK'
      BY <1>0, <1>8, AnswerType DEF ReviewSettles, Reply
    <2>4. OutcomeType'
      BY <1>0, <1>8, StoreType DEF ReviewSettles, OutcomeType, TInv, TypeOK
    <2>5. mem' \in [Jobs -> Job] /\ db' \in [Jobs -> Job]
      BY <1>0, <1>8, <2>1, WithStatusType, WriteType DEF ReviewSettles
    <2> QED BY <1>8, <2>2, <2>3, <2>4, <2>5 DEF OutcomeType, ReviewSettles, TInv, TypeOK, process, ReqType
  <1>9. CASE ReviewCloses(r)
    <2>1. trail' \subseteq Event
      BY <1>0, <1>9, EmitType DEF ReviewCloses, Kind
    <2>2. ReqType' /\ RequestOK'
      BY <1>0, <1>9, AnswerType DEF ReviewCloses, Reply
    <2>3. op \in ReviewOp
      BY <1>9 DEF ReviewCloses, TInv, RequestOK, ReviewOp, TerminalReview
    <2>4. OutcomeType'
      BY <1>0, <1>9, <2>3, StoreType DEF ReviewCloses, OutcomeType, TInv, TypeOK
    <2> QED BY <1>9, <2>1, <2>2, <2>4 DEF OutcomeType, ReviewCloses, TInv, TypeOK, process, ReqType
  <1>10. CASE RequestRaises(r)
    <2>1. AwaitedKind(req[r]) \in Kind
      BY <1>0 DEF AwaitedKind, Kind, TInv, RequestOK, ReviewOp, TerminalReview
    <2>2. trail' \subseteq Event /\ failures' \in Nat
      BY <1>0, <1>10, <2>1, EmitRaisesType DEF RequestRaises, TInv, TypeOK
    <2>3. ReqType' /\ RequestOK'
      BY <1>0, <1>10, AnswerType DEF RequestRaises, Reply
    <2> QED BY <1>10, <2>2, <2>3 DEF RequestRaises, TInv, TypeOK, ReqType
  <1> QED BY <1>1, <1>2, <1>3, <1>4, <1>5, <1>6, <1>7, <1>8, <1>9, <1>10 DEF HandlerStep

\* Every step of the worker keeps the types.
LEMMA WorkerType == ASSUME TInv, WorkerStep PROVE TInv'
  <1> DEFINE j == worker.job
  <1> USE DEF Status, PreDelivery, Terminal, Kind, WorkerPc, process
  <1>0. /\ mem \in [Jobs -> Job] /\ db \in [Jobs -> Job] /\ queue \in Seq(Jobs)
        /\ worker \in [pc: WorkerPc, job: Jobs \cup {NoJob}, hold: BOOLEAN]
        /\ worker.pc # "idle" => j \in Jobs
        /\ trail \subseteq Event /\ ctx \subseteq Jobs
        /\ failures \in Nat /\ runs \in [Jobs -> Nat]
    BY DEF TInv, TypeOK
  <1>00. NoWork \in [pc: WorkerPc, job: Jobs \cup {NoJob}, hold: BOOLEAN] /\ NoWork.pc = "idle"
    BY DEF NoWork
  <1>1. CASE WTake
    <2>1. Head(queue) \in Jobs /\ queue' \in Seq(Jobs)
      BY <1>0, <1>1 DEF WTake
    <2>2. worker' \in [pc: WorkerPc, job: Jobs \cup {NoJob}, hold: BOOLEAN]
          /\ (worker'.pc # "idle" => worker'.job \in Jobs)
      BY <1>1, <2>1 DEF WTake
    <2> QED BY <1>1, <2>1, <2>2 DEF WTake, TInv, TypeOK, RequestOK, Active
  <1>2. ASSUME NEW pc \in WorkerPc \ {"idle"}, worker.pc # "idle", WGoto(pc)
        PROVE  /\ worker' \in [pc: WorkerPc, job: Jobs \cup {NoJob}, hold: BOOLEAN]
               /\ worker'.job \in Jobs
    BY <1>0, <1>2 DEF WGoto
  <1>3. CASE WStart
    <2>1. runs' \in [Jobs -> Nat]
      BY <1>0, <1>3 DEF WStart
    <2>2. worker' \in [pc: WorkerPc, job: Jobs \cup {NoJob}, hold: BOOLEAN] /\ worker'.job \in Jobs
      BY <1>2, <1>3 DEF WStart, Routed
    <2>3. db' \in [Jobs -> Job]
      BY <1>0, <1>3 DEF WStart
    <2> QED BY <1>3, <2>1, <2>2, <2>3 DEF WStart, TInv, TypeOK, RequestOK, Active
  <1>4. CASE WClassify \/ WDispatch \/ WExecFailed \/ WRespond \/ WDeliver
    <2>1. trail' \subseteq Event
      BY <1>0, <1>4, EmitType DEF WClassify, WDispatch, WExecFailed, WRespond, WDeliver
    <2>2. worker' \in [pc: WorkerPc, job: Jobs \cup {NoJob}, hold: BOOLEAN] /\ worker'.job \in Jobs
      BY <1>2, <1>4 DEF WClassify, WDispatch, WExecFailed, WRespond, WDeliver,
                        Routed, AfterResponse
    <2>3. mem' \in [Jobs -> Job] /\ db' \in [Jobs -> Job]
      BY <1>0, <1>4, WithStatusType, WriteType
         DEF WClassify, WDispatch, WExecFailed, WRespond, WDeliver
    <2> QED BY <1>4, <2>1, <2>2, <2>3
            DEF WClassify, WDispatch, WExecFailed, WRespond, WDeliver,
                TInv, TypeOK, RequestOK, Active
  <1>5. CASE WRefused
    <2>1. trail' \subseteq Event
      BY <1>0, <1>5, EmitType DEF WRefused
    <2>2. mem' \in [Jobs -> Job] /\ db' \in [Jobs -> Job]
      BY <1>0, <1>5, WithStatusType, WriteType DEF WRefused
    <2> QED BY <1>00, <1>5, <2>1, <2>2 DEF WRefused, TInv, TypeOK, RequestOK, Active
  <1>6. CASE WPermit
    <2>1. trail' \subseteq Event
      BY <1>0, <1>6, EmitType DEF WPermit
    <2>2. worker' \in [pc: WorkerPc, job: Jobs \cup {NoJob}, hold: BOOLEAN] /\ worker'.job \in Jobs
      BY <1>0, <1>6 DEF WPermit
    <2> QED BY <1>6, <2>1, <2>2 DEF WPermit, TInv, TypeOK, RequestOK, Active
  <1>7. CASE WPrepare
    <2>1. failures' \in Nat /\ ctx' \subseteq Jobs
      BY <1>0, <1>7 DEF WPrepare, Failure
    <2>2. worker' \in [pc: WorkerPc, job: Jobs \cup {NoJob}, hold: BOOLEAN]
          /\ (worker'.pc # "idle" => worker'.job \in Jobs)
      BY <1>00, <1>2, <1>7 DEF WPrepare
    <2>3. mem' \in [Jobs -> Job] /\ db' \in [Jobs -> Job]
      BY <1>0, <1>7, WithStatusType, WriteType DEF WPrepare
    <2> QED BY <1>7, <2>1, <2>2, <2>3 DEF WPrepare, TInv, TypeOK, RequestOK, Active
  <1>8. CASE WExecute
    <2>1. failures' \in Nat
      BY <1>0, <1>8 DEF WExecute, Failure
    <2>2. worker' \in [pc: WorkerPc, job: Jobs \cup {NoJob}, hold: BOOLEAN] /\ worker'.job \in Jobs
      BY <1>2, <1>8 DEF WExecute
    <2> QED BY <1>8, <2>1, <2>2 DEF WExecute, TInv, TypeOK, RequestOK, Active
  <1>9. CASE WHold
    <2>1. worker' \in [pc: WorkerPc, job: Jobs \cup {NoJob}, hold: BOOLEAN] /\ worker'.job \in Jobs
      BY <1>2, <1>9 DEF WHold
    <2>2. mem' \in [Jobs -> Job] /\ db' \in [Jobs -> Job]
      BY <1>0, <1>9, WithStatusType, WriteType DEF WHold
    <2> QED BY <1>9, <2>1, <2>2 DEF WHold, TInv, TypeOK, RequestOK, Active
  <1>10. CASE WAnnounce
    <2>1. trail' \subseteq Event
      BY <1>0, <1>10, EmitType DEF WAnnounce
    <2>2. worker' \in [pc: WorkerPc, job: Jobs \cup {NoJob}, hold: BOOLEAN] /\ worker'.job \in Jobs
      BY <1>2, <1>10 DEF WAnnounce
    <2> QED BY <1>10, <2>1, <2>2 DEF WAnnounce, TInv, TypeOK, RequestOK, Active
  <1>11. CASE WTeardown
    BY <1>0, <1>00, <1>11 DEF WTeardown, PopContext, TInv, TypeOK, RequestOK, Active
  <1>12. CASE WRaises
    <2>1. AwaitedByWorker(worker.pc) \subseteq Kind
      BY DEF AwaitedByWorker
    <2>2. failures' \in Nat /\ j \in Jobs
      BY <1>0, <1>12 DEF WRaises, Failure
    <2>3. trail' \subseteq Event
      <3>1. CASE UNCHANGED trail
        BY <1>0, <3>1
      <3>2. ASSUME NEW k \in AwaitedByWorker(worker.pc), Emit(j, k, System)
            PROVE  trail' \subseteq Event
        <4>1. k \in Kind
          BY <2>1
        <4> HIDE DEF j, Kind
        <4> QED BY <1>0, <2>2, <3>2, <4>1, EmitType
      <3> QED BY <1>12, <3>1, <3>2 DEF WRaises
    <2>4. mem' \in [Jobs -> Job] /\ db' \in [Jobs -> Job]
      BY <1>0, <1>12, WithStatusType, WriteType DEF WRaises
    <2> QED BY <1>0, <1>00, <1>12, <2>2, <2>3, <2>4
            DEF WRaises, PopContext, TInv, TypeOK, RequestOK, Active
  <1> QED BY <1>1, <1>3, <1>4, <1>5, <1>6, <1>7, <1>8, <1>9, <1>10, <1>11, <1>12 DEF WorkerStep

\* What is left when the process dies.
LEMMA LoseMemoryType == ASSUME TInv, LoseMemory PROVE
    /\ phase' = "down" /\ todo' \subseteq Jobs
    /\ mem' \in [Jobs -> Job] /\ db' \in [Jobs -> Job]
    /\ queue' \in Seq(Jobs) /\ ctx' \subseteq Jobs
    /\ worker' \in [pc: WorkerPc, job: Jobs \cup {NoJob}, hold: BOOLEAN]
    /\ worker'.pc = "idle"
    /\ outcome' = outcome /\ runs' = runs
    /\ ReqType' /\ RequestOK'
  <1>1. Absent \in Job
    BY DEF Absent, Job
  <1>2. \A q \in Request : [q EXCEPT !.pc = "done", !.reply = "lost"] \in Request
                           /\ [q EXCEPT !.pc = "done", !.reply = "lost"].pc = "done"
    BY RequestAnswered DEF Reply
  <1>3. ReqType'
    BY <1>2 DEF LoseMemory, TInv, TypeOK, ReqType
  <1>4. \A r \in Requests : req'[r].pc \in {"new", "done"}
    BY <1>2 DEF LoseMemory, TInv, TypeOK
  <1>5. RequestOK'
    BY <1>4 DEF RequestOK, Active
  <1>6. NoWork \in [pc: WorkerPc, job: Jobs \cup {NoJob}, hold: BOOLEAN] /\ NoWork.pc = "idle"
    BY DEF NoWork, WorkerPc
  <1>7. mem' \in [Jobs -> Job]
    BY <1>1 DEF LoseMemory
  <1>8. todo' \subseteq Jobs /\ queue' \in Seq(Jobs) /\ ctx' \subseteq Jobs
    <2>1. todo' = {} /\ queue' = <<>> /\ ctx' = {}
      BY DEF LoseMemory
    <2> QED BY <2>1
  <1> QED BY <1>3, <1>5, <1>6, <1>7, <1>8 DEF LoseMemory, TInv, TypeOK

\* A crash, the startup and recovery keep the types.
LEMMA RestartType ==
  ASSUME TInv, Crash \/ Startup \/ \E j \in Jobs : RecoveryStep(j) PROVE TInv'
  <1>0. /\ mem \in [Jobs -> Job] /\ db \in [Jobs -> Job] /\ queue \in Seq(Jobs)
        /\ trail \subseteq Event /\ todo \subseteq Jobs
    BY DEF TInv, TypeOK
  <1>1. CASE Crash
    <2>1. crashes' \in Nat
      BY <1>1 DEF Crash, TInv, TypeOK
    <2>2. LoseMemory /\ trail' = trail /\ failures' = failures
      BY <1>1 DEF Crash
    <2> QED BY <2>1, <2>2, LoseMemoryType DEF TInv, TypeOK, ReqType
  <1>2. CASE Startup
    <2>1. Absent \in Job
      BY DEF Absent, Job
    <2> QED BY <1>2, <2>1 DEF Startup, Boot, BeginSaving, Open, TInv, TypeOK, RequestOK, Active
  <1>3. ASSUME NEW j \in Jobs, RecoveryStep(j) PROVE TInv'
    <2>1. mem[j] \in Job
      BY <1>0
    <2>2. CASE RecoverRequeue(j)
      <3>1. Recovered(mem[j]) \in Job
        BY <2>1, RecoveredType
      <3>2. trail' \subseteq Event
        BY <1>0, <2>2, EmitType DEF RecoverRequeue, Kind
      <3>3. queue' \in Seq(Jobs)
        BY <1>0, <2>2, EnqueueType DEF RecoverRequeue
      <3> QED BY <1>0, <2>2, <3>1, <3>2, <3>3 DEF RecoverRequeue, TInv, TypeOK, RequestOK, Active
    <2>3. ASSUME NEW s \in Status PROVE [mem EXCEPT ![j].status = s] \in [Jobs -> Job]
      BY <1>0, WithStatusType DEF WithStatus
    <2>4. CASE RecoverExhausted(j) \/ RecoverDeliver(j)
      <3>1. trail' \subseteq Event
        BY <1>0, <2>4, EmitType DEF RecoverExhausted, RecoverDeliver, Kind
      <3>2. mem' \in [Jobs -> Job]
        BY <2>3, <2>4 DEF RecoverExhausted, RecoverDeliver, Status, Terminal
      <3> QED BY <1>0, <2>4, <3>1, <3>2
              DEF RecoverExhausted, RecoverDeliver, TInv, TypeOK, RequestOK, Active
    <2>5. CASE RecoverSkip(j) \/ SaveJob(j)
      BY <1>0, <2>5 DEF RecoverSkip, SaveJob, TInv, TypeOK, RequestOK, Active
    <2>6. CASE RecoverRaises(j)
      <3>1. trail' \subseteq Event /\ failures' \in Nat
        BY <1>0, <2>6, EmitRaisesType DEF RecoverRaises, Kind, TInv, TypeOK
      <3>2. LoseMemory /\ crashes' = crashes
        BY <2>6 DEF RecoverRaises
      <3> QED BY <3>1, <3>2, LoseMemoryType DEF TInv, TypeOK, ReqType
    <2> QED BY <1>3, <2>2, <2>4, <2>5, <2>6 DEF RecoveryStep
  <1> QED BY <1>1, <1>2, <1>3

\* The types, with RequestOK, are inductive.
LEMMA NextType == TInv /\ [Next]_vars => TInv'
  <1> SUFFICES ASSUME TInv, [Next]_vars PROVE TInv'
    OBVIOUS
  <1>1. CASE Next
    BY <1>1, SubmitType, ArrivalType, HandlerType, WorkerType, RestartType
       DEF Next, Quiescent, vars, TInv, TypeOK, RequestOK, Active
  <1>2. CASE UNCHANGED vars
    BY <1>2 DEF vars, TInv, TypeOK, RequestOK, Active
  <1> QED BY <1>1, <1>2

\* The state of the job manager, its rows and its handlers stays well formed,
\* whatever overlaps, raises or crashes.
THEOREM TypeCorrect == Spec => []TypeOK
  <1>1. TInv => TypeOK
    BY DEF TInv
  <1> QED BY <1>1, InitType, NextType, PTL DEF Spec

-----------------------------------------------------------------------------
(* Audit before state.  A record that says delivered or revoked got that   *)
(* status with its event or was copied from one that had it, between       *)
(* memory and table; and the log only grows.                               *)

Settled == {"delivered", "revoked"}

Backed(j, m) ==
  \/ m.status \notin Settled
  \/ m.status \in {mem[j].status, db[j].status}
  \/ \E e \in trail' : e.job = j /\ e.kind = m.status

BacksJobs == \A j \in Jobs : Backed(j, mem'[j]) /\ Backed(j, db'[j])

\* A step of which every new record is backed keeps the property.
LEMMA BackedStep ==
  ASSUME SettledIsAudited, trail \subseteq trail', BacksJobs PROVE SettledIsAudited'
  <1> SUFFICES ASSUME NEW j \in Jobs,
                      NEW s \in {mem'[j].status, db'[j].status} \cap Settled
               PROVE  \E e \in trail' : e.job = j /\ e.kind = s
    BY DEF SettledIsAudited, EventsOf, Settled
  <1>1. CASE s \in {mem[j].status, db[j].status}
    BY <1>1 DEF SettledIsAudited, EventsOf, Settled
  <1>2. CASE s \notin {mem[j].status, db[j].status}
    BY <1>2 DEF BacksJobs, Backed
  <1> QED BY <1>1, <1>2

\* Records that are not written, or move between memory and table.
LEMMA CopyBacked ==
  ASSUME TypeOK, NEW j \in Jobs, mem' \in {mem, [i \in Jobs |-> Absent]},
         db' \in {db, [db EXCEPT ![j] = mem[j]]}
  PROVE  BacksJobs
  <1>1. Absent.status = "absent"
    BY DEF Absent
  <1>2. \A i \in Jobs : mem'[i] \in {mem[i], Absent} /\ db'[i] \in {db[i], mem[i]}
    BY DEF TypeOK
  <1> QED BY <1>1, <1>2 DEF BacksJobs, Backed, Settled

\* One record, written with its event, or with a status that needs none.
LEMMA WriteBacked ==
  ASSUME TypeOK, NEW j \in Jobs, NEW m, Backed(j, m),
         mem' \in {mem, [mem EXCEPT ![j] = m]}, db' \in {db, [db EXCEPT ![j] = m]}
  PROVE  BacksJobs
  BY DEF TypeOK, BacksJobs, Backed

\* A status that is written with the event that says so.
LEMMA StatusBacked ==
  ASSUME TypeOK, NEW j \in Jobs, NEW s, NEW by, s \notin Settled \/ Emit(j, s, by)
  PROVE  Backed(j, WithStatus(j, s))
  <1>1. WithStatus(j, s).status = s
    BY DEF WithStatus, TypeOK, Job
  <1>2. CASE Emit(j, s, by)
    <2>1. Ev(j, s, by) \in trail' /\ Ev(j, s, by).job = j /\ Ev(j, s, by).kind = s
      BY <1>2 DEF Emit, Ev
    <2> QED BY <1>1, <2>1 DEF Backed
  <1> QED BY <1>1, <1>2 DEF Backed

\* Submissions and arrivals mint jobs, set guards and close jobs.
LEMMA EntryBacked ==
  ASSUME TInv, (\E j \in Jobs : Submit(j)) \/ \E r \in Requests : RequestArrives(r)
  PROVE  BacksJobs /\ trail \subseteq trail'
  <1> USE DEF TInv
  <1>1. \A j \in Jobs : mem[j] \in Job /\ mem \in [Jobs -> Job]
    BY DEF TypeOK
  <1>2. ASSUME NEW j \in Jobs, Submit(j) PROVE BacksJobs /\ trail \subseteq trail'
    <2>1. \A s \in {"submitted", "failed"} : Backed(j, NewJob(s))
      BY DEF Backed, NewJob, Absent, Settled
    <2> QED BY <1>2, <2>1, WriteBacked DEF Submit, Write, Emit
  <1>3. ASSUME NEW r \in Requests, RequestArrives(r) PROVE BacksJobs /\ trail \subseteq trail'
    <2>1. trail' = trail
      BY <1>3 DEF RequestArrives, OverrideNoOp, BeginOverride, BeginModify, RefuseOverride,
                  ReviewReplay, ReviewRefused, BeginReview
    <2>2. \/ UNCHANGED <<mem, db>>
          \/ \E j \in Jobs, op \in OverrideOp : Reserve(j, op)
          \/ \E j \in Jobs, op \in ReviewOp : Write(j, Decide(mem[j], op))
      BY <1>3 DEF RequestArrives, OverrideNoOp, BeginOverride, BeginModify, RefuseOverride,
                  ReviewReplay, ReviewRefused, BeginReview, OverrideOp
    <2>3. ASSUME NEW j \in Jobs, NEW op, Reserve(j, op) PROVE BacksJobs
      <3>1. Backed(j, [mem[j] EXCEPT !.override_type = op])
        BY <1>1 DEF Backed, Job
      <3> QED BY <2>3, <3>1, WriteBacked DEF Reserve, Write
    <2>4. ASSUME NEW j \in Jobs, NEW op, Write(j, Decide(mem[j], op)) PROVE BacksJobs
      <3>1. Backed(j, Decide(mem[j], op))
        BY <1>1 DEF Backed, Job, Decide, Settled
      <3> QED BY <2>4, <3>1, WriteBacked DEF Write
    <2> QED BY <2>1, <2>2, <2>3, <2>4, CopyBacked DEF RequestArrives
  <1> QED BY <1>2, <1>3

\* Handlers write a status with its event; a redirect fails the original in
\* memory first and persists it once its successor exists.
LEMMA HandlerBacked ==
  ASSUME TInv, NEW r \in Requests, HandlerStep(r)
  PROVE  BacksJobs /\ trail \subseteq trail'
  <1> DEFINE j == req[r].job
  <1>0. r \in Jobs /\ j \in Jobs /\ TypeOK /\ mem \in [Jobs -> Job] /\ db \in [Jobs -> Job]
    <2>1. Active(req[r])
      BY DEF HandlerStep, OverrideEmitted, OverrideFails, SuccessorEmitted, OverrideRevokes,
             ModifyReviewed, ModifyDelivers, OverrideReplies, ReviewEmitted, ReviewSettles,
             ReviewCloses, RequestRaises, Active
    <2> QED BY <2>1, ActiveHandler DEF TInv, Jobs
  <1>1. trail \subseteq trail'
    BY DEF HandlerStep, OverrideEmitted, OverrideFails, SuccessorEmitted,
           OverrideRevokes, ModifyReviewed, ModifyDelivers, OverrideReplies,
           ReviewEmitted, ReviewSettles, ReviewCloses, RequestRaises, Emit, EmitRaises
  <1>2. ASSUME NEW m \in [Jobs -> Job], Spawn(r, m),
               m = mem \/ m = [mem EXCEPT ![j].status = "failed"]
        PROVE  BacksJobs
    <2>1. \A i \in Jobs : m[i] = mem[i] \/ m[i].status = "failed"
      BY <1>0, <1>2 DEF Job
    <2>2. NewJob("classified").status = "classified"
      BY DEF NewJob, Absent
    <2>3. \A i \in Jobs : /\ mem'[i] \in {m[i], NewJob("classified")}
                          /\ db'[i] \in {db[i], NewJob("classified")}
      BY <1>0, <1>2 DEF Spawn
    <2> QED BY <1>0, <2>1, <2>2, <2>3 DEF BacksJobs, Backed, Settled
  <1>3. CASE SuccessorEmitted(r)
    <2>1. WithStatus(r, "failed").status = "failed"
      BY <1>0 DEF WithStatus, Job
    <2>2. \A i \in Jobs : /\ mem'[i] \in {mem[i], WithStatus(r, "failed")}
                          /\ db'[i] \in {db[i], mem[i], WithStatus(r, "failed")}
      BY <1>0, <1>3 DEF SuccessorEmitted
    <2> QED BY <1>0, <1>1, <2>1, <2>2 DEF BacksJobs, Backed, Settled
  <1>4. ASSUME NEW s, NEW by, s \notin Settled \/ Emit(j, s, by), Write(j, WithStatus(j, s))
        PROVE  BacksJobs
    BY <1>0, <1>4, StatusBacked, WriteBacked DEF Write
  <1>5. CASE OverrideEmitted(r)
    BY <1>0, <1>1, <1>2, <1>5, CopyBacked DEF OverrideEmitted
  <1>6. CASE OverrideFails(r)
    <2>1. [mem EXCEPT ![j].status = "failed"] \in [Jobs -> Job]
      BY <1>0, SMTT(30) DEF Job, Status, Terminal
    <2> QED BY <1>1, <1>2, <1>4, <1>6, <2>1 DEF OverrideFails, Settled
  <1>7. CASE OverrideRevokes(r)
    BY <1>1, <1>4, <1>7 DEF OverrideRevokes
  <1>8. CASE ModifyDelivers(r)
    BY <1>1, <1>4, <1>8 DEF ModifyDelivers
  <1>9. CASE ReviewSettles(r)
    BY <1>1, <1>4, <1>9 DEF ReviewSettles
  <1>10. CASE ModifyReviewed(r) \/ OverrideReplies(r) \/ ReviewEmitted(r)
              \/ ReviewCloses(r) \/ RequestRaises(r)
    BY <1>0, <1>1, <1>10, CopyBacked
       DEF ModifyReviewed, OverrideReplies, ReviewEmitted, ReviewCloses, RequestRaises
  <1> QED BY <1>3, <1>5, <1>6, <1>7, <1>8, <1>9, <1>10 DEF HandlerStep

\* So does the worker, and its exception handler writes failed.
LEMMA WorkerBacked ==
  ASSUME TInv, WorkerStep PROVE BacksJobs /\ trail \subseteq trail'
  <1> DEFINE j == worker.job
  <1>0. TypeOK /\ (worker.pc # "idle" => j \in Jobs)
    BY DEF TInv, TypeOK
  <1>1. trail \subseteq trail'
    BY DEF WorkerStep, WTake, WStart, WClassify, WRefused, WPermit, WPrepare, WDispatch,
           WExecute, WExecFailed, WRespond, WHold, WAnnounce, WDeliver, WTeardown, WRaises,
           Emit
  <1>2. ASSUME worker.pc # "idle", NEW s, NEW by, s \notin Settled \/ Emit(j, s, by),
               Write(j, WithStatus(j, s))
        PROVE  BacksJobs
    BY <1>0, <1>2, StatusBacked, WriteBacked DEF Write
  <1>3. CASE UNCHANGED <<mem, db>>
    BY <1>1, <1>3 DEF BacksJobs, Backed
  <1>4. CASE WStart
    BY <1>0, <1>1, <1>4, CopyBacked DEF WStart
  <1>5. CASE WDeliver
    BY <1>1, <1>2, <1>5 DEF WDeliver
  <1>6. CASE ~WStart /\ ~WDeliver /\ ~UNCHANGED <<mem, db>>
    <2>1. worker.pc # "idle" /\ \E s : s \notin Settled /\ Write(j, WithStatus(j, s))
      BY <1>6 DEF WorkerStep, WTake, WClassify, WRefused, WPermit, WPrepare, WDispatch,
                  WExecute, WExecFailed, WRespond, WHold, WAnnounce, WTeardown, WRaises,
                  Settled
    <2> QED BY <1>1, <1>2, <2>1
  <1> QED BY <1>3, <1>4, <1>5, <1>6

\* A restart moves records between memory and table; the recovery pass writes
\* delivered with its event.
LEMMA RestartBacked ==
  ASSUME TInv, Crash \/ Startup \/ \E j \in Jobs : RecoveryStep(j)
  PROVE  BacksJobs /\ trail \subseteq trail'
  <1>0. mem \in [Jobs -> Job] /\ db \in [Jobs -> Job]
    BY DEF TInv, TypeOK
  <1>1. trail \subseteq trail'
    BY DEF Crash, Startup, Boot, BeginSaving, Open, RecoveryStep, RecoverRequeue,
           RecoverExhausted, RecoverSkip, RecoverDeliver, RecoverRaises, SaveJob, Emit,
           EmitRaises
  <1>2. Absent.status = "absent"
    BY DEF Absent
  <1>3. CASE LoseMemory \/ Boot \/ BeginSaving \/ Open
    <2>1. \A i \in Jobs : mem'[i] \in {mem[i], db[i], Absent} /\ db'[i] = db[i]
      BY <1>3 DEF LoseMemory, Boot, BeginSaving, Open
    <2> QED BY <1>1, <1>2, <2>1 DEF BacksJobs, Backed, Settled
  <1>4. ASSUME NEW j \in Jobs, RecoveryStep(j), ~LoseMemory PROVE BacksJobs
    <2>1. CASE SaveJob(j) \/ RecoverSkip(j)
      <3>1. \A i \in Jobs : mem'[i] = mem[i] /\ db'[i] \in {mem[i], db[i]}
        BY <1>0, <2>1 DEF SaveJob, RecoverSkip
      <3> QED BY <3>1 DEF BacksJobs, Backed
    <2>2. CASE RecoverRequeue(j) \/ RecoverExhausted(j)
      <3>1. \A i \in Jobs : \/ mem'[i] = mem[i]
                            \/ mem'[i].status \in {mem[i].status, "classified", "failed"}
        <4>1. mem[j] \in Job /\ Recovered(mem[j]).status \in {mem[j].status, "classified"}
          BY <1>0 DEF Recovered, Job
        <4> QED BY <1>0, <2>2, <4>1 DEF RecoverRequeue, RecoverExhausted, Job
      <3>2. db' = db
        BY <2>2 DEF RecoverRequeue, RecoverExhausted
      <3> QED BY <3>1, <3>2 DEF BacksJobs, Backed, Settled
    <2>3. CASE RecoverDeliver(j)
      <3>1. Backed(j, WithStatus(j, "delivered"))
        BY <2>3, StatusBacked DEF RecoverDeliver, TInv
      <3>2. mem' = [mem EXCEPT ![j] = WithStatus(j, "delivered")] /\ db' = db
        BY <2>3 DEF RecoverDeliver, WithStatus
      <3> QED BY <3>1, <3>2, WriteBacked DEF TInv
    <2> QED BY <1>4, <2>1, <2>2, <2>3 DEF RecoveryStep, RecoverRaises
  <1> QED BY <1>1, <1>3, <1>4 DEF Crash, Startup

\* Audit before state, for every job: no row and no cached record says
\* delivered or revoked before the log does, whatever raises or crashes between
\* the two.
THEOREM AuditBeforeState == Spec => []SettledIsAudited
  <1>1. Init => SettledIsAudited
    BY DEF Init, SettledIsAudited, Absent
  <1>2. TInv /\ SettledIsAudited /\ [Next]_vars => SettledIsAudited'
    <2> SUFFICES ASSUME TInv, SettledIsAudited, [Next]_vars PROVE SettledIsAudited'
      OBVIOUS
    <2>1. CASE UNCHANGED vars
      BY <2>1 DEF vars, SettledIsAudited, EventsOf
    <2>2. CASE Next
      BY <2>1, <2>2, EntryBacked, HandlerBacked, WorkerBacked, RestartBacked, BackedStep
         DEF Next, Quiescent
    <2> QED BY <2>1, <2>2
  <1> QED BY <1>1, <1>2, InitType, NextType, PTL DEF Spec
=============================================================================
