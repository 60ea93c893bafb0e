------------------------- MODULE WorkerExecutorProofs -------------------------
(***************************************************************************)
(* The executor implements WorkerCall, the garbage collector spares the    *)
(* containers that are waited for, and leftovers are accounted for: for    *)
(* any number of attempts, deaths and failing calls.                       *)
(***************************************************************************)
EXTENDS WorkerExecutor, FiniteSetTheorems, TLAPS

\* The caller: whom it works for, and what it knows of the others.
CallerInv ==
  /\ pc = "idle" <=> current = None
  /\ \A a \in Attempts : outcome[a] = "running" <=> pc \in {"post", "posted"} /\ current = a
  /\ \A a \in Attempts : outcome[a] \in {"new", "running"} => returned[a] = None
  /\ \A a \in Attempts :
       outcome[a] = "new" \/ (pc = "post" /\ current = a) => thread[a] = "none"

\* A thread and its container.
ThreadOK(a) ==
  /\ thread[a] \in {"none", "create"} => container[a].is = "none"
  /\ thread[a] = "start" => container[a].is = "created"
  /\ container[a].is \in {"none", "created", "running"} => ~container[a].zero
  /\ reply[a] = "completed" => container[a].zero
  /\ outbox[a].by \in {a, None}
  /\ ~up => thread[a] \in {"none", "done"}

\* What the collector is about to remove has no thread that needs it.
GcOK(a) ==
  /\ container[a].is = "exited" /\ thread[a] \in {"wait", "logs"} => age[a] <= Prompt
  /\ a \in doomed => thread[a] \in {"kill", "remove", "done"}

ThreadInv == \A a \in Attempts : ThreadOK(a)
GcInv == \A a \in Attempts : GcOK(a)

Inv == TypeOK /\ CallerInv /\ ThreadInv /\ GcInv

-----------------------------------------------------------------------------

\* The invariant holds before any container exists.
LEMMA InitInv == Init => Inv
BY ProxyAssumption DEF ProxyAssumption, Init, ProxyInit, Inv, TypeOK, ProxyTypeOK, CallerInv,
   ThreadInv, ThreadOK, GcInv, GcOK, NoContainer, Container, NoDir, Outbox, Is, ThreadPc, Reply

-----------------------------------------------------------------------------
(* Type correctness.                                                       *)

ContainerIs == {"none", "created", "running", "exited", "gone"}

\* A container in another state keeps the type.
LEMMA BecomesType ==
  ASSUME TypeOK, NEW a \in Attempts, NEW s \in ContainerIs, Becomes(a, s)
  PROVE  container' \in [Attempts -> Container]
BY SMTT(30) DEF TypeOK, ProxyTypeOK, Container, Becomes, ContainerIs

\* So does one that exits, its age starting at 0,
LEMMA ExitType ==
  ASSUME TypeOK, NEW a \in Attempts, NEW zero \in BOOLEAN, Exit(a, zero)
  PROVE  container' \in [Attempts -> Container] /\ age' \in [Attempts -> 0..GcAge]
BY ProxyAssumption DEF TypeOK, ProxyTypeOK, Container, Exit, ProxyAssumption

\* and one that is removed.
LEMMA GoneType ==
  ASSUME TypeOK, NEW a \in Attempts, Gone(a)
  PROVE  container' \in [Attempts -> Container] /\ age' \in [Attempts -> 0..GcAge]
BY ProxyAssumption DEF TypeOK, ProxyTypeOK, Container, Gone, ProxyAssumption

\* Every step of a proxy's thread keeps the type.
LEMMA ThreadType ==
  ASSUME TypeOK, NEW a \in Attempts, Thread(a) PROVE ProxyTypeOK'
<1> USE DEF TypeOK, ProxyTypeOK, Rest, Go, Answer, Failure, Reply, ThreadPc
<1>1. CASE Create(a)
  BY <1>1, BecomesType DEF Create, ContainerIs
<1>2. CASE CreateRaises(a)
  BY <1>2 DEF CreateRaises
<1>3. CASE CreateTimesOut(a)
  BY <1>3, BecomesType DEF CreateTimesOut, ContainerIs
<1>4. CASE Start(a)
  BY <1>4, BecomesType DEF Start, ContainerIs
<1>5. CASE StartRaises(a)
  BY <1>5, BecomesType DEF StartRaises, ContainerIs
<1>6. CASE WaitReturns(a)
  BY <1>6 DEF WaitReturns
<1>7. CASE WaitTimesOut(a)
  BY <1>7 DEF WaitTimesOut
<1>8. CASE CallRaises(a)
  BY <1>8 DEF CallRaises
<1>9. CASE ReadLogs(a)
  BY <1>9 DEF ReadLogs
<1>10. CASE Kill(a)
  BY <1>10, ExitType DEF Kill
<1>11. CASE KillRaises(a)
  BY <1>11 DEF KillRaises
<1>12. CASE Remove(a)
  BY <1>12, GoneType DEF Remove, Finally
<1>13. CASE RemoveRaises(a)
  BY <1>13 DEF RemoveRaises
<1> QED
  BY <1>1, <1>2, <1>3, <1>4, <1>5, <1>6, <1>7, <1>8, <1>9, <1>10, <1>11, <1>12, <1>13 DEF Thread

\* Every step of the proxy, its containers and the collector keeps the type.
LEMMA ProxyType ==
  ASSUME TypeOK, Proxy PROVE ProxyTypeOK'
<1> USE DEF TypeOK, ProxyTypeOK, Failure, Death
<1>1. ASSUME NEW a \in Attempts, Thread(a) PROVE ProxyTypeOK'
  BY <1>1, ThreadType
<1>2. ASSUME NEW a \in Attempts, AgentWrites(a) PROVE ProxyTypeOK'
  <2>1. PICK ok \in BOOLEAN :
          /\ outbox' = [outbox EXCEPT ![a] = [there |-> TRUE, by |-> a, ok |-> ok]]
          /\ container' = [container EXCEPT ![a].wrote = IF ok THEN "success" ELSE "error"]
    BY <1>2 DEF AgentWrites, Dir
  <2>2. outbox' \in [Attempts -> Outbox]
    BY <2>1 DEF Outbox
  <2>3. container' \in [Attempts -> Container]
    BY <2>1 DEF Container
  <2>4. QED
    BY <1>2, <2>2, <2>3 DEF AgentWrites
<1>3. ASSUME NEW a \in Attempts, AgentExits(a) PROVE ProxyTypeOK'
  BY <1>3, ExitType DEF AgentExits
<1>4. ASSUME NEW a \in Attempts, GcRemove(a) PROVE ProxyTypeOK'
  BY <1>4, GoneType DEF GcRemove
<1>5. CASE GcList
  BY <1>5 DEF GcList
<1>6. CASE Tick
  <2>1. age' \in [Attempts -> 0..GcAge]
    BY <1>6, ProxyAssumption DEF Tick, ProxyAssumption
  <2>2. QED
    BY <1>6, <2>1 DEF Tick
<1>7. CASE ProxyDies
  <2>1. thread' \in [Attempts -> ThreadPc] /\ reply' \in [Attempts -> Reply]
    BY <1>7 DEF ProxyDies, ThreadPc, Reply
  <2>2. killed' \subseteq Attempts
    BY <1>7 DEF ProxyDies, InFlight
  <2>3. up' \in BOOLEAN /\ doomed' \subseteq Attempts
    BY <1>7 DEF ProxyDies
  <2>4. /\ deaths' \in Nat /\ failures' \in Nat
        /\ container' \in [Attempts -> Container]
        /\ age' \in [Attempts -> 0..GcAge] /\ outbox' \in [Attempts -> Outbox]
    BY <1>7 DEF ProxyDies
  <2>5. QED
    BY <2>1, <2>2, <2>3, <2>4
<1>8. CASE ProxyStarts
  BY <1>8 DEF ProxyStarts
<1>9. QED
  BY <1>1, <1>2, <1>3, <1>4, <1>5, <1>6, <1>7, <1>8 DEF Proxy

-----------------------------------------------------------------------------
(* A step of one thread.                                                   *)

\* It leaves the other attempts and the collector alone.
LEMMA ThreadLocal ==
  ASSUME TypeOK, NEW a \in Attempts, Thread(a)
  PROVE  /\ UNCHANGED <<up, outbox, doomed, deaths, killed>>
         /\ \A b \in Attempts \ {a} :
              UNCHANGED <<thread[b], reply[b], container[b], age[b]>>
<1> USE DEF TypeOK, ProxyTypeOK, Rest, Go, Becomes, Answer, Exit, Gone
<1>1. CASE Create(a) \/ Start(a) \/ StartRaises(a)
  BY <1>1 DEF Create, Start, StartRaises
<1>2. CASE CreateRaises(a) \/ CreateTimesOut(a)
  BY <1>2 DEF CreateRaises, CreateTimesOut
<1>3. CASE WaitReturns(a) \/ WaitTimesOut(a) \/ CallRaises(a) \/ ReadLogs(a)
  BY <1>3 DEF WaitReturns, WaitTimesOut, CallRaises, ReadLogs
<1>4. CASE Kill(a) \/ KillRaises(a)
  BY <1>4 DEF Kill, KillRaises
<1>5. CASE Remove(a) \/ RemoveRaises(a)
  BY <1>5 DEF Remove, RemoveRaises
<1> QED
  BY <1>1, <1>2, <1>3, <1>4, <1>5 DEF Thread

\* What it does to its own attempt.
LEMMA ThreadOwn ==
  ASSUME Inv, NEW a \in Attempts, Thread(a)
  PROVE  /\ thread[a] \notin {"none", "done"} /\ thread'[a] # "none"
         /\ ThreadOK(a)' /\ GcOK(a)'
         /\ container'[a].zero <=> container[a].zero
         /\ \/ failures' = failures + 1
            \/ /\ failures' = failures
               /\ thread'[a] = "done" => container'[a].is \in {"none", "gone"}
<1> USE DEF Inv, TypeOK, ProxyTypeOK, Container, ThreadInv, ThreadOK, GcInv, GcOK, Rest, Go,
      Becomes, Answer, Exit, Gone, At, Is, Failure
<1>1. CASE Create(a)
  BY <1>1 DEF Create
<1>2. CASE CreateRaises(a)
  BY <1>2 DEF CreateRaises
<1>3. CASE CreateTimesOut(a)
  BY <1>3 DEF CreateTimesOut
<1>4. CASE Start(a)
  BY <1>4 DEF Start
<1>5. CASE StartRaises(a)
  BY <1>5 DEF StartRaises
<1>6. CASE WaitReturns(a)
  BY <1>6 DEF WaitReturns
<1>7. CASE WaitTimesOut(a)
  BY <1>7 DEF WaitTimesOut
<1>8. CASE CallRaises(a)
  BY <1>8 DEF CallRaises
<1>9. CASE ReadLogs(a)
  BY <1>9 DEF ReadLogs
<1>10. CASE Kill(a)
  <2>1. GcOK(a)' /\ thread[a] = "kill" /\ thread'[a] = "remove"
    BY <1>10, ProxyAssumption DEF Kill, ProxyAssumption
  <2>2. CASE container[a].is = "running"
    BY <1>10, <2>2 DEF Kill
  <2>3. CASE container[a].is # "running"
    BY <1>10, <2>3 DEF Kill
  <2>4. QED
    BY <2>1, <2>2, <2>3
<1>11. CASE KillRaises(a)
  BY <1>11 DEF KillRaises
<1>12. CASE Remove(a)
  BY <1>12 DEF Remove, Finally
<1>13. CASE RemoveRaises(a)
  BY <1>13 DEF RemoveRaises
<1> QED
  BY <1>1, <1>2, <1>3, <1>4, <1>5, <1>6, <1>7, <1>8, <1>9, <1>10, <1>11, <1>12, <1>13 DEF Thread

-----------------------------------------------------------------------------
(* A step of the proxy, of a container or of time.                         *)

\* Every step of the proxy keeps what threads and collector rely on.
LEMMA ProxyInv ==
  ASSUME Inv, Proxy
  PROVE  /\ ThreadInv' /\ GcInv'
         /\ \A a \in Attempts : thread[a] = "none" => thread'[a] = "none"
<1> USE DEF Inv, ThreadInv, GcInv
<1>1. ASSUME NEW a \in Attempts, Thread(a)
      PROVE  /\ ThreadInv' /\ GcInv'
             /\ \A b \in Attempts : thread[b] = "none" => thread'[b] = "none"
  <2>1. ThreadOK(a)' /\ GcOK(a)' /\ thread[a] # "none"
    BY <1>1, ThreadOwn
  <2>2. ASSUME NEW b \in Attempts \ {a}
        PROVE  ThreadOK(b)' /\ GcOK(b)' /\ thread'[b] = thread[b]
    BY <1>1, ThreadLocal DEF ThreadOK, GcOK
  <2>3. QED
    BY <2>1, <2>2
<1> USE DEF ThreadOK, GcOK, TypeOK, ProxyTypeOK, Container, Is, At, Exit, Gone
<1>2. ASSUME NEW a \in Attempts, AgentWrites(a)
      PROVE  ThreadInv' /\ GcInv' /\ UNCHANGED thread
  BY <1>2 DEF AgentWrites, Dir, Outbox
<1>3. ASSUME NEW a \in Attempts, AgentExits(a)
      PROVE  ThreadInv' /\ GcInv' /\ UNCHANGED thread
  BY <1>3, ProxyAssumption DEF AgentExits, ProxyAssumption
<1>4. ASSUME NEW a \in Attempts, GcRemove(a)
      PROVE  ThreadInv' /\ GcInv' /\ UNCHANGED thread
  <2>1. CASE Gone(a)
    BY <1>4, <2>1 DEF GcRemove
  <2>2. CASE UNCHANGED <<container, age>>
    BY <1>4, <2>2 DEF GcRemove
  <2>3. QED
    BY <1>4, <2>1, <2>2 DEF GcRemove
<1>5. CASE GcList
  <2>1. ASSUME NEW a \in Attempts, container[a].is = "exited", OldEnough(a)
        PROVE  thread[a] \in {"kill", "remove", "done"}
    BY <2>1, ProxyAssumption DEF OldEnough, ProxyAssumption, ThreadPc
  <2>2. QED
    BY <1>5, <2>1 DEF GcList
<1>6. CASE Tick
  BY <1>6, ProxyAssumption DEF Tick, Served, ProxyAssumption
<1>7. CASE ProxyDies
  <2>1. ASSUME NEW a \in Attempts
        PROVE  /\ thread'[a] \in {"none", "done"}
               /\ thread[a] = "none" <=> thread'[a] = "none"
               /\ reply'[a] \in {"none", reply[a]}
    BY <1>7, <2>1 DEF ProxyDies, InFlight
  <2>2. doomed' = {} /\ UNCHANGED <<container, outbox>>
    BY <1>7 DEF ProxyDies
  <2>3. QED
    BY <2>1, <2>2
<1>8. CASE ProxyStarts
  BY <1>8 DEF ProxyStarts
<1>9. QED
  BY <1>1, <1>2, <1>3, <1>4, <1>5, <1>6, <1>7, <1>8 DEF Proxy

-----------------------------------------------------------------------------
(* The invariant.                                                          *)

\* Every step keeps the invariant.
LEMMA NextInv ==
  ASSUME Inv, [Next]_vars PROVE Inv'
<1> USE DEF Inv
<1>1. CASE Proxy /\ UNCHANGED callVars
  <2>1. TypeOK'
    BY <1>1, ProxyType DEF TypeOK, callVars
  <2>2. CallerInv'
    BY <1>1, ProxyInv DEF CallerInv, callVars
  <2>3. QED
    BY <1>1, <2>1, <2>2, ProxyInv
<1> USE ProxyAssumption DEF ProxyAssumption, CallerInv, TypeOK, ProxyTypeOK, ProxyRest, proxyVars,
      ThreadInv, ThreadOK, GcInv, GcOK, Conclude, DirBecomes, Dir
<1>2. ASSUME NEW a \in Attempts, Execute(a) PROVE Inv'
  <2>1. /\ outbox' \in [Attempts -> Outbox]
        /\ \A b \in Attempts : outbox'[b].by \in {outbox[b].by, None}
    <3>1. CASE UNCHANGED outbox
      BY <3>1
    <3>2. CASE outbox' = [outbox EXCEPT ![a] = EmptyDir]
      BY <3>2 DEF Outbox, EmptyDir
    <3>3. QED
      BY <1>2, <3>1, <3>2 DEF Execute
  <2>2. /\ pc' = "post" /\ current' = a /\ a # None
        /\ \A b \in Attempts : outcome'[b] = IF b = a THEN "running" ELSE outcome[b]
        /\ outcome' \in [Attempts -> {"new", "running", "ok", "failed", "lost"}]
        /\ UNCHANGED <<ProxyRest, thread, reply, returned>>
    BY <1>2 DEF Execute
  <2>3. pc = "idle" /\ outcome[a] = "new"
    BY <1>2 DEF Execute
  <2>4. TypeOK'
    BY <2>1, <2>2
  <2>5. CallerInv'
    <3>1. UNCHANGED thread /\ UNCHANGED returned
      BY <2>2
    <3>2. \A b \in Attempts : outcome[b] # "running"
      BY <2>3
    <3>3. \A b \in Attempts : outcome'[b] = "running" <=> b = a
      BY <2>2, <3>2
    <3>4. QED
      BY <2>2, <2>3, <3>1, <3>3
  <2>6. ThreadInv' /\ GcInv'
    BY <2>1, <2>2
  <2>7. QED
    BY <2>4, <2>5, <2>6
<1>3. CASE Post
  BY <1>3 DEF Post, Go, ThreadPc
<1>4. CASE PostFails \/ PostTimesOut
  BY <1>4 DEF PostFails, PostTimesOut
<1>5. CASE Answered
  BY <1>5 DEF Answered, Outbox
<1>6. CASE Cleanup
  BY <1>6 DEF Cleanup, Outbox, NoDir
<1>7. CASE Crash
  <2>1. deaths' \in Nat
    BY <1>7 DEF Crash, Death
  <2>2. QED
    BY <1>7, <2>1 DEF Crash
<1>8. CASE UNCHANGED vars
  BY <1>8 DEF vars, callVars
<1> QED
  BY <1>1, <1>2, <1>3, <1>4, <1>5, <1>6, <1>7, <1>8 DEF Next, Caller

\* The program's state is what its declarations say, for any number of
\* attempts, and the three parts of the invariant hold in every reachable state.
THEOREM Invariance == Spec => []Inv
<1>1. Inv /\ [Next]_vars => Inv'
  BY NextInv
<1>2. QED
  BY InitInv, <1>1, PTL DEF Spec

\* TypeOK of WorkerExecutor.
THEOREM TypeCorrect == Spec => []TypeOK
BY Invariance, PTL DEF Inv

-----------------------------------------------------------------------------
(* The garbage collector.                                                  *)

\* GcSparesRuns: no container is taken from a thread that needs it, whatever
\* the number of calls, deaths and failures, if Docker answers a thread about an
\* exited container sooner than the collector's age.
THEOREM CollectorSpares == Spec => GcSparesRuns
<1> DEFINE Spared(a) ==
      a \in doomed /\ a \notin doomed' /\ ~Is(a, "gone") /\ container'[a].is = "gone"
        => thread[a] \notin {"start", "wait", "logs"}
<1>1. ASSUME Inv, NEW a \in Attempts PROVE Spared(a)
  BY <1>1 DEF Inv, GcInv, GcOK
<1>2. Inv => \A a \in Attempts : Spared(a)
  BY <1>1
<1>3. QED
  BY Invariance, <1>2, PTL DEF GcSparesRuns

-----------------------------------------------------------------------------
(* The refinement of WorkerCall.                                           *)

\* Initial states map to initial states of WorkerCall.
LEMMA PromiseInit == Init => Promise!Init
BY DEF Init, ProxyInit, NoContainer, Promise!Init, Computed

\* Whatever the proxy does, the caller sees at most that a worker has finished.
LEMMA ProxySteps ==
  ASSUME Inv, Proxy, UNCHANGED callVars
  PROVE  Promise!Next \/ UNCHANGED Promise!vars
<1> USE DEF Inv, TypeOK, ProxyTypeOK, Container, Computed, callVars
<1>1. ASSUME NEW a \in Attempts, AgentExits(a), container[a].wrote = "success"
      PROVE  Promise!Next
  <2>1. outcome[a] # "new"
    BY <1>1 DEF AgentExits, Is, CallerInv, ThreadInv, ThreadOK
  <2>2. Computed' = Computed \cup {a}
    BY <1>1 DEF AgentExits, Exit
  <2>3. Promise!Compute(a)
    BY <2>1, <2>2 DEF Promise!Compute
  <2>4. QED
    BY <2>3 DEF Promise!Next
<1>2. ASSUME \A b \in Attempts : container'[b].zero <=> container[b].zero
      PROVE  UNCHANGED Promise!vars
  <2>1. Computed' = Computed
    BY <1>2
  <2>2. QED
    BY <2>1 DEF Promise!vars
<1>3. ASSUME NEW a \in Attempts, Thread(a)
      PROVE  \A b \in Attempts : container'[b].zero <=> container[b].zero
  BY <1>3, ThreadOwn, ThreadLocal
<1>4. ASSUME NEW a \in Attempts, AgentExits(a), container[a].wrote # "success"
      PROVE  \A b \in Attempts : container'[b].zero <=> container[b].zero
  BY <1>4 DEF AgentExits, Exit, Is, ThreadInv, ThreadOK
<1>5. ASSUME NEW a \in Attempts, AgentWrites(a)
      PROVE  \A b \in Attempts : container'[b].zero <=> container[b].zero
  BY <1>5 DEF AgentWrites
<1>6. ASSUME NEW a \in Attempts, GcRemove(a)
      PROVE  \A b \in Attempts : container'[b].zero <=> container[b].zero
  BY <1>6 DEF GcRemove, Gone
<1>7. CASE GcList \/ Tick \/ ProxyDies \/ ProxyStarts
  <2>1. UNCHANGED container
    BY <1>7 DEF GcList, Tick, ProxyDies, ProxyStarts
  <2>2. QED
    BY <1>2, <2>1
<1>8. QED
  BY <1>1, <1>2, <1>3, <1>4, <1>5, <1>6, <1>7 DEF Proxy

\* The executor's own steps are those of WorkerCall.
LEMMA CallerSteps ==
  ASSUME Inv, Caller \/ Crash
  PROVE  Promise!Next \/ UNCHANGED Promise!vars
<1> USE DEF Inv, TypeOK, ProxyTypeOK, CallerInv, ProxyRest, proxyVars, Conclude
<1>1. UNCHANGED container => Computed' = Computed
  BY DEF Computed
<1>2. ASSUME NEW a \in Attempts, Execute(a) PROVE Promise!Start(a)
  BY <1>1, <1>2 DEF Execute, Promise!Start
<1>3. ASSUME PostFails \/ PostTimesOut PROVE Promise!Fail(current)
  BY <1>1, <1>3 DEF PostFails, PostTimesOut, Promise!Fail
<1>4. ASSUME Answered PROVE Promise!Succeed(current) \/ Promise!Fail(current)
  <2>1. /\ outcome[current] = "running" /\ returned[current] = None /\ current \in Attempts
        /\ UNCHANGED container
    BY <1>4 DEF Answered
  <2>2. CASE Success(reply[current], outbox[current])
    <3>1. container[current].zero /\ outbox[current].by = current
      BY <2>1, <2>2 DEF Success, ThreadInv, ThreadOK
    <3>2. /\ outcome' = [outcome EXCEPT ![current] = "ok"]
          /\ returned' = [returned EXCEPT ![current] = current]
      BY <1>4, <2>2, <3>1 DEF Answered, Dir
    <3>3. current \in Computed
      BY <2>1, <3>1 DEF Computed
    <3>4. QED
      BY <1>1, <2>1, <3>2, <3>3 DEF Promise!Succeed
  <2>3. CASE ~Success(reply[current], outbox[current])
    <3>1. /\ outcome' = [outcome EXCEPT ![current] = "failed"]
          /\ returned' = [returned EXCEPT ![current] = None]
      BY <1>4, <2>3 DEF Answered, Dir
    <3>2. returned' = returned
      BY <2>1, <3>1
    <3>3. QED
      BY <1>1, <2>1, <3>1, <3>2 DEF Promise!Fail
  <2>4. QED
    BY <2>2, <2>3
<1>5. CASE Post \/ Cleanup
  BY <1>1, <1>5 DEF Post, Cleanup, DirBecomes, Promise!vars
<1>6. CASE Crash
  <2>1. CASE outcome[current] = "running"
    BY <1>1, <1>6, <2>1 DEF Crash, Promise!Next, Promise!End, Promise!Fail
  <2>2. CASE outcome[current] # "running"
    <3>1. UNCHANGED outcome
      BY <1>6, <2>2 DEF Crash
    <3>2. QED
      BY <1>1, <1>6, <3>1 DEF Crash, Promise!vars
  <2>3. QED
    BY <2>1, <2>2
<1>7. PostFails \/ PostTimesOut \/ Answered => current \in Attempts
  BY DEF PostFails, PostTimesOut, Answered
<1> QED
  BY <1>2, <1>3, <1>4, <1>5, <1>6, <1>7 DEF Caller, Promise!Next, Promise!End

\* The safety half of KeepsPromise: every behaviour of the executor, the proxy
\* and the containers is one of WorkerCall, so no call ever returns a result
\* other than the one its own worker computed, for any number of attempts.
THEOREM ImplementsCall == Spec => Promise!Spec
<1>1. Inv /\ [Next]_vars => [Promise!Next]_Promise!vars
  <2> SUFFICES ASSUME Inv, [Next]_vars PROVE [Promise!Next]_Promise!vars
    OBVIOUS
  <2>1. CASE UNCHANGED vars
    BY <2>1 DEF vars, proxyVars, callVars, Promise!vars, Computed
  <2>2. QED
    BY <2>1, ProxySteps, CallerSteps DEF Next
<1>2. QED
  BY PromiseInit, Invariance, <1>1, PTL DEF Spec, Promise!Spec

-----------------------------------------------------------------------------
(* Containers left behind.                                                 *)

Left == {a \in Attempts \ killed : thread[a] = "done" /\ Leftover(a)}

\* The containers left behind are finitely many.
LEMMA LeftFinite ==
  ASSUME TypeOK
  PROVE  IsFiniteSet(Left) /\ Cardinality(Left) \in Nat
<1>1. Left \subseteq Attempts /\ IsFiniteSet(Attempts)
  BY ProxyAssumption DEF Left, ProxyAssumption
<1>2. QED
  BY <1>1, FS_Subset, FS_CardinalityType

\* One more of them costs a failure.
LEMMA LeftGrows ==
  ASSUME Inv, [Next]_vars
  PROVE  \/ Left' \subseteq Left /\ failures' \in {failures, failures + 1}
         \/ failures' = failures + 1 /\ \E a \in Attempts : Left' \subseteq Left \cup {a}
<1> USE DEF Inv, TypeOK, ProxyTypeOK, Left, Leftover, Is
<1>1. ASSUME NEW a \in Attempts, Thread(a)
      PROVE  \/ Left' \subseteq Left /\ failures' \in {failures, failures + 1}
             \/ failures' = failures + 1 /\ Left' \subseteq Left \cup {a}
  BY <1>1, ThreadOwn, ThreadLocal
<1> USE DEF Container
<1>2. ASSUME NEW a \in Attempts, AgentWrites(a) PROVE Left' \subseteq Left /\ failures' = failures
  BY <1>2 DEF AgentWrites
<1>3. ASSUME NEW a \in Attempts, AgentExits(a) PROVE Left' \subseteq Left /\ failures' = failures
  BY <1>3 DEF AgentExits, Exit
<1>4. ASSUME NEW a \in Attempts, GcRemove(a)
      PROVE  Left' \subseteq Left /\ failures' \in {failures, failures + 1}
  BY <1>4 DEF GcRemove, Gone, Failure
<1>5. CASE GcList \/ Tick \/ ProxyStarts
  BY <1>5 DEF GcList, Tick, ProxyStarts
<1>6. CASE ProxyDies
  BY <1>6 DEF ProxyDies, InFlight
<1>7. CASE Post
  BY <1>7 DEF Post, Go, ProxyRest
<1>8. CASE Crash \/ UNCHANGED vars \/ Cleanup \/ PostFails \/ Answered \/ PostTimesOut
  BY <1>8 DEF Crash, vars, proxyVars, callVars, ProxyRest, Cleanup, PostFails, Answered, PostTimesOut
<1>9. ASSUME NEW a \in Attempts, Execute(a) PROVE Left' \subseteq Left /\ failures' = failures
  BY <1>9 DEF Execute, ProxyRest
<1> QED
  BY <1>1, <1>2, <1>3, <1>4, <1>5, <1>6, <1>7, <1>8, <1>9 DEF Next, Caller, Proxy

\* A step that leaves one more container behind is a call that raised.
LEMMA LeftStep ==
  ASSUME Inv, [Next]_vars, LeftoversAccounted
  PROVE  LeftoversAccounted'
<1>1. IsFiniteSet(Left) /\ Cardinality(Left) \in Nat /\ failures \in Nat
  BY LeftFinite DEF Inv, TypeOK, ProxyTypeOK
<1>2. Cardinality(Left) <= failures
  BY DEF LeftoversAccounted, Left
<1>3. CASE Left' \subseteq Left /\ failures' \in {failures, failures + 1}
  <2>1. Cardinality(Left') <= Cardinality(Left) /\ Cardinality(Left') \in Nat
    BY <1>1, <1>3, FS_Subset, FS_CardinalityType
  <2>2. QED
    BY <1>1, <1>2, <1>3, <2>1 DEF LeftoversAccounted, Left
<1>4. ASSUME NEW a \in Attempts, Left' \subseteq Left \cup {a}, failures' = failures + 1
      PROVE  LeftoversAccounted'
  <2>1. IsFiniteSet(Left \cup {a}) /\ Cardinality(Left \cup {a}) <= Cardinality(Left) + 1
    BY <1>1, FS_AddElement
  <2>2. Cardinality(Left') <= Cardinality(Left \cup {a}) /\ Cardinality(Left') \in Nat
    BY <2>1, <1>4, FS_Subset, FS_CardinalityType
  <2>3. Cardinality(Left \cup {a}) \in Nat
    BY <2>1, FS_CardinalityType
  <2>4. Cardinality(Left') <= failures'
    BY <1>1, <1>2, <1>4, <2>1, <2>2, <2>3
  <2>5. QED
    BY <2>4 DEF LeftoversAccounted, Left
<1>5. QED
  BY <1>3, <1>4, LeftGrows

\* LeftoversAccounted: a container outlives its thread only by the proxy's death
\* or by a failure of Docker, each of which leaves at most one.
THEOREM Leftovers == Spec => []LeftoversAccounted
<1>1. Init => LeftoversAccounted
  <2> SUFFICES ASSUME Init PROVE LeftoversAccounted
    OBVIOUS
  <2>1. Left = {} /\ failures = 0
    BY DEF Init, ProxyInit, Left
  <2>2. QED
    BY <2>1, FS_EmptySet DEF LeftoversAccounted, Left
<1>2. Inv /\ LeftoversAccounted /\ [Next]_vars => LeftoversAccounted'
  BY LeftStep
<1>3. QED
  BY Invariance, <1>1, <1>2, PTL DEF Spec
=============================================================================
