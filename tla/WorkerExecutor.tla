---------------------------- MODULE WorkerExecutor ----------------------------
(***************************************************************************)
(* WorkerExecutor.execute over the worker-proxy: what a pipeline that runs *)
(* one job at a time gets back from a worker container, while threads of   *)
(* calls it has given up, and containers of processes that died, go on.    *)
(*                                                                         *)
(* The semaphore is left out: there is one pipeline, so a slot is free     *)
(* whenever it asks.  Time is left out of the HTTP call: the calls to      *)
(* Docker may take longer than the 30 s granted beside wall_timeout, so    *)
(* the client may give up at any moment.                                   *)
(***************************************************************************)
EXTENDS WorkerProxy

VARIABLES
  pc,        \* _execute_sync: its program point
  current,   \* the attempt it works for
  outcome,   \* WorkerResult or exception, by attempt
  returned   \* the attempt whose result.json the WorkerResult carries

callVars == <<pc, current, outcome, returned>>
vars == <<proxyVars, callVars>>

TypeOK ==
  /\ ProxyTypeOK
  /\ pc \in {"idle", "post", "posted", "cleanup"}
  /\ current \in Attempts \cup {None}
  /\ outcome \in [Attempts -> {"new", "running", "ok", "failed", "lost"}]
  /\ returned \in [Attempts -> Attempts \cup {None}]

Init ==
  /\ ProxyInit
  /\ pc = "idle" /\ current = None
  /\ outcome = [a \in Attempts |-> "new"]
  /\ returned = [a \in Attempts |-> None]

DirBecomes(a, file) == outbox' = [outbox EXCEPT ![Dir(a)] = file]

ProxyRest == <<up, container, age, doomed, deaths, killed, failures>>

\* _prepare_sandbox_dir, which keeps what it finds, and _write_task.
Execute(a) ==
  /\ pc = "idle" /\ outcome[a] = "new"
  /\ pc' = "post" /\ current' = a
  /\ outcome' = [outcome EXCEPT ![a] = "running"]
  /\ IF outbox[Dir(a)].there THEN UNCHANGED outbox ELSE DirBecomes(a, EmptyDir)
  /\ UNCHANGED <<ProxyRest, thread, reply, returned>>

Post ==
  /\ pc = "post" /\ up
  /\ pc' = "posted"
  /\ Go(current, "create")
  /\ UNCHANGED <<ProxyRest, reply, outbox, current, outcome, returned>>

\* Mutant: the proxy's word is passed on as the status.
ConcludeVerbatim(ok) ==
  /\ pc' = "cleanup"
  /\ outcome' = [outcome EXCEPT ![current] = IF ok THEN "completed" ELSE "failed"]

Conclude(ok) ==
  /\ pc' = "cleanup"
  /\ outcome' = [outcome EXCEPT ![current] = IF ok THEN "ok" ELSE "failed"]

\* Nobody listens, or the proxy's validation refuses the request (422).
PostFails ==
  /\ pc = "post"
  /\ Conclude(FALSE)
  /\ UNCHANGED <<proxyVars, current, returned>>

\* status == "completed", and result.json is there and says success.
Success(status, file) == status = "completed" /\ file.by # None /\ file.ok

\* The response of the proxy.
Answered ==
  /\ pc = "posted" /\ thread[current] = "done" /\ reply[current] # "none"
  /\ LET file == outbox[Dir(current)]
         ok == Success(reply[current], file)
     IN
     /\ Conclude(ok)
     /\ returned' = [returned EXCEPT ![current] = IF ok THEN file.by ELSE None]
  /\ UNCHANGED <<proxyVars, current>>

\* httpx gives up after wall_timeout + 30 s, or sees the connection break:
\* WorkerExecutionError, while the thread, if it lives, goes on.
PostTimesOut ==
  /\ pc = "posted"
  /\ Conclude(FALSE)
  /\ UNCHANGED <<proxyVars, current, returned>>

\* _cleanup_sandbox_dir: the container may still be running.
Cleanup ==
  /\ pc = "cleanup"
  /\ pc' = "idle" /\ current' = None
  /\ DirBecomes(current, NoDir)
  /\ UNCHANGED <<ProxyRest, thread, reply, outcome, returned>>

\* The orchestrator dies; the next one finds the directory and executes the
\* job again, as another attempt.
Crash ==
  /\ pc # "idle" /\ Death
  /\ pc' = "idle" /\ current' = None
  /\ outcome' = [outcome EXCEPT ![current] = IF @ = "running" THEN "lost" ELSE @]
  /\ UNCHANGED <<up, thread, reply, container, age, outbox, doomed, killed, failures, returned>>

-----------------------------------------------------------------------------

Caller ==
  \/ \E a \in Attempts : Execute(a)
  \/ Post \/ PostFails \/ Answered \/ PostTimesOut \/ Cleanup

Proxy ==
  \/ \E a \in Attempts : Thread(a) \/ AgentWrites(a) \/ AgentExits(a) \/ GcRemove(a)
  \/ GcList \/ Tick \/ ProxyDies \/ ProxyStarts

Next ==
  \/ Caller \/ Crash
  \/ Proxy /\ UNCHANGED callVars

Spec == Init /\ [][Next]_vars

\* Every Docker call has a timeout, the agent's one call to Ollama too, the
\* proxy is restarted ("restart: unless-stopped") and its loop never ends.
Fairness ==
  /\ WF_vars(Post \/ PostFails) /\ WF_vars(PostTimesOut) /\ WF_vars(Cleanup)
  /\ \A a \in Attempts :
       /\ WF_vars(Thread(a) /\ UNCHANGED callVars)
       /\ WF_vars(AgentExits(a) /\ UNCHANGED callVars)
       /\ WF_vars(GcRemove(a) /\ UNCHANGED callVars)
  /\ WF_vars(GcList /\ UNCHANGED callVars)
  /\ WF_vars(Tick /\ UNCHANGED callVars)
  /\ WF_vars(ProxyStarts /\ UNCHANGED callVars)

FairSpec == Spec /\ Fairness

-----------------------------------------------------------------------------
(* Properties                                                              *)

Computed == {a \in Attempts : container[a].zero}

Promise == INSTANCE WorkerCall WITH
  state <- outcome, result <- returned, computed <- Computed

\* The executor keeps its promise (WorkerCall): whatever containers of other
\* attempts still run, a success carries the result that this attempt's own
\* agent wrote before it exited with 0, and every call ends.
KeepsPromise == Promise!FairSpec

\* The garbage collector never takes a container from a thread that is still
\* waiting for it or reading its logs, however late the list is acted upon.
GcSparesRuns ==
  [][\A a \in Attempts :
       a \in doomed /\ a \notin doomed' /\ ~Is(a, "gone") /\ container'[a].is = "gone"
         => thread[a] \notin {"start", "wait", "logs"}]_vars

\* A container outlives its thread only because the proxy died with the
\* thread, or because Docker refused to create, kill or remove it in time:
\* one for each refusal.
Leftover(a) == Is(a, "created") \/ Is(a, "running") \/ Is(a, "exited")
LeftoversAccounted ==
  Cardinality({a \in Attempts \ killed : thread[a] = "done" /\ Leftover(a)}) <= failures

\* THREAT-MODEL.md: the garbage collector removes orphaned stopped containers;
\* that is, all that were ever started, whoever died.
OrphansCollected ==
  \A a \in Attempts :
    thread[a] = "done" /\ (Is(a, "running") \/ Is(a, "exited")) ~> Is(a, "gone")

\* Not so for a container that was created and never started: the collector
\* lists status=exited only, and the name stays taken.
CreatedCollected ==
  \A a \in Attempts : thread[a] = "done" /\ Is(a, "created") ~> Is(a, "gone")
=============================================================================
