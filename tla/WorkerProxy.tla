----------------------------- MODULE WorkerProxy -----------------------------
(***************************************************************************)
(* The worker-proxy sidecar: a thread per POST /containers/run that        *)
(* creates, starts, awaits and removes one container, and the garbage      *)
(* collector for the containers whose thread could not.  The Docker daemon *)
(* and the worker agent inside the container are part of the picture.      *)
(*                                                                         *)
(* A container is identified with the call it serves (an attempt), a       *)
(* sandbox directory too.  Every call to Docker returns, raises or times   *)
(* out.  The validation of the request, DELETE and GET .../logs (which     *)
(* nothing calls) and the translation of paths are left out.               *)
(***************************************************************************)
EXTENDS Naturals, FiniteSets

CONSTANTS
  Attempts,      \* POST /containers/run calls
  None,
  GcAge,         \* GC_MAX_AGE, in ticks
  Prompt,        \* Docker answers wait and logs for an exited container in this time
  MaxDeaths,     \* bound on the deaths of the proxy and the orchestrator
  MaxFailures    \* bound on the Docker calls that raise

\* GC_MAX_AGE is 300 s, against 120 and 60 (Served).
ASSUME ProxyAssumption ==
  /\ IsFiniteSet(Attempts) /\ None \notin Attempts
  /\ GcAge \in Nat /\ Prompt \in Nat /\ 0 < Prompt /\ Prompt < GcAge
  /\ MaxDeaths \in Nat /\ MaxFailures \in Nat

VARIABLES
  up,          \* the proxy runs
  thread,      \* _run_container_sync for an attempt: the Docker call it is in
  reply,       \* its response, of which the status matters
  container,   \* Docker's state of the attempt's container
  age,         \* ticks since the container exited
  outbox,      \* result.json in the sandbox directory of an attempt
  doomed,      \* containers the running GC sweep has still to remove
  deaths,      \* deaths of the proxy and the orchestrator so far (history)
  killed,      \* threads that died with the proxy (history)
  failures     \* Docker calls that raised so far (history)

proxyVars == <<up, thread, reply, container, age, outbox, doomed, deaths, killed, failures>>

ThreadPc == {"none", "create", "start", "wait", "logs", "kill", "remove", "done"}

\* "failed" stands for the statuses "failed" and "timeout" and for 404 and 500:
\* all of them are failures of the worker to the caller.
Reply == {"none", "completed", "failed"}

\* wrote: what a running agent has put in its outbox; zero: it exited with 0.
Container ==
  [is: {"none", "created", "running", "exited", "gone"},
   wrote: {"nothing", "success", "error"}, zero: BOOLEAN]

NoContainer == [is |-> "none", wrote |-> "nothing", zero |-> FALSE]

\* there: the directory exists; by: the attempt whose agent wrote result.json.
Outbox == [there: BOOLEAN, by: Attempts \cup {None}, ok: BOOLEAN]
NoDir == [there |-> FALSE, by |-> None, ok |-> FALSE]
EmptyDir == [there |-> TRUE, by |-> None, ok |-> FALSE]

ProxyTypeOK ==
  /\ up \in BOOLEAN
  /\ thread \in [Attempts -> ThreadPc]
  /\ reply \in [Attempts -> Reply]
  /\ container \in [Attempts -> Container]
  /\ age \in [Attempts -> 0..GcAge]
  /\ outbox \in [Attempts -> Outbox]
  /\ doomed \subseteq Attempts
  /\ deaths \in Nat /\ failures \in Nat
  /\ killed \subseteq Attempts

ProxyInit ==
  /\ up = TRUE
  /\ thread = [a \in Attempts |-> "none"]
  /\ reply = [a \in Attempts |-> "none"]
  /\ container = [a \in Attempts |-> NoContainer]
  /\ age = [a \in Attempts |-> 0]
  /\ outbox = [a \in Attempts |-> NoDir]
  /\ doomed = {} /\ killed = {}
  /\ deaths = 0 /\ failures = 0

\* Mutant: one directory per job, whose attempts these are.
DirPerJob(a) == CHOOSE b \in Attempts : TRUE

\* "{job_id}_{worker_id}"
Dir(a) == a

Is(a, s) == container[a].is = s
Becomes(a, s) == container' = [container EXCEPT ![a].is = s]

Gone(a) ==
  /\ container' = [container EXCEPT ![a] =
                    [is |-> "gone", wrote |-> "nothing", zero |-> @.zero]]
  /\ age' = [age EXCEPT ![a] = 0]

At(a, call) == up /\ thread[a] = call
Go(a, call) == thread' = [thread EXCEPT ![a] = call]
Answer(a, status) == reply' = [reply EXCEPT ![a] = status]

Failure == failures < MaxFailures /\ failures' = failures + 1

\* What the thread of an attempt leaves alone, its Docker calls apart.
Rest == <<up, age, outbox, doomed, deaths, killed>>

-----------------------------------------------------------------------------
(* _run_container_sync: one action per Docker call.                        *)

\* The name is free, or belongs to another container: job_id[:12] and
\* worker_id[:8] are the upper digits of times, equal for jobs submitted within
\* 16 ms and workers prepared within 65 s.
NameTaken(a) == \E b \in Attempts \ {a} : container[b].is \notin {"none", "gone"}

Create(a) ==
  /\ At(a, "create")
  /\ Becomes(a, "created")
  /\ Go(a, "start")
  /\ UNCHANGED <<reply, failures, Rest>>

\* A conflict of names, a missing image, any other error: 404 or 500.
CreateRaises(a) ==
  /\ At(a, "create")
  /\ \/ NameTaken(a) /\ UNCHANGED failures
     \/ Failure
  /\ Answer(a, "failed")
  /\ Go(a, "done")
  /\ UNCHANGED <<container, Rest>>

\* The answer is late: the container may exist, but the variable that
\* "finally" looks at is still None.
CreateTimesOut(a) ==
  /\ At(a, "create") /\ Failure
  /\ \/ Becomes(a, "created")
     \/ UNCHANGED container
  /\ Answer(a, "failed")
  /\ Go(a, "done")
  /\ UNCHANGED Rest

Start(a) ==
  /\ At(a, "start")
  /\ Becomes(a, "running")
  /\ Go(a, "wait")
  /\ UNCHANGED <<reply, failures, Rest>>

\* After a timeout the container may be running.
StartRaises(a) ==
  /\ At(a, "start") /\ Failure
  /\ \E s \in {"created", "running"} : Becomes(a, s)
  /\ Answer(a, "failed")
  /\ Go(a, "remove")
  /\ UNCHANGED Rest

WaitReturns(a) ==
  /\ At(a, "wait") /\ Is(a, "exited")
  /\ IF container[a].zero
     THEN Answer(a, "completed") /\ Go(a, "remove")
     ELSE Go(a, "logs") /\ UNCHANGED reply
  /\ UNCHANGED <<container, failures, Rest>>

\* wall_timeout has passed, or the connection to Docker is lost, whatever the
\* container does: both go through kill.
WaitTimesOut(a) ==
  /\ At(a, "wait")
  /\ \/ Is(a, "running") /\ UNCHANGED failures
     \/ ~Is(a, "running") /\ Failure
  /\ Answer(a, "failed")
  /\ Go(a, "kill")
  /\ UNCHANGED <<container, Rest>>

\* An error of Docker, or the container is not there any more.
CallRaises(a) ==
  /\ At(a, "wait") \/ At(a, "logs")
  /\ \/ Is(a, "gone") /\ UNCHANGED failures
     \/ Failure
  /\ Answer(a, "failed")
  /\ Go(a, "remove")
  /\ UNCHANGED <<container, Rest>>

ReadLogs(a) ==
  /\ At(a, "logs") /\ ~Is(a, "gone")
  /\ Answer(a, "failed")
  /\ Go(a, "remove")
  /\ UNCHANGED <<container, failures, Rest>>

Exit(a, zero) ==
  /\ container' = [container EXCEPT ![a] = [is |-> "exited", wrote |-> "nothing", zero |-> zero]]
  /\ age' = [age EXCEPT ![a] = 0]

Kill(a) ==
  /\ At(a, "kill")
  /\ IF Is(a, "running") THEN Exit(a, FALSE) ELSE UNCHANGED <<container, age>>
  /\ Go(a, "remove")
  /\ UNCHANGED <<up, reply, outbox, doomed, deaths, killed, failures>>

\* Swallowed.
KillRaises(a) ==
  /\ At(a, "kill") /\ Failure
  /\ Go(a, "remove")
  /\ UNCHANGED <<reply, container, Rest>>

\* Mutant: the container is removed on the way that ends well only.
FinallyOnSuccess(a) == reply[a] = "completed"

\* The finally clause: whatever the way out.
Finally(a) == TRUE

\* force=True: running or not.
Remove(a) ==
  /\ At(a, "remove")
  /\ IF Finally(a) THEN Gone(a) ELSE UNCHANGED <<container, age>>
  /\ Go(a, "done")
  /\ UNCHANGED <<up, reply, outbox, doomed, deaths, killed, failures>>

\* Logged.
RemoveRaises(a) ==
  /\ At(a, "remove") /\ Failure
  /\ Go(a, "done")
  /\ UNCHANGED <<reply, container, Rest>>

Thread(a) ==
  \/ Create(a) \/ CreateRaises(a) \/ CreateTimesOut(a)
  \/ Start(a) \/ StartRaises(a)
  \/ WaitReturns(a) \/ WaitTimesOut(a) \/ CallRaises(a) \/ ReadLogs(a)
  \/ Kill(a) \/ KillRaises(a) \/ Remove(a) \/ RemoveRaises(a)

-----------------------------------------------------------------------------
(* worker_agent.py, in a running container.                                *)

\* write_result: into the directory the container was started with, in one
\* os.replace; that fails if the directory is gone.
AgentWrites(a) ==
  /\ Is(a, "running") /\ container[a].wrote = "nothing"
  /\ outbox[Dir(a)].there
  /\ \E ok \in BOOLEAN :
       /\ outbox' = [outbox EXCEPT ![Dir(a)] = [there |-> TRUE, by |-> a, ok |-> ok]]
       /\ container' = [container EXCEPT ![a].wrote = IF ok THEN "success" ELSE "error"]
  /\ UNCHANGED <<up, thread, reply, age, doomed, deaths, killed, failures>>

\* It exits with 0 after a success only; it may end before it has written
\* (out of memory, an exception in write_result).
AgentExits(a) ==
  /\ Is(a, "running")
  /\ Exit(a, container[a].wrote = "success")
  /\ UNCHANGED <<up, thread, reply, outbox, doomed, deaths, killed, failures>>

-----------------------------------------------------------------------------
(* The garbage collector, and time.                                        *)

\* Mutant: the age is not looked at.
Expired(a) == TRUE

\* Mutant: the collector knows the containers of this process only.
ExpiredOwn(a) == age[a] >= GcAge /\ a \notin killed

OldEnough(a) == age[a] >= GcAge

\* client.containers.list(status=exited), then the age of each of them.
GcList ==
  /\ up /\ doomed = {}
  /\ doomed' = {a \in Attempts : Is(a, "exited") /\ OldEnough(a)}
  /\ UNCHANGED <<up, thread, reply, container, age, outbox, deaths, killed, failures>>

\* Removed meanwhile, or refused: logged, and on to the next one.
GcRemove(a) ==
  /\ up /\ a \in doomed
  /\ doomed' = doomed \ {a}
  /\ \/ ~Is(a, "gone") /\ Gone(a) /\ UNCHANGED failures
     \/ Is(a, "gone") /\ UNCHANGED <<container, age, failures>>
     \/ Failure /\ UNCHANGED <<container, age>>
  /\ UNCHANGED <<up, thread, reply, outbox, deaths, killed>>

\* A thread that waits for an exited container, or reads its logs, has its answer
\* or an exception before the container is Prompt ticks old: wait takes at most
\* wall_timeout, 120 s in every manifest of worker_lifecycle.py, and logs 60 s,
\* docker-py's default.  With the 300 s that ContainerRunRequest allows this
\* is an assumption that Docker answers promptly.
Served ==
  \A a \in Attempts : Is(a, "exited") /\ (At(a, "wait") \/ At(a, "logs")) => age[a] < Prompt

Tick ==
  /\ Served
  /\ age' = [a \in Attempts |->
               IF Is(a, "exited") /\ age[a] < GcAge THEN age[a] + 1 ELSE age[a]]
  /\ UNCHANGED <<up, thread, reply, container, outbox, doomed, deaths, killed, failures>>

-----------------------------------------------------------------------------
(* Deaths of the proxy.  The containers live on.                           *)

InFlight == {a \in Attempts : thread[a] \notin {"none", "done"}}

Death == deaths < MaxDeaths /\ deaths' = deaths + 1

ProxyDies ==
  /\ up /\ Death
  /\ up' = FALSE
  /\ killed' = killed \cup InFlight
  /\ thread' = [a \in Attempts |-> IF a \in InFlight THEN "done" ELSE thread[a]]
  /\ reply' = [a \in Attempts |-> IF a \in InFlight THEN "none" ELSE reply[a]]
  /\ doomed' = {}
  /\ UNCHANGED <<container, age, outbox, failures>>

ProxyStarts ==
  /\ ~up /\ up' = TRUE
  /\ UNCHANGED <<thread, reply, container, age, outbox, doomed, deaths, killed, failures>>
=============================================================================
