----------------------------- MODULE WorkerCall ------------------------------
(***************************************************************************)
(* What the pipeline is promised by WorkerExecutor.execute: one call at a  *)
(* time, each of which ends, and ends with a result only if this call's    *)
(* own worker computed it.  Nothing is said of containers, files, HTTP.    *)
(***************************************************************************)
CONSTANTS
  Attempts,   \* executions of a job in a worker: worker ids
  None

VARIABLES
  state,      \* of each attempt
  result,     \* whose computation an attempt returned
  computed    \* attempts whose worker finished with success

vars == <<state, result, computed>>

States == {"new", "running", "ok", "failed", "lost"}

Init ==
  /\ state = [a \in Attempts |-> "new"]
  /\ result = [a \in Attempts |-> None]
  /\ computed = {}

Start(a) ==
  /\ state[a] = "new"
  /\ \A b \in Attempts : state[b] # "running"
  /\ state' = [state EXCEPT ![a] = "running"]
  /\ UNCHANGED <<result, computed>>

\* A worker may finish long after its call was given up.
Compute(a) ==
  /\ state[a] # "new"
  /\ computed' = computed \cup {a}
  /\ UNCHANGED <<state, result>>

Succeed(a) ==
  /\ state[a] = "running" /\ a \in computed
  /\ state' = [state EXCEPT ![a] = "ok"]
  /\ result' = [result EXCEPT ![a] = a]
  /\ UNCHANGED computed

\* An error for the caller, or the end of the caller's process.
Fail(a) ==
  /\ state[a] = "running"
  /\ \E end \in {"failed", "lost"} : state' = [state EXCEPT ![a] = end]
  /\ UNCHANGED <<result, computed>>

End(a) == Succeed(a) \/ Fail(a)

Next == \E a \in Attempts : Start(a) \/ Compute(a) \/ End(a)

Spec == Init /\ [][Next]_vars

FairSpec == Spec /\ \A a \in Attempts : WF_vars(End(a))
=============================================================================
