---------------------------- MODULE CloudDispatch ----------------------------
(***************************************************************************)
(* The cloud branch of the pipeline: package the prompt, have it declared, *)
(* emit job.dispatched, post it to the egress gateway, and make a result   *)
(* or a failure of the response; with a client that gives up after 60 s    *)
(* while the gateway waits for 90 s, and with both processes restarting.   *)
(*                                                                         *)
(* A call is one passage of a job through the pipeline; a job that is      *)
(* executed again after a crash is another call.  What follows a result    *)
(* (holds, events, delivery) is JobManager's.                              *)
(***************************************************************************)
EXTENDS ContextPackager, EgressGateway

CONSTANTS
  NoCall,
  MaxCrashes,   \* bound on the crashes of the orchestrator
  MaxFailures   \* bound on the emits that raise

ASSUME CloudAssumption == NoCall \notin Calls /\ MaxCrashes \in Nat /\ MaxFailures \in Nat

VARIABLES
  pc,        \* the cloud branch: its program point
  current,   \* the call it works for
  outcome,   \* of each call
  text,      \* the response text of a call that succeeded
  crashes,   \* crashes of the orchestrator so far (history)
  failures   \* emits that raised so far (history)

pipelineVars == <<pc, current, outcome, text, crashes, failures>>
vars == <<packagerVars, gatewayVars, pipelineVars>>

TypeOK ==
  /\ PackagerTypeOK /\ GatewayTypeOK
  /\ pc \in {"idle", "package", "dispatch", "posted"}
  /\ current \in Calls \cup {NoCall}
  /\ outcome \in [Calls -> {"new", "running", "succeeded", "failed", "lost"}]
  /\ text \in [Calls -> {"none", "answer", "empty"}]
  /\ crashes \in Nat /\ failures \in Nat

Init ==
  /\ PackagerInit /\ GatewayInit
  /\ pc = "idle" /\ current = NoCall
  /\ outcome = [c \in Calls |-> "new"]
  /\ text = [c \in Calls |-> "none"]
  /\ crashes = 0 /\ failures = 0

Ends(result) ==
  /\ pc' = "idle" /\ current' = NoCall
  /\ outcome' = [outcome EXCEPT ![current] = result]

Begin(c) ==
  /\ pc = "idle" /\ outcome[c] = "new"
  /\ pc' = "package" /\ current' = c
  /\ outcome' = [outcome EXCEPT ![c] = "running"]
  /\ UNCHANGED <<packagerVars, gatewayVars, text, crashes, failures>>

Packaging ==
  /\ pc = "package"
  /\ Package
  /\ pc' = IF step' = "done" THEN "dispatch" ELSE "package"
  /\ UNCHANGED <<gatewayVars, current, outcome, text, crashes, failures>>

\* context.packaged, a context.strip_detail or job.dispatched: the exception
\* handler of the worker loop fails the job.
EmitRaises ==
  /\ \/ pc = "package" /\ step = "packaged"
     \/ pc = "package" /\ step = "details" /\ todo # {}
     \/ pc = "dispatch"
  /\ failures < MaxFailures /\ failures' = failures + 1
  /\ Ends("failed")
  /\ Forget
  /\ UNCHANGED <<gatewayVars, text, crashes>>

\* job.dispatched emitted; the gateway takes the request.
Post ==
  /\ pc = "dispatch"
  /\ Dispatch(current)
  /\ Forget
  /\ pc' = "posted"
  /\ UNCHANGED <<current, outcome, text, crashes, failures>>

\* No connection, or none any more, or no response within 60 s: the exception
\* handler fails the job; the gateway, if it has the request, goes on.
PostFails ==
  /\ pc \in {"dispatch", "posted"}
  /\ Ends("failed")
  /\ Forget
  /\ UNCHANGED <<gatewayVars, text, crashes, failures>>

\* Mutant: only a blocked request is a failure.
OnlyBlocked(r) == r = "blocked"

\* status in ("blocked", "error"); "broken" is no JSON.
Unsuccessful(r) == r \in {"blocked", "error", "broken"}

\* The response's text, or "" if it has none.
Answered ==
  /\ pc = "posted" /\ reply[current] # "none"
  /\ IF Unsuccessful(reply[current])
     THEN Ends("failed") /\ UNCHANGED text
     ELSE /\ Ends("succeeded")
          /\ text' = [text EXCEPT ![current] =
                        IF reply[current] = "ok" THEN "answer" ELSE "empty"]
  /\ UNCHANGED <<packagerVars, gatewayVars, crashes, failures>>

Crash ==
  /\ pc # "idle" /\ crashes < MaxCrashes
  /\ crashes' = crashes + 1
  /\ Ends("lost")
  /\ Forget
  /\ UNCHANGED <<gatewayVars, text, failures>>

Gateway ==
  \/ \E c \in Calls : ProviderAnswers(c)
  \/ Tick \/ GatewayRestarts

Next ==
  \/ \E c \in Calls : Begin(c)
  \/ Packaging \/ EmitRaises \/ Post \/ PostFails \/ Answered \/ Crash
  \/ Gateway /\ UNCHANGED <<packagerVars, pipelineVars>>

Spec == Init /\ [][Next]_vars

-----------------------------------------------------------------------------
(* Properties                                                              *)

Reaches(c) == handler[c] # "calling" /\ handler'[c] = "calling"

\* What reaches a provider is the text without its matches: nothing a strip
\* pattern matched in any form, nothing a generalize pattern matched as it
\* was, and no other character lost, however the matches overlap
\* (STATUS.md 3.5: "most restrictive wins").
ProviderSeesFiltered == [][\A c \in Calls : Reaches(c) => Filtered]_vars

\* Every match in a text that reaches a provider is declared in the audit log
\* before, within a span of an action at least as restrictive.
SentIsDeclared == [][\A c \in Calls : Reaches(c) => FullyDeclared]_vars

\* The provider gets at most Rpm requests in any Window from one process of
\* the gateway, those whose client has given up included.
RateBounded == Cardinality({c \in spent : age[c] < Window}) <= Rpm

\* A call succeeds only with the provider's answer to it, except when the
\* gateway refuses the orchestrator's token: the body of a 401 has no status,
\* and the job goes on with an empty text.
SuccessIsAnswered ==
  \A c \in Calls :
    outcome[c] = "succeeded" =>
      IF token THEN text[c] = "answer" /\ reply[c] = "ok" ELSE text[c] = "empty"

\* The gateway is fail-closed ("all dispatch is rejected"), but its rejection
\* is a success to the pipeline.
RefusedFails == \A c \in Calls : outcome[c] = "succeeded" => text[c] = "answer"
=============================================================================
