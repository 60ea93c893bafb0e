---------------------------- MODULE EgressGateway ----------------------------
(***************************************************************************)
(* The egress gateway's POST /dispatch: the authority token, the checks in *)
(* the order of the code, the sliding-window rate limiter, and the call to *)
(* the provider.  Several requests may be in the gateway: one per client   *)
(* that still waits, and those whose client has given up.                  *)
(*                                                                         *)
(* From the token check to the call there is no await: one step.  The      *)
(* limiter and the registry are those of one route.  The provider          *)
(* adapters, costs and response bodies are left out.                       *)
(***************************************************************************)
EXTENDS Naturals, FiniteSets

CONSTANTS
  Calls,       \* POST /dispatch requests
  Rpm,         \* rate_limit_rpm of the route
  Window,      \* 60 s, in ticks
  MaxStarts    \* bound on the restarts of the gateway

ASSUME GatewayAssumption ==
  IsFiniteSet(Calls) /\ Rpm \in Nat /\ Window \in Nat \ {0} /\ MaxStarts \in Nat

VARIABLES
  token,       \* the orchestrator's token is set and is the gateway's
  admits,      \* registry: the route exists, is enabled, and allows capability and model
  equipped,    \* the route's secret is set and its provider known
  window,      \* SlidingWindowRateLimiter._windows: calls with a timestamp
  age,         \* ticks since the timestamp of a call, up to Window
  handler,     \* dispatch(): before, in, or after the call to the provider
  reply,       \* the response
  spent,       \* calls of this process to the provider (history)
  starts       \* restarts so far (history)

gatewayVars == <<token, admits, equipped, window, age, handler, reply, spent, starts>>

Reply == {"none", "refused", "blocked", "error", "broken", "ok"}

GatewayTypeOK ==
  /\ token \in BOOLEAN /\ admits \in BOOLEAN /\ equipped \in BOOLEAN
  /\ window \subseteq Calls
  /\ age \in [Calls -> 0..Window]
  /\ handler \in [Calls -> {"none", "calling", "done"}]
  /\ reply \in [Calls -> Reply]
  /\ spent \subseteq Calls
  /\ starts \in Nat

GatewayInit ==
  /\ token \in BOOLEAN /\ admits \in BOOLEAN /\ equipped \in BOOLEAN
  /\ window = {} /\ spent = {}
  /\ age = [c \in Calls |-> 0]
  /\ handler = [c \in Calls |-> "none"]
  /\ reply = [c \in Calls |-> "none"]
  /\ starts = 0

\* Mutant: entries leave the window a tick early.
RecentEarly(c) == age[c] + 1 < Window

\* t > now - 60.0
Recent(c) == age[c] < Window

Below(n) == n < Rpm

\* SlidingWindowRateLimiter.check: prune, compare, append.
Pruned == {c \in window : Recent(c)}
Allowed == Below(Cardinality(Pruned))

Stamp(c) ==
  /\ window' = Pruned \cup {c}
  /\ age' = [age EXCEPT ![c] = 0]

\* FastAPI answers 401 with a body that has no "status".  (It would answer 422 so
\* too, but every field the orchestrator sends is a string.)
Refused(c) ==
  /\ ~token
  /\ reply' = [reply EXCEPT ![c] = "refused"]
  /\ handler' = [handler EXCEPT ![c] = "done"]
  /\ UNCHANGED <<window, age, spent>>

\* Checks 1 to 4, then the limiter.
Blocked(c) ==
  /\ token
  /\ \/ ~admits /\ UNCHANGED <<window, age>>
     \/ admits /\ ~Allowed /\ window' = Pruned /\ UNCHANGED age
     \/ admits /\ Allowed /\ ~equipped /\ Stamp(c)
  /\ reply' = [reply EXCEPT ![c] = "blocked"]
  /\ handler' = [handler EXCEPT ![c] = "done"]
  /\ UNCHANGED spent

\* All checks passed: the request to the provider is on its way.
Called(c) ==
  /\ token /\ admits /\ Allowed /\ equipped
  /\ Stamp(c)
  /\ spent' = spent \cup {c}
  /\ handler' = [handler EXCEPT ![c] = "calling"]
  /\ UNCHANGED reply

Dispatch(c) ==
  /\ handler[c] = "none"
  /\ Refused(c) \/ Blocked(c) \/ Called(c)
  /\ UNCHANGED <<token, admits, equipped, starts>>

\* The provider's response, an HTTP error, a timeout after 90 s, an answer
\* that cannot be parsed, or an exception nobody catches (500).
ProviderAnswers(c) ==
  /\ handler[c] = "calling"
  /\ \E r \in {"ok", "error", "broken"} : reply' = [reply EXCEPT ![c] = r]
  /\ handler' = [handler EXCEPT ![c] = "done"]
  /\ UNCHANGED <<token, admits, equipped, window, age, spent, starts>>

Tick ==
  /\ age' = [c \in Calls |->
               IF c \in window \cup spent /\ age[c] < Window THEN age[c] + 1 ELSE age[c]]
  /\ UNCHANGED <<token, admits, equipped, window, handler, reply, spent, starts>>

\* The window is in memory only; the registry is read again.
GatewayRestarts ==
  /\ starts < MaxStarts
  /\ starts' = starts + 1
  /\ window' = {} /\ spent' = {}
  /\ age' = [c \in Calls |-> 0]
  /\ admits' \in BOOLEAN /\ equipped' \in BOOLEAN
  /\ handler' = [c \in Calls |-> IF handler[c] = "calling" THEN "done" ELSE handler[c]]
  /\ UNCHANGED <<token, reply>>
=============================================================================
