------------------------- MODULE ConnectivityMonitor -------------------------
(***************************************************************************)
(* ConnectivityMonitor: one circuit breaker per cloud route, fed by the    *)
(* background probes.  The counters and the state are written through to   *)
(* SQLite when the monitor has a connection, and loaded when it is         *)
(* constructed.  Timestamps and the fire-and-forget connectivity events    *)
(* are left out.                                                           *)
(***************************************************************************)
EXTENDS Naturals, Sequences

CONSTANTS
  Routes,             \* the routes of egress.json
  FailuresToOpen,     \* FAILURES_TO_OPEN
  SuccessesToClosed,  \* SUCCESSES_TO_CLOSED
  MaxProbes           \* bound on the probes of a route, per process

ASSUME MonitorAssumption ==
  /\ FailuresToOpen \in Nat \ {0}
  /\ SuccessesToClosed \in Nat \ {0}
  /\ MaxProbes \in Nat

VARIABLES
  health,       \* ConnectivityMonitor._health
  attached,     \* _db is not None
  circuitRow,   \* the persisted "circuit:" rows (fresh where there is none)
  probes        \* results of this process's probes (history)

monitorVars == <<health, attached, circuitRow, probes>>

CircuitState == {"closed", "open", "half_open"}

RouteHealth == [state: CircuitState, consecutive_failures: Nat,
                consecutive_successes: Nat]

FreshHealth == [state |-> "closed", consecutive_failures |-> 0,
                consecutive_successes |-> 0]

MonitorTypeOK ==
  /\ health \in [Routes -> RouteHealth]
  /\ attached \in BOOLEAN
  /\ circuitRow \in [Routes -> RouteHealth]
  /\ probes \in [Routes -> Seq(BOOLEAN)]
  /\ \A r \in Routes :
       \/ health[r].consecutive_failures = 0
       \/ health[r].consecutive_successes = 0

MonitorInit ==
  /\ health = [r \in Routes |-> FreshHealth]
  /\ attached = FALSE
  /\ circuitRow = [r \in Routes |-> FreshHealth]
  /\ probes = [r \in Routes |-> <<>>]

\* Mutant: a success does not end a run of failures.
CountedSticky(h, success) ==
  [h EXCEPT !.consecutive_successes = IF success THEN @ + 1 ELSE 0,
            !.consecutive_failures = IF success THEN @ ELSE @ + 1]

Counted(h, success) ==
  [h EXCEPT !.consecutive_successes = IF success THEN @ + 1 ELSE 0,
            !.consecutive_failures = IF success THEN 0 ELSE @ + 1]

\* Mutant: one success after an outage closes the breaker.
NextStateEager(h) ==
  IF h.consecutive_failures >= FailuresToOpen THEN "open"
  ELSE IF h.consecutive_successes >= 1 THEN "closed" ELSE h.state

\* The hysteresis of _record_result on updated counters: the old state stays
\* unless a threshold is reached or an open breaker sees a success.
NextState(h) ==
  CASE h.consecutive_failures >= FailuresToOpen -> "open"
    [] h.consecutive_successes >= SuccessesToClosed -> "closed"
    [] h.state = "open" /\ h.consecutive_successes \in 1..(SuccessesToClosed - 1) -> "half_open"
    [] OTHER -> h.state

RecordResult(h, success) ==
  LET counted == Counted(h, success) IN [counted EXCEPT !.state = NextState(counted)]

\* probe_route: any answer below 500 is a success, an error or a timeout a
\* failure.  Nothing read before the request is used after it.
ProbeRoute(r) ==
  \E success \in BOOLEAN :
    /\ Len(probes[r]) < MaxProbes
    /\ probes' = [probes EXCEPT ![r] = Append(@, success)]
    /\ health' = [health EXCEPT ![r] = RecordResult(@, success)]
    /\ circuitRow' = IF attached THEN [circuitRow EXCEPT ![r] = health'[r]] ELSE circuitRow
    /\ UNCHANGED attached

\* __init__ and _load_from_db.  path: a database path is known.
ConstructMonitor(path) ==
  /\ attached' = path
  /\ health' = IF path THEN circuitRow ELSE [r \in Routes |-> FreshHealth]
  /\ probes' = [r \in Routes |-> <<>>]
  /\ UNCHANGED circuitRow

IsRouteAvailable(r) == r \in Routes /\ health[r].state \in {"closed", "half_open"}

-----------------------------------------------------------------------------
(* Properties                                                              *)

RunOf(s, i, n, success) == i >= n /\ \A k \in (i - n + 1)..i : s[k] = success

LastEnd(s, n, success) ==
  LET ends == {i \in 1..Len(s) : RunOf(s, i, n, success)} \cup {0} IN
  CHOOSE i \in ends : \A k \in ends : k <= i

\* The state a sequence of probe results calls for: closed unless a run of
\* FAILURES_TO_OPEN failures ended after the last run of SUCCESSES_TO_CLOSED
\* successes; then open while the failures go on and half open after.
Verdict(s) ==
  LET opened == LastEnd(s, FailuresToOpen, FALSE)
      closed == LastEnd(s, SuccessesToClosed, TRUE)
  IN
  IF opened <= closed THEN "closed"
  ELSE IF opened = Len(s) THEN "open" ELSE "half_open"

\* The breaker is exactly the hysteresis of Spec 7 section 2.1 over the probes
\* of this process, however its two counters got where they are.
BreakerFollowsProbes ==
  \A r \in Routes : health[r].state = Verdict(probes[r])
=============================================================================
