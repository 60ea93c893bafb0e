-------------------------------- MODULE Trust --------------------------------
(***************************************************************************)
(* Trust levels of capabilities: the state file                            *)
(* (orchestrator/capability_state.py), the startup sequence that           *)
(* reconciles it with capabilities.json and with the Ollama model          *)
(* (startup.py), the demotion engine (demotion_engine.py), and the         *)
(* outcomes a promotion recommendation counts.                             *)
(*                                                                         *)
(* Every mutator of the state manager ends in save(), which replaces the   *)
(* whole file, so between two of them the file and the memory agree: st is *)
(* both.  A demotion and a promotion out of suspension are two mutators,   *)
(* and a death may fall in between.  A demotion by the engine changes the  *)
(* state first and emits its event after; reconciliation emits first.      *)
(* Emitting is the only await: other handlers run while it is in flight.   *)
(***************************************************************************)
EXTENDS Integers, Sequences, FiniteSets

CONSTANTS
  Caps,          \* registered capabilities
  Packager,      \* "context.package", the one a strip failure suspends
  Requests,      \* concurrent requests that demote
  Main,          \* the call startup itself makes
  Desired,       \* bound: the desired_wal_level values an operator writes
  Threshold,     \* FAILURE_DEMOTION_THRESHOLD (3 in the code)
  RingMax,       \* EVALUABLE_OUTCOMES_MAX (200 in the code)
  Models,        \* bound: the models Ollama serves are 1 .. Models
  MaxEdits, MaxCrashes, MaxEmitFailures, MaxOutages, MaxOutcomes, MaxCalls,
  MaxTotal,      \* bound: of all these together
  None

ASSUME TrustAssumption ==
  /\ Packager \in Caps
  /\ IsFiniteSet(Requests)
  /\ Main \notin Requests
  /\ Desired \subseteq 0 .. 3
  /\ Threshold \in Nat \ {0}
  /\ RingMax \in Nat \ {0}
  /\ Models \in Nat \ {0}
  /\ None \notin 1 .. Models \cup Caps
  /\ MaxEdits \in Nat /\ MaxCrashes \in Nat /\ MaxEmitFailures \in Nat
  /\ MaxOutages \in Nat /\ MaxOutcomes \in Nat /\ MaxCalls \in Nat

VARIABLES
  config,        \* capabilities.json: desired levels, and anything else
  model,         \* the model Ollama serves
  st,            \* capabilities.state.json
  pc,            \* startup: off, reconcile, apply, model, change, serving
  todo,          \* capabilities the reconciliation has still to visit
  reg,           \* the configuration this process loaded
  seen,          \* the model this startup was told, None for no answer
  call,          \* calls waiting for an answer to an event
  log,           \* wal.promoted and wal.demoted events, per capability
  lastKnown,     \* history: the last model a completed startup was told
  torn,          \* history: a death fell between the saves of a transition
  count,         \* how often each bounded thing happened
  overrides      \* history: the wal.demoted events of the job manager

vars == <<config, model, st, pc, todo, reg, seen, call, log, lastKnown, torn, count,
          overrides>>

Levels == -1 .. 3
Configs == [Caps -> Desired] \X BOOLEAN
Known == 1 .. Models
Callers == Requests \cup {Main}
Fresh == [level |-> 0, status |-> "active", outcomes |-> <<>>, failures |-> 0]
CapState == [level : Levels, status : {"active", "suspended"},
             outcomes : Seq([good : BOOLEAN, at : Levels]), failures : Nat]
Bounds == [edits |-> MaxEdits, crashes |-> MaxCrashes, outages |-> MaxOutages,
           emitFailures |-> MaxEmitFailures, outcomes |-> MaxOutcomes,
           calls |-> MaxCalls]
Idle == [busy |-> FALSE, cap |-> None, from |-> 0, to |-> 0, todo |-> {}]
\* A model change announced, none of the affected capabilities demoted yet.
Announced(affected) ==
  [busy |-> TRUE, cap |-> None, from |-> 0, to |-> 0, todo |-> affected]

TypeOK ==
  /\ config \in Configs
  /\ model \in Known
  /\ st \in [caps : [Caps -> CapState], hash : Configs \cup {<<>>},
             model : Known \cup {None}]
  /\ \A c \in Caps : Len(st.caps[c].outcomes) <= RingMax
  /\ pc \in {"off", "reconcile", "apply", "model", "change", "serving"}
  /\ todo \in SUBSET Caps
  /\ reg \in Configs
  /\ seen \in Known \cup {None}
  /\ call \in [Callers -> [busy : BOOLEAN, cap : Caps \cup {None},
                           from : Levels, to : Levels, todo : SUBSET Caps]]
  /\ log \in [Caps -> [net : Int, grant : Levels \cup {None}]]
  /\ lastKnown \in Known \cup {None}
  /\ torn \in BOOLEAN
  /\ count \in [DOMAIN Bounds -> Nat]
  /\ \A k \in DOMAIN Bounds : count[k] <= Bounds[k]
  /\ overrides \in [Caps -> Nat]

\* initialize_from_registry: no state file, so every capability starts at 0
\* and no configuration is recorded.
Init ==
  /\ config \in [Caps -> Desired] \X {FALSE}
  /\ model = 1
  /\ st = [caps |-> [c \in Caps |-> Fresh], hash |-> <<>>, model |-> None]
  /\ pc = "off"
  /\ todo = {}
  /\ reg = config
  /\ seen = None
  /\ call = [r \in Callers |-> Idle]
  /\ log = [c \in Caps |-> [net |-> 0, grant |-> None]]
  /\ lastKnown = None
  /\ torn = FALSE
  /\ count = [k \in DOMAIN Bounds |-> 0]
  /\ overrides = [c \in Caps |-> 0]

Total == count.edits + count.crashes + count.outages + count.emitFailures
           + count.outcomes + count.calls

Once(k) ==
  /\ count[k] < Bounds[k]
  /\ Total < MaxTotal
  /\ count' = [count EXCEPT ![k] = @ + 1]

-----------------------------------------------------------------------------
(* capability_state.py *)

\* get_effective_wal
Eff(s, c) == IF s.caps[c].status = "suspended" THEN -1 ELSE s.caps[c].level

\* demote, and suspend when the level is -1.
Demoted(s, c, to) ==
  [s EXCEPT !.caps[c] =
     [level |-> to, status |-> IF to = -1 THEN "suspended" ELSE "active",
      outcomes |-> @.outcomes, failures |-> @.failures]]

\* reset_counters
Reset(s, c) ==
  [s EXCEPT !.caps[c] = [level |-> @.level, status |-> @.status,
                         outcomes |-> <<>>, failures |-> 0]]

\* A demotion: two saves, nothing awaited in between.
DemotedAndReset(s, c, to) == Reset(Demoted(s, c, to), c)

\* The eviction tests the length the ring had before the append.
RecordedOver(s, c, good) ==
  LET old == s.caps[c].outcomes
      new == [good |-> good, at |-> Eff(s, c)]
  IN [s EXCEPT !.caps[c].outcomes =
        Append(IF Len(old) > RingMax THEN Tail(old) ELSE old, new)]

\* record_outcome: the oldest one leaves a full ring.
Recorded(s, c, good) ==
  LET all == Append(s.caps[c].outcomes, [good |-> good, at |-> Eff(s, c)])
  IN [s EXCEPT !.caps[c].outcomes = IF Len(all) > RingMax THEN Tail(all) ELSE all]

\* record_failure, then evict_old_failures: all but kept older ones are gone.
Failed(s, c, kept) == [s EXCEPT !.caps[c].failures = kept + 1]

\* set_effective_wal, then the status when the capability was suspended.
Raised(s, c, to) == [s EXCEPT !.caps[c].level = to]
Activated(s, c) == [s EXCEPT !.caps[c].status = "active"]

Logged(c, from, to) ==
  [log EXCEPT ![c] = [net |-> @.net + to - from,
                      grant |-> IF pc = "reconcile" /\ to > from THEN to ELSE None]]

-----------------------------------------------------------------------------
(* startup.run *)

\* The registry's order; any fixed one will do.
Visited == CHOOSE c \in todo : TRUE
Wanted == reg[1][Visited]
Actual == Eff(st, Visited)

\* Load configuration and state, compare the configuration's hash (here its
\* value) with the one the last completed startup recorded.
Boot ==
  /\ pc = "off"
  /\ reg' = config
  /\ pc' = IF st.hash = config THEN "model" ELSE "reconcile"
  /\ todo' = IF st.hash = config THEN {} ELSE Caps
  /\ UNCHANGED <<config, model, st, seen, call, log, lastKnown, torn, count, overrides>>

ReconcileSame ==
  /\ pc = "reconcile"
  /\ todo # {}
  /\ Wanted = Actual
  /\ todo' = todo \ {Visited}
  /\ UNCHANGED <<config, model, st, pc, reg, seen, call, log, lastKnown, torn, count, overrides>>

\* The event first ...
ReconcileEmit ==
  /\ pc = "reconcile"
  /\ todo # {}
  /\ Wanted # Actual
  /\ log' = Logged(Visited, Actual, Wanted)
  /\ pc' = "apply"
  /\ UNCHANGED <<config, model, st, todo, reg, seen, call, lastKnown, torn, count, overrides>>

\* A demotion by the operator keeps the counters.
AppliedKeepingCounters ==
  IF Wanted > Actual THEN Activated(Raised(st, Visited, Wanted), Visited)
  ELSE Demoted(st, Visited, Wanted)

\* ... then the level.
Applied ==
  IF Wanted > Actual
  THEN LET s == Raised(st, Visited, Wanted)
       IN IF Actual = -1 THEN Activated(s, Visited) ELSE s
  ELSE DemotedAndReset(st, Visited, Wanted)

ReconcileApply ==
  /\ pc = "apply"
  /\ st' = Applied
  /\ todo' = todo \ {Visited}
  /\ pc' = "reconcile"
  /\ UNCHANGED <<config, model, reg, seen, call, log, lastKnown, torn, count, overrides>>

ReconcileDone ==
  /\ pc = "reconcile"
  /\ todo = {}
  /\ pc' = "model"
  /\ UNCHANGED <<config, model, st, todo, reg, seen, call, log, lastKnown, torn, count, overrides>>

\* The model is recorded as soon as it is known.
ReadModelRecorded(m) ==
  /\ pc = "model"
  /\ m = model \/ m = None
  /\ IF m = None THEN Once("outages") ELSE UNCHANGED count
  /\ seen' = m
  /\ pc' = "change"
  /\ st' = [st EXCEPT !.model = m]
  /\ call' = IF st.model # None /\ m # None /\ st.model # m
             THEN [call EXCEPT ![Main] = Announced(Caps)]
             ELSE call
  /\ UNCHANGED <<config, model, todo, reg, log, lastKnown, torn, overrides>>

\* get_ollama_model_info: the model, or None when Ollama does not answer.
\* Only two known models can differ; a difference is announced by an event,
\* and handle_model_change continues in Main's call.
ReadModel(m) ==
  /\ pc = "model"
  /\ \/ m = model /\ UNCHANGED count
     \/ m = None /\ Once("outages")
  /\ seen' = m
  /\ pc' = "change"
  /\ call' = IF st.model # None /\ m # None /\ st.model # m
             THEN [call EXCEPT ![Main] = Announced(Caps)]
             ELSE call
  /\ UNCHANGED <<config, model, st, todo, reg, log, lastKnown, torn, overrides>>

\* Step 8: what was loaded and what was seen are recorded, seen or not.
Finish ==
  /\ pc = "change"
  /\ ~call[Main].busy
  /\ st' = [caps |-> st.caps, hash |-> reg, model |-> seen]
  /\ lastKnown' = IF seen = None THEN lastKnown ELSE seen
  /\ pc' = "serving"
  /\ UNCHANGED <<config, model, todo, reg, seen, call, log, torn, count, overrides>>

-----------------------------------------------------------------------------
(* demotion_engine.py *)

\* _execute_demotion up to its await; the model change loop goes on with rest.
Demote(r, c, to, rest) ==
  /\ st' = DemotedAndReset(st, c, to)
  /\ call' = [call EXCEPT ![r] = [busy |-> TRUE, cap |-> c, from |-> Eff(st, c),
                                  to |-> to, todo |-> rest]]

\* The level demoted to is read again after the await, a suspension's is not.
EmitDoneReread(r) ==
  LET left == {c \in call[r].todo : Eff(st, c) # 0}
  IN /\ call[r].busy
     /\ log' = IF call[r].cap = None THEN log
               ELSE Logged(call[r].cap, call[r].from,
                           IF call[r].to = -1 THEN -1 ELSE Eff(st, call[r].cap))
     /\ IF left = {}
        THEN call' = [call EXCEPT ![r] = Idle] /\ UNCHANGED st
        ELSE \E c \in left : \E passed \in SUBSET (call[r].todo \ left) :
               Demote(r, c, 0, call[r].todo \ (passed \cup {c}))
     /\ UNCHANGED <<config, model, pc, todo, reg, seen, lastKnown, torn, count, overrides>>

\* The answer to the event a call waits for.  The model change loop goes on to
\* the next capability not at 0, passing some that are at 0 just now; those
\* after it in the list are looked at when the loop reaches them.
EmitDone(r) ==
  LET left == {c \in call[r].todo : Eff(st, c) # 0}
  IN /\ call[r].busy
     /\ log' = IF call[r].cap = None THEN log
               ELSE Logged(call[r].cap, call[r].from, call[r].to)
     /\ IF left = {}
        THEN call' = [call EXCEPT ![r] = Idle] /\ UNCHANGED st
        ELSE \E c \in left : \E passed \in SUBSET (call[r].todo \ left) :
               Demote(r, c, 0, call[r].todo \ (passed \cup {c}))
     /\ UNCHANGED <<config, model, pc, todo, reg, seen, lastKnown, torn, count, overrides>>

\* emit_durable gives up: the call ends in an exception, its loop with it.
EmitFails(r) ==
  /\ call[r].busy
  /\ r # Main
  /\ Once("emitFailures")
  /\ call' = [call EXCEPT ![r] = Idle]
  /\ UNCHANGED <<config, model, st, pc, todo, reg, seen, log, lastKnown, torn, overrides>>

Serving(r) ==
  /\ pc = "serving"
  /\ r # Main
  /\ ~call[r].busy
  /\ Once("calls")
  /\ UNCHANGED <<config, model, pc, todo, reg, seen, log, lastKnown, torn, overrides>>

\* JobManager._demote_for_override, after a cancel or a redirect of a job that c
\* governs and no sentinel failure preceded: wal.demoted from 0 to -1, whatever
\* the level is; the state manager is not called.
DemoteForOverride(r, c) ==
  /\ pc = "serving"
  /\ ~call[r].busy
  /\ Once("calls")
  /\ call' = [call EXCEPT ![r] = [busy |-> TRUE, cap |-> c, from |-> 0, to |-> -1,
                                  todo |-> {}]]
  /\ overrides' = [overrides EXCEPT ![c] = @ + 1]
  /\ UNCHANGED <<config, model, st, pc, todo, reg, seen, log, lastKnown, torn>>

\* handle_override_demotion, no prior sentinel failure; of the program's own
\* code only /admin/simulate-override calls it.
Override(r, c) ==
  /\ Serving(r)
  /\ Eff(st, c) >= 1
  /\ Demote(r, c, Eff(st, c) - 1, {})

\* handle_job_failure: the third within 24 hours costs a level.
JobFailure(r, c) ==
  /\ Serving(r)
  /\ \E kept \in 0 .. st.caps[c].failures :
       IF kept + 1 >= Threshold /\ Eff(st, c) > 0
       THEN Demote(r, c, Eff(st, c) - 1, {})
       ELSE st' = Failed(st, c, kept) /\ UNCHANGED call

\* handle_strip_failure: context.package is suspended.
Strip(r) ==
  /\ Serving(r)
  /\ Eff(st, Packager) # -1
  /\ Demote(r, Packager, -1, {})

\* Any capability whose score has decayed is set to level 2.
DecayAtAnyLevel(r, c) ==
  LET outcomes == st.caps[c].outcomes
      bad == Cardinality({i \in DOMAIN outcomes : ~outcomes[i].good})
  IN /\ Serving(r)
     /\ 100 * bad > Len(outcomes)
     /\ Demote(r, c, 2, {})

\* handle_approval_decay: at level 3, a score below 0.99 ("modified", half a
\* point, is left out).
Decay(r, c) ==
  LET outcomes == st.caps[c].outcomes
      bad == Cardinality({i \in DOMAIN outcomes : ~outcomes[i].good})
  IN /\ Serving(r)
     /\ Eff(st, c) = 3
     /\ 100 * bad > Len(outcomes)
     /\ Demote(r, c, 2, {})

\* trigger_model_change: announced for some capabilities, then the loop.
ModelChange(r, affected) ==
  /\ Serving(r)
  /\ call' = [call EXCEPT ![r] = Announced(affected)]
  /\ UNCHANGED st

\* admin_routes.record_outcome
RecordOutcome(c, good) ==
  /\ pc = "serving"
  /\ Once("outcomes")
  /\ st' = Recorded(st, c, good)
  /\ UNCHANGED <<config, model, pc, todo, reg, seen, call, log, lastKnown, torn, overrides>>

-----------------------------------------------------------------------------
(* The environment *)

\* The operator edits capabilities.json, or Ollama's model is replaced.  Startups
\* alone look at either, so what happens while the process runs may as well happen
\* before the next startup.
EditConfig(edited) ==
  /\ pc = "off"
  /\ config' = edited
  /\ Once("edits")
  /\ UNCHANGED <<model, st, pc, todo, reg, seen, call, log, lastKnown, torn, overrides>>

ReplaceModel(m) ==
  /\ pc = "off"
  /\ m # model
  /\ Once("edits")
  /\ model' = m
  /\ UNCHANGED <<config, st, pc, todo, reg, seen, call, log, lastKnown, torn, overrides>>

\* The process dies, with s left in the file.
Die(s) ==
  /\ pc # "off"
  /\ Once("crashes")
  /\ st' = s
  /\ pc' = "off"
  /\ todo' = {}
  /\ seen' = None
  /\ call' = [r \in Callers |-> Idle]
  /\ UNCHANGED <<config, model, reg, log, lastKnown, overrides>>

Crash == Die(st) /\ UNCHANGED torn

\* What a handler, or the model change loop, could be doing just now.
Demoting(c, to) ==
  \/ pc = "serving" /\ Eff(st, c) >= 1 /\ to = Eff(st, c) - 1
  \/ pc = "serving" /\ c = Packager /\ Eff(st, c) # -1 /\ to = -1
  \/ \E r \in Callers : c \in call[r].todo /\ Eff(st, c) # 0 /\ to = 0
  \/ pc = "apply" /\ c = Visited /\ Wanted < Actual /\ to = Wanted

\* Dead after demote, before reset_counters.
TornDemotion ==
  /\ \E c \in Caps, to \in Levels : Demoting(c, to) /\ Die(Demoted(st, c, to))
  /\ torn' = TRUE

\* Dead after set_effective_wal, before the status.
TornPromotion ==
  /\ pc = "apply"
  /\ Wanted > Actual
  /\ Die(Raised(st, Visited, Wanted))
  /\ torn' = TRUE

Startup ==
  \/ Boot
  \/ ReconcileSame
  \/ ReconcileEmit
  \/ ReconcileApply
  \/ ReconcileDone
  \/ \E m \in Known \cup {None} : ReadModel(m)
  \/ Finish

Handlers ==
  \/ \E r \in Callers : EmitDone(r)
  \/ \E r \in Callers : EmitFails(r)
  \/ \E r \in Requests, c \in Caps : DemoteForOverride(r, c)
  \/ \E r \in Requests, c \in Caps : Override(r, c)
  \/ \E r \in Requests, c \in Caps : JobFailure(r, c)
  \/ \E r \in Requests : Strip(r)
  \/ \E r \in Requests, c \in Caps : Decay(r, c)
  \/ \E r \in Requests, a \in SUBSET Caps : ModelChange(r, a)
  \/ \E c \in Caps, good \in BOOLEAN : RecordOutcome(c, good)

Environment ==
  \/ \E c \in Caps : \E level \in Desired \ {config[1][c]} :
       EditConfig(<<[config[1] EXCEPT ![c] = level], config[2]>>)
  \/ EditConfig(<<config[1], ~config[2]>>)
  \/ \E m \in Known : ReplaceModel(m)
  \/ Crash
  \/ TornDemotion
  \/ TornPromotion

Next == Startup \/ Handlers \/ Environment

Spec == Init /\ [][Next]_vars

-----------------------------------------------------------------------------
(* Properties *)

\* A capability is trusted more than at level 0 only up to a level that an
\* audited wal.promoted event already granted it: no demotion, un-suspension,
\* model change or torn save ever raises it by itself (startup.reconcile
\* emits before it sets).
RiseIsGranted ==
  [][\A c \in Caps : Eff(st', c) > Eff(st, c) /\ Eff(st', c) > 0
                       => log'[c].grant = Eff(st', c)]_vars

\* The evidence a promotion recommendation counts was earned at the level the
\* capability holds or at a lower one, never at a level it has lost: every
\* demotion resets the counters (demotion_engine._execute_demotion,
\* startup.reconcile).  Only a death between the two saves can break it.
EvidenceFresh ==
  ~torn => \A c \in Caps : \A i \in DOMAIN st.caps[c].outcomes :
             st.caps[c].outcomes[i].at <= Eff(st, c)

\* With no death and no failed event the audit log is off the level of a
\* capability by the overrides of the job manager alone, a level each: the
\* events of startup and engine, logged and in flight, lead from 0 to the level
\* held, however the calls interleave (_execute_demotion).
Rising(c) == {p \in Callers \X Levels :
                call[p[1]].cap = c /\ call[p[1]].from <= p[2] /\ p[2] < call[p[1]].to}
Falling(c) == {p \in Callers \X Levels :
                 call[p[1]].cap = c /\ call[p[1]].to <= p[2] /\ p[2] < call[p[1]].from}
\* The levels climbed less those lost, over all calls with an event in flight.
InFlight(c) == Cardinality(Rising(c)) - Cardinality(Falling(c))
LogOffByOverrides ==
  count.crashes = 0 /\ count.emitFailures = 0 /\ pc # "apply"
    => \A c \in Caps : log[c].net + InFlight(c) = Eff(st, c) - overrides[c]

\* A capability the log has at WAL-(-1) once an override was logged for it is
\* suspended, nothing being in flight ("After this demotion, `route.local` is at
\* WAL-(-1) (suspended)", SCENARIOS.md:275; JobManager._demote_for_override).
OverrideSuspends ==
  (\A r \in Callers : ~call[r].busy)
    => \A c \in Caps : overrides[c] > 0 /\ log[c].net = -1 => Eff(st, c) = -1

\* A startup that is told another model than the last startup that was told
\* one opens with every capability at level 0 or below, even if that last
\* change was interrupted by a death ("Model change -> WAL-0 for all affected
\* capabilities", demotion_engine.handle_model_change).
ModelChangeDemotes ==
  [][pc' = "serving" /\ pc = "change" /\ seen # None /\ lastKnown \notin {None, seen}
       => \A c \in Caps : Eff(st', c) <= 0]_vars

\* ... as long as Ollama answered at every startup in between.
AnsweredModelChangeDemotes ==
  [][pc' = "serving" /\ pc = "change" /\ seen # None /\ lastKnown \notin {None, seen}
       /\ count.outages = 0
       => \A c \in Caps : Eff(st', c) <= 0]_vars

=============================================================================
