------------------------------ MODULE HubState ------------------------------
(***************************************************************************)
(* HubStateManager: whether this hub may process jobs.  The state is       *)
(* written through to SQLite and loaded by the next process; the clients'  *)
(* heartbeat decides at startup whether the hub has to ask again.          *)
(*                                                                         *)
(* The hub_state_change events are handed to ensure_future and awaited by  *)
(* nobody; they are left out.                                              *)
(***************************************************************************)

VARIABLES
  hub,      \* HubStateManager._state
  hubRow,   \* the persisted "hub:state"
  recent,   \* the persisted heartbeat is younger than the authority timeout
  mandate   \* the human's last word that still counts (history)

hubVars == <<hub, hubRow, recent, mandate>>

States == {"active", "suspended", "awaiting_authority"}

HubTypeOK ==
  /\ hub \in States
  /\ hubRow \in States
  /\ recent \in BOOLEAN
  /\ mandate \in {"none", "run", "stop"}

\* A new installation: no row, so a constructed manager is ACTIVE, and no
\* heartbeat.
HubInit == hub = "active" /\ hubRow = "active" /\ recent = FALSE /\ mandate = "none"

\* Mutant: the state is kept in memory only.
SetHubInMemory(s) == hub' = s /\ UNCHANGED hubRow

SetHub(s) == hub' = s /\ hubRow' = s

Suspend ==
  /\ hub # "suspended"
  /\ SetHub("suspended")
  /\ mandate' = "stop"
  /\ UNCHANGED recent

\* resume and confirm_authority: the same transition from either of the other
\* states (the events' reasons differ).
Activate ==
  /\ hub # "active"
  /\ SetHub("active")
  /\ mandate' = "run"
  /\ UNCHANGED recent

\* GET /hub_status, the one request that records a heartbeat.
RecordHeartbeat == ~recent /\ recent' = TRUE /\ UNCHANGED <<hub, hubRow, mandate>>

\* Time passes: the last heartbeat gets older than the authority timeout.
HeartbeatAges == recent /\ recent' = FALSE /\ UNCHANGED <<hub, hubRow, mandate>>

LoadHub == hub' = hubRow /\ UNCHANGED <<hubRow, recent, mandate>>

\* Without a recent heartbeat the mandate of the previous process lapses,
\* whatever the persisted state says.
StartupSelfCheck ==
  IF recent
  THEN UNCHANGED hubVars
  ELSE /\ SetHub("awaiting_authority")
       /\ mandate' = "none"
       /\ UNCHANGED recent
=============================================================================
