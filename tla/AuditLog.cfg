SPECIFICATION Spec
CONSTANTS
  d1 = d1
  d2 = d2
  b1 = b1
  Events = {d1, d2, b1}
  Durable = {d1, d2}
  MaxRetries = 2
  Days = 3
  MaxCrashes = 2
  MaxFaults = 1
  Window = 2
INVARIANTS
  TypeOK
  LogVerifies
  LoggedExactlyOnce
  GateAgrees
PROPERTIES
  NothingErased
  RepairNeverWorsens
SYMMETRY EventSymmetry
CHECK_DEADLOCK FALSE
