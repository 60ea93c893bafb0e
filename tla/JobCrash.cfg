SPECIFICATION Spec
CONSTANTS
  j1 = j1
  j2 = j2
  r1 = r1
  r2 = r2
  k1 = k1
  NoJob = NoJob
  NoKey = NoKey
  System = System
  Roots = {j1}
  Requests = {r1}
  Keys = {k1}
  QueueBound = 1
  MaxRecoveryDispatches = 1
  MaxCrashes = 2
  MaxFailures = 1
INVARIANTS
  SettledIsAudited
  RunsBounded
PROPERTY
  OverrideIsFinal
