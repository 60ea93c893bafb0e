SPECIFICATION Spec
CONSTANTS
  j1 = j1
  j2 = j2
  cloud = cloud
  NoJob = NoJob
  Local = Local
  Jobs = {j1, j2}
  Routes = {cloud}
  FailuresToOpen = 2
  SuccessesToClosed = 2
  MaxProbes = 4
  MaxCrashes = 1
  MaxCancels = 1
  MaxFailures = 1
INVARIANTS
  TypeOK
  BreakerFollowsProbes
  ContextsAccounted
  SandboxesAccounted
PROPERTY
  StartsAreMandated
SYMMETRY JobSymmetry
