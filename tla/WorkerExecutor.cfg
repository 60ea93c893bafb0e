SPECIFICATION FairSpec
CONSTANTS
  a1 = a1
  a2 = a2
  None = None
  Attempts = {a1, a2}
  GcAge = 2
  Prompt = 1
  MaxDeaths = 1
  MaxFailures = 1
INVARIANTS
  TypeOK
  LeftoversAccounted
PROPERTIES
  KeepsPromise
  GcSparesRuns
  OrphansCollected
