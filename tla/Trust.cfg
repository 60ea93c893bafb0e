SPECIFICATION Spec
CONSTANTS
  route = route
  package = package
  r1 = r1
  r2 = r2
  main = main
  None = None
  Caps = {route, package}
  Packager = package
  Requests = {r1, r2}
  Main = main
  Desired = {0, 3}
  Threshold = 2
  RingMax = 1
  Models = 2
  MaxEdits = 2
  MaxCrashes = 2
  MaxEmitFailures = 1
  MaxOutages = 1
  MaxOutcomes = 2
  MaxCalls = 2
  MaxTotal = 5
INVARIANTS
  TypeOK
  EvidenceFresh
  LogOffByOverrides
PROPERTIES
  RiseIsGranted
  AnsweredModelChangeDemotes
SYMMETRY RequestSymmetry
CHECK_DEADLOCK FALSE
