SPECIFICATION Spec
CONSTANTS
  route = route
  package = package
  r1 = r1
  r2 = r2
  main = main
  None = None
  Caps = {route, package}
  Packager = package
  Requests = {r1, r2}
  Main = main
  Desired = {0, 3}
  Threshold = 2
  RingMax = 1
  Models = 2
  MaxEdits = 1
  MaxCrashes = 2
  MaxEmitFailures = 0
  MaxOutages = 1
  MaxOutcomes = 0
  MaxCalls = 0
  MaxTotal = 4
PROPERTIES
  ModelChangeDemotes
CHECK_DEADLOCK FALSE
