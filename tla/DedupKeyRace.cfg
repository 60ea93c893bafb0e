SPECIFICATION Spec
CONSTANTS
  s1 = s1
  s2 = s2
  s3 = s3
  p1 = p1
  p2 = p2
  k1 = k1
  e1 = e1
  i1 = i1
  i2 = i2
  None = None
  Submits = {s1, s2}
  Processes = {p1}
  Keys = {k1}
  Events = {}
  Intents = {i1}
  MaxCrashes = 0
  MaxFailures = 0
SYMMETRY Symmetry
INVARIANT
  OneJobPerKey
