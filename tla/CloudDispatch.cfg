SPECIFICATION Spec
CONSTANTS
  c1 = c1
  c2 = c2
  NoCall = NoCall
  Calls = {c1, c2}
  Length = 3
  MaxSpans = 3
  Scans <- UpTo
  Rpm = 1
  Window = 2
  MaxStarts = 1
  MaxCrashes = 1
  MaxFailures = 1
INVARIANTS
  TypeOK
  RateBounded
  SuccessIsAnswered
PROPERTIES
  ProviderSeesFiltered
  SentIsDeclared
