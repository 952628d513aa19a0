SPECIFICATION MCSpec
SYMMETRY Symmetry
CONSTANTS
  a = a
  b = b
  c0 = c0
  c1 = c1
  None = None
  NoFlight = NoFlight
  Docs <- MCDocs
  Contents <- MCContents
  Blank = c0
  Computed <- MCComputed
  Capacity = 1
  MaxEpoch = 2
  MaxSessions = 2
CHECK_DEADLOCK FALSE
INVARIANTS
  TypeOK
  FreshAnswersAreCurrent
  RestorableAnswersAreRight
  
