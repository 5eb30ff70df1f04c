SPECIFICATION Spec
CONSTANTS
  Node = {n1, n2}
  Nil = Nil
  Command = {c1, c2}
  MaxTerm = 2
  MaxLog = 2
  MaxCrashes = 1
  MaxSaveFailures = 0
  MaxStray = 0
  MaxAppendCalls = 1
SYMMETRY Symmetry
CHECK_DEADLOCK FALSE
INVARIANTS
  LogTermsAscend
  LogMatching
  KnownLeaderWasElected
PROPERTIES
  LeadsTermOnce
