SPECIFICATION Spec
CONSTANTS
  Node = {n1, n2}
  Nil = Nil
  Command = {c1}
  MaxTerm = 2
  MaxLog = 1
  MaxCrashes = 1
  MaxSaveFailures = 1
  MaxStray = 1
  MaxAppendCalls = 1
SYMMETRY Symmetry
CHECK_DEADLOCK FALSE
INVARIANTS
  TypeOK
  CleanMeansSaved
  VotesAreDurable
  ElectionIsDurable
  OneCallPerPeer
