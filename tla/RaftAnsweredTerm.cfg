SPECIFICATION Spec
CONSTANTS
  Node = {n1, n2}
  Nil = Nil
  Command = {c1}
  MaxTerm = 1
  MaxLog = 0
  MaxCrashes = 0
  MaxSaveFailures = 0
  MaxStray = 0
  MaxAppendCalls = 0
SYMMETRY Symmetry
CHECK_DEADLOCK FALSE
INVARIANT AnsweredTermIsSaved
