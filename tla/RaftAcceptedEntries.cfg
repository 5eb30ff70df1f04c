SPECIFICATION Spec
CONSTANTS
  Node = {n1, n2}
  Nil = Nil
  Command = {c1}
  MaxTerm = 1
  MaxLog = 1
  MaxCrashes = 0
  MaxSaveFailures = 1
  MaxStray = 0
  MaxAppendCalls = 1
SYMMETRY Symmetry
CHECK_DEADLOCK FALSE
PROPERTY AcceptedEntriesAreSaved
