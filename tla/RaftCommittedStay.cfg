SPECIFICATION Spec
CONSTANTS
  Node = {n1, n2}
  Nil = Nil
  Command = {c1}
  MaxTerm = 1
  MaxLog = 1
  MaxCrashes = 0
  MaxSaveFailures = 0
  MaxStray = 1
  MaxAppendCalls = 2
SYMMETRY Symmetry
CHECK_DEADLOCK FALSE
PROPERTY CommittedEntriesStay
