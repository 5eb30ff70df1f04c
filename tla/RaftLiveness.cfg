SPECIFICATION FairSpec
CONSTANTS
  Node = {n1, n2}
  Nil = Nil
  Command = {c1}
  MaxTerm = 2
  MaxLog = 1
  MaxCrashes = 0
  MaxSaveFailures = 1
  MaxStray = 0
  MaxAppendCalls = 1
CHECK_DEADLOCK FALSE
PROPERTIES
  ElectionsEnd
  CallsEnd
