SPECIFICATION Spec
CONSTANTS
  k1 = k1
  k2 = k2
  Absent = Absent
  Key <- OneKey
  Command <- Deadlines
  Installable <- NoStates
  Encrypted = FALSE
  MaxInt64 = 2
  MaxBatch = 1
  MaxNow = 3
  MaxOps = 5
  MaxFaults = 0
  MaxCrashes = 1
  MaxCompactions = 1
  MaxInstalls = 0
INVARIANTS
  NoResurrection
CHECK_DEADLOCK FALSE
