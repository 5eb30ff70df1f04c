SPECIFICATION Spec
CONSTANTS
  k1 = k1
  k2 = k2
  Absent = Absent
  Key <- OneKey
  Command <- Swaps
  Installable <- NoStates
  Encrypted = FALSE
  MaxInt64 = 2
  MaxBatch = 1
  MaxNow = 1
  MaxOps = 3
  MaxFaults = 1
  MaxCrashes = 0
  MaxCompactions = 0
  MaxInstalls = 0
INVARIANTS
  RecoveredIsAdmissible
CHECK_DEADLOCK FALSE
