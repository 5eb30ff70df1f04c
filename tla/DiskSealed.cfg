SPECIFICATION Spec
CONSTANTS
  k1 = k1
  k2 = k2
  Absent = Absent
  Key <- TwoKeys
  Command <- Writes
  Installable <- NoStates
  Encrypted = TRUE
  MaxInt64 = 2
  MaxBatch = 2
  MaxNow = 1
  MaxOps = 3
  MaxFaults = 2
  MaxCrashes = 2
  MaxCompactions = 1
  MaxInstalls = 0
CHECK_DEADLOCK FALSE
INVARIANTS
  RecoveredIsAdmissible
