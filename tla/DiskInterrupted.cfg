SPECIFICATION Spec
CONSTANTS
  k1 = k1
  k2 = k2
  Absent = Absent
  Key <- TwoKeys
  Command <- Counts
  Installable <- NoStates
  Encrypted = FALSE
  MaxInt64 = 2
  MaxBatch = 1
  MaxNow = 1
  MaxOps = 2
  MaxFaults = 0
  MaxCrashes = 0
  MaxCompactions = 1
  MaxInstalls = 0
INVARIANTS
  RecoveryIsIdempotent
CHECK_DEADLOCK FALSE
