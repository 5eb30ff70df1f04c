SPECIFICATION Spec
CONSTANTS
  k1 = k1
  k2 = k2
  Absent = Absent
  Key <- OneKey
  Command <- Swaps
  Installable <- NoStates
  Encrypted = FALSE
  MaxInt64 = 2
  MaxBatch = 1
  MaxNow = 1
  MaxOps = 1
  MaxFaults = 0
  MaxCrashes = 0
  MaxCompactions = 0
  MaxInstalls = 0
INVARIANTS
  CrashedStoreOpens
CHECK_DEADLOCK FALSE
