SPECIFICATION Spec
CONSTANTS
  k1 = k1
  k2 = k2
  Absent = Absent
  Key <- OneKey
  Command <- Swaps
  Installable <- NoStates
  Encrypted = TRUE
  MaxInt64 = 2
  MaxBatch = 1
  MaxNow = 1
  MaxOps = 2
  MaxFaults = 0
  MaxCrashes = 1
  MaxCompactions = 0
  MaxInstalls = 0
INVARIANTS
  LogStaysReadable
CHECK_DEADLOCK FALSE
