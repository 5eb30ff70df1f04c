SPECIFICATION Spec
CONSTANTS
  k1 = k1
  k2 = k2
  Absent = Absent
  Key <- OneKey
  Command <- Renewals
  Installable <- NoStates
  Encrypted = FALSE
  MaxInt64 = 2
  MaxBatch = 1
  MaxNow = 3
  MaxOps = 3
  MaxFaults = 0
  MaxCrashes = 0
  MaxCompactions = 0
  MaxInstalls = 0
INVARIANTS
  RecoversWhatWasServed
CHECK_DEADLOCK FALSE
